\* Two revalidations over three files; one file rewritten or edited, one
\* write that fails.
CONSTANTS
    p1 = p1
    p2 = p2
    p3 = p3
    v1 = v1
    v2 = v2
    Nobody = Nobody
    Paths = {p1, p2, p3}
    Revalidators = {v1, v2}
    Baseline <- MCBaseline
    Candidate <- MCCandidate
    Spelling <- MCSpelling
    KatNames <- MCKats
    SourceKats = {"source_kat"}
    Counterpart <- MCCounterpart
    Diagnostic = {"s3tc"}
    Runs <- MCRuns
    First <- MCFirst
    Later <- MCLater
    MaxChanges = 1
    MaxFaults = 1
SPECIFICATION Spec
INVARIANTS SealedReportsAreValid WitnessesPass PassedMeansSameFrames AuditIsTrue
CHECK_DEADLOCK FALSE
