\* One run with every thread, and one fault in it.
CONSTANTS
    Runs <- MCRuns
    MaxFaults = 1
SPECIFICATION FairSpec
INVARIANTS PassedIsEarned EvidenceBeforeKill FailureOnDiskIsReported LedgerIsClean
PROPERTIES FirstFailureKept RunEnds
CHECK_DEADLOCK FALSE
