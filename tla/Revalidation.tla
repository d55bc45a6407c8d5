--------------------------- MODULE Revalidation ---------------------------
(***************************************************************************)
(* utils/revalidate_oracles.py: sealed reports on disk are hashed, loaded, *)
(* made into an oracle (the baseline) or judged by it (the candidates),    *)
(* hashed again, and the verdict is published in a directory of its own.   *)
(* Meanwhile host runs may replace the files by the reports of other runs, *)
(* somebody may edit one, and another revalidation may want the same       *)
(* directory.                                                              *)
(***************************************************************************)
EXTENDS OracleReports, Functions

CONSTANTS
    Runs,           \* host runs (the id is the name of the run's directory,
                    \* and a console's backend is none of xemu's)
    Paths,
    First, Later,   \* the runs whose reports are there, and those to come
    Revalidators, Nobody,
    Baseline, Candidate,  \* [Revalidators -> sequences of paths]
    MaxChanges, MaxFaults   \* bounds: files that change, writes that fail

ASSUME RevalidationAssumption ==
    /\ First \subseteq [Paths -> DOMAIN Runs] /\ Later \subseteq DOMAIN Runs
    /\ \A n \in DOMAIN Runs : /\ Runs[n].type \in {"XEMU", "RETAIL_XBOX"}
                             /\ Runs[n].id # "none"
    /\ \A n, o \in DOMAIN Runs :
          /\ Runs[n].id = Runs[o].id => n = o
          /\ Runs[n].backend = Runs[o].backend => Runs[n].type = Runs[o].type
    /\ \A v \in Revalidators : /\ Baseline[v] \in Seq(Paths) \ {<<>>}
                               /\ Candidate[v] \in Seq(Paths) \ {<<>>}
    /\ Nobody \notin Revalidators
    /\ {MaxChanges, MaxFaults} \subseteq Nat

VARIABLES
    files,      \* [Paths -> <<sealed by a run, records of a run>>]
    used,       \* runs that have written their report
    pc, at,     \* at: the path a revalidator reads next
    before, loaded,   \* the files as they were hashed, as they were loaded
    oracle,
    output,     \* the directory: [made, consensus, audit]
    changes, faults

vars == <<files, used, pc, at, before, loaded, oracle, output, changes, faults>>
disk == <<files, used, changes>>

Arguments(v) == Baseline[v] \o Candidate[v]
SealedRuns == {n \in DOMAIN Runs : Buildable(Runs[n])}
ReportOf == [n \in SealedRuns |-> BuildReport(Runs[n])]

\* What a file holds: <<n, n>> is the report of n as it was sealed.
Content == [f \in SealedRuns \X SealedRuns |->
               [ReportOf[f[1]] EXCEPT !.records = ReportOf[f[2]].records]]
Contents(fs) == [i \in DOMAIN fs |-> Content[fs[i]]]

FirstReports(v) == Contents(SubSeq(loaded[v], 1, Len(Baseline[v])))
Judged(v) == Contents(SubSeq(loaded[v], Len(Baseline[v]) + 1, Len(loaded[v])))

Go(v, from, to) == pc[v] = from /\ pc' = [pc EXCEPT ![v] = to]

Init ==
    /\ \E f \in First :
          /\ IsInjective(f) /\ Range(f) \subseteq SealedRuns
          /\ files = [p \in Paths |-> <<f[p], f[p]>>]
          /\ used = Range(f)
    /\ pc = [v \in Revalidators |-> "start"] /\ at = [v \in Revalidators |-> 1]
    /\ before = [v \in Revalidators |-> <<>>] /\ loaded = before
    /\ oracle = [v \in Revalidators |-> <<>>]
    /\ output = [made |-> Nobody, consensus |-> {}, audit |-> {}]
    /\ changes = 0 /\ faults = 0

-----------------------------------------------------------------------------
(* The files                                                               *)

\* A run writes its report, over what is there.  Its observation id is new.
CaptureReport(p) ==
    /\ changes < MaxChanges /\ changes' = changes + 1
    /\ \E n \in (Later \cap SealedRuns) \ used :
          files' = [files EXCEPT ![p] = <<n, n>>] /\ used' = used \cup {n}
    /\ UNCHANGED <<pc, at, before, loaded, oracle, output, faults>>

\* A sealed report is given the records of another, and its old ids.
EditReport(p) ==
    /\ changes < MaxChanges /\ changes' = changes + 1
    /\ \E n \in used :
          /\ Content[files[p]].records # ReportOf[n].records
          /\ files' = [files EXCEPT ![p][2] = n]
    /\ UNCHANGED <<used, pc, at, before, loaded, oracle, output, faults>>

-----------------------------------------------------------------------------
(* main                                                                    *)

CheckOutput(v) ==
    /\ Go(v, "start", IF output.made = Nobody THEN "hash" ELSE "failed")
    /\ UNCHANGED <<disk, at, before, loaded, oracle, output, faults>>

\* Reading argument after argument; the last one ends the phase.
ReadNext(v, from, to) ==
    LET last == at[v] = Len(Arguments(v)) IN
    /\ Go(v, from, IF last THEN to ELSE from)
    /\ at' = [at EXCEPT ![v] = IF last THEN 1 ELSE @ + 1]

File(v) == files[Arguments(v)[at[v]]]

\* file_sha256: the digest of a file identifies its content.
Digest(f) == Content[f]

HashInput(v) ==
    /\ ReadNext(v, "hash", "load")
    /\ before' = [before EXCEPT ![v] = Append(@, File(v))]
    /\ UNCHANGED <<disk, loaded, oracle, output, faults>>

LoadReport(v) ==
    /\ \/ /\ ReportShape(Content[File(v)]) /\ ReadNext(v, "load", "judge")
          /\ loaded' = [loaded EXCEPT ![v] = Append(@, File(v))]
       \/ /\ ~ReportShape(Content[File(v)]) /\ Go(v, "load", "failed")
          /\ UNCHANGED <<at, loaded>>
    /\ UNCHANGED <<disk, before, oracle, output, faults>>

\* build_consensus, then validate_against_oracle on every candidate.
Judge(v) ==
    LET ps == FirstReports(v)
        ok == /\ CanAgree(ps)
              /\ \A i \in DOMAIN Judged(v) : Accepts(Consensus(ps), Judged(v)[i])
    IN
    /\ Go(v, "judge", IF ok THEN "rehash" ELSE "failed")
    /\ oracle' = [oracle EXCEPT ![v] = IF ok THEN <<Consensus(ps)>> ELSE @]
    /\ UNCHANGED <<disk, at, before, loaded, output, faults>>

\* (Bug: the inputs are not hashed again.)
RehashNothing(v) ==
    /\ ReadNext(v, "rehash", "mkdir")
    /\ UNCHANGED <<disk, before, loaded, oracle, output, faults>>

RehashInput(v) ==
    /\ pc[v] = "rehash"
    /\ \/ Digest(File(v)) = Digest(before[v][at[v]]) /\ ReadNext(v, "rehash", "mkdir")
       \/ /\ Digest(File(v)) # Digest(before[v][at[v]]) /\ Go(v, "rehash", "failed")
          /\ UNCHANGED at
    /\ UNCHANGED <<disk, before, loaded, oracle, output, faults>>

\* mkdir(exist_ok=False)
MakeOutput(v) ==
    /\ \/ /\ output.made = Nobody /\ Go(v, "mkdir", "consensus")
          /\ output' = [output EXCEPT !.made = v]
       \/ /\ output.made # Nobody /\ Go(v, "mkdir", "failed")
          /\ UNCHANGED output
    /\ UNCHANGED <<disk, at, before, loaded, oracle, faults>>

WriteFails(v) ==
    /\ pc[v] \in {"consensus", "audit"} /\ pc' = [pc EXCEPT ![v] = "failed"]
    /\ faults < MaxFaults /\ faults' = faults + 1
    /\ UNCHANGED <<disk, at, before, loaded, oracle, output>>

WriteConsensus(v) ==
    /\ Go(v, "consensus", "audit")
    /\ output' = [output EXCEPT !.consensus = {oracle[v][1]}]
    /\ UNCHANGED <<disk, at, before, loaded, oracle, faults>>

\* revalidation.json: the digests taken first, the reports that were loaded.
WriteAudit(v) ==
    /\ Go(v, "audit", "passed")
    /\ output' = [output EXCEPT !.audit =
                     {[oracle |-> oracle[v][1].oracleId,
                       inputs |-> loaded[v], files |-> before[v]]}]
    /\ UNCHANGED <<disk, at, before, loaded, oracle, faults>>

Step(v) ==
    \/ CheckOutput(v) \/ HashInput(v) \/ LoadReport(v) \/ Judge(v)
    \/ RehashInput(v) \/ MakeOutput(v) \/ WriteConsensus(v) \/ WriteAudit(v)
    \/ WriteFails(v)

Next == \/ \E p \in Paths : CaptureReport(p) \/ EditReport(p)
        \/ \E v \in Revalidators : Step(v)

Spec == Init /\ [][Next]_vars

-----------------------------------------------------------------------------
(* Whatever the guest wrote, a report that was sealed and left alone is     *)
(* never refused when it is loaded: what the normaliser lets through passes *)
(* the validator (normalized_records, _validate_normalized_records).        *)
SealedReportsAreValid ==
    \A v \in Revalidators : pc[v] = "load" =>
        LET f == File(v) IN f[1] = f[2] => ReportShape(Content[f])

(* An oracle made from loaded reports accepts each of its witnesses, in     *)
(* whatever order they were given and although only the records of the      *)
(* first are kept (build_consensus, validate_against_oracle).  A retail     *)
(* oracle does so unless a console failed a test of its own, which          *)
(* build_retail_consensus does not ask.                                     *)
Orders(v) == {ps \in UNION {[1..k -> Range(loaded[v])] : k \in 2..3} :
                 IsInjective(ps)}

WitnessesPass ==
    \A v \in Revalidators : pc[v] = "judge" =>
        \A ps \in Orders(v) : LET given == Contents(ps) IN
            /\ CanAgree(given) =>
                  \A i \in DOMAIN given : Accepts(Consensus(given), given[i])
            /\ CanAgreeRetail(given) /\ NoneFailed(given[1].records) =>
                  \A i \in DOMAIN given : Accepts(RetailConsensus(given), given[i])

(* What a guest showed of a test: its frame, or that it cannot be compared. *)
Shown(r) == IF r.frameEligible THEN Spelling[r.frame] ELSE "excluded"

(* A published revalidation passed over genuine reports of xemu runs of one *)
(* backend, guest and job; they ran the same tests under the same contracts *)
(* and showed the same frames, and no guest found a failure of its own.     *)
PassedMeansSameFrames ==
    \A a \in output.audit :
        \A i, j \in DOMAIN a.inputs :
            LET n == Runs[a.inputs[i][1]]  o == Runs[a.inputs[j][1]] IN
                 /\ Content[a.inputs[i]] = ReportOf[a.inputs[i][1]]
                 /\ n.type = "XEMU"
                 /\ n.backend = o.backend /\ n.guest = o.guest /\ n.job = o.job
                 /\ \A r \in n.raw :
                       /\ r.status \notin {"FAIL", "fail"}
                       /\ \E s \in o.raw : /\ s.name = r.name
                                           /\ s.contract = r.contract
                                           /\ Shown(s) = Shown(r)

(* A published audit is true: each digest is that of the report that was    *)
(* judged, though the file may have been replaced meanwhile, and the        *)
(* consensus.json beside it is the oracle that judged them, though another  *)
(* revalidation wanted the directory.  Three changes of one file are what   *)
(* it takes to make a digest untrue: see AuditsAreTrue.                     *)
AuditIsTrue ==
    \A a \in output.audit :
        /\ DOMAIN a.files = DOMAIN a.inputs
        /\ \A i \in DOMAIN a.inputs : Digest(a.files[i]) = Digest(a.inputs[i])
        /\ \A o \in output.consensus : o.oracleId = a.oracle
=============================================================================
