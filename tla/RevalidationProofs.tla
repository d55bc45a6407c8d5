------------------------ MODULE RevalidationProofs ------------------------
(***************************************************************************)
(* Proofs about the functional hash reports and their revalidation: what   *)
(* build_report seals passes _validate_report_shape, and what              *)
(* build_consensus and build_retail_consensus make of reports accepts each *)
(* of them.                                                                *)
(***************************************************************************)
EXTENDS Revalidation, FiniteSetTheorems, SequenceTheorems, TLAPS

-----------------------------------------------------------------------------
(* The normaliser and the validator                                        *)

(* The hashes that are kept: a KAT as the guest wrote it, anything else in  *)
(* its canonical spelling.                                                  *)
LEMMA KeptHashes ==
    ASSUME NEW r
    PROVE  /\ DOMAIN EligibleHashes(r) =
                 ({"frame"} \cup Sums(r) \cup RecordKats(r)) \ Excluded(r)
           /\ \A o \in DOMAIN EligibleHashes(r) :
                 EligibleHashes(r)[o] = IF o \in KatNames THEN r.metadata[o]
                                        ELSE Spelling[r[o]]
BY DEF EligibleHashes, RecordHashes

(* A record that the normaliser lets through (normalized_records) passes    *)
(* every test of _validate_normalized_records.                              *)
LEMMA NormalizedIsShaped ==
    ASSUME ReportAssumption, NEW r, Normalizable(r)
    PROVE  RecordShape(Normalized(r))
<1> DEFINE n == Normalized(r)
           present == DOMAIN n.hashes
<1>1. n.hashes = EligibleHashes(r) /\ n.excluded = Excluded(r)
      /\ n.test = r.name /\ n.contract = r.contract
      /\ n.reason = (IF Excluded(r) = {} THEN "none" ELSE r.reason)
      /\ n.oracle = InternalOracle(r)
  BY DEF Normalized
<1>2. present = ({"frame"} \cup Sums(r) \cup RecordKats(r)) \ Excluded(r)
  BY <1>1, KeptHashes
<1>3. RecordKats(r) \subseteq KatNames /\ Sums(r) \subseteq {"work", "result"}
  BY DEF RecordKats, Sums
<1>4. Excluded(r) \subseteq {"frame"} \cup RecordKats(r)
  BY DEF Excluded
<1>5. {"frame", "work", "result"} \cap KatNames = {}
  BY DEF ReportAssumption
<1>6. n.test # "none" /\ n.contract # "bad"
  BY <1>1 DEF Normalizable
<1>7. (n.excluded = {}) = (n.reason = "none")
  BY <1>1 DEF Normalizable
<1>8. /\ n.excluded \subseteq {"frame"} \cup KatNames
      /\ n.excluded \cap present = {}
      /\ "frame" \in present \/ "frame" \in n.excluded
      /\ present \subseteq {"frame", "work", "result"} \cup KatNames
  BY <1>1, <1>2, <1>3, <1>4
<1>9. ("work" \in present) = ("result" \in present)
  BY <1>2, <1>3, <1>4, <1>5 DEF Sums
<1>10. \A o \in present \ KatNames : IsHash(n.hashes[o])
  <2> SUFFICES ASSUME NEW o \in present \ KatNames
               PROVE  IsHash(n.hashes[o])
    OBVIOUS
  <2>1. n.hashes[o] = Spelling[r[o]]
    <3>1. o \in DOMAIN EligibleHashes(r) /\ o \notin KatNames
      BY <1>1
    <3>2. EligibleHashes(r)[o] = Spelling[r[o]]
      BY <3>1, KeptHashes
    <3> QED BY <1>1, <3>2
  <2>2. o = "frame" \/ o \in Sums(r)
    BY <1>2, <1>3
  <2>3. IsHash(r[o])
    BY <2>2 DEF Normalizable, HashesReadable
  <2> QED BY <2>1, <2>3 DEF IsHash, ReportAssumption
<1>11. KatsAgree([k \in present \cap KatNames |-> n.hashes[k]])
  <2>1. present \cap KatNames \subseteq RecordKats(r)
    BY <1>2, <1>3, <1>5
  <2>2. \A k \in present \cap KatNames : n.hashes[k] = r.metadata[k]
    BY <1>1, KeptHashes
  <2>3. KatsAgree([k \in RecordKats(r) |-> r.metadata[k]])
    BY DEF Normalizable, HashesReadable
  <2> QED BY <2>1, <2>2, <2>3 DEF KatsAgree
<1>12. n.oracle.status \in {"none", "PASS", "FAIL"}
  BY <1>1 DEF Normalizable
<1>13. n.oracle.failures >= -1 /\ n.oracle.provenance # "bad"
  BY <1>1 DEF Normalizable, InternalOracle, NoOracle
<1> QED
  BY <1>6, <1>7, <1>8, <1>9, <1>10, <1>11, <1>12, <1>13 DEF RecordShape

(* A report as build_report seals it has the fields it was built from.      *)
LEMMA BuiltReport ==
    ASSUME NEW run
    PROVE  LET p == BuildReport(run) IN
             /\ p.type = run.type /\ p.backend = run.backend
             /\ p.guest = run.guest /\ p.job = run.job
             /\ p.observation = run.id /\ p.scale = run.scale
             /\ p.hardware = run.hardware
             /\ p.records = {Normalized(r) : r \in run.raw}
             /\ p.functionalId = Stable(p) /\ p.reportId = SealOf(p)
             /\ p = [f \in DOMAIN p |-> p[f]] /\ "records" \in DOMAIN p
BY DEF BuildReport, WithFields, Stable, SealOf

(* What build_report seals, _validate_report_shape accepts.                 *)
LEMMA BuiltReportIsShaped ==
    ASSUME ReportAssumption, NEW run, Buildable(run),
           run.type \in {"XEMU", "RETAIL_XBOX"}, run.id # "none"
    PROVE  ReportShape(BuildReport(run))
<1> DEFINE p == BuildReport(run)
<1>1. \A n \in p.records : \E r \in run.raw : n = Normalized(r)
  BY BuiltReport
<1>2. p.records # {}
  <2>1. PICK r \in run.raw : TRUE
    BY DEF Buildable
  <2>2. p.records = {Normalized(s) : s \in run.raw}
    BY BuiltReport
  <2>3. Normalized(r) \in {Normalized(s) : s \in run.raw}
    OBVIOUS
  <2> QED BY <2>2, <2>3
<1>3. NoDuplicates(p.records)
  <2> SUFFICES ASSUME NEW n \in p.records, NEW o \in p.records,
                      Identity(n) = Identity(o)
               PROVE  n = o
    BY DEF NoDuplicates
  <2>1. PICK r \in run.raw : n = Normalized(r)
    BY <1>1
  <2>2. PICK s \in run.raw : o = Normalized(s)
    BY <1>1
  <2>3. r.name = s.name /\ r.contract = s.contract
    BY <2>1, <2>2 DEF Identity, Normalized
  <2> QED BY <2>1, <2>2, <2>3 DEF Buildable
<1>4. \A n \in p.records : RecordShape(n)
  BY <1>1, NormalizedIsShaped DEF Buildable
<1> QED BY <1>2, <1>3, <1>4, BuiltReport DEF ReportShape, RecordsShape

-----------------------------------------------------------------------------
(* The files                                                               *)

(* Every file is a report of a run that could be sealed, whole or edited.   *)
FilesInv ==
    /\ files \in [Paths -> SealedRuns \X SealedRuns]
    /\ used \subseteq SealedRuns
    /\ at \in [Revalidators -> Nat \ {0}]
    /\ \A v \in Revalidators : at[v] \in 1..Len(Arguments(v))

LEMMA ArgumentsArePaths ==
    ASSUME RevalidationAssumption, NEW v \in Revalidators
    PROVE  /\ Arguments(v) \in Seq(Paths) /\ Len(Arguments(v)) \in Nat \ {0}
           /\ \A i \in 1..Len(Arguments(v)) : Arguments(v)[i] \in Paths
<1>1. Baseline[v] \in Seq(Paths) /\ Baseline[v] # <<>> /\ Candidate[v] \in Seq(Paths)
  BY DEF RevalidationAssumption
<1>2. Arguments(v) \in Seq(Paths)
      /\ Len(Arguments(v)) = Len(Baseline[v]) + Len(Candidate[v])
  BY <1>1, ConcatProperties DEF Arguments
<1>3. Len(Baseline[v]) \in Nat \ {0} /\ Len(Candidate[v]) \in Nat
  BY <1>1, EmptySeq, LenProperties
<1>4. Len(Arguments(v)) \in Nat \ {0}
  <2> DEFINE b == Len(Baseline[v])
             c == Len(Candidate[v])
             a == Len(Arguments(v))
  <2>1. a = b + c /\ b \in Nat /\ b # 0 /\ c \in Nat
    BY <1>2, <1>3
  <2> HIDE DEF a, b, c
  <2>2. a \in Nat /\ a # 0
    BY <2>1
  <2> QED BY <2>2 DEF a
<1> QED BY <1>2, <1>4, ElementOfSeq

LEMMA FilesInit == RevalidationAssumption /\ Init => FilesInv
<1> SUFFICES ASSUME RevalidationAssumption, Init
             PROVE  FilesInv
  OBVIOUS
<1>1. PICK f \in First : /\ Range(f) \subseteq SealedRuns
                         /\ files = [p \in Paths |-> <<f[p], f[p]>>]
                         /\ used = Range(f)
  BY DEF Init
<1>2. \A p \in Paths : f[p] \in SealedRuns
  BY <1>1 DEF RevalidationAssumption, Range
<1>3. at = [v \in Revalidators |-> 1]
  BY DEF Init
<1>4. \A v \in Revalidators : 1 \in 1..Len(Arguments(v))
  BY ArgumentsArePaths
<1> QED BY <1>1, <1>2, <1>3, <1>4 DEF FilesInv

LEMMA FilesStep == RevalidationAssumption /\ FilesInv /\ [Next]_vars => FilesInv'
<1> SUFFICES ASSUME RevalidationAssumption, FilesInv, [Next]_vars
             PROVE  FilesInv'
  OBVIOUS
<1>1. CASE UNCHANGED vars
  BY <1>1 DEF FilesInv, vars, Arguments
<1>2. ASSUME NEW p \in Paths, CaptureReport(p)
      PROVE  FilesInv'
  <2>1. PICK n \in SealedRuns : /\ files' = [files EXCEPT ![p] = <<n, n>>]
                                /\ used' = used \cup {n}
    BY <1>2 DEF CaptureReport
  <2>2. files' \in [Paths -> SealedRuns \X SealedRuns]
    BY <2>1 DEF FilesInv
  <2>3. used' \subseteq SealedRuns
    BY <2>1 DEF FilesInv
  <2> QED BY <1>2, <2>2, <2>3 DEF CaptureReport, FilesInv, Arguments
<1>3. ASSUME NEW p \in Paths, EditReport(p)
      PROVE  FilesInv'
  <2>1. PICK n \in used : files' = [files EXCEPT ![p][2] = n]
    BY <1>3 DEF EditReport
  <2>2. files[p] \in SealedRuns \X SealedRuns /\ n \in SealedRuns
    BY DEF FilesInv
  <2>3. files' = [files EXCEPT ![p] = [files[p] EXCEPT ![2] = n]]
    BY <2>1
  <2>4. [files[p] EXCEPT ![2] = n] \in SealedRuns \X SealedRuns
    BY <2>2
  <2> QED BY <1>3, <2>3, <2>4 DEF EditReport, FilesInv, Arguments
<1>4. ASSUME NEW v \in Revalidators, Step(v)
      PROVE  FilesInv'
  <2>1. UNCHANGED <<files, used>>
    BY <1>4 DEF Step, CheckOutput, HashInput, LoadReport, Judge, RehashInput,
                MakeOutput, WriteConsensus, WriteAudit, WriteFails, disk
  <2>2. \/ at' = at
        \/ at' = [at EXCEPT ![v] = IF at[v] = Len(Arguments(v)) THEN 1 ELSE @ + 1]
    BY <1>4 DEF Step, CheckOutput, HashInput, LoadReport, Judge, RehashInput,
                MakeOutput, WriteConsensus, WriteAudit, WriteFails, ReadNext
  <2>3. at[v] \in 1..Len(Arguments(v)) /\ Len(Arguments(v)) \in Nat \ {0}
    BY ArgumentsArePaths DEF FilesInv
  <2>4. ASSUME NEW w \in Revalidators
        PROVE  at'[w] \in 1..Len(Arguments(w))
    <3>1. at[w] \in 1..Len(Arguments(w)) /\ v \in DOMAIN at /\ w \in DOMAIN at
      BY DEF FilesInv
    <3>2. \/ at'[w] = at[w]
          \/ w = v /\ at[v] = Len(Arguments(v)) /\ at'[v] = 1
          \/ w = v /\ at[v] # Len(Arguments(v)) /\ at'[v] = at[v] + 1
      BY <2>2, <3>1
    <3> QED BY <2>3, <3>1, <3>2
  <2>5. at' \in [Revalidators -> Nat \ {0}]
    <3>1. at' = [w \in Revalidators |-> at'[w]]
      BY <2>2 DEF FilesInv
    <3>2. \A w \in Revalidators : at'[w] \in Nat \ {0}
      BY <2>4, ArgumentsArePaths
    <3> QED BY <3>1, <3>2
  <2> QED BY <2>1, <2>4, <2>5 DEF FilesInv, Arguments
<1> QED BY <1>1, <1>2, <1>3, <1>4 DEF Next

(* A report nobody edited is the one its run sealed.                        *)
LEMMA UneditedContent ==
    ASSUME NEW n \in SealedRuns
    PROVE  Content[<<n, n>>] = BuildReport(Runs[n])
<1>1. Content[<<n, n>>] =
         [BuildReport(Runs[n]) EXCEPT !.records = BuildReport(Runs[n]).records]
  BY DEF Content, ReportOf
<1>2. LET p == BuildReport(Runs[n]) IN p = [f \in DOMAIN p |-> p[f]]
  BY BuiltReport
<1> QED BY <1>1, <1>2

(* Whatever the guests wrote and whichever files were replaced, a report    *)
(* that was sealed and left alone is never refused when it is loaded.       *)
THEOREM SealedReportsPass ==
    ASSUME ReportAssumption, RevalidationAssumption
    PROVE  Spec => []SealedReportsAreValid
<1>1. FilesInv => SealedReportsAreValid
  <2> SUFFICES ASSUME FilesInv, NEW v \in Revalidators,
                      File(v)[1] = File(v)[2]
               PROVE  ReportShape(Content[File(v)])
    BY DEF SealedReportsAreValid
  <2>1. File(v) \in SealedRuns \X SealedRuns
    BY ArgumentsArePaths DEF FilesInv, File
  <2>2. PICK n \in SealedRuns : File(v) = <<n, n>>
    BY <2>1
  <2>3. Buildable(Runs[n]) /\ Runs[n].type \in {"XEMU", "RETAIL_XBOX"}
        /\ Runs[n].id # "none"
    BY DEF SealedRuns, RevalidationAssumption
  <2> QED BY <2>2, <2>3, UneditedContent, BuiltReportIsShaped
<1> QED BY <1>1, FilesInit, FilesStep, PTL DEF Spec

-----------------------------------------------------------------------------
(* Oracles                                                                 *)

(* The oracle id seals all that was in the record before it.                *)
LEMMA SealedOracle ==
    ASSUME NEW o, "oracleId" \notin DOMAIN o, o = [f \in DOMAIN o |-> o[f]],
           NEW c, c = Sealed(o)
    PROVE  /\ \A f \in DOMAIN o : c[f] = o[f]
           /\ c.oracleId = [f \in DOMAIN c \ {"oracleId"} |-> c[f]]
<1>1. DOMAIN c = DOMAIN o \cup {"oracleId"}
  BY DEF Sealed, WithFields
<1>2. \A f \in DOMAIN o : c[f] = o[f]
  BY DEF Sealed, WithFields
<1>3. c.oracleId = o
  BY DEF Sealed, WithFields
<1>4. DOMAIN c \ {"oracleId"} = DOMAIN o
  BY <1>1
<1> QED BY <1>1, <1>2, <1>3, <1>4

(* The oracle of build_consensus accepts each of the reports it was made    *)
(* from, though only the records of the first are in it.                    *)
LEMMA ConsensusAcceptsItsWitnesses ==
    ASSUME NEW ps, CanAgree(ps), 1 \in DOMAIN ps, NEW i \in DOMAIN ps,
           Cardinality(ReportIds(ps)) \in Nat
    PROVE  Accepts(Consensus(ps), ps[i])
<1> DEFINE o == [provenance |-> "REGRESSION_CONSENSUS",
                 backend |-> ps[1].backend, guest |-> ps[1].guest,
                 job |-> ps[1].job, records |-> ps[1].records,
                 witnesses |-> ReportIds(ps),
                 count |-> Cardinality(ReportIds(ps))]
           c == Consensus(ps)
<1>1. c = Sealed(o)
  BY DEF Consensus
<1>2. "oracleId" \notin DOMAIN o /\ o = [f \in DOMAIN o |-> o[f]]
  OBVIOUS
<1>0. /\ \A f \in DOMAIN o : c[f] = o[f]
      /\ c.oracleId = [f \in DOMAIN c \ {"oracleId"} |-> c[f]]
  <2> HIDE DEF o, c
  <2> QED BY <1>1, <1>2, SealedOracle
<1>3. /\ c.provenance = "REGRESSION_CONSENSUS" /\ c.backend = ps[1].backend
      /\ c.guest = ps[1].guest /\ c.job = ps[1].job
      /\ c.records = ps[1].records /\ c.witnesses = ReportIds(ps)
      /\ c.count = Cardinality(ReportIds(ps))
      /\ c.oracleId = [f \in DOMAIN c \ {"oracleId"} |-> c[f]]
  BY <1>0
<1>4. RecordsShape(ps[1].records)
  BY DEF CanAgree, ReportShape
<1>5. OracleShape(c)
  BY <1>3, <1>4 DEF OracleShape, CanAgree
<1> QED BY <1>3, <1>5 DEF Accepts, CanAgree

(* One report per owner: as many witnesses as reports.                      *)
LEMMA OneWitnessPerReport ==
    ASSUME NEW n \in Nat, NEW ps, DOMAIN ps = 1..n, Cardinality(Owners(ps)) = n
    PROVE  Cardinality({<<ps[i].hardware, ps[i].reportId>> : i \in DOMAIN ps}) = n
<1> DEFINE W == {<<ps[i].hardware, ps[i].reportId>> : i \in DOMAIN ps}
           w == [i \in 1..n |-> <<ps[i].hardware, ps[i].reportId>>]
           h == [x \in W |-> x[1]]
<1>1. IsFiniteSet(1..n) /\ Cardinality(1..n) = n
  BY FS_Interval
<1>2. w \in Surjection(1..n, W)
  BY DEF Surjection
<1>3. IsFiniteSet(W) /\ Cardinality(W) <= n
  BY <1>1, <1>2, FS_Surjection
<1>4. h \in Surjection(W, Owners(ps))
  <2>1. \A x \in W : x[1] \in Owners(ps)
    BY DEF Owners
  <2>2. \A t \in Owners(ps) : \E x \in W : x[1] = t
    <3> SUFFICES ASSUME NEW i \in DOMAIN ps
                 PROVE  \E x \in W : x[1] = ps[i].hardware
      BY DEF Owners
    <3>1. <<ps[i].hardware, ps[i].reportId>> \in W
      OBVIOUS
    <3> QED BY <3>1
  <2> HIDE DEF W
  <2> QED BY <2>1, <2>2 DEF Surjection
<1>5. n <= Cardinality(W)
  BY <1>3, <1>4, FS_Surjection
<1>6. Cardinality(W) \in Nat
  BY <1>3, FS_CardinalityType
<1> QED BY <1>3, <1>5, <1>6

(* The oracle of build_retail_consensus accepts each of its reports, unless *)
(* a console failed a test of its own.                                      *)
LEMMA RetailAcceptsItsWitnesses ==
    ASSUME NEW n \in Nat, NEW ps, DOMAIN ps = 1..n, Len(ps) = n,
           CanAgreeRetail(ps), NoneFailed(ps[1].records), NEW i \in DOMAIN ps
    PROVE  Accepts(RetailConsensus(ps), ps[i])
<1> DEFINE W == {<<ps[j].hardware, ps[j].reportId>> : j \in DOMAIN ps}
           o == [provenance |-> "RETAIL_XBOX", backend |-> "retail-xbox",
                 guest |-> ps[1].guest, job |-> ps[1].job,
                 records |-> ps[1].records, witnesses |-> W, count |-> Len(ps)]
           c == RetailConsensus(ps)
<1>1. c = Sealed(o)
  BY DEF RetailConsensus
<1>2. "oracleId" \notin DOMAIN o /\ o = [f \in DOMAIN o |-> o[f]]
  OBVIOUS
<1>0. /\ \A f \in DOMAIN o : c[f] = o[f]
      /\ c.oracleId = [f \in DOMAIN c \ {"oracleId"} |-> c[f]]
  <2> HIDE DEF o, c
  <2> QED BY <1>1, <1>2, SealedOracle
<1>3. /\ c.provenance = "RETAIL_XBOX" /\ c.backend = "retail-xbox"
      /\ c.guest = ps[1].guest /\ c.job = ps[1].job
      /\ c.records = ps[1].records /\ c.witnesses = W /\ c.count = n
      /\ c.oracleId = [f \in DOMAIN c \ {"oracleId"} |-> c[f]]
  BY <1>0
<1>4. n >= 2 /\ 1 \in DOMAIN ps /\ Cardinality(Owners(ps)) = n
  BY DEF CanAgreeRetail
<1>5. RecordsShape(ps[1].records)
  BY <1>4 DEF CanAgreeRetail, ReportShape
<1>6. Cardinality(W) = n
  BY <1>4, OneWitnessPerReport
<1>7. OracleShape(c)
  BY <1>3, <1>4, <1>5, <1>6 DEF OracleShape
<1>8. /\ ReportShape(ps[i]) /\ ps[i].guest = ps[1].guest
      /\ ps[i].job = ps[1].job /\ ps[i].records = ps[1].records
  BY DEF CanAgreeRetail
<1>9. RecordsAgree(c.records, ps[i].records)
  BY <1>3, <1>8 DEF RecordsAgree
<1> QED BY <1>3, <1>7, <1>8, <1>9 DEF Accepts

(* An oracle accepts every report it was made from, for any reports, in any *)
(* order.                                                                   *)
THEOREM OraclesAcceptTheirWitnesses ==
    Spec => []WitnessesPass
<1>1. WitnessesPass
  <2> SUFFICES ASSUME NEW v \in Revalidators, NEW ps \in Orders(v)
               PROVE  LET given == Contents(ps) IN
                 /\ CanAgree(given) =>
                      \A i \in DOMAIN given : Accepts(Consensus(given), given[i])
                 /\ CanAgreeRetail(given) /\ NoneFailed(given[1].records) =>
                      \A i \in DOMAIN given :
                         Accepts(RetailConsensus(given), given[i])
    BY DEF WitnessesPass
  <2> DEFINE given == Contents(ps)
  <2>1. PICK k \in 2..3 : ps \in [1..k -> Range(loaded[v])]
    BY DEF Orders
  <2>2. DOMAIN given = 1..k /\ k \in Nat /\ 1 \in DOMAIN given
    BY <2>1 DEF Contents
  <2>3. given \in Seq({given[i] : i \in DOMAIN given}) /\ Len(given) = k
    BY <2>2 DEF Contents
  <2>4. Cardinality(ReportIds(given)) \in Nat
    <3>1. [i \in 1..k |-> given[i].reportId]
             \in Surjection(1..k, ReportIds(given))
      BY <2>2 DEF Surjection, ReportIds
    <3> QED BY <2>2, <3>1, FS_Interval, FS_Surjection, FS_CardinalityType
  <2>5. ASSUME CanAgree(given), NEW i \in DOMAIN given
        PROVE  Accepts(Consensus(given), given[i])
    BY <2>2, <2>4, <2>5, ConsensusAcceptsItsWitnesses
  <2>6. ASSUME CanAgreeRetail(given), NoneFailed(given[1].records),
               NEW i \in DOMAIN given
        PROVE  Accepts(RetailConsensus(given), given[i])
    BY <2>2, <2>3, <2>6, RetailAcceptsItsWitnesses
  <2> QED BY <2>5, <2>6
<1> QED BY <1>1, PTL

-----------------------------------------------------------------------------
(* A published verdict                                                     *)
(*                                                                         *)
(* A report that is loaded is genuine: its functional id is taken over its *)
(* records, so it holds what its run sealed.  A file that was genuine when *)
(* it was hashed and holds the same when it is hashed again held that when *)
(* it was loaded: to come back from the report of a later run it would     *)
(* need the observation id of the earlier one.  A file that was not        *)
(* genuine has to be changed before it is hashed, before it is loaded and  *)
(* before it is hashed again.                                              *)

Genuine(f) == ReportShape(Content[f])
Final == {"mkdir", "consensus", "audit", "passed"}

Typing ==
    /\ FilesInv /\ changes \in 0..MaxChanges
    /\ pc \in [Revalidators -> {"start", "hash", "load", "judge", "rehash",
                                "failed"} \cup Final]
    /\ before \in [Revalidators -> Seq(SealedRuns \X SealedRuns)]
    /\ loaded \in [Revalidators -> Seq(SealedRuns \X SealedRuns)]
    /\ oracle = [v \in Revalidators |-> oracle[v]]
    /\ output.made \in Revalidators \cup {Nobody}
    /\ output = [made |-> output.made, consensus |-> output.consensus,
                 audit |-> output.audit]

Reading(v) ==
    LET n == Len(Arguments(v)) IN
    /\ Len(loaded[v]) <= Len(before[v]) /\ Len(before[v]) <= n
    /\ pc[v] \in {"start", "hash"} =>
          Len(before[v]) = at[v] - 1 /\ Len(loaded[v]) = 0
    /\ pc[v] = "load" => Len(before[v]) = n /\ Len(loaded[v]) = at[v] - 1
    /\ pc[v] \in {"judge", "rehash"} \cup Final =>
          Len(before[v]) = n /\ Len(loaded[v]) = n
    /\ pc[v] \in {"start", "judge"} => at[v] = 1

Known(v) ==
    /\ \A i \in 1..Len(before[v]) : before[v][i][1] \in used
    /\ \A i \in 1..Len(loaded[v]) : Genuine(loaded[v][i])

Counted(v) ==
    \A i \in 1..Len(before[v]) : ~Genuine(before[v][i]) =>
        /\ changes >= 1
        /\ Genuine(files[Arguments(v)[i]]) => changes >= 2
        /\ i <= Len(loaded[v]) =>
              /\ changes >= 2
              /\ ~Genuine(files[Arguments(v)[i]]) => changes >= 3

Gone(v) ==
    \A i \in 1..Len(loaded[v]) : loaded[v][i][1] # before[v][i][1] =>
        files[Arguments(v)[i]][1] # before[v][i][1]

Rechecked(v) ==
    \A i \in 1..Len(loaded[v]) :
        /\ pc[v] \in {"rehash"} \cup Final
        /\ pc[v] = "rehash" => i < at[v]
        /\ Genuine(before[v][i]) \/ MaxChanges <= 2
        => Content[before[v][i]] = Content[loaded[v][i]]

Agreed(v) ==
    pc[v] \in {"rehash"} \cup Final =>
        /\ CanAgree(FirstReports(v))
        /\ \A i \in DOMAIN Judged(v) :
              Accepts(Consensus(FirstReports(v)), Judged(v)[i])
        /\ oracle[v] = <<Consensus(FirstReports(v))>>

Sound(v) == /\ Reading(v) /\ Known(v) /\ Counted(v) /\ Gone(v)
            /\ Rechecked(v) /\ Agreed(v)

FilesCounted ==
    /\ \A p \in Paths : files[p][1] \in used
    /\ \A p \in Paths : ~Genuine(files[p]) => changes >= 1

Published ==
    /\ \A v \in Revalidators :
          pc[v] \in {"consensus", "audit", "passed"} => output.made = v
    /\ \A o \in output.consensus :
          /\ output.made \in Revalidators /\ o = oracle[output.made][1]
          /\ pc[output.made] \in {"audit", "passed", "failed"}
    /\ \A a \in output.audit :
          /\ output.made \in Revalidators /\ pc[output.made] = "passed"
          /\ a = [oracle |-> oracle[output.made][1].oracleId,
                  inputs |-> loaded[output.made], files |-> before[output.made]]

IInv == /\ Typing /\ FilesCounted /\ Published
        /\ \A v \in Revalidators : Sound(v)

LEMMA ContentFields ==
    ASSUME NEW f \in SealedRuns \X SealedRuns
    PROVE  LET c == Content[f]  run == Runs[f[1]] IN
             /\ c.observation = run.id /\ c.type = run.type
             /\ c.backend = run.backend /\ c.guest = run.guest
             /\ c.job = run.job /\ c.functionalId = Stable(BuildReport(run))
             /\ c.records = BuildReport(Runs[f[2]]).records
             /\ c = [BuildReport(run) EXCEPT !.records = c.records]
<1> DEFINE run == Runs[f[1]]
           p == BuildReport(run)
           q == BuildReport(Runs[f[2]])
<1>1. Content[f] = [p EXCEPT !.records = q.records]
  BY DEF Content, ReportOf
<1>2. /\ p.observation = run.id /\ p.type = run.type
      /\ p.backend = run.backend /\ p.guest = run.guest
      /\ p.job = run.job /\ p.functionalId = Stable(p)
      /\ p = [x \in DOMAIN p |-> p[x]] /\ "records" \in DOMAIN p
  BY BuiltReport
<1>3. {"observation", "type", "backend", "guest", "job", "functionalId"}
         \subseteq DOMAIN p
  BY DEF BuildReport, WithFields
<1> HIDE DEF p, q
<1>4. /\ Content[f].observation = p.observation /\ Content[f].type = p.type
      /\ Content[f].backend = p.backend /\ Content[f].guest = p.guest
      /\ Content[f].job = p.job /\ Content[f].functionalId = p.functionalId
      /\ Content[f].records = q.records
  BY <1>1, <1>2, <1>3
<1> QED BY <1>1, <1>2, <1>4 DEF p, q

(* A genuine report holds the records its run sealed.                       *)
LEMMA GenuineIsSealed ==
    ASSUME NEW f \in SealedRuns \X SealedRuns, Genuine(f)
    PROVE  Content[f] = ReportOf[f[1]]
<1> DEFINE p == BuildReport(Runs[f[1]])
           c == Content[f]
<1>1. /\ c = [p EXCEPT !.records = c.records] /\ c.functionalId = Stable(p)
      /\ c.functionalId = Stable(c)
  BY ContentFields DEF Genuine, ReportShape
<1>2. p = [x \in DOMAIN p |-> p[x]] /\ "records" \in DOMAIN p
  BY BuiltReport
<1>3. p = ReportOf[f[1]]
  BY DEF ReportOf
<1> HIDE DEF p, c
<1>4. c.records = p.records
  BY <1>1 DEF Stable
<1>5. c = p
  BY <1>1, <1>2, <1>4
<1> QED BY <1>3, <1>5 DEF c

LEMMA SealedIsGenuine ==
    ASSUME ReportAssumption, RevalidationAssumption, NEW n \in SealedRuns
    PROVE  Genuine(<<n, n>>)
BY UneditedContent, BuiltReportIsShaped
   DEF Genuine, SealedRuns, RevalidationAssumption

(* Two genuine files with the same observation id hold the same.            *)
LEMMA SameRun ==
    ASSUME RevalidationAssumption,
           NEW f \in SealedRuns \X SealedRuns, NEW g \in SealedRuns \X SealedRuns,
           Content[f] = Content[g]
    PROVE  f[1] = g[1]
<1>1. Runs[f[1]].id = Content[f].observation
      /\ Runs[g[1]].id = Content[g].observation
  BY ContentFields
<1>2. f[1] \in DOMAIN Runs /\ g[1] \in DOMAIN Runs
  BY DEF SealedRuns
<1> QED BY <1>1, <1>2 DEF RevalidationAssumption
LEMMA IInvInit ==
    ASSUME ReportAssumption, RevalidationAssumption, Init
    PROVE  IInv
<1>1. FilesInv /\ at = [v \in Revalidators |-> 1]
      /\ pc = [v \in Revalidators |-> "start"]
      /\ before = [v \in Revalidators |-> <<>>] /\ loaded = before
      /\ oracle = [v \in Revalidators |-> <<>>] /\ changes = 0
      /\ output = [made |-> Nobody, consensus |-> {}, audit |-> {}]
  BY FilesInit DEF Init
<1>2. Typing
  <2>1. 0 \in 0..MaxChanges
    BY DEF RevalidationAssumption
  <2>2. <<>> \in Seq(SealedRuns \X SealedRuns)
    BY EmptySeq
  <2> QED BY <1>1, <2>1, <2>2 DEF Typing
<1>3. FilesCounted
  <2>1. PICK f \in First : /\ files = [p \in Paths |-> <<f[p], f[p]>>]
                           /\ used = Range(f)
    BY DEF Init
  <2>2. ASSUME NEW p \in Paths
        PROVE  files[p][1] \in used /\ Genuine(files[p])
    <3>1. files[p] = <<f[p], f[p]>> /\ f[p] \in used
      BY <2>1 DEF RevalidationAssumption, Range
    <3>2. f[p] \in SealedRuns
      BY <1>1, <3>1 DEF FilesInv
    <3> QED BY <3>1, <3>2, SealedIsGenuine
  <2> QED BY <2>2 DEF FilesCounted
<1>4. ASSUME NEW v \in Revalidators
      PROVE  Sound(v)
  <2>1. pc[v] = "start" /\ at[v] = 1 /\ Len(before[v]) = 0 /\ Len(loaded[v]) = 0
    BY <1>1, EmptySeq
  <2>2. Len(Arguments(v)) \in Nat
    BY ArgumentsArePaths
  <2> QED
    BY <2>1, <2>2
       DEF Sound, Reading, Known, Counted, Gone, Rechecked, Agreed, Final
<1>5. Published
  BY <1>1 DEF Published
<1> QED BY <1>2, <1>3, <1>4, <1>5 DEF IInv

(* What holds of a revalidation that does nothing goes on to hold.          *)
LEMMA OthersKeep ==
    ASSUME NEW v, Sound(v), UNCHANGED <<files, used, changes>>,
           pc'[v] = pc[v], at'[v] = at[v], before'[v] = before[v],
           loaded'[v] = loaded[v], oracle'[v] = oracle[v]
    PROVE  Sound(v)'
BY DEF Sound, Reading, Known, Counted, Gone, Rechecked, Agreed, FirstReports,
       Judged, Contents, Arguments, Genuine

(* A step of one revalidation leaves the files and the others alone.        *)
LEMMA OwnStep ==
    ASSUME Typing, NEW v \in Revalidators, Step(v)
    PROVE  /\ UNCHANGED <<files, used, changes>>
           /\ \A w \in Revalidators \ {v} :
                 /\ pc'[w] = pc[w] /\ at'[w] = at[w] /\ before'[w] = before[w]
                 /\ loaded'[w] = loaded[w] /\ oracle'[w] = oracle[w]
<1>1. /\ DOMAIN pc = Revalidators /\ DOMAIN at = Revalidators
      /\ DOMAIN before = Revalidators /\ DOMAIN loaded = Revalidators
      /\ DOMAIN oracle = Revalidators
  BY DEF Typing, FilesInv
<1>2. CASE CheckOutput(v)
  BY <1>1, <1>2 DEF CheckOutput, Go, disk
<1>3. CASE HashInput(v)
  BY <1>1, <1>3 DEF HashInput, ReadNext, Go, disk
<1>4. CASE LoadReport(v)
  BY <1>1, <1>4 DEF LoadReport, ReadNext, Go, disk
<1>5. CASE Judge(v)
  BY <1>1, <1>5 DEF Judge, Go, disk
<1>6. CASE RehashInput(v)
  BY <1>1, <1>6 DEF RehashInput, ReadNext, Go, disk
<1>7. CASE MakeOutput(v)
  BY <1>1, <1>7 DEF MakeOutput, Go, disk
<1>8. CASE WriteConsensus(v)
  BY <1>1, <1>8 DEF WriteConsensus, Go, disk
<1>9. CASE WriteAudit(v)
  BY <1>1, <1>9 DEF WriteAudit, Go, disk
<1>10. CASE WriteFails(v)
  BY <1>1, <1>10 DEF WriteFails, disk
<1> QED
  BY <1>2, <1>3, <1>4, <1>5, <1>6, <1>7, <1>8, <1>9, <1>10 DEF Step
(* Replacing or editing a file is one change, and gives it the id of a run  *)
(* that had not written yet or leaves the id it had.                        *)
LEMMA FileChanges ==
    ASSUME RevalidationAssumption, Typing, FilesCounted,
           NEW p \in Paths, NEW g \in SealedRuns \X SealedRuns,
           files' = [files EXCEPT ![p] = g], changes' = changes + 1,
           used \subseteq used', g[1] \in used', g[1] = files[p][1] \/ g[1] \notin used,
           UNCHANGED <<pc, at, before, loaded, oracle>>
    PROVE  FilesCounted' /\ \A v \in Revalidators : Sound(v) => Sound(v)'
<1>1. changes \in Nat /\ files' \in [Paths -> SealedRuns \X SealedRuns]
      /\ files \in [Paths -> SealedRuns \X SealedRuns]
  BY DEF Typing, FilesInv
<1>2. \A q \in Paths : files'[q] = IF q = p THEN g ELSE files[q]
  BY <1>1
<1>3. FilesCounted'
  BY <1>1, <1>2 DEF FilesCounted, Genuine
<1>4. ASSUME NEW v \in Revalidators, Sound(v)
      PROVE  Sound(v)'
  <2>1. \A i \in 1..Len(before[v]) : /\ Arguments(v)[i] \in Paths
                                     /\ i \in 1..Len(Arguments(v))
    <3>1. Len(before[v]) <= Len(Arguments(v)) /\ Len(before[v]) \in Nat
          /\ Len(Arguments(v)) \in Nat
      BY <1>4, ArgumentsArePaths DEF Sound, Reading, Typing
    <3> QED BY <3>1, ArgumentsArePaths
  <2>2. Len(loaded[v]) <= Len(before[v]) /\ Len(before[v]) \in Nat
        /\ Len(loaded[v]) \in Nat
    BY <1>4 DEF Sound, Reading, Typing
  <2>3. Arguments(v)' = Arguments(v) /\ FirstReports(v)' = FirstReports(v)
        /\ Judged(v)' = Judged(v)
    BY DEF Arguments, FirstReports, Judged, Contents
  <2>4. Reading(v)' /\ Rechecked(v)' /\ Agreed(v)'
    BY <1>4, <2>3 DEF Sound, Reading, Rechecked, Agreed, Genuine
  <2>5. Known(v)'
    BY <1>4 DEF Sound, Known, Genuine
  <2>6. Counted(v)'
    <3> SUFFICES ASSUME NEW i \in 1..Len(before[v]), ~Genuine(before[v][i])
                 PROVE  /\ changes' >= 1
                        /\ Genuine(files'[Arguments(v)[i]]) => changes' >= 2
                        /\ i <= Len(loaded[v]) =>
                              /\ changes' >= 2
                              /\ ~Genuine(files'[Arguments(v)[i]]) => changes' >= 3
      BY <2>3 DEF Counted, Genuine
    <3>1. /\ changes >= 1
          /\ Genuine(files[Arguments(v)[i]]) => changes >= 2
          /\ i <= Len(loaded[v]) =>
                /\ changes >= 2
                /\ ~Genuine(files[Arguments(v)[i]]) => changes >= 3
      BY <1>4 DEF Sound, Counted
    <3> QED BY <1>1, <3>1
  <2>7. Gone(v)'
    <3> SUFFICES ASSUME NEW i \in 1..Len(loaded[v]),
                        loaded[v][i][1] # before[v][i][1]
                 PROVE  files'[Arguments(v)[i]][1] # before[v][i][1]
      BY <2>3 DEF Gone
    <3>1. i \in 1..Len(before[v])
      BY <2>2
    <3>2. files[Arguments(v)[i]][1] # before[v][i][1] /\ before[v][i][1] \in used
      BY <1>4, <3>1 DEF Sound, Gone, Known
    <3> QED BY <1>2, <2>1, <3>1, <3>2
  <2> QED BY <2>4, <2>5, <2>6, <2>7 DEF Sound
<1> QED BY <1>3, <1>4

(* The sequences a revalidation reads into.                                 *)
LEMMA Appended ==
    ASSUME NEW S, NEW s \in Seq(S), NEW x \in S
    PROVE  /\ Append(s, x) \in Seq(S) /\ Len(Append(s, x)) = Len(s) + 1
           /\ Append(s, x)[Len(s) + 1] = x
           /\ \A i \in 1..Len(s) : Append(s, x)[i] = s[i]
BY AppendProperties

(* What the actions of a revalidation have in common.                       *)
LEMMA Positions ==
    ASSUME RevalidationAssumption, Typing, NEW v \in Revalidators, Sound(v)
    PROVE  /\ at[v] \in 1..Len(Arguments(v)) /\ Len(Arguments(v)) \in Nat
           /\ File(v) = files[Arguments(v)[at[v]]]
           /\ File(v) \in SealedRuns \X SealedRuns
           /\ \A i \in 1..Len(before[v]) : /\ i \in 1..Len(Arguments(v))
                                           /\ Arguments(v)[i] \in Paths
                                           /\ before[v][i] \in SealedRuns \X SealedRuns
           /\ \A i \in 1..Len(loaded[v]) : /\ i \in 1..Len(before[v])
                                           /\ loaded[v][i] \in SealedRuns \X SealedRuns
           /\ Len(before[v]) \in Nat /\ Len(loaded[v]) \in Nat
           /\ changes \in Nat /\ changes <= MaxChanges
           /\ before[v] \in Seq(SealedRuns \X SealedRuns)
           /\ loaded[v] \in Seq(SealedRuns \X SealedRuns)
<1>1. at[v] \in 1..Len(Arguments(v)) /\ Len(Arguments(v)) \in Nat
      /\ \A i \in 1..Len(Arguments(v)) : Arguments(v)[i] \in Paths
  BY ArgumentsArePaths DEF Typing, FilesInv
<1>2. before[v] \in Seq(SealedRuns \X SealedRuns)
      /\ loaded[v] \in Seq(SealedRuns \X SealedRuns)
  BY DEF Typing
<1>3. Len(loaded[v]) <= Len(before[v]) /\ Len(before[v]) <= Len(Arguments(v))
  BY DEF Sound, Reading
<1>4. Len(before[v]) \in Nat /\ Len(loaded[v]) \in Nat
      /\ changes \in Nat /\ changes <= MaxChanges
  BY <1>2 DEF Typing, RevalidationAssumption
<1>5. File(v) \in SealedRuns \X SealedRuns
  BY <1>1 DEF File, Typing, FilesInv
<1> QED BY <1>1, <1>2, <1>3, <1>4, <1>5, ElementOfSeq DEF File

LEMMA HashSound ==
    ASSUME RevalidationAssumption, Typing, FilesCounted, NEW v \in Revalidators,
           Sound(v), HashInput(v)
    PROVE  Sound(v)'
<1> DEFINE n == Len(Arguments(v))
           b == before[v]
<1>1. /\ pc[v] = "hash" /\ before'[v] = Append(b, File(v))
      /\ pc'[v] = IF at[v] = n THEN "load" ELSE "hash"
      /\ at'[v] = IF at[v] = n THEN 1 ELSE at[v] + 1
      /\ UNCHANGED <<files, used, changes, loaded>>
  BY DEF HashInput, ReadNext, Go, disk, Typing, FilesInv
<1>2. Len(b) = at[v] - 1 /\ Len(loaded[v]) = 0
  BY <1>1 DEF Sound, Reading
<1>3. /\ Len(before'[v]) = Len(b) + 1 /\ before'[v][Len(b) + 1] = File(v)
      /\ \A i \in 1..Len(b) : before'[v][i] = b[i]
  BY <1>1, Positions, Appended
<1>4. Arguments(v)' = Arguments(v)
  BY DEF Arguments
<1>5. Len(before'[v]) = at[v] /\ at[v] <= n /\ at[v] \in Nat /\ n \in Nat
  BY <1>2, <1>3, Positions
<1>6. Reading(v)'
  BY <1>1, <1>2, <1>4, <1>5 DEF Reading, Final
<1>7. \A i \in 1..Len(before'[v]) : i \in 1..Len(b) \/ i = Len(b) + 1
  BY <1>3, Positions
<1>8. File(v)[1] \in used /\ (~Genuine(File(v)) => changes >= 1)
  <2>1. Arguments(v)[at[v]] \in Paths /\ File(v) = files[Arguments(v)[at[v]]]
    BY Positions, ArgumentsArePaths
  <2> QED BY <2>1 DEF FilesCounted
<1>9. Known(v)'
  BY <1>1, <1>2, <1>3, <1>7, <1>8 DEF Sound, Known, Genuine
<1>10. Counted(v)'
  <2> SUFFICES ASSUME NEW i \in 1..Len(before'[v]), ~Genuine(before'[v][i])
               PROVE  /\ changes >= 1
                      /\ Genuine(files[Arguments(v)[i]]) => changes >= 2
    BY <1>1, <1>2, <1>4 DEF Counted, Genuine
  <2>1. CASE i \in 1..Len(b)
    BY <1>3, <2>1 DEF Sound, Counted
  <2>2. CASE i = Len(b) + 1
    BY <1>2, <1>3, <1>5, <1>8, <2>2, Positions
  <2> QED BY <1>7, <2>1, <2>2
<1>11. Gone(v)' /\ Rechecked(v)' /\ Agreed(v)'
  BY <1>1, <1>2 DEF Gone, Rechecked, Agreed, Final
<1> QED BY <1>6, <1>9, <1>10, <1>11 DEF Sound

LEMMA LoadSound ==
    ASSUME RevalidationAssumption, Typing, FilesCounted, NEW v \in Revalidators,
           Sound(v), LoadReport(v)
    PROVE  Sound(v)'
<1> DEFINE n == Len(Arguments(v))
           l == loaded[v]
<1>1. pc[v] = "load" /\ UNCHANGED <<files, used, changes, before, oracle>>
  BY DEF LoadReport, ReadNext, Go, disk
<1>2. Len(before[v]) = n /\ Len(l) = at[v] - 1 /\ Arguments(v)' = Arguments(v)
  BY <1>1 DEF Sound, Reading, Arguments
<1>3. CASE pc'[v] = "failed" /\ UNCHANGED <<at, loaded>>
  BY <1>1, <1>3
     DEF Sound, Reading, Known, Counted, Gone, Rechecked, Agreed, Final,
         Arguments, Genuine
<1>4. CASE /\ Genuine(File(v)) /\ loaded'[v] = Append(l, File(v))
           /\ pc'[v] = IF at[v] = n THEN "judge" ELSE "load"
           /\ at'[v] = IF at[v] = n THEN 1 ELSE at[v] + 1
  <2>1. /\ Len(loaded'[v]) = Len(l) + 1 /\ loaded'[v][Len(l) + 1] = File(v)
        /\ \A i \in 1..Len(l) : loaded'[v][i] = l[i]
    BY <1>4, Positions, Appended
  <2>2. Len(loaded'[v]) = at[v] /\ at[v] <= n /\ at[v] \in Nat /\ n \in Nat
    BY <1>2, <2>1, Positions
  <2>3. Reading(v)'
    BY <1>1, <1>2, <1>4, <2>2 DEF Reading, Final
  <2>4. \A i \in 1..Len(loaded'[v]) : i \in 1..Len(l) \/ i = Len(l) + 1
    BY <2>1, Positions
  <2>5. Known(v)'
    BY <1>1, <1>4, <2>1, <2>4 DEF Sound, Known, Genuine
  <2>6. Counted(v)'
    <3> SUFFICES ASSUME NEW i \in 1..Len(before[v]), ~Genuine(before[v][i])
                 PROVE  /\ changes >= 1
                        /\ Genuine(files[Arguments(v)[i]]) => changes >= 2
                        /\ i <= Len(loaded'[v]) =>
                              /\ changes >= 2
                              /\ ~Genuine(files[Arguments(v)[i]]) => changes >= 3
      BY <1>1, <1>2 DEF Counted, Genuine
    <3>1. CASE i <= Len(l) \/ i > Len(loaded'[v])
      BY <3>1, <2>1, Positions DEF Sound, Counted
    <3>2. CASE i = at[v]
      BY <1>4, <3>2, Positions DEF Sound, Counted
    <3> QED BY <1>2, <2>2, <3>1, <3>2, Positions
  <2>7. Gone(v)'
    <3> SUFFICES ASSUME NEW i \in 1..Len(loaded'[v]),
                        loaded'[v][i][1] # before[v][i][1]
                 PROVE  files[Arguments(v)[i]][1] # before[v][i][1]
      BY <1>1, <1>2 DEF Gone
    <3>1. CASE i \in 1..Len(l)
      BY <2>1, <3>1 DEF Sound, Gone
    <3>2. CASE i = Len(l) + 1
      BY <1>2, <2>1, <2>2, <3>2, Positions
    <3> QED BY <2>4, <3>1, <3>2
  <2>8. Rechecked(v)' /\ Agreed(v)'
    BY <1>4 DEF Rechecked, Agreed, Final
  <2> QED BY <2>3, <2>5, <2>6, <2>7, <2>8 DEF Sound
<1> QED
  BY <1>3, <1>4 DEF LoadReport, ReadNext, Go, Genuine, Typing, FilesInv

LEMMA RehashSound ==
    ASSUME RevalidationAssumption, Typing, FilesCounted, NEW v \in Revalidators,
           Sound(v), RehashInput(v)
    PROVE  Sound(v)'
<1> DEFINE n == Len(Arguments(v))
           k == at[v]
<1>1. pc[v] = "rehash" /\ UNCHANGED <<files, used, changes, before, loaded, oracle>>
  BY DEF RehashInput, ReadNext, Go, disk
<1>2. Len(before[v]) = n /\ Len(loaded[v]) = n /\ Arguments(v)' = Arguments(v)
  BY <1>1 DEF Sound, Reading, Arguments
<1>3. Known(v)' /\ Counted(v)' /\ Gone(v)'
  BY <1>1, <1>2 DEF Sound, Known, Counted, Gone, Genuine
<1>4. CASE pc'[v] = "failed" /\ UNCHANGED at
  BY <1>1, <1>2, <1>3, <1>4 DEF Sound, Reading, Rechecked, Agreed, Final
<1>5. CASE /\ Digest(File(v)) = Digest(before[v][k])
           /\ pc'[v] = IF k = n THEN "mkdir" ELSE "rehash"
           /\ at'[v] = IF k = n THEN 1 ELSE k + 1
  <2>1. Reading(v)'
    BY <1>1, <1>2, <1>5, Positions DEF Reading, Final
  <2>2. Agreed(v)'
    <3>1. FirstReports(v)' = FirstReports(v) /\ Judged(v)' = Judged(v)
      BY <1>1 DEF FirstReports, Judged, Contents
    <3> QED BY <1>1, <1>5, <3>1 DEF Sound, Agreed, Final
  <2>3. k \in 1..Len(before[v]) /\ k \in 1..Len(loaded[v])
    BY <1>2, Positions
  <2>4. ASSUME Genuine(before[v][k])
        PROVE  Content[before[v][k]] = Content[loaded[v][k]]
    <3>1. Content[File(v)] = Content[before[v][k]]
      BY <1>5 DEF Digest
    <3>2. File(v)[1] = before[v][k][1]
      BY <2>3, <3>1, Positions, SameRun
    <3>3. loaded[v][k][1] = before[v][k][1]
      BY <2>3, <3>2, Positions DEF Sound, Gone
    <3>4. Genuine(loaded[v][k])
      BY <2>3 DEF Sound, Known
    <3>5. before[v][k] \in SealedRuns \X SealedRuns
          /\ loaded[v][k] \in SealedRuns \X SealedRuns
      BY <2>3, Positions
    <3>6. Content[before[v][k]] = ReportOf[before[v][k][1]]
      BY <2>4, <3>5, GenuineIsSealed
    <3>7. Content[loaded[v][k]] = ReportOf[loaded[v][k][1]]
      BY <3>4, <3>5, GenuineIsSealed
    <3> QED BY <3>3, <3>6, <3>7
  <2>5. ASSUME ~Genuine(before[v][k]), MaxChanges <= 2
        PROVE  FALSE
    <3>1. ~Genuine(files[Arguments(v)[k]])
      BY <1>5, <2>5, Positions DEF Digest, Genuine
    <3>2. changes >= 3
      BY <2>3, <2>5, <3>1, Positions DEF Sound, Counted
    <3> QED BY <2>5, <3>2, Positions DEF RevalidationAssumption
  <2>6. Rechecked(v)'
    <3> SUFFICES ASSUME NEW i \in 1..Len(loaded[v]),
                        pc'[v] = "rehash" => i < at'[v],
                        Genuine(before[v][i]) \/ MaxChanges <= 2
                 PROVE  Content[before[v][i]] = Content[loaded[v][i]]
      BY <1>1 DEF Rechecked, Genuine
    <3>1. CASE i = k
      BY <2>4, <2>5, <3>1
    <3>2. CASE i < k
      BY <1>1, <3>2 DEF Sound, Rechecked
    <3> QED BY <1>2, <1>5, <3>1, <3>2, Positions
  <2> QED BY <1>3, <2>1, <2>2, <2>6 DEF Sound
<1> QED
  BY <1>4, <1>5 DEF RehashInput, ReadNext, Go, Typing, FilesInv
LEMMA JudgeSound ==
    ASSUME Typing, NEW v \in Revalidators, Sound(v), Judge(v)
    PROVE  Sound(v)'
<1>1. pc[v] = "judge"
      /\ UNCHANGED <<files, used, changes, at, before, loaded>>
  BY DEF Judge, Go, disk
<1>2. Len(before[v]) = Len(Arguments(v)) /\ Len(loaded[v]) = Len(Arguments(v))
      /\ at[v] = 1 /\ Arguments(v)' = Arguments(v)
  BY <1>1 DEF Sound, Reading, Arguments
<1>3. Known(v)' /\ Counted(v)' /\ Gone(v)'
  BY <1>1, <1>2 DEF Sound, Known, Counted, Gone, Genuine
<1>4. FirstReports(v)' = FirstReports(v) /\ Judged(v)' = Judged(v)
  BY <1>1 DEF FirstReports, Judged, Contents
<1>5. CASE pc'[v] = "failed"
  BY <1>1, <1>2, <1>3, <1>5 DEF Sound, Reading, Rechecked, Agreed, Final
<1>6. CASE /\ pc'[v] = "rehash"
           /\ oracle'[v] = <<Consensus(FirstReports(v))>>
           /\ CanAgree(FirstReports(v))
           /\ \A i \in DOMAIN Judged(v) :
                 Accepts(Consensus(FirstReports(v)), Judged(v)[i])
  <2>1. Reading(v)'
    BY <1>1, <1>2, <1>6 DEF Sound, Reading, Final
  <2>2. Rechecked(v)'
    BY <1>1, <1>2, <1>6 DEF Rechecked, Final
  <2>3. Agreed(v)'
    BY <1>4, <1>6 DEF Agreed
  <2> QED BY <1>3, <2>1, <2>2, <2>3 DEF Sound
<1> QED BY <1>5, <1>6 DEF Judge, Go, Typing

\* The steps that read nothing: only pc[v] moves.
LEMMA OtherSound ==
    ASSUME Typing, NEW v \in Revalidators, Sound(v),
           \/ CheckOutput(v) \/ MakeOutput(v) \/ WriteConsensus(v)
           \/ WriteAudit(v) \/ WriteFails(v)
    PROVE  Sound(v)'
<1>1. UNCHANGED <<files, used, changes, at, before, loaded, oracle>>
  BY DEF CheckOutput, MakeOutput, WriteConsensus, WriteAudit, WriteFails, disk
<1>2. \/ pc'[v] = "failed"
      \/ pc[v] = "start" /\ pc'[v] = "hash"
      \/ pc[v] \in Final /\ pc'[v] \in Final
  BY DEF CheckOutput, MakeOutput, WriteConsensus, WriteAudit, WriteFails, Go,
         Final, Typing
<1>3. Arguments(v)' = Arguments(v)
      /\ FirstReports(v)' = FirstReports(v) /\ Judged(v)' = Judged(v)
  BY <1>1 DEF FirstReports, Judged, Contents, Arguments
<1>4. Known(v)' /\ Counted(v)' /\ Gone(v)'
  BY <1>1, <1>3 DEF Sound, Known, Counted, Gone, Genuine
<1>5. Reading(v)'
  BY <1>1, <1>2, <1>3 DEF Sound, Reading, Final
<1>6. Rechecked(v)'
  BY <1>1, <1>2 DEF Sound, Rechecked, Final, Genuine
<1>7. Agreed(v)'
  BY <1>1, <1>2, <1>3 DEF Sound, Agreed, Final
<1> QED BY <1>4, <1>5, <1>6, <1>7 DEF Sound

(* Every step keeps the types.                                              *)
LEMMA TypingStep ==
    ASSUME RevalidationAssumption, Typing, [Next]_vars
    PROVE  Typing'
<1>1. FilesInv'
  BY FilesStep DEF Typing
<1>2. CASE UNCHANGED vars
  BY <1>1, <1>2 DEF vars, Typing
<1>3. ASSUME NEW p \in Paths, CaptureReport(p) \/ EditReport(p)
      PROVE  Typing'
  BY <1>1, <1>3 DEF CaptureReport, EditReport, Typing, RevalidationAssumption
<1>4. ASSUME NEW v \in Revalidators, Step(v)
      PROVE  Typing'
  <2>1. /\ UNCHANGED changes
        /\ \A w \in Revalidators \ {v} :
              /\ before'[w] = before[w] /\ loaded'[w] = loaded[w]
              /\ pc'[w] = pc[w]
    BY <1>4, OwnStep
  <2>2. File(v) \in SealedRuns \X SealedRuns
    BY ArgumentsArePaths DEF Typing, FilesInv, File
  <2>3. before[v] \in Seq(SealedRuns \X SealedRuns)
        /\ loaded[v] \in Seq(SealedRuns \X SealedRuns)
    BY DEF Typing
  <2>4. \/ before' = before
        \/ before' = [before EXCEPT ![v] = Append(before[v], File(v))]
    BY <1>4 DEF Step, CheckOutput, HashInput, LoadReport, Judge, RehashInput,
                MakeOutput, WriteConsensus, WriteAudit, WriteFails
  <2>5. \/ loaded' = loaded
        \/ loaded' = [loaded EXCEPT ![v] = Append(loaded[v], File(v))]
    BY <1>4 DEF Step, CheckOutput, HashInput, LoadReport, Judge, RehashInput,
                MakeOutput, WriteConsensus, WriteAudit, WriteFails
  <2>6. /\ before' \in [Revalidators -> Seq(SealedRuns \X SealedRuns)]
        /\ loaded' \in [Revalidators -> Seq(SealedRuns \X SealedRuns)]
    <3> DEFINE S == Seq(SealedRuns \X SealedRuns)
    <3>1. Append(before[v], File(v)) \in S /\ Append(loaded[v], File(v)) \in S
      BY <2>2, <2>3, Appended
    <3>2. before \in [Revalidators -> S] /\ loaded \in [Revalidators -> S]
      BY DEF Typing
    <3> HIDE DEF S
    <3>3. before' \in [Revalidators -> S]
      BY <2>4, <3>1, <3>2
    <3>4. loaded' \in [Revalidators -> S]
      BY <2>5, <3>1, <3>2
    <3> QED BY <3>3, <3>4 DEF S
  <2>7. \E q \in {"start", "hash", "load", "judge", "rehash", "failed"} \cup Final :
           pc' = [pc EXCEPT ![v] = q]
    <3>1. CASE CheckOutput(v)
      BY <3>1 DEF CheckOutput, Go
    <3>2. CASE HashInput(v)
      BY <3>2 DEF HashInput, ReadNext, Go
    <3>3. CASE LoadReport(v)
      BY <3>3 DEF LoadReport, ReadNext, Go
    <3>4. CASE Judge(v)
      BY <3>4 DEF Judge, Go
    <3>5. CASE RehashInput(v)
      BY <3>5 DEF RehashInput, ReadNext, Go, Final
    <3>6. CASE MakeOutput(v) \/ WriteConsensus(v) \/ WriteAudit(v) \/ WriteFails(v)
      BY <3>6 DEF MakeOutput, WriteConsensus, WriteAudit, WriteFails, Go, Final
    <3> QED BY <1>4, <3>1, <3>2, <3>3, <3>4, <3>5, <3>6 DEF Step
  <2>8. oracle' = [w \in Revalidators |-> oracle'[w]]
    <3>1. CASE oracle' = oracle
      BY <3>1 DEF Typing
    <3>2. CASE Judge(v)
      BY <3>2 DEF Judge, Typing
    <3> QED
      BY <1>4, <3>1, <3>2
         DEF Step, CheckOutput, HashInput, LoadReport, RehashInput, MakeOutput,
             WriteConsensus, WriteAudit, WriteFails
  <2>9. /\ output'.made \in Revalidators \cup {Nobody}
        /\ output' = [made |-> output'.made, consensus |-> output'.consensus,
                      audit |-> output'.audit]
    <3>1. CASE output' = output
      BY <3>1 DEF Typing
    <3>2. CASE output' = [output EXCEPT !.made = v]
      BY <3>2 DEF Typing
    <3>3. CASE \E x : output' = [output EXCEPT !.consensus = x]
                      \/ output' = [output EXCEPT !.audit = x]
      BY <3>3 DEF Typing
    <3> QED
      BY <1>4, <3>1, <3>2, <3>3
         DEF Step, CheckOutput, HashInput, LoadReport, Judge, RehashInput,
             MakeOutput, WriteConsensus, WriteAudit, WriteFails
  <2> QED BY <1>1, <2>1, <2>6, <2>7, <2>8, <2>9 DEF Typing
<1> QED BY <1>2, <1>3, <1>4 DEF Next
(* What is published is what its owner judged: once it has the directory    *)
(* nobody else gets it.                                                     *)
LEMMA PublishedStep ==
    ASSUME RevalidationAssumption, Typing, Published, [Next]_vars
    PROVE  Published'
<1>1. CASE UNCHANGED vars
  BY <1>1 DEF vars, Published
<1>2. ASSUME NEW p \in Paths, CaptureReport(p) \/ EditReport(p)
      PROVE  Published'
  BY <1>2 DEF CaptureReport, EditReport, Published
<1>3. ASSUME NEW v \in Revalidators, Step(v)
      PROVE  Published'
  <2>1. \A w \in Revalidators \ {v} :
           /\ pc'[w] = pc[w] /\ before'[w] = before[w]
           /\ loaded'[w] = loaded[w] /\ oracle'[w] = oracle[w]
    BY <1>3, OwnStep
  <2>2. DOMAIN pc = Revalidators /\ Nobody \notin Revalidators
    BY DEF Typing, RevalidationAssumption
  <2>3. ASSUME output' = output, pc[v] \notin {"audit", "passed", "failed"},
               pc'[v] \notin {"consensus", "audit", "passed"}
        PROVE  Published'
    <3>1. \A o \in output.consensus \cup output.audit : output.made # v
      BY <2>3 DEF Published
    <3> QED BY <2>1, <2>3, <3>1 DEF Published
  <2>4. CASE CheckOutput(v)
    BY <2>2, <2>3, <2>4 DEF CheckOutput, Go
  <2>5. CASE HashInput(v)
    BY <2>2, <2>3, <2>5 DEF HashInput, ReadNext, Go
  <2>6. CASE LoadReport(v)
    BY <2>2, <2>3, <2>6 DEF LoadReport, ReadNext, Go
  <2>7. CASE Judge(v)
    BY <2>2, <2>3, <2>7 DEF Judge, Go
  <2>8. CASE RehashInput(v)
    BY <2>2, <2>3, <2>8 DEF RehashInput, ReadNext, Go
  <2>9. CASE MakeOutput(v)
    <3>1. CASE output.made # Nobody
      BY <2>2, <2>3, <2>9, <3>1 DEF MakeOutput, Go
    <3>2. CASE output.made = Nobody
      <4>1. output.consensus = {} /\ output.audit = {}
            /\ \A w \in Revalidators : pc[w] \notin {"consensus", "audit", "passed"}
        BY <2>2, <3>2 DEF Published
      <4>2. output' = [output EXCEPT !.made = v]
        BY <2>9, <3>2 DEF MakeOutput
      <4>3. output'.made = v /\ output'.consensus = {} /\ output'.audit = {}
        BY <4>1, <4>2 DEF Typing
      <4> QED BY <2>1, <4>1, <4>3 DEF Published
    <3> QED BY <3>1, <3>2
  <2>10. CASE WriteConsensus(v)
    <3>1. pc[v] = "consensus" /\ output.made = v /\ pc'[v] = "audit"
          /\ UNCHANGED <<before, loaded, oracle>>
      BY <2>2, <2>10 DEF WriteConsensus, Go, Published
    <3>2. output'.made = v /\ output'.consensus = {oracle[v][1]}
          /\ output'.audit = output.audit
      BY <2>10, <3>1 DEF WriteConsensus, Typing
    <3>3. output.audit = {}
      BY <3>1 DEF Published
    <3> QED BY <2>1, <3>1, <3>2, <3>3 DEF Published
  <2>11. CASE WriteAudit(v)
    <3>1. pc[v] = "audit" /\ output.made = v /\ pc'[v] = "passed"
          /\ UNCHANGED <<before, loaded, oracle>>
      BY <2>2, <2>11 DEF WriteAudit, Go, Published
    <3>2. /\ output'.made = v /\ output'.consensus = output.consensus
          /\ output'.audit = {[oracle |-> oracle[v][1].oracleId,
                               inputs |-> loaded[v], files |-> before[v]]}
      BY <2>11, <3>1 DEF WriteAudit, Typing
    <3> QED BY <2>1, <3>1, <3>2 DEF Published
  <2>12. CASE WriteFails(v)
    <3>1. pc[v] \in {"consensus", "audit"} /\ output.made = v /\ pc'[v] = "failed"
          /\ UNCHANGED <<before, loaded, oracle, output>>
      BY <2>2, <2>12 DEF WriteFails, Published
    <3>2. output.audit = {}
      BY <3>1 DEF Published
    <3> QED BY <2>1, <3>1, <3>2 DEF Published
  <2> QED BY <1>3, <2>4, <2>5, <2>6, <2>7, <2>8, <2>9, <2>10, <2>11, <2>12 DEF Step
<1> QED BY <1>1, <1>2, <1>3 DEF Next

LEMMA IInvStep ==
    ASSUME RevalidationAssumption, IInv, [Next]_vars
    PROVE  IInv'
<1>1. Typing' /\ Published'
  BY TypingStep, PublishedStep DEF IInv
<1>2. CASE UNCHANGED vars
  <2>1. \A v \in Revalidators : Sound(v)'
    BY <1>2, OthersKeep DEF IInv, vars
  <2>2. FilesCounted'
    BY <1>2 DEF IInv, vars, FilesCounted, Genuine
  <2> QED BY <1>1, <2>1, <2>2 DEF IInv
<1>3. ASSUME NEW p \in Paths, CaptureReport(p) \/ EditReport(p)
      PROVE  IInv'
  <2>1. files \in [Paths -> SealedRuns \X SealedRuns] /\ used \subseteq SealedRuns
    BY DEF IInv, Typing, FilesInv
  <2>2. \E g \in SealedRuns \X SealedRuns :
           /\ files' = [files EXCEPT ![p] = g] /\ used \subseteq used'
           /\ g[1] \in used' /\ (g[1] = files[p][1] \/ g[1] \notin used)
    <3>1. CASE CaptureReport(p)
      <4>1. PICK n \in SealedRuns \ used :
               files' = [files EXCEPT ![p] = <<n, n>>] /\ used' = used \cup {n}
        BY <3>1 DEF CaptureReport
      <4>2. <<n, n>> \in SealedRuns \X SealedRuns /\ <<n, n>>[1] = n
        BY <4>1
      <4> QED BY <4>1, <4>2
    <3>2. CASE EditReport(p)
      <4>1. PICK n \in used : files' = [files EXCEPT ![p][2] = n]
        BY <3>2 DEF EditReport
      <4>2. files[p] \in SealedRuns \X SealedRuns /\ files[p][1] \in used
            /\ n \in SealedRuns
        BY <2>1 DEF IInv, FilesCounted
      <4>3. [files[p] EXCEPT ![2] = n] = <<files[p][1], n>>
        BY <4>2
      <4>4. files' = [files EXCEPT ![p] = <<files[p][1], n>>]
        BY <4>1, <4>3
      <4>5. used' = used
        BY <3>2 DEF EditReport
      <4>6. <<files[p][1], n>> \in SealedRuns \X SealedRuns
            /\ <<files[p][1], n>>[1] = files[p][1]
        BY <4>2
      <4> QED BY <4>2, <4>4, <4>5, <4>6
    <3> QED BY <1>3, <3>1, <3>2
  <2>3. changes' = changes + 1 /\ UNCHANGED <<pc, at, before, loaded, oracle>>
    BY <1>3 DEF CaptureReport, EditReport
  <2>4. FilesCounted' /\ \A v \in Revalidators : Sound(v) => Sound(v)'
    BY <2>2, <2>3, FileChanges DEF IInv
  <2> QED BY <1>1, <2>4 DEF IInv
<1>4. ASSUME NEW v \in Revalidators, Step(v)
      PROVE  IInv'
  <2>1. /\ UNCHANGED <<files, used, changes>>
        /\ \A w \in Revalidators \ {v} :
              /\ pc'[w] = pc[w] /\ at'[w] = at[w] /\ before'[w] = before[w]
              /\ loaded'[w] = loaded[w] /\ oracle'[w] = oracle[w]
    BY <1>4, OwnStep DEF IInv
  <2>2. \A w \in Revalidators \ {v} : Sound(w)'
    BY <2>1, OthersKeep DEF IInv
  <2>3. FilesCounted'
    BY <2>1 DEF IInv, FilesCounted, Genuine
  <2>4. Sound(v)'
    BY <1>4, HashSound, LoadSound, JudgeSound, RehashSound, OtherSound
       DEF IInv, Step
  <2> QED BY <1>1, <2>2, <2>3, <2>4 DEF IInv
<1> QED BY <1>2, <1>3, <1>4 DEF Next
(* Up to two changes of the files cannot make the audit untrue (a third one *)
(* can: a file that was edited before it was hashed is put right to be      *)
(* loaded and edited again), and however often they change, the digest of a *)
(* genuine report is that of the report that was judged.  The oracle in     *)
(* consensus.json is the one the audit names.                               *)
SealedAuditIsTrue ==
    \A a \in output.audit :
        /\ DOMAIN a.files = DOMAIN a.inputs
        /\ \A i \in DOMAIN a.inputs :
              Genuine(a.files[i]) => Digest(a.files[i]) = Digest(a.inputs[i])
        /\ \A o \in output.consensus : o.oracleId = a.oracle

LEMMA AuditOfSound ==
    ASSUME RevalidationAssumption, IInv
    PROVE  SealedAuditIsTrue /\ (MaxChanges <= 2 => AuditIsTrue)
<1> SUFFICES ASSUME NEW a \in output.audit
             PROVE  /\ DOMAIN a.files = DOMAIN a.inputs
                    /\ \A i \in DOMAIN a.inputs :
                          Genuine(a.files[i]) \/ MaxChanges <= 2 =>
                             Digest(a.files[i]) = Digest(a.inputs[i])
                    /\ \A o \in output.consensus : o.oracleId = a.oracle
  BY DEF SealedAuditIsTrue, AuditIsTrue
<1> DEFINE v == output.made
<1>1. /\ v \in Revalidators /\ pc[v] = "passed"
      /\ a.oracle = oracle[v][1].oracleId
      /\ a.inputs = loaded[v] /\ a.files = before[v]
  BY DEF IInv, Published
<1>2. \A o \in output.consensus : o.oracleId = a.oracle
  BY <1>1 DEF IInv, Published
<1>3. Len(before[v]) = Len(loaded[v])
  BY <1>1 DEF IInv, Sound, Reading, Final
<1>4. DOMAIN before[v] = 1..Len(before[v]) /\ DOMAIN loaded[v] = 1..Len(loaded[v])
  BY <1>1, LenProperties DEF IInv, Typing
<1>5. \A i \in 1..Len(loaded[v]) : Genuine(before[v][i]) \/ MaxChanges <= 2 =>
         Content[before[v][i]] = Content[loaded[v][i]]
  BY <1>1 DEF IInv, Sound, Rechecked, Final
<1> QED BY <1>1, <1>2, <1>3, <1>4, <1>5 DEF Digest

(* However often files change, the digest a published audit gives of a genuine
   report is that of the report it judged; while at most two changes occur the
   same holds of every digest. It is about main of revalidate_oracles.py, which
   hashes a file before and after loading it. *)
THEOREM AuditsAreTrue ==
    ASSUME ReportAssumption, RevalidationAssumption
    PROVE  Spec => [](SealedAuditIsTrue /\ (MaxChanges <= 2 => AuditIsTrue))
<1>1. Init => IInv
  BY IInvInit
<1>2. IInv /\ [Next]_vars => IInv'
  BY IInvStep
<1>3. IInv => SealedAuditIsTrue /\ (MaxChanges <= 2 => AuditIsTrue)
  BY AuditOfSound
<1> QED BY <1>1, <1>2, <1>3, PTL DEF Spec

-----------------------------------------------------------------------------
(* What a verdict means                                                    *)

(* Records that agree are of the same tests, contracts and frames: the      *)
(* comparison view changes nothing but a failure count.                     *)
LEMMA AgreedRecords ==
    ASSUME NEW s, NEW t, RecordsAgree(s, t), NEW n \in s
    PROVE  \E o \in t : /\ o.test = n.test /\ o.contract = n.contract
                        /\ o.hashes = n.hashes /\ o.excluded = n.excluded
<1> DEFINE View(r) == IF CountIsDiagnostic(r)
                      THEN [r EXCEPT !.oracle.failures = -1] ELSE r
<1>1. ComparisonRecords(s) = {View(r) : r \in s}
      /\ ComparisonRecords(t) = {View(r) : r \in t}
  BY DEF ComparisonRecords
<1>2. PICK o \in t : View(n) = View(o)
  BY <1>1 DEF RecordsAgree
<1>3. ASSUME NEW r
      PROVE  /\ View(r).test = r.test /\ View(r).contract = r.contract
             /\ View(r).hashes = r.hashes /\ View(r).excluded = r.excluded
  BY <1>3
<1> HIDE DEF View
<1> QED BY <1>2, <1>3

(* The records two runs sealed agree only if the guests saw the same.       *)
LEMMA AgreementMeansSameFrames ==
    ASSUME ReportAssumption, NEW n \in SealedRuns, NEW o \in SealedRuns,
           RecordsAgree(ReportOf[n].records, ReportOf[o].records)
    PROVE  \A r \in Runs[n].raw :
              /\ r.status \notin {"FAIL", "fail"}
              /\ \E s \in Runs[o].raw : /\ s.name = r.name
                                        /\ s.contract = r.contract
                                        /\ Shown(s) = Shown(r)
<1> SUFFICES ASSUME NEW r \in Runs[n].raw
             PROVE  /\ r.status \notin {"FAIL", "fail"}
                    /\ \E s \in Runs[o].raw : /\ s.name = r.name
                                              /\ s.contract = r.contract
                                              /\ Shown(s) = Shown(r)
  OBVIOUS
<1>1. /\ ReportOf[n].records = {Normalized(x) : x \in Runs[n].raw}
      /\ ReportOf[o].records = {Normalized(x) : x \in Runs[o].raw}
  BY BuiltReport DEF ReportOf
<1>2. Normalized(r) \in ReportOf[n].records
  BY <1>1
<1>3. r.status \notin {"FAIL", "fail"}
  <2>1. Normalized(r).oracle.status # "FAIL"
    BY <1>2 DEF RecordsAgree, NoneFailed
  <2> QED BY <2>1 DEF Normalized, InternalOracle
<1>4. PICK m \in ReportOf[o].records :
         /\ m.test = Normalized(r).test /\ m.contract = Normalized(r).contract
         /\ m.hashes = Normalized(r).hashes /\ m.excluded = Normalized(r).excluded
  BY <1>2, AgreedRecords
<1>5. PICK s \in Runs[o].raw : m = Normalized(s)
  BY <1>1
<1>6. /\ s.name = r.name /\ s.contract = r.contract
      /\ EligibleHashes(s) = EligibleHashes(r) /\ Excluded(s) = Excluded(r)
  BY <1>4, <1>5 DEF Normalized
<1>7. "frame" \notin KatNames
  BY DEF ReportAssumption
<1>8. ASSUME NEW x
      PROVE  IF x.frameEligible
             THEN /\ "frame" \notin Excluded(x)
                  /\ EligibleHashes(x)["frame"] = Spelling[x.frame]
             ELSE "frame" \in Excluded(x)
  <2>1. "frame" \notin RecordKats(x)
    BY <1>7 DEF RecordKats
  <2>2. IF x.frameEligible THEN "frame" \notin Excluded(x)
                           ELSE "frame" \in Excluded(x)
    BY <2>1 DEF Excluded
  <2>3. "frame" \notin Excluded(x) =>
           EligibleHashes(x)["frame"] = Spelling[x.frame]
    BY <1>7, KeptHashes
  <2> QED BY <2>2, <2>3
<1> QED BY <1>3, <1>6, <1>8 DEF Shown
\* The fields of a consensus that a candidate is judged by.
LEMMA ConsensusFields ==
    ASSUME NEW ps
    PROVE  LET o == Consensus(ps) IN
             /\ o.provenance = "REGRESSION_CONSENSUS"
             /\ o.backend = ps[1].backend /\ o.guest = ps[1].guest
             /\ o.job = ps[1].job /\ o.records = ps[1].records
BY DEF Consensus, Sealed, WithFields

(* All that was judged agrees with the first witness.                       *)
LEMMA JudgedAgree ==
    ASSUME RevalidationAssumption, IInv, NEW v \in Revalidators,
           pc[v] = "passed", NEW i \in 1..Len(loaded[v])
    PROVE  LET c == Content[loaded[v][i]]  first == Content[loaded[v][1]] IN
             /\ 1 \in 1..Len(loaded[v]) /\ first.type = "XEMU"
             /\ c.backend = first.backend /\ c.guest = first.guest
             /\ c.job = first.job /\ RecordsAgree(first.records, c.records)
<1> DEFINE l == loaded[v]
           b == Len(Baseline[v])
           ps == FirstReports(v)
           qs == Judged(v)
<1>1. l \in Seq(SealedRuns \X SealedRuns) /\ Len(l) = Len(Arguments(v))
  BY DEF IInv, Typing, Sound, Reading, Final
<1>2. b \in Nat /\ 1 <= b /\ b <= Len(l) /\ Len(l) \in Nat
  <2>1. Baseline[v] \in Seq(Paths) \ {<<>>} /\ Candidate[v] \in Seq(Paths)
    BY DEF RevalidationAssumption
  <2>2. Len(Arguments(v)) = b + Len(Candidate[v]) /\ Len(Candidate[v]) \in Nat
    BY <2>1, ConcatProperties, LenProperties DEF Arguments
  <2>3. b \in Nat \ {0}
    BY <2>1, EmptySeq, LenProperties
  <2> DEFINE c == Len(Candidate[v])
             m == Len(l)
  <2>4. m = b + c /\ c \in Nat /\ b \in Nat /\ b # 0
    BY <1>1, <2>2, <2>3
  <2> HIDE DEF b, c, m
  <2>5. b \in Nat /\ 1 <= b /\ b <= m /\ m \in Nat
    BY <2>4
  <2> QED BY <2>5 DEF b, m
<1>3. /\ DOMAIN ps = 1..b
      /\ \A k \in 1..b : ps[k] = Content[l[k]]
  <2>1. DOMAIN SubSeq(l, 1, b) = 1..b /\ \A k \in 1..b : SubSeq(l, 1, b)[k] = l[k]
    BY <1>1, <1>2, SubSeqProperties
  <2> QED BY <2>1 DEF FirstReports, Contents
<1>4. /\ DOMAIN qs = 1..(Len(l) - b)
      /\ \A k \in 1..(Len(l) - b) : qs[k] = Content[l[b + k]]
  <2> DEFINE t == SubSeq(l, b + 1, Len(l))
           m == Len(l)
           S == SealedRuns \X SealedRuns
  <2>1. /\ DOMAIN t = 1..(m - b)
        /\ \A k \in 1..(m - b) : t[k] = l[b + k]
    <3>1. b \in Nat /\ b <= m /\ m \in Nat /\ \A k \in (b + 1)..m : l[k] \in S
      BY <1>1, <1>2, ElementOfSeq
    <3> HIDE DEF m, b, l, S
    <3>2. /\ t \in Seq(S)
          /\ Len(t) = IF b + 1 <= m THEN m - (b + 1) + 1 ELSE 0
          /\ \A k \in 1..(m - (b + 1) + 1) : t[k] = l[b + 1 + k - 1]
      BY <3>1, SubSeqProperties DEF m
    <3> HIDE DEF t
    <3>3. Len(t) = m - b /\ m - (b + 1) + 1 = m - b
      BY <3>1, <3>2
    <3>4. ASSUME NEW k \in 1..(m - b)
          PROVE  t[k] = l[b + k]
      <4>1. b + 1 + k - 1 = b + k
        BY <3>1
      <4> QED BY <3>2, <3>3, <4>1
    <3> QED BY <3>2, <3>3, <3>4, LenProperties
  <2> QED BY <2>1 DEF Judged, Contents
<1>5. /\ CanAgree(ps)
      /\ \A k \in DOMAIN qs : Accepts(Consensus(ps), qs[k])
  BY DEF IInv, Sound, Agreed, Final
<1>6. ps[1] = Content[l[1]] /\ ps[1].type = "XEMU" /\ 1 \in 1..Len(l)
  BY <1>2, <1>3, <1>5 DEF CanAgree
<1>7. CASE i <= b
  <2>1. i \in DOMAIN ps /\ ps[i] = Content[l[i]]
    BY <1>2, <1>3, <1>7
  <2> QED BY <1>5, <1>6, <2>1 DEF CanAgree
<1>8. CASE i > b
  <2>1. i - b \in DOMAIN qs /\ qs[i - b] = Content[l[i]]
    <3> DEFINE m == Len(l)
    <3>1. b \in Nat /\ m \in Nat /\ i \in 1..m /\ i > b
      BY <1>2, <1>8
    <3> HIDE DEF b, m
    <3>2. i - b \in 1..(m - b) /\ b + (i - b) = i
      BY <3>1
    <3> QED BY <1>4, <3>2 DEF b, m
  <2>2. Accepts(Consensus(ps), Content[l[i]])
    BY <1>5, <2>1
  <2> QED BY <1>6, <2>2, ConsensusFields DEF Accepts
<1> QED BY <1>2, <1>7, <1>8

LEMMA VerdictOfSound ==
    ASSUME ReportAssumption, RevalidationAssumption, IInv
    PROVE  PassedMeansSameFrames
<1> SUFFICES ASSUME NEW a \in output.audit,
                    NEW i \in DOMAIN a.inputs, NEW j \in DOMAIN a.inputs
             PROVE  LET n == Runs[a.inputs[i][1]]  o == Runs[a.inputs[j][1]] IN
                 /\ Content[a.inputs[i]] = ReportOf[a.inputs[i][1]]
                 /\ n.type = "XEMU"
                 /\ n.backend = o.backend /\ n.guest = o.guest /\ n.job = o.job
                 /\ \A r \in n.raw :
                       /\ r.status \notin {"FAIL", "fail"}
                       /\ \E s \in o.raw : /\ s.name = r.name
                                           /\ s.contract = r.contract
                                           /\ Shown(s) = Shown(r)
  BY DEF PassedMeansSameFrames
<1> DEFINE v == output.made
           l == loaded[v]
<1>1. v \in Revalidators /\ pc[v] = "passed" /\ a.inputs = l
  BY DEF IInv, Published
<1>2. l \in Seq(SealedRuns \X SealedRuns)
  BY <1>1 DEF IInv, Typing
<1>3. DOMAIN l = 1..Len(l)
  BY <1>2, LenProperties
<1>4. 1 \in 1..Len(l) /\ i \in 1..Len(l) /\ j \in 1..Len(l)
  BY <1>1, <1>3, JudgedAgree
<1>5. \A k \in 1..Len(l) :
         /\ l[k] \in SealedRuns \X SealedRuns
         /\ Content[l[k]] = ReportOf[l[k][1]]
  <2> SUFFICES ASSUME NEW k \in 1..Len(l)
               PROVE  /\ l[k] \in SealedRuns \X SealedRuns
                      /\ Content[l[k]] = ReportOf[l[k][1]]
    OBVIOUS
  <2>1. l[k] \in SealedRuns \X SealedRuns
    BY <1>2, ElementOfSeq
  <2>2. Genuine(l[k])
    BY <1>1 DEF IInv, Sound, Known
  <2> QED BY <2>1, <2>2, GenuineIsSealed
<1>6. \A k \in 1..Len(l) :
         LET c == Content[l[k]]  first == Content[l[1]] IN
           /\ first.type = "XEMU" /\ c.backend = first.backend
           /\ c.guest = first.guest /\ c.job = first.job
           /\ RecordsAgree(first.records, c.records)
  BY <1>1, JudgedAgree
<1>7. \A k \in 1..Len(l) :
         LET c == Content[l[k]]  run == Runs[l[k][1]] IN
           /\ c.type = run.type /\ c.backend = run.backend
           /\ c.guest = run.guest /\ c.job = run.job
  BY <1>5, ContentFields
<1>8. Runs[l[i][1]].type = "XEMU"
  <2>1. Runs[l[i][1]].backend = Runs[l[1][1]].backend /\ Runs[l[1][1]].type = "XEMU"
    BY <1>4, <1>6, <1>7
  <2>2. l[i][1] \in DOMAIN Runs /\ l[1][1] \in DOMAIN Runs
    BY <1>4, <1>5 DEF SealedRuns
  <2> QED BY <2>1, <2>2 DEF RevalidationAssumption
<1>9. RecordsAgree(ReportOf[l[i][1]].records, ReportOf[l[j][1]].records)
  BY <1>4, <1>5, <1>6 DEF RecordsAgree
<1>10. l[i][1] \in SealedRuns /\ l[j][1] \in SealedRuns
  BY <1>4, <1>5
<1>11. \A k \in {i, j} :
          /\ Runs[l[k][1]].backend = Content[l[1]].backend
          /\ Runs[l[k][1]].guest = Content[l[1]].guest
          /\ Runs[l[k][1]].job = Content[l[1]].job
  BY <1>4, <1>6, <1>7
<1>12. \A r \in Runs[l[i][1]].raw :
          /\ r.status \notin {"FAIL", "fail"}
          /\ \E s \in Runs[l[j][1]].raw : /\ s.name = r.name
                                          /\ s.contract = r.contract
                                          /\ Shown(s) = Shown(r)
  BY <1>9, <1>10, AgreementMeansSameFrames
<1>13. Content[l[i]] = ReportOf[l[i][1]]
  BY <1>4, <1>5
<1>14. /\ Runs[l[i][1]].backend = Runs[l[j][1]].backend
       /\ Runs[l[i][1]].guest = Runs[l[j][1]].guest
       /\ Runs[l[i][1]].job = Runs[l[j][1]].job
  BY <1>11
<1>15. a.inputs = l
  BY <1>1
<1> HIDE DEF l
<1> QED BY <1>8, <1>12, <1>13, <1>14, <1>15, Zenon

(* Whatever the guests wrote, however often files are replaced or edited    *)
(* and whoever else wants the directory, a published verdict is over        *)
(* genuine reports of runs that showed the same frames.                     *)
THEOREM VerdictsMeanSameFrames ==
    ASSUME ReportAssumption, RevalidationAssumption
    PROVE  Spec => []PassedMeansSameFrames
<1>1. Init => IInv
  BY IInvInit
<1>2. IInv /\ [Next]_vars => IInv'
  BY IInvStep
<1>3. IInv => PassedMeansSameFrames
  BY VerdictOfSound
<1> QED BY <1>1, <1>2, <1>3, PTL DEF Spec
=============================================================================
