--------------------------- MODULE OracleReports ---------------------------
(***************************************************************************)
(* The functional hash reports of utils/oracle_validation.py, as pure      *)
(* operators: what a report keeps of the guest's records, what a sealed    *)
(* report must look like, how reports become an oracle and how a report is *)
(* judged by one.                                                          *)
(*                                                                         *)
(* A hash is a letter; "A" and "0xa" are spellings of "a", any other text  *)
(* is no hash, and "none" is an absent field.  A SHA-256 over JSON is the  *)
(* content it is taken over: it identifies it.  Lists that the code sorts  *)
(* by a key no two members share are sets.  A KAT is one value by its      *)
(* name: "bad" is a value JSON has and a KAT may not be.                   *)
(***************************************************************************)
EXTENDS Integers, FiniteSets, Sequences

CONSTANTS
    Spelling,        \* texts that are hashes |-> the canonical hash
    KatNames,        \* names record_kats selects
    SourceKats,      \* those that start with "source_"
    Counterpart,     \* name of an expected value |-> that of the actual one
    Diagnostic       \* the two S3TC tests with undefined readback

ASSUME ReportAssumption ==
    /\ SourceKats \subseteq KatNames
    /\ \A h \in DOMAIN Spelling : Spelling[h] \in DOMAIN Spelling
                                  /\ Spelling[Spelling[h]] = Spelling[h]
    /\ {"none", "bad"} \cap DOMAIN Spelling = {}
    /\ {"frame", "work", "result"} \cap KatNames = {}

IsHash(h) == h \in DOMAIN Spelling

-----------------------------------------------------------------------------
(* From the guest's record r to the record of a report                     *)

RecordKats(r) == DOMAIN r.metadata \cap KatNames

\* An expected KAT has no counterpart or equals it; no value is unsupported.
KatsAgree(kats) ==
    /\ \A k \in DOMAIN kats : kats[k] # "bad"
    /\ \A k \in DOMAIN kats \cap DOMAIN Counterpart :
          Counterpart[k] \in DOMAIN kats => kats[k] = kats[Counterpart[k]]

\* record_hashes: the frame, the two checksums together, the KATs.
Sums(r) == IF r.work # "none" /\ r.result # "none" THEN {"work", "result"}
                                                   ELSE {}

RecordHashes(r) ==
    [o \in {"frame"} \cup Sums(r) \cup RecordKats(r) |->
        IF o \in KatNames THEN r.metadata[o] ELSE Spelling[r[o]]]

HashesReadable(r) ==
    /\ IsHash(r.frame)
    /\ r.expectedFrame # "none" => /\ IsHash(r.expectedFrame)
                                   /\ Spelling[r.expectedFrame] = Spelling[r.frame]
    /\ (r.work = "none") = (r.result = "none") \/ r.kind = "repeated_display"
    /\ \A s \in Sums(r) : IsHash(r[s])
    /\ KatsAgree([k \in RecordKats(r) |-> r.metadata[k]])

\* record_comparison_policy: observations the guest says cannot be compared.
Excluded(r) ==
    (IF r.frameEligible THEN {} ELSE {"frame"})
    \cup (IF r.oracleApplicable THEN {} ELSE RecordKats(r) \ SourceKats)

\* (Bug: only the frame is taken out.)
HashesButFrame(r) ==
    [o \in DOMAIN RecordHashes(r) \ (Excluded(r) \cap {"frame"}) |->
        RecordHashes(r)[o]]

EligibleHashes(r) ==
    [o \in DOMAIN RecordHashes(r) \ Excluded(r) |-> RecordHashes(r)[o]]

NoOracle == [status |-> "none", failures |-> -1, provenance |-> "none"]

\* record_internal_oracle: nothing else is looked at without a status.
InternalOracle(r) ==
    IF r.status = "none" THEN NoOracle
    ELSE [status |-> IF r.status = "pass" THEN "PASS"
                     ELSE IF r.status = "fail" THEN "FAIL" ELSE r.status,
          failures |-> r.failures, provenance |-> r.provenance]

\* normalized_records, on one record, and whether it raises.
Normalized(r) ==
    [test |-> r.name, contract |-> r.contract, hashes |-> EligibleHashes(r),
     excluded |-> Excluded(r),
     reason |-> IF Excluded(r) = {} THEN "none" ELSE r.reason,
     oracle |-> InternalOracle(r)]

Normalizable(r) ==
    /\ r.name # "none" /\ r.contract # "bad"
    /\ HashesReadable(r)
    /\ Excluded(r) # {} => r.reason # "none" /\ DOMAIN EligibleHashes(r) # {}
    /\ InternalOracle(r).status \in {"none", "PASS", "FAIL"}
    /\ r.status # "none" => r.failures >= -1 /\ r.provenance # "bad"

Identity(n) == <<n.test, n.contract>>

NoDuplicates(records) ==
    \A n, o \in records : Identity(n) = Identity(o) => n = o

-----------------------------------------------------------------------------
(* Sealed reports                                                          *)

Stable(p) == <<p.type, p.backend, p.guest, p.job, p.records>>
SealOf(p) == <<Stable(p), p.observation, p.scale, p.hardware>>

\* What _validate_normalized_records asks of one record.
RecordShape(n) ==
    LET present == DOMAIN n.hashes IN
    /\ n.test # "none" /\ n.contract # "bad"
    /\ (n.excluded = {}) = (n.reason = "none")
    /\ n.excluded \subseteq {"frame"} \cup KatNames
    /\ n.excluded \cap present = {}
    /\ "frame" \in present \/ "frame" \in n.excluded
    /\ ("work" \in present) = ("result" \in present)
    /\ present \subseteq {"frame", "work", "result"} \cup KatNames
    /\ \A o \in present \ KatNames : IsHash(n.hashes[o])
    /\ KatsAgree([k \in present \cap KatNames |-> n.hashes[k]])
    /\ n.oracle.status \in {"none", "PASS", "FAIL"}
    /\ n.oracle.failures >= -1 /\ n.oracle.provenance # "bad"

RecordsShape(records) ==
    /\ records # {} /\ NoDuplicates(records)
    /\ \A n \in records : RecordShape(n)

\* _validate_report_shape: the ids are those of the content.
ReportShape(p) ==
    /\ p.type \in {"XEMU", "RETAIL_XBOX"} /\ RecordsShape(p.records)
    /\ p.observation # "none"
    /\ p.functionalId = Stable(p) /\ p.reportId = SealOf(p)

\* A JSON object that is given the fields of another.
WithFields(p, q) == [f \in DOMAIN p \cup DOMAIN q |->
                        IF f \in DOMAIN q THEN q[f] ELSE p[f]]

\* build_report of a run; two raw records of one identity raise.
BuildReport(run) ==
    LET p == [type |-> run.type, backend |-> run.backend, guest |-> run.guest,
              job |-> run.job, observation |-> run.id, scale |-> run.scale,
              hardware |-> run.hardware,
              records |-> {Normalized(r) : r \in run.raw}]
    IN  WithFields(p, [functionalId |-> Stable(p), reportId |-> SealOf(p)])

Buildable(run) ==
    /\ run.raw # {} /\ \A r \in run.raw : Normalizable(r)
    /\ \A r, s \in run.raw :
          r.name = s.name /\ r.contract = s.contract => r = s

-----------------------------------------------------------------------------
(* Comparison and oracles                                                  *)

\* The S3TC diagnostics: only their failure count depends on the readback.
CountIsDiagnostic(n) ==
    /\ n.test \in Diagnostic /\ n.reason = "unsynchronized"
    /\ n.excluded = {"frame", "tile_center_kat"}
    /\ n.oracle.provenance = "regression_only"

ComparisonRecords(records) ==
    {IF CountIsDiagnostic(n) THEN [n EXCEPT !.oracle.failures = -1] ELSE n :
        n \in records}

NoneFailed(records) == \A n \in records : n.oracle.status # "FAIL"

\* first_difference finds none between two comparison views.
RecordsAgree(s, t) == /\ NoneFailed(s) /\ NoneFailed(t)
                      /\ ComparisonRecords(s) = ComparisonRecords(t)

ReportIds(ps) == {ps[i].reportId : i \in DOMAIN ps}

\* (Bug: reports are compared as they are written, their verdicts unseen.)
AgreeAsWritten(ps) ==
    /\ Len(ps) >= 2 /\ Cardinality(ReportIds(ps)) >= 2
    /\ \A i \in DOMAIN ps :
          /\ ReportShape(ps[i]) /\ ps[i].type = "XEMU"
          /\ ps[i].backend = ps[1].backend /\ ps[i].guest = ps[1].guest
          /\ ps[i].job = ps[1].job /\ ps[i].records = ps[1].records

\* build_consensus succeeds on the reports ps, in this order.
CanAgree(ps) ==
    /\ Len(ps) >= 2 /\ Cardinality(ReportIds(ps)) >= 2
    /\ \A i \in DOMAIN ps :
          /\ ReportShape(ps[i]) /\ ps[i].type = "XEMU"
          /\ ps[i].backend = ps[1].backend /\ ps[i].guest = ps[1].guest
          /\ ps[i].job = ps[1].job
          /\ RecordsAgree(ps[1].records, ps[i].records)

Sealed(o) == WithFields(o, [oracleId |-> o])

Consensus(ps) ==
    Sealed([provenance |-> "REGRESSION_CONSENSUS", backend |-> ps[1].backend,
            guest |-> ps[1].guest, job |-> ps[1].job, records |-> ps[1].records,
            witnesses |-> ReportIds(ps), count |-> Cardinality(ReportIds(ps))])

\* build_retail_consensus: one report per owner, records equal as they are.
Owners(ps) == {ps[i].hardware : i \in DOMAIN ps}

CanAgreeRetail(ps) ==
    /\ Len(ps) >= 2
    /\ \A i \in DOMAIN ps :
          /\ ReportShape(ps[i]) /\ ps[i].type = "RETAIL_XBOX"
          /\ ps[i].hardware # "none"
          /\ <<ps[i].guest, ps[i].job, ps[i].records>>
                = <<ps[1].guest, ps[1].job, ps[1].records>>
    /\ Cardinality(Owners(ps)) = Len(ps)

RetailConsensus(ps) ==
    Sealed([provenance |-> "RETAIL_XBOX", backend |-> "retail-xbox",
            guest |-> ps[1].guest, job |-> ps[1].job, records |-> ps[1].records,
            witnesses |-> {<<ps[i].hardware, ps[i].reportId>> : i \in DOMAIN ps},
            count |-> Len(ps)])

\* _validate_oracle_shape
OracleShape(o) ==
    /\ o.provenance \in {"REGRESSION_CONSENSUS", "RETAIL_XBOX"}
    /\ RecordsShape(o.records)
    /\ o.count >= 2 /\ Cardinality(o.witnesses) = o.count
    /\ o.provenance = "RETAIL_XBOX" => o.backend = "retail-xbox"
    /\ o.oracleId = [f \in DOMAIN o \ {"oracleId"} |-> o[f]]

\* (Bug: the candidate's backend is not looked at.)
AcceptsAnyBackend(o, p) ==
    /\ ReportShape(p) /\ OracleShape(o)
    /\ o.guest = p.guest /\ o.job = p.job
    /\ RecordsAgree(o.records, p.records)

\* validate_against_oracle
Accepts(o, p) ==
    /\ ReportShape(p) /\ OracleShape(o)
    /\ o.provenance = "REGRESSION_CONSENSUS" => o.backend = p.backend
    /\ o.guest = p.guest /\ o.job = p.job
    /\ RecordsAgree(o.records, p.records)
=============================================================================
