------------------------ MODULE RunLifecycleProofs ------------------------
(***************************************************************************)
(* Proofs about RunLifecycle for every catalog, plan, clock and bound.     *)
(***************************************************************************)
EXTENDS RunLifecycle, TLAPS

-----------------------------------------------------------------------------
(* Type correctness. *)

LEMMA TypeInit == Init => TypeOK
<1> SUFFICES ASSUME Init PROVE TypeOK
  OBVIOUS
<1>1. config \in Config
  BY DEF Init, Config, NoConfig
<1>2. current \in SUBSET File /\ history \in SUBSET Archived /\ planResult \in SUBSET PlanResult
  BY DEF Init
<1>3. /\ save \in BOOLEAN /\ timerCancelled \in BOOLEAN /\ batch \in BOOLEAN
      /\ failed \in BOOLEAN /\ unexpected \in BOOLEAN /\ oracleFailed \in BOOLEAN
      /\ softFailed \in BOOLEAN /\ leafMarked \in BOOLEAN /\ softSeen \in BOOLEAN
  BY Zenon DEF Init
<1> QED
  BY <1>1, <1>2, <1>3 DEF Init, TypeOK, Phases

LEMMA TypeStep == TypeOK /\ [Next]_vars => TypeOK'
<1> SUFFICES ASSUME TypeOK, [Next]_vars PROVE TypeOK'
  OBVIOUS
<1> USE CatalogAssumption
<1> USE DEF TypeOK, disk, user, running, account, Phases
<1>1. CASE PowerOn
  <2>1. config' \in Config
    <3>1. PICK plan \in Plans, attended, autorun, exitAfterRun \in BOOLEAN :
            config' = [planned |-> plan # {}, selected |-> plan, attended |-> attended,
                       autorun |-> autorun, exitAfterRun |-> exitAfterRun]
      BY <1>1 DEF PowerOn
    <3>2. plan \in SUBSET Leaves /\ (plan # {}) \in BOOLEAN
      OBVIOUS
    <3> QED
      BY <3>1, <3>2, Zenon DEF Config
  <2> QED
    BY <1>1, <2>1 DEF PowerOn
<1>2. CASE PowerOff
  <2>1. config' \in Config
    BY <1>2 DEF PowerOff, Config, NoConfig
  <2>2. /\ save' \in BOOLEAN /\ timerCancelled' \in BOOLEAN /\ batch' \in BOOLEAN
        /\ failed' \in BOOLEAN /\ unexpected' \in BOOLEAN /\ oracleFailed' \in BOOLEAN
        /\ softFailed' \in BOOLEAN /\ leafMarked' \in BOOLEAN /\ softSeen' \in BOOLEAN
    BY <1>2, Zenon DEF PowerOff
  <2> QED
    BY <1>2, <2>1, <2>2 DEF PowerOff
<1>3. CASE NothingToArchive \/ ArchiveFails \/ OpenLogFails \/ NoPlanResult
  BY <1>3 DEF NothingToArchive, ArchiveFails, OpenLogFails, NoPlanResult
<1>4. CASE MoveToHistory
  <2>1. history' \in SUBSET Archived
    BY <1>4 DEF MoveToHistory, Archived
  <2> QED
    BY <1>4, <2>1 DEF MoveToHistory
<1>5. CASE OpenLog
  <2>1. current' \in SUBSET File
    BY <1>5 DEF OpenLog, File
  <2> QED
    BY <1>5, <2>1 DEF OpenLog
<1>6. CASE Autorun \/ UserRunsAll \/ UserRunsRoute
  BY <1>6 DEF Autorun, UserRunsAll, UserRunsRoute, StartAll
<1>7. CASE UserTogglesMode \/ UserExits \/ BatchEnds \/ EndTest
  <2>1. CASE UserTogglesMode
    BY <2>1 DEF UserTogglesMode
  <2>2. CASE UserExits \/ BatchEnds
    <3>1. batch' \in BOOLEAN
      BY <2>2, Zenon DEF UserExits, BatchEnds
    <3> QED
      BY <2>2, <3>1 DEF UserExits, BatchEnds
  <2>3. CASE EndTest
    <3>1. softFailed' \in BOOLEAN
      BY <2>3, Zenon DEF EndTest, CountSoft
    <3> QED
      BY <2>3, <3>1 DEF EndTest
  <2> QED
    BY <1>7, <2>1, <2>2, <2>3
<1>8. CASE BeginTest
  <2>1. PICK i \in todo : pending' = Emits[RunOrder[i]] /\ todo' = todo \ {i}
    BY <1>8 DEF BeginTest
  <2>2. RunOrder[i] \in Routes
    BY <2>1
  <2>3. pending' \in Seq(Ids)
    BY <2>1, <2>2
  <2>4. failed' \in BOOLEAN /\ leafMarked' \in BOOLEAN
    BY <1>8, Zenon DEF BeginTest
  <2> QED
    BY <1>8, <2>1, <2>3, <2>4 DEF BeginTest
<1>9. CASE SoftFailure \/ AssertHalts
  <2>1. failed' \in BOOLEAN /\ softSeen' \in BOOLEAN
    BY <1>9, Zenon DEF SoftFailure, AssertHalts
  <2> QED
    BY <1>9, <2>1 DEF SoftFailure, AssertHalts
<1>10. CASE RecordResult
  <2> DEFINE id == Head(pending)
  <2>1. id \in Ids /\ pending' \in Seq(Ids)
    BY <1>10 DEF RecordResult
  <2>2. current' \in SUBSET File
    <3>1. PICK oracle \in OracleOutcomes(id), f \in current :
            current' = {[f EXCEPT !.recs = Append(@, [id |-> id,
                                             outcome |-> ResultOutcome(oracle)])]}
      BY <1>10 DEF RecordResult
    <3>2. [id |-> id, outcome |-> ResultOutcome(oracle)] \in Record
      BY <2>1 DEF Record, ResultOutcome, Outcome
    <3> HIDE DEF id
    <3>3. Append(f.recs, [id |-> id, outcome |-> ResultOutcome(oracle)]) \in Seq(Record)
      BY <3>2 DEF File
    <3> QED
      BY <3>1, <3>3 DEF File
  <2>3. emitted' \in SUBSET Leaves /\ unexpected' \in BOOLEAN
    BY <1>10, <2>1 DEF RecordResult, Account, Config
  <2>4. oracleFailed' \in BOOLEAN /\ leafMarked' \in BOOLEAN
    BY <1>10 DEF RecordResult, CountOracle, OracleOutcomes
  <2> QED
    BY <1>10, <2>1, <2>2, <2>3, <2>4 DEF RecordResult
<1>11. CASE RecordFails
  <2> DEFINE id == Head(pending)
  <2>1. id \in Ids
    BY <1>11 DEF RecordFails
  <2>2. current' \in SUBSET File
    BY <1>11 DEF RecordFails, File
  <2>3. emitted' \in SUBSET Leaves /\ unexpected' \in BOOLEAN
    BY <1>11, <2>1 DEF RecordFails, Account, Config
  <2>4. oracleFailed' \in BOOLEAN
    BY <1>11 DEF RecordFails, CountOracle, OracleOutcomes
  <2> QED
    BY <1>11, <2>2, <2>3, <2>4 DEF RecordFails
<1>12. CASE SkipRecord
  BY <1>12 DEF SkipRecord
<1>13. CASE CloseLog
  <2>1. current' \in SUBSET File
    BY <1>13 DEF CloseLog, File
  <2> QED
    BY <1>13, <2>1 DEF CloseLog
<1>14. CASE WritePlanResult
  <2>1. planResult' \in SUBSET PlanResult
    BY <1>14 DEF WritePlanResult, PlanResult, Config
  <2> QED
    BY <1>14, <2>1 DEF WritePlanResult
<1>15. CASE PlanResultFails
  <2>1. planResult' \in SUBSET PlanResult
    BY <1>15 DEF PlanResultFails, PlanResult, Config
  <2> QED
    BY <1>15, <2>1 DEF PlanResultFails
<1>16. CASE ShowVerdict
  BY <1>16 DEF ShowVerdict
<1>17. CASE UNCHANGED vars
  BY <1>17 DEF vars
<1> QED
  BY <1>1, <1>2, <1>3, <1>4, <1>5, <1>6, <1>7, <1>8, <1>9, <1>10, <1>11,
     <1>12, <1>13, <1>14, <1>15, <1>16, <1>17 DEF Next, Program, User, Fault

(***************************************************************************)
(* Every variable of the run keeps its type: in particular every record    *)
(* ever written names a catalog entry and emitted_test_ids_ holds leaves   *)
(* only.                                                                   *)
(***************************************************************************)
THEOREM TypeCorrect == Spec => []TypeOK
BY TypeInit, TypeStep, PTL DEF Spec

-----------------------------------------------------------------------------
(* The files. *)

\* A step that writes to the log replaces results.txt by an extension of it,
\* in the run whose log is open.
Rewrites ==
    /\ phase \in LogOpen
    /\ \E f \in current, g \in File : current' = {g} /\ Extends(f, g)
    /\ history' = history /\ boot' = boot /\ planResult' = planResult
    /\ phase' \in {"test", "halted", "plan"}

LEMMA RewriteSteps ==
  ASSUME TypeOK, TypeOK', RecordResult \/ RecordFails \/ CloseLog
  PROVE  Rewrites
<1>1. CASE RecordResult
  <2>1. PICK f \in current : \E r : current' = {[f EXCEPT !.recs = Append(@, r)]}
    BY <1>1 DEF RecordResult
  <2> PICK r : current' = {[f EXCEPT !.recs = Append(@, r)]}
    BY <2>1
  <2>2. Extends(f, [f EXCEPT !.recs = Append(@, r)])
    BY <2>1 DEF TypeOK, File, Extends
  <2> QED
    BY <1>1, <2>2 DEF RecordResult, Rewrites, LogOpen, TypeOK
<1>2. CASE RecordFails
  <2>1. PICK f \in current : current' = {[f EXCEPT !.tail = "torn"]}
    BY <1>2 DEF RecordFails
  <2>2. Extends(f, [f EXCEPT !.tail = "torn"])
    BY <2>1 DEF TypeOK, File, Extends
  <2> QED
    BY <1>2, <2>1, <2>2 DEF RecordFails, Rewrites, LogOpen, TypeOK
<1>3. CASE CloseLog
  <2>1. PICK f \in current, tail \in {"closed", "open"} : current' = {[f EXCEPT !.tail = tail]}
    BY <1>3 DEF CloseLog
  <2>2. Extends(f, [f EXCEPT !.tail = tail])
    BY <2>1 DEF TypeOK, File, Extends
  <2> QED
    BY <1>3, <2>1, <2>2 DEF CloseLog, Rewrites, LogOpen, TypeOK
<1> QED
  BY <1>1, <1>2, <1>3

\* Every other step leaves the result files alone.
LEMMA FileSteps ==
  ASSUME TypeOK, [Next]_vars
  PROVE  \/ UNCHANGED <<current, history>>
         \/ MoveToHistory \/ OpenLog
         \/ RecordResult \/ RecordFails \/ CloseLog
BY DEF Next, Program, User, Fault, vars, disk, PowerOn, PowerOff, NothingToArchive,
   ArchiveFails, OpenLogFails, Autorun, UserRunsAll, UserRunsRoute, StartAll,
   UserTogglesMode, UserExits, BatchEnds, BeginTest, SoftFailure, AssertHalts,
   SkipRecord, EndTest, WritePlanResult, PlanResultFails, NoPlanResult, ShowVerdict

\* The phases of a boot follow one another, and only PowerOn starts a boot.
LEMMA PhaseSteps ==
  ASSUME TypeOK, [Next]_vars
  PROVE  /\ phase' = "archive" => PowerOn \/ UNCHANGED vars
         /\ phase' = "open" => NothingToArchive \/ MoveToHistory \/ UNCHANGED vars
         /\ phase' \in InRun => OpenLog \/ (phase \in InRun /\ boot' = boot)
         /\ boot' = boot \/ PowerOn
BY DEF Next, Program, User, Fault, vars, disk, PowerOn, PowerOff, NothingToArchive,
   MoveToHistory, OpenLog, RecordResult, RecordFails, CloseLog,
   ArchiveFails, OpenLogFails, Autorun, UserRunsAll, UserRunsRoute, StartAll,
   UserTogglesMode, UserExits, BatchEnds, BeginTest, SoftFailure, AssertHalts,
   SkipRecord, EndTest, WritePlanResult, PlanResultFails, NoPlanResult, ShowVerdict,
   InRun, LogOpen

LEMMA FilesInit == Init => FilesInv /\ LogInv
BY DEF Init, FilesInv, LogInv, OneFilePerRun, Store, InRun, LogOpen

LEMMA FilesStep ==
  ASSUME TypeOK, TypeOK', FilesInv, LogInv, [Next]_vars
  PROVE  FilesInv'
<1>1. CASE UNCHANGED <<current, history>>
  <2>1. OneFilePerRun' /\ Store' = Store
    BY <1>1 DEF FilesInv, OneFilePerRun, Store
  <2>2. boot' >= boot
    BY PhaseSteps DEF PowerOn, TypeOK
  <2>3. \A f \in Store : f.boot \in Nat
    BY DEF Store, TypeOK, File, Archived
  <2>4. \A f \in Store : f.boot <= boot'
    BY <2>2, <2>3 DEF FilesInv, TypeOK
  <2>5. CASE phase' = "archive" /\ PowerOn
    BY <1>1, <2>1, <2>3, <2>4, <2>5 DEF FilesInv, PowerOn, TypeOK
  <2>6. CASE phase' = "open" /\ NothingToArchive
    BY <1>1, <2>1, <2>4, <2>6 DEF FilesInv, NothingToArchive
  <2>7. CASE phase' = "open" /\ MoveToHistory
    BY <1>1, <2>7 DEF MoveToHistory
  <2>8. CASE UNCHANGED vars
    BY <1>1, <2>1, <2>4, <2>8 DEF FilesInv, vars
  <2>9. CASE phase' \notin {"archive", "open"}
    BY <1>1, <2>1, <2>4, <2>9 DEF FilesInv
  <2> QED
    BY <2>5, <2>6, <2>7, <2>8, <2>9, PhaseSteps
<1>2. CASE MoveToHistory
  <2>1. PICK f \in current, stamp \in Stamps, n \in 0 .. MaxBoots :
          /\ FreeSuffix(stamp, n)
          /\ history' = history \cup {[stamp |-> stamp, suffix |-> n, file |-> f]}
    BY <1>2 DEF MoveToHistory
  <2>2. current' = {} /\ boot' = boot /\ phase = "archive" /\ phase' = "open"
    BY <1>2 DEF MoveToHistory
  <2>3. Store' = Store
    <3> DEFINE moved == [stamp |-> stamp, suffix |-> n, file |-> f]
    <3>1. moved.file = f /\ current = {f}
      BY DEF FilesInv
    <3> HIDE DEF moved
    <3>2. Store' = {h.file : h \in history \cup {moved}}
      BY <2>1, <2>2 DEF Store, moved
    <3>3. Store = {f} \cup {h.file : h \in history}
      BY <3>1 DEF Store
    <3> QED
      BY <3>1, <3>2, <3>3
  <2>4. \A h \in history : ~(h.stamp = stamp /\ h.suffix = n)
    BY <2>1 DEF FreeSuffix, Taken
  <2>5. OneFilePerRun'
    BY <2>1, <2>2, <2>4 DEF OneFilePerRun, FilesInv
  <2> QED
    BY <2>2, <2>3, <2>5 DEF FilesInv
<1>3. CASE OpenLog
  <2>1. current' = {[boot |-> boot, recs |-> <<>>, tail |-> "open"]}
    BY <1>3 DEF OpenLog
  <2>2. history' = history /\ boot' = boot /\ phase = "open" /\ phase' = "menu"
    BY <1>3 DEF OpenLog
  <2>3. \A h \in history : h.file.boot \in Nat /\ h.file.boot < boot
    BY <2>2 DEF FilesInv, Store, TypeOK, Archived, File
  <2>4. OneFilePerRun'
    BY <2>1, <2>2, <2>3 DEF OneFilePerRun, FilesInv, TypeOK
  <2>5. \A f \in Store' : f.boot <= boot
    BY <2>1, <2>2, <2>3 DEF Store, TypeOK
  <2> QED
    BY <2>1, <2>2, <2>4, <2>5 DEF FilesInv
<1>4. CASE Rewrites
  <2>1. PICK f \in current, g \in File : current' = {g} /\ g.boot = f.boot
    BY <1>4 DEF Rewrites, Extends
  <2>2. history' = history /\ boot' = boot /\ phase' \notin {"archive", "open"}
    BY <1>4 DEF Rewrites
  <2>3. OneFilePerRun'
    BY <2>1, <2>2 DEF OneFilePerRun, FilesInv
  <2>4. \A e \in Store' : e.boot <= boot
    BY <2>1, <2>2 DEF Store, FilesInv
  <2> QED
    BY <2>1, <2>2, <2>3, <2>4 DEF FilesInv
<1> QED
  BY <1>1, <1>2, <1>3, <1>4, FileSteps, RewriteSteps

LEMMA LogStep ==
  ASSUME TypeOK, TypeOK', FilesInv, LogInv, [Next]_vars
  PROVE  LogInv'
<1>1. CASE OpenLog
  BY <1>1 DEF OpenLog, LogInv
<1>2. ASSUME phase' \in InRun, ~OpenLog
      PROVE  \E f \in current' : f.boot = boot'
  <2>1. phase \in InRun /\ boot' = boot
    BY <1>2, PhaseSteps
  <2>2. CASE UNCHANGED <<current, history>>
    BY <2>1, <2>2 DEF LogInv
  <2>3. CASE Rewrites
    BY <2>1, <2>3 DEF Rewrites, Extends, LogInv, FilesInv
  <2>4. ~MoveToHistory
    BY <2>1 DEF MoveToHistory, InRun, LogOpen
  <2> QED
    BY <1>2, <2>2, <2>3, <2>4, FileSteps, RewriteSteps
<1>3. ASSUME phase' \in LogOpen, ~OpenLog
      PROVE  \A f \in current' : f.tail = "open"
  <2>1. ~RecordFails /\ ~CloseLog /\ ~MoveToHistory
    BY <1>3 DEF RecordFails, CloseLog, MoveToHistory, LogOpen
  <2>2. CASE RecordResult
    <3>1. PICK f \in current : \E r : current' = {[f EXCEPT !.recs = Append(@, r)]}
      BY <2>2 DEF RecordResult
    <3> PICK r : current' = {[f EXCEPT !.recs = Append(@, r)]}
      BY <3>1
    <3>2. f.tail = "open"
      BY <2>2 DEF RecordResult, LogInv, LogOpen
    <3>3. [f EXCEPT !.recs = Append(@, r)].tail = f.tail
      BY <3>1 DEF TypeOK, File
    <3> QED
      BY <3>2, <3>3
  <2>3. CASE UNCHANGED <<current, history>>
    <3>1. phase \in LogOpen \/ UNCHANGED vars
      BY <1>3 DEF Next, Program, User, Fault, PowerOn, PowerOff, NothingToArchive,
         MoveToHistory, OpenLog, RecordResult, RecordFails, CloseLog,
         ArchiveFails, OpenLogFails, Autorun, UserRunsAll, UserRunsRoute, StartAll,
         UserTogglesMode, UserExits, BatchEnds, BeginTest, SoftFailure, AssertHalts,
         SkipRecord, EndTest, WritePlanResult, PlanResultFails, NoPlanResult,
         ShowVerdict, LogOpen
    <3> QED
      BY <1>3, <2>3, <3>1 DEF LogInv, vars
  <2> QED
    BY <1>3, <2>1, <2>2, <2>3, FileSteps
<1> QED
  BY <1>1, <1>2, <1>3 DEF LogInv

(***************************************************************************)
(* For every catalog, clock and number of boots: no two archived runs      *)
(* share a name and no run is stored twice.                                *)
(***************************************************************************)
THEOREM OneFilePerRunHolds == Spec => []OneFilePerRun
<1>1. Init => TypeOK /\ FilesInv /\ LogInv
  BY TypeInit, FilesInit
<1>2. TypeOK /\ FilesInv /\ LogInv /\ [Next]_vars => (TypeOK /\ FilesInv /\ LogInv)'
  BY TypeStep, FilesStep, LogStep
<1>3. FilesInv => OneFilePerRun
  BY DEF FilesInv
<1> QED
  BY <1>1, <1>2, <1>3, PTL DEF Spec

-----------------------------------------------------------------------------
(* No evidence is lost. *)

LEMMA ExtendsItself ==
  ASSUME TypeOK, NEW f \in Store
  PROVE  Extends(f, f)
BY DEF Extends, TypeOK, Store, File, Archived

LEMMA StepKeepsEvidence ==
  ASSUME TypeOK, TypeOK', FilesInv, [Next]_vars
  PROVE  \A f \in Store : \E g \in Store' : Extends(f, g)
<1> SUFFICES ASSUME NEW f \in Store PROVE \E g \in Store' : Extends(f, g)
  OBVIOUS
<1>1. CASE UNCHANGED <<current, history>>
  BY <1>1, ExtendsItself DEF Store
<1>2. CASE MoveToHistory
  <2>1. PICK e \in current : \E moved :
          moved.file = e /\ history' = history \cup {moved}
    <3>1. PICK e \in current, stamp \in Stamps, n \in 0 .. MaxBoots :
            history' = history \cup {[stamp |-> stamp, suffix |-> n, file |-> e]}
      BY <1>2 DEF MoveToHistory
    <3>2. [stamp |-> stamp, suffix |-> n, file |-> e].file = e
      OBVIOUS
    <3> QED
      BY <3>1, <3>2
  <2>2. f \in Store'
    BY <2>1 DEF Store, FilesInv
  <2> QED
    BY <2>2, ExtendsItself
<1>3. CASE OpenLog
  BY <1>3, ExtendsItself DEF OpenLog, Store, FilesInv
<1>4. CASE Rewrites
  <2>1. PICK e \in current, g \in File : current' = {g} /\ Extends(e, g)
    BY <1>4 DEF Rewrites
  <2>2. CASE f \in current
    BY <2>1, <2>2 DEF Store, FilesInv
  <2>3. CASE f \notin current
    <3>1. f \in Store'
      BY <1>4, <2>3 DEF Store, Rewrites
    <3> QED
      BY <3>1, ExtendsItself
  <2> QED
    BY <2>2, <2>3
<1> QED
  BY <1>1, <1>2, <1>3, <1>4, FileSteps, RewriteSteps

(***************************************************************************)
(* For every catalog, clock, number of boots and sequence of failures:     *)
(* whatever a step does, every results file is still there afterwards      *)
(* with all its records.                                                   *)
(***************************************************************************)
THEOREM EvidenceIsKept == Spec => EvidenceKept
<1>1. Init => TypeOK /\ FilesInv /\ LogInv
  BY TypeInit, FilesInit
<1>2. TypeOK /\ FilesInv /\ LogInv /\ [Next]_vars => (TypeOK /\ FilesInv /\ LogInv)'
  BY TypeStep, FilesStep, LogStep
<1>3. TypeOK /\ TypeOK' /\ FilesInv /\ [Next]_vars
        => [\A f \in Store : \E g \in Store' : Extends(f, g)]_vars
  BY StepKeepsEvidence
<1> QED
  BY <1>1, <1>2, <1>3, PTL DEF Spec, EvidenceKept

-----------------------------------------------------------------------------
(* The account of the resolved plan. *)

LEMMA LeafIdsAppend ==
  ASSUME NEW recs \in Seq(Record), NEW r \in Record
  PROVE  /\ LeafIds(Append(recs, r)) = LeafIds(recs) \cup ({r.id} \cap Leaves)
         /\ NoRepeat(recs) /\ r.id \notin LeafIds(recs) => NoRepeat(Append(recs, r))
         /\ NoRepeat(recs) /\ r.id \notin Leaves => NoRepeat(Append(recs, r))
<1> DEFINE new == Append(recs, r)
<1>1. /\ DOMAIN new = DOMAIN recs \cup {Len(recs) + 1}
      /\ Len(recs) + 1 \notin DOMAIN recs
      /\ new[Len(recs) + 1] = r
      /\ \A i \in DOMAIN recs : new[i] = recs[i]
  OBVIOUS
<1> HIDE DEF new
<1>2. LeafPositions(new) =
        LeafPositions(recs) \cup (IF r.id \in Leaves THEN {Len(recs) + 1} ELSE {})
  BY <1>1 DEF LeafPositions
<1>3. \A i \in LeafPositions(recs) : i \in DOMAIN recs /\ new[i] = recs[i]
  BY <1>1 DEF LeafPositions
<1>4. LeafIds(new) = LeafIds(recs) \cup ({r.id} \cap Leaves)
  BY <1>1, <1>2, <1>3 DEF LeafIds
<1>5. ASSUME NoRepeat(recs), r.id \notin LeafIds(recs)
      PROVE  NoRepeat(new)
  BY <1>1, <1>2, <1>3, <1>5 DEF NoRepeat, LeafIds
<1>6. ASSUME NoRepeat(recs), r.id \notin Leaves
      PROVE  NoRepeat(new)
  BY <1>2, <1>3, <1>6 DEF NoRepeat
<1> QED
  BY <1>4, <1>5, <1>6 DEF new

\* What the steps that stay in a run can change.
LEMMA RunSteps ==
  ASSUME TypeOK, [Next]_vars, phase' \in InRun
  PROVE  \/ OpenLog \/ RecordResult \/ CloseLog
         \/ /\ phase \in InRun
            /\ UNCHANGED <<current, history, planResult, boot, config, emitted,
                           unexpected>>
         \/ WritePlanResult
BY DEF Next, Program, User, Fault, vars, disk, account, PowerOn, PowerOff,
   NothingToArchive, MoveToHistory, RecordFails, ArchiveFails, OpenLogFails, Autorun,
   UserRunsAll, UserRunsRoute, StartAll, UserTogglesMode, UserExits, BatchEnds,
   BeginTest, SoftFailure, AssertHalts, SkipRecord, EndTest, PlanResultFails,
   NoPlanResult, ShowVerdict, InRun, LogOpen

LEMMA AccountStep ==
  ASSUME TypeOK, TypeOK', FilesInv, LogInv, AccountInv, [Next]_vars
  PROVE  AccountInv'
<1> SUFFICES ASSUME phase' \in InRun, config'.planned, NEW f \in current'
             PROVE  /\ emitted' = LeafIds(f.recs)
                    /\ ~unexpected' => NoRepeat(f.recs)
  BY DEF AccountInv
<1>1. CASE OpenLog
  <2>1. f.recs = <<>> /\ emitted' = {}
    BY <1>1 DEF OpenLog
  <2>2. LeafPositions(<<>>) = {}
    BY DEF LeafPositions
  <2> QED
    BY <2>1, <2>2 DEF LeafIds, NoRepeat
<1>2. CASE RecordResult
  <2> DEFINE id == Head(pending)
  <2>1. PICK e \in current, oracle \in OracleOutcomes(id) :
          current' = {[e EXCEPT !.recs = Append(@, [id |-> id,
                                                    outcome |-> ResultOutcome(oracle)])]}
    BY <1>2 DEF RecordResult
  <2> DEFINE r == [id |-> id, outcome |-> ResultOutcome(oracle)]
  <2>2. id \in Ids /\ r \in Record /\ r.id = id
    BY <1>2 DEF RecordResult, TypeOK, Record, ResultOutcome, Outcome
  <2>3. e.recs \in Seq(Record) /\ f.recs = Append(e.recs, r)
    BY <2>1 DEF TypeOK, File
  <2>4. Account(id) /\ config' = config /\ phase \in InRun
    BY <1>2 DEF RecordResult, InRun, LogOpen
  <2>5. emitted = LeafIds(e.recs) /\ (~unexpected => NoRepeat(e.recs))
    BY <2>4 DEF AccountInv
  <2> HIDE DEF id, r
  <2>6. /\ LeafIds(f.recs) = LeafIds(e.recs) \cup ({id} \cap Leaves)
        /\ NoRepeat(e.recs) /\ id \notin LeafIds(e.recs) => NoRepeat(f.recs)
        /\ NoRepeat(e.recs) /\ id \notin Leaves => NoRepeat(f.recs)
    BY <2>2, <2>3, LeafIdsAppend
  <2>7. CASE id \in Leaves
    <3>1. emitted' = emitted \cup {id}
      BY <2>4, <2>7 DEF Account
    <3>2. ~unexpected' => ~unexpected /\ id \notin emitted
      BY <2>4, <2>7, Zenon DEF Account
    <3> QED
      BY <2>5, <2>6, <2>7, <3>1, <3>2
  <2>8. CASE id \notin Leaves
    <3>1. emitted' = emitted /\ (~unexpected' => ~unexpected)
      BY <2>4, <2>8, Zenon DEF Account
    <3> QED
      BY <2>5, <2>6, <2>8, <3>1
  <2> QED
    BY <2>7, <2>8
<1>3. CASE CloseLog
  <2>1. PICK e \in current, tail \in {"closed", "open"} : current' = {[e EXCEPT !.tail = tail]}
    BY <1>3 DEF CloseLog
  <2>2. f.recs = e.recs
    BY <2>1 DEF TypeOK, File
  <2> QED
    BY <1>3, <2>2 DEF CloseLog, account, AccountInv, InRun, LogOpen
<1>4. CASE phase \in InRun /\ UNCHANGED <<current, config, emitted, unexpected>>
  BY <1>4 DEF AccountInv
<1>5. CASE WritePlanResult
  BY <1>5 DEF WritePlanResult, account, AccountInv, InRun
<1> QED
  BY <1>1, <1>2, <1>3, <1>4, <1>5, RunSteps

LEMMA PlanStep ==
  ASSUME TypeOK, TypeOK', FilesInv, FilesInv', LogInv, AccountInv, PlanInv, [Next]_vars
  PROVE  PlanInv'
<1> SUFFICES ASSUME NEW p \in planResult'
             PROVE  /\ p.boot <= boot'
                    /\ p.completion = "COMPLETE" =>
                         /\ p.boot = boot' => phase' \in {"verdict", "final", "off"}
                         /\ \E f \in Store' : f.boot = p.boot /\ ExactlyOnce(f.recs, p.plan)
  BY DEF PlanInv, CompleteIsBacked
<1>1. CASE p \notin planResult
  <2>1. CASE WritePlanResult
    <3>1. p = [boot |-> boot, plan |-> config.selected,
               completion |-> IF PlanComplete THEN "COMPLETE" ELSE "INCOMPLETE"]
      BY <1>1, <2>1 DEF WritePlanResult
    <3>2. boot' = boot /\ phase' = "verdict" /\ phase = "plan" /\ config.planned /\ Store' = Store
      BY <2>1 DEF WritePlanResult, Store
    <3>3. PICK f \in current : f.boot = boot
      BY <3>2 DEF LogInv, InRun
    <3>4. p.completion = "COMPLETE" => ExactlyOnce(f.recs, p.plan)
      BY <3>1, <3>2, <3>3 DEF PlanComplete, AccountInv, InRun, ExactlyOnce
    <3> QED
      BY <3>1, <3>2, <3>3, <3>4 DEF Store, TypeOK
  <2>2. CASE PlanResultFails
    BY <1>1, <2>2 DEF PlanResultFails, TypeOK
  <2>3. WritePlanResult \/ PlanResultFails
    BY <1>1 DEF Next, Program, User, Fault, vars, disk, PowerOn, PowerOff, NothingToArchive,
       MoveToHistory, OpenLog, RecordResult, RecordFails, CloseLog,
       ArchiveFails, OpenLogFails, Autorun, UserRunsAll, UserRunsRoute, StartAll,
       UserTogglesMode, UserExits, BatchEnds, BeginTest, SoftFailure, AssertHalts,
       SkipRecord, EndTest, NoPlanResult, ShowVerdict
  <2> QED
    BY <2>1, <2>2, <2>3
<1>2. CASE p \in planResult
  <2>1. p.boot <= boot /\ p.boot \in Nat
    BY <1>2 DEF PlanInv, TypeOK, PlanResult
  <2>2. p.boot <= boot'
    BY <2>1, PhaseSteps DEF PowerOn, TypeOK
  <2>3. ASSUME p.completion = "COMPLETE", p.boot = boot'
        PROVE  phase' \in {"verdict", "final", "off"}
    <3>1. boot' = boot
      BY <2>1, <2>3, PhaseSteps DEF PowerOn, TypeOK
    <3>2. phase \in {"verdict", "final", "off"}
      BY <1>2, <2>3, <3>1 DEF PlanInv
    <3> QED
      BY <3>1, <3>2 DEF Next, Program, User, Fault, vars, PowerOn, PowerOff,
         NothingToArchive, MoveToHistory, OpenLog, RecordResult, RecordFails, CloseLog,
         ArchiveFails, OpenLogFails, Autorun, UserRunsAll, UserRunsRoute, StartAll,
         UserTogglesMode, UserExits, BatchEnds, BeginTest, SoftFailure, AssertHalts,
         SkipRecord, EndTest, WritePlanResult, PlanResultFails, NoPlanResult,
         ShowVerdict, TypeOK
  <2>4. ASSUME p.completion = "COMPLETE"
        PROVE  \E f \in Store' : f.boot = p.boot /\ ExactlyOnce(f.recs, p.plan)
    <3>1. PICK f \in Store : f.boot = p.boot /\ ExactlyOnce(f.recs, p.plan)
      BY <1>2, <2>4 DEF PlanInv, CompleteIsBacked
    <3>2. CASE UNCHANGED <<current, history>>
      BY <3>1, <3>2 DEF Store
    <3>3. CASE MoveToHistory
      <4>1. PICK e \in current, stamp \in Stamps, n \in 0 .. MaxBoots :
              history' = history \cup {[stamp |-> stamp, suffix |-> n, file |-> e]}
        BY <3>3 DEF MoveToHistory
      <4>2. [stamp |-> stamp, suffix |-> n, file |-> e].file = e
        OBVIOUS
      <4>3. f \in Store'
        BY <4>1, <4>2 DEF Store, FilesInv
      <4> QED
        BY <3>1, <4>3
    <3>4. CASE OpenLog
      BY <3>1, <3>4 DEF OpenLog, Store, FilesInv
    <3>5. CASE Rewrites
      <4>1. p.boot # boot
        BY <1>2, <2>4, <3>5 DEF PlanInv, Rewrites, LogOpen
      <4>2. PICK g \in current : g.boot = boot
        BY <3>5 DEF Rewrites, LogInv, InRun
      <4>3. f \notin current
        BY <3>1, <4>1, <4>2 DEF FilesInv
      <4>4. f \in Store'
        BY <3>5, <4>3 DEF Store, Rewrites
      <4> QED
        BY <3>1, <4>4
    <3> QED
      BY <3>2, <3>3, <3>4, <3>5, FileSteps, RewriteSteps
  <2> QED
    BY <2>2, <2>3, <2>4
<1> QED
  BY <1>1, <1>2

-----------------------------------------------------------------------------
(* Failures and the verdict. *)

LEMMA FailureStep ==
  ASSUME TypeOK, TypeOK', FilesInv, LogInv, FailureInv, [Next]_vars
  PROVE  FailureInv'
<1>1. ASSUME softSeen'
      PROVE  \/ phase' \in {"halted", "exited"}
             \/ phase' \in InRun /\ (softFailed' \/ (phase' = "test" /\ failed'))
  BY <1>1 DEF FailureInv, Next, Program, User, Fault, vars, user, running, account,
     CountSoft, PowerOn, PowerOff,
     NothingToArchive, MoveToHistory, OpenLog, RecordResult, RecordFails, CloseLog,
     ArchiveFails, OpenLogFails, Autorun, UserRunsAll, UserRunsRoute, StartAll,
     UserTogglesMode, UserExits, BatchEnds, BeginTest, SoftFailure, AssertHalts,
     SkipRecord, EndTest, WritePlanResult, PlanResultFails, NoPlanResult,
     ShowVerdict, InRun, LogOpen
<1>2. ASSUME phase' \in InRun, NEW f \in current', NEW i \in DOMAIN f.recs,
             f.recs[i].outcome = "FAIL"
      PROVE  Failing'
  <2>1. CASE OpenLog
    BY <1>2, <2>1 DEF OpenLog
  <2>2. CASE RecordResult
    <3> DEFINE id == Head(pending)
    <3>1. PICK e \in current, oracle \in OracleOutcomes(id) :
            /\ CountOracle(id, oracle)
            /\ current' = {[e EXCEPT !.recs = Append(@, [id |-> id,
                                                    outcome |-> ResultOutcome(oracle)])]}
      BY <2>2 DEF RecordResult
    <3> DEFINE r == [id |-> id, outcome |-> ResultOutcome(oracle)]
    <3>2. /\ e.recs \in Seq(Record) /\ f.recs = Append(e.recs, r)
          /\ r.outcome = ResultOutcome(oracle)
      BY <3>1 DEF TypeOK, File
    <3>3. /\ failed' = failed /\ softFailed' = softFailed /\ phase' = "test"
          /\ phase = "test"
      BY <2>2 DEF RecordResult
    <3> HIDE DEF id, r
    <3>4. CASE i \in DOMAIN e.recs
      <4>1. f.recs[i] = e.recs[i]
        BY <3>2, <3>4
      <4>2. Failing
        BY <1>2, <3>3, <3>4, <4>1 DEF FailureInv, InRun, LogOpen
      <4> QED
        BY <3>1, <3>3, <4>2 DEF Failing, CountOracle
    <3>5. CASE i \notin DOMAIN e.recs
      <4>1. f.recs[i] = r
        BY <1>2, <3>2, <3>5
      <4>2. failed \/ oracle
        BY <1>2, <3>2, <4>1 DEF ResultOutcome
      <4>3. oracle => id \in Leaves \/ failed
        BY DEF OracleOutcomes
      <4> QED
        BY <3>1, <3>3, <4>2, <4>3 DEF Failing, CountOracle
    <3> QED
      BY <3>4, <3>5
  <2>3. CASE CloseLog
    <3>1. PICK e \in current, tail \in {"closed", "open"} : current' = {[e EXCEPT !.tail = tail]}
      BY <2>3 DEF CloseLog
    <3>2. f.recs = e.recs
      BY <3>1 DEF TypeOK, File
    <3>3. Failing
      BY <1>2, <2>3, <3>2 DEF CloseLog, FailureInv, InRun, LogOpen
    <3> QED
      BY <2>3, <3>3 DEF CloseLog, Failing, account
  <2>4. CASE ~OpenLog /\ ~RecordResult /\ ~CloseLog
    <3>1. phase \in InRun /\ current' = current
      BY <1>2, <2>4, RunSteps DEF WritePlanResult, InRun
    <3>2. Failing
      BY <1>2, <3>1 DEF FailureInv
    <3>3. CASE EndTest
      BY <3>2, <3>3, Zenon DEF Failing, EndTest, CountSoft
    <3>4. CASE ~EndTest
      <4>1. /\ oracleFailed' = oracleFailed /\ softFailed' = softFailed
            /\ phase # "test" \/ (phase' = "test" /\ (failed => failed'))
        BY <1>2, <2>4, <3>1, <3>4 DEF Next, Program, User, Fault, vars, running, account,
           PowerOn, PowerOff, NothingToArchive, MoveToHistory, RecordFails,
           ArchiveFails, OpenLogFails, Autorun, UserRunsAll, UserRunsRoute, StartAll,
           UserTogglesMode, UserExits, BatchEnds, BeginTest, SoftFailure, AssertHalts,
           SkipRecord, WritePlanResult, PlanResultFails, NoPlanResult,
           ShowVerdict, InRun, LogOpen
      <4> QED
        BY <3>2, <4>1 DEF Failing
    <3> QED
      BY <3>3, <3>4
  <2> QED
    BY <2>1, <2>2, <2>3, <2>4
<1> QED
  BY <1>1, <1>2 DEF FailureInv

LEMMA VerdictStep ==
  ASSUME TypeOK, TypeOK', VerdictInv, [Next]_vars
  PROVE  VerdictInv'
BY DEF VerdictInv, PlanComplete, Next, Program, User, Fault, vars, user, account, PowerOn,
   PowerOff, NothingToArchive, MoveToHistory, OpenLog, RecordResult, RecordFails,
   CloseLog, ArchiveFails, OpenLogFails, Autorun, UserRunsAll, UserRunsRoute, StartAll,
   UserTogglesMode, UserExits, BatchEnds, BeginTest, SoftFailure, AssertHalts,
   SkipRecord, EndTest, WritePlanResult, PlanResultFails, NoPlanResult, ShowVerdict

LEMMA Inductive == Spec => []IInv
<1>1. Init => IInv
  <2>1. Init => AccountInv /\ PlanInv /\ FailureInv /\ VerdictInv
    BY DEF Init, AccountInv, PlanInv, CompleteIsBacked, FailureInv, VerdictInv, InRun,
       LogOpen
  <2> QED
    BY <2>1, TypeInit, FilesInit DEF IInv
<1>2. IInv /\ [Next]_vars => IInv'
  <2> SUFFICES ASSUME IInv, [Next]_vars PROVE IInv'
    OBVIOUS
  <2>1. TypeOK'
    BY TypeStep DEF IInv
  <2>2. FilesInv' /\ LogInv'
    BY <2>1, FilesStep, LogStep DEF IInv
  <2>3. AccountInv' /\ PlanInv'
    BY <2>1, <2>2, AccountStep, PlanStep DEF IInv
  <2>4. FailureInv' /\ VerdictInv'
    BY <2>1, FailureStep, VerdictStep DEF IInv
  <2> QED
    BY <2>1, <2>2, <2>3, <2>4 DEF IInv
<1> QED
  BY <1>1, <1>2, PTL DEF Spec

(***************************************************************************)
(* For every catalog and plan, however often tests are rerun and the       *)
(* console restarted: a COMPLETE plan result is backed by a results file   *)
(* with exactly one record of each selected leaf.                          *)
(***************************************************************************)
THEOREM CompleteIsAlwaysBacked == Spec => []CompleteIsBacked
<1>1. IInv => CompleteIsBacked
  BY DEF IInv, PlanInv
<1> QED
  BY <1>1, Inductive, PTL

(***************************************************************************)
(* For every catalog and plan: a final PASS stands over a results file     *)
(* without a failing record and with every selected leaf.                  *)
(***************************************************************************)
THEOREM PassIsAlwaysClean == Spec => []PassIsClean
<1>1. IInv => PassIsClean
  <2> SUFFICES ASSUME IInv, verdict = "PASS"
               PROVE  \E f \in Store :
                        /\ f.boot = boot
                        /\ \A i \in DOMAIN f.recs : f.recs[i].outcome = "PASS"
                        /\ config.planned => ExactlyOnce(f.recs, config.selected)
    BY DEF PassIsClean
  <2>1. phase = "final" /\ PlanComplete /\ ~Failing
    BY DEF IInv, VerdictInv, Failing
  <2>2. PICK f \in current : f.boot = boot
    BY <2>1 DEF IInv, LogInv, InRun
  <2>3. ASSUME NEW i \in DOMAIN f.recs PROVE f.recs[i].outcome = "PASS"
    <3>1. f.recs[i].outcome # "FAIL"
      BY <2>1 DEF IInv, FailureInv, InRun
    <3>2. f.recs[i] \in Record
      BY DEF IInv, TypeOK, File
    <3> QED
      BY <3>1, <3>2 DEF Record, Outcome
  <2>4. config.planned => ExactlyOnce(f.recs, config.selected)
    BY <2>1, <2>2 DEF IInv, AccountInv, PlanComplete, ExactlyOnce, InRun
  <2> QED
    BY <2>2, <2>3, <2>4 DEF Store
<1> QED
  BY <1>1, Inductive, PTL

(***************************************************************************)
(* For every catalog: no soft failure of the run is forgotten by a final   *)
(* PASS.                                                                   *)
(***************************************************************************)
THEOREM PassNeverHidesASoftFailure == Spec => []PassMeansNoSoftFailure
<1>1. IInv => PassMeansNoSoftFailure
  BY DEF IInv, VerdictInv, FailureInv, PassMeansNoSoftFailure
<1> QED
  BY <1>1, Inductive, PTL

-----------------------------------------------------------------------------
(* Refinement of EvidenceStore. *)

BootInv == boot <= MaxBoots /\ (phase # "off" => boot >= 1)

LEMMA BootStep ==
  ASSUME TypeOK, BootInv, [Next]_vars
  PROVE  BootInv'
<1>1. CASE PowerOn
  BY <1>1, CatalogAssumption DEF PowerOn, BootInv, TypeOK
<1>2. CASE boot' = boot /\ (phase' # "off" => phase # "off")
  BY <1>2 DEF BootInv
<1>3. PowerOn \/ (boot' = boot /\ (phase' # "off" => phase # "off"))
  BY DEF Next, Program, User, Fault, vars, PowerOff, NothingToArchive, MoveToHistory,
     OpenLog, RecordResult, RecordFails, CloseLog, ArchiveFails, OpenLogFails, Autorun,
     UserRunsAll, UserRunsRoute, StartAll, UserTogglesMode, UserExits, BatchEnds,
     BeginTest, SoftFailure, AssertHalts, SkipRecord, EndTest, WritePlanResult,
     PlanResultFails, NoPlanResult, ShowVerdict
<1> QED
  BY <1>1, <1>2, <1>3

\* Replacing results.txt replaces one file of the store.
LEMMA ReplaceCurrent ==
  ASSUME FilesInv, NEW f \in current, NEW g, current' = {g}, history' = history
  PROVE  f \in Store /\ Store' = (Store \ {f}) \cup {g}
<1>1. current = {f}
  BY DEF FilesInv
<1>2. f \notin {h.file : h \in history}
  BY DEF FilesInv, OneFilePerRun
<1> QED
  BY <1>1, <1>2 DEF Store

LEMMA EvidenceStep ==
  ASSUME TypeOK, TypeOK', FilesInv, LogInv, BootInv, [Next]_vars
  PROVE  Evidence!Next \/ Store' = Store
<1>1. CASE UNCHANGED <<current, history>>
  BY <1>1 DEF Store
<1>2. CASE MoveToHistory
  <2>1. PICK f \in current : \E moved :
          moved.file = f /\ history' = history \cup {moved}
    <3>1. PICK f \in current, stamp \in Stamps, n \in 0 .. MaxBoots :
            history' = history \cup {[stamp |-> stamp, suffix |-> n, file |-> f]}
      BY <1>2 DEF MoveToHistory
    <3>2. [stamp |-> stamp, suffix |-> n, file |-> f].file = f
      OBVIOUS
    <3> QED
      BY <3>1, <3>2
  <2>2. current' = {} /\ current = {f}
    BY <1>2, <2>1 DEF MoveToHistory, FilesInv
  <2> QED
    BY <2>1, <2>2 DEF Store
<1>3. CASE OpenLog
  <2>1. boot \in 1 .. MaxBoots
    BY <1>3, CatalogAssumption DEF BootInv, OpenLog, TypeOK
  <2>2. \A f \in Store : f.boot # boot
    BY <1>3 DEF OpenLog, FilesInv, Store, TypeOK, File, Archived
  <2>3. Store' = Store \cup {[boot |-> boot, recs |-> <<>>, tail |-> "open"]}
    BY <1>3 DEF OpenLog, FilesInv, Store
  <2> QED
    BY <2>1, <2>2, <2>3 DEF Evidence!Next, Evidence!Open
<1>4. CASE RecordResult
  <2> DEFINE id == Head(pending)
  <2>1. PICK f \in current, oracle \in OracleOutcomes(id) :
          current' = {[f EXCEPT !.recs = Append(@, [id |-> id,
                                                    outcome |-> ResultOutcome(oracle)])]}
    BY <1>4 DEF RecordResult
  <2> DEFINE r == [id |-> id, outcome |-> ResultOutcome(oracle)]
  <2>2. r \in Evidence!Record
    BY <1>4 DEF RecordResult, TypeOK, Evidence!Record, ResultOutcome, Evidence!Outcome
  <2>3. history' = history /\ f.tail = "open"
    BY <1>4 DEF RecordResult, LogInv, LogOpen
  <2> HIDE DEF id, r
  <2>4. Evidence!AppendRecord(f, r) /\ f \in Store
    BY <2>1, <2>3, ReplaceCurrent DEF Evidence!AppendRecord, Evidence!Replace, r
  <2> QED
    BY <2>2, <2>4 DEF Evidence!Next
<1>5. CASE RecordFails
  <2>1. PICK f \in current : current' = {[f EXCEPT !.tail = "torn"]}
    BY <1>5 DEF RecordFails
  <2>2. history' = history /\ f.tail = "open"
    BY <1>5 DEF RecordFails, LogInv, LogOpen
  <2>3. Evidence!Tear(f) /\ f \in Store
    BY <2>1, <2>2, ReplaceCurrent DEF Evidence!Tear, Evidence!Replace
  <2> QED
    BY <2>3 DEF Evidence!Next
<1>6. CASE CloseLog
  <2>1. PICK f \in current, tail \in {"closed", "open"} : current' = {[f EXCEPT !.tail = tail]}
    BY <1>6 DEF CloseLog
  <2>2. history' = history /\ f.tail = "open"
    BY <1>6 DEF CloseLog, LogInv, LogOpen
  <2>3. CASE tail = "closed"
    <3>1. Evidence!Close(f) /\ f \in Store
      BY <2>1, <2>2, <2>3, ReplaceCurrent DEF Evidence!Close, Evidence!Replace
    <3> QED
      BY <3>1 DEF Evidence!Next
  <2>4. CASE tail = "open"
    <3>1. [f EXCEPT !.tail = tail] = f
      BY <2>2, <2>4 DEF TypeOK, File
    <3> QED
      BY <2>1, <2>2, <3>1, ReplaceCurrent
  <2> QED
    BY <2>3, <2>4
<1> QED
  BY <1>1, <1>2, <1>3, <1>4, <1>5, <1>6, FileSteps

(***************************************************************************)
(* For every catalog, clock, number of boots and sequence of failures: the *)
(* result directory is an EvidenceStore.                                   *)
(***************************************************************************)
THEOREM RunImplementsEvidenceStore == Spec => ImplementsEvidenceStore
<1>1. Init => BootInv /\ Evidence!Init
  BY CatalogAssumption DEF Init, BootInv, Evidence!Init, Store
<1>2. TypeOK /\ BootInv /\ [Next]_vars => BootInv'
  BY BootStep
<1>3. IInv => TypeOK /\ FilesInv /\ LogInv
  BY DEF IInv
<1>4. TypeOK /\ TypeOK' /\ FilesInv /\ LogInv /\ BootInv /\ [Next]_vars
        => [Evidence!Next]_Store
  BY EvidenceStep
<1> QED
  BY <1>1, <1>2, <1>3, <1>4, Inductive, PTL DEF Spec, ImplementsEvidenceStore, Evidence!Spec
=============================================================================
