--------------------------- MODULE RunLifecycle ---------------------------
(***************************************************************************)
(* The life of a test run on the console, from power-on to the final       *)
(* screen, and of the files it leaves on the hard disk across boots:       *)
(*                                                                         *)
(*   main.cpp          RunTests: archive, open the log, drive, close,      *)
(*                     validate the resolved plan, report the verdict      *)
(*   test_driver.cpp   RunAllTestsNonInteractive, RunCatalogRoute, OnY     *)
(*   test_suite.cpp    TestSuite::Run, RunAll                              *)
(*   test_host.cpp     FinishDraw, RecordProfileResult, FinishGroup,       *)
(*                     RecordDescriptor, RecordSoftTestOutcome,            *)
(*                     ValidateResolvedPlan                                *)
(*   debug_output.cpp  g_failure_reported                                  *)
(*   result_store.cpp  ArchiveCurrentResults                               *)
(*                                                                         *)
(* The power can fail between any two steps, a file operation can fail,    *)
(* and a user with a controller can rerun tests, toggle the run mode or    *)
(* leave.  Everything in memory is lost with the power; the files are not. *)
(***************************************************************************)
EXTENDS Naturals, Sequences

CONSTANTS
    Leaves,      \* catalog leaves
    Groups,      \* catalog groups (never timed)
    Routes,      \* execution tests: what TestSuite::Run can be asked for
    Emits,       \* Emits[r]: the ids the body of route r records, in order
    RunOrder,    \* the routes in the order of test_suites_ and TestNames()
    Plans,       \* selections a host may configure; {} is no resolved plan
    Stamps,      \* clock readings ArchiveCurrentResults may see
    MaxBoots,    \* bound: power-ons
    MaxTests     \* bound: tests run after one power-on

Ids == Leaves \cup Groups

ASSUME CatalogAssumption ==
    /\ Leaves \cap Groups = {}
    /\ Emits \in [Routes -> Seq(Ids)]
    /\ RunOrder \in Seq(Routes)
    /\ Plans \in SUBSET SUBSET Leaves
    /\ MaxBoots \in Nat
    /\ MaxTests \in Nat

Outcome == {"PASS", "FAIL"}
Record == [id : Ids, outcome : Outcome]
\* results.txt; tail says whether the text ends after a whole record, inside
\* one, or with the final bracket.
File == [boot : Nat, recs : Seq(Record), tail : {"open", "torn", "closed"}]
Archived == [stamp : Stamps, suffix : Nat, file : File]

\* resolved-plan-result.json, whose plan_id stands for the selection; "garbled"
\* is a file cut short while written.
PlanResult == [boot : Nat, plan : SUBSET Leaves,
               completion : {"COMPLETE", "INCOMPLETE", "garbled"}]

Config == [planned : BOOLEAN, selected : SUBSET Leaves,
           attended : BOOLEAN, autorun : BOOLEAN, exitAfterRun : BOOLEAN]

VARIABLES
    (* On the hard disk. *)
    current,       \* {} or {results.txt}
    history,       \* the history directory
    planResult,    \* {} or {resolved-plan-result.json}
    (* In memory. *)
    phase,         \* where main() is
    boot,          \* number of this power-on
    config,        \* the runtime configuration of this boot
    save,          \* TestHost::save_results_
    timerCancelled,\* MenuItemRoot::timer_cancelled
    todo,          \* positions in RunOrder of the routes still to run
    batch,         \* TRUE while RunAllTestsNonInteractive owns todo
    pending,       \* ids the running body has yet to record
    failed,        \* g_failure_reported
    emitted,       \* TestHost::emitted_test_ids_
    unexpected,    \* TestHost::unexpected_or_duplicate_result_
    oracleFailed,  \* TestHost::oracle_failure_count_ > 0
    softFailed,    \* TestHost::soft_failure_count_ > 0
    verdict,       \* what the final screen says
    (* Observation only. *)
    tests,         \* tests started since power-on
    leafMarked,    \* has the running test recorded a failing leaf?
    softSeen       \* has any soft failure been raised since power-on?

disk == <<current, history, planResult>>
account == <<emitted, unexpected, oracleFailed, softFailed>>
running == <<todo, batch, pending, failed, tests, leafMarked, softSeen>>
user == <<save, timerCancelled>>
vars == <<disk, phase, boot, config, user, running, account, verdict>>

Phases == {"off", "archive", "open", "menu", "batch", "test", "closing",
           "plan", "verdict", "final", "halted", "exited"}

-----------------------------------------------------------------------------
(* Derived views. *)

\* Every results file that exists, under whichever name.
Store == current \cup {h.file : h \in history}

LeafPositions(recs) == {i \in DOMAIN recs : recs[i].id \in Leaves}
LeafIds(recs) == {recs[i].id : i \in LeafPositions(recs)}

NoRepeat(recs) == \A i, j \in LeafPositions(recs) : recs[i].id = recs[j].id => i = j

\* Each selected leaf has exactly one record and no other leaf has any.
ExactlyOnce(recs, selected) == LeafIds(recs) = selected /\ NoRepeat(recs)

\* A resolved plan masks the stages of composite routes to the selected ones
\* and disables the routes left with none.
Keeps(id) == id \in Groups \/ ~config.planned \/ id \in config.selected
Enabled(r) == \E i \in DOMAIN Emits[r] : Emits[r][i] \in Leaves /\ Keeps(Emits[r][i])

-----------------------------------------------------------------------------
NoConfig == [planned |-> FALSE, selected |-> {}, attended |-> FALSE,
             autorun |-> FALSE, exitAfterRun |-> FALSE]

Init ==
    /\ current = {} /\ history = {} /\ planResult = {}
    /\ phase = "off" /\ boot = 0
    /\ config = NoConfig
    /\ save = TRUE /\ timerCancelled = FALSE
    /\ todo = {} /\ batch = FALSE /\ pending = <<>> /\ failed = FALSE
    /\ emitted = {} /\ unexpected = FALSE
    /\ oracleFailed = FALSE /\ softFailed = FALSE
    /\ verdict = "none" /\ tests = 0 /\ leafMarked = FALSE /\ softSeen = FALSE

\* main(): all memory is fresh; the host may have changed the configuration
\* file, a controller may be plugged in or not.
PowerOn ==
    /\ phase = "off" /\ boot < MaxBoots
    /\ \E plan \in Plans, attended, autorun, exitAfterRun \in BOOLEAN :
        config' = [planned |-> plan # {}, selected |-> plan, attended |-> attended,
                   autorun |-> autorun, exitAfterRun |-> exitAfterRun]
    /\ boot' = boot + 1
    /\ phase' = "archive"
    /\ UNCHANGED <<disk, user, running, account, verdict>>

\* Everything but the disk is lost (and the observation starts afresh).  What
\* a cut during a write leaves is what the failed write leaves: RecordFails,
\* PlanResultFails, and then PowerOff.
PowerOff ==
    /\ phase # "off"
    /\ phase' = "off"
    /\ config' = NoConfig
    /\ save' = TRUE /\ timerCancelled' = FALSE
    /\ todo' = {} /\ batch' = FALSE /\ pending' = <<>> /\ failed' = FALSE
    /\ emitted' = {} /\ unexpected' = FALSE
    /\ oracleFailed' = FALSE /\ softFailed' = FALSE
    /\ verdict' = "none" /\ tests' = 0
    /\ leafMarked' = FALSE /\ softSeen' = FALSE
    /\ UNCHANGED <<disk, boot>>

-----------------------------------------------------------------------------
(* RunTests before the driver starts. *)

Taken(stamp, suffix) == \E h \in history : h.stamp = stamp /\ h.suffix = suffix

\* (Bug: the name of the clock second is taken without looking.)
FirstSuffix(stamp, n) == n = 0

\* The first free name of the clock second: the plain one, then -1, -2, ...
FreeSuffix(stamp, n) ==
    /\ ~Taken(stamp, n)
    /\ \A k \in 0 .. n - 1 : Taken(stamp, k)

NothingToArchive ==
    /\ phase = "archive" /\ current = {}
    /\ phase' = "open"
    /\ UNCHANGED <<disk, boot, config, user, running, account, verdict>>

MoveToHistory ==
    /\ phase = "archive"
    /\ \E f \in current, stamp \in Stamps, n \in 0 .. MaxBoots :
        /\ FreeSuffix(stamp, n)
        /\ history' = history \cup {[stamp |-> stamp, suffix |-> n, file |-> f]}
    /\ current' = {}
    /\ phase' = "open"
    /\ UNCHANGED <<planResult, boot, config, user, running, account, verdict>>

\* (Bug: the run starts over a result that could not be preserved.)
ArchiveFailsSilently ==
    /\ phase = "archive" /\ current # {}
    /\ phase' = "open"
    /\ UNCHANGED <<disk, boot, config, user, running, account, verdict>>

\* The directory cannot be created or the move fails: no run is started.
ArchiveFails ==
    /\ phase = "archive" /\ current # {}
    /\ phase' = "exited"
    /\ UNCHANGED <<disk, boot, config, user, running, account, verdict>>

\* Logger::Initialize truncates results.txt; the counters are reset and the
\* plan, if any, becomes the one to account for.
OpenLog ==
    /\ phase = "open"
    /\ current' = {[boot |-> boot, recs |-> <<>>, tail |-> "open"]}
    /\ emitted' = {} /\ unexpected' = FALSE
    /\ oracleFailed' = FALSE /\ softFailed' = FALSE
    /\ phase' = "menu"
    /\ UNCHANGED <<history, planResult, boot, config, user, running, verdict>>

OpenLogFails ==
    /\ phase = "open"
    /\ phase' = "halted"
    /\ UNCHANGED <<disk, boot, config, user, running, account, verdict>>

-----------------------------------------------------------------------------
(* The driver loop, as far as the results can see it. *)

StartAll ==
    /\ todo' = {i \in DOMAIN RunOrder : Enabled(RunOrder[i])}
    /\ batch' = TRUE
    /\ phase' = "batch"

\* MenuItemRoot::Draw: the one-shot countdown (or the immediate start) fires.
Autorun ==
    /\ phase = "menu" /\ config.autorun /\ ~timerCancelled
    /\ timerCancelled' = TRUE
    /\ StartAll
    /\ UNCHANGED <<disk, boot, config, save, pending, failed, tests, leafMarked,
                   softSeen, account, verdict>>

UserRunsAll ==
    /\ phase = "menu" /\ config.attended /\ tests < MaxTests
    /\ timerCancelled' = TRUE
    /\ StartAll
    /\ UNCHANGED <<disk, boot, config, save, pending, failed, tests, leafMarked,
                   softSeen, account, verdict>>

\* One test of the menu, or a catalog route.
UserRunsRoute ==
    /\ phase = "menu" /\ config.attended /\ tests < MaxTests
    /\ \E i \in DOMAIN RunOrder : Enabled(RunOrder[i]) /\ todo' = {i}
    /\ timerCancelled' = TRUE
    /\ batch' = FALSE
    /\ phase' = "batch"
    /\ UNCHANGED <<disk, boot, config, save, pending, failed, tests, leafMarked,
                   softSeen, account, verdict>>

\* OnY: the run mode decides whether results are saved.  The countdown goes on.
UserTogglesMode ==
    /\ phase = "menu" /\ config.attended
    /\ save' = ~save
    /\ UNCHANGED <<disk, phase, boot, config, timerCancelled, running, account, verdict>>

UserExits ==
    /\ phase = "menu" /\ config.attended
    /\ phase' = "closing"
    /\ UNCHANGED <<disk, boot, config, user, running, account, verdict>>

\* (Bug: an unattended run returns to the menu.)
BatchAlwaysReturns ==
    /\ phase = "batch" /\ todo = {}
    /\ phase' = "menu"
    /\ batch' = FALSE
    /\ UNCHANGED <<disk, boot, config, user, todo, pending, failed, tests,
                   leafMarked, softSeen, account, verdict>>

\* The end of RunAllTestsNonInteractive or RunCatalogRoute.
BatchEnds ==
    /\ phase = "batch" /\ todo = {}
    /\ phase' = IF batch /\ config.exitAfterRun THEN "closing" ELSE "menu"
    /\ batch' = FALSE
    /\ UNCHANGED <<disk, boot, config, user, todo, pending, failed, tests,
                   leafMarked, softSeen, account, verdict>>

-----------------------------------------------------------------------------
(* TestSuite::Run. *)

BeginTest ==
    /\ phase = "batch"
    /\ \E i \in todo :
        /\ \A j \in todo : i <= j
        /\ pending' = Emits[RunOrder[i]]
        /\ todo' = todo \ {i}
    /\ phase' = "test"
    /\ failed' = FALSE
    /\ tests' = tests + 1
    /\ leafMarked' = FALSE
    /\ UNCHANGED <<disk, boot, config, user, batch, softSeen, account, verdict>>

\* AssertXemuPerfEqual fails somewhere in the body: the guest goes on.
SoftFailure ==
    /\ phase = "test" /\ ~failed
    /\ failed' = TRUE /\ softSeen' = TRUE
    /\ UNCHANGED <<disk, phase, boot, config, user, todo, batch, pending, tests,
                   leafMarked, account, verdict>>

\* A hard ASSERT, anywhere in a test: halted until the power is cut.
AssertHalts ==
    /\ phase = "test"
    /\ phase' = "halted"
    /\ UNCHANGED <<disk, boot, config, user, running, account, verdict>>

\* A group whose metadata reports an oracle failure has also raised a soft
\* failure (surface_rendering_tests.cpp is the only one to report any).
OracleOutcomes(id) == IF id \in Leaves \/ failed THEN BOOLEAN ELSE {FALSE}

\* (Bugs: a counter holds only the last result, or only the saved ones.)
CountLastOracle(id, oracle) == oracleFailed' = (oracle /\ id \in Leaves)
CountSavedSoft == softFailed' = (softFailed \/ (failed /\ save))

\* RecordDescriptor: what a leaf record does to the account of the plan.
Account(id) ==
    IF id \in Leaves /\ config.planned
    THEN /\ emitted' = emitted \cup {id}
         /\ unexpected' = (unexpected \/ id \notin config.selected \/ id \in emitted)
    ELSE UNCHANGED <<emitted, unexpected>>

\* ++oracle_failure_count_, which FinishGroup does not do.
CountOracle(id, oracle) == oracleFailed' = (oracleFailed \/ (oracle /\ id \in Leaves))

\* RecordSoftTestOutcome.
CountSoft == softFailed' = (softFailed \/ failed)

ResultOutcome(oracle) == IF failed \/ oracle THEN "FAIL" ELSE "PASS"

RecordResult ==
    /\ phase = "test" /\ save /\ pending # <<>>
    /\ LET id == Head(pending) IN
        /\ Keeps(id)
        /\ Account(id)
        /\ \E oracle \in OracleOutcomes(id), f \in current :
            /\ CountOracle(id, oracle)
            /\ leafMarked' = (leafMarked \/ (id \in Leaves /\ ResultOutcome(oracle) = "FAIL"))
            /\ current' = {[f EXCEPT !.recs = Append(@, [id |-> id,
                                             outcome |-> ResultOutcome(oracle)])]}
    /\ pending' = Tail(pending)
    /\ UNCHANGED <<history, planResult, phase, boot, config, user, todo, batch,
                   failed, tests, softSeen, softFailed, verdict>>

\* The log goes bad inside a record: ASSERT(log) halts with a torn file.
RecordFails ==
    /\ phase = "test" /\ save /\ pending # <<>>
    /\ LET id == Head(pending) IN
        /\ Keeps(id)
        /\ Account(id)
        /\ \E oracle \in OracleOutcomes(id) : CountOracle(id, oracle)
    /\ \E f \in current : current' = {[f EXCEPT !.tail = "torn"]}
    /\ phase' = "halted"
    /\ UNCHANGED <<history, planResult, boot, config, user, running,
                   softFailed, verdict>>

\* A stage outside the mask is passed over, and in continuous mode FinishDraw
\* and RecordProfileResult leave no record.
SkipRecord ==
    /\ phase = "test" /\ pending # <<>>
    /\ save => ~Keeps(Head(pending))
    /\ pending' = Tail(pending)
    /\ UNCHANGED <<disk, phase, boot, config, user, todo, batch, failed, tests,
                   leafMarked, softSeen, account, verdict>>

\* TearDownTest, the failure screen and RecordSoftTestOutcome.
EndTest ==
    /\ phase = "test" /\ pending = <<>>
    /\ CountSoft
    /\ phase' = "batch"
    /\ UNCHANGED <<disk, boot, config, user, running, emitted, unexpected,
                   oracleFailed, verdict>>

-----------------------------------------------------------------------------
(* RunTests after the driver has returned. *)

\* The closing bracket and close(): nothing looks at the stream afterwards.
CloseLog ==
    /\ phase = "closing"
    /\ \E f \in current, tail \in {"closed", "open"} :
        current' = {[f EXCEPT !.tail = tail]}
    /\ phase' = "plan"
    /\ UNCHANGED <<history, planResult, boot, config, user, running, account, verdict>>

\* TestHost::ValidateResolvedPlan.
PlanComplete == config.planned => ~unexpected /\ emitted = config.selected

WritePlanResult ==
    /\ phase = "plan" /\ config.planned
    /\ planResult' = {[boot |-> boot, plan |-> config.selected,
                       completion |-> IF PlanComplete THEN "COMPLETE" ELSE "INCOMPLETE"]}
    /\ phase' = "verdict"
    /\ UNCHANGED <<current, history, boot, config, user, running, account, verdict>>

\* The file cannot be opened (it stays as it was) or is cut short.
PlanResultFails ==
    /\ phase = "plan" /\ config.planned
    /\ planResult' \in {planResult, {[boot |-> boot, plan |-> config.selected,
                                   completion |-> "garbled"]}}
    /\ phase' = "exited"
    /\ UNCHANGED <<current, history, boot, config, user, running, account, verdict>>

NoPlanResult ==
    /\ phase = "plan" /\ ~config.planned
    /\ phase' = "verdict"
    /\ UNCHANGED <<disk, boot, config, user, running, account, verdict>>

ShowVerdict ==
    /\ phase = "verdict"
    /\ verdict' = IF PlanComplete /\ ~oracleFailed /\ ~softFailed THEN "PASS" ELSE "FAIL"
    /\ phase' = "final"
    /\ UNCHANGED <<disk, boot, config, user, running, account>>

-----------------------------------------------------------------------------
\* What the program does by itself when nothing goes wrong.
Program ==
    \/ NothingToArchive \/ MoveToHistory \/ OpenLog
    \/ Autorun \/ BatchEnds \/ BeginTest \/ RecordResult \/ SkipRecord \/ EndTest
    \/ CloseLog \/ WritePlanResult \/ NoPlanResult \/ ShowVerdict

User == UserRunsAll \/ UserRunsRoute \/ UserTogglesMode \/ UserExits

Fault ==
    \/ ArchiveFails \/ OpenLogFails \/ SoftFailure \/ AssertHalts
    \/ RecordFails \/ PlanResultFails

Next == PowerOn \/ PowerOff \/ Program \/ User \/ Fault

Spec == Init /\ [][Next]_vars

\* The console keeps executing; nobody has to press a button or cut the power.
FairSpec == Spec /\ WF_vars(Program)

-----------------------------------------------------------------------------
TypeOK ==
    /\ current \in SUBSET File
    /\ history \in SUBSET Archived
    /\ planResult \in SUBSET PlanResult
    /\ phase \in Phases
    /\ boot \in Nat
    /\ config \in Config
    /\ save \in BOOLEAN /\ timerCancelled \in BOOLEAN
    /\ todo \in SUBSET (DOMAIN RunOrder) /\ batch \in BOOLEAN
    /\ pending \in Seq(Ids) /\ failed \in BOOLEAN
    /\ emitted \in SUBSET Leaves /\ unexpected \in BOOLEAN
    /\ oracleFailed \in BOOLEAN /\ softFailed \in BOOLEAN
    /\ verdict \in {"none", "PASS", "FAIL"}
    /\ tests \in Nat /\ leafMarked \in BOOLEAN /\ softSeen \in BOOLEAN

(***************************************************************************)
(* No boot's evidence is ever lost: whatever a step does - archiving,      *)
(* truncating results.txt, a failed move, a second run within the same     *)
(* clock second - every results file is still there afterwards, under some *)
(* name, with all its records (result_store.cpp, main.cpp RunTests).       *)
(***************************************************************************)
Extends(f, g) ==
    /\ g.boot = f.boot
    /\ Len(f.recs) <= Len(g.recs)
    /\ \A i \in 1 .. Len(f.recs) : g.recs[i] = f.recs[i]

EvidenceKept == [][\A f \in Store : \E g \in Store' : Extends(f, g)]_vars

(***************************************************************************)
(* The result directory of the console is an EvidenceStore: archiving is   *)
(* invisible in it, and every other step opens, extends, tears or closes   *)
(* one file.                                                               *)
(***************************************************************************)
Evidence == INSTANCE EvidenceStore WITH store <- Store, Boots <- 1 .. MaxBoots
ImplementsEvidenceStore == Evidence!Spec

(***************************************************************************)
(* Two archived runs never share a file name and no run is stored twice,   *)
(* even when the clock repeats a second (the -N suffix search).            *)
(***************************************************************************)
OneFilePerRun ==
    /\ \A g, h \in history : g.stamp = h.stamp /\ g.suffix = h.suffix => g = h
    /\ \A g, h \in history : g.file.boot = h.file.boot => g = h
    /\ \A f \in current, h \in history : f.boot # h.file.boot

(***************************************************************************)
(* A plan reported COMPLETE is backed by evidence: the run's own results   *)
(* file still exists and has exactly one record of every selected leaf and *)
(* none of any other, whatever the user reran, toggled or skipped and     *)
(* however often the console has been restarted since (RecordDescriptor,   *)
(* ValidateResolvedPlan, ArchiveCurrentResults).                           *)
(***************************************************************************)
CompleteIsBacked ==
    \A p \in planResult :
        p.completion = "COMPLETE" =>
            \E f \in Store : f.boot = p.boot /\ ExactlyOnce(f.recs, p.plan)

(***************************************************************************)
(* The final screen never says PASS over a failing record: no leaf or      *)
(* group of this run's file is FAIL and, with a resolved plan, every       *)
(* selected leaf is there (main.cpp run_pass against the log).             *)
(***************************************************************************)
PassIsClean ==
    verdict = "PASS" =>
        \E f \in Store :
            /\ f.boot = boot
            /\ \A i \in DOMAIN f.recs : f.recs[i].outcome = "PASS"
            /\ config.planned => ExactlyOnce(f.recs, config.selected)

(***************************************************************************)
(* A soft failure is never forgotten: once any test of this run has failed *)
(* softly, with results saved or not, and whatever ran after it cleared    *)
(* g_failure_reported, the final screen cannot say PASS                    *)
(* (TestSuite::Run, RecordSoftTestOutcome).                                *)
(***************************************************************************)
PassMeansNoSoftFailure == verdict = "PASS" => ~softSeen

(***************************************************************************)
(* With nobody at the controls, an automatic run that is to end by itself  *)
(* does: the final screen, a refusal, a halt on an assertion or the loss   *)
(* of power (README.md, enable_shutdown_on_completion).                    *)
(***************************************************************************)
Unattended == ~config.attended /\ config.autorun /\ config.exitAfterRun
UnattendedRunEnds ==
    (phase = "archive" /\ Unattended) ~> phase \in {"final", "exited", "halted", "off"}

(***************************************************************************)
(* README.md:109: "A soft failure may continue to later tests, but its     *)
(* leaf and final run remain FAIL."  When a test that failed softly ends   *)
(* and results are saved, one of the leaf records it wrote says FAIL.      *)
(***************************************************************************)
SoftFailureFailsItsLeaf ==
    [][phase = "test" /\ phase' = "batch" /\ failed /\ save => leafMarked]_vars

-----------------------------------------------------------------------------
(***************************************************************************)
(* The inductive invariant of RunLifecycleProofs: why the safety           *)
(* properties above hold.                                                  *)
(***************************************************************************)
LogOpen == {"menu", "batch", "test", "closing"}
InRun == LogOpen \cup {"plan", "verdict", "final"}

\* One file per boot; the boot that has not opened its log yet has none.
FilesInv ==
    /\ OneFilePerRun
    /\ \A f, g \in current : f = g
    /\ \A f \in Store : f.boot <= boot
    /\ phase \in {"archive", "open"} => \A f \in Store : f.boot < boot
    /\ phase = "open" => current = {}

\* The log of this boot is results.txt until the power goes.
LogInv ==
    /\ phase \in InRun => \E f \in current : f.boot = boot
    /\ phase \in LogOpen => \A f \in current : f.tail = "open"

\* The plan's account agrees with the log.
AccountInv ==
    phase \in InRun /\ config.planned =>
        \A f \in current :
            /\ emitted = LeafIds(f.recs)
            /\ ~unexpected => NoRepeat(f.recs)

\* The plan result is echoed after everything else.
PlanInv ==
    /\ CompleteIsBacked
    /\ \A p \in planResult :
        /\ p.boot <= boot
        /\ p.boot = boot /\ p.completion = "COMPLETE" => phase \in {"verdict", "final", "off"}

\* A failure is counted, or still flagged by the running test.
Failing == oracleFailed \/ softFailed \/ (phase = "test" /\ failed)
FailureInv ==
    /\ phase \in InRun =>
        \A f \in current : \A i \in DOMAIN f.recs : f.recs[i].outcome = "FAIL" => Failing
    /\ softSeen =>
        \/ phase \in {"halted", "exited"}
        \/ phase \in InRun /\ (softFailed \/ (phase = "test" /\ failed))

VerdictInv ==
    verdict = "PASS" =>
        phase = "final" /\ PlanComplete /\ ~oracleFailed /\ ~softFailed

IInv == TypeOK /\ FilesInv /\ LogInv /\ AccountInv /\ PlanInv /\ FailureInv /\ VerdictInv
=============================================================================
