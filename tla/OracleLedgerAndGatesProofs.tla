-------------------- MODULE OracleLedgerAndGatesProofs --------------------
(***************************************************************************)
(* Proofs about OracleLedger, for any number of runners, any reports, and  *)
(* any number of killed runners.  The ledger part rests on two facts about *)
(* merging an observation, and on the lock: what a runner has staged is    *)
(* the present ledger and its own observation, because nobody else         *)
(* replaces the file meanwhile.  Then proofs about the gates one runner    *)
(* goes through (RunGates), for any command lines and any guest image.     *)
(***************************************************************************)
EXTENDS OracleLedger, RunGates, FiniteSetTheorems, TLAPS

\* After merging an observation that agrees, the ledger knows it.
LEMMA MergeLearns ==
    ASSUME NEW l, NEW o
    PROVE  Known(Abstract!Merge(l, o), o)
BY DEF Known, Abstract!Merge

\* ... and still knows what it knew before.
LEMMA MergeKeeps ==
    ASSUME NEW l, NEW o, NEW q, Abstract!Agrees(l, o), Known(l, q)
    PROVE  Known(Abstract!Merge(l, o), q)
BY DEF Known, Abstract!Merge, Abstract!Agrees

LEMMA InitHolds == Init => IInv
<1> SUFFICES ASSUME Init PROVE IInv
  OBVIOUS
<1> USE LedgerAssumption DEF LedgerAssumption, Init, Working, Ended
<1>1. TypeOK
  BY DEF TypeOK
<1>2. LedgerInv
  BY DEF LedgerInv, Critical
<1>3. XemuInv
  BY DEF XemuInv
<1> QED
  BY <1>1, <1>2, <1>3 DEF IInv

LEMMA TypeStep == IInv /\ [Next]_vars => TypeOK'
<1> SUFFICES ASSUME TypeOK, [Next]_vars PROVE TypeOK'
  BY DEF IInv
<1> USE LedgerAssumption DEF LedgerAssumption, TypeOK, Working, Ended, Go,
        SameLedger, SameXemu
<1>1. ASSUME NEW r \in Runners, TakeXemuLock(r) \/ ListProcesses(r)
                                \/ LaunchXemu(r) \/ LeaveXemu(r)
      PROVE TypeOK'
  BY <1>1 DEF TakeXemuLock, ListProcesses, LaunchXemu, LeaveXemu
<1>2. ASSUME NEW r \in Runners, Report(r) PROVE TypeOK'
  BY <1>2 DEF Report
<1>3. ASSUME NEW r \in Runners, LockLedger(r) \/ ReadAndStage(r)
                                \/ WriteTemporary(r)
      PROVE TypeOK'
  BY <1>3 DEF LockLedger, ReadAndStage, WriteTemporary
<1>4. ASSUME NEW r \in Runners, ReplaceLedger(r) \/ UnlockLedger(r)
                                \/ XemuExits(r) \/ Killed(r)
      PROVE TypeOK'
  BY <1>4 DEF ReplaceLedger, UnlockLedger, XemuExits, Killed
<1>5. CASE UNCHANGED vars
  BY <1>5 DEF vars
<1> QED
  BY <1>1, <1>2, <1>3, <1>4, <1>5 DEF Next, Step

-----------------------------------------------------------------------------
(* The ledger                                                              *)

LEMMA LedgerStep == IInv /\ [Next]_vars => LedgerInv'
<1> SUFFICES ASSUME IInv, [Next]_vars PROVE LedgerInv'
  OBVIOUS
<1> USE LedgerAssumption DEF LedgerAssumption, IInv, TypeOK, Critical
<1>1. ASSUME NEW r \in Runners,
             TakeXemuLock(r) \/ ListProcesses(r) \/ LaunchXemu(r)
             \/ LeaveXemu(r) \/ XemuExits(r)
      PROVE LedgerInv'
  BY <1>1 DEF TakeXemuLock, ListProcesses, LaunchXemu, LeaveXemu, XemuExits,
     SameLedger, Go, LedgerInv
<1>2. ASSUME NEW r \in Runners, Report(r) PROVE LedgerInv'
  BY <1>2 DEF Report, SameLedger, Go, LedgerInv
<1>3. ASSUME NEW r \in Runners, LockLedger(r) PROVE LedgerInv'
  BY <1>3 DEF LockLedger, SameXemu, Go, LedgerInv
<1>4. ASSUME NEW r \in Runners, ReadAndStage(r) PROVE LedgerInv'
  <2> DEFINE o == Observation(report[r])
  <2>1. /\ pc[r] = "read" /\ ledgerLock = r /\ report[r] \in Reports
        /\ UNCHANGED <<report, ledger, accepted>> /\ r \notin accepted
    BY <1>4 DEF ReadAndStage, Go, LedgerInv
  <2>2. \A s \in Runners \ {r} : pc[s] \notin Critical
    BY <2>1 DEF LedgerInv
  <2> HIDE DEF o
  <2>3. CASE /\ Abstract!Agrees(ledger, o)
             /\ pc' = [pc EXCEPT ![r] = "write"] /\ UNCHANGED ledgerLock
             /\ staged' = [staged EXCEPT ![r] = Abstract!Merge(ledger, o)]
    <3>1. /\ pc'[r] = "write" /\ \A s \in Runners \ {r} : pc'[s] = pc[s]
      BY <2>3
    <3>2. staged'[r] = Abstract!Merge(ledger, o)
      BY <2>3
    <3>3. ASSUME NEW s \in Runners PROVE LedgerInv!(s)'
      BY <2>1, <2>2, <2>3, <3>1, <3>2 DEF LedgerInv, o
    <3> QED
      BY <3>3 DEF LedgerInv
  <2>4. CASE /\ pc' = [pc EXCEPT ![r] = "mismatch"]
             /\ ledgerLock' = Nobody /\ UNCHANGED staged
    <3>1. ASSUME NEW s \in Runners PROVE LedgerInv!(s)'
      BY <2>1, <2>2, <2>4 DEF LedgerInv
    <3> QED
      BY <3>1 DEF LedgerInv
  <2> QED
    BY <1>4, <2>3, <2>4 DEF ReadAndStage, Go, o
<1>5. ASSUME NEW r \in Runners, WriteTemporary(r) PROVE LedgerInv'
  BY <1>5 DEF WriteTemporary, SameXemu, Go, LedgerInv
<1>6. ASSUME NEW r \in Runners, ReplaceLedger(r) PROVE LedgerInv'
  <2> DEFINE o == Observation(report[r])
  <2>1. /\ pc[r] = "replace" /\ pc' = [pc EXCEPT ![r] = "unlock"]
        /\ ledger' = Abstract!Merge(ledger, o) /\ Abstract!Agrees(ledger, o)
        /\ ledgerLock = r
        /\ UNCHANGED <<report, ledgerLock, accepted>>
    BY <1>6 DEF ReplaceLedger, Go, LedgerInv
  <2>2. \A s \in Runners \ {r} : pc'[s] = pc[s] /\ pc[s] \notin Critical
    BY <2>1 DEF LedgerInv
  <2>3. \A q : Known(ledger, q) => Known(ledger', q)
    BY <2>1, MergeKeeps
  <2>4. Known(ledger', o)
    BY <2>1, MergeLearns
  <2>5. \A s \in Runners : s \in accepted => s # r
    BY <2>1 DEF LedgerInv
  <2> HIDE DEF o
  <2>6. ASSUME NEW s \in Runners PROVE LedgerInv!(s)'
    BY <2>1, <2>2, <2>3, <2>4, <2>5 DEF LedgerInv, o
  <2> QED
    BY <2>6 DEF LedgerInv
<1>7. ASSUME NEW r \in Runners, UnlockLedger(r) PROVE LedgerInv'
  BY <1>7 DEF UnlockLedger, SameXemu, Go, LedgerInv
<1>8. ASSUME NEW r \in Runners, Killed(r) PROVE LedgerInv'
  BY <1>8 DEF Killed, Working, LedgerInv
<1>9. CASE UNCHANGED vars
  BY <1>9 DEF vars, LedgerInv
<1> QED
  BY <1>1, <1>2, <1>3, <1>4, <1>5, <1>6, <1>7, <1>8, <1>9 DEF Next, Step

-----------------------------------------------------------------------------
(* xemu                                                                    *)

LEMMA XemuStep == IInv /\ [Next]_vars => XemuInv'
<1> SUFFICES ASSUME IInv, [Next]_vars PROVE XemuInv'
  OBVIOUS
<1> USE LedgerAssumption DEF LedgerAssumption, IInv, TypeOK, XemuInv
<1>1. ASSUME NEW r \in Runners, TakeXemuLock(r) PROVE XemuInv'
  BY <1>1 DEF TakeXemuLock, SameLedger, Go
<1>2. ASSUME NEW r \in Runners, ListProcesses(r) PROVE XemuInv'
  BY <1>2 DEF ListProcesses, SameLedger, Go
<1>3. ASSUME NEW r \in Runners, LaunchXemu(r) PROVE XemuInv'
  BY <1>3 DEF LaunchXemu, SameLedger, Go
<1>4. ASSUME NEW r \in Runners, XemuExits(r) \/ LeaveXemu(r) PROVE XemuInv'
  BY <1>4 DEF XemuExits, LeaveXemu, SameLedger, Go
<1>5. ASSUME NEW r \in Runners,
             Report(r) \/ LockLedger(r) \/ ReadAndStage(r)
             \/ WriteTemporary(r) \/ ReplaceLedger(r) \/ UnlockLedger(r)
      PROVE XemuInv'
  BY <1>5 DEF Report, LockLedger, ReadAndStage, WriteTemporary, ReplaceLedger,
     UnlockLedger, SameXemu, SameLedger, Go
<1>6. ASSUME NEW r \in Runners, Killed(r) PROVE XemuInv'
  BY <1>6 DEF Killed
<1>7. CASE UNCHANGED vars
  BY <1>7 DEF vars
<1> QED
  BY <1>1, <1>2, <1>3, <1>4, <1>5, <1>6, <1>7 DEF Next, Step

-----------------------------------------------------------------------------
(* The invariant IInv holds in every state of every behaviour.             *)
THEOREM LedgerInductive == Spec => []IInv
<1>1. IInv /\ [Next]_vars => IInv'
  BY TypeStep, LedgerStep, XemuStep DEF IInv
<1> QED
  BY InitHolds, <1>1, PTL DEF Spec

(* Whatever a runner was told PASSED for stays in the ledger.              *)
THEOREM AcceptedIsKept == Spec => []NoObservationLost
<1>1. IInv => NoObservationLost
  BY DEF IInv, TypeOK, LedgerInv, NoObservationLost
<1> QED
  BY LedgerInductive, <1>1, PTL

(* With process lists that never fail, at most one xemu is alive.          *)
THEOREM XemuIsExclusive == Spec => []AtMostOneXemu
<1>1. IInv => AtMostOneXemu
  <2> SUFFICES ASSUME XemuInv, misses = 0 PROVE Cardinality(xemus) <= 1
    BY DEF IInv, AtMostOneXemu
  <2>1. CASE xemus = {}
    BY <2>1, FS_EmptySet
  <2>2. CASE xemus # {}
    <3>1. PICK r \in xemus : TRUE
      BY <2>2
    <3>2. xemus = {r}
      BY <3>1 DEF XemuInv
    <3> QED
      BY <3>2, FS_Singleton
  <2> QED
    BY <2>1, <2>2
<1> QED
  BY LedgerInductive, <1>1, PTL

\* Every step leaves the file alone or learns one whole observation.
LEMMA StepLearns ==
    IInv /\ [Next]_vars =>
        \/ UNCHANGED ledger
        \/ \E o \in {Observation(p) : p \in Reports} : Abstract!Learn(o)
<1> SUFFICES ASSUME IInv, [Next]_vars, ledger' # ledger
             PROVE  \E p \in Reports : Abstract!Learn(Observation(p))
  OBVIOUS
<1>1. PICK r \in Runners : ReplaceLedger(r)
  BY DEF Next, Step, vars, TakeXemuLock, ListProcesses, LaunchXemu, LeaveXemu,
     Report, LockLedger, ReadAndStage, WriteTemporary, UnlockLedger,
     XemuExits, Killed, SameLedger
<1>2. /\ pc[r] = "replace" /\ ledger' = staged[r]
      /\ report[r] \in Reports
      /\ Abstract!Agrees(ledger, Observation(report[r]))
      /\ staged[r] = Abstract!Merge(ledger, Observation(report[r]))
  BY <1>1 DEF ReplaceLedger, Go, IInv, LedgerInv, Critical
<1> QED
  BY <1>2 DEF Abstract!Learn

(* Entries are never removed, hashes never change, report ids only grow.   *)
THEOREM HashesNeverChange == Spec => FirstObservationStands
<1> DEFINE Stands == \A k \in DOMAIN ledger :
                        /\ k \in DOMAIN ledger'
                        /\ ledger'[k].hashes = ledger[k].hashes
                        /\ ledger[k].ids \subseteq ledger'[k].ids
<1>1. ASSUME NEW o, Abstract!Learn(o) PROVE Stands
  BY <1>1 DEF Abstract!Learn, Abstract!Merge, Abstract!Agrees
<1>2. IInv /\ [Next]_vars => [Stands]_vars
  BY <1>1, StepLearns
<1> QED
  BY LedgerInductive, <1>2, PTL DEF Spec, FirstObservationStands

(* The file refines the abstract ledger.                                   *)
THEOREM LedgerRefines == Spec => ImplementsLedger
<1>1. Init => Abstract!Init
  BY DEF Init, Empty, Abstract!Init
<1>2. IInv /\ [Next]_vars => [Abstract!Next]_ledger
  BY StepLearns DEF Abstract!Next
<1> QED
  BY LedgerInductive, <1>1, <1>2, PTL DEF Spec, ImplementsLedger, Abstract!Spec
-----------------------------------------------------------------------------
(* The environment of xemu, in RunGates.                                   *)

LEMMA GatesInitHolds == GatesInit => RunInv
<1> SUFFICES ASSUME GatesInit PROVE RunInv
  OBVIOUS
<1>1. gate = "parse" /\ env = [n \in world.shell |-> "before"]
  BY DEF GatesInit
<1> QED
  BY <1>1 DEF RunInv, EnvironmentIsOwn, StrangersStay, SetByThisRun, Uncleared,
              Arguments, Cleared, Launched, Stopped

\* Every name the runner or an admitted option sets steers xemu, ...
LEMMA VariablesSteer ==
    ASSUME EnvironmentAccepted, NEW n \in DOMAIN Variables \cup Popped
    PROVE  SteersXemu(n)
<1>1. \A m \in req.environment : IsPrefix("XEMU_", m)
  BY DEF EnvironmentAccepted
<1>2. n \in req.environment \cup RunnerVariables \cup Popped
  BY DEF Variables
<1> QED
  BY <1>1, <1>2, RunnerOwnsItsNames DEF RunnerVariables, Popped, SteersXemu

\* ... and the exit takes every one of them out.
LEMMA VariablesArePopped == DOMAIN Variables \subseteq Popped
<1>1. RunnerVariables \subseteq Popped
  BY DEF RunnerVariables, Popped
<1> QED
  BY <1>1 DEF Variables, Popped

\* What is set before the launch is marked as this run's.
LEMMA VariablesAreMarked ==
    ASSUME NEW n \in DOMAIN Variables PROVE Variables[n] # "before"
BY DEF Variables

\* The invariant depends on the command line, the level and the environment.
LEMMA InvariantKept ==
    ASSUME RunInv, UNCHANGED <<req, world, level, env>>,
           \/ gate' = gate
           \/ gate \in Launched /\ gate' \in Launched
           \/ gate \in Cleared /\ gate' \in Cleared \cup {"rejected"}
    PROVE  RunInv'
<1>1. Variables' = Variables /\ EnvironmentAccepted' = EnvironmentAccepted
  BY DEF Variables, RunnerVariables, Perf, EnvironmentAccepted
<1>2. SetByThisRun' = SetByThisRun /\ StrangersStay'
  BY DEF SetByThisRun, StrangersStay, RunInv
<1>3. gate' \in Uncleared \cup Cleared \cup Launched \cup Stopped
  BY DEF RunInv, EnvironmentIsOwn, Arguments, Uncleared, Cleared, Launched, Stopped
<1>4. gate' \notin Launched => SetByThisRun' = {}
  BY <1>2 DEF RunInv, EnvironmentIsOwn, Arguments, Uncleared, Cleared, Launched,
              Stopped
<1>5. gate' \in Launched => SetByThisRun' \subseteq DOMAIN Variables'
  BY <1>1, <1>2 DEF RunInv, EnvironmentIsOwn, Arguments, Uncleared, Cleared,
                    Launched, Stopped
<1>6. gate' \in Cleared \cup Launched =>
         \A n \in DOMAIN env' : env'[n] = "before" => ~SteersXemu(n)
  BY DEF RunInv, EnvironmentIsOwn, Arguments, Uncleared, Cleared, Launched, Stopped
<1>7. gate' \notin Arguments \cup {"rejected"} => EnvironmentAccepted'
  BY <1>1 DEF RunInv, EnvironmentIsOwn, Arguments, Uncleared, Cleared, Launched,
              Stopped
<1> QED
  BY <1>2, <1>3, <1>4, <1>5, <1>6, <1>7 DEF RunInv, EnvironmentIsOwn

\* The filter leaves nothing that steers xemu and nobody else's name out.
LEMMA BuildStep == ASSUME RunInv, CheckBuild PROVE RunInv'
<1>1. /\ gate = "build" /\ gate' \in {"select", "rejected"}
      /\ UNCHANGED <<req, world, level>>
      /\ env' = [n \in {n \in DOMAIN env : ~Diagnostic(n)} |-> env[n]]
  BY DEF CheckBuild, ClearEnvironment
<1>2. \A n : Diagnostic(n) <=> SteersXemu(n)
  BY DEF Diagnostic, SteersXemu
<1>3. SetByThisRun = {} /\ EnvironmentAccepted /\ StrangersStay
  BY <1>1 DEF RunInv, EnvironmentIsOwn, Launched, Arguments
<1>4. SetByThisRun' = {} /\ EnvironmentAccepted'
  BY <1>1, <1>3 DEF SetByThisRun, EnvironmentAccepted
<1>5. \A n \in DOMAIN env' : ~SteersXemu(n)
  BY <1>1, <1>2
<1>6. StrangersStay'
  BY <1>1, <1>2, <1>3 DEF StrangersStay
<1> QED
  BY <1>1, <1>4, <1>5, <1>6 DEF RunInv, EnvironmentIsOwn, Arguments, Uncleared,
                                Cleared, Launched, Stopped

\* The launch adds the variables of this run and overwrites no stranger's.
LEMMA PrepareStep == ASSUME RunInv, Prepare PROVE RunInv'
<1>1. /\ gate = "launch" /\ gate' \in {"guest", "cleanup"}
      /\ UNCHANGED <<req, world, level>>
      /\ env' = [n \in DOMAIN Variables \cup DOMAIN env |->
                    IF n \in DOMAIN Variables THEN Variables[n] ELSE env[n]]
  BY DEF Prepare
<1>2. /\ SetByThisRun = {} /\ EnvironmentAccepted /\ StrangersStay
      /\ \A n \in DOMAIN env : env[n] = "before" => ~SteersXemu(n)
  BY <1>1 DEF RunInv, EnvironmentIsOwn, Launched, Cleared, Arguments
<1>3. Variables' = Variables /\ EnvironmentAccepted'
  BY <1>1, <1>2 DEF Variables, RunnerVariables, Perf, EnvironmentAccepted
<1>4. SetByThisRun' \subseteq DOMAIN Variables'
  BY <1>1, <1>2, <1>3 DEF SetByThisRun
<1>5. \A n \in DOMAIN env' : env'[n] = "before" => ~SteersXemu(n)
  BY <1>1, <1>2, VariablesAreMarked
<1>6. StrangersStay'
  BY <1>1, <1>2, VariablesSteer DEF StrangersStay
<1> QED
  BY <1>1, <1>3, <1>4, <1>5, <1>6 DEF RunInv, EnvironmentIsOwn, Arguments,
                                      Uncleared, Cleared, Launched, Stopped

\* The list of the exit names all this run has set, and no stranger.
LEMMA FinishStep == ASSUME RunInv, Finish PROVE RunInv'
<1>1. /\ gate = "cleanup" /\ gate' = "exited"
      /\ UNCHANGED <<req, world, level>>
      /\ env' = [n \in DOMAIN env \ Popped |-> env[n]]
  BY DEF Finish
<1>2. /\ SetByThisRun \subseteq DOMAIN Variables
      /\ EnvironmentAccepted /\ StrangersStay
  BY <1>1 DEF RunInv, EnvironmentIsOwn, Launched, Arguments
<1>3. SetByThisRun' = {}
  BY <1>1, <1>2, VariablesArePopped DEF SetByThisRun
<1>4. StrangersStay'
  BY <1>1, <1>2, VariablesSteer DEF StrangersStay
<1>5. EnvironmentAccepted'
  BY <1>1, <1>2 DEF EnvironmentAccepted
<1> QED
  BY <1>1, <1>3, <1>4, <1>5 DEF RunInv, EnvironmentIsOwn, Arguments, Uncleared,
                                Cleared, Launched, Stopped

LEMMA GatesStepHolds == RunInv /\ [GatesNext]_gateVars => RunInv'
<1> SUFFICES ASSUME RunInv, [GatesNext]_gateVars PROVE RunInv'
  OBVIOUS
<1>1. CASE ParseArgs \/ LoadGameLoadConfig \/ ResolveTelemetry
           \/ CheckEvidence \/ CheckProfile \/ CheckFiles
  <2>1. /\ UNCHANGED <<req, world, env>>
        /\ \/ gate \in {"parse", "scene"} /\ gate' \in Arguments \cup {"rejected"}
           \/ gate = "telemetry" /\ gate' = "rejected"
           \/ gate = "telemetry" /\ gate' = "evidence" /\ EnvironmentAccepted
           \/ gate \in {"evidence", "profile", "files"}
              /\ gate' \in (Uncleared \ Arguments) \cup {"rejected"}
    BY <1>1 DEF ParseArgs, LoadGameLoadConfig, ResolveTelemetry, CheckEvidence,
                CheckProfile, CheckFiles, Admit, Arguments, Uncleared
  <2>2. /\ SetByThisRun' = SetByThisRun /\ SetByThisRun = {} /\ StrangersStay'
        /\ EnvironmentAccepted' = EnvironmentAccepted
    BY <2>1 DEF SetByThisRun, StrangersStay, RunInv, EnvironmentIsOwn, Launched,
                EnvironmentAccepted
  <2> QED
    BY <2>1, <2>2 DEF RunInv, EnvironmentIsOwn, Arguments, Uncleared, Cleared,
                      Launched, Stopped
<1>2. CASE CheckBuild
  BY <1>2, BuildStep
<1>3. CASE ChooseRecords
  <2>1. /\ UNCHANGED <<req, world, level, env>>
        /\ gate = "select" /\ gate' \in {"launch", "rejected"}
    BY <1>3 DEF ChooseRecords
  <2> QED
    BY <2>1, InvariantKept DEF Cleared
<1>4. CASE Prepare
  BY <1>4, PrepareStep
<1>5. CASE RunGuest \/ GiveStatus \/ CollectValidation
  <2>1. /\ UNCHANGED <<req, world, level, env>>
        /\ gate \in Launched /\ gate' \in Launched
    BY <1>5 DEF RunGuest, GiveStatus, CollectValidation, Launched
  <2> QED
    BY <2>1, InvariantKept
<1>6. CASE CheckMarkers \/ NormalizeRecords \/ CheckReport \/ CheckRecordCount
           \/ CheckProfileWork \/ CheckOracles \/ CheckCompositeWork
           \/ CheckHostTelemetry
  <2>1. /\ UNCHANGED <<req, world, level, env>>
        /\ gate \in Launched /\ gate' \in Launched
    BY <1>6 DEF CheckMarkers, NormalizeRecords, CheckReport, CheckRecordCount,
                CheckProfileWork, CheckOracles, CheckCompositeWork,
                CheckHostTelemetry, Judge, Launched
  <2> QED
    BY <2>1, InvariantKept
<1>7. CASE Finish
  BY <1>7, FinishStep
<1>8. CASE UNCHANGED gateVars
  BY <1>8, InvariantKept DEF gateVars
<1> QED
  BY <1>1, <1>2, <1>3, <1>4, <1>5, <1>6, <1>7, <1>8 DEF GatesNext

(* At every gate, what is in the environment and not from before is what   *)
(* this command line asked for; from the build gate on nothing from before *)
(* steers xemu; and what is nobody's business stays (main, lines 4137 to   *)
(* 4705 of run-suite-pr76.py).                                             *)
THEOREM RunInvHolds == GatesSpec => []RunInv
BY GatesInitHolds, GatesStepHolds, PTL DEF GatesSpec

(* Whatever names the shell or an earlier run left set, for any command    *)
(* lines and any image: xemu inherits none of them that steers it or the   *)
(* layers of its loader, none of this run's outlives it, and every other   *)
(* stays (the filter of lines 1842 to 1854, what lines 4380 to 4393 set,   *)
(* and the list of lines 4697 to 4705 of run-suite-pr76.py).               *)
THEOREM EnvironmentOfThisRun == GatesSpec => []ChildSeesOnlyThisRun
<1>1. RunInv => ChildSeesOnlyThisRun
  <2> SUFFICES ASSUME RunInv PROVE ChildSeesOnlyThisRun
    OBVIOUS
  <2>1. gate = "guest" => \A n \in DOMAIN env : env[n] = "before" => ~SteersXemu(n)
    BY DEF RunInv, EnvironmentIsOwn, Launched
  <2>2. gate \in {"rejected", "exited"} => \A n \in DOMAIN env : env[n] = "before"
    BY DEF RunInv, EnvironmentIsOwn, Launched, SetByThisRun
  <2> QED
    BY <2>1, <2>2 DEF RunInv, StrangersStay, ChildSeesOnlyThisRun
<1> QED
  BY <1>1, RunInvHolds, PTL
=============================================================================
