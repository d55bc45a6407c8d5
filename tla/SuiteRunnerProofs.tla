------------------------- MODULE SuiteRunnerProofs -------------------------
(***************************************************************************)
(* Proofs about SuiteRunner, for every set of command lines and guests and *)
(* any number of faults.                                                   *)
(*                                                                         *)
(* The argument about the evidence looks at the watcher alone: only        *)
(* Interpret changes the log and the failure, only WriteFailure the file,  *)
(* and only KillFailedGuest terminates xemu in its name.  The argument     *)
(* about the verdict is that main looks at the failure only when the       *)
(* watcher has ended, and that an ended watcher never speaks again.  The   *)
(* argument about the reading follows the bytes: the watcher keeps what    *)
(* stands after the last line feed it read, so that reading on gives the   *)
(* lines of the whole file, until the file is truncated under its offset.  *)
(***************************************************************************)
EXTENDS SuiteRunner, SequenceTheorems, WellFoundedInduction, TLAPS

\* The elements of the log do not matter, only that it is a sequence.
LogIsSequence == \E S : events \in Seq(S)

\* What the guest writes is a text.
LEMMA BytesAreLines ==
    ASSUME NEW ls \in Seq(Line)
    PROVE  Bytes(ls) \in Seq(Line)
<1>1. Len(ls) \in Nat /\ 2 * Len(ls) \in Nat /\ NL \in Line
  BY LenProperties DEF NL, Line
<1>2. ASSUME NEW i \in 1..2 * Len(ls)
      PROVE  (IF i % 2 = 1 THEN ls[(i + 1) \div 2] ELSE NL) \in Line
  <2>1. i % 2 = 1 => (i + 1) \div 2 \in 1..Len(ls)
    BY <1>1
  <2> QED
    BY <1>1, <2>1, ElementOfSeq
<1>3. Bytes(ls) \in [1..2 * Len(ls) -> Line]
  BY <1>2 DEF Bytes
<1> QED
  BY <1>1, <1>3, SeqDef

LEMMA InitHolds == Init => IInv /\ LogIsSequence
<1> SUFFICES ASSUME Init PROVE IInv /\ LogIsSequence
  OBVIOUS
<1>1. LogIsSequence
  <2>1. events \in Seq({})
    BY DEF Init
  <2> QED
    BY <2>1 DEF LogIsSequence
<1>2. EvidenceInv
  BY DEF Init, EvidenceInv, None
<1>3. VerdictInv
  BY DEF Init, VerdictInv, Statuses, WatcherEnded, AtOutput, AtOutputs
<1>4. EarnedInv
  BY DEF Init, EarnedInv, AtOutputs
<1>5. ResultInv
  BY DEF Init, ResultInv
<1>6. guest.lines \in Seq(Line)
  <2>1. PICK run \in Runs : guest = run.guest
    BY DEF Init
  <2> QED
    BY <2>1, RunnerAssumption DEF Guest
<1>7. ReadTyping
  <2>1. script \in Seq(Line)
    BY <1>6, BytesAreLines DEF Init
  <2>2. <<>> \in Seq(Line)
    BY EmptySeq
  <2> QED
    BY <1>6, <2>1, <2>2 DEF Init, ReadTyping
<1>8. Follows
  <2>1. /\ offset = 0 /\ file = <<>> /\ partial = <<>>
        /\ SubSeq(file, 0 + 1, offset) = <<>>
    BY SubSeqEmpty DEF Init
  <2>2. RestKept /\ NoneLost
    BY <2>1 DEF RestKept, NoneLost
  <2> QED
    BY <2>1, <2>2 DEF Follows
<1>9. EndsUpToDate
  BY DEF Init, EndsUpToDate
<1> QED
  BY <1>1, <1>2, <1>3, <1>4, <1>5, <1>7, <1>8, <1>9 DEF IInv, ReadInv

-----------------------------------------------------------------------------
(* The evidence                                                            *)

\* What appending to the log does, whatever is appended.
LEMMA AppendToLog ==
    ASSUME NEW S, NEW s \in Seq(S), NEW e
    PROVE  /\ Append(s, e) \in Seq(S \cup {e})
           /\ Len(Append(s, e)) = Len(s) + 1 /\ Len(s) \in Nat
           /\ \A i \in 1..Len(s) : Append(s, e)[i] = s[i]
           /\ Append(s, e)[Len(s) + 1] = e
<1>1. s \in Seq(S \cup {e}) /\ e \in S \cup {e}
  BY SMT
<1> QED
  BY <1>1

LEMMA LogStaysASequence ==
    ASSUME LogIsSequence, [Next]_vars
    PROVE  LogIsSequence'
<1>1. PICK S : events \in Seq(S)
  BY DEF LogIsSequence
<1>2. CASE Interpret
  <2>1. events' = events \/ \E e : events' = Append(events, e)
    BY <1>2 DEF Interpret, InterpretLine
  <2>2. CASE events' = events
    BY <1>1, <2>2 DEF LogIsSequence
  <2>3. CASE \E e : events' = Append(events, e)
    <3>1. PICK e : events' = Append(events, e)
      BY <2>3
    <3>2. events' \in Seq(S \cup {e})
      BY <1>1, <3>1, AppendToLog
    <3> QED
      BY <3>2 DEF LogIsSequence
  <2> QED
    BY <2>1, <2>2, <2>3
<1>3. CASE ~Interpret
  <2>1. events' = events
    BY <1>3 DEF Next, Watcher, Held, MainThread, vars, verdictVars,
       GuestWrites, GuestEnds, MarkerFileRecreated, WatcherSeesStop, Poll,
       LastPollDenied, AppendEventFails, WriteFailure, WriteFailureFails,
       KillFailedGuest, HeldTurn, HeldWakes, HeldCaptures, HeldAwaitsExit,
       HeldFails, Timed, Sampler, Main, AcquireLock, ListProcesses, Launch,
       XemuTestTimesOut, TestReturns, FinishWatcher, JoinWatcher, FinishHeld,
       FinishTimed, Unlock, Judging, CheckGuestFailure, CheckMarkers,
       FinishSampler, BuildReport, CheckRecords, UpdateLedger, CheckOracle,
       CheckTelemetry, Except, Finally, WriteSummary, Interrupted
  <2> QED
    BY <1>1, <2>1 DEF LogIsSequence
<1> QED
  BY <1>2, <1>3

\* A first failure is the first of the log it is appended to.
LEMMA FirstFailureIsFirst ==
    ASSUME LogIsSequence, EvidenceInv, failure = None,
           NEW e, events' = Append(events, e), failure' = e
    PROVE  FirstInLog'
<1>1. PICK S : events \in Seq(S)
  BY DEF LogIsSequence
<1>2. /\ Len(events') = Len(events) + 1 /\ Len(events) \in Nat
      /\ \A i \in 1..Len(events) : events'[i] = events[i]
      /\ events'[Len(events) + 1] = e
  BY <1>1, AppendToLog
<1>3. \A i \in 1..Len(events) : events[i].kind \notin FAILURE_EVENTS
  BY DEF EvidenceInv
<1> QED
  BY <1>2, <1>3 DEF FirstInLog

\* Later events leave it the first.
LEMMA FirstFailureStaysFirst ==
    ASSUME LogIsSequence, FirstInLog, NEW e, failure' = failure,
           events' = events \/ events' = Append(events, e)
    PROVE  FirstInLog'
<1>1. CASE events' = events
  BY <1>1 DEF FirstInLog
<1>2. CASE events' = Append(events, e)
  <2>1. PICK S : events \in Seq(S)
    BY DEF LogIsSequence
  <2>2. /\ Len(events') = Len(events) + 1 /\ Len(events) \in Nat
        /\ \A i \in 1..Len(events) : events'[i] = events[i]
    BY <1>2, <2>1, AppendToLog
  <2>3. PICK i \in 1..Len(events) :
           /\ events[i] = failure
           /\ \A j \in 1..(i - 1) : events[j].kind \notin FAILURE_EVENTS
    BY DEF FirstInLog
  <2> QED
    BY <2>2, <2>3 DEF FirstInLog
<1> QED
  BY <1>1, <1>2

\* A line that is no failure adds none to a log that has none.
LEMMA NoFailureStaysNone ==
    ASSUME LogIsSequence, NEW e, e.kind \notin FAILURE_EVENTS,
           \A i \in 1..Len(events) : events[i].kind \notin FAILURE_EVENTS,
           events' = events \/ events' = Append(events, e)
    PROVE  \A i \in 1..Len(events') : events'[i].kind \notin FAILURE_EVENTS
<1>1. CASE events' = events
  BY <1>1
<1>2. CASE events' = Append(events, e)
  <2>1. PICK S : events \in Seq(S)
    BY DEF LogIsSequence
  <2>2. /\ Len(events') = Len(events) + 1 /\ Len(events) \in Nat
        /\ \A i \in 1..Len(events) : events'[i] = events[i]
        /\ events'[Len(events) + 1] = e
    BY <1>2, <2>1, AppendToLog
  <2> QED
    BY <2>2
<1> QED
  BY <1>1, <1>2

LEMMA InterpretKeepsEvidence ==
    ASSUME LogIsSequence, EvidenceInv, Interpret
    PROVE  EvidenceInv'
<1> DEFINE line == Head(queue)
           first == IsFailure /\ failure = None
<1>1. /\ events' = IF line.kind \in Events THEN Append(events, line)
                                            ELSE events
      /\ failure' = IF first THEN line ELSE failure
      /\ w = "interpret" /\ w' = IF first THEN "failing" ELSE NextLine
      /\ failureFile' = failureFile /\ killer' = killer
  BY DEF Interpret, InterpretLine, verdictVars, xemuVars
<1>2. CASE first
  <2>1. line.kind \in FAILURE_EVENTS /\ failure = None
    BY <1>2 DEF IsFailure
  <2>2. events' = Append(events, line) /\ failure' = line /\ line # None
    BY <1>1, <1>2, <2>1 DEF Events, FAILURE_EVENTS, None
  <2>3. FirstInLog'
    BY <2>1, <2>2, FirstFailureIsFirst
  <2>4. failureFile = None /\ killer # "watcher"
    BY <2>1 DEF EvidenceInv
  <2> HIDE DEF line, first
  <2> QED
    BY <1>1, <1>2, <2>2, <2>3, <2>4 DEF EvidenceInv
<1>3. CASE ~first
  <2>1. events' = events \/ events' = Append(events, line)
    BY <1>1
  <2>2. failure' = failure
    BY <1>1, <1>3
  <2>3. w' \in {"interpret", "done", "poll"}
    BY <1>1, <1>3 DEF NextLine, AfterPoll
  <2>4. failure # None => FirstInLog'
    BY <2>1, <2>2, FirstFailureStaysFirst DEF EvidenceInv
  <2>5. failure = None => \A i \in 1..Len(events') :
                             events'[i].kind \notin FAILURE_EVENTS
    <3> SUFFICES ASSUME failure = None
                 PROVE  \A i \in 1..Len(events') :
                           events'[i].kind \notin FAILURE_EVENTS
      OBVIOUS
    <3>1. line.kind \notin FAILURE_EVENTS
      BY <1>3 DEF IsFailure
    <3> QED
      BY <2>1, <3>1, NoFailureStaysNone DEF EvidenceInv
  <2> HIDE DEF line, first
  <2> QED
    BY <1>1, <2>2, <2>3, <2>4, <2>5 DEF EvidenceInv
<1> QED
  BY <1>2, <1>3

\* Every action but three leaves the evidence as it is, and if it terminates
\* xemu then not in the name of the watcher.
EvidenceKept ==
    /\ UNCHANGED <<events, failure, failureFile>>
    /\ killer' \in {killer, "held", "main", "xemutest"}
    /\ w' = w \/ w' \notin {"failing", "killing"}

LEMMA KeepingEvidence ==
    ASSUME EvidenceInv, EvidenceKept
    PROVE  EvidenceInv'
BY DEF EvidenceInv, EvidenceKept, FirstInLog

LEMMA OthersKeepEvidence ==
    ASSUME [Next]_vars, ~Interpret, ~WriteFailure, ~KillFailedGuest
    PROVE  EvidenceKept
<1> USE DEF EvidenceKept, verdictVars, xemuVars, captureVars
<1>1. CASE GuestWrites \/ GuestEnds \/ MarkerFileRecreated
  BY <1>1 DEF GuestWrites, GuestEnds, MarkerFileRecreated
<1>2. CASE WatcherSeesStop \/ Poll \/ LastPollDenied \/ AppendEventFails
           \/ WriteFailureFails
  BY <1>2 DEF WatcherSeesStop, Poll, LastPollDenied, AppendEventFails,
     WriteFailureFails, AfterPoll
<1>3. CASE Held
  BY <1>3 DEF Held, HeldTurn, HeldWakes, HeldCaptures, HeldAwaitsExit,
     HeldFails, TerminateProcessTree
<1>4. CASE Timed \/ Sampler
  BY <1>4 DEF Timed, Sampler
<1>5. CASE XemuTestTimesOut \/ Launch \/ FinishHeld
  BY <1>5 DEF XemuTestTimesOut, Launch, FinishHeld, Main, TerminateProcessTree
<1>6. CASE AcquireLock \/ ListProcesses \/ TestReturns \/ FinishWatcher
           \/ JoinWatcher \/ FinishTimed \/ Unlock \/ WriteSummary
           \/ Interrupted
  BY <1>6 DEF AcquireLock, ListProcesses, TestReturns, FinishWatcher,
     JoinWatcher, FinishTimed, Unlock, WriteSummary, Interrupted, Main,
     Waiting
<1>7. CASE CheckGuestFailure \/ CheckMarkers \/ FinishSampler \/ BuildReport
           \/ CheckRecords \/ UpdateLedger \/ CheckOracle \/ CheckTelemetry
           \/ Except \/ Finally
  BY <1>7 DEF CheckGuestFailure, CheckMarkers, FinishSampler, BuildReport,
     CheckRecords, UpdateLedger, CheckOracle, CheckTelemetry, Except,
     Finally, Judging, Main, Waiting
<1>8. CASE UNCHANGED vars
  BY <1>8 DEF vars
<1> QED
  BY <1>1, <1>2, <1>3, <1>4, <1>5, <1>6, <1>7, <1>8
     DEF Next, Watcher, MainThread

LEMMA EvidenceStep ==
    ASSUME LogIsSequence, EvidenceInv, [Next]_vars
    PROVE  EvidenceInv'
<1>1. CASE Interpret
  BY <1>1, InterpretKeepsEvidence
<1>2. CASE WriteFailure
  BY <1>2 DEF WriteFailure, xemuVars, EvidenceInv, FirstInLog
<1>3. CASE KillFailedGuest
  <2>1. /\ UNCHANGED <<events, failure, failureFile>>
        /\ w = "killing" /\ w' \in {"interpret", "done", "poll"}
    BY <1>3 DEF KillFailedGuest, verdictVars, NextLine, AfterPoll
  <2> QED
    BY <2>1 DEF EvidenceInv, FirstInLog
<1>4. CASE ~Interpret /\ ~WriteFailure /\ ~KillFailedGuest
  BY <1>4, OthersKeepEvidence, KeepingEvidence
<1> QED
  BY <1>1, <1>2, <1>3, <1>4

-----------------------------------------------------------------------------
(* The verdict                                                             *)

\* Steps of the other threads leave main alone, and a watcher that has ended
\* says nothing any more.
OtherThreads ==
    /\ UNCHANGED <<pc, exc, status>>
    /\ WatcherEnded => w' = w /\ failure' = failure

LEMMA OtherThreadsKeepVerdict ==
    ASSUME VerdictInv, OtherThreads
    PROVE  VerdictInv'
<1>1. WatcherEnded => WatcherEnded'
  BY DEF OtherThreads, WatcherEnded
<1>2. w = "off" => w' = "off"
  BY DEF OtherThreads, WatcherEnded
<1>3. AtOutput' = AtOutput
  BY DEF OtherThreads, AtOutput
<1>4. WatcherEnded /\ failure = None => failure' = None
  BY DEF OtherThreads
<1> QED
  BY <1>1, <1>2, <1>3, <1>4 DEF VerdictInv, OtherThreads

LEMMA OtherThreadsStep ==
    ASSUME GuestWrites \/ GuestEnds \/ MarkerFileRecreated \/ Watcher
           \/ Held \/ Timed \/ Sampler \/ XemuTestTimesOut
    PROVE  OtherThreads
<1> USE DEF OtherThreads, mainVars, verdictVars, WatcherEnded
<1>1. CASE GuestWrites \/ GuestEnds \/ MarkerFileRecreated
  BY <1>1 DEF GuestWrites, GuestEnds, MarkerFileRecreated
<1>2. CASE WatcherSeesStop \/ Poll \/ LastPollDenied \/ AppendEventFails
  BY <1>2 DEF WatcherSeesStop, Poll, LastPollDenied, AppendEventFails
<1>3. CASE Interpret \/ WriteFailure \/ WriteFailureFails \/ KillFailedGuest
  BY <1>3 DEF Interpret, InterpretLine, WriteFailure, WriteFailureFails,
     KillFailedGuest
<1>4. CASE Held
  BY <1>4 DEF Held, HeldTurn, HeldWakes, HeldCaptures, HeldAwaitsExit, HeldFails
<1>5. CASE Timed \/ Sampler
  BY <1>5 DEF Timed, Sampler
<1>6. CASE XemuTestTimesOut
  BY <1>6 DEF XemuTestTimesOut, Main
<1> QED
  BY <1>1, <1>2, <1>3, <1>4, <1>5, <1>6 DEF Watcher

LEMMA MainKeepsVerdict ==
    ASSUME VerdictInv, MainThread \/ Interrupted
    PROVE  VerdictInv'
<1> USE DEF VerdictInv, Statuses, Main, verdictVars, WatcherEnded,
        AtOutput, AtOutputs
<1>1. CASE AcquireLock \/ ListProcesses
  BY <1>1 DEF AcquireLock, ListProcesses, Waiting
<1>2. CASE Launch
  BY <1>2 DEF Launch
<1>3. CASE TestReturns
  BY <1>3 DEF TestReturns, Waiting
<1>4. CASE FinishWatcher
  BY <1>4 DEF FinishWatcher
<1>5. CASE JoinWatcher
  BY <1>5 DEF JoinWatcher, Waiting
<1>6. CASE FinishHeld
  BY <1>6 DEF FinishHeld
<1>7. CASE FinishTimed
  BY <1>7 DEF FinishTimed, Waiting
<1>8. CASE Unlock
  BY <1>8 DEF Unlock, Waiting
<1>9. CASE CheckGuestFailure
  BY <1>9 DEF CheckGuestFailure, Judging, Waiting, Holds, Raises
<1>10. CASE CheckMarkers \/ FinishSampler \/ BuildReport \/ CheckRecords
  BY <1>10 DEF CheckMarkers, FinishSampler, BuildReport, CheckRecords,
     Judging, Waiting, Holds, Raises
<1>11. CASE UpdateLedger \/ CheckOracle \/ CheckTelemetry
  BY <1>11 DEF UpdateLedger, CheckOracle, CheckTelemetry, Judging, Waiting,
     Holds, Raises
<1>12. CASE Except
  BY <1>12 DEF Except, StatusOf, Judging, Waiting
<1>13. CASE Finally \/ WriteSummary
  BY <1>13 DEF Finally, WriteSummary, Judging, Waiting
<1>14. CASE Interrupted
  BY <1>14 DEF Interrupted, Waiting
<1> QED
  BY <1>1, <1>2, <1>3, <1>4, <1>5, <1>6, <1>7, <1>8, <1>9, <1>10, <1>11,
     <1>12, <1>13, <1>14 DEF MainThread

LEMMA VerdictStep ==
    ASSUME VerdictInv, [Next]_vars
    PROVE  VerdictInv'
<1>1. CASE MainThread \/ Interrupted
  BY <1>1, MainKeepsVerdict
<1>2. CASE UNCHANGED vars
  BY <1>2, OtherThreadsKeepVerdict
     DEF OtherThreads, vars, mainVars, verdictVars
<1>3. CASE ~(MainThread \/ Interrupted \/ UNCHANGED vars)
  BY <1>3, OtherThreadsStep, OtherThreadsKeepVerdict DEF Next
<1> QED
  BY <1>1, <1>2, <1>3

-----------------------------------------------------------------------------
(* What main has seen                                                      *)

\* Markers that will do go on doing when nothing is read any more.
LEMMA MarkersStay ==
    ASSUME MarkersSeen, UNCHANGED <<req, w, identity, boundaries, events>>
    PROVE  MarkersSeen'
BY DEF MarkersSeen, WatcherEnded, MarkersAccepted, MarkersValid

\* A thread that was started stays started, and one that ended well stays so.
Forward(before, after) ==
    /\ before = "off" <=> after = "off"
    /\ before = "ok" => after = "ok"

\* What a step of another thread may not take from main.
OthersEarn ==
    /\ UNCHANGED <<req, pc, exc, status, result, recorded>>
    /\ WatcherEnded => UNCHANGED <<w, failure, identity, boundaries, events>>
    /\ w = "off" <=> w' = "off"
    /\ Forward(held, held') /\ Forward(timed, timed') /\ Forward(gdb, gdb')
    /\ xemu = "clean" => xemu' = "clean"

LEMMA OthersEarnStep ==
    ASSUME GuestWrites \/ GuestEnds \/ MarkerFileRecreated \/ Watcher
           \/ Held \/ Timed \/ Sampler \/ XemuTestTimesOut \/ UNCHANGED vars
    PROVE  OthersEarn
<1> USE DEF OthersEarn, Forward, mainVars, xemuVars, verdictVars, readVars,
            captureVars, WatcherEnded
<1>1. CASE GuestWrites \/ GuestEnds \/ MarkerFileRecreated
  BY <1>1 DEF GuestWrites, GuestEnds, MarkerFileRecreated
<1>2. CASE WatcherSeesStop \/ Poll \/ LastPollDenied \/ AppendEventFails
  BY <1>2 DEF WatcherSeesStop, Poll, LastPollDenied, AppendEventFails, AfterPoll
<1>3. CASE Interpret
  BY <1>3 DEF Interpret, InterpretLine, NextLine, AfterPoll
<1>4. CASE WriteFailure \/ WriteFailureFails \/ KillFailedGuest
  BY <1>4 DEF WriteFailure, WriteFailureFails, KillFailedGuest,
     TerminateProcessTree, NextLine, AfterPoll
<1>5. CASE Held
  BY <1>5 DEF Held, HeldTurn, HeldWakes, HeldCaptures, HeldAwaitsExit,
     HeldFails, TerminateProcessTree
<1>6. CASE Timed
  BY <1>6 DEF Timed
<1>7. CASE Sampler
  BY <1>7 DEF Sampler, SamplerWaits, SamplerSamples
<1>8. CASE XemuTestTimesOut
  BY <1>8 DEF XemuTestTimesOut, Main, TerminateProcessTree
<1>9. CASE UNCHANGED vars
  BY <1>9 DEF vars
<1> QED
  BY <1>1, <1>2, <1>3, <1>4, <1>5, <1>6, <1>7, <1>8, <1>9 DEF Watcher

LEMMA OthersKeepEarned ==
    ASSUME EarnedInv, OthersEarn
    PROVE  EarnedInv'
<1>1. Begun => Begun'
  BY DEF OthersEarn, Forward, Begun
<1>2. (held \in {"off", "ok"} => held' \in {"off", "ok"})
      /\ (PhotosTaken => PhotosTaken') /\ (SamplesTaken => SamplesTaken')
  BY DEF OthersEarn, Forward, PhotosTaken, SamplesTaken
<1>3. MarkersSeen => MarkersSeen'
  BY MarkersStay DEF OthersEarn, MarkersSeen
<1>4. MarkersSeen /\ failure = None => failure' = None
  BY DEF OthersEarn, MarkersSeen
<1>5. /\ UNCHANGED <<req, pc, exc, status, result, recorded>>
      /\ xemu = "clean" => xemu' = "clean"
  BY DEF OthersEarn
<1> QED
  BY <1>1, <1>2, <1>3, <1>4, <1>5 DEF EarnedInv

\* A step of main that leaves the other threads and the records alone.
MainReads ==
    /\ UNCHANGED <<req, w, failure, identity, boundaries, events>>
    /\ UNCHANGED <<held, timed, gdb, xemu>>

LEMMA ReadingKeeps ==
    ASSUME MainReads
    PROVE  /\ Begun' = Begun /\ PhotosTaken' = PhotosTaken
           /\ SamplesTaken' = SamplesTaken
           /\ MarkersSeen => MarkersSeen'
<1>1. MarkersSeen => MarkersSeen'
  BY MarkersStay DEF MainReads
<1> QED
  BY <1>1 DEF MainReads, Begun, PhotosTaken, SamplesTaken

\* Once it has entered the run, main changes xemu in FinishHeld only.
LEMMA MainReadsStep ==
    ASSUME MainThread \/ Interrupted, ~Launch, ~FinishHeld
    PROVE  MainReads
<1> USE DEF MainReads, Main, Waiting, captureVars, verdictVars, readVars
<1>1. CASE AcquireLock \/ ListProcesses \/ TestReturns \/ FinishWatcher
  BY <1>1 DEF AcquireLock, ListProcesses, TestReturns, FinishWatcher
<1>2. CASE JoinWatcher \/ FinishTimed \/ Unlock \/ WriteSummary \/ Interrupted
  BY <1>2 DEF JoinWatcher, FinishTimed, Unlock, WriteSummary, Interrupted
<1>3. CASE CheckGuestFailure \/ CheckMarkers \/ FinishSampler \/ BuildReport
           \/ CheckRecords \/ UpdateLedger \/ CheckOracle \/ CheckTelemetry
           \/ Except \/ Finally
  BY <1>3 DEF CheckGuestFailure, CheckMarkers, FinishSampler, BuildReport,
     CheckRecords, UpdateLedger, CheckOracle, CheckTelemetry, Except,
     Finally, Judging
<1> QED
  BY <1>1, <1>2, <1>3 DEF MainThread

\* Launch starts what was asked for, or raises.
LEMMA LaunchEarns ==
    ASSUME EarnedInv, VerdictInv, Launch
    PROVE  EarnedInv'
<1>1. /\ pc = "launch" /\ exc = "none" /\ ~recorded /\ result = "none"
      /\ status # "PASSED" /\ status' = status /\ recorded' = recorded
      /\ req' = req
  BY DEF Launch, Main, EarnedInv, VerdictInv
<1>2. \/ /\ pc' = "running" /\ exc' = "none" /\ result' = "none"
         /\ w' = (IF req.live THEN "poll" ELSE "off")
         /\ held' = (IF req.held THEN "wait" ELSE "off")
         /\ timed' = (IF req.shots > 0 THEN "run" ELSE "off")
         /\ gdb' = (IF req.gdb > 0 THEN "wait" ELSE "off")
      \/ pc' = "finishWatcher" /\ exc' = "other" /\ result' = "raised"
  BY <1>1 DEF Launch
<1>3. pc' = "running" => Begun'
  BY <1>1, <1>2 DEF Begun
<1> QED
  BY <1>1, <1>2, <1>3 DEF EarnedInv, AtOutputs

\* Only a held frame that is there lets main pass on without an exception.
LEMMA FinishHeldEarns ==
    ASSUME EarnedInv, VerdictInv, FinishHeld
    PROVE  EarnedInv'
<1>1. /\ pc = "finishHeld" /\ status # "PASSED"
      /\ UNCHANGED <<req, w, failure, identity, boundaries, events>>
      /\ UNCHANGED <<held, timed, gdb, status, result, recorded>>
      /\ xemu = "clean" => xemu' = "clean"
  BY DEF FinishHeld, Main, VerdictInv, verdictVars, readVars, captureVars,
     TerminateProcessTree
<1>2. \/ pc' = "finishTimed" /\ held \in {"off", "ok"} /\ exc' = exc
      \/ pc' = "unlock" /\ exc' # "none"
  BY DEF FinishHeld
<1>3. Begun' = Begun /\ PhotosTaken' = PhotosTaken
  BY <1>1 DEF Begun, PhotosTaken
<1>4. MarkersSeen => MarkersSeen'
  BY <1>1, MarkersStay
<1> QED
  BY <1>1, <1>2, <1>3, <1>4 DEF EarnedInv, AtOutputs

LEMMA MainKeepsEarned ==
    ASSUME EarnedInv, VerdictInv, MainThread \/ Interrupted
    PROVE  EarnedInv'
<1>1. CASE Launch
  BY <1>1, LaunchEarns
<1>2. CASE FinishHeld
  BY <1>2, FinishHeldEarns
<1>3. CASE ~Launch /\ ~FinishHeld
  <2>1. MainReads
    BY <1>3, MainReadsStep
  <2>2. /\ Begun' = Begun /\ PhotosTaken' = PhotosTaken
        /\ SamplesTaken' = SamplesTaken /\ (MarkersSeen => MarkersSeen')
    BY <2>1, ReadingKeeps
  <2>3. /\ failure' = failure /\ xemu' = xemu /\ w' = w
        /\ held' = held /\ timed' = timed
    BY <2>1 DEF MainReads
  <2> USE DEF EarnedInv, AtOutputs, Main
  <2>4. CASE AcquireLock \/ ListProcesses
    BY <2>2, <2>3, <2>4 DEF AcquireLock, ListProcesses
  <2>5. CASE TestReturns \/ FinishWatcher \/ JoinWatcher
    BY <2>2, <2>3, <2>5 DEF TestReturns, FinishWatcher, JoinWatcher
  <2>6. CASE FinishTimed
    BY <2>2, <2>3, <2>6 DEF FinishTimed, PhotosTaken
  <2>7. CASE Unlock
    BY <2>2, <2>3, <2>7 DEF Unlock
  <2>8. CASE CheckGuestFailure
    BY <2>2, <2>3, <2>8 DEF CheckGuestFailure, Judging, Holds, Raises
  <2>9. CASE CheckMarkers
    <3>1. pc = "markers" /\ (pc' = "sampler" => MarkersSeen)
      BY <2>9 DEF CheckMarkers, Judging, Holds, Raises, VerdictInv, AtOutput,
         MarkersSeen
    <3> QED
      BY <2>2, <2>3, <2>9, <3>1 DEF CheckMarkers, Judging, Holds, Raises
  <2>10. CASE FinishSampler
    BY <2>2, <2>3, <2>10 DEF FinishSampler, Judging, Holds, Raises, SamplesTaken
  <2>11. CASE BuildReport \/ CheckRecords \/ CheckOracle
    BY <2>2, <2>3, <2>11 DEF BuildReport, CheckRecords, CheckOracle, Judging,
       Holds, Raises
  <2>12. CASE UpdateLedger
    <3>1. pc = "ledger" /\ failure = None
      BY <2>12 DEF UpdateLedger, Judging, VerdictInv, AtOutput
    <3> QED
      BY <2>2, <2>3, <2>12, <3>1 DEF UpdateLedger, Judging, Holds, Raises
  <2>13. CASE CheckTelemetry
    BY <2>2, <2>3, <2>13 DEF CheckTelemetry, Judging, Holds, Raises
  <2>14. CASE Except
    BY <2>2, <2>3, <2>14 DEF Except, StatusOf, Judging
  <2>15. CASE Finally \/ WriteSummary
    BY <2>2, <2>3, <2>15 DEF Finally, WriteSummary, Judging
  <2>16. CASE Interrupted
    BY <2>2, <2>3, <2>16 DEF Interrupted
  <2> QED
    BY <1>3, <2>4, <2>5, <2>6, <2>7, <2>8, <2>9, <2>10, <2>11, <2>12, <2>13,
       <2>14, <2>15, <2>16 DEF MainThread
<1> QED
  BY <1>1, <1>2, <1>3

LEMMA EarnedStep ==
    ASSUME EarnedInv, VerdictInv, [Next]_vars
    PROVE  EarnedInv'
<1>1. CASE MainThread \/ Interrupted
  BY <1>1, MainKeepsEarned
<1>2. CASE ~(MainThread \/ Interrupted)
  BY <1>2, OthersEarnStep, OthersKeepEarned DEF Next
<1> QED
  BY <1>1, <1>2

-----------------------------------------------------------------------------
(* Texts                                                                   *)

\* Induction over the naturals, for a set: the least that is missing has a
\* predecessor that is not.
LEMMA SetInduction ==
    ASSUME NEW T, 0 \in T, \A n \in Nat : n \in T => n + 1 \in T
    PROVE  Nat \subseteq T
<1> DEFINE U == Nat \ T
           R == OpToRel(<, Nat)
<1> SUFFICES ASSUME U # {} PROVE FALSE
  OBVIOUS
<1>1. IsWellFoundedOn(R, Nat)
  BY NatLessThanWellFounded
<1>2. \A x, y \in Nat : <<x, y>> \in R <=> x < y
  BY DEF OpToRel
<1>3. U \subseteq Nat
  OBVIOUS
<1> HIDE DEF R, U
<1>4. PICK x \in U : \A y \in U : ~(<<y, x>> \in R)
  BY <1>1, <1>3, WFMin
<1>5. x \in Nat /\ x # 0 /\ x \notin T
  BY <1>4 DEF U
<1>6. x - 1 \in Nat /\ x - 1 < x
  BY <1>5
<1>7. x - 1 \in T
  BY <1>2, <1>4, <1>5, <1>6 DEF U
<1> QED BY <1>5, <1>6, <1>7

\* A function that is defined from its value one below exists.
Recurs(g, N, base, step) ==
    \A i \in 0..N : g[i] = IF i = 0 THEN base ELSE step[<<i, g[i - 1]>>]

LEMMA RecursionExists ==
    ASSUME NEW N \in Nat, NEW V, NEW base \in V,
           NEW step \in [(1..N) \X V -> V]
    PROVE  \E g \in [0..N -> V] : Recurs(g, N, base, step)
<1> DEFINE Is(n, g) == \A i \in 0..n :
               g[i] = IF i = 0 THEN base ELSE step[<<i, g[i - 1]>>]
           T == {n \in Nat : n <= N => \E g \in [0..n -> V] : Is(n, g)}
<1>1. 0 \in T
  <2>1. Is(0, [i \in 0..0 |-> base])
    OBVIOUS
  <2>2. [i \in 0..0 |-> base] \in [0..0 -> V]
    OBVIOUS
  <2> QED BY <2>1, <2>2
<1>2. ASSUME NEW n \in Nat, n \in T, n + 1 <= N
      PROVE  \E g \in [0..(n + 1) -> V] : Is(n + 1, g)
  <2>1. PICK g \in [0..n -> V] : Is(n, g)
    BY <1>2
  <2> DEFINE h == [i \in 0..(n + 1) |->
                     IF i = n + 1 THEN step[<<n + 1, g[n]>>] ELSE g[i]]
  <2>2. step[<<n + 1, g[n]>>] \in V
    <3>1. <<n + 1, g[n]>> \in (1..N) \X V
      BY <1>2
    <3> QED BY <3>1
  <2>3. h \in [0..(n + 1) -> V]
    BY <2>2
  <2>4. Is(n + 1, h)
    <3> SUFFICES ASSUME NEW i \in 0..(n + 1)
                 PROVE  h[i] = IF i = 0 THEN base ELSE step[<<i, h[i - 1]>>]
      OBVIOUS
    <3>1. CASE i = n + 1
      <4>1. h[i] = step[<<i, g[n]>>] /\ h[i - 1] = g[n] /\ i # 0
        BY <3>1
      <4> QED BY <3>1, <4>1
    <3>2. CASE i \in 0..n
      <4>1. h[i] = g[i] /\ (i # 0 => h[i - 1] = g[i - 1])
        BY <3>2
      <4> QED BY <2>1, <3>2, <4>1
    <3> QED BY <3>1, <3>2
  <2> HIDE DEF h, Is
  <2> QED BY <2>3, <2>4
<1>3. Nat \subseteq T
  <2> HIDE DEF Is
  <2>1. \A n \in Nat : n \in T => n + 1 \in T
    BY <1>2
  <2> HIDE DEF T
  <2> QED BY <1>1, <2>1, SetInduction
<1>4. PICK g \in [0..N -> V] : Is(N, g)
  <2> HIDE DEF Is
  <2> QED BY <1>3
<1> QED BY <1>4 DEF Recurs

\* Every text has a last line feed, or none.
LEMMA LastEndExists ==
    ASSUME NEW t, NEW N \in Nat
    PROVE  \E s \in 0..N : /\ s = 0 \/ t[s] = NL
                           /\ \A i \in (s + 1)..N : t[i] # NL
<1> DEFINE Last(n, s) == /\ s = 0 \/ t[s] = NL
                         /\ \A i \in (s + 1)..n : t[i] # NL
           T == {n \in Nat : \E s \in 0..n : Last(n, s)}
<1>1. 0 \in T
  <2>1. Last(0, 0) /\ 0 \in 0..0
    OBVIOUS
  <2> QED BY <2>1
<1>2. ASSUME NEW n \in Nat, NEW s \in 0..n, Last(n, s)
      PROVE  n + 1 \in T
  <2>1. CASE t[n + 1] = NL
    <3>1. Last(n + 1, n + 1) /\ n + 1 \in 0..(n + 1)
      BY <2>1
    <3> QED BY <3>1
  <2>2. CASE t[n + 1] # NL
    <3>1. Last(n + 1, s) /\ s \in 0..(n + 1)
      BY <1>2, <2>2
    <3> QED BY <3>1
  <2> QED BY <2>1, <2>2
<1>3. Nat \subseteq T
  <2> HIDE DEF Last
  <2>1. \A n \in Nat : n \in T => n + 1 \in T
    BY <1>2
  <2> HIDE DEF T
  <2> QED BY <1>1, <2>1, SetInduction
<1> HIDE DEF Last
<1>4. \E s \in 0..N : Last(N, s)
  BY <1>3
<1> QED BY <1>4 DEF Last

LEMMA WhatIsUnfinished ==
    ASSUME NEW t \in Seq(Line)
    PROVE  \E s \in 0..Len(t) : /\ IsLastEnd(t, s)
                                /\ Unfinished(t) = SubSeq(t, s + 1, Len(t))
<1>1. \E s \in 0..Len(t) : IsLastEnd(t, s)
  BY LastEndExists, LenProperties DEF IsLastEnd
<1> DEFINE from == CHOOSE s \in 0..Len(t) : IsLastEnd(t, s)
<1>2. from \in 0..Len(t) /\ IsLastEnd(t, from)
  BY <1>1
<1>3. Unfinished(t) = SubSeq(t, from + 1, Len(t))
  BY DEF Unfinished
<1> HIDE DEF from
<1> QED BY <1>2, <1>3

LEMMA SymbolsAreLines ==
    ASSUME NEW t \in Seq(Line), NEW i \in 1..Len(t)
    PROVE  t[i] \in Line /\ LineEndingAt(t, i) \in Line
<1>1. Text \in Line
  BY DEF Text, Line
<1>2. \A j \in 1..Len(t) : t[j] \in Line
  BY ElementOfSeq
<1>3. i > 1 => i - 1 \in 1..Len(t)
  BY LenProperties
<1> QED BY <1>1, <1>2, <1>3 DEF LineEndingAt

\* No line that reports a failure is dropped, wherever the text is cut.
LEMMA CompleteLinesKeepFailures ==
    ASSUME NEW t \in Seq(Line)
    PROVE  /\ CompleteLines(t) \in Seq(Line)
           /\ \A i \in 1..Len(t) : FailsAt(t, i) =>
                 \E k \in 1..Len(CompleteLines(t)) :
                    CompleteLines(t)[k] = LineEndingAt(t, i)
<1> DEFINE N == Len(t)
           V == Seq(Line)
           Kept(i) == t[i] = NL /\ LineEndingAt(t, i) # Text
           body(g) == [i \in 0..N |->
                         IF i = 0 THEN <<>>
                         ELSE IF t[i] = NL /\ LineEndingAt(t, i) # Text
                         THEN Append(g[i - 1], LineEndingAt(t, i))
                         ELSE g[i - 1]]
           upTo == CHOOSE g : g = body(g)
<1>1. N \in Nat /\ <<>> \in V
  BY LenProperties, EmptySeq
<1>2. CompleteLines(t) = upTo[N]
  BY DEF CompleteLines
<1>3. \E g : g \in [0..N -> V] /\ g = body(g)
  <2> DEFINE step == [x \in (1..N) \X V |->
                        IF Kept(x[1]) THEN Append(x[2], LineEndingAt(t, x[1]))
                                      ELSE x[2]]
  <2>1. step \in [(1..N) \X V -> V]
    <3>1. ASSUME NEW x \in (1..N) \X V
          PROVE  (IF Kept(x[1]) THEN Append(x[2], LineEndingAt(t, x[1]))
                                ELSE x[2]) \in V
      <4>1. x[1] \in 1..N /\ x[2] \in V
        BY <3>1
      <4>2. LineEndingAt(t, x[1]) \in Line
        BY <4>1, SymbolsAreLines
      <4>3. Append(x[2], LineEndingAt(t, x[1])) \in V
        BY <4>1, <4>2, AppendProperties
      <4> QED BY <4>1, <4>3
    <3> HIDE DEF Kept, V
    <3> QED BY <3>1
  <2>2. PICK g \in [0..N -> V] : Recurs(g, N, <<>>, step)
    <3> HIDE DEF step, V, N
    <3>1. N \in Nat /\ <<>> \in V
      BY <1>1
    <3> QED BY <2>1, <3>1, RecursionExists
  <2>3. \A i \in 0..N : g[i] =
           IF i = 0 THEN <<>>
           ELSE IF Kept(i) THEN Append(g[i - 1], LineEndingAt(t, i))
           ELSE g[i - 1]
    <3> SUFFICES ASSUME NEW i \in 0..N, i # 0
                 PROVE  step[<<i, g[i - 1]>>] =
                          IF Kept(i) THEN Append(g[i - 1], LineEndingAt(t, i))
                          ELSE g[i - 1]
      BY <2>2 DEF Recurs
    <3>1. <<i, g[i - 1]>> \in (1..N) \X V
      BY <1>1
    <3> HIDE DEF Kept, V
    <3> QED BY <3>1
  <2>4. g = body(g)
    BY <2>2, <2>3
  <2> QED BY <2>4
<1>4. upTo = body(upTo)
  <2> HIDE DEF body
  <2> QED BY <1>3
<1>5. \A i \in 0..N : upTo[i] =
         IF i = 0 THEN <<>>
         ELSE IF Kept(i) THEN Append(upTo[i - 1], LineEndingAt(t, i))
         ELSE upTo[i - 1]
  <2> HIDE DEF upTo
  <2> QED BY <1>4
<1> HIDE DEF upTo
<1> DEFINE Has(q, i) == \E k \in 1..Len(q) : q[k] = LineEndingAt(t, i)
           Good(n) == /\ upTo[n] \in V
                      /\ \A i \in 1..n : FailsAt(t, i) => Has(upTo[n], i)
           T == {n \in Nat : n <= N => Good(n)}
<1>6. 0 \in T
  <2>1. upTo[0] = <<>>
    BY <1>1, <1>5
  <2>2. Good(0)
    BY <1>1, <2>1
  <2> QED BY <2>2
<1>7. ASSUME NEW n \in Nat, n + 1 <= N, Good(n)
      PROVE  Good(n + 1)
  <2> DEFINE q == upTo[n]
             l == LineEndingAt(t, n + 1)
  <2>1. upTo[n + 1] = IF Kept(n + 1) THEN Append(q, l) ELSE q
    BY <1>1, <1>5, <1>7
  <2>2. q \in Seq(Line) /\ l \in Line
    BY <1>1, <1>7, SymbolsAreLines
  <2>3. FailsAt(t, n + 1) => Kept(n + 1)
    BY DEF FailsAt, Text, FAILURE_EVENTS
  <2>4. CASE Kept(n + 1)
    <3>1. /\ Append(q, l) \in V /\ Len(Append(q, l)) = Len(q) + 1
          /\ \A k \in 1..Len(q) : Append(q, l)[k] = q[k]
          /\ Append(q, l)[Len(q) + 1] = l /\ Len(q) \in Nat
      BY <2>2, AppendProperties, LenProperties
    <3>2. upTo[n + 1] = Append(q, l)
      BY <2>1, <2>4
    <3>3. ASSUME NEW i \in 1..n, FailsAt(t, i)
          PROVE  Has(Append(q, l), i)
      <4>1. PICK k \in 1..Len(q) : q[k] = LineEndingAt(t, i)
        BY <1>7, <3>3
      <4>2. k \in 1..Len(Append(q, l)) /\ Append(q, l)[k] = LineEndingAt(t, i)
        BY <3>1, <4>1
      <4> QED BY <4>2
    <3>4. Has(Append(q, l), n + 1)
      <4>1. Len(q) + 1 \in 1..Len(Append(q, l))
        BY <3>1
      <4> QED BY <3>1, <4>1
    <3> HIDE DEF Has, q, l, Kept
    <3> QED BY <3>1, <3>2, <3>3, <3>4
  <2>5. CASE ~Kept(n + 1)
    <3>1. upTo[n + 1] = q
      BY <2>1, <2>5
    <3>2. ~FailsAt(t, n + 1)
      BY <2>3, <2>5
    <3> HIDE DEF Has, Kept
    <3> QED BY <1>7, <3>1, <3>2
  <2> QED BY <2>4, <2>5
<1>8. Nat \subseteq T
  <2> HIDE DEF Good
  <2>1. \A n \in Nat : n \in T => n + 1 \in T
    BY <1>1, <1>7
  <2> HIDE DEF T
  <2> QED BY <1>6, <2>1, SetInduction
<1>9. Good(N)
  <2> HIDE DEF Good
  <2> QED BY <1>1, <1>8
<1> QED BY <1>2, <1>9

\* What follows a line feed reads as it does in the whole text.
LEMMA SubText ==
    ASSUME NEW t \in Seq(Line), NEW s \in 0..Len(t), s = 0 \/ t[s] = NL,
           NEW u, u = SubSeq(t, s + 1, Len(t))
    PROVE  /\ u \in Seq(Line) /\ Len(u) = Len(t) - s
           /\ \A i \in 1..Len(u) : u[i] = t[s + i]
           /\ \A i \in 1..Len(u) : FailsAt(u, i) <=> FailsAt(t, s + i)
<1> DEFINE N == Len(t)
<1>1. N \in Nat /\ s \in 0..N /\ \A i \in (s + 1)..N : t[i] \in Line
  BY LenProperties, ElementOfSeq
<1>2. /\ u \in Seq(Line) /\ Len(u) = N - s
      /\ \A i \in 1..(N - s) : u[i] = t[s + i]
  <2>1. /\ u = SubSeq(t, s + 1, N) /\ s + 1 \in Int /\ N \in Int
    BY <1>1
  <2> HIDE DEF N
  <2>2. /\ u \in Seq(Line) /\ Len(u) = IF s + 1 <= N THEN N - (s + 1) + 1 ELSE 0
        /\ \A i \in 1..(N - (s + 1) + 1) : u[i] = t[s + 1 + i - 1]
    BY <1>1, <2>1, SubSeqProperties
  <2>3. N - (s + 1) + 1 = N - s /\ Len(u) = N - s
    BY <1>1, <2>2
  <2>4. \A i \in 1..(N - s) : s + 1 + i - 1 = s + i
    BY <1>1
  <2> QED BY <2>2, <2>3, <2>4
<1>3. ASSUME NEW i \in 1..Len(u)
      PROVE  LineEndingAt(u, i) = LineEndingAt(t, s + i) /\ u[i] = t[s + i]
  <2>1. i \in Nat /\ i >= 1 /\ i <= N - s /\ u[i] = t[s + i]
    BY <1>1, <1>2
  <2> HIDE DEF N
  <2>2. i > 1 => u[i - 1] = t[s + i - 1]
    <3>1. i > 1 => i - 1 \in 1..(N - s) /\ s + (i - 1) = s + i - 1
      BY <1>1, <2>1
    <3> QED BY <1>2, <3>1
  <2>3. i > 2 => u[i - 2] = t[s + i - 2]
    <3>1. i > 2 => i - 2 \in 1..(N - s) /\ s + (i - 2) = s + i - 2
      BY <1>1, <2>1
    <3> QED BY <1>2, <3>1
  <2>4. CASE i = 1
    <3>1. s # 0 => t[s + i - 1] = NL
      BY <1>1, <2>4
    <3>2. s = 0 => ~(s + i > 1)
      BY <2>4
    <3> QED BY <2>1, <2>4, <3>1, <3>2 DEF LineEndingAt
  <2>5. CASE i = 2
    <3>1. s + i > 1 /\ (s + i = 2 \/ t[s + i - 2] = NL)
      BY <1>1, <2>5
    <3> QED BY <2>1, <2>2, <2>5, <3>1 DEF LineEndingAt
  <2>6. CASE i > 2
    <3>1. s + i > 1 /\ s + i # 2 /\ i > 1 /\ i # 2
      BY <1>1, <2>1, <2>6
    <3> QED BY <2>1, <2>2, <2>3, <2>6, <3>1 DEF LineEndingAt
  <2> QED BY <2>1, <2>4, <2>5, <2>6
<1> QED BY <1>2, <1>3 DEF FailsAt

\* Reading on where one stopped.
LEMMA ReadOn ==
    ASSUME NEW t \in Seq(Line), NEW o \in 0..Len(t), NEW s \in 0..o
    PROVE  SubSeq(t, s + 1, o) \o Drop(t, o) = SubSeq(t, s + 1, Len(t))
<1> DEFINE N == Len(t)
           p == SubSeq(t, s + 1, o)
           q == SubSeq(t, o + 1, N)
           u == SubSeq(t, s + 1, N)
<1>1. N \in Nat /\ o \in 0..N /\ s \in 0..o /\ \A i \in 1..N : t[i] \in Line
  BY LenProperties, ElementOfSeq
<1> HIDE DEF N
<1>2. /\ p \in Seq(Line) /\ Len(p) = o - s
      /\ \A i \in 1..(o - s) : p[i] = t[s + i]
  <2>1. /\ p \in Seq(Line) /\ Len(p) = IF s + 1 <= o THEN o - (s + 1) + 1 ELSE 0
        /\ \A i \in 1..(o - (s + 1) + 1) : p[i] = t[s + 1 + i - 1]
    BY <1>1, SubSeqProperties
  <2> QED BY <1>1, <2>1
<1>3. /\ q \in Seq(Line) /\ Len(q) = N - o
      /\ \A i \in 1..(N - o) : q[i] = t[o + i]
  <2>1. /\ q \in Seq(Line) /\ Len(q) = IF o + 1 <= N THEN N - (o + 1) + 1 ELSE 0
        /\ \A i \in 1..(N - (o + 1) + 1) : q[i] = t[o + 1 + i - 1]
    BY <1>1, SubSeqProperties
  <2> QED BY <1>1, <2>1
<1>4. /\ u \in Seq(Line) /\ Len(u) = N - s
      /\ \A i \in 1..(N - s) : u[i] = t[s + i]
  <2>1. /\ u \in Seq(Line) /\ Len(u) = IF s + 1 <= N THEN N - (s + 1) + 1 ELSE 0
        /\ \A i \in 1..(N - (s + 1) + 1) : u[i] = t[s + 1 + i - 1]
    BY <1>1, SubSeqProperties
  <2> QED BY <1>1, <2>1
<1> HIDE DEF p, q, u
<1>5. /\ p \o q \in Seq(Line) /\ Len(p \o q) = N - s
      /\ \A i \in 1..(N - s) :
            (p \o q)[i] = IF i <= o - s THEN p[i] ELSE q[i - (o - s)]
  <2>1. /\ p \o q \in Seq(Line) /\ Len(p \o q) = Len(p) + Len(q)
        /\ \A i \in 1..(Len(p) + Len(q)) :
              (p \o q)[i] = IF i <= Len(p) THEN p[i] ELSE q[i - Len(p)]
    BY <1>2, <1>3, ConcatProperties
  <2>2. Len(p) + Len(q) = N - s
    BY <1>1, <1>2, <1>3
  <2> QED BY <1>2, <2>1, <2>2
<1>6. \A i \in 1..(N - s) : (p \o q)[i] = u[i]
  <2> SUFFICES ASSUME NEW i \in 1..(N - s) PROVE (p \o q)[i] = u[i]
    OBVIOUS
  <2>1. CASE i <= o - s
    <3>1. i \in 1..(o - s)
      BY <1>1, <2>1
    <3>2. (p \o q)[i] = p[i]
      BY <1>5, <2>1
    <3> QED BY <1>2, <1>4, <3>1, <3>2
  <2>2. CASE i > o - s
    <3>1. i - (o - s) \in 1..(N - o) /\ o + (i - (o - s)) = s + i
      BY <1>1, <2>2
    <3>2. q[i - (o - s)] = t[s + i]
      BY <1>3, <3>1
    <3>3. ~(i <= o - s)
      BY <1>1, <2>2
    <3>4. (p \o q)[i] = q[i - (o - s)]
      BY <1>5, <3>3
    <3> QED BY <1>4, <3>2, <3>4
  <2>3. i <= o - s \/ i > o - s
    <3>1. i \in Int /\ o \in Int /\ s \in Int
      BY <1>1
    <3> QED BY <3>1
  <2> QED BY <2>1, <2>2, <2>3
<1>7. p \o q = u
  BY <1>4, <1>5, <1>6, SeqEqual
<1> QED BY <1>7 DEF p, q, u, N, Drop

\* A text that grows keeps its lines.
LEMMA GrownText ==
    ASSUME NEW t \in Seq(Line), NEW x \in Line, NEW o \in 0..Len(t)
    PROVE  /\ Append(t, x) \in Seq(Line) /\ Len(Append(t, x)) = Len(t) + 1
           /\ \A i \in 1..o : Append(t, x)[i] = t[i]
           /\ \A i \in 1..o : FailsAt(Append(t, x), i) <=> FailsAt(t, i)
           /\ \A s \in 0..o :
                 SubSeq(Append(t, x), s + 1, o) = SubSeq(t, s + 1, o)
<1> DEFINE u == Append(t, x)
<1>1. /\ u \in Seq(Line) /\ Len(u) = Len(t) + 1 /\ Len(t) \in Nat
      /\ \A i \in 1..Len(t) : u[i] = t[i]
  BY AppendProperties, LenProperties
<1> HIDE DEF u
<1>2. \A i \in 1..o : u[i] = t[i]
  BY <1>1
<1>3. ASSUME NEW i \in 1..o
      PROVE  LineEndingAt(u, i) = LineEndingAt(t, i)
  <2>1. i > 1 => i - 1 \in 1..o
    BY <1>1
  <2>2. i > 1 /\ i # 2 => i - 2 \in 1..o
    BY <1>1
  <2> QED BY <1>2, <2>1, <2>2 DEF LineEndingAt
<1>4. ASSUME NEW s \in 0..o
      PROVE  SubSeq(u, s + 1, o) = SubSeq(t, s + 1, o)
  <2> DEFINE p == SubSeq(u, s + 1, o)
             q == SubSeq(t, s + 1, o)
             n == o - (s + 1) + 1
  <2>1. \A i \in (s + 1)..o : u[i] \in Line /\ t[i] \in Line
    BY <1>1, ElementOfSeq
  <2>2. /\ p \in Seq(Line) /\ Len(p) = IF s + 1 <= o THEN n ELSE 0
        /\ \A i \in 1..n : p[i] = u[s + 1 + i - 1]
    BY <1>1, <2>1, SubSeqProperties
  <2>3. /\ q \in Seq(Line) /\ Len(q) = IF s + 1 <= o THEN n ELSE 0
        /\ \A i \in 1..n : q[i] = t[s + 1 + i - 1]
    BY <1>1, <2>1, SubSeqProperties
  <2>4. \A i \in 1..n : s + 1 + i - 1 \in 1..o
    BY <1>1
  <2>5. s + 1 <= o \/ n = 0
    BY <1>1
  <2> HIDE DEF p, q, n
  <2>6. Len(p) = n /\ Len(q) = n
    BY <2>2, <2>3, <2>5
  <2>7. \A i \in 1..Len(p) : p[i] = q[i]
    BY <1>2, <2>2, <2>3, <2>4, <2>6
  <2>8. p = q
    BY <2>2, <2>3, <2>6, <2>7, SeqEqual
  <2> QED BY <2>8 DEF p, q
<1> QED BY <1>1, <1>2, <1>3, <1>4 DEF FailsAt, u

-----------------------------------------------------------------------------
(* The result                                                              *)

\* What a step of another thread may not take from the result.
OthersLeaveResult ==
    /\ UNCHANGED <<pc, exc, status, result, recorded, stop>>
    /\ final' => final \/ stop
    /\ w' = "done" => w = "done" \/ final
    /\ final => final'
    /\ xemu # "alive" => xemu' = xemu

LEMMA OthersLeaveResultStep ==
    ASSUME GuestWrites \/ GuestEnds \/ MarkerFileRecreated \/ Watcher
           \/ Held \/ Timed \/ Sampler \/ XemuTestTimesOut \/ UNCHANGED vars
    PROVE  OthersLeaveResult
<1> USE DEF OthersLeaveResult, mainVars, xemuVars
<1>1. CASE GuestWrites \/ GuestEnds \/ MarkerFileRecreated
  BY <1>1 DEF GuestWrites, GuestEnds, MarkerFileRecreated
<1>2. CASE WatcherSeesStop \/ Poll \/ LastPollDenied \/ AppendEventFails
  BY <1>2 DEF WatcherSeesStop, Poll, LastPollDenied, AppendEventFails, AfterPoll
<1>3. CASE Interpret
  BY <1>3 DEF Interpret, InterpretLine, NextLine, AfterPoll
<1>4. CASE WriteFailure \/ WriteFailureFails \/ KillFailedGuest
  BY <1>4 DEF WriteFailure, WriteFailureFails, KillFailedGuest,
     TerminateProcessTree, NextLine, AfterPoll
<1>5. CASE Held
  BY <1>5 DEF Held, HeldTurn, HeldWakes, HeldCaptures, HeldAwaitsExit,
     HeldFails, TerminateProcessTree
<1>6. CASE Timed \/ Sampler
  BY <1>6 DEF Timed, Sampler
<1>7. CASE XemuTestTimesOut
  BY <1>7 DEF XemuTestTimesOut, Main, TerminateProcessTree
<1>8. CASE UNCHANGED vars
  BY <1>8 DEF vars
<1> QED
  BY <1>1, <1>2, <1>3, <1>4, <1>5, <1>6, <1>7, <1>8 DEF Watcher

\* The result comes when xemu has gone, and main goes nowhere without one.
LEMMA MainKeepsResult ==
    ASSUME ResultInv, VerdictInv, EarnedInv, MainThread \/ Interrupted
    PROVE  ResultInv'
<1> USE DEF ResultInv, Main, Waiting
<1>1. CASE AcquireLock \/ ListProcesses \/ TestReturns
  BY <1>1 DEF AcquireLock, ListProcesses, TestReturns
<1>2. CASE Launch
  BY <1>2 DEF Launch, EarnedInv, VerdictInv
<1>3. CASE FinishWatcher
  BY <1>3 DEF FinishWatcher
<1>4. CASE FinishHeld
  BY <1>4 DEF FinishHeld, TerminateProcessTree
<1>5. CASE JoinWatcher \/ FinishTimed \/ Unlock \/ WriteSummary
  BY <1>5 DEF JoinWatcher, FinishTimed, Unlock, WriteSummary
<1>6. CASE Interrupted
  BY <1>6 DEF Interrupted
<1>7. CASE CheckGuestFailure \/ CheckMarkers \/ FinishSampler \/ BuildReport
           \/ CheckRecords
  BY <1>7 DEF CheckGuestFailure, CheckMarkers, FinishSampler, BuildReport,
     CheckRecords, Judging, Holds, Raises
<1>8. CASE UpdateLedger \/ CheckOracle \/ CheckTelemetry
  BY <1>8 DEF UpdateLedger, CheckOracle, CheckTelemetry, Judging, Holds,
     Raises, EarnedInv, AtOutputs
<1>9. CASE Except
  BY <1>9 DEF Except, StatusOf, Judging
<1>10. CASE Finally
  BY <1>10 DEF Finally, Judging
<1> QED
  BY <1>1, <1>2, <1>3, <1>4, <1>5, <1>6, <1>7, <1>8, <1>9, <1>10
     DEF MainThread

LEMMA ResultStep ==
    ASSUME ResultInv, VerdictInv, EarnedInv, [Next]_vars
    PROVE  ResultInv'
<1>1. CASE MainThread \/ Interrupted
  BY <1>1, MainKeepsResult
<1>2. CASE ~(MainThread \/ Interrupted)
  <2>1. OthersLeaveResult
    BY <1>2, OthersLeaveResultStep DEF Next
  <2> QED
    BY <2>1 DEF OthersLeaveResult, ResultInv
<1> QED
  BY <1>1, <1>2

-----------------------------------------------------------------------------
(* The reading                                                             *)

\* The guest writes on: the file keeps what it had, and xemu is alive.
LEMMA GuestWritesRead ==
    ASSUME ReadInv, ResultInv, GuestWrites
    PROVE  ReadInv'
<1>1. /\ ReadTyping /\ Follows /\ xemu = "alive" /\ script # <<>>
      /\ file' = Append(file, Head(script)) /\ script' = Tail(script)
      /\ inode' = (IF inode = 0 THEN 1 ELSE inode)
      /\ UNCHANGED <<guest, w, final, result, failure, offset, identity,
                     partial, queue, unseen>>
  BY DEF ReadInv, GuestWrites, mainVars, verdictVars, readVars
<1>2. Head(script) \in Line /\ Tail(script) \in Seq(Line)
  BY <1>1, HeadTailProperties DEF ReadTyping
<1>3. /\ file' \in Seq(Line) /\ Len(file') = Len(file) + 1
      /\ Len(file) \in Nat /\ file' # <<>>
  BY <1>1, <1>2, AppendProperties, LenProperties DEF ReadTyping
<1>4. ReadTyping'
  BY <1>1, <1>2, <1>3 DEF ReadTyping
<1>5. Follows'
  <2> SUFFICES ASSUME InStep'
               PROVE  (offset <= Len(file) /\ RestKept /\ NoneLost)'
    BY DEF Follows
  <2>1. InStep
    BY <1>1 DEF InStep, ReadTyping
  <2>2. offset <= Len(file) /\ RestKept /\ NoneLost /\ offset \in 0..Len(file)
    BY <1>1, <1>3, <2>1 DEF Follows, ReadTyping
  <2>3. /\ \A i \in 1..offset : file'[i] = file[i]
        /\ \A i \in 1..offset : FailsAt(file', i) <=> FailsAt(file, i)
        /\ \A s \in 0..offset :
              SubSeq(file', s + 1, offset) = SubSeq(file, s + 1, offset)
    BY <1>1, <1>2, <2>2, GrownText DEF ReadTyping
  <2>4. RestKept'
    <3>1. PICK s \in 0..offset : /\ s = 0 \/ file[s] = NL
                                 /\ \A i \in (s + 1)..offset : file[i] # NL
                                 /\ partial = SubSeq(file, s + 1, offset)
      BY <2>2 DEF RestKept
    <3>2. s = 0 \/ file'[s] = NL
      BY <2>3, <3>1
    <3>3. \A i \in (s + 1)..offset : file'[i] # NL
      <4> SUFFICES ASSUME NEW i \in (s + 1)..offset PROVE file'[i] # NL
        OBVIOUS
      <4>1. i \in 1..offset
        BY <2>2
      <4> QED BY <2>3, <3>1, <4>1
    <3>4. partial' = SubSeq(file', s + 1, offset')
      BY <1>1, <2>3, <3>1
    <3> QED BY <1>1, <3>2, <3>3, <3>4 DEF RestKept
  <2>5. NoneLost'
    BY <1>1, <2>2, <2>3 DEF NoneLost, FailureWaits
  <2> QED BY <1>1, <1>3, <2>2, <2>4, <2>5
<1>6. EndsUpToDate'
  BY <1>1 DEF ResultInv, EndsUpToDate
<1> QED BY <1>4, <1>5, <1>6 DEF ReadInv

\* A file made anew is in step with a watcher that has read nothing yet; one
\* truncated under the offset of the watcher is not.
LEMMA RecreatedRead ==
    ASSUME ReadInv, ResultInv, MarkerFileRecreated
    PROVE  ReadInv'
<1>1. /\ ReadTyping /\ Follows /\ xemu = "alive" /\ file # <<>>
      /\ file' = <<>> /\ script' = Bytes(guest.lines)
      /\ inode' \in {inode, inode + 1}
      /\ unseen' = (IF inode' = inode /\ offset > 0
                    THEN unseen \cup {"truncated"} ELSE unseen)
      /\ UNCHANGED <<guest, w, final, result, failure, offset, identity,
                     partial, queue>>
  BY DEF ReadInv, MarkerFileRecreated, mainVars, verdictVars
<1>2. /\ script' \in Seq(Line) /\ file' \in Seq(Line)
      /\ inode # 0 /\ inode' # 0 /\ inode' \in Nat /\ inode <= inode'
  BY <1>1, BytesAreLines, EmptySeq DEF ReadTyping
<1>3. ReadTyping'
  BY <1>1, <1>2 DEF ReadTyping
<1>4. Follows'
  <2> SUFFICES ASSUME InStep'
               PROVE  (offset <= Len(file) /\ RestKept /\ NoneLost)'
    BY DEF Follows
  <2>1. offset = 0 /\ partial = <<>>
    <3>1. CASE identity = 0
      BY <1>1, <3>1 DEF ReadTyping
    <3>2. CASE identity # 0
      <4>1. identity = inode /\ inode' = inode
        BY <1>1, <1>2, <3>2 DEF InStep, ReadTyping
      <4>2. offset = 0 /\ unseen' = unseen
        <5>1. "truncated" \notin unseen' /\ offset \in Nat
          BY <1>1 DEF InStep, ReadTyping
        <5>2. ~(offset > 0)
          BY <1>1, <4>1, <5>1
        <5> QED BY <1>1, <4>1, <5>1, <5>2
      <4>3. InStep
        BY <1>1, <4>1, <4>2 DEF InStep
      <4>4. PICK s \in 0..offset : partial = SubSeq(file, s + 1, offset)
        BY <1>1, <4>3 DEF Follows, RestKept
      <4>5. SubSeq(file, s + 1, offset) = <<>>
        BY <4>2, SubSeqEmpty
      <4> QED BY <4>2, <4>4, <4>5
    <3> QED BY <3>1, <3>2
  <2>2. SubSeq(file', 0 + 1, 0) = <<>> /\ Len(file') = 0
    BY <1>1, SubSeqEmpty
  <2>3. RestKept'
    BY <1>1, <2>1, <2>2 DEF RestKept
  <2>4. NoneLost'
    BY <1>1, <2>1 DEF NoneLost
  <2> QED BY <1>1, <2>1, <2>2, <2>3, <2>4
<1>5. EndsUpToDate'
  BY <1>1 DEF ResultInv, EndsUpToDate
<1> QED BY <1>3, <1>4, <1>5 DEF ReadInv

\* A text read from a line feed of t on ends as t does.
LEMMA UnfinishedOfRest ==
    ASSUME NEW t \in Seq(Line), NEW s \in 0..Len(t), s = 0 \/ t[s] = NL
    PROVE  \E r \in 0..Len(t) :
              /\ r = 0 \/ t[r] = NL
              /\ \A i \in (r + 1)..Len(t) : t[i] # NL
              /\ Unfinished(SubSeq(t, s + 1, Len(t))) = SubSeq(t, r + 1, Len(t))
<1> DEFINE u == SubSeq(t, s + 1, Len(t))
           N == Len(t)
<1>1. /\ u \in Seq(Line) /\ Len(u) = N - s
      /\ \A i \in 1..Len(u) : u[i] = t[s + i]
  BY SubText
<1>2. N \in Nat /\ s \in 0..N
  BY LenProperties
<1> HIDE DEF u, N
<1>3. PICK n \in 0..Len(u) : /\ IsLastEnd(u, n)
                             /\ Unfinished(u) = SubSeq(u, n + 1, Len(u))
  BY <1>1, WhatIsUnfinished
<1> DEFINE v == SubSeq(u, n + 1, Len(u))
           r == s + n
           x == SubSeq(t, r + 1, N)
<1>4. r \in 0..N /\ n \in Nat /\ n <= N - s
  BY <1>1, <1>2, <1>3
<1>5. n # 0 => u[n] = NL /\ t[r] = NL
  <2>1. n # 0 => n \in 1..Len(u)
    BY <1>1, <1>2, <1>3
  <2> QED BY <1>1, <1>3, <2>1 DEF IsLastEnd
<1>6. r = 0 \/ t[r] = NL
  <2>1. n = 0 => r = s
    BY <1>2
  <2> QED BY <1>4, <1>5, <2>1
<1>7. \A i \in (r + 1)..N : t[i] # NL
  <2> SUFFICES ASSUME NEW i \in (r + 1)..N PROVE t[i] # NL
    OBVIOUS
  <2>1. /\ i - s \in (n + 1)..Len(u) /\ i - s \in 1..Len(u)
        /\ s + (i - s) = i
    BY <1>1, <1>2, <1>4
  <2>2. u[i - s] # NL
    BY <1>3, <2>1 DEF IsLastEnd
  <2> QED BY <1>1, <2>1, <2>2
<1>8. /\ v \in Seq(Line) /\ Len(v) = Len(u) - n
      /\ \A i \in 1..Len(v) : v[i] = u[n + i]
  BY <1>1, <1>3, SubText DEF IsLastEnd
<1>9. /\ x \in Seq(Line) /\ Len(x) = N - r
      /\ \A i \in 1..Len(x) : x[i] = t[r + i]
  BY <1>4, <1>6, SubText DEF N
<1> HIDE DEF v, x
<1>10. Len(v) = Len(x)
  BY <1>1, <1>2, <1>4, <1>8, <1>9
<1>11. \A i \in 1..Len(v) : v[i] = x[i]
  <2> SUFFICES ASSUME NEW i \in 1..Len(v) PROVE v[i] = x[i]
    OBVIOUS
  <2>1. n + i \in 1..Len(u) /\ s + (n + i) = r + i
    BY <1>1, <1>2, <1>4, <1>8
  <2>2. v[i] = t[r + i]
    BY <1>1, <1>8, <2>1
  <2> QED BY <1>9, <1>10, <2>2
<1>12. v = x
  BY <1>8, <1>9, <1>10, <1>11, SeqEqual
<1>13. Unfinished(u) = x
  BY <1>3, <1>12 DEF v
<1> HIDE DEF r
<1> QED BY <1>4, <1>6, <1>7, <1>13 DEF x, u, N

\* A poll reads on from the line feed it had stopped at, or reads a new file
\* from its beginning: either way every failure of the file is before the
\* offset, and a new one is among the lines to interpret.
LEMMA PollRead ==
    ASSUME ReadInv, Poll
    PROVE  ReadInv'
<1> DEFINE anew == identity \notin {0, inode} \/ Len(file) < offset
           text == IF anew THEN file ELSE partial \o Drop(file, offset)
<1>1. /\ ReadTyping /\ Follows /\ w = "poll" /\ queue = <<>>
      /\ w' = (IF queue' # <<>> THEN "interpret" ELSE AfterPoll)
      /\ UNCHANGED <<guest, script, file, inode, final, result, failure>>
  BY DEF ReadInv, ReadTyping, Poll, mainVars, xemuVars, verdictVars
<1>2. Len(file) \in Nat /\ file \in Seq(Line)
  BY <1>1, LenProperties DEF ReadTyping
<1>3. CASE inode = 0
  <2>1. UNCHANGED <<offset, identity, partial, queue, unseen>>
    BY <1>3 DEF Poll, readVars
  <2>2. w' \in {"done", "poll"}
    BY <1>1, <2>1 DEF AfterPoll
  <2>3. ReadTyping'
    BY <1>1, <2>1, <2>2 DEF ReadTyping
  <2>4. Follows'
    BY <1>1, <2>1 DEF Follows, InStep, RestKept, NoneLost, FailureWaits
  <2>5. EndsUpToDate'
    BY <1>1, <1>3, <2>1 DEF EndsUpToDate, AllRead, ReadTyping
  <2> QED BY <2>3, <2>4, <2>5 DEF ReadInv
<1>4. CASE inode # 0
  <2>1. /\ identity' = inode /\ offset' = Len(file)
        /\ partial' = Unfinished(text) /\ queue' = CompleteLines(text)
        /\ unseen' = IF "truncated" \notin unseen THEN unseen
                     ELSE (unseen \ {"truncated"}) \cup
                          (IF anew THEN {} ELSE {"overtaken"})
    BY <1>4 DEF Poll
  <2>2. text \in Seq(Line)
    <3>1. CASE anew
      BY <1>2, <3>1
    <3>2. CASE ~anew
      <4>1. offset \in 0..Len(file)
        BY <1>1, <1>2, <3>2 DEF ReadTyping
      <4>2. \A i \in (offset + 1)..Len(file) : file[i] \in Line
        BY <1>2, <4>1, ElementOfSeq
      <4>3. Drop(file, offset) \in Seq(Line)
        BY <1>2, <4>1, <4>2, SubSeqProperties DEF Drop
      <4>4. partial \o Drop(file, offset) \in Seq(Line)
        BY <1>1, <4>3, ConcatProperties DEF ReadTyping
      <4> QED BY <3>2, <4>4
    <3> QED BY <3>1, <3>2
  <2> HIDE DEF text
  <2>3. CompleteLines(text) \in Seq(Line)
    BY <2>2, CompleteLinesKeepFailures
  <2>4. Unfinished(text) \in Seq(Line)
    <3>1. PICK s \in 0..Len(text) : /\ IsLastEnd(text, s)
             /\ Unfinished(text) = SubSeq(text, s + 1, Len(text))
      BY <2>2, WhatIsUnfinished
    <3>2. s = 0 \/ text[s] = NL
      BY <3>1 DEF IsLastEnd
    <3> QED BY <2>2, <3>1, <3>2, SubText
  <2>5. ReadTyping'
    <3>1. /\ queue' # <<>> => w' = "interpret"
          /\ queue' = <<>> => w' \in {"done", "poll"}
      BY <1>1 DEF AfterPoll
    <3> QED BY <1>1, <1>2, <1>4, <2>1, <2>3, <2>4, <3>1 DEF ReadTyping
  <2>6. EndsUpToDate'
    BY <1>1, <1>4, <2>1 DEF EndsUpToDate, AllRead
  <2>7. ASSUME NEW i \in 1..Len(text), FailsAt(text, i)
        PROVE  FailureWaits'
    <3>1. PICK k \in 1..Len(CompleteLines(text)) :
             CompleteLines(text)[k] = LineEndingAt(text, i)
      BY <2>2, <2>7, CompleteLinesKeepFailures
    <3> QED BY <2>1, <2>7, <3>1 DEF FailureWaits, FailsAt
  <2>8. CASE anew
    <3>1. text = file
      BY <2>8 DEF text
    <3>2. RestKept'
      <4>1. PICK s \in 0..Len(file) : /\ IsLastEnd(file, s)
               /\ Unfinished(file) = SubSeq(file, s + 1, Len(file))
        BY <1>2, WhatIsUnfinished
      <4> QED BY <1>1, <2>1, <3>1, <4>1 DEF RestKept, IsLastEnd
    <3>3. NoneLost'
      BY <1>1, <2>1, <2>7, <3>1 DEF NoneLost
    <3>4. Follows'
      BY <1>1, <1>2, <2>1, <3>2, <3>3 DEF Follows
    <3> QED BY <2>5, <2>6, <3>4 DEF ReadInv
  <2>9. CASE ~anew
    <3> SUFFICES ASSUME InStep' PROVE (RestKept /\ NoneLost)'
      BY <1>1, <1>2, <2>1, <2>5, <2>6 DEF Follows, ReadInv
    <3>1. InStep /\ offset \in 0..Len(file)
      BY <1>1, <1>2, <2>1, <2>9 DEF InStep, ReadTyping
    <3>2. RestKept /\ NoneLost
      BY <1>1, <3>1 DEF Follows
    <3>3. PICK s \in 0..offset : /\ s = 0 \/ file[s] = NL
                                 /\ partial = SubSeq(file, s + 1, offset)
      BY <3>2 DEF RestKept
    <3>4. text = SubSeq(file, s + 1, Len(file))
      BY <1>2, <2>9, <3>1, <3>3, ReadOn DEF text
    <3>5. s \in 0..Len(file)
      BY <1>2, <3>1
    <3>6. RestKept'
      <4>1. PICK r \in 0..Len(file) :
               /\ r = 0 \/ file[r] = NL
               /\ \A i \in (r + 1)..Len(file) : file[i] # NL
               /\ Unfinished(text) = SubSeq(file, r + 1, Len(file))
        BY <1>2, <3>3, <3>4, <3>5, UnfinishedOfRest
      <4> QED BY <1>1, <2>1, <4>1 DEF RestKept
    <3>7. NoneLost'
      <4> SUFFICES ASSUME failure = None, NEW i \in 1..Len(file),
                          FailsAt(file, i)
                   PROVE  FailureWaits'
        BY <1>1, <2>1 DEF NoneLost
      <4>1. ~FailureWaits
        BY <1>1 DEF FailureWaits
      <4>2. i \notin 1..offset
        BY <3>2, <4>1 DEF NoneLost
      <4>3. i - s \in 1..(Len(file) - s) /\ s + (i - s) = i
        BY <1>2, <3>1, <4>2
      <4>4. /\ Len(text) = Len(file) - s
            /\ \A j \in 1..Len(text) :
                  FailsAt(text, j) <=> FailsAt(file, s + j)
        BY <1>2, <3>3, <3>4, <3>5, SubText
      <4>5. i - s \in 1..Len(text) /\ FailsAt(text, i - s)
        BY <4>3, <4>4
      <4> QED BY <2>7, <4>5
    <3> QED BY <3>6, <3>7
  <2> QED BY <2>8, <2>9
<1> QED BY <1>3, <1>4

\* A line that is taken from the queue was no failure, or one is in memory.
LEMMA TakenRead ==
    ASSUME ReadInv, queue # <<>>, queue' = Tail(queue),
           w \in {"interpret", "killing"}, w' = NextLine,
           failure # None \/ Head(queue).kind \notin FAILURE_EVENTS,
           UNCHANGED <<guest, script, file, inode, final, result, failure,
                       offset, identity, partial, unseen>>
    PROVE  ReadInv'
<1>1. /\ queue' \in Seq(Line) /\ Len(queue') = Len(queue) - 1
      /\ \A i \in 1..Len(queue') : queue'[i] = queue[i + 1]
      /\ Head(queue) = queue[1] /\ Len(queue) \in Nat
  BY HeadTailProperties, LenProperties DEF ReadInv, ReadTyping
<1>2. /\ queue' # <<>> => w' = "interpret"
      /\ queue' = <<>> => w' \in {"done", "poll"}
  BY DEF NextLine, AfterPoll
<1>3. ReadTyping'
  BY <1>1, <1>2 DEF ReadInv, ReadTyping
<1>4. failure = None /\ FailureWaits => FailureWaits'
  <2> SUFFICES ASSUME failure = None, FailureWaits PROVE FailureWaits'
    OBVIOUS
  <2>1. PICK k \in 1..Len(queue) : queue[k].kind \in FAILURE_EVENTS
    BY DEF FailureWaits
  <2>2. k - 1 \in 1..Len(queue') /\ (k - 1) + 1 = k
    BY <1>1, <2>1
  <2> QED BY <1>1, <2>1, <2>2 DEF FailureWaits
<1>5. Follows'
  BY <1>4 DEF ReadInv, Follows, InStep, RestKept, NoneLost
<1>6. EndsUpToDate'
  BY DEF ReadInv, EndsUpToDate, AllRead
<1> QED BY <1>3, <1>5, <1>6 DEF ReadInv

LEMMA InterpretRead ==
    ASSUME ReadInv, Interpret
    PROVE  ReadInv'
<1> DEFINE first == IsFailure /\ failure = None
           line == Head(queue)
<1>1. /\ w = "interpret" /\ queue # <<>>
      /\ failure' = IF first THEN line ELSE failure
      /\ w' = IF first THEN "failing" ELSE NextLine
      /\ queue' = IF first THEN queue ELSE Tail(queue)
      /\ UNCHANGED <<guest, script, file, inode, final, result, offset,
                     identity, partial, unseen>>
  BY DEF Interpret, InterpretLine, mainVars, xemuVars, ReadInv, ReadTyping
<1>2. CASE first
  <2>1. failure' # None
    BY <1>1, <1>2 DEF IsFailure, FAILURE_EVENTS, None
  <2> HIDE DEF first
  <2>2. ReadTyping'
    BY <1>1, <1>2 DEF ReadInv, ReadTyping
  <2>3. Follows'
    BY <1>1, <1>2, <2>1 DEF ReadInv, Follows, InStep, RestKept, NoneLost
  <2>4. EndsUpToDate'
    BY <1>1, <1>2 DEF ReadInv, EndsUpToDate, AllRead
  <2> QED BY <2>2, <2>3, <2>4 DEF ReadInv
<1>3. CASE ~first
  <2>1. failure # None \/ Head(queue).kind \notin FAILURE_EVENTS
    BY <1>3 DEF IsFailure
  <2> HIDE DEF first
  <2> QED BY <1>1, <1>3, <2>1, TakenRead
<1> QED BY <1>2, <1>3

LEMMA KillRead ==
    ASSUME ReadInv, EvidenceInv, KillFailedGuest
    PROVE  ReadInv'
<1>1. /\ w = "killing" /\ failure # None /\ queue # <<>>
      /\ queue' = Tail(queue) /\ w' = NextLine
      /\ UNCHANGED <<guest, script, file, inode, final, result, failure,
                     offset, identity, partial, unseen>>
  BY DEF KillFailedGuest, mainVars, verdictVars, EvidenceInv, ReadInv,
     ReadTyping
<1> QED BY <1>1, TakenRead

\* Every other step leaves the file and what was read of it alone; the result
\* comes before the last poll.
ReadingKept ==
    /\ UNCHANGED <<guest, script, file, inode, failure, offset, identity,
                   partial, queue>>
    /\ \/ w' = w
       \/ w = "off" /\ w' = "poll"
       \/ w = "failing" /\ w' = "killing"
       \/ w' = "dead"
       \/ w = "poll" /\ w' = "done" /\ unseen' = unseen \cup {"denied"}
    /\ \/ unseen' = unseen
       \/ unseen' = unseen \cup {"denied"}
    /\ final' = final \/ w' = "poll"
    /\ result' = result \/ ~final'

LEMMA KeepingReading ==
    ASSUME ReadInv, ReadingKept
    PROVE  ReadInv'
<1>1. ReadTyping'
  BY DEF ReadInv, ReadTyping, ReadingKept
<1>2. Follows'
  BY DEF ReadInv, Follows, InStep, RestKept, NoneLost, FailureWaits,
     ReadingKept
<1>3. EndsUpToDate'
  BY DEF ReadInv, EndsUpToDate, AllRead, ReadingKept
<1> QED BY <1>1, <1>2, <1>3 DEF ReadInv

LEMMA OthersKeepReading ==
    ASSUME [Next]_vars, ResultInv, VerdictInv, ~GuestWrites,
           ~MarkerFileRecreated, ~Poll, ~Interpret, ~KillFailedGuest
    PROVE  ReadingKept
<1> USE DEF ReadingKept, mainVars, verdictVars, xemuVars, readVars,
            captureVars, Main, Waiting
<1>1. CASE GuestEnds
  BY <1>1 DEF GuestEnds
<1>2. CASE WatcherSeesStop \/ LastPollDenied \/ AppendEventFails
           \/ WriteFailure \/ WriteFailureFails
  BY <1>2 DEF WatcherSeesStop, LastPollDenied, AppendEventFails,
     WriteFailure, WriteFailureFails
<1>3. CASE Held
  BY <1>3 DEF Held, HeldTurn, HeldWakes, HeldCaptures, HeldAwaitsExit,
     HeldFails
<1>4. CASE Timed \/ Sampler \/ XemuTestTimesOut
  BY <1>4 DEF Timed, Sampler, XemuTestTimesOut
<1>5. CASE Launch \/ TestReturns
  BY <1>5 DEF Launch, TestReturns, ResultInv, VerdictInv
<1>6. CASE AcquireLock \/ ListProcesses \/ FinishWatcher \/ JoinWatcher
           \/ FinishHeld \/ FinishTimed \/ Unlock \/ WriteSummary
           \/ Interrupted
  BY <1>6 DEF AcquireLock, ListProcesses, FinishWatcher, JoinWatcher,
     FinishHeld, FinishTimed, Unlock, WriteSummary, Interrupted
<1>7. CASE CheckGuestFailure \/ CheckMarkers \/ FinishSampler \/ BuildReport
           \/ CheckRecords \/ UpdateLedger \/ CheckOracle \/ CheckTelemetry
           \/ Except \/ Finally
  BY <1>7 DEF CheckGuestFailure, CheckMarkers, FinishSampler, BuildReport,
     CheckRecords, UpdateLedger, CheckOracle, CheckTelemetry, Except,
     Finally, Judging
<1>8. CASE UNCHANGED vars
  BY <1>8 DEF vars
<1> QED
  BY <1>1, <1>2, <1>3, <1>4, <1>5, <1>6, <1>7, <1>8
     DEF Next, Watcher, MainThread

LEMMA ReadStep ==
    ASSUME IInv, [Next]_vars
    PROVE  ReadInv'
<1> USE DEF IInv
<1>1. CASE GuestWrites
  BY <1>1, GuestWritesRead
<1>2. CASE MarkerFileRecreated
  BY <1>2, RecreatedRead
<1>3. CASE Poll
  BY <1>3, PollRead
<1>4. CASE Interpret
  BY <1>4, InterpretRead
<1>5. CASE KillFailedGuest
  BY <1>5, KillRead
<1>6. CASE ~GuestWrites /\ ~MarkerFileRecreated /\ ~Poll /\ ~Interpret
           /\ ~KillFailedGuest
  BY <1>6, OthersKeepReading, KeepingReading
<1> QED
  BY <1>1, <1>2, <1>3, <1>4, <1>5, <1>6

\* A watcher that ended after its last poll has read the whole file.
LEMMA NothingMissed ==
    ASSUME IInv, result # "none", failure = None, Watched
    PROVE  ~HasFailure(file)
<1>1. /\ w = "done" /\ final /\ queue = <<>> /\ "denied" \notin unseen
      /\ "overtaken" \notin unseen
  BY DEF Watched, IInv, ResultInv, ReadInv, ReadTyping
<1>2. AllRead
  BY <1>1 DEF IInv, ReadInv, EndsUpToDate
<1>3. CASE inode = 0
  BY <1>2, <1>3 DEF AllRead, HasFailure
<1>4. CASE inode # 0
  <2>1. InStep /\ offset = Len(file)
    BY <1>1, <1>2, <1>4 DEF AllRead, InStep
  <2>2. \A i \in 1..Len(file) : ~FailsAt(file, i)
    BY <1>1, <2>1 DEF IInv, ReadInv, Follows, NoneLost, FailureWaits
  <2> QED BY <2>2 DEF HasFailure
<1> QED BY <1>3, <1>4

-----------------------------------------------------------------------------
(* The evidence, the verdict and what it rests on, in every run.           *)
THEOREM RunnerInductive == Spec => [](IInv /\ LogIsSequence)
<1>1. Init => IInv /\ LogIsSequence
  BY InitHolds
<1>2. IInv /\ LogIsSequence /\ [Next]_vars => IInv' /\ LogIsSequence'
  BY EvidenceStep, VerdictStep, EarnedStep, ResultStep, ReadStep,
     LogStaysASequence DEF IInv
<1> QED
  BY <1>1, <1>2, PTL DEF Spec

(* A guest is killed for its failure only after the failure, the first one *)
(* of the log, is on the disk.                                             *)
THEOREM KillsAfterEvidence == Spec => []EvidenceBeforeKill
<1>1. IInv => EvidenceBeforeKill
  BY DEF IInv, EvidenceInv, EvidenceBeforeKill
<1> QED
  BY <1>1, RunnerInductive, PTL

(* No later failure replaces the first one, in memory or on the disk.      *)
THEOREM KeepsFirstFailure == Spec => FirstFailureKept
<1> DEFINE Kept == /\ failure # None => failure' = failure
                   /\ failureFile # None => failureFile' = failureFile
                   /\ failureFile' \in {None, failure'}
<1>1. IInv /\ LogIsSequence /\ [Next]_vars => [Kept]_vars
  <2> SUFFICES ASSUME IInv, LogIsSequence, [Next]_vars PROVE Kept
    OBVIOUS
  <2>1. EvidenceInv /\ EvidenceInv'
    BY EvidenceStep DEF IInv
  <2>2. CASE Interpret
    BY <2>1, <2>2 DEF Interpret, InterpretLine, EvidenceInv
  <2>3. CASE WriteFailure
    BY <2>1, <2>3 DEF WriteFailure, EvidenceInv
  <2>4. CASE KillFailedGuest
    BY <2>1, <2>4 DEF KillFailedGuest, verdictVars, EvidenceInv
  <2>5. CASE ~Interpret /\ ~WriteFailure /\ ~KillFailedGuest
    BY <2>1, <2>5, OthersKeepEvidence DEF EvidenceKept, EvidenceInv
  <2> QED
    BY <2>2, <2>3, <2>4, <2>5
<1> QED
  BY <1>1, RunnerInductive, PTL DEF Spec, FirstFailureKept

(* A run whose failure reached the disk never ends PASSED, FAILED or as a  *)
(* mismatch.                                                               *)
THEOREM ReportsFailureOnDisk == Spec => []FailureOnDiskIsReported
<1>1. IInv => FailureOnDiskIsReported
  BY DEF IInv, EvidenceInv, VerdictInv, Statuses, FailureOnDiskIsReported
<1> QED
  BY <1>1, RunnerInductive, PTL

(* PASSED is earned: xemu ended by itself with exit code 0, every capture   *)
(* and the sampler succeeded, the markers are complete or waived, and a     *)
(* file that was watched to its end holds no failure, whatever the guest    *)
(* wrote, wherever the polls cut its bytes, however often the file was made *)
(* anew and whatever failed.                                                *)
THEOREM EarnsPassed == Spec => []PassedIsEarned
<1>1. IInv => PassedIsEarned
  <2> SUFFICES ASSUME IInv PROVE PassedIsEarned
    OBVIOUS
  <2>1. PassedHasItsEvidence
    BY DEF IInv, EarnedInv, Begun, PhotosTaken, SamplesTaken, MarkersSeen,
       PassedHasItsEvidence
  <2>2. status = "PASSED" => result # "none" /\ failure = None
    BY DEF IInv, ResultInv, VerdictInv
  <2> QED
    BY <2>1, <2>2, NothingMissed DEF PassedIsEarned
<1> QED
  BY <1>1, RunnerInductive, PTL

(* The ledger learns hashes only after the failure, the captures and the    *)
(* markers were looked at, and never those of a guest whose file, watched   *)
(* to its end, holds a failure.                                             *)
THEOREM KeepsLedgerClean == Spec => []LedgerIsClean
<1>1. IInv => LedgerIsClean
  <2> SUFFICES ASSUME IInv PROVE LedgerIsClean
    OBVIOUS
  <2>1. LedgerHasItsEvidence
    BY DEF IInv, EarnedInv, PhotosTaken, MarkersSeen, LedgerHasItsEvidence
  <2>2. recorded => result # "none" /\ failure = None
    BY DEF IInv, ResultInv, EarnedInv
  <2> QED
    BY <2>1, <2>2, NothingMissed DEF LedgerIsClean
<1> QED
  BY <1>1, RunnerInductive, PTL
=============================================================================
