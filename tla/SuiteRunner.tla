---------------------------- MODULE SuiteRunner ----------------------------
(***************************************************************************)
(* One run of the host suite runner, run-suite-pr76.py, from the xemu lock *)
(* to its exit code.  Up to five threads share one xemu process and one    *)
(* append-only marker file the guest writes through xemu:                  *)
(*                                                                         *)
(*   main                  main(): lock, launch, wait, collect, judge      *)
(*   GuestEventWatcher     tails the marker file, stops failed guests      *)
(*   HeldFrameCapture      photographs the final frame after PASS          *)
(*   TimedFrameCapture     photographs checkpoints while xemu runs         *)
(*   HostGDBSampler        samples host stacks between F0 and F1           *)
(*                                                                         *)
(* What the checks of the judging phase compute is not modelled here       *)
(* (RunEvidence): each may hold or raise one of its exceptions.  Time is   *)
(* not modelled: a timeout may fire at any moment of the wait it bounds.   *)
(***************************************************************************)
EXTENDS Naturals, Sequences

CONSTANTS
    Runs,        \* what may run: an accepted command line, and the guest
                 \* that boots: what it writes to the marker file, how it ends
    MaxFaults    \* bound: failing disk operations, lost polls, interrupts,
                 \* late joins and recreated marker files, all together

(* A line of the marker file.  A line and its line feed reach the file     *)
(* separately, and NL is that line feed.                                   *)
Line == [kind : {"F0", "F1", "CONTEXT", "PASS", "FAIL", "PROTOCOL_ERROR",
                 "TEXT", "NL"}, seq : Nat]
NL == [kind |-> "NL", seq |-> 0]
Text == [kind |-> "TEXT", seq |-> 0]

BOUNDARIES == {"F0", "F1"}
FAILURE_EVENTS == {"FAIL", "PROTOCOL_ERROR"}
TERMINAL_EVENTS == {"PASS", "FAIL"}
WORKLOAD_PROTOCOL_EVENTS == {"CONTEXT", "PASS", "FAIL"}
Events == WORKLOAD_PROTOCOL_EVENTS \cup FAILURE_EVENTS

Request == [live : BOOLEAN,      \* --guest-evidence-mode live-markers
            waiver : BOOLEAN,    \* --allow-missing-live-markers
            held : BOOLEAN,      \* --hold-final-frame-on-completion
            shots : Nat,         \* number of --capture-second
            gdb : Nat,           \* --host-gdb-samples
            vulkan : BOOLEAN,    \* --vulkan-validation
            ledger : BOOLEAN]    \* not --no-oracle-ledger

Guest == [lines : Seq(Line), ends : {"exit", "hang", "crash"}]

ASSUME RunnerAssumption ==
    /\ Runs \subseteq [req : Request, guest : Guest]
    /\ MaxFaults \in Nat

None == [kind |-> "none", seq |-> 0]

VARIABLES
    (* main() *)
    req, pc,
    exc,         \* class of the exception in flight or caught; "none"
    result,      \* test.run(): "none", "PASSED", "FAILED" or "raised"
    status,      \* what write_summary will say
    summary,     \* it has been written
    recorded,    \* the determinism ledger holds this run's hashes
    (* xemu and the marker file *)
    guest,       \* the guest that boots
    script,      \* the lines it has still to write
    xemu, file,
    inode,       \* st_ino of the file
    killer,      \* observation: who terminated xemu
    (* GuestEventWatcher *)
    w, stop, final, offset, identity, partial,
    queue,       \* complete lines of the last chunk not interpreted yet
    events,      \* event_records, and the durable guest-events.jsonl
    boundaries,  \* boundary_sequence
    terminal,    \* terminal_event_type; "none" while terminal_event is clear
    failure,     \* self.failure["event"]
    failureFile, \* the event of guest-failure.json
    (* the capture and sampling threads *)
    held, timed, shots, gdb, samples,
    faults,      \* faults left
    unseen       \* observation: why lines may have escaped the watcher

mainVars == <<req, pc, exc, result, status, summary, recorded>>
xemuVars == <<guest, script, xemu, file, inode, killer>>
verdictVars == <<events, boundaries, terminal, failure, failureFile>>
readVars == <<offset, identity, partial, queue, unseen>>
captureVars == <<held, timed, shots, gdb, samples>>
vars == <<mainVars, xemuVars, w, stop, final, verdictVars, readVars,
          captureVars, faults>>

Statuses == {"INFRASTRUCTURE_FAILED", "GUEST_VALIDATION_FAILED",
             "FUNCTIONAL_MISMATCH", "FAILED", "PASSED"}

TypeOK ==
    /\ [req |-> req, guest |-> guest] \in Runs
    /\ pc \in {"lock", "listing", "launch", "running", "finishWatcher",
               "joinWatcher", "finishHeld", "finishTimed", "unlock",
               "failure", "markers", "sampler", "report", "count",
               "ledger", "oracle", "telemetry", "except", "finally",
               "summary", "exited"}
    /\ exc \in {"none", "guest", "marker", "mismatch", "count", "other",
                "interrupt"}
    /\ result \in {"none", "PASSED", "FAILED", "raised"}
    /\ status \in Statuses
    /\ summary \in BOOLEAN /\ recorded \in BOOLEAN
    /\ script \in Seq(Line) /\ file \in Seq(Line) /\ inode \in Nat
    /\ xemu \in {"off", "alive", "clean", "crashed", "killed"}
    /\ killer \in {"nobody", "watcher", "held", "main", "xemutest"}
    /\ w \in {"off", "poll", "interpret", "failing", "killing", "done", "dead"}
    /\ stop \in BOOLEAN /\ final \in BOOLEAN
    /\ offset \in Nat /\ identity \in Nat
    /\ partial \in Seq(Line) /\ queue \in Seq(Line)
    /\ events \in Seq(Line) /\ boundaries \in Seq(Line)
    /\ terminal \in TERMINAL_EVENTS \cup {"none"}
    /\ failure \in Line \cup {None} /\ failureFile \in Line \cup {None}
    /\ held \in {"off", "wait", "capture", "exit", "fail", "ok", "error", "quiet"}
    /\ timed \in {"off", "run", "ok", "error"}
    /\ gdb \in {"off", "wait", "sample", "ok", "error"}
    /\ shots \in Nat /\ samples \in Nat
    /\ faults \in Nat /\ unseen \subseteq {"denied", "truncated", "overtaken"}

-----------------------------------------------------------------------------
(* The text between line feeds.  Two texts with no line feed between them  *)
(* are one garbled line.                                                   *)
LineEndingAt(t, i) ==
    IF i > 1 /\ t[i - 1] # NL /\ (i = 2 \/ t[i - 2] = NL) THEN t[i - 1]
                                                           ELSE Text

\* The lines of t that say something, in their order.
CompleteLines(t) ==
    LET upTo[i \in 0..Len(t)] ==
            IF i = 0 THEN <<>>
            ELSE IF t[i] = NL /\ LineEndingAt(t, i) # Text
            THEN Append(upTo[i - 1], LineEndingAt(t, i))
            ELSE upTo[i - 1]
    IN  upTo[Len(t)]

\* What follows the last line feed.
IsLastEnd(t, s) == /\ s = 0 \/ t[s] = NL
                   /\ \A i \in (s + 1)..Len(t) : t[i] # NL

Unfinished(t) == LET from == CHOOSE s \in 0..Len(t) : IsLastEnd(t, s)
                 IN  SubSeq(t, from + 1, Len(t))

FailsAt(t, i) == t[i] = NL /\ LineEndingAt(t, i).kind \in FAILURE_EVENTS

HasFailure(t) == \E i \in 1..Len(t) : FailsAt(t, i)

Drop(s, n) == SubSeq(s, n + 1, Len(s))

-----------------------------------------------------------------------------
ProtocolEvents(es) ==
    SelectSeq(es, LAMBDA e : e.kind \in WORKLOAD_PROTOCOL_EVENTS)

(* validate_live_marker_evidence: the boundaries alternate from F0 to F1,  *)
(* the sequence numbers rise, and a workload that spoke ended with a       *)
(* verdict.                                                                *)
MarkersValid ==
    LET protocol == ProtocolEvents(events)
    IN  /\ identity # 0
        /\ boundaries # <<>> /\ Len(boundaries) % 2 = 0
        /\ \A i \in 1..Len(boundaries) :
              boundaries[i].kind = IF i % 2 = 1 THEN "F0" ELSE "F1"
        /\ \A i \in 1..Len(events) : \A j \in 1..(i - 1) :
              events[j].seq < events[i].seq
        /\ protocol # <<>> =>
              protocol[Len(protocol)].kind \in TERMINAL_EVENTS

MarkersAccepted == MarkersValid \/ req.waiver

Bytes(lines) == [i \in 1..2 * Len(lines) |->
                    IF i % 2 = 1 THEN lines[(i + 1) \div 2] ELSE NL]

Init ==
    /\ \E run \in Runs : req = run.req /\ guest = run.guest
    /\ pc = "lock" /\ exc = "none" /\ result = "none"
    /\ status = "INFRASTRUCTURE_FAILED" /\ summary = FALSE /\ recorded = FALSE
    /\ script = Bytes(guest.lines)
    /\ xemu = "off" /\ file = <<>> /\ inode = 0 /\ killer = "nobody"
    /\ w = "off" /\ stop = FALSE /\ final = FALSE
    /\ offset = 0 /\ identity = 0 /\ partial = <<>> /\ queue = <<>>
    /\ events = <<>> /\ boundaries = <<>> /\ terminal = "none"
    /\ failure = None /\ failureFile = None
    /\ held = "off" /\ timed = "off" /\ gdb = "off"
    /\ shots = 0 /\ samples = 0
    /\ faults = MaxFaults /\ unseen = {}

Fault == faults > 0 /\ faults' = faults - 1
NoFault == UNCHANGED faults
ThreadsRun == pc # "exited"    \* daemon threads end with the process

TerminateProcessTree(who) ==
    IF xemu = "alive" THEN xemu' = "killed" /\ killer' = who
                      ELSE UNCHANGED <<xemu, killer>>

-----------------------------------------------------------------------------
(* xemu and its guest (external: only what the runner can observe).        *)
GuestWrites ==
    /\ xemu = "alive" /\ script # <<>>
    /\ file' = Append(file, Head(script)) /\ script' = Tail(script)
    /\ inode' = IF inode = 0 THEN 1 ELSE inode
    /\ UNCHANGED <<mainVars, guest, xemu, killer, w, stop, final,
                   verdictVars, readVars, captureVars, faults>>

\* A guest that failed waits forever; a crash may cut a line short.
GuestEnds ==
    /\ xemu = "alive"
    /\ \/ guest.ends = "exit" /\ script = <<>> /\ xemu' = "clean"
       \/ guest.ends = "crash" /\ xemu' = "crashed"
    /\ UNCHANGED <<mainVars, guest, script, file, inode, killer, w, stop,
                   final, verdictVars, readVars, captureVars, faults>>

\* The receiver creates the file anew, or truncates it where it stands.
MarkerFileRecreated ==
    /\ xemu = "alive" /\ file # <<>> /\ Fault
    /\ file' = <<>> /\ script' = Bytes(guest.lines)
    /\ inode' \in {inode, inode + 1}
    /\ unseen' = IF inode' = inode /\ offset > 0
                 THEN unseen \cup {"truncated"} ELSE unseen
    /\ UNCHANGED <<mainVars, guest, xemu, killer, w, stop, final,
                   verdictVars, offset, identity, partial, queue, captureVars>>

-----------------------------------------------------------------------------
(* GuestEventWatcher                                                       *)
AfterPoll == IF final THEN "done" ELSE "poll"

\* (Bug: the loop ends without a last poll.)
WatcherStopsAtOnce ==
    /\ ThreadsRun /\ w = "poll" /\ stop /\ ~final
    /\ w' = "done"
    /\ UNCHANGED <<mainVars, xemuVars, stop, final, verdictVars, readVars,
                   captureVars, faults>>

\* _run: the poll after the stop flag was seen is the last one.
WatcherSeesStop ==
    /\ ThreadsRun /\ w = "poll" /\ stop /\ ~final
    /\ final' = TRUE
    /\ UNCHANGED <<mainVars, xemuVars, w, stop, verdictVars, readVars,
                   captureVars, faults>>

\* poll_once up to the interpretation of the lines: all of the chunk is
\* consumed at once, and what follows its last line feed is kept.
Poll ==
    LET anew == identity \notin {0, inode} \/ Len(file) < offset
        text == IF anew THEN file ELSE partial \o Drop(file, offset)
    IN
    /\ ThreadsRun /\ w = "poll" /\ (final \/ ~stop)
    /\ IF inode = 0 THEN UNCHANGED readVars
       ELSE /\ identity' = inode /\ offset' = Len(file)
            /\ partial' = Unfinished(text)
            /\ queue' = CompleteLines(text)
            /\ unseen' = IF "truncated" \notin unseen THEN unseen
                         ELSE (unseen \ {"truncated"}) \cup
                              (IF anew THEN {} ELSE {"overtaken"})
    /\ w' = IF queue' # <<>> THEN "interpret" ELSE AfterPoll
    /\ UNCHANGED <<mainVars, xemuVars, stop, final, verdictVars,
                   captureVars, faults>>

\* The OSError of a sharing or deletion race: nothing is read this time.
\* Only a last poll makes a difference.
LastPollDenied ==
    /\ ThreadsRun /\ w = "poll" /\ final /\ Fault
    /\ w' = "done" /\ unseen' = unseen \cup {"denied"}
    /\ UNCHANGED <<mainVars, xemuVars, stop, final, verdictVars, offset,
                   identity, partial, queue, captureVars>>

NextLine == IF Tail(queue) # <<>> THEN "interpret" ELSE AfterPoll

\* The rest of poll_once, one line at a time, with _record_event and the
\* beginning of _fail: "toFail" says whether this line is a failure to report,
\* and "next" where the thread goes with it.
InterpretLine(toFail, next) ==
    LET line == Head(queue) IN
    /\ ThreadsRun /\ w = "interpret"
    /\ boundaries' = IF line.kind \in BOUNDARIES THEN Append(boundaries, line)
                     ELSE boundaries
    /\ events' = IF line.kind \in Events THEN Append(events, line) ELSE events
    /\ terminal' = IF line.kind \in TERMINAL_EVENTS THEN line.kind ELSE terminal
    /\ failure' = IF toFail THEN line ELSE failure
    /\ w' = IF toFail THEN next ELSE NextLine
    /\ queue' = IF toFail THEN queue ELSE Tail(queue)
    /\ UNCHANGED <<mainVars, xemuVars, stop, final, failureFile, offset,
                   identity, partial, unseen, captureVars, faults>>

IsFailure == Head(queue).kind \in FAILURE_EVENTS

\* (Bug: xemu is terminated before the evidence is written.)
InterpretAndKill == InterpretLine(IsFailure /\ failure = None, "killing")

\* (Bug: every failure is reported, not only the first.)
InterpretEveryFailure == InterpretLine(IsFailure, "failing")

Interpret == InterpretLine(IsFailure /\ failure = None, "failing")

\* guest-events.jsonl cannot be appended to: the thread dies of it.
AppendEventFails ==
    /\ ThreadsRun /\ w = "interpret" /\ Head(queue).kind \in Events /\ Fault
    /\ w' = "dead"
    /\ UNCHANGED <<mainVars, xemuVars, stop, final, verdictVars, readVars,
                   captureVars>>

\* _fail: the evidence is written aside, synced and renamed into place ...
WriteFailure ==
    /\ ThreadsRun /\ w = "failing"
    /\ failureFile' = failure /\ w' = "killing"
    /\ UNCHANGED <<mainVars, xemuVars, stop, final, events, boundaries,
                   terminal, failure, readVars, captureVars, faults>>

WriteFailureFails ==
    /\ ThreadsRun /\ w = "failing" /\ Fault
    /\ w' = "dead"
    /\ UNCHANGED <<mainVars, xemuVars, stop, final, verdictVars, readVars,
                   captureVars>>

\* ... and only then is xemu terminated.
KillFailedGuest ==
    /\ ThreadsRun /\ w = "killing"
    /\ TerminateProcessTree("watcher")
    /\ queue' = Tail(queue) /\ w' = NextLine
    /\ UNCHANGED <<mainVars, guest, script, file, inode, stop, final,
                   verdictVars, offset, identity, partial, unseen,
                   captureVars, faults>>

Watcher ==
    \/ WatcherSeesStop \/ Poll \/ LastPollDenied \/ Interpret
    \/ AppendEventFails \/ WriteFailure \/ WriteFailureFails
    \/ KillFailedGuest

-----------------------------------------------------------------------------
(* HeldFrameCapture._run                                                   *)
HeldTurn(from) ==
    /\ ThreadsRun /\ held = from
    /\ UNCHANGED <<mainVars, guest, script, file, inode, w, stop, final,
                   verdictVars, readVars, timed, shots, gdb, samples>>

\* (Bug: the wait for a terminal event has no timeout.)
HeldWaitsForever ==
    /\ HeldTurn("wait") /\ terminal # "none"
    /\ held' = IF terminal = "PASS" THEN "capture" ELSE "quiet"
    /\ UNCHANGED <<xemu, killer>> /\ NoFault

\* terminal_event.wait; its type is read after the wait, FAIL ends in silence.
HeldWakes ==
    /\ HeldTurn("wait")
    /\ \/ terminal # "none" /\ held' = IF terminal = "PASS" THEN "capture"
                                       ELSE "quiet"
       \/ terminal = "none" /\ held' = "fail"          \* timed out
    /\ UNCHANGED <<xemu, killer>> /\ NoFault

\* The window of a live process is photographed, or cannot be.
HeldCaptures ==
    /\ HeldTurn("capture")
    /\ \/ xemu = "alive" /\ held' = "exit"
       \/ held' = "fail"
    /\ UNCHANGED <<xemu, killer>> /\ NoFault

\* process.wait(10) and the exit code, then the evidence.
HeldAwaitsExit ==
    /\ HeldTurn("exit")
    /\ \/ xemu = "clean" /\ held' = "ok" /\ NoFault
       \/ xemu = "clean" /\ held' = "fail" /\ Fault    \* cannot be written
       \/ xemu # "clean" /\ held' = "fail" /\ NoFault
    /\ UNCHANGED <<xemu, killer>>

\* The except branch: xemu is terminated unless the evidence cannot be written.
HeldFails ==
    /\ HeldTurn("fail") /\ held' = "error"
    /\ \/ TerminateProcessTree("held") /\ NoFault
       \/ UNCHANGED <<xemu, killer>> /\ Fault

Held == HeldWakes \/ HeldCaptures \/ HeldAwaitsExit \/ HeldFails

(* TimedFrameCapture._run: one checkpoint, or the verdict on all of them.  *)
Timed ==
    /\ ThreadsRun /\ timed = "run"
    /\ \/ /\ shots < req.shots /\ xemu = "alive"
          /\ shots' = shots + 1 /\ UNCHANGED timed
       \/ shots < req.shots /\ timed' = "error" /\ UNCHANGED shots
       \/ shots = req.shots /\ timed' = "ok" /\ UNCHANGED shots
       \/ shots = req.shots /\ shots >= 2 /\ timed' = "error" /\ UNCHANGED shots
    /\ UNCHANGED <<mainVars, xemuVars, w, stop, final, verdictVars, readVars,
                   held, gdb, samples, faults>>

(* HostGDBSampler._run: wait for F0, sample until F1, the exit of xemu or  *)
(* the last sample.  It reads the marker file itself.                      *)
InFile(kind) == \E i \in 1..Len(file) : file[i].kind = kind

SamplerWaits ==
    /\ gdb = "wait" /\ UNCHANGED samples
    /\ \/ xemu = "alive" /\ InFile("F0") /\ gdb' = "sample"
       \/ gdb' = "error"                    \* xemu exited, or the deadline
SamplerSamples ==
    /\ gdb = "sample"
    /\ IF samples < req.gdb /\ xemu = "alive" /\ ~InFile("F1")
       THEN \/ samples' = samples + 1 /\ UNCHANGED gdb
            \/ gdb' = "error" /\ UNCHANGED samples
       ELSE /\ gdb' = IF samples > 0 THEN "ok" ELSE "error"
            /\ UNCHANGED samples
Sampler ==
    /\ ThreadsRun /\ (SamplerWaits \/ SamplerSamples)
    /\ UNCHANGED <<mainVars, xemuVars, w, stop, final, verdictVars, readVars,
                   held, timed, shots, faults>>

-----------------------------------------------------------------------------
(* main()                                                                  *)
Main(from) ==
    /\ pc = from
    /\ UNCHANGED <<req, guest, script, file, inode, verdictVars, readVars>>

Waiting == UNCHANGED <<xemu, killer, w, stop, final, captureVars>>

\* XemuExclusiveLock: entered, or timed out (before any finally applies).
AcquireLock ==
    /\ Main("lock") /\ Waiting /\ NoFault
    /\ \/ pc' = "listing" /\ UNCHANGED exc
       \/ pc' = "except" /\ exc' = "other"
    /\ UNCHANGED <<result, status, summary, recorded>>

\* ensure_no_running_xemu: another xemu may linger past the grace period.
ListProcesses ==
    /\ Main("listing") /\ Waiting /\ NoFault
    /\ \/ pc' = "launch" /\ UNCHANGED exc
       \/ pc' = "unlock" /\ exc' = "other"
    /\ UNCHANGED <<result, status, summary, recorded>>

\* XemuProcessObserver._popen and on_xemu_start.  Before the launch the hard
\* disk may fail to be prepared; after it the image of the process may not be
\* the requested one.
Launch ==
    /\ Main("launch")
    /\ \/ /\ xemu' = "alive" /\ pc' = "running"
          /\ w' = IF req.live THEN "poll" ELSE "off"
          /\ held' = IF req.held THEN "wait" ELSE "off"
          /\ timed' = IF req.shots > 0 THEN "run" ELSE "off"
          /\ gdb' = IF req.gdb > 0 THEN "wait" ELSE "off"
          /\ UNCHANGED <<exc, result, killer>>
       \/ /\ xemu' = "killed" /\ killer' = "main"
          /\ pc' = "finishWatcher" /\ exc' = "other" /\ result' = "raised"
          /\ UNCHANGED <<w, held, timed, gdb>>
       \/ /\ pc' = "finishWatcher" /\ exc' = "other" /\ result' = "raised"
          /\ UNCHANGED <<xemu, killer, w, held, timed, gdb>>
    /\ UNCHANGED <<status, summary, recorded, stop, final, shots, samples,
                   faults>>

\* The timeout of xemu-test (external).
XemuTestTimesOut ==
    /\ Main("running") /\ xemu = "alive"
    /\ TerminateProcessTree("xemutest")
    /\ UNCHANGED <<pc, exc, result, status, summary, recorded, w, stop,
                   final, captureVars, faults>>

\* test.run() returns once xemu is gone.  PerfTestExecutor.analyze_results
\* lets only an exit code of 0 and all-PASS records pass.
TestReturns ==
    /\ Main("running") /\ xemu # "alive" /\ Waiting /\ NoFault
    /\ result' \in {"FAILED", "raised"} \cup
                   (IF xemu = "clean" THEN {"PASSED"} ELSE {})
    /\ exc' = IF result' = "raised" THEN "other" ELSE "none"
    /\ pc' = "finishWatcher"
    /\ UNCHANGED <<status, summary, recorded>>

\* GuestEventWatcher.finish.  A watcher that never started polls once in
\* this thread: there is no file then.
FinishWatcher ==
    /\ Main("finishWatcher") /\ NoFault
    /\ stop' = req.live
    /\ pc' = IF w = "off" THEN "finishHeld" ELSE "joinWatcher"
    /\ UNCHANGED <<exc, result, status, summary, recorded, xemu, killer, w,
                   final, captureVars>>

\* The join is bounded by 5 s.  An exception here skips the captures.
JoinWatcher ==
    /\ Main("joinWatcher") /\ Waiting
    /\ \/ /\ w \in {"done", "dead"} /\ pc' = "finishHeld"
          /\ UNCHANGED exc /\ NoFault
       \/ pc' = "unlock" /\ exc' = "other" /\ Fault
    /\ UNCHANGED <<result, status, summary, recorded>>

\* HeldFrameCapture.finish and validate_held_frame_correctness.
FinishHeld ==
    /\ Main("finishHeld") /\ UNCHANGED <<w, stop, final, captureVars>>
    /\ \/ /\ held \in {"off", "ok"} /\ pc' = "finishTimed"
          /\ UNCHANGED <<exc, xemu, killer>> /\ NoFault
       \/ /\ held = "ok" /\ pc' = "unlock" /\ exc' = "mismatch"
          /\ UNCHANGED <<xemu, killer>> /\ NoFault
       \/ /\ held \in {"error", "quiet"} /\ pc' = "unlock" /\ exc' = "other"
          /\ UNCHANGED <<xemu, killer>> /\ NoFault
       \/ /\ held \in {"wait", "capture", "exit", "fail"}
          /\ pc' = "unlock" /\ exc' = "other"
          /\ TerminateProcessTree("main") /\ Fault
    /\ UNCHANGED <<result, status, summary, recorded>>

FinishTimed ==
    /\ Main("finishTimed") /\ Waiting /\ pc' = "unlock"
    /\ \/ timed \in {"off", "ok"} /\ UNCHANGED exc /\ NoFault
       \/ timed = "error" /\ exc' = "other" /\ NoFault
       \/ timed = "run" /\ exc' = "other" /\ Fault
    /\ UNCHANGED <<result, status, summary, recorded>>

\* Leaving the two with blocks; KeyboardInterrupt is no Exception.
Unlock ==
    /\ Main("unlock") /\ Waiting /\ NoFault
    /\ \/ exc = "none" /\ pc' = "failure"
       \/ exc = "interrupt" /\ pc' = "finally"
       \/ exc \notin {"none", "interrupt"} /\ pc' = "except"
    /\ UNCHANGED <<exc, result, status, summary, recorded>>

Judging(from) ==
    Main(from) /\ Waiting /\ UNCHANGED <<result, summary>>

Holds(to) == pc' = to /\ UNCHANGED exc
Raises(classes) == pc' = "except" /\ exc' \in classes

\* (Bug: the guest's failure is left to the except clause.)
TrustGuest == Judging("failure") /\ NoFault /\ Holds("markers")
              /\ UNCHANGED <<status, recorded>>

CheckGuestFailure ==
    /\ Judging("failure") /\ NoFault /\ UNCHANGED <<status, recorded>>
    /\ IF failure # None THEN Raises({"guest"}) ELSE Holds("markers")

\* assess_live_marker_evidence
CheckMarkers ==
    /\ Judging("markers") /\ NoFault /\ UNCHANGED <<status, recorded>>
    /\ IF req.live /\ ~MarkersAccepted THEN Raises({"marker"})
       ELSE Holds("sampler")

\* HostGDBSampler.finish: the join is bounded by 45 s.
FinishSampler ==
    /\ Judging("sampler") /\ UNCHANGED <<status, recorded>>
    /\ \/ gdb \in {"off", "ok"} /\ Holds("report") /\ NoFault
       \/ gdb = "error" /\ Raises({"other"}) /\ NoFault
       \/ gdb \in {"wait", "sample"} /\ Raises({"other"}) /\ Fault

\* Lab counters, normalisation, output-only contract, functional report.
BuildReport ==
    /\ Judging("report") /\ NoFault /\ UNCHANGED <<status, recorded>>
    /\ Holds("count") \/ Raises({"other", "mismatch"})

\* The record contract or count, and the hashes of the profile.
CheckRecords ==
    /\ Judging("count") /\ NoFault /\ UNCHANGED <<status, recorded>>
    /\ \/ Holds(IF req.ledger THEN "ledger" ELSE "oracle")
       \/ Raises({"count", "mismatch", "other"})

UpdateLedger ==
    /\ Judging("ledger") /\ NoFault /\ UNCHANGED status
    /\ \/ recorded' = TRUE /\ Holds("oracle")
       \/ UNCHANGED recorded /\ Raises({"mismatch", "other"})

CheckOracle ==
    /\ Judging("oracle") /\ NoFault /\ UNCHANGED <<status, recorded>>
    /\ Holds("telemetry") \/ Raises({"mismatch", "other"})

\* Composite work and host telemetry, and then the verdict.
CheckTelemetry ==
    /\ Judging("telemetry") /\ NoFault /\ UNCHANGED recorded
    /\ \/ Raises({"other"}) /\ UNCHANGED status
       \/ Holds("finally")
          /\ status' = IF result = "PASSED" THEN "PASSED" ELSE "FAILED"

\* (Bug: a mismatch is looked for before the failure of the guest.)
StatusMismatchFirst(class) ==
    IF class = "mismatch" THEN "FUNCTIONAL_MISMATCH"
    ELSE IF failure # None THEN "GUEST_VALIDATION_FAILED"
    ELSE IF class = "count" THEN "FAILED"
    ELSE "INFRASTRUCTURE_FAILED"

\* The except clause asks the watcher again before it looks at the class.
StatusOf(class) ==
    IF failure # None THEN "GUEST_VALIDATION_FAILED"
    ELSE IF class = "mismatch" THEN "FUNCTIONAL_MISMATCH"
    ELSE IF class = "count" THEN "FAILED"
    ELSE "INFRASTRUCTURE_FAILED"

Except ==
    /\ Judging("except") /\ NoFault /\ UNCHANGED <<exc, recorded>>
    /\ status' = StatusOf(exc) /\ pc' = "finally"

\* collect_vulkan_validation, if there is a log: its RuntimeError overrides
\* the status, its OSError leaves the finally clause.
Finally ==
    /\ Judging("finally") /\ UNCHANGED <<exc, recorded>>
    /\ \/ pc' = "summary" /\ UNCHANGED status /\ NoFault
       \/ /\ req.vulkan /\ xemu # "off"
          /\ pc' = "summary" /\ status' = "INFRASTRUCTURE_FAILED" /\ NoFault
       \/ /\ req.vulkan /\ xemu # "off"
          /\ pc' = "exited" /\ UNCHANGED status /\ Fault

WriteSummary ==
    /\ Main("summary") /\ Waiting /\ pc' = "exited"
    /\ \/ summary' = TRUE /\ NoFault
       \/ UNCHANGED summary /\ Fault
    /\ UNCHANGED <<exc, result, status, recorded>>

\* KeyboardInterrupt, where the finally clauses have something to undo.
Interrupted ==
    /\ \E from \in {"listing", "running", "report", "count", "ledger",
                    "oracle", "telemetry"} :
          /\ Main(from)
          /\ pc' = IF from = "listing" THEN "unlock"
                   ELSE IF from = "running" THEN "finishWatcher"
                   ELSE "finally"
    /\ exc' = "interrupt" /\ Fault /\ Waiting
    /\ UNCHANGED <<result, status, summary, recorded>>

MainThread ==
    \/ AcquireLock \/ ListProcesses \/ Launch \/ TestReturns
    \/ FinishWatcher \/ JoinWatcher \/ FinishHeld \/ FinishTimed \/ Unlock
    \/ CheckGuestFailure \/ CheckMarkers \/ FinishSampler \/ BuildReport
    \/ CheckRecords \/ UpdateLedger \/ CheckOracle \/ CheckTelemetry
    \/ Except \/ Finally \/ WriteSummary

Next ==
    \/ GuestWrites \/ GuestEnds \/ MarkerFileRecreated
    \/ Watcher \/ Held \/ Timed \/ Sampler
    \/ XemuTestTimesOut \/ MainThread \/ Interrupted

Spec == Init /\ [][Next]_vars

\* The threads are scheduled, and xemu-test keeps its timeout.
FairSpec ==
    /\ Spec
    /\ WF_vars(Watcher) /\ WF_vars(Held) /\ WF_vars(Timed)
    /\ WF_vars(Sampler) /\ WF_vars(MainThread) /\ WF_vars(XemuTestTimesOut)

-----------------------------------------------------------------------------
(* A line escaped the watcher when the file outgrew the watcher's offset   *)
(* after a truncation, when the last poll was denied, or when the watcher  *)
(* died.                                                                   *)
Watched == w = "done" /\ unseen \cap {"denied", "overtaken"} = {}

(* PASSED is earned: xemu ended by itself with exit code 0, every capture  *)
(* that was asked for succeeded, the markers are complete or waived, and   *)
(* the marker file holds no complete failure event, however its bytes and  *)
(* the polls were interleaved (main, lines 4489 to 4667).                  *)
PassedHasItsEvidence ==
    pc = "exited" /\ status = "PASSED" =>
        /\ xemu = "clean"
        /\ req.held => held = "ok"
        /\ req.shots > 0 => timed = "ok"
        /\ req.gdb > 0 => gdb = "ok"
        /\ req.live => MarkersAccepted

PassedIsEarned ==
    /\ PassedHasItsEvidence
    /\ pc = "exited" /\ status = "PASSED" /\ req.live /\ Watched =>
          ~HasFailure(file)

\* The failure in memory is the first one of the event log.
FirstInLog ==
    \E i \in 1..Len(events) :
        /\ events[i] = failure
        /\ \A j \in 1..(i - 1) : events[j].kind \notin FAILURE_EVENTS

(* The watcher terminates a failed guest only when the evidence is on the  *)
(* disk: guest-failure.json holds the first failure, and guest-events.jsonl*)
(* holds that event ("after durable evidence is on disk", line 1201).      *)
EvidenceBeforeKill ==
    killer = "watcher" =>
        /\ failureFile = failure /\ failure # None
        /\ FirstInLog

(* The first failure stands: neither the one in memory nor the one on the  *)
(* disk is ever replaced, whatever events follow it.                       *)
FirstFailureKept ==
    [][/\ failure # None => failure' = failure
       /\ failureFile # None => failureFile' = failureFile
       /\ failureFile' \in {None, failure'}]_vars

(* A run that leaves guest-failure.json does not call itself anything but  *)
(* a failed validation or an infrastructure failure: not PASSED, not a     *)
(* mismatch of the output of a guest that had already failed, even when    *)
(* the watcher was slower than its join.                                   *)
FailureOnDiskIsReported ==
    pc = "exited" /\ failureFile # None =>
        status \in {"GUEST_VALIDATION_FAILED", "INFRASTRUCTURE_FAILED"}

(* The determinism ledger learns nothing from a guest that reported a      *)
(* failure or whose markers are incomplete, whatever the run ends as.      *)
LedgerHasItsEvidence ==
    recorded =>
        /\ failure = None /\ held \in {"off", "ok"} /\ timed \in {"off", "ok"}
        /\ req.live => MarkersAccepted

LedgerIsClean ==
    /\ LedgerHasItsEvidence
    /\ recorded /\ req.live /\ Watched => ~HasFailure(file)

(* What the proofs carry from step to step.  The evidence: the first       *)
(* failure event of the log is the failure in memory, and it is on its way *)
(* to the disk or there.                                                   *)
EvidenceInv ==
    /\ failure = None => \A i \in 1..Len(events) :
                             events[i].kind \notin FAILURE_EVENTS
    /\ failure # None => FirstInLog
    /\ w = "failing" => failure # None /\ failureFile = None
    /\ w = "killing" => failure # None /\ failureFile = failure
    /\ failureFile \in {None, failure}
    /\ killer = "watcher" => failureFile = failure /\ failure # None

(* The verdict: a status that says anything about the output was reached   *)
(* after the watcher had ended without a failure.                          *)
WatcherEnded == w \in {"off", "done", "dead"}
AtOutputs == {"markers", "sampler", "report", "count", "ledger", "oracle",
              "telemetry"}
AtOutput == pc \in AtOutputs
VerdictInv ==
    /\ status \in Statuses
    /\ pc \in {"lock", "listing", "launch"} => w = "off"
    /\ pc \in {"finishHeld", "finishTimed", "failure"} => WatcherEnded
    /\ pc = "unlock" /\ exc \in {"none", "mismatch", "count"} => WatcherEnded
    /\ pc \in {"lock", "listing", "launch", "running", "finishWatcher",
              "joinWatcher"} => exc \notin {"mismatch", "count"}
    /\ AtOutput => WatcherEnded /\ failure = None
    /\ pc = "except" /\ exc \in {"mismatch", "count"} => WatcherEnded
    /\ status \in {"PASSED", "FAILED", "FUNCTIONAL_MISMATCH"} =>
          /\ pc \in {"finally", "summary", "exited"}
          /\ WatcherEnded /\ failure = None

(* What main has seen when it stands at pc with no exception on its way:   *)
(* threads that were asked for and have ended well, markers that will do.  *)
Begun == /\ req.live => w # "off"
         /\ req.held => held # "off"
         /\ req.shots > 0 => timed # "off"
         /\ req.gdb > 0 => gdb # "off"
PhotosTaken == held \in {"off", "ok"} /\ timed \in {"off", "ok"}
SamplesTaken == gdb \in {"off", "ok"}
MarkersSeen == WatcherEnded /\ (req.live => MarkersAccepted)

EarnedInv ==
    /\ pc \in {"lock", "listing", "launch", "running", "failure"}
               \cup AtOutputs => exc = "none"
    /\ pc \notin {"lock", "listing", "launch"} /\ exc = "none" => Begun
    /\ pc = "finishTimed" => held \in {"off", "ok"}
    /\ pc = "unlock" /\ exc = "none" => PhotosTaken
    /\ pc \in {"failure"} \cup AtOutputs => PhotosTaken
    /\ pc \in AtOutputs \ {"markers"} => MarkersSeen
    /\ pc \in AtOutputs \ {"markers", "sampler"} => SamplesTaken
    /\ result = "PASSED" => xemu = "clean"
    /\ pc \in {"lock", "listing", "launch"} => ~recorded /\ result = "none"
    /\ recorded => PhotosTaken /\ MarkersSeen /\ failure = None
    /\ status = "PASSED" =>
          /\ xemu = "clean" /\ Begun
          /\ PhotosTaken /\ SamplesTaken /\ MarkersSeen

(* The result: once there is one, xemu and the file are at rest, and        *)
(* without one nothing is judged.                                           *)
ResultInv ==
    /\ pc \in {"lock", "listing", "launch"} => xemu = "off" /\ ~stop
    /\ pc \in {"lock", "listing", "launch", "running"} => result = "none"
    /\ pc \in {"running", "finishWatcher"} => ~stop
    /\ pc \notin {"lock", "listing", "launch", "running"} /\ exc = "none" =>
          result # "none"
    /\ recorded \/ status = "PASSED" => result # "none"
    /\ result # "none" => xemu # "alive"
    /\ final => stop
    /\ w = "done" => final

(* The reading: as long as the file the watcher reads was not replaced      *)
(* under its offset, it keeps what follows the last line feed before the    *)
(* offset, and a failure before the offset is the one in memory or waits in *)
(* the queue.                                                               *)
FailureWaits == \E k \in 1..Len(queue) : queue[k].kind \in FAILURE_EVENTS
InStep == identity \in {0, inode} /\ unseen \cap {"truncated", "overtaken"} = {}
AllRead == /\ "truncated" \notin unseen
           /\ IF inode = 0 THEN file = <<>>
              ELSE identity = inode /\ offset = Len(file)

ReadTyping ==
    /\ guest.lines \in Seq(Line)
    /\ file \in Seq(Line) /\ script \in Seq(Line)
    /\ partial \in Seq(Line) /\ queue \in Seq(Line)
    /\ offset \in Nat /\ identity \in Nat /\ inode \in Nat
    /\ identity <= inode
    /\ inode = 0 => file = <<>> /\ "truncated" \notin unseen
    /\ identity = 0 => offset = 0 /\ partial = <<>> /\ queue = <<>>
    /\ w \in {"off", "poll", "done"} => queue = <<>>
    /\ w \in {"interpret", "failing", "killing"} => queue # <<>>

RestKept ==
    \E s \in 0..offset : /\ s = 0 \/ file[s] = NL
                         /\ \A i \in (s + 1)..offset : file[i] # NL
                         /\ partial = SubSeq(file, s + 1, offset)

NoneLost ==
    failure = None => \A i \in 1..offset : FailsAt(file, i) => FailureWaits

Follows == InStep => offset <= Len(file) /\ RestKept /\ NoneLost

EndsUpToDate ==
    /\ result # "none" /\ final /\ "denied" \notin unseen
    /\ w \in {"interpret", "failing", "killing", "done"}
    => AllRead

ReadInv == ReadTyping /\ Follows /\ EndsUpToDate

IInv == EvidenceInv /\ VerdictInv /\ EarnedInv /\ ResultInv /\ ReadInv

(* Every run ends: no thread waits for another that waits for a guest that *)
(* will never speak again.                                                 *)
RunEnds == <>(pc = "exited")

=============================================================================
