---------------------------- MODULE ReportQuery ----------------------------
(***************************************************************************)
(* The ReportQuery suite: the test thread queues NV097 methods, PFIFO      *)
(* executes them in order, and the renderer publishes the ZPASS reports    *)
(* they ask for into guest memory - at once (Vulkan) or later, even after  *)
(* a semaphore that follows them (OpenGL).  The test thread meanwhile      *)
(* resets records, polls them and rewrites the DMA descriptor the GPU      *)
(* reads.                                                                  *)
(*                                                                         *)
(* Each scenario of RunScenario is a script: the sequence of steps of its  *)
(* straight-line code.  The renderer may be defective in one of the ways   *)
(* the oracles are for.  A counted quad is worth one; a record holds the   *)
(* count at its GET_REPORT.                                                *)
(***************************************************************************)
EXTENDS Integers, Sequences, FiniteSets

CONSTANTS
    Scenarios,    \* the leaves that may be run
    Renderers,    \* the renderers they may run on
    MaxBodies,    \* bound: calls of RunScenario
    Attempts      \* number of kDescriptorRewriteDelaysUs

Leaves == {"zero", "single", "clear", "multiple", "switch", "producer", "rewrite", "range"}
Conforming == {"immediate", "deferred"}
\* late: a report goes where the context points when it is published.
\* unguarded: a record that does not fit is written nevertheless.
\* lossy: a report may get lost.
Defective == {"late", "unguarded", "lossy"}

ASSUME ReportAssumption ==
    /\ Scenarios \subseteq Leaves
    /\ Renderers \subseteq Conforming \cup Defective
    /\ MaxBodies \in Nat /\ Attempts \in Nat \ {0}

\* The memory of targets A and B, two records each.
Records == {"A", "B"} \X {0, 1}
A0 == <<"A", 0>>
A1 == <<"A", 1>>
B0 == <<"B", 0>>
B1 == <<"B", 1>>

\* reset: all sentinels.  part: timestamp and value are there, done is not.
Reset == [state |-> "reset", value |-> 0, by |-> 0]
Contexts == {"a", "b", "limited", "full_ram"}

VARIABLES
    renderer,
    (* The test thread. *)
    phase,        \* down, ready, body, passed, returned, teardown
    leaf,
    todo,         \* steps of the body still to take
    attempt,      \* of the descriptor rewrite
    looked,       \* what A1 was before the rewrite
    failed,       \* has an assertion of this body failed?
    (* The GPU. *)
    fifo,         \* methods queued and not executed
    bound,        \* report context
    zpass, count,
    pending,      \* reports consumed and not published
    semaphore,
    (* Guest memory. *)
    descriptor,   \* what the RAMIN descriptor of context a points to
    memory,
    canaries,     \* are the bytes around the invalid record intact?
    (* Observation only. *)
    bodies,
    asked,        \* attempts begun: the number of the current one
    excused,      \* has a wait timed out, or A1 been seen half-written?
    strayed       \* has a report been written to memory that was freed?

thread == <<phase, leaf, todo, attempt, looked, failed>>
engine == <<fifo, bound, zpass, count, pending, semaphore>>
observed == <<bodies, asked, excused, strayed>>
vars == <<renderer, thread, engine, descriptor, memory, canaries, observed>>

-----------------------------------------------------------------------------
(* Methods and steps. *)

\* by: the attempt that asks for a report, for the properties only.
Method(op, arg) == [op |-> op, arg |-> arg, by |-> 0]
Bind(context) == Method("bind", context)
Clear == Method("clear", 0)
Zpass(on) == Method("zpass", on)
Draw == Method("draw", 0)
Report(index) == Method("report", index)
Release == Method("release", 0)

Push(methods) == [do |-> "push", arg |-> methods]
Complete == [do |-> "complete", arg |-> 0]
Await(records) == [do |-> "await", arg |-> records]     \* any of them
Check(relation) == [do |-> "check", arg |-> relation]   \* noted, and the body goes on
Demand(relation) == [do |-> "demand", arg |-> relation] \* the body ends if it does not hold
Clean(records) == [do |-> "clean", arg |-> records]
Point(target) == [do |-> "point", arg |-> target]       \* WriteDmaDescriptor
Shadow == [do |-> "shadow", arg |-> 0]
Look == [do |-> "look", arg |-> 0]
Judge == [do |-> "judge", arg |-> 0]
Paint == [do |-> "paint", arg |-> 0]

\* (Bug: the records keep what an earlier sample left in them.)
StartDirty == <<Push(<<Bind("a"), Zpass(0), Clear>>)>>

Start == <<Clean(Records), Push(<<Bind("a"), Zpass(0), Clear>>)>>

ZeroQuery == <<Push(<<Draw, Report(0)>>), Complete, Await({A0}), Demand("A0"), Check("zero")>>

SingleBoundary ==
    <<Push(<<Zpass(1), Draw, Report(0)>>), Push(<<Zpass(0), Draw>>), Complete,
      Await({A0}), Demand("A0"), Check("nonzero")>>

TargetSwitch ==
    <<Push(<<Zpass(1), Draw, Report(0)>>),
      Push(<<Bind("b"), Clear, Draw, Report(0), Zpass(0), Draw>>), Complete,
      Await({A0}), Await({B0}), Demand("A0"), Demand("B0"), Check("targets")>>

\* (Bug: nothing waits for the deferred publication.)
OrderedUnawaited(between, relation) ==
    <<Push(<<Zpass(1), Draw, Report(0)>>), Push(between \o <<Draw, Report(1), Zpass(0)>>),
      Complete, Demand("A0"), Demand("A1"), Check("nonzero"), Check(relation)>>

\* Clear, producer work or nothing between two reports.
Ordered(between, relation) ==
    <<Push(<<Zpass(1), Draw, Report(0)>>), Push(between \o <<Draw, Report(1), Zpass(0)>>),
      Complete, Await({A0}), Await({A1}), Demand("A0"), Demand("A1"), Check("nonzero"), Check(relation)>>

\* One attempt, from the reset of A1 to the verdict over it.
RewriteAttempt ==
    <<Point("A"), Clean({A1, B0, B1}), Push(<<Bind("a"), Clear, Zpass(1), Draw, Report(1)>>),
      Shadow, Look, Point("B"), Push(<<Clear, Draw, Report(0), Zpass(0)>>), Complete,
      Await({A1, B1}), Await({B0}), Judge>>

DescriptorRewrite ==
    <<Push(<<Zpass(1), Draw, Report(0), Zpass(0)>>), Complete, Await({A0}), Demand("A0"),
      Demand("nonzero")>> \o RewriteAttempt

\* (Bug: the canaries are looked at as soon as the GPU is through.)
RangeUnfenced ==
    <<Push(<<Bind("limited"), Clear, Zpass(1), Draw, Report(0), Zpass(0)>>), Complete,
      Await({A0}), Demand("A0"), Paint, Push(<<Zpass(0), Clear, Report(1)>>), Complete,
      Check("canaries"), Push(<<Bind("a")>>)>>

\* The report to B0 is the publication fence of the one that does not fit.
RangeGuard ==
    <<Push(<<Bind("limited"), Clear, Zpass(1), Draw, Report(0), Zpass(0)>>), Complete,
      Await({A0}), Demand("A0"), Paint, Push(<<Zpass(0), Clear, Report(1)>>), Clean({B0}),
      Push(<<Bind("b"), Report(0)>>), Complete, Await({B0}), Check("B0"), Check("canaries"),
      Push(<<Bind("a")>>)>>

Script(l) ==
    Start \o CASE l = "zero" -> ZeroQuery
               [] l = "single" -> SingleBoundary
               [] l = "switch" -> TargetSwitch
               [] l = "clear" -> Ordered(<<Clear>>, "equal")
               [] l \in {"multiple", "producer"} -> Ordered(<<>>, "double")
               [] l = "rewrite" -> DescriptorRewrite
               [] l = "range" -> RangeGuard

-----------------------------------------------------------------------------
Init ==
    /\ renderer \in Renderers
    /\ phase = "ready" /\ leaf \in Scenarios /\ todo = <<>> /\ attempt = 0 /\ looked = "nothing"
    /\ failed = FALSE
    /\ fifo = <<>> /\ bound = "a" /\ zpass = 0 /\ count = 0 /\ pending = <<>> /\ semaphore = FALSE
    /\ descriptor = "A" /\ memory = [r \in Records |-> Reset] /\ canaries = TRUE
    /\ bodies = 0 /\ asked = 0 /\ excused = FALSE /\ strayed = FALSE

-----------------------------------------------------------------------------
(* The test thread. *)

step == Head(todo)
At(do) == phase = "body" /\ todo # <<>> /\ step.do = do

\* RunScenario, for a sample of leaf l.
RunScenario(l) ==
    /\ bodies < MaxBodies
    /\ leaf' = l /\ todo' = Script(l)
    /\ attempt' = 1 /\ looked' = "nothing" /\ failed' = FALSE /\ canaries' = TRUE
    /\ bodies' = bodies + 1 /\ asked' = asked + 1
    /\ phase' = "body"
    /\ UNCHANGED <<renderer, engine, descriptor, memory, excused, strayed>>

BeginTest == phase = "ready" /\ \E l \in Scenarios : RunScenario(l)

\* The next sample of Profile.  Correctness-only leaves have one.
NextSample == phase \in {"passed", "returned"} /\ leaf \notin {"rewrite", "range"} /\ RunScenario(leaf)

Advance ==
    /\ todo' = Tail(todo)
    /\ UNCHANGED <<renderer, phase, leaf, bodies, strayed>>

\* An assertion that ends the body; the descriptor is as it was before.
Abandon ==
    /\ todo' = <<>>
    /\ failed' = TRUE
    /\ descriptor' = "A"
    /\ UNCHANGED <<renderer, phase, leaf, bodies, strayed>>

\* A report is known by the attempt that asks for it.
Asked(methods) ==
    [i \in DOMAIN methods |->
        IF methods[i].op = "report" THEN [methods[i] EXCEPT !.by = asked] ELSE methods[i]]

Whole(r) == memory[r].state = "done"

PushMethods ==
    /\ At("push")
    /\ fifo' = fifo \o Asked(step.arg)
    /\ Advance
    /\ UNCHANGED <<attempt, looked, failed, bound, zpass, count, pending, semaphore, descriptor,
                   memory, canaries, asked, excused>>

\* ResetRecord, FillRangeCanaries and WriteDmaDescriptor do not wait for the GPU.
WriteMemory ==
    /\ At("clean") \/ At("paint") \/ At("point")
    /\ memory' = IF step.do = "clean" THEN [r \in Records |-> IF r \in step.arg THEN Reset ELSE memory[r]]
                 ELSE memory
    /\ canaries' = (canaries \/ step.do = "paint")
    /\ descriptor' = IF step.do = "point" THEN step.arg ELSE descriptor
    /\ Advance
    /\ UNCHANGED <<attempt, looked, failed, engine, asked, excused>>

\* CompleteGpuWork queues the semaphore, and then waits for it.
CompleteGpuWork ==
    /\ At("complete")
    /\ fifo' = Append(fifo, Release)
    /\ semaphore' = FALSE
    /\ todo' = <<[do |-> "released", arg |-> 0]>> \o Tail(todo)
    /\ UNCHANGED <<renderer, phase, leaf, attempt, looked, failed, bound, zpass, count, pending,
                   descriptor, memory, canaries, observed>>

SemaphoreSeen ==
    /\ At("released") /\ semaphore
    /\ Advance
    /\ UNCHANGED <<attempt, looked, failed, engine, descriptor, memory, canaries, asked, excused>>

RecordSeen ==
    /\ At("await") /\ \E r \in step.arg : Whole(r)
    /\ Advance
    /\ UNCHANGED <<attempt, looked, failed, engine, descriptor, memory, canaries, asked, excused>>

\* The parameter is in the shadow when GET_REPORT is about to be executed, or has been.
ShadowSeen ==
    /\ At("shadow") /\ Len(fifo) <= 1
    /\ Advance
    /\ UNCHANGED <<attempt, looked, failed, engine, descriptor, memory, canaries, asked, excused>>

\* kReportTimeoutUs is over.  A record that is missing is found by what follows.
TimesOut ==
    /\ \/ At("released") /\ ~semaphore /\ Abandon
       \/ At("shadow") /\ Abandon
       \/ At("await") /\ (\A r \in step.arg : ~Whole(r)) /\ Advance
            /\ UNCHANGED <<failed, descriptor>>
    /\ excused' = TRUE
    /\ UNCHANGED <<attempt, looked, engine, memory, canaries, asked>>

Holds(relation) ==
    LET a0 == memory[A0].value
    IN CASE relation = "A0" -> Whole(A0) [] relation = "A1" -> Whole(A1) [] relation = "B0" -> Whole(B0)
         [] relation = "zero" -> a0 = 0
         [] relation = "nonzero" -> a0 # 0
         [] relation = "equal" -> a0 = memory[A1].value
         [] relation = "double" -> 2 * a0 = memory[A1].value
         [] relation = "targets" -> a0 # 0 /\ a0 = memory[B0].value
         [] relation = "canaries" -> canaries

AssertXemuPerfEqual ==
    /\ At("check") \/ At("demand")
    /\ IF step.do = "demand" /\ ~Holds(step.arg)
       THEN Abandon
       ELSE failed' = (failed \/ ~Holds(step.arg)) /\ Advance /\ UNCHANGED descriptor
    /\ UNCHANGED <<attempt, looked, engine, memory, canaries, asked, excused>>

\* A1 just before the rewrite.  Assumed: the longest of the delays outlasts PFIFO.
LookAtA1 ==
    /\ At("look")
    /\ attempt = Attempts => fifo = <<>>
    /\ looked' = memory[A1].state
    /\ excused' = (excused \/ memory[A1].state = "part")
    /\ IF memory[A1].state = "part"
       THEN Abandon
       ELSE Advance /\ UNCHANGED <<failed, descriptor>>
    /\ UNCHANGED <<attempt, engine, memory, canaries, asked>>

MoreDelays == attempt < Attempts

\* A1 and B0 are whole and B1 is untouched; or the next delay; or no more.
JudgeAttempt ==
    /\ At("judge")
    /\ descriptor' = "A"
    /\ IF Whole(A1) /\ Whole(B0) /\ memory[B1] = Reset
       THEN fifo' = Append(fifo, Bind("a")) /\ todo' = <<>> /\ UNCHANGED <<attempt, asked, failed>>
       ELSE IF MoreDelays
            THEN /\ todo' = RewriteAttempt /\ attempt' = attempt + 1 /\ asked' = asked + 1
                 /\ UNCHANGED <<failed, fifo>>
            ELSE fifo' = Append(fifo, Bind("a")) /\ todo' = <<>> /\ failed' = TRUE /\ UNCHANGED <<attempt, asked>>
    /\ UNCHANGED <<renderer, phase, leaf, looked, bound, zpass, count, pending, semaphore, memory,
                   canaries, bodies, excused, strayed>>

\* RunScenario returns: at its end, or from the middle.
EndBody ==
    /\ phase = "body" /\ todo = <<>>
    /\ phase' = IF failed THEN "returned" ELSE "passed"
    /\ UNCHANGED <<renderer, leaf, todo, attempt, looked, failed, engine, descriptor, memory,
                   canaries, observed>>

\* The end of Test: FinishDraw waits for the GPU.
EndTest ==
    /\ phase \in {"passed", "returned"}
    /\ fifo = <<>>
    /\ bound' = "a" /\ zpass' = 0
    /\ phase' = "ready"
    /\ UNCHANGED <<renderer, leaf, todo, attempt, looked, failed, fifo, count, pending, semaphore,
                   descriptor, memory, canaries, observed>>

\* Deinitialize: whether the semaphore came or the wait for it timed out,
\* the memory is freed when the GPU is idle.
Deinitialize ==
    /\ phase = "ready"
    /\ fifo' = fifo \o <<Zpass(0), Bind("full_ram"), Release>>
    /\ descriptor' = "A"
    /\ semaphore' = FALSE
    /\ phase' = "teardown"
    /\ UNCHANGED <<renderer, leaf, todo, attempt, looked, failed, bound, zpass, count, pending,
                   memory, canaries, observed>>

FreeReportMemory ==
    /\ phase = "teardown" /\ fifo = <<>>
    /\ phase' = "down"
    /\ UNCHANGED <<renderer, leaf, todo, attempt, looked, failed, engine, descriptor, memory,
                   canaries, observed>>

-----------------------------------------------------------------------------
(* The GPU. *)

Target(context) ==
    CASE context = "a" -> descriptor [] context = "b" -> "B" [] context = "limited" -> "A"
      [] context = "full_ram" -> "elsewhere"

Fits(context, index) == context # "limited" \/ index = 0

\* GET_REPORT: a report that fits is owed to the record its context points to.
Consume(index, by) ==
    pending' = IF Fits(bound, index) \/ renderer = "unguarded"
               THEN Append(pending, [target |-> Target(bound), index |-> index, value |-> count, by |-> by,
                                     fits |-> Fits(bound, index), part |-> FALSE])
               ELSE pending

ExecuteMethod ==
    /\ fifo # <<>>
    /\ renderer = "immediate" => pending = <<>>
    /\ LET m == Head(fifo) IN
        /\ bound' = IF m.op = "bind" THEN m.arg ELSE bound
        /\ zpass' = IF m.op = "zpass" THEN m.arg ELSE zpass
        /\ count' = CASE m.op = "clear" -> 0
                      [] m.op = "draw" -> count + zpass
                      [] OTHER -> count
        /\ semaphore' = (semaphore \/ m.op = "release")
        /\ IF m.op = "report" THEN Consume(m.arg, m.by) ELSE UNCHANGED pending
    /\ fifo' = Tail(fifo)
    /\ UNCHANGED <<renderer, thread, descriptor, memory, canaries, observed>>

\* The oldest report is written in two strokes: done comes last.
PublishReport ==
    /\ pending # <<>>
    /\ LET p == Head(pending)
           target == IF renderer = "late" THEN Target(bound) ELSE p.target
       IN
        /\ memory' = IF target \in {"A", "B"} /\ p.fits
                     THEN [memory EXCEPT ![<<target, p.index>>] =
                             [state |-> IF p.part THEN "done" ELSE "part", value |-> p.value,
                              by |-> p.by]]
                     ELSE memory
        /\ canaries' = (canaries /\ p.fits)
        /\ strayed' = (strayed \/ (phase = "down" /\ target \in {"A", "B"}))
        /\ pending' = IF p.part \/ ~p.fits THEN Tail(pending) ELSE [pending EXCEPT ![1].part = TRUE]
    /\ UNCHANGED <<renderer, thread, fifo, bound, zpass, count, semaphore, descriptor, bodies,
                   asked, excused>>

LoseReport ==
    /\ renderer = "lossy" /\ pending # <<>>
    /\ pending' = Tail(pending)
    /\ UNCHANGED <<renderer, thread, fifo, bound, zpass, count, semaphore, descriptor, memory,
                   canaries, observed>>

TestThread ==
    \/ BeginTest \/ NextSample \/ PushMethods \/ WriteMemory \/ CompleteGpuWork \/ SemaphoreSeen \/ RecordSeen
    \/ ShadowSeen \/ TimesOut \/ AssertXemuPerfEqual \/ LookAtA1
    \/ JudgeAttempt \/ EndBody \/ EndTest \/ Deinitialize \/ FreeReportMemory

Next == TestThread \/ ExecuteMethod \/ PublishReport \/ LoseReport

Spec == Init /\ [][Next]_vars

-----------------------------------------------------------------------------
\* What the FIFO, the script, the queue of reports and a record hold.
Words ==
    [op : {"bind"}, arg : Contexts, by : Nat] \cup [op : {"zpass", "report"}, arg : {0, 1}, by : Nat]
    \cup [op : {"clear", "draw", "release"}, arg : {0}, by : Nat]
Relations == {"A0", "A1", "B0", "zero", "nonzero", "equal", "double", "targets", "canaries"}
Steps ==
    [do : {"push"}, arg : Seq(Words)] \cup [do : {"clean", "await"}, arg : SUBSET Records]
    \cup [do : {"point"}, arg : {"A", "B"}] \cup [do : {"check", "demand"}, arg : Relations]
    \cup [do : {"complete", "released", "shadow", "look", "judge", "paint"}, arg : {0}]
Debts == [target : {"A", "B", "elsewhere"}, index : {0, 1}, value : Nat, by : Nat,
          fits : BOOLEAN, part : BOOLEAN]
Contents == [state : {"reset", "part", "done"}, value : Nat, by : Nat]

TypeOK ==
    /\ renderer \in Renderers /\ leaf \in Scenarios
    /\ phase \in {"ready", "body", "passed", "returned", "teardown", "down"}
    /\ todo \in Seq(Steps)
    /\ attempt \in 0..Attempts /\ looked \in {"nothing", "reset", "done", "part"}
    /\ failed \in BOOLEAN /\ canaries \in BOOLEAN /\ excused \in BOOLEAN /\ strayed \in BOOLEAN
    /\ fifo \in Seq(Words) /\ bound \in Contexts /\ zpass \in {0, 1} /\ count \in Nat
    /\ pending \in Seq(Debts) /\ semaphore \in BOOLEAN
    /\ descriptor \in {"A", "B"} /\ memory \in [Records -> Contents]
    /\ bodies \in 0..MaxBodies /\ asked \in Nat

(* "The suite then uses a bounded wait for deferred host report publication
   ... This is an ordering fence": on a renderer without a defect, however late
   it publishes, an assertion fails only after a wait ran out or when A1 was
   read in the middle of its publication. *)
OracleIsSound == failed => excused \/ renderer \in Defective

\* The records the verdict of a leaf is about.
Judged(l) ==
    CASE l \in {"zero", "single"} -> {A0} [] l \in {"clear", "multiple", "producer"} -> {A0, A1}
      [] l = "switch" -> {A0, B0} [] l = "rewrite" -> {A1, B0} [] l = "range" -> {A0, B0}

(* Even on a defective renderer a leaf passes on reports of its own: what was
   judged is whole, was asked for by this sample (for the rewrite: by this
   attempt) and stands where it was meant to, while no wait of the process has
   run out. *)
PassIsItsOwn ==
    phase = "passed" /\ ~excused =>
        \A r \in Judged(leaf) : Whole(r) /\ memory[r].by = asked

(* "Before freeing report memory": no report is written to freed memory, unless
   a wait had run out before. *)
NothingStrays == strayed => excused
=============================================================================
