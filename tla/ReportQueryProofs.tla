------------------------- MODULE ReportQueryProofs -------------------------
(***************************************************************************)
(* Proofs about ReportQuery, for any leaves, any renderers, any number of  *)
(* samples and of descriptor-rewrite attempts.                             *)
(*                                                                         *)
(* A leaf is straight-line code, so the methods it queues are known in     *)
(* advance: Line(leaf).  Three cursors move along it, each at its pace.    *)
(* The test thread is at step Pos of the script and has queued Given       *)
(* methods, PFIFO has executed Done of them, and the publisher is through  *)
(* with Out of the reports asked for so far.  The waits of the script are  *)
(* what ties the cursors together: past a semaphore Done has caught up     *)
(* with the methods before it (Synced), past an Await so has Out with the  *)
(* report awaited (Met).  The inductive invariant says, for each pair of   *)
(* cursors, what is in the queue between them, and what the registers and  *)
(* the records hold behind them.  It is given up when a wait runs out or   *)
(* A1 is seen in the middle of its publication ("excused").                *)
(***************************************************************************)
EXTENDS ReportQuery, TLAPS

-----------------------------------------------------------------------------
(* The line of a leaf, and where its waits put the cursors                 *)

\* The methods of a leaf, in the order in which RunScenario queues them.  For the rewrite:
\* those of the first attempt; a later one queues the methods from the eighth on again.
Line(l) ==
    <<Bind("a"), Zpass(0), Clear>> \o
    CASE l = "zero" -> <<Draw, Report(0), Release>>
      [] l = "single" -> <<Zpass(1), Draw, Report(0), Zpass(0), Draw, Release>>
      [] l = "switch" -> <<Zpass(1), Draw, Report(0), Bind("b"), Clear, Draw, Report(0),
                           Zpass(0), Draw, Release>>
      [] l = "clear" -> <<Zpass(1), Draw, Report(0), Clear, Draw, Report(1), Zpass(0), Release>>
      [] l \in {"multiple", "producer"} ->
            <<Zpass(1), Draw, Report(0), Draw, Report(1), Zpass(0), Release>>
      [] l = "rewrite" -> <<Zpass(1), Draw, Report(0), Zpass(0), Release,
                            Bind("a"), Clear, Zpass(1), Draw, Report(1),
                            Clear, Draw, Report(0), Zpass(0), Release>>
      [] l = "range" -> <<Bind("limited"), Clear, Zpass(1), Draw, Report(0), Zpass(0), Release,
                          Zpass(0), Clear, Report(1), Bind("b"), Report(0), Release, Bind("a")>>

\* How many of them are queued when the thread is at each of its steps.
Queued(l) ==
    CASE l = "zero" -> <<0, 0, 3, 5, 6, 6, 6>>
      [] l = "single" -> <<0, 0, 3, 6, 8, 9, 9, 9>>
      [] l = "switch" -> <<0, 0, 3, 6, 12, 13, 13, 13, 13, 13>>
      [] l = "clear" -> <<0, 0, 3, 6, 10, 11, 11, 11, 11, 11, 11>>
      [] l \in {"multiple", "producer"} -> <<0, 0, 3, 6, 9, 10, 10, 10, 10, 10, 10>>
      [] l = "rewrite" -> <<0, 0, 3, 7, 8, 8, 8, 8, 8, 8, 13, 13, 13, 13, 17, 18, 18, 18>>
      [] l = "range" -> <<0, 0, 3, 9, 10, 10, 10, 10, 13, 13, 15, 16, 16, 16, 16>>

\* How many of them are known to be executed: those before the last semaphore seen.
Synced(l) ==
    CASE l = "zero" -> <<0, 0, 0, 0, 6, 6, 6>>
      [] l = "single" -> <<0, 0, 0, 0, 0, 9, 9, 9>>
      [] l = "switch" -> <<0, 0, 0, 0, 0, 13, 13, 13, 13, 13>>
      [] l = "clear" -> <<0, 0, 0, 0, 0, 11, 11, 11, 11, 11, 11>>
      [] l \in {"multiple", "producer"} -> <<0, 0, 0, 0, 0, 10, 10, 10, 10, 10, 10>>
      [] l = "rewrite" -> <<0, 0, 0, 0, 8, 8, 8, 8, 8, 8, 8, 8, 8, 8, 8, 18, 18, 18>>
      [] l = "range" -> <<0, 0, 0, 0, 10, 10, 10, 10, 10, 10, 10, 16, 16, 16, 16>>

\* After how many methods each report is asked for.  On an unguarded renderer (u) the one that
\* does not fit is a report like the others.
Asking(l, u) ==
    CASE l = "zero" -> <<5>> [] l = "single" -> <<6>> [] l = "switch" -> <<6, 10>>
      [] l = "clear" -> <<6, 9>> [] l \in {"multiple", "producer"} -> <<6, 8>>
      [] l = "rewrite" -> <<6, 13, 16>>
      [] l = "range" -> IF u THEN <<8, 13, 15>> ELSE <<8, 15>>

\* The record each report is meant for.
Due(l, u) ==
    CASE l \in {"zero", "single"} -> <<A0>> [] l = "switch" -> <<A0, B0>>
      [] l \in {"clear", "multiple", "producer"} -> <<A0, A1>>
      [] l = "rewrite" -> <<A0, A1, B0>>
      [] l = "range" -> IF u THEN <<A0, A1, B0>> ELSE <<A0, B0>>

\* The value each report has on a conforming renderer.
Amount(l) ==
    CASE l = "zero" -> <<0>> [] l = "single" -> <<1>>
      [] l \in {"clear", "switch"} -> <<1, 1>> [] l \in {"multiple", "producer"} -> <<1, 2>>
      [] l = "rewrite" -> <<1, 1, 1>>
      [] l = "range" -> <<1, 0>>

\* How many reports the first j methods ask for.
Owed(l, u, j) ==
    LET r == Asking(l, u)
    IN IF Len(r) >= 3 /\ r[3] <= j THEN 3
       ELSE IF Len(r) >= 2 /\ r[2] <= j THEN 2 ELSE IF r[1] <= j THEN 1 ELSE 0

\* How many reports are known to be published, or lost, at each step: those waited for.
Met(l, u) ==
    CASE l = "zero" -> <<0, 0, 0, 0, 0, 1, 1>>
      [] l = "single" -> <<0, 0, 0, 0, 0, 0, 1, 1>>
      [] l = "switch" -> <<0, 0, 0, 0, 0, 0, 1, 2, 2, 2>>
      [] l \in {"clear", "multiple", "producer"} -> <<0, 0, 0, 0, 0, 0, 1, 2, 2, 2, 2>>
      [] l = "rewrite" -> <<0, 0, 0, 0, 0, 1, 1, 1, 1, 1, 1, 1, 1, 1, 1, 1, 2, 3>>
      [] l = "range" -> LET n == Len(Due(l, u)) IN <<0, 0, 0, 0, 0, 1, 1, 1, 1, 1, 1, 1, n, n, n>>

\* The registers after j methods, as far as these set them.
BoundAt(l, j) ==
    CASE l = "switch" /\ j >= 7 -> "b"
      [] l = "range" /\ j >= 4 -> IF j < 14 THEN "limited" ELSE IF j < 17 THEN "b" ELSE "a"
      [] OTHER -> "a"

ZpassAt(l, j) ==
    CASE l = "zero" -> 0
      [] l = "single" -> IF j \in 4..6 THEN 1 ELSE 0
      [] l = "switch" -> IF j \in 4..10 THEN 1 ELSE 0
      [] l = "clear" -> IF j \in 4..9 THEN 1 ELSE 0
      [] l \in {"multiple", "producer"} -> IF j \in 4..8 THEN 1 ELSE 0
      [] l = "rewrite" -> IF j \in 4..6 \cup 11..16 THEN 1 ELSE 0
      [] l = "range" -> IF j \in 6..8 THEN 1 ELSE 0

CountAt(l, j) ==
    CASE l = "zero" -> 0
      [] l = "single" -> IF j < 5 THEN 0 ELSE 1
      [] l = "switch" -> IF j < 5 \/ j = 8 THEN 0 ELSE 1
      [] l = "clear" -> IF j < 5 \/ j = 7 THEN 0 ELSE 1
      [] l \in {"multiple", "producer"} -> IF j < 5 THEN 0 ELSE IF j < 7 THEN 1 ELSE 2
      [] l = "rewrite" -> IF j < 5 \/ j \in {10, 11, 14} THEN 0 ELSE 1
      [] l = "range" -> IF j \in 7..11 THEN 1 ELSE 0

\* The least number of finished reports with which record r may be whole at step p.  In the
\* target switch B0 needs both only once A0 was seen, for a late renderer may publish the first
\* report to B: hence what Waits and InMemory say of the two.
Soonest(l, u, p, r) ==
    CASE l \in {"clear", "multiple", "producer"} -> IF r[2] = 0 THEN 1 ELSE 2
      [] l = "switch" -> IF r = B0 /\ p >= 7 THEN 2 ELSE 1
      [] l = "rewrite" -> IF p >= 10 THEN IF r = B0 THEN 3 ELSE IF r = A0 THEN 0 ELSE 2 ELSE 1
      [] l = "range" -> IF p >= 10 /\ r = B0 THEN Len(Due(l, u)) ELSE 1
      [] OTHER -> 1

\* The records reset by this attempt before step p: what they hold is its own.
Fresh(l, p) == IF l = "rewrite" THEN IF p >= 10 THEN {A1, B0, B1} ELSE {}
               ELSE IF p >= 2 THEN Records ELSE {}

\* The records that the checks before step p found whole; f: an assertion has failed.
Kept(l, p, f) ==
    CASE l = "zero" -> IF p >= 7 THEN {A0} ELSE {}
      [] l = "single" -> IF p >= 8 THEN {A0} ELSE {}
      [] l = "switch" -> IF p >= 10 THEN {A0, B0} ELSE IF p >= 9 THEN {A0} ELSE {}
      [] l \in {"clear", "multiple", "producer"} -> IF p >= 10 THEN {A0, A1} ELSE IF p >= 9 THEN {A0} ELSE {}
      [] l = "rewrite" -> {}
      [] l = "range" -> IF p >= 14 /\ ~f THEN {A0, B0} ELSE IF p >= 7 THEN {A0} ELSE {}

-----------------------------------------------------------------------------
(* The cursors, and the inductive invariant                                *)

\* Is a report that does not fit published as well?
Loose == leaf = "range" /\ renderer = "unguarded"

\* The step of the script the thread is at.
Pos == Len(Script(leaf)) + 1 - Len(todo)

\* The second half of CompleteGpuWork: its method is queued, its wait is not over.
Released == [do |-> "released", arg |-> 0]
Waiting == todo[1] = Released

\* Methods queued, methods executed, reports published or lost.
Given == Queued(leaf)[Pos] + IF Waiting THEN 1 ELSE 0
Done == Given - Len(fifo)
Out == Owed(leaf, Loose, Done) - Len(pending)

\* A method as it stands in the FIFO.
Tag(m) == IF m.op = "report" THEN [m EXCEPT !.by = asked] ELSE m

\* What is left to do is the rest of the script.
InScript ==
    /\ Pos \in 1..Len(Script(leaf))
    /\ \A k \in 2..Len(todo) : todo[k] = Script(leaf)[Pos + k - 1]
    /\ todo[1] = Script(leaf)[Pos] \/ (Script(leaf)[Pos] = Complete /\ Waiting)

\* What is in the FIFO is the line between Done and Given; what was waited for is executed; on
\* the last attempt PFIFO was through when A1 was looked at (LookAtA1).
InFifo ==
    /\ Synced(leaf)[Pos] <= Done
    /\ \A k \in 1..Len(fifo) : fifo[k] = Tag(Line(leaf)[Done + k])
    /\ Waiting /\ semaphore => fifo = <<>>
    /\ leaf = "rewrite" /\ attempt = Attempts /\ Pos >= 13 => Done >= 13

\* The registers are those the methods up to Done leave.
InEngine ==
    /\ Done >= 1 => bound = BoundAt(leaf, Done)
    /\ Done >= 2 => zpass = ZpassAt(leaf, Done)
    /\ Done >= 3 => count = CountAt(leaf, Done)

\* What is owed are the reports from Out on, asked for by this attempt.
InPending ==
    /\ Met(leaf, Loose)[Pos] <= Out
    /\ \A k \in 1..Len(pending) :
        /\ pending[k].index = Due(leaf, Loose)[Out + k][2]
        /\ pending[k].by = asked
        /\ pending[k].fits = (leaf = "range" => pending[k].index = 0)
        /\ leaf = "range" /\ Out + k >= 2 => pending[k].target = Due(leaf, Loose)[Out + k][1]

\* A record is whole only if its report is behind the publisher.  What this attempt reset is
\* reset or its own, and what a check has found whole stays so.
InMemory ==
    /\ Pos >= 2 => \A r \in Records : Whole(r) => Soonest(leaf, Loose, Pos, r) <= Out
    /\ leaf = "switch" /\ Pos >= 2 /\ Whole(A0) /\ Whole(B0) => 2 <= Out
    /\ \A r \in Fresh(leaf, Pos) : memory[r].state = "reset" \/ memory[r].by = asked
    /\ \A r \in Kept(leaf, Pos, failed) : Whole(r)

\* The descriptor of context a points to B from its rewrite to the verdict.
InPlace == descriptor = IF leaf = "rewrite" /\ Pos >= 14 THEN "B" ELSE "A"

\* Only the last attempt fixes where the report under the rewrite goes: before that it may be
\* consumed on either side of the rewrite.
Exact(n) == leaf = "rewrite" /\ n = 2 => attempt = Attempts

\* On a renderer without a defect nothing fails, a report goes where it is due with the amount
\* due, and it is there once the publisher is past it.
InOrder ==
    renderer \in Conforming =>
        /\ ~failed /\ canaries
        /\ \A k \in 1..Len(pending) :
            /\ pending[k].fits
            /\ pending[k].value = Amount(leaf)[Out + k]
            /\ Exact(Out + k) => <<pending[k].target, pending[k].index>> = Due(leaf, Loose)[Out + k]
        /\ \A n \in 1..Out : Exact(n) => /\ Whole(Due(leaf, Loose)[n])
                                         /\ memory[Due(leaf, Loose)[n]].value = Amount(leaf)[n]
        /\ leaf = "rewrite" /\ attempt = Attempts /\ Pos >= 10 => memory[B1] = Reset

\* In the middle of a body.
Running == InScript /\ InFifo /\ InEngine /\ InPending /\ InMemory /\ InPlace /\ InOrder

\* Nothing on its way can still write a record.
Quiet == pending = <<>> /\ \A k \in 1..Len(fifo) : fifo[k].op # "report"

\* After a body: a pass is about whole records of this attempt.
Returned ==
    /\ Quiet /\ descriptor = "A"
    /\ leaf \notin {"rewrite", "range"} => fifo = <<>>
    /\ failed => renderer \notin Conforming
    /\ ~failed => \A r \in Judged(leaf) : Whole(r) /\ memory[r].by = asked

\* Everything that holds until a wait has run out.
Sound ==
    /\ phase = "body" /\ todo # <<>> => Running
    /\ (phase = "body" /\ todo = <<>>) \/ phase \in {"passed", "returned"} => Returned
    /\ phase = "passed" => ~failed
    /\ phase = "ready" => Quiet /\ fifo = <<>> /\ descriptor = "A"
    /\ phase \in {"teardown", "down"} => Quiet
    /\ failed => renderer \notin Conforming
    /\ ~strayed

\* The inductive invariant.
IInv == excused \/ Sound

-----------------------------------------------------------------------------
(* Types of methods, steps and scripts                                     *)

\* The methods of NV097 that a leaf queues are well-formed words of the FIFO ...
LEMMA MethodTypes ==
    /\ \A c \in Contexts : Bind(c) \in Words
    /\ Zpass(0) \in Words /\ Zpass(1) \in Words
    /\ \A i \in {0, 1} : Report(i) \in Words
    /\ Clear \in Words /\ Draw \in Words /\ Release \in Words
  BY DEF Words, Contexts, Bind, Zpass, Report, Clear, Draw, Release, Method

\* ... and its steps are well-formed steps.
LEMMA StepTypes ==
    /\ \A ms \in Seq(Words) : Push(ms) \in Steps
    /\ Clean(Records) \in Steps /\ Clean({A1, B0, B1}) \in Steps /\ Clean({B0}) \in Steps
    /\ Await({A0}) \in Steps /\ Await({A1}) \in Steps /\ Await({B0}) \in Steps
    /\ Await({A1, B1}) \in Steps
    /\ \A x \in Relations : Check(x) \in Steps /\ Demand(x) \in Steps
    /\ Point("A") \in Steps /\ Point("B") \in Steps
    /\ Complete \in Steps /\ Shadow \in Steps /\ Look \in Steps /\ Judge \in Steps /\ Paint \in Steps
    /\ Released \in Steps
<1>1. \A ms \in Seq(Words) : Push(ms) \in Steps
  BY DEF Steps, Push
<1>2. /\ Records \in SUBSET Records /\ {A1, B0, B1} \in SUBSET Records /\ {B0} \in SUBSET Records
      /\ {A0} \in SUBSET Records /\ {A1} \in SUBSET Records /\ {A1, B1} \in SUBSET Records
  BY DEF Records, A0, A1, B0, B1
<1>3. \A rs \in SUBSET Records : Clean(rs) \in Steps /\ Await(rs) \in Steps
  BY DEF Steps, Clean, Await
<1>4. \A x \in Relations : Check(x) \in Steps /\ Demand(x) \in Steps
  BY DEF Steps, Check, Demand
<1>5. /\ Point("A") \in Steps /\ Point("B") \in Steps
      /\ Complete \in Steps /\ Shadow \in Steps /\ Look \in Steps /\ Judge \in Steps /\ Paint \in Steps
      /\ Released \in Steps
  BY DEF Steps, Point, Complete, Shadow, Look, Judge, Paint, Released
<1> QED BY <1>1, <1>2, <1>3, <1>4, <1>5

\* The line of a leaf consists of words,
LEMMA LineTyped == ASSUME NEW l \in Leaves PROVE Line(l) \in Seq(Words)
  BY MethodTypes DEF Line, Contexts, Leaves

\* the common start of every scenario of steps,
LEMMA StartTyped == Start \in Seq(Steps)
<1>1. <<Bind("a"), Zpass(0), Clear>> \in Seq(Words)
  BY MethodTypes DEF Contexts
<1>2. Push(<<Bind("a"), Zpass(0), Clear>>) \in Steps
  BY <1>1, StepTypes
<1> QED BY <1>2, StepTypes DEF Start

\* and so does the script of each leaf.
LEMMA ScriptTyped == ASSUME NEW l \in Leaves PROVE Script(l) \in Seq(Steps)
<1>1. CASE l = "zero"
  <2>1. Push(<<Draw, Report(0)>>) \in Steps
    <3> <<Draw, Report(0)>> \in Seq(Words)
      BY MethodTypes DEF Contexts
    <3> QED BY StepTypes
  <2> QED
    BY <1>1, <2>1, StartTyped, StepTypes DEF Script, ZeroQuery, Relations
<1>2. CASE l = "single"
  <2>1. Push(<<Zpass(1), Draw, Report(0)>>) \in Steps
    <3> <<Zpass(1), Draw, Report(0)>> \in Seq(Words)
      BY MethodTypes DEF Contexts
    <3> QED BY StepTypes
  <2>2. Push(<<Zpass(0), Draw>>) \in Steps
    <3> <<Zpass(0), Draw>> \in Seq(Words)
      BY MethodTypes DEF Contexts
    <3> QED BY StepTypes
  <2> QED
    BY <1>2, <2>1, <2>2, StartTyped, StepTypes DEF Script, SingleBoundary, Relations
<1>3. CASE l = "switch"
  <2>1. Push(<<Zpass(1), Draw, Report(0)>>) \in Steps
    <3> <<Zpass(1), Draw, Report(0)>> \in Seq(Words)
      BY MethodTypes DEF Contexts
    <3> QED BY StepTypes
  <2>2. Push(<<Bind("b"), Clear, Draw, Report(0), Zpass(0), Draw>>) \in Steps
    <3> <<Bind("b"), Clear, Draw, Report(0), Zpass(0), Draw>> \in Seq(Words)
      BY MethodTypes DEF Contexts
    <3> QED BY StepTypes
  <2> QED
    BY <1>3, <2>1, <2>2, StartTyped, StepTypes DEF Script, TargetSwitch, Relations
<1>4. CASE l = "clear"
  <2>1. Push(<<Zpass(1), Draw, Report(0)>>) \in Steps
    <3> <<Zpass(1), Draw, Report(0)>> \in Seq(Words)
      BY MethodTypes DEF Contexts
    <3> QED BY StepTypes
  <2>2. Push(<<Clear>> \o <<Draw, Report(1), Zpass(0)>>) \in Steps
    <3> <<Clear>> \o <<Draw, Report(1), Zpass(0)>> \in Seq(Words)
      BY MethodTypes DEF Contexts
    <3> QED BY StepTypes
  <2> QED
    BY <1>4, <2>1, <2>2, StartTyped, StepTypes DEF Script, Ordered, Relations
<1>5. CASE l \in {"multiple", "producer"}
  <2>1. Push(<<Zpass(1), Draw, Report(0)>>) \in Steps
    <3> <<Zpass(1), Draw, Report(0)>> \in Seq(Words)
      BY MethodTypes DEF Contexts
    <3> QED BY StepTypes
  <2>2. Push(<<>> \o <<Draw, Report(1), Zpass(0)>>) \in Steps
    <3> <<>> \o <<Draw, Report(1), Zpass(0)>> \in Seq(Words)
      BY MethodTypes DEF Contexts
    <3> QED BY StepTypes
  <2> QED
    BY <1>5, <2>1, <2>2, StartTyped, StepTypes DEF Script, Ordered, Relations
<1>6. CASE l = "rewrite"
  <2>1. Push(<<Zpass(1), Draw, Report(0), Zpass(0)>>) \in Steps
    <3> <<Zpass(1), Draw, Report(0), Zpass(0)>> \in Seq(Words)
      BY MethodTypes DEF Contexts
    <3> QED BY StepTypes
  <2>2. Push(<<Bind("a"), Clear, Zpass(1), Draw, Report(1)>>) \in Steps
    <3> <<Bind("a"), Clear, Zpass(1), Draw, Report(1)>> \in Seq(Words)
      BY MethodTypes DEF Contexts
    <3> QED BY StepTypes
  <2>3. Push(<<Clear, Draw, Report(0), Zpass(0)>>) \in Steps
    <3> <<Clear, Draw, Report(0), Zpass(0)>> \in Seq(Words)
      BY MethodTypes DEF Contexts
    <3> QED BY StepTypes
  <2> QED
    BY <1>6, <2>1, <2>2, <2>3, StartTyped, StepTypes DEF Script, DescriptorRewrite,
       RewriteAttempt, Relations
<1>7. CASE l = "range"
  <2>1. Push(<<Bind("limited"), Clear, Zpass(1), Draw, Report(0), Zpass(0)>>) \in Steps
    <3> <<Bind("limited"), Clear, Zpass(1), Draw, Report(0), Zpass(0)>> \in Seq(Words)
      BY MethodTypes DEF Contexts
    <3> QED BY StepTypes
  <2>2. Push(<<Zpass(0), Clear, Report(1)>>) \in Steps
    <3> <<Zpass(0), Clear, Report(1)>> \in Seq(Words)
      BY MethodTypes DEF Contexts
    <3> QED BY StepTypes
  <2>3. Push(<<Bind("b"), Report(0)>>) \in Steps
    <3> <<Bind("b"), Report(0)>> \in Seq(Words)
      BY MethodTypes DEF Contexts
    <3> QED BY StepTypes
  <2>4. Push(<<Bind("a")>>) \in Steps
    <3> <<Bind("a")>> \in Seq(Words)
      BY MethodTypes DEF Contexts
    <3> QED BY StepTypes
  <2> QED
    BY <1>7, <2>1, <2>2, <2>3, <2>4, StartTyped, StepTypes DEF Script, RangeGuard, Relations
<1> QED BY <1>1, <1>2, <1>3, <1>4, <1>5, <1>6, <1>7 DEF Leaves

-----------------------------------------------------------------------------
(* Tables.  Each says of a single step of a script what the constants of   *)
(* the first section say of it, so that the proofs about actions need not  *)
(* look into a script again.                                               *)

\* The number of steps of a leaf.
Last(l) == Len(Script(l))

\* The lengths of the scripts of RunScenario.
LEMMA LastStep ==
    /\ Last("zero") = 7 /\ Last("single") = 8 /\ Last("switch") = 10 /\ Last("clear") = 11
    /\ Last("multiple") = 11 /\ Last("producer") = 11 /\ Last("rewrite") = 18 /\ Last("range") = 15
  BY DEF Last, Script, Start, ZeroQuery, SingleBoundary, TargetSwitch, Ordered,
     DescriptorRewrite, RewriteAttempt, RangeGuard

\* A script is not empty.
LEMMA LastNat == ASSUME NEW l \in Leaves PROVE Last(l) \in Nat \ {0}
  BY LastStep DEF Leaves

\* What each step of a leaf is.
Kind(l) ==
    <<"clean", "push">> \o
    CASE l = "zero" -> <<"push", "complete", "await", "demand", "check">>
      [] l = "single" -> <<"push", "push", "complete", "await", "demand", "check">>
      [] l = "switch" -> <<"push", "push", "complete", "await", "await", "demand", "demand", "check">>
      [] l \in {"clear", "multiple", "producer"} ->
            <<"push", "push", "complete", "await", "await", "demand", "demand", "check", "check">>
      [] l = "rewrite" -> <<"push", "complete", "await", "demand", "demand",
                            "point", "clean", "push", "shadow", "look", "point", "push", "complete", "await", "await", "judge">>
      [] l = "range" -> <<"push", "complete", "await", "demand", "paint", "push", "clean", "push",
                          "complete", "await", "check", "check", "push">>

\* Kind is right about step p.
KindIs(l, p) == Script(l)[p].do = Kind(l)[p]

\* Kind is right about every step.
LEMMA Kinds == ASSUME NEW l \in Leaves, NEW p \in 1..Last(l) PROVE Script(l)[p].do = Kind(l)[p]
<1>1. CASE l = "zero"
  <2>1. \A q \in 1..7 : KindIs("zero", q)
    BY SMTT(30) DEF KindIs, Kind, Script, Start, ZeroQuery, Push, Complete, Await, Check,
                    Demand, Clean, Point, Shadow, Look, Judge, Paint
  <2> QED BY <1>1, <2>1, LastStep DEF KindIs
<1>2. CASE l = "single"
  <2>1. \A q \in 1..8 : KindIs("single", q)
    BY SMTT(30) DEF KindIs, Kind, Script, Start, SingleBoundary, Push, Complete, Await, Check,
                    Demand, Clean, Point, Shadow, Look, Judge, Paint
  <2> QED BY <1>2, <2>1, LastStep DEF KindIs
<1>3. CASE l = "switch"
  <2>1. \A q \in 1..10 : KindIs("switch", q)
    BY SMTT(30) DEF KindIs, Kind, Script, Start, TargetSwitch, Push, Complete, Await, Check,
                    Demand, Clean, Point, Shadow, Look, Judge, Paint
  <2> QED BY <1>3, <2>1, LastStep DEF KindIs
<1>4. CASE l = "clear"
  <2>1. \A q \in 1..11 : KindIs("clear", q)
    BY SMTT(30) DEF KindIs, Kind, Script, Start, Ordered, Push, Complete, Await, Check, Demand,
                    Clean, Point, Shadow, Look, Judge, Paint
  <2> QED BY <1>4, <2>1, LastStep DEF KindIs
<1>5. CASE l = "multiple"
  <2>1. \A q \in 1..11 : KindIs("multiple", q)
    BY SMTT(30) DEF KindIs, Kind, Script, Start, Ordered, Push, Complete, Await, Check, Demand,
                    Clean, Point, Shadow, Look, Judge, Paint
  <2> QED BY <1>5, <2>1, LastStep DEF KindIs
<1>6. CASE l = "producer"
  <2>1. \A q \in 1..11 : KindIs("producer", q)
    BY SMTT(30) DEF KindIs, Kind, Script, Start, Ordered, Push, Complete, Await, Check, Demand,
                    Clean, Point, Shadow, Look, Judge, Paint
  <2> QED BY <1>6, <2>1, LastStep DEF KindIs
<1>7. CASE l = "rewrite"
  <2>1. \A q \in 1..18 : KindIs("rewrite", q)
    BY SMTT(30) DEF KindIs, Kind, Script, Start, DescriptorRewrite, RewriteAttempt, Push,
                    Complete, Await, Check, Demand, Clean, Point, Shadow, Look, Judge, Paint
  <2> QED BY <1>7, <2>1, LastStep DEF KindIs
<1>8. CASE l = "range"
  <2>1. \A q \in 1..15 : KindIs("range", q)
    BY SMTT(30) DEF KindIs, Kind, Script, Start, RangeGuard, Push, Complete, Await, Check,
                    Demand, Clean, Point, Shadow, Look, Judge, Paint
  <2> QED BY <1>8, <2>1, LastStep DEF KindIs
<1> QED BY <1>1, <1>2, <1>3, <1>4, <1>5, <1>6, <1>7, <1>8 DEF Leaves

\* The n methods pushed by step p are those after the first q.
Burst(l, p, q, n) ==
    /\ Queued(l)[p] = q /\ Queued(l)[p + 1] = q + n /\ Len(Script(l)[p].arg) = n
    /\ \A k \in 1..n : Line(l)[q + k] = Script(l)[p].arg[k]

\* What a step pushes is the next piece of the line.
LEMMA PushTable ==
    ASSUME NEW l \in Leaves, NEW p \in 1..(Last(l) - 1), Script(l)[p].do = "push"
    PROVE  \E q, n \in Nat : Burst(l, p, q, n)
<1>0. Kind(l)[p] = "push"
  BY LastNat, Kinds
<1>1. CASE l = "zero"
  <2>1. p \in {2, 3}
    BY <1>0, <1>1, LastStep DEF Kind
  <2>2. Burst("zero", 2, 0, 3) /\ Burst("zero", 3, 3, 2)
    BY DEF Burst, Script, Start, ZeroQuery, Push, Queued, Line
  <2> QED BY <1>1, <2>1, <2>2
<1>2. CASE l = "single"
  <2>1. p \in {2, 3, 4}
    BY <1>0, <1>2, LastStep DEF Kind
  <2>2. Burst("single", 2, 0, 3) /\ Burst("single", 3, 3, 3) /\ Burst("single", 4, 6, 2)
    BY DEF Burst, Script, Start, SingleBoundary, Push, Queued, Line
  <2> QED BY <1>2, <2>1, <2>2
<1>3. CASE l = "switch"
  <2>1. p \in {2, 3, 4}
    BY <1>0, <1>3, LastStep DEF Kind
  <2>2. Burst("switch", 2, 0, 3) /\ Burst("switch", 3, 3, 3) /\ Burst("switch", 4, 6, 6)
    BY DEF Burst, Script, Start, TargetSwitch, Push, Queued, Line
  <2> QED BY <1>3, <2>1, <2>2
<1>4. CASE l = "clear"
  <2>1. p \in {2, 3, 4}
    BY <1>0, <1>4, LastStep DEF Kind
  <2>2. Burst("clear", 2, 0, 3) /\ Burst("clear", 3, 3, 3) /\ Burst("clear", 4, 6, 4)
    BY DEF Burst, Script, Start, Ordered, Push, Queued, Line
  <2> QED BY <1>4, <2>1, <2>2
<1>5. CASE l = "multiple"
  <2>1. p \in {2, 3, 4}
    BY <1>0, <1>5, LastStep DEF Kind
  <2>2. Burst("multiple", 2, 0, 3) /\ Burst("multiple", 3, 3, 3) /\ Burst("multiple", 4, 6, 3)
    BY DEF Burst, Script, Start, Ordered, Push, Queued, Line
  <2> QED BY <1>5, <2>1, <2>2
<1>6. CASE l = "producer"
  <2>1. p \in {2, 3, 4}
    BY <1>0, <1>6, LastStep DEF Kind
  <2>2. Burst("producer", 2, 0, 3) /\ Burst("producer", 3, 3, 3) /\ Burst("producer", 4, 6, 3)
    BY DEF Burst, Script, Start, Ordered, Push, Queued, Line
  <2> QED BY <1>6, <2>1, <2>2
<1>7. CASE l = "rewrite"
  <2>1. p \in {2, 3, 10, 14}
    BY <1>0, <1>7, LastStep DEF Kind
  <2>2. Burst("rewrite", 2, 0, 3) /\ Burst("rewrite", 3, 3, 4) /\ Burst("rewrite", 10, 8, 5) /\ Burst("rewrite", 14, 13, 4)
    BY DEF Burst, Script, Start, DescriptorRewrite, RewriteAttempt, Push, Queued, Line
  <2> QED BY <1>7, <2>1, <2>2
<1>8. CASE l = "range"
  <2>1. p \in {2, 3, 8, 10}
    BY <1>0, <1>8, LastStep DEF Kind
  <2>2. Burst("range", 2, 0, 3) /\ Burst("range", 3, 3, 6) /\ Burst("range", 8, 10, 3) /\ Burst("range", 10, 13, 2)
    BY DEF Burst, Script, Start, RangeGuard, Push, Queued, Line
  <2> QED BY <1>8, <2>1, <2>2
<1> QED BY <1>1, <1>2, <1>3, <1>4, <1>5, <1>6, <1>7, <1>8 DEF Leaves

\* Step p completes the q methods so far, of which s were known to be executed.
Sync(l, p, s, q) ==
    /\ Queued(l)[p] = q /\ Queued(l)[p + 1] = q + 1
    /\ Synced(l)[p] = s /\ Synced(l)[p + 1] = q + 1
    /\ Line(l)[q + 1] = Release
    /\ \A j \in (s + 1)..q : Line(l)[j].op # "release"

\* A semaphore is the next method of the line, and the only one since the last wait.
LEMMA CompleteTable ==
    ASSUME NEW l \in Leaves, NEW p \in 1..Last(l), Script(l)[p].do = "complete"
    PROVE  p < Last(l) /\ \E s, q \in Nat : Sync(l, p, s, q)
<1>0. Kind(l)[p] = "complete"
  BY LastNat, Kinds
<1>1. CASE l = "zero"
  <2>1. p \in {4}
    BY <1>0, <1>1, LastStep DEF Kind
  <2>2. Sync("zero", 4, 0, 5)
    BY DEF Sync, Queued, Synced, Line, Bind, Zpass, Clear, Draw, Report, Release, Method
  <2> QED BY <1>1, <2>1, <2>2, LastStep
<1>2. CASE l = "single"
  <2>1. p \in {5}
    BY <1>0, <1>2, LastStep DEF Kind
  <2>2. Sync("single", 5, 0, 8)
    BY DEF Sync, Queued, Synced, Line, Bind, Zpass, Clear, Draw, Report, Release, Method
  <2> QED BY <1>2, <2>1, <2>2, LastStep
<1>3. CASE l = "switch"
  <2>1. p \in {5}
    BY <1>0, <1>3, LastStep DEF Kind
  <2>2. Sync("switch", 5, 0, 12)
    BY DEF Sync, Queued, Synced, Line, Bind, Zpass, Clear, Draw, Report, Release, Method
  <2> QED BY <1>3, <2>1, <2>2, LastStep
<1>4. CASE l = "clear"
  <2>1. p \in {5}
    BY <1>0, <1>4, LastStep DEF Kind
  <2>2. Sync("clear", 5, 0, 10)
    BY DEF Sync, Queued, Synced, Line, Bind, Zpass, Clear, Draw, Report, Release, Method
  <2> QED BY <1>4, <2>1, <2>2, LastStep
<1>5. CASE l = "multiple"
  <2>1. p \in {5}
    BY <1>0, <1>5, LastStep DEF Kind
  <2>2. Sync("multiple", 5, 0, 9)
    BY DEF Sync, Queued, Synced, Line, Bind, Zpass, Clear, Draw, Report, Release, Method
  <2> QED BY <1>5, <2>1, <2>2, LastStep
<1>6. CASE l = "producer"
  <2>1. p \in {5}
    BY <1>0, <1>6, LastStep DEF Kind
  <2>2. Sync("producer", 5, 0, 9)
    BY DEF Sync, Queued, Synced, Line, Bind, Zpass, Clear, Draw, Report, Release, Method
  <2> QED BY <1>6, <2>1, <2>2, LastStep
<1>7. CASE l = "rewrite"
  <2>1. p \in {4, 15}
    BY <1>0, <1>7, LastStep DEF Kind
  <2>2. Sync("rewrite", 4, 0, 7) /\ Sync("rewrite", 15, 8, 17)
    BY DEF Sync, Queued, Synced, Line, Bind, Zpass, Clear, Draw, Report, Release, Method
  <2> QED BY <1>7, <2>1, <2>2, LastStep
<1>8. CASE l = "range"
  <2>1. p \in {4, 11}
    BY <1>0, <1>8, LastStep DEF Kind
  <2>2. Sync("range", 4, 0, 9) /\ Sync("range", 11, 10, 15)
    BY DEF Sync, Queued, Synced, Line, Bind, Zpass, Clear, Draw, Report, Release, Method
  <2> QED BY <1>8, <2>1, <2>2, LastStep
<1> QED BY <1>1, <1>2, <1>3, <1>4, <1>5, <1>6, <1>7, <1>8 DEF Leaves

\* A step that neither pushes, completes nor awaits moves no cursor.
Others(l, p, u) ==
    /\ Kind(l)[p] \notin {"push", "complete"} => Queued(l)[p + 1] = Queued(l)[p]
    /\ Kind(l)[p] # "complete" => Synced(l)[p + 1] = Synced(l)[p]
    /\ Kind(l)[p] # "await" => Met(l, u)[p + 1] = Met(l, u)[p]

\* ... as every step of every leaf bears out.
LEMMA OtherTable ==
    ASSUME NEW l \in Leaves, NEW u \in BOOLEAN, NEW p \in 1..(Last(l) - 1)
    PROVE  Others(l, p, u)
<1>1. CASE l = "zero"
  <2>1. \A q \in 1..6 : Others("zero", q, u)
    BY SMTT(60) DEF Others, Kind, Queued, Synced, Met, Due
  <2> QED BY <1>1, <2>1, LastStep
<1>2. CASE l = "single"
  <2>1. \A q \in 1..7 : Others("single", q, u)
    BY SMTT(60) DEF Others, Kind, Queued, Synced, Met, Due
  <2> QED BY <1>2, <2>1, LastStep
<1>3. CASE l = "switch"
  <2>1. \A q \in 1..9 : Others("switch", q, u)
    BY SMTT(60) DEF Others, Kind, Queued, Synced, Met, Due
  <2> QED BY <1>3, <2>1, LastStep
<1>4. CASE l = "clear"
  <2>1. \A q \in 1..10 : Others("clear", q, u)
    BY SMTT(60) DEF Others, Kind, Queued, Synced, Met, Due
  <2> QED BY <1>4, <2>1, LastStep
<1>5. CASE l = "multiple"
  <2>1. \A q \in 1..10 : Others("multiple", q, u)
    BY SMTT(60) DEF Others, Kind, Queued, Synced, Met, Due
  <2> QED BY <1>5, <2>1, LastStep
<1>6. CASE l = "producer"
  <2>1. \A q \in 1..10 : Others("producer", q, u)
    BY SMTT(60) DEF Others, Kind, Queued, Synced, Met, Due
  <2> QED BY <1>6, <2>1, LastStep
<1>7. CASE l = "rewrite"
  <2>1. \A q \in 1..17 : Others("rewrite", q, u)
    BY SMTT(60) DEF Others, Kind, Queued, Synced, Met, Due
  <2> QED BY <1>7, <2>1, LastStep
<1>8. CASE l = "range"
  <2>1. \A q \in 1..14 : Others("range", q, u)
    BY SMTT(60) DEF Others, Kind, Queued, Synced, Met, Due
  <2> QED BY <1>8, <2>1, LastStep
<1> QED BY <1>1, <1>2, <1>3, <1>4, <1>5, <1>6, <1>7, <1>8 DEF Leaves

\* What a step leaves as it was: only a reset makes records fresh, only a check makes them
\* kept, only the rewrite moves the descriptor.
Onward(l, p, u) ==
    /\ Kind(l)[p] # "clean" => p >= 2 /\ Fresh(l, p + 1) = Fresh(l, p) /\ ~(l = "rewrite" /\ p = 9)
    /\ Kind(l)[p] \notin {"clean", "await"} =>
           \A r \in Records : Soonest(l, u, p + 1, r) = Soonest(l, u, p, r)
    /\ Kind(l)[p] \notin {"demand", "check"} => \A f \in BOOLEAN : Kept(l, p + 1, f) = Kept(l, p, f)
    /\ Kind(l)[p] # "point" => (l = "rewrite" /\ p + 1 >= 14 <=> l = "rewrite" /\ p >= 14)
    /\ Kind(l)[p] # "look" => (l = "rewrite" /\ p + 1 >= 13 => l = "rewrite" /\ p >= 13)

\* ... as every step of every leaf bears out.
LEMMA FactsTable ==
    ASSUME NEW l \in Leaves, NEW u \in BOOLEAN, NEW p \in 1..(Last(l) - 1)
    PROVE  Onward(l, p, u)
<1>1. CASE l = "zero"
  <2>1. \A q \in 1..6 : Onward("zero", q, u)
    BY SMTT(60) DEF Onward, Kind, Soonest, Fresh, Kept, Due
  <2> QED BY <1>1, <2>1, LastStep
<1>2. CASE l = "single"
  <2>1. \A q \in 1..7 : Onward("single", q, u)
    BY SMTT(60) DEF Onward, Kind, Soonest, Fresh, Kept, Due
  <2> QED BY <1>2, <2>1, LastStep
<1>3. CASE l = "switch"
  <2>1. \A q \in 1..9 : Onward("switch", q, u)
    BY SMTT(60) DEF Onward, Kind, Soonest, Fresh, Kept, Due
  <2> QED BY <1>3, <2>1, LastStep
<1>4. CASE l = "clear"
  <2>1. \A q \in 1..10 : Onward("clear", q, u)
    BY SMTT(60) DEF Onward, Kind, Soonest, Fresh, Kept, Due
  <2> QED BY <1>4, <2>1, LastStep
<1>5. CASE l = "multiple"
  <2>1. \A q \in 1..10 : Onward("multiple", q, u)
    BY SMTT(60) DEF Onward, Kind, Soonest, Fresh, Kept, Due
  <2> QED BY <1>5, <2>1, LastStep
<1>6. CASE l = "producer"
  <2>1. \A q \in 1..10 : Onward("producer", q, u)
    BY SMTT(60) DEF Onward, Kind, Soonest, Fresh, Kept, Due
  <2> QED BY <1>6, <2>1, LastStep
<1>7. CASE l = "rewrite"
  <2>1. \A q \in 1..17 : Onward("rewrite", q, u)
    BY SMTT(60) DEF Onward, Kind, Soonest, Fresh, Kept, Due
  <2> QED BY <1>7, <2>1, LastStep
<1>8. CASE l = "range"
  <2>1. \A q \in 1..14 : Onward("range", q, u)
    BY SMTT(60) DEF Onward, Kind, Soonest, Fresh, Kept, Due
  <2> QED BY <1>8, <2>1, LastStep
<1> QED BY <1>1, <1>2, <1>3, <1>4, <1>5, <1>6, <1>7, <1>8 DEF Leaves

\* At step p everything queued is executed and everything owed is published.
Settled(l, p, u) ==
    /\ Synced(l)[p] = Queued(l)[p]
    /\ Met(l, u)[p] = Owed(l, u, Queued(l)[p])

\* A record is read, and a body ends, only when nothing is on its way.
LEMMA QuietTable ==
    ASSUME NEW l \in Leaves, NEW u \in BOOLEAN, NEW p \in 1..Last(l),
           Kind(l)[p] \in {"demand", "check", "judge"} \/ p = Last(l)
    PROVE  Settled(l, p, u)
<1>0. Kind(l)[p] \in {"demand", "check", "judge"} \/ p = Last(l)
  BY LastNat, Kinds
<1>1. CASE l = "zero"
  <2>1. \A q \in 1..7 : Kind("zero")[q] \in {"demand", "check", "judge"} \/ q = Last("zero") => Settled("zero", q, u)
    BY LastStep, SMTT(60) DEF Settled, Queued, Synced, Met, Due, Owed, Asking, Kind
  <2> QED BY <1>0, <1>1, <2>1, LastStep
<1>2. CASE l = "single"
  <2>1. \A q \in 1..8 : Kind("single")[q] \in {"demand", "check", "judge"} \/ q = Last("single") => Settled("single", q, u)
    BY LastStep, SMTT(60) DEF Settled, Queued, Synced, Met, Due, Owed, Asking, Kind
  <2> QED BY <1>0, <1>2, <2>1, LastStep
<1>3. CASE l = "switch"
  <2>1. \A q \in 1..10 : Kind("switch")[q] \in {"demand", "check", "judge"} \/ q = Last("switch") => Settled("switch", q, u)
    BY LastStep, SMTT(60) DEF Settled, Queued, Synced, Met, Due, Owed, Asking, Kind
  <2> QED BY <1>0, <1>3, <2>1, LastStep
<1>4. CASE l = "clear"
  <2>1. \A q \in 1..11 : Kind("clear")[q] \in {"demand", "check", "judge"} \/ q = Last("clear") => Settled("clear", q, u)
    BY LastStep, SMTT(60) DEF Settled, Queued, Synced, Met, Due, Owed, Asking, Kind
  <2> QED BY <1>0, <1>4, <2>1, LastStep
<1>5. CASE l = "multiple"
  <2>1. \A q \in 1..11 : Kind("multiple")[q] \in {"demand", "check", "judge"} \/ q = Last("multiple") => Settled("multiple", q, u)
    BY LastStep, SMTT(60) DEF Settled, Queued, Synced, Met, Due, Owed, Asking, Kind
  <2> QED BY <1>0, <1>5, <2>1, LastStep
<1>6. CASE l = "producer"
  <2>1. \A q \in 1..11 : Kind("producer")[q] \in {"demand", "check", "judge"} \/ q = Last("producer") => Settled("producer", q, u)
    BY LastStep, SMTT(60) DEF Settled, Queued, Synced, Met, Due, Owed, Asking, Kind
  <2> QED BY <1>0, <1>6, <2>1, LastStep
<1>7. CASE l = "rewrite"
  <2>1. \A q \in 1..18 : Kind("rewrite")[q] \in {"demand", "check", "judge"} \/ q = Last("rewrite") => Settled("rewrite", q, u)
    BY LastStep, SMTT(60) DEF Settled, Queued, Synced, Met, Due, Owed, Asking, Kind
  <2> QED BY <1>0, <1>7, <2>1, LastStep
<1>8. CASE l = "range"
  <2>1. \A q \in 1..15 : Kind("range")[q] \in {"demand", "check", "judge"} \/ q = Last("range") => Settled("range", q, u)
    BY LastStep, SMTT(60) DEF Settled, Queued, Synced, Met, Due, Owed, Asking, Kind
  <2> QED BY <1>0, <1>8, <2>1, LastStep
<1> QED BY <1>1, <1>2, <1>3, <1>4, <1>5, <1>6, <1>7, <1>8 DEF Leaves

\* The cursors stay within the line and the reports.
Bounded(l, p, u) ==
    /\ Queued(l)[p] \in 0..Len(Line(l))
    /\ Synced(l)[p] \in 0..Queued(l)[p]
    /\ Met(l, u)[p] \in 0..Len(Due(l, u))

\* ... at every step of every leaf.
LEMMA BoundsTable ==
    ASSUME NEW l \in Leaves, NEW u \in BOOLEAN, NEW p \in 1..Last(l)
    PROVE  Bounded(l, p, u)
<1>1. CASE l = "zero"
  <2>1. \A q \in 1..7 : Bounded("zero", q, u)
    BY SMTT(60) DEF Bounded, Queued, Synced, Met, Due, Line
  <2> QED BY <1>1, <2>1, LastStep
<1>2. CASE l = "single"
  <2>1. \A q \in 1..8 : Bounded("single", q, u)
    BY SMTT(60) DEF Bounded, Queued, Synced, Met, Due, Line
  <2> QED BY <1>2, <2>1, LastStep
<1>3. CASE l = "switch"
  <2>1. \A q \in 1..10 : Bounded("switch", q, u)
    BY SMTT(60) DEF Bounded, Queued, Synced, Met, Due, Line
  <2> QED BY <1>3, <2>1, LastStep
<1>4. CASE l = "clear"
  <2>1. \A q \in 1..11 : Bounded("clear", q, u)
    BY SMTT(60) DEF Bounded, Queued, Synced, Met, Due, Line
  <2> QED BY <1>4, <2>1, LastStep
<1>5. CASE l = "multiple"
  <2>1. \A q \in 1..11 : Bounded("multiple", q, u)
    BY SMTT(60) DEF Bounded, Queued, Synced, Met, Due, Line
  <2> QED BY <1>5, <2>1, LastStep
<1>6. CASE l = "producer"
  <2>1. \A q \in 1..11 : Bounded("producer", q, u)
    BY SMTT(60) DEF Bounded, Queued, Synced, Met, Due, Line
  <2> QED BY <1>6, <2>1, LastStep
<1>7. CASE l = "rewrite"
  <2>1. \A q \in 1..18 : Bounded("rewrite", q, u)
    BY SMTT(60) DEF Bounded, Queued, Synced, Met, Due, Line
  <2> QED BY <1>7, <2>1, LastStep
<1>8. CASE l = "range"
  <2>1. \A q \in 1..15 : Bounded("range", q, u)
    BY SMTT(60) DEF Bounded, Queued, Synced, Met, Due, Line
  <2> QED BY <1>8, <2>1, LastStep
<1> QED BY <1>1, <1>2, <1>3, <1>4, <1>5, <1>6, <1>7, <1>8 DEF Leaves

\* If the records W are whole, one of them awaited by step p, then the c reports finished
\* suffice for the step after it.
Waits(l, p, u) ==
    \A c \in Nat : \A W \in SUBSET Records :
        /\ Met(l, u)[p] <= c
        /\ \A r \in W : Soonest(l, u, p, r) <= c
        /\ l = "switch" /\ A0 \in W /\ B0 \in W => 2 <= c
        /\ \E r \in W : r \in Script(l)[p].arg
        => /\ Met(l, u)[p + 1] <= c
           /\ \A r \in W : Soonest(l, u, p + 1, r) <= c

\* What an Await waits for is what the next step relies on.
LEMMA AwaitTable ==
    ASSUME NEW l \in Leaves, NEW u \in BOOLEAN, NEW p \in 1..Last(l), Script(l)[p].do = "await"
    PROVE  p < Last(l) /\ Waits(l, p, u)
<1>0. Kind(l)[p] \in {"await"}
  BY LastNat, Kinds
<1>1. CASE l = "zero"
  <2>1. p \in {5}
    BY <1>0, <1>1, LastStep DEF Kind
  <2>2. Waits("zero", 5, u)
    BY DEF Waits, Met, Soonest, Due, A0, A1, B0, B1, Records, Script, Start, ZeroQuery, Push,
       Complete, Await, Check, Demand, Clean, Point, Shadow, Look, Judge, Paint
  <2> QED BY <1>1, <2>1, <2>2, LastStep
<1>2. CASE l = "single"
  <2>1. p \in {6}
    BY <1>0, <1>2, LastStep DEF Kind
  <2>2. Waits("single", 6, u)
    BY DEF Waits, Met, Soonest, Due, A0, A1, B0, B1, Records, Script, Start, SingleBoundary,
       Push, Complete, Await, Check, Demand, Clean, Point, Shadow, Look, Judge, Paint
  <2> QED BY <1>2, <2>1, <2>2, LastStep
<1>3. CASE l = "switch"
  <2>1. p \in {6, 7}
    BY <1>0, <1>3, LastStep DEF Kind
  <2>2. Waits("switch", 6, u) /\ Waits("switch", 7, u)
    <3> Script("switch")[6].arg = {A0} /\ Script("switch")[7].arg = {B0}
      BY DEF Script, Start, TargetSwitch, Await
    <3> QED BY DEF Waits, Met, Soonest
  <2> QED BY <1>3, <2>1, <2>2, LastStep
<1>4. CASE l = "clear"
  <2>1. p \in {6, 7}
    BY <1>0, <1>4, LastStep DEF Kind
  <2>2. Waits("clear", 6, u) /\ Waits("clear", 7, u)
    BY DEF Waits, Met, Soonest, Due, A0, A1, B0, B1, Records, Script, Start, Ordered, Push,
       Complete, Await, Check, Demand, Clean, Point, Shadow, Look, Judge, Paint
  <2> QED BY <1>4, <2>1, <2>2, LastStep
<1>5. CASE l = "multiple"
  <2>1. p \in {6, 7}
    BY <1>0, <1>5, LastStep DEF Kind
  <2>2. Waits("multiple", 6, u) /\ Waits("multiple", 7, u)
    BY DEF Waits, Met, Soonest, Due, A0, A1, B0, B1, Records, Script, Start, Ordered, Push,
       Complete, Await, Check, Demand, Clean, Point, Shadow, Look, Judge, Paint
  <2> QED BY <1>5, <2>1, <2>2, LastStep
<1>6. CASE l = "producer"
  <2>1. p \in {6, 7}
    BY <1>0, <1>6, LastStep DEF Kind
  <2>2. Waits("producer", 6, u) /\ Waits("producer", 7, u)
    BY DEF Waits, Met, Soonest, Due, A0, A1, B0, B1, Records, Script, Start, Ordered, Push,
       Complete, Await, Check, Demand, Clean, Point, Shadow, Look, Judge, Paint
  <2> QED BY <1>6, <2>1, <2>2, LastStep
<1>7. CASE l = "rewrite"
  <2>1. p \in {5, 16, 17}
    BY <1>0, <1>7, LastStep DEF Kind
  <2>2. Waits("rewrite", 5, u) /\ Waits("rewrite", 16, u) /\ Waits("rewrite", 17, u)
    BY DEF Waits, Met, Soonest, Due, A0, A1, B0, B1, Records, Script, Start, DescriptorRewrite,
       RewriteAttempt, Push, Complete, Await, Check, Demand, Clean, Point, Shadow, Look, Judge,
       Paint
  <2> QED BY <1>7, <2>1, <2>2, LastStep
<1>8. CASE l = "range"
  <2>1. p \in {12, 5}
    BY <1>0, <1>8, LastStep DEF Kind
  <2>2. Waits("range", 12, u) /\ Waits("range", 5, u)
    BY DEF Waits, Met, Soonest, Due, A0, A1, B0, B1, Records, Script, Start, RangeGuard, Push,
       Complete, Await, Check, Demand, Clean, Point, Shadow, Look, Judge, Paint
  <2> QED BY <1>8, <2>1, <2>2, LastStep
<1> QED BY <1>1, <1>2, <1>3, <1>4, <1>5, <1>6, <1>7, <1>8 DEF Leaves

\* The relations that say that a record is whole.
Names(relation, r) ==
    (relation = "A0" /\ r = A0) \/ (relation = "A1" /\ r = A1) \/ (relation = "B0" /\ r = B0)

\* What is kept after a check was kept before, or is what the check has found whole.
Confirms(l, p) ==
    \A f, g \in BOOLEAN : (f => g) =>
        \A r \in Kept(l, p + 1, g) :
            r \in Kept(l, p, f) \/ (Names(Script(l)[p].arg, r) /\ (Script(l)[p].do = "check" => ~g))

\* ... as every check and demand of every leaf bears out.
LEMMA DemandTable ==
    ASSUME NEW l \in Leaves, NEW p \in 1..(Last(l) - 1), Script(l)[p].do \in {"demand", "check"}
    PROVE  Confirms(l, p)
<1>0. Kind(l)[p] \in {"demand", "check"}
  BY LastNat, Kinds
<1>1. CASE l = "zero"
  <2>1. p \in {6}
    BY <1>0, <1>1, LastStep DEF Kind
  <2>2. Confirms("zero", 6)
    BY DEF Confirms, Kept, Names, Script, Start, ZeroQuery, Push, Complete, Await, Check,
       Demand, Clean, Point, Shadow, Look, Judge, Paint
  <2> QED BY <1>1, <2>1, <2>2, LastStep
<1>2. CASE l = "single"
  <2>1. p \in {7}
    BY <1>0, <1>2, LastStep DEF Kind
  <2>2. Confirms("single", 7)
    BY DEF Confirms, Kept, Names, Script, Start, SingleBoundary, Push, Complete, Await, Check,
       Demand, Clean, Point, Shadow, Look, Judge, Paint
  <2> QED BY <1>2, <2>1, <2>2, LastStep
<1>3. CASE l = "switch"
  <2>1. p \in {8, 9}
    BY <1>0, <1>3, LastStep DEF Kind
  <2>2. Confirms("switch", 8) /\ Confirms("switch", 9)
    BY DEF Confirms, Kept, Names, Script, Start, TargetSwitch, Push, Complete, Await, Check,
       Demand, Clean, Point, Shadow, Look, Judge, Paint
  <2> QED BY <1>3, <2>1, <2>2, LastStep
<1>4. CASE l = "clear"
  <2>1. p \in {8, 9, 10}
    BY <1>0, <1>4, LastStep DEF Kind
  <2>2. Confirms("clear", 8) /\ Confirms("clear", 9) /\ Confirms("clear", 10)
    BY DEF Confirms, Kept, Names, Script, Start, Ordered, Push, Complete, Await, Check, Demand,
       Clean, Point, Shadow, Look, Judge, Paint
  <2> QED BY <1>4, <2>1, <2>2, LastStep
<1>5. CASE l = "multiple"
  <2>1. p \in {8, 9, 10}
    BY <1>0, <1>5, LastStep DEF Kind
  <2>2. Confirms("multiple", 8) /\ Confirms("multiple", 9) /\ Confirms("multiple", 10)
    BY DEF Confirms, Kept, Names, Script, Start, Ordered, Push, Complete, Await, Check, Demand,
       Clean, Point, Shadow, Look, Judge, Paint
  <2> QED BY <1>5, <2>1, <2>2, LastStep
<1>6. CASE l = "producer"
  <2>1. p \in {8, 9, 10}
    BY <1>0, <1>6, LastStep DEF Kind
  <2>2. Confirms("producer", 8) /\ Confirms("producer", 9) /\ Confirms("producer", 10)
    BY DEF Confirms, Kept, Names, Script, Start, Ordered, Push, Complete, Await, Check, Demand,
       Clean, Point, Shadow, Look, Judge, Paint
  <2> QED BY <1>6, <2>1, <2>2, LastStep
<1>7. CASE l = "rewrite"
  <2>1. p \in {6, 7}
    BY <1>0, <1>7, LastStep DEF Kind
  <2>2. Confirms("rewrite", 6) /\ Confirms("rewrite", 7)
    BY DEF Confirms, Kept, Names, Script, Start, DescriptorRewrite, RewriteAttempt, Push,
       Complete, Await, Check, Demand, Clean, Point, Shadow, Look, Judge, Paint
  <2> QED BY <1>7, <2>1, <2>2, LastStep
<1>8. CASE l = "range"
  <2>1. p \in {6, 13, 14}
    BY <1>0, <1>8, LastStep DEF Kind
  <2>2. Confirms("range", 6) /\ Confirms("range", 13) /\ Confirms("range", 14)
    BY DEF Confirms, Kept, Names, Script, Start, RangeGuard, Push, Complete, Await, Check,
       Demand, Clean, Point, Shadow, Look, Judge, Paint
  <2> QED BY <1>8, <2>1, <2>2, LastStep
<1> QED BY <1>1, <1>2, <1>3, <1>4, <1>5, <1>6, <1>7, <1>8 DEF Leaves

\* The relation asserted at step p follows from the amounts due.
Expects(l, p) ==
    LET x == Script(l)[p].arg
        d == Due(l, FALSE)
        m == Met(l, FALSE)[p]
        v == Amount(l)
    IN  /\ x \in {"A0", "zero", "nonzero", "equal", "double", "targets"} => m >= 1 /\ d[1] = A0
        /\ x \in {"A1", "equal", "double"} => m >= 2 /\ d[2] = A1
        /\ x \in {"B0", "targets"} => m >= 2 /\ d[2] = B0
        /\ x = "zero" => v[1] = 0
        /\ x \in {"nonzero", "targets"} => v[1] = 1
        /\ x \in {"equal", "targets"} => v[2] = v[1]
        /\ x = "double" => v[2] = 2 * v[1]

\* Every AssertXemuPerfEqual of every leaf asks what a conforming renderer delivers.
LEMMA ExpectTable ==
    ASSUME NEW l \in Leaves, NEW p \in 1..Last(l), Script(l)[p].do \in {"demand", "check"}
    PROVE  Expects(l, p)
<1>0. Kind(l)[p] \in {"demand", "check"}
  BY LastNat, Kinds
<1>1. CASE l = "zero"
  <2>1. p \in {6, 7}
    BY <1>0, <1>1, LastStep DEF Kind
  <2>2. Expects("zero", 6) /\ Expects("zero", 7)
    BY DEF Expects, Due, Met, Amount, Script, Start, ZeroQuery, Push, Complete, Await, Check,
       Demand, Clean, Point, Shadow, Look, Judge, Paint
  <2> QED BY <1>1, <2>1, <2>2, LastStep
<1>2. CASE l = "single"
  <2>1. p \in {7, 8}
    BY <1>0, <1>2, LastStep DEF Kind
  <2>2. Expects("single", 7) /\ Expects("single", 8)
    BY DEF Expects, Due, Met, Amount, Script, Start, SingleBoundary, Push, Complete, Await,
       Check, Demand, Clean, Point, Shadow, Look, Judge, Paint
  <2> QED BY <1>2, <2>1, <2>2, LastStep
<1>3. CASE l = "switch"
  <2>1. p \in {8, 9, 10}
    BY <1>0, <1>3, LastStep DEF Kind
  <2>2. Expects("switch", 8) /\ Expects("switch", 9) /\ Expects("switch", 10)
    BY DEF Expects, Due, Met, Amount, Script, Start, TargetSwitch, Push, Complete, Await, Check,
       Demand, Clean, Point, Shadow, Look, Judge, Paint
  <2> QED BY <1>3, <2>1, <2>2, LastStep
<1>4. CASE l = "clear"
  <2>1. p \in {8, 9, 10, 11}
    BY <1>0, <1>4, LastStep DEF Kind
  <2>2. Expects("clear", 8) /\ Expects("clear", 9) /\ Expects("clear", 10) /\ Expects("clear", 11)
    BY DEF Expects, Due, Met, Amount, Script, Start, Ordered, Push, Complete, Await, Check,
       Demand, Clean, Point, Shadow, Look, Judge, Paint
  <2> QED BY <1>4, <2>1, <2>2, LastStep
<1>5. CASE l = "multiple"
  <2>1. p \in {8, 9, 10, 11}
    BY <1>0, <1>5, LastStep DEF Kind
  <2>2. Expects("multiple", 8) /\ Expects("multiple", 9) /\ Expects("multiple", 10) /\ Expects("multiple", 11)
    BY DEF Expects, Due, Met, Amount, Script, Start, Ordered, Push, Complete, Await, Check,
       Demand, Clean, Point, Shadow, Look, Judge, Paint
  <2> QED BY <1>5, <2>1, <2>2, LastStep
<1>6. CASE l = "producer"
  <2>1. p \in {8, 9, 10, 11}
    BY <1>0, <1>6, LastStep DEF Kind
  <2>2. Expects("producer", 8) /\ Expects("producer", 9) /\ Expects("producer", 10) /\ Expects("producer", 11)
    BY DEF Expects, Due, Met, Amount, Script, Start, Ordered, Push, Complete, Await, Check,
       Demand, Clean, Point, Shadow, Look, Judge, Paint
  <2> QED BY <1>6, <2>1, <2>2, LastStep
<1>7. CASE l = "rewrite"
  <2>1. p \in {6, 7}
    BY <1>0, <1>7, LastStep DEF Kind
  <2>2. Expects("rewrite", 6) /\ Expects("rewrite", 7)
    BY DEF Expects, Due, Met, Amount, Script, Start, DescriptorRewrite, RewriteAttempt, Push,
       Complete, Await, Check, Demand, Clean, Point, Shadow, Look, Judge, Paint
  <2> QED BY <1>7, <2>1, <2>2, LastStep
<1>8. CASE l = "range"
  <2>1. p \in {6, 13, 14}
    BY <1>0, <1>8, LastStep DEF Kind
  <2>2. Expects("range", 6) /\ Expects("range", 13) /\ Expects("range", 14)
    BY DEF Expects, Due, Met, Amount, Script, Start, RangeGuard, Push, Complete, Await, Check,
       Demand, Clean, Point, Shadow, Look, Judge, Paint
  <2> QED BY <1>8, <2>1, <2>2, LastStep
<1> QED BY <1>1, <1>2, <1>3, <1>4, <1>5, <1>6, <1>7, <1>8 DEF Leaves

\* The three places where records are reset.
LEMMA CleanTable ==
    ASSUME NEW l \in Leaves, NEW p \in 1..Last(l), Script(l)[p].do = "clean"
    PROVE  /\ p < Last(l)
           /\ \/ p = 1 /\ Script(l)[p].arg = Records
              \/ l = "rewrite" /\ p = 9 /\ Script(l)[p].arg = {A1, B0, B1}
              \/ l = "range" /\ p = 9 /\ Script(l)[p].arg = {B0}
<1>0. Kind(l)[p] = "clean"
  BY Kinds
<1>1. p = 1 \/ (l = "rewrite" /\ p = 9) \/ (l = "range" /\ p = 9)
  BY <1>0, LastStep DEF Kind, Leaves
<1>2. Script(l)[1].arg = Records
  BY DEF Script, Start, Clean, Leaves
<1>3. Script("rewrite")[9].arg = {A1, B0, B1} /\ Script("range")[9].arg = {B0}
  BY DEF Script, Start, DescriptorRewrite, RewriteAttempt, RangeGuard, Clean
<1> QED BY <1>1, <1>2, <1>3, LastStep DEF Leaves

\* The two places where the descriptor is rewritten.
LEMMA PointTable ==
    ASSUME NEW l \in Leaves, NEW p \in 1..Last(l), Script(l)[p].do = "point"
    PROVE  l = "rewrite" /\ ((p = 8 /\ Script(l)[p].arg = "A") \/ (p = 13 /\ Script(l)[p].arg = "B"))
<1>0. Kind(l)[p] = "point"
  BY Kinds
<1>1. l = "rewrite" /\ (p = 8 \/ p = 13)
  <2>1. CASE l \in {"zero", "single", "switch"}
    BY <1>0, <2>1, LastStep DEF Kind
  <2>2. CASE l \in {"clear", "multiple", "producer"}
    BY <1>0, <2>2, LastStep DEF Kind
  <2>3. CASE l = "range"
    BY <1>0, <2>3, LastStep DEF Kind
  <2>4. CASE l = "rewrite"
    BY <1>0, <2>4, LastStep DEF Kind
  <2> QED BY <2>1, <2>2, <2>3, <2>4 DEF Leaves
<1>2. Script("rewrite")[8].arg = "A" /\ Script("rewrite")[13].arg = "B"
  BY DEF Script, Start, DescriptorRewrite, RewriteAttempt, Point
<1> QED BY <1>1, <1>2

\* Records are kept only when nothing is on its way, but for A0 of the range guard, which stays
\* while the reports to A1 and B0 come.
KeptWhen(l, p, u) ==
    \A f \in BOOLEAN :
        \/ Kept(l, p, f) = {}
        \/ /\ Synced(l)[p] = Queued(l)[p] /\ Met(l, u)[p] = Owed(l, u, Queued(l)[p])
           /\ Kind(l)[p] # "complete"
        \/ l = "range" /\ p \in 7..12 /\ Kept(l, p, f) = {A0}

\* ... at every step of every leaf.
LEMMA KeptTable ==
    ASSUME NEW l \in Leaves, NEW u \in BOOLEAN, NEW p \in 1..Last(l)
    PROVE  KeptWhen(l, p, u)
<1>1. CASE l = "zero"
  <2>1. \A q \in 1..7 : KeptWhen("zero", q, u)
    BY SMTT(60) DEF KeptWhen, Queued, Synced, Met, Due, Owed, Asking, Kept, Kind
  <2> QED BY <1>1, <2>1, LastStep
<1>2. CASE l = "single"
  <2>1. \A q \in 1..8 : KeptWhen("single", q, u)
    BY SMTT(60) DEF KeptWhen, Queued, Synced, Met, Due, Owed, Asking, Kept, Kind
  <2> QED BY <1>2, <2>1, LastStep
<1>3. CASE l = "switch"
  <2>1. \A q \in 1..10 : KeptWhen("switch", q, u)
    BY SMTT(60) DEF KeptWhen, Queued, Synced, Met, Due, Owed, Asking, Kept, Kind
  <2> QED BY <1>3, <2>1, LastStep
<1>4. CASE l = "clear"
  <2>1. \A q \in 1..11 : KeptWhen("clear", q, u)
    BY SMTT(60) DEF KeptWhen, Queued, Synced, Met, Due, Owed, Asking, Kept, Kind
  <2> QED BY <1>4, <2>1, LastStep
<1>5. CASE l = "multiple"
  <2>1. \A q \in 1..11 : KeptWhen("multiple", q, u)
    BY SMTT(60) DEF KeptWhen, Queued, Synced, Met, Due, Owed, Asking, Kept, Kind
  <2> QED BY <1>5, <2>1, LastStep
<1>6. CASE l = "producer"
  <2>1. \A q \in 1..11 : KeptWhen("producer", q, u)
    BY SMTT(60) DEF KeptWhen, Queued, Synced, Met, Due, Owed, Asking, Kept, Kind
  <2> QED BY <1>6, <2>1, LastStep
<1>7. CASE l = "rewrite"
  <2>1. \A q \in 1..18 : KeptWhen("rewrite", q, u)
    BY SMTT(60) DEF KeptWhen, Queued, Synced, Met, Due, Owed, Asking, Kept, Kind
  <2> QED BY <1>7, <2>1, LastStep
<1>8. CASE l = "range"
  <2>1. \A q \in 1..15 : KeptWhen("range", q, u)
    BY SMTT(60) DEF KeptWhen, Queued, Synced, Met, Due, Owed, Asking, Kept, Kind
  <2> QED BY <1>8, <2>1, LastStep
<1> QED BY <1>1, <1>2, <1>3, <1>4, <1>5, <1>6, <1>7, <1>8 DEF Leaves

\* The n-th report, if it is not known to be published, may be in place once n reports are.
Soon(l, p, u) ==
    \A n \in 1..Len(Due(l, u)) : Met(l, u)[p] < n /\ p >= 2 =>
        \A r \in Records : r[2] = Due(l, u)[n][2] /\ ~(l = "range" /\ r[2] = 1) => Soonest(l, u, p, r) <= n

\* ... at every step of every leaf.
LEMMA SoonTable ==
    ASSUME NEW l \in Leaves, NEW u \in BOOLEAN, NEW p \in 1..Last(l)
    PROVE  Soon(l, p, u)
<1>1. CASE l = "zero"
  <2>1. \A q \in 1..7 : Soon("zero", q, u)
    BY SMTT(60) DEF Soon, Met, Due, Soonest, Records, A0, A1, B0
  <2> QED BY <1>1, <2>1, LastStep
<1>2. CASE l = "single"
  <2>1. \A q \in 1..8 : Soon("single", q, u)
    BY SMTT(60) DEF Soon, Met, Due, Soonest, Records, A0, A1, B0
  <2> QED BY <1>2, <2>1, LastStep
<1>3. CASE l = "switch"
  <2>1. \A q \in 1..10 : Soon("switch", q, u)
    BY SMTT(60) DEF Soon, Met, Due, Soonest, Records, A0, A1, B0
  <2> QED BY <1>3, <2>1, LastStep
<1>4. CASE l = "clear"
  <2>1. \A q \in 1..11 : Soon("clear", q, u)
    BY SMTT(60) DEF Soon, Met, Due, Soonest, Records, A0, A1, B0
  <2> QED BY <1>4, <2>1, LastStep
<1>5. CASE l = "multiple"
  <2>1. \A q \in 1..11 : Soon("multiple", q, u)
    BY SMTT(60) DEF Soon, Met, Due, Soonest, Records, A0, A1, B0
  <2> QED BY <1>5, <2>1, LastStep
<1>6. CASE l = "producer"
  <2>1. \A q \in 1..11 : Soon("producer", q, u)
    BY SMTT(60) DEF Soon, Met, Due, Soonest, Records, A0, A1, B0
  <2> QED BY <1>6, <2>1, LastStep
<1>7. CASE l = "rewrite"
  <2>1. \A q \in 1..18 : Soon("rewrite", q, u)
    BY SMTT(60) DEF Soon, Met, Due, Soonest, Records, A0, A1, B0
  <2> QED BY <1>7, <2>1, LastStep
<1>8. CASE l = "range"
  <2>1. \A q \in 1..15 : Soon("range", q, u)
    BY SMTT(60) DEF Soon, Met, Due, Soonest, Records, A0, A1, B0
  <2> QED BY <1>8, <2>1, LastStep
<1> QED BY <1>1, <1>2, <1>3, <1>4, <1>5, <1>6, <1>7, <1>8 DEF Leaves

-----------------------------------------------------------------------------
(* Tables about the line of methods                                        *)

\* The number of methods of a leaf.
Ends(l) ==
    CASE l = "zero" -> 6 [] l = "single" -> 9 [] l = "switch" -> 13 [] l = "clear" -> 11
      [] l \in {"multiple", "producer"} -> 10 [] l = "rewrite" -> 18 [] l = "range" -> 17

\* ... which is the length of its line.
LEMMA LineEnds == ASSUME NEW l \in Leaves PROVE Len(Line(l)) = Ends(l)
  BY DEF Line, Ends, Leaves

\* The method after the first j leaves the registers as BoundAt, ZpassAt and CountAt say,
RunsBound(l, j) ==
    LET m == Line(l)[j + 1]
    IN  /\ m.op = "bind" => m.arg = BoundAt(l, j + 1)
        /\ m.op # "bind" /\ j >= 1 => BoundAt(l, j + 1) = BoundAt(l, j)
        /\ j = 0 => m.op = "bind"

\* ... zero-pass counting,
RunsZpass(l, j) ==
    LET m == Line(l)[j + 1]
    IN  /\ m.op = "zpass" => m.arg = ZpassAt(l, j + 1)
        /\ m.op # "zpass" /\ j >= 2 => ZpassAt(l, j + 1) = ZpassAt(l, j)
        /\ j = 1 => m.op = "zpass"

\* ... and the counter.
RunsCount(l, j) ==
    LET m == Line(l)[j + 1]
    IN  /\ m.op = "clear" => CountAt(l, j + 1) = 0
        /\ m.op = "draw" /\ j >= 3 => CountAt(l, j + 1) = CountAt(l, j) + ZpassAt(l, j)
        /\ m.op \notin {"clear", "draw"} /\ j >= 3 => CountAt(l, j + 1) = CountAt(l, j)
        /\ j = 2 => m.op = "clear"

\* A report asked for by the method after the first j is the next one due: to the record, and
\* with the amount, that Due and Amount say.
Counts(l, u, j) ==
    LET m == Line(l)[j + 1]
        n == Owed(l, u, j) + 1
    IN  IF m.op = "report" /\ (Fits(BoundAt(l, j), m.arg) \/ u)
        THEN /\ j >= 3 /\ Owed(l, u, j + 1) = n
             /\ n \in 1..Len(Due(l, u)) /\ Due(l, u)[n][2] = m.arg
             /\ ~u => Amount(l)[n] = CountAt(l, j)
             /\ Fits(BoundAt(l, j), m.arg) = (l = "range" => m.arg = 0)
             /\ BoundAt(l, j) = "a" => Due(l, u)[n][1] = IF l = "rewrite" /\ n = 3 THEN "B" ELSE "A"
             /\ BoundAt(l, j) = "b" => Due(l, u)[n][1] = "B"
             /\ BoundAt(l, j) = "limited" => Due(l, u)[n][1] = "A"
             /\ l = "rewrite" => BoundAt(l, j) = "a" /\ j = (CASE n = 1 -> 5 [] n = 2 -> 12 [] n = 3 -> 15)
             /\ l = "range" /\ n >= 2 => BoundAt(l, j) \in {"limited", "b"}
        ELSE Owed(l, u, j + 1) = Owed(l, u, j)

\* BoundAt is right about every method of every leaf;
LEMMA BoundTable ==
    ASSUME NEW l \in Leaves, NEW j \in 0..(Ends(l) - 1)
    PROVE  RunsBound(l, j)
<1>1. CASE l = "zero"
  <2>1. \A k \in 0..5 : RunsBound("zero", k)
    BY SMTT(60) DEF RunsBound, BoundAt, Line, Bind, Zpass, Clear, Draw, Report, Release, Method
  <2> QED BY <1>1, <2>1 DEF Ends
<1>2. CASE l = "single"
  <2>1. \A k \in 0..8 : RunsBound("single", k)
    BY SMTT(60) DEF RunsBound, BoundAt, Line, Bind, Zpass, Clear, Draw, Report, Release, Method
  <2> QED BY <1>2, <2>1 DEF Ends
<1>3. CASE l = "switch"
  <2>1. \A k \in 0..12 : RunsBound("switch", k)
    BY SMTT(60) DEF RunsBound, BoundAt, Line, Bind, Zpass, Clear, Draw, Report, Release, Method
  <2> QED BY <1>3, <2>1 DEF Ends
<1>4. CASE l = "clear"
  <2>1. \A k \in 0..10 : RunsBound("clear", k)
    BY SMTT(60) DEF RunsBound, BoundAt, Line, Bind, Zpass, Clear, Draw, Report, Release, Method
  <2> QED BY <1>4, <2>1 DEF Ends
<1>5. CASE l = "multiple"
  <2>1. \A k \in 0..9 : RunsBound("multiple", k)
    BY SMTT(60) DEF RunsBound, BoundAt, Line, Bind, Zpass, Clear, Draw, Report, Release, Method
  <2> QED BY <1>5, <2>1 DEF Ends
<1>6. CASE l = "producer"
  <2>1. \A k \in 0..9 : RunsBound("producer", k)
    BY SMTT(60) DEF RunsBound, BoundAt, Line, Bind, Zpass, Clear, Draw, Report, Release, Method
  <2> QED BY <1>6, <2>1 DEF Ends
<1>7. CASE l = "rewrite"
  <2>1. \A k \in 0..17 : RunsBound("rewrite", k)
    BY SMTT(60) DEF RunsBound, BoundAt, Line, Bind, Zpass, Clear, Draw, Report, Release, Method
  <2> QED BY <1>7, <2>1 DEF Ends
<1>8. CASE l = "range"
  <2>1. \A k \in 0..16 : RunsBound("range", k)
    BY SMTT(60) DEF RunsBound, BoundAt, Line, Bind, Zpass, Clear, Draw, Report, Release, Method
  <2> QED BY <1>8, <2>1 DEF Ends
<1> QED BY <1>1, <1>2, <1>3, <1>4, <1>5, <1>6, <1>7, <1>8 DEF Leaves

\* so is ZpassAt,
LEMMA ZpassTable ==
    ASSUME NEW l \in Leaves, NEW j \in 0..(Ends(l) - 1)
    PROVE  RunsZpass(l, j)
<1>1. CASE l = "zero"
  <2>1. \A k \in 0..5 : RunsZpass("zero", k)
    BY SMTT(60) DEF RunsZpass, ZpassAt, Line, Bind, Zpass, Clear, Draw, Report, Release, Method
  <2> QED BY <1>1, <2>1 DEF Ends
<1>2. CASE l = "single"
  <2>1. \A k \in 0..8 : RunsZpass("single", k)
    BY SMTT(60) DEF RunsZpass, ZpassAt, Line, Bind, Zpass, Clear, Draw, Report, Release, Method
  <2> QED BY <1>2, <2>1 DEF Ends
<1>3. CASE l = "switch"
  <2>1. \A k \in 0..12 : RunsZpass("switch", k)
    BY SMTT(60) DEF RunsZpass, ZpassAt, Line, Bind, Zpass, Clear, Draw, Report, Release, Method
  <2> QED BY <1>3, <2>1 DEF Ends
<1>4. CASE l = "clear"
  <2>1. \A k \in 0..10 : RunsZpass("clear", k)
    BY SMTT(60) DEF RunsZpass, ZpassAt, Line, Bind, Zpass, Clear, Draw, Report, Release, Method
  <2> QED BY <1>4, <2>1 DEF Ends
<1>5. CASE l = "multiple"
  <2>1. \A k \in 0..9 : RunsZpass("multiple", k)
    BY SMTT(60) DEF RunsZpass, ZpassAt, Line, Bind, Zpass, Clear, Draw, Report, Release, Method
  <2> QED BY <1>5, <2>1 DEF Ends
<1>6. CASE l = "producer"
  <2>1. \A k \in 0..9 : RunsZpass("producer", k)
    BY SMTT(60) DEF RunsZpass, ZpassAt, Line, Bind, Zpass, Clear, Draw, Report, Release, Method
  <2> QED BY <1>6, <2>1 DEF Ends
<1>7. CASE l = "rewrite"
  <2>1. \A k \in 0..17 : RunsZpass("rewrite", k)
    BY SMTT(60) DEF RunsZpass, ZpassAt, Line, Bind, Zpass, Clear, Draw, Report, Release, Method
  <2> QED BY <1>7, <2>1 DEF Ends
<1>8. CASE l = "range"
  <2>1. \A k \in 0..16 : RunsZpass("range", k)
    BY SMTT(60) DEF RunsZpass, ZpassAt, Line, Bind, Zpass, Clear, Draw, Report, Release, Method
  <2> QED BY <1>8, <2>1 DEF Ends
<1> QED BY <1>1, <1>2, <1>3, <1>4, <1>5, <1>6, <1>7, <1>8 DEF Leaves

\* so is CountAt,
LEMMA CountTable ==
    ASSUME NEW l \in Leaves, NEW j \in 0..(Ends(l) - 1)
    PROVE  RunsCount(l, j)
<1>1. CASE l = "zero"
  <2>1. \A k \in 0..5 : RunsCount("zero", k)
    BY SMTT(60) DEF RunsCount, CountAt, ZpassAt, Line, Bind, Zpass, Clear, Draw, Report,
                    Release, Method
  <2> QED BY <1>1, <2>1 DEF Ends
<1>2. CASE l = "single"
  <2>1. \A k \in 0..8 : RunsCount("single", k)
    BY SMTT(60) DEF RunsCount, CountAt, ZpassAt, Line, Bind, Zpass, Clear, Draw, Report,
                    Release, Method
  <2> QED BY <1>2, <2>1 DEF Ends
<1>3. CASE l = "switch"
  <2>1. \A k \in 0..12 : RunsCount("switch", k)
    BY SMTT(60) DEF RunsCount, CountAt, ZpassAt, Line, Bind, Zpass, Clear, Draw, Report,
                    Release, Method
  <2> QED BY <1>3, <2>1 DEF Ends
<1>4. CASE l = "clear"
  <2>1. \A k \in 0..10 : RunsCount("clear", k)
    BY SMTT(60) DEF RunsCount, CountAt, ZpassAt, Line, Bind, Zpass, Clear, Draw, Report,
                    Release, Method
  <2> QED BY <1>4, <2>1 DEF Ends
<1>5. CASE l = "multiple"
  <2>1. \A k \in 0..9 : RunsCount("multiple", k)
    BY SMTT(60) DEF RunsCount, CountAt, ZpassAt, Line, Bind, Zpass, Clear, Draw, Report,
                    Release, Method
  <2> QED BY <1>5, <2>1 DEF Ends
<1>6. CASE l = "producer"
  <2>1. \A k \in 0..9 : RunsCount("producer", k)
    BY SMTT(60) DEF RunsCount, CountAt, ZpassAt, Line, Bind, Zpass, Clear, Draw, Report,
                    Release, Method
  <2> QED BY <1>6, <2>1 DEF Ends
<1>7. CASE l = "rewrite"
  <2>1. \A k \in 0..17 : RunsCount("rewrite", k)
    BY SMTT(60) DEF RunsCount, CountAt, ZpassAt, Line, Bind, Zpass, Clear, Draw, Report,
                    Release, Method
  <2> QED BY <1>7, <2>1 DEF Ends
<1>8. CASE l = "range"
  <2>1. \A k \in 0..16 : RunsCount("range", k)
    BY SMTT(60) DEF RunsCount, CountAt, ZpassAt, Line, Bind, Zpass, Clear, Draw, Report,
                    Release, Method
  <2> QED BY <1>8, <2>1 DEF Ends
<1> QED BY <1>1, <1>2, <1>3, <1>4, <1>5, <1>6, <1>7, <1>8 DEF Leaves

\* and so are Owed, Due and Amount.
LEMMA CountsTable ==
    ASSUME NEW l \in Leaves, NEW u \in BOOLEAN, NEW j \in 0..(Ends(l) - 1)
    PROVE  Counts(l, u, j)
<1>1. CASE l = "zero"
  <2>1. \A k \in 0..5 : Counts("zero", u, k)
    BY SMTT(60) DEF Counts, Line, BoundAt, CountAt, Owed, Asking, Due, Amount, Fits, A0, A1, B0,
                    Bind, Zpass, Clear, Draw, Report, Release, Method
  <2> QED BY <1>1, <2>1 DEF Ends
<1>2. CASE l = "single"
  <2>1. \A k \in 0..8 : Counts("single", u, k)
    BY SMTT(60) DEF Counts, Line, BoundAt, CountAt, Owed, Asking, Due, Amount, Fits, A0, A1, B0,
                    Bind, Zpass, Clear, Draw, Report, Release, Method
  <2> QED BY <1>2, <2>1 DEF Ends
<1>3. CASE l = "switch"
  <2>1. \A k \in 0..12 : Counts("switch", u, k)
    BY SMTT(60) DEF Counts, Line, BoundAt, CountAt, Owed, Asking, Due, Amount, Fits, A0, A1, B0,
                    Bind, Zpass, Clear, Draw, Report, Release, Method
  <2> QED BY <1>3, <2>1 DEF Ends
<1>4. CASE l = "clear"
  <2>1. \A k \in 0..10 : Counts("clear", u, k)
    BY SMTT(60) DEF Counts, Line, BoundAt, CountAt, Owed, Asking, Due, Amount, Fits, A0, A1, B0,
                    Bind, Zpass, Clear, Draw, Report, Release, Method
  <2> QED BY <1>4, <2>1 DEF Ends
<1>5. CASE l = "multiple"
  <2>1. \A k \in 0..9 : Counts("multiple", u, k)
    BY SMTT(60) DEF Counts, Line, BoundAt, CountAt, Owed, Asking, Due, Amount, Fits, A0, A1, B0,
                    Bind, Zpass, Clear, Draw, Report, Release, Method
  <2> QED BY <1>5, <2>1 DEF Ends
<1>6. CASE l = "producer"
  <2>1. \A k \in 0..9 : Counts("producer", u, k)
    BY SMTT(60) DEF Counts, Line, BoundAt, CountAt, Owed, Asking, Due, Amount, Fits, A0, A1, B0,
                    Bind, Zpass, Clear, Draw, Report, Release, Method
  <2> QED BY <1>6, <2>1 DEF Ends
<1>7. CASE l = "rewrite"
  <2>1. \A k \in 0..17 : Counts("rewrite", u, k)
    BY SMTT(60) DEF Counts, Line, BoundAt, CountAt, Owed, Asking, Due, Amount, Fits, A0, A1, B0,
                    Bind, Zpass, Clear, Draw, Report, Release, Method
  <2> QED BY <1>7, <2>1 DEF Ends
<1>8. CASE l = "range"
  <2>1. \A k \in 0..16 : Counts("range", u, k)
    BY SMTT(60) DEF Counts, Line, BoundAt, CountAt, Owed, Asking, Due, Amount, Fits, A0, A1, B0,
                    Bind, Zpass, Clear, Draw, Report, Release, Method
  <2> QED BY <1>8, <2>1 DEF Ends
<1> QED BY <1>1, <1>2, <1>3, <1>4, <1>5, <1>6, <1>7, <1>8 DEF Leaves

-----------------------------------------------------------------------------
(* Types of the variables                                                  *)

\* Only the leaves of the suite are run.
LEMMA LeafIsKnown == TypeOK => leaf \in Leaves
  BY ReportAssumption DEF TypeOK

\* Head and tail of a sequence that is not empty.
LEMMA TailTyped == ASSUME NEW S, NEW s \in Seq(S), s # <<>> PROVE Head(s) \in S /\ Tail(s) \in Seq(S)
  OBVIOUS

\* The empty sequence has every type that is needed.
LEMMA EmptyTyped == <<>> \in Seq(Steps) /\ <<>> \in Seq(Words) /\ <<>> \in Seq(Debts)
  OBVIOUS

\* What the argument of a step is, by what the step does.
LEMMA StepForm ==
    ASSUME TypeOK, todo # <<>>
    PROVE  /\ step \in Steps /\ Tail(todo) \in Seq(Steps)
           /\ step.do = "push" => step.arg \in Seq(Words)
           /\ step.do \in {"clean", "await"} => step.arg \in SUBSET Records
           /\ step.do = "point" => step.arg \in {"A", "B"}
           /\ step.do \in {"check", "demand"} => step.arg \in Relations
<1>1. step \in Steps /\ Tail(todo) \in Seq(Steps)
  BY TailTyped DEF TypeOK, step
<1> QED BY <1>1 DEF Steps

\* What the argument of a method is, by its opcode.
LEMMA WordForm ==
    ASSUME NEW m \in Words
    PROVE  /\ m.by \in Nat
           /\ m.op \in {"bind", "clear", "zpass", "draw", "report", "release"}
           /\ m.op = "bind" => m.arg \in Contexts
           /\ m.op \in {"zpass", "report"} => m.arg \in {0, 1}
           /\ m.op = "report" => \A a \in Nat : [m EXCEPT !.by = a] \in Words
  BY DEF Words

\* Tagging the reports keeps the types, and the length.
LEMMA AskedTyped ==
    ASSUME NEW ms \in Seq(Words), TypeOK
    PROVE  Asked(ms) \in Seq(Words) /\ Len(Asked(ms)) = Len(ms)
<1>1. \A i \in 1..Len(ms) : (IF ms[i].op = "report" THEN [ms[i] EXCEPT !.by = asked] ELSE ms[i]) \in Words
  <2> TAKE i \in 1..Len(ms)
  <2>1. ms[i] \in Words
    OBVIOUS
  <2> QED BY <2>1, WordForm DEF TypeOK
<1>2. DOMAIN ms = 1..Len(ms) /\ Len(ms) \in Nat
  OBVIOUS
<1>3. Asked(ms) \in [1..Len(ms) -> Words]
  BY <1>1, <1>2 DEF Asked
<1> QED BY <1>2, <1>3

\* The steps of one rewrite attempt are steps.
LEMMA AttemptTyped == RewriteAttempt \in Seq(Steps)
  <2>2. Push(<<Bind("a"), Clear, Zpass(1), Draw, Report(1)>>) \in Steps
    <3> <<Bind("a"), Clear, Zpass(1), Draw, Report(1)>> \in Seq(Words)
      BY MethodTypes DEF Contexts
    <3> QED BY StepTypes
  <2>3. Push(<<Clear, Draw, Report(0), Zpass(0)>>) \in Steps
    <3> <<Clear, Draw, Report(0), Zpass(0)>> \in Seq(Words)
      BY MethodTypes DEF Contexts
    <3> QED BY StepTypes
  <2> QED
    BY <2>2, <2>3, StepTypes DEF RewriteAttempt

\* Initially the variables are well-typed,
LEMMA InitTyped == ASSUME Init PROVE TypeOK
<1>1. memory \in [Records -> Contents]
  BY DEF Init, Reset, Contents
<1>2. 0 \in 0..Attempts /\ 0 \in 0..MaxBodies
  BY ReportAssumption
<1> QED BY <1>1, <1>2, EmptyTyped DEF Init, TypeOK, Contexts

\* and every step keeps them so.
LEMMA Typed == ASSUME TypeOK, [Next]_vars PROVE TypeOK'
<1> USE DEF observed
<1>1. ASSUME NEW l \in Scenarios, RunScenario(l) PROVE TypeOK'
  <2>1. Script(l) \in Seq(Steps)
    BY ScriptTyped, ReportAssumption
  <2>2. bodies' \in 0..MaxBodies /\ asked' \in Nat
    BY <1>1, ReportAssumption DEF RunScenario, TypeOK
  <2>3. attempt' \in 0..Attempts
    BY <1>1, ReportAssumption DEF RunScenario
  <2> QED BY <1>1, <2>1, <2>2, <2>3 DEF RunScenario, TypeOK, engine
<1>2. CASE PushMethods
  <2>1. fifo' \in Seq(Words)
    BY <1>2, StepForm, AskedTyped DEF PushMethods, At, TypeOK
  <2> QED BY <1>2, <2>1, StepForm DEF PushMethods, At, Advance, TypeOK
<1>3. CASE WriteMemory
  <2>1. memory' \in [Records -> Contents]
    BY <1>3, StepForm DEF WriteMemory, At, TypeOK, Reset, Contents
  <2>2. descriptor' \in {"A", "B"} /\ canaries' \in BOOLEAN
    BY <1>3, StepForm DEF WriteMemory, At, TypeOK
  <2> QED BY <1>3, <2>1, <2>2, StepForm DEF WriteMemory, At, Advance, TypeOK, engine
<1>4. CASE CompleteGpuWork
  <2>1. fifo' \in Seq(Words)
    BY <1>4, MethodTypes DEF CompleteGpuWork, TypeOK
  <2>2. todo' \in Seq(Steps)
    BY <1>4, StepForm, StepTypes DEF CompleteGpuWork, At, Released
  <2> QED BY <1>4, <2>1, <2>2 DEF CompleteGpuWork, TypeOK
<1>5. CASE SemaphoreSeen
  BY <1>5, StepForm DEF SemaphoreSeen, At, Advance, TypeOK, engine
<1>6. CASE RecordSeen
  BY <1>6, StepForm DEF RecordSeen, At, Advance, TypeOK, engine
<1>7. CASE ShadowSeen
  BY <1>7, StepForm DEF ShadowSeen, At, Advance, TypeOK, engine
<1>8. CASE TimesOut
  <2>1. failed' \in BOOLEAN /\ todo' \in Seq(Steps) /\ descriptor' \in {"A", "B"}
    BY <1>8, StepForm, EmptyTyped DEF TimesOut, At, Advance, Abandon, TypeOK
  <2>2. UNCHANGED <<renderer, phase, leaf, bodies, strayed, attempt, looked, engine, memory, canaries, asked>>
    BY <1>8 DEF TimesOut, Advance, Abandon
  <2>3. excused' \in BOOLEAN
    BY <1>8 DEF TimesOut
  <2> QED BY <2>1, <2>2, <2>3 DEF TypeOK, engine
<1>9. CASE AssertXemuPerfEqual
  <2>1. (failed \/ ~Holds(step.arg)) \in BOOLEAN
    OBVIOUS
  <2> HIDE DEF Holds
  <2>2. failed' \in BOOLEAN /\ todo' \in Seq(Steps) /\ descriptor' \in {"A", "B"}
    <3>1. CASE Abandon
      BY <3>1, EmptyTyped DEF Abandon
    <3>2. CASE failed' = (failed \/ ~Holds(step.arg)) /\ Advance /\ UNCHANGED descriptor
      BY <1>9, <2>1, <3>2, StepForm DEF AssertXemuPerfEqual, At, Advance, TypeOK
    <3> QED BY <1>9, <3>1, <3>2 DEF AssertXemuPerfEqual
  <2>3. UNCHANGED <<renderer, phase, leaf, bodies, strayed, attempt, looked, engine, memory, canaries, asked, excused>>
    BY <1>9 DEF AssertXemuPerfEqual, Advance, Abandon
  <2> QED BY <2>2, <2>3 DEF TypeOK, engine
<1>10. CASE LookAtA1
  <2>0. memory[A1].state \in {"reset", "part", "done"}
    BY DEF TypeOK, Contents, Records, A1
  <2>1. /\ failed' \in BOOLEAN /\ todo' \in Seq(Steps) /\ descriptor' \in {"A", "B"}
        /\ looked' \in {"nothing", "reset", "done", "part"} /\ excused' \in BOOLEAN
    <3>1. CASE memory[A1].state = "part"
      BY <1>10, <3>1, EmptyTyped DEF LookAtA1, Abandon
    <3>2. CASE memory[A1].state # "part"
      BY <1>10, <2>0, <3>2, StepForm DEF LookAtA1, At, Advance, TypeOK
    <3> QED BY <3>1, <3>2
  <2>2. UNCHANGED <<renderer, phase, leaf, bodies, strayed, attempt, engine, memory, canaries, asked>>
    BY <1>10 DEF LookAtA1, Advance, Abandon
  <2> QED BY <2>1, <2>2 DEF TypeOK, engine
<1>11. CASE JudgeAttempt
  <2>1. fifo' \in Seq(Words)
    <3>1. Append(fifo, Bind("a")) \in Seq(Words) /\ fifo \in Seq(Words)
      BY MethodTypes DEF TypeOK, Contexts
    <3> QED BY <1>11, <3>1 DEF JudgeAttempt
  <2>2. todo' \in Seq(Steps)
    BY <1>11, AttemptTyped, EmptyTyped DEF JudgeAttempt
  <2>3. attempt' \in 0..Attempts
    <3>1. CASE MoreDelays
      BY <1>11, <3>1, ReportAssumption DEF JudgeAttempt, MoreDelays, TypeOK
    <3>2. CASE ~MoreDelays
      BY <1>11, <3>2 DEF JudgeAttempt, TypeOK
    <3> QED BY <3>1, <3>2
  <2>4. asked' \in Nat
    BY <1>11 DEF JudgeAttempt, TypeOK
  <2>5. failed' \in BOOLEAN
    BY <1>11 DEF JudgeAttempt, TypeOK
  <2> QED BY <1>11, <2>1, <2>2, <2>3, <2>4, <2>5 DEF JudgeAttempt, TypeOK
<1>12. CASE EndBody
  BY <1>12 DEF EndBody, TypeOK, engine
<1>13. CASE EndTest
  BY <1>13 DEF EndTest, TypeOK, Contexts
<1>14. CASE Deinitialize
  <2>1. <<Zpass(0), Bind("full_ram"), Release>> \in Seq(Words)
    BY MethodTypes DEF Contexts
  <2>2. fifo' \in Seq(Words)
    BY <1>14, <2>1 DEF Deinitialize, TypeOK
  <2> QED BY <1>14, <2>2 DEF Deinitialize, TypeOK
<1>15. CASE FreeReportMemory
  BY <1>15 DEF FreeReportMemory, TypeOK, engine
<1>16. CASE ExecuteMethod
  <2>1. Head(fifo) \in Words /\ fifo' \in Seq(Words)
    BY <1>16, TailTyped DEF ExecuteMethod, TypeOK
  <2>2. bound' \in Contexts /\ zpass' \in {0, 1} /\ semaphore' \in BOOLEAN
    BY <1>16, <2>1, WordForm DEF ExecuteMethod, TypeOK
  <2>3. count' \in Nat
    BY <1>16 DEF ExecuteMethod, TypeOK
  <2>4. pending' \in Seq(Debts)
    <3>1. CASE Head(fifo).op = "report"
      <4>1. Head(fifo).arg \in {0, 1} /\ Head(fifo).by \in Nat
        BY <2>1, <3>1, WordForm
      <4>2. Target(bound) \in {"A", "B", "elsewhere"}
        BY DEF Target, TypeOK, Contexts
      <4>3. Fits(bound, Head(fifo).arg) \in BOOLEAN
        BY DEF Fits
      <4>4. [target |-> Target(bound), index |-> Head(fifo).arg, value |-> count, by |-> Head(fifo).by,
             fits |-> Fits(bound, Head(fifo).arg), part |-> FALSE] \in Debts
        BY <4>1, <4>2, <4>3 DEF Debts, TypeOK
      <4>5. pending \in Seq(Debts)
        BY DEF TypeOK
      <4>6. pending' \in {pending, Append(pending,
            [target |-> Target(bound), index |-> Head(fifo).arg, value |-> count, by |-> Head(fifo).by,
             fits |-> Fits(bound, Head(fifo).arg), part |-> FALSE])}
        BY <1>16, <3>1 DEF ExecuteMethod, Consume
      <4> QED BY <4>4, <4>5, <4>6
    <3>2. CASE Head(fifo).op # "report"
      BY <1>16, <3>2 DEF ExecuteMethod, TypeOK
    <3> QED BY <3>1, <3>2
  <2> QED BY <1>16, <2>1, <2>2, <2>3, <2>4 DEF ExecuteMethod, TypeOK, thread
<1>17. CASE PublishReport
  <2> DEFINE p == Head(pending)
             target == IF renderer = "late" THEN Target(bound) ELSE p.target
             written == [state |-> IF p.part THEN "done" ELSE "part", value |-> p.value, by |-> p.by]
  <2>1. pending # <<>> /\ p \in Debts /\ Tail(pending) \in Seq(Debts)
    BY <1>17, TailTyped DEF PublishReport, TypeOK
  <2>2. written \in Contents /\ p.index \in {0, 1} /\ p.fits \in BOOLEAN
    BY <2>1 DEF Debts, Contents
  <2>3. memory' \in [Records -> Contents]
    <3>1. memory' = IF target \in {"A", "B"} /\ p.fits
                    THEN [memory EXCEPT ![<<target, p.index>>] = written] ELSE memory
      BY <1>17 DEF PublishReport
    <3> HIDE DEF p, target, written
    <3> QED BY <2>2, <3>1 DEF TypeOK, Records
  <2>4. pending' \in Seq(Debts)
    <3>1. [p EXCEPT !.part = TRUE] \in Debts
      BY <2>1 DEF Debts
    <3>2. [pending EXCEPT ![1].part = TRUE] \in Seq(Debts)
      BY <2>1, <3>1 DEF TypeOK
    <3> QED BY <1>17, <2>1, <3>2 DEF PublishReport
  <2>5. canaries' \in BOOLEAN /\ strayed' \in BOOLEAN
    BY <1>17, <2>2 DEF PublishReport, TypeOK
  <2> HIDE DEF p, target, written
  <2> QED BY <1>17, <2>3, <2>4, <2>5 DEF PublishReport, TypeOK, thread
<1>18. CASE LoseReport
  BY <1>18, TailTyped DEF LoseReport, TypeOK, thread
<1>19. CASE UNCHANGED vars
  BY <1>19 DEF TypeOK, vars, thread, engine
<1>20. CASE BeginTest \/ NextSample
  BY <1>1, <1>20 DEF BeginTest, NextSample, TypeOK
<1> QED
  BY <1>2, <1>3, <1>4, <1>5, <1>6, <1>7, <1>8, <1>9, <1>10, <1>11, <1>12, <1>13, <1>14, <1>15,
     <1>16,
     <1>17, <1>18, <1>19, <1>20 DEF Next, TestThread

-----------------------------------------------------------------------------
(* The cursors are where they should be                                    *)

\* The second half of CompleteGpuWork is in no script.
LEMMA NoReleased == ASSUME NEW l \in Leaves, NEW p \in 1..Last(l) PROVE Kind(l)[p] # "released"
<1>1. CASE l \in {"zero", "single", "switch"}
  BY <1>1, LastStep DEF Kind
<1>2. CASE l \in {"clear", "multiple", "producer"}
  BY <1>2, LastStep DEF Kind
<1>3. CASE l = "rewrite"
  BY <1>3, LastStep DEF Kind
<1>4. CASE l = "range"
  BY <1>4, LastStep DEF Kind
<1> QED BY <1>1, <1>2, <1>3, <1>4 DEF Leaves

\* One to three reports are due, and no more are owed.
LEMMA OwedBounds ==
    ASSUME NEW l \in Leaves, NEW u \in BOOLEAN, NEW j \in Int
    PROVE  Owed(l, u, j) \in 0..Len(Due(l, u)) /\ Len(Due(l, u)) \in 1..3
  BY DEF Owed, Asking, Due, Leaves

\* The bounds of the cursors, in numbers.
LEMMA QueuedBounds ==
    ASSUME NEW l \in Leaves, NEW u \in BOOLEAN, NEW p \in 1..Last(l)
    PROVE  /\ Queued(l)[p] \in 0..Ends(l) /\ Synced(l)[p] \in 0..Queued(l)[p]
           /\ Met(l, u)[p] \in 0..Len(Due(l, u)) /\ Ends(l) \in Nat
<1>1. Ends(l) \in Nat
  BY DEF Ends, Leaves
<1> QED BY <1>1, BoundsTable, LineEnds DEF Bounded

\* In the middle of a body the next step is the one the script has at Pos, or the second half
\* of it.
LEMMA Underway ==
    ASSUME TypeOK, todo # <<>>, InScript
    PROVE  /\ leaf \in Leaves /\ Loose \in BOOLEAN /\ Last(leaf) \in Nat \ {0} /\ Pos \in 1..Last(leaf)
           /\ Len(todo) = Last(leaf) + 1 - Pos /\ step = todo[1]
           /\ Script(leaf)[Pos].do = Kind(leaf)[Pos]
           /\ Waiting => step.do = "released" /\ Kind(leaf)[Pos] = "complete" /\ Pos < Last(leaf)
           /\ ~Waiting => step = Script(leaf)[Pos] /\ step.do = Kind(leaf)[Pos] /\ step.do # "released"
<1>1. leaf \in Leaves /\ Loose \in BOOLEAN
  BY LeafIsKnown DEF Loose
<1>2. Last(leaf) \in Nat \ {0}
  BY <1>1, LastNat
<1>3. Pos \in 1..Last(leaf) /\ Len(todo) = Last(leaf) + 1 - Pos /\ step = todo[1]
  BY <1>2 DEF InScript, Pos, Last, TypeOK, step
<1>4. Script(leaf)[Pos].do = Kind(leaf)[Pos]
  BY <1>1, <1>3, Kinds
<1>5. ASSUME Waiting PROVE step.do = "released" /\ Kind(leaf)[Pos] = "complete" /\ Pos < Last(leaf)
  <2>1. step = Released
    BY <1>3, <1>5 DEF Waiting
  <2>2. Script(leaf)[Pos] # Released
    BY <1>1, <1>3, <1>4, NoReleased DEF Released
  <2>3. Script(leaf)[Pos] = Complete
    BY <1>3, <2>1, <2>2 DEF InScript
  <2>4. Script(leaf)[Pos].do = "complete"
    BY <2>3 DEF Complete
  <2>5. Pos < Last(leaf)
    BY <1>1, <1>3, <2>4, CompleteTable
  <2> QED BY <1>4, <2>1, <2>4, <2>5 DEF Released
<1>6. ASSUME ~Waiting PROVE step = Script(leaf)[Pos] /\ step.do = Kind(leaf)[Pos] /\ step.do # "released"
  BY <1>1, <1>3, <1>4, <1>6, NoReleased DEF InScript, Waiting
<1> QED BY <1>1, <1>2, <1>3, <1>4, <1>5, <1>6

\* Out <= Done <= Given, and the two queues are as long as the distances.
LEMMA Cursors ==
    ASSUME TypeOK, todo # <<>>, InScript, InFifo, InPending
    PROVE  /\ Given \in 0..Ends(leaf) /\ Ends(leaf) \in Nat
           /\ Done \in 0..Given /\ Len(fifo) = Given - Done /\ Len(fifo) \in Nat
           /\ Out \in 0..Owed(leaf, Loose, Done) /\ Len(pending) = Owed(leaf, Loose, Done) - Out
           /\ Len(pending) \in Nat
           /\ Owed(leaf, Loose, Done) \in 0..Len(Due(leaf, Loose)) /\ Len(Due(leaf, Loose)) \in 1..3
<1>1. Queued(leaf)[Pos] \in 0..Ends(leaf) /\ Synced(leaf)[Pos] \in 0..Queued(leaf)[Pos]
      /\ Met(leaf, Loose)[Pos] \in 0..Len(Due(leaf, Loose)) /\ Ends(leaf) \in Nat
  BY Underway, QueuedBounds
<1>2. Given \in 0..Ends(leaf)
  <2>1. CASE Waiting
    <3>1. \E s, q \in Nat : Sync(leaf, Pos, s, q)
      BY <2>1, Underway, CompleteTable
    <3>2. Queued(leaf)[Pos + 1] = Queued(leaf)[Pos] + 1 /\ Pos + 1 \in 1..Last(leaf)
      BY <2>1, <3>1, Underway DEF Sync
    <3>3. Queued(leaf)[Pos + 1] \in 0..Ends(leaf)
      BY <3>2, Underway, QueuedBounds
    <3> QED BY <1>1, <2>1, <3>2, <3>3 DEF Given
  <2>2. CASE ~Waiting
    BY <1>1, <2>2 DEF Given
  <2> QED BY <2>1, <2>2
<1>3. Len(fifo) \in Nat /\ Len(pending) \in Nat
  BY DEF TypeOK
<1>4. Done \in 0..Given /\ Len(fifo) = Given - Done
  BY <1>1, <1>2, <1>3 DEF Done, InFifo
<1>5. Owed(leaf, Loose, Done) \in 0..Len(Due(leaf, Loose)) /\ Len(Due(leaf, Loose)) \in 1..3
  <2>1. Done \in Int /\ leaf \in Leaves /\ Loose \in BOOLEAN
    BY <1>1, <1>2, <1>4, Underway
  <2> QED BY <2>1, OwedBounds
<1> QED BY <1>1, <1>2, <1>3, <1>4, <1>5 DEF Out, InPending

\* Taking a step moves Pos by one, or ends the body.
LEMMA Advancing ==
    ASSUME TypeOK, todo # <<>>, InScript, todo' = Tail(todo), leaf' = leaf
    PROVE  /\ (todo' = <<>>) = (Pos = Last(leaf))
           /\ Pos < Last(leaf) =>
                /\ todo' # <<>> /\ Pos' = Pos + 1 /\ InScript' /\ ~Waiting'
                /\ Given' = Queued(leaf)[Pos + 1]
<1>1. Len(todo) = Last(leaf) + 1 - Pos /\ Pos \in 1..Last(leaf) /\ Last(leaf) \in Nat /\ leaf \in Leaves
  BY Underway
<1>2. Len(todo') = Len(todo) - 1 /\ \A k \in 1..(Len(todo) - 1) : todo'[k] = todo[k + 1]
  BY DEF TypeOK
<1>3. todo' \in Seq(Steps)
  BY DEF TypeOK
<1>4. (todo' = <<>>) = (Pos = Last(leaf))
  BY <1>1, <1>2, <1>3
<1>5. ASSUME Pos < Last(leaf)
      PROVE  /\ todo' # <<>> /\ Pos' = Pos + 1 /\ InScript' /\ ~Waiting'
             /\ Given' = Queued(leaf)[Pos + 1]
  <2>1. todo' # <<>>
    BY <1>1, <1>4, <1>5
  <2>2. Pos' = Pos + 1
    BY <1>1, <1>2 DEF Pos, Last
  <2>3. \A k \in 1..Len(todo') : todo'[k] = Script(leaf)[Pos + k]
    <3> TAKE k \in 1..Len(todo')
    <3>1. k + 1 \in 2..Len(todo) /\ todo'[k] = todo[k + 1]
      BY <1>1, <1>2
    <3>2. todo[k + 1] = Script(leaf)[Pos + (k + 1) - 1]
      BY <3>1 DEF InScript
    <3> QED BY <1>1, <3>1, <3>2
  <2>4. todo'[1] = Script(leaf)[Pos + 1] /\ Pos + 1 \in 1..Last(leaf)
    BY <1>1, <1>2, <1>5, <2>3
  <2>5. InScript'
    <3>1. \A k \in 2..Len(todo') : todo'[k] = Script(leaf)[Pos + 1 + k - 1]
      BY <1>1, <1>2, <2>3
    <3> QED BY <2>2, <2>4, <3>1 DEF InScript, Last
  <2>6. ~Waiting'
    <3>1. Script(leaf)[Pos + 1].do # "released"
      <4> DEFINE q == Pos + 1
      <4>1. q \in 1..Last(leaf) /\ leaf \in Leaves
        BY <1>1, <2>4
      <4> HIDE DEF q
      <4>2. Script(leaf)[q].do = Kind(leaf)[q] /\ Kind(leaf)[q] # "released"
        BY <4>1, Kinds, NoReleased
      <4>3. Script(leaf)[q].do # "released"
        BY <4>2
      <4> QED BY <4>3 DEF q
    <3>2. Released.do = "released"
      BY DEF Released
    <3>3. todo'[1] # Released
      <4> SUFFICES ASSUME todo'[1] = Released PROVE FALSE
        OBVIOUS
      <4>1. Script(leaf)[Pos + 1] = Released
        BY <2>4
      <4> QED BY <3>1, <3>2, <4>1
    <3> QED BY <3>3 DEF Waiting
  <2>7. Given' = Queued(leaf)[Pos + 1]
    <3>1. Queued(leaf)[Pos + 1] \in Nat
      <4> DEFINE q == Pos + 1
      <4>1. q \in 1..Last(leaf) /\ leaf \in Leaves
        BY <1>1, <2>4
      <4> HIDE DEF q
      <4>2. Queued(leaf)[q] \in 0..Ends(leaf) /\ Ends(leaf) \in Nat
        BY <4>1, QueuedBounds, Underway
      <4> QED BY <4>2 DEF q
    <3> QED BY <2>2, <2>6, <3>1 DEF Given
  <2> QED BY <2>1, <2>2, <2>5, <2>6, <2>7
<1> QED BY <1>4, <1>5

-----------------------------------------------------------------------------
(* Steps of the test thread that do not end the body                       *)

\* The thread advances, and PFIFO and the publisher stay where they are.
Onwards ==
    /\ phase = "body" /\ todo # <<>> /\ Running
    /\ todo' = Tail(todo) /\ Pos < Last(leaf)
    /\ UNCHANGED <<renderer, phase, leaf, attempt, asked, bound, zpass, count, pending>>
    /\ Queued(leaf)[Pos + 1] - Len(fifo') = Done

\* Then so do their cursors, and the registers,
LEMMA Moved ==
    ASSUME TypeOK, TypeOK', Onwards
    PROVE  /\ todo' # <<>> /\ Pos' = Pos + 1 /\ Done' = Done /\ Out' = Out /\ Loose' = Loose
           /\ InScript' /\ ~Waiting' /\ InEngine'
<1>1. todo' # <<>> /\ Pos' = Pos + 1 /\ InScript' /\ ~Waiting' /\ Given' = Queued(leaf)[Pos + 1]
  BY Advancing DEF Onwards, Running
<1>2. Done' = Done
  BY <1>1 DEF Done, Onwards
<1>3. Loose' = Loose
  BY DEF Loose, Onwards
<1>4. Out' = Out
  BY <1>2, <1>3 DEF Out, Onwards
<1>5. InEngine'
  BY <1>2 DEF InEngine, Running, Onwards
<1> QED BY <1>1, <1>2, <1>3, <1>4, <1>5

\* the reports owed, if the next step relies on no more than is met,
LEMMA MovedPending ==
    ASSUME TypeOK, TypeOK', Onwards, Met(leaf, Loose)[Pos + 1] <= Out
    PROVE  InPending'
<1>1. Pos' = Pos + 1 /\ Out' = Out /\ Loose' = Loose
  BY Moved
<1>2. InPending
  BY DEF Onwards, Running
<1>3. UNCHANGED <<leaf, asked, pending>>
  BY DEF Onwards
<1> QED BY <1>1, <1>2, <1>3 DEF InPending

\* and the methods queued, if it relies on no more than is synced.
LEMMA MovedFifo ==
    ASSUME TypeOK, TypeOK', Onwards, fifo' = fifo, Synced(leaf)[Pos + 1] <= Done,
           leaf = "rewrite" /\ attempt = Attempts /\ Pos + 1 >= 13 => Done >= 13
    PROVE  InFifo'
<1>1. Pos' = Pos + 1 /\ Done' = Done /\ ~Waiting'
  BY Moved
<1>2. InFifo
  BY DEF Onwards, Running
<1>3. UNCHANGED <<leaf, asked, fifo, attempt>>
  BY DEF Onwards
<1> QED BY <1>1, <1>2, <1>3 DEF InFifo, Tag

\* What the tables say of the step taken.
LEMMA Facts ==
    ASSUME TypeOK, Onwards
    PROVE  /\ Onward(leaf, Pos, Loose) /\ Others(leaf, Pos, Loose) /\ leaf \in Leaves /\ Loose \in BOOLEAN
           /\ Pos \in 1..(Last(leaf) - 1) /\ Last(leaf) \in Nat
<1>1. leaf \in Leaves /\ Loose \in BOOLEAN /\ Pos \in 1..(Last(leaf) - 1) /\ Last(leaf) \in Nat
  BY Underway DEF Onwards, Running
<1> QED BY <1>1, FactsTable, OtherTable

\* A step that does not touch the records, or learn about them, keeps InMemory;
LEMMA SteadyMemory ==
    ASSUME TypeOK, TypeOK', Onwards, memory' = memory, failed' = failed,
           Kind(leaf)[Pos] \notin {"clean", "await", "demand", "check"}
    PROVE  InMemory'
<1>1. Pos' = Pos + 1 /\ Out' = Out /\ Loose' = Loose /\ UNCHANGED <<leaf, asked, memory, failed>>
  BY Moved DEF Onwards
<1>2. InMemory
  BY DEF Onwards, Running
<1>3. Pos >= 2 /\ Fresh(leaf, Pos + 1) = Fresh(leaf, Pos)
      /\ \A r \in Records : Soonest(leaf, Loose, Pos + 1, r) = Soonest(leaf, Loose, Pos, r)
  BY Facts DEF Onward
<1>4. Kept(leaf, Pos + 1, failed) = Kept(leaf, Pos, failed)
  BY Facts DEF Onward, TypeOK
<1> QED BY <1>1, <1>2, <1>3, <1>4 DEF InMemory, Whole

\* one that does not rewrite the descriptor keeps InPlace;
LEMMA SteadyPlace ==
    ASSUME TypeOK, TypeOK', Onwards, descriptor' = descriptor, Kind(leaf)[Pos] # "point"
    PROVE  InPlace'
<1>1. Pos' = Pos + 1 /\ UNCHANGED leaf
  BY Moved DEF Onwards
<1>2. InPlace
  BY DEF Onwards, Running
<1>3. leaf = "rewrite" /\ Pos + 1 >= 14 <=> leaf = "rewrite" /\ Pos >= 14
  BY Facts DEF Onward
<1> QED BY <1>1, <1>2, <1>3 DEF InPlace

\* one that does not reset a record, and whose assertion holds, keeps InOrder.
LEMMA SteadyOrder ==
    ASSUME TypeOK, TypeOK', Onwards, memory' = memory, Kind(leaf)[Pos] # "clean",
           renderer \in Conforming /\ ~failed /\ canaries => ~failed' /\ canaries'
    PROVE  InOrder'
<1>1. Pos' = Pos + 1 /\ Out' = Out /\ Loose' = Loose /\ UNCHANGED <<leaf, renderer, attempt, pending, memory>>
  BY Moved DEF Onwards
<1>2. InOrder
  BY DEF Onwards, Running
<1>3. leaf = "rewrite" /\ Pos + 1 >= 10 => Pos >= 10
  BY Facts DEF Onward
<1> QED BY <1>1, <1>2, <1>3 DEF InOrder, Whole, Exact

\* When a record is read, and at the last step, nothing is on its way.
LEMMA Idle ==
    ASSUME TypeOK, todo # <<>>, InScript, InFifo, InPending,
           Kind(leaf)[Pos] \in {"demand", "check", "judge"} \/ Pos = Last(leaf)
    PROVE  ~Waiting /\ fifo = <<>> /\ pending = <<>> /\ Done = Given /\ Out = Owed(leaf, Loose, Done)
<1>1. ~Waiting
  BY Underway
<1>2. Settled(leaf, Pos, Loose)
  BY Underway, QuietTable
<1>3. Given = Queued(leaf)[Pos]
  BY <1>1, Cursors, Underway, QueuedBounds DEF Given
<1>4. Done = Given /\ Len(fifo) = 0
  BY <1>2, <1>3, Cursors DEF Settled, InFifo
<1>5. Out = Owed(leaf, Loose, Done) /\ Len(pending) = 0
  BY <1>2, <1>3, <1>4, Cursors DEF Settled, InPending
<1> QED BY <1>1, <1>4, <1>5 DEF TypeOK

\* What a leaf is judged by is what its checks have found whole.
LEMMA KeptLast ==
    ASSUME NEW l \in Leaves
    PROVE  /\ l # "rewrite" => Judged(l) = Kept(l, Last(l), FALSE)
           /\ Judged(l) \subseteq Fresh(l, Last(l)) /\ Judged(l) \subseteq Records
  BY LastStep DEF Leaves, Judged, Kept, Fresh, Records, A0, A1, B0, B1

-----------------------------------------------------------------------------
(* One lemma per action of the test thread                                 *)

\* A step within a body concerns only what holds within a body, or after it.
LEMMA InBody ==
    ASSUME TypeOK, Sound, phase' = "body", strayed' = strayed,
           todo' # <<>> => Running', todo' = <<>> => Returned'
    PROVE  Sound'
  BY DEF Sound, Running, InOrder, Returned

\* What the last steps are.
LEMMA Lasts ==
    ASSUME NEW l \in Leaves
    PROVE  Kind(l)[Last(l)] = IF l = "rewrite" THEN "judge" ELSE IF l = "range" THEN "push" ELSE "check"
  BY LastStep DEF Leaves, Kind

\* The range guard ends by binding context a again.
LEMMA LastPush ==
    ASSUME NEW ms, Script("range")[15] = Push(ms)
    PROVE  ms = <<Bind("a")>>
  BY DEF Script, Start, RangeGuard, Push

\* What holds when a step of the script is taken.
LEMMA Taking ==
    ASSUME TypeOK, Sound, NEW do, At(do), do # "released"
    PROVE  /\ Running /\ phase = "body" /\ todo # <<>> /\ ~Waiting /\ step = Script(leaf)[Pos]
           /\ Kind(leaf)[Pos] = do /\ leaf \in Leaves /\ Loose \in BOOLEAN
           /\ Pos \in 1..Last(leaf) /\ Last(leaf) \in Nat /\ Given = Queued(leaf)[Pos]
           /\ Queued(leaf)[Pos] \in 0..Ends(leaf) /\ Ends(leaf) \in Nat
<1>1. Running /\ phase = "body" /\ todo # <<>>
  BY DEF Sound, At
<1>2. ~Waiting
  BY <1>1, Underway DEF Running, At
<1>3. /\ step = Script(leaf)[Pos] /\ Kind(leaf)[Pos] = do /\ leaf \in Leaves /\ Loose \in BOOLEAN
      /\ Pos \in 1..Last(leaf) /\ Last(leaf) \in Nat
  BY <1>1, <1>2, Underway DEF Running, At
<1>4. Queued(leaf)[Pos] \in 0..Ends(leaf) /\ Ends(leaf) \in Nat
  BY <1>3, QueuedBounds
<1>5. Given = Queued(leaf)[Pos]
  BY <1>2, <1>4 DEF Given
<1> QED BY <1>1, <1>2, <1>3, <1>4, <1>5

\* Only the thread has moved, over a step that neither pushes nor completes.
LEMMA Passing ==
    ASSUME TypeOK, Sound, NEW do, At(do), do \notin {"released", "push", "complete"},
           Advance, UNCHANGED <<attempt, asked, engine>>, Pos < Last(leaf)
    PROVE  Onwards /\ fifo' = fifo /\ Synced(leaf)[Pos + 1] <= Done /\ Others(leaf, Pos, Loose)
           /\ Onward(leaf, Pos, Loose)
<1>1. /\ Running /\ phase = "body" /\ todo # <<>> /\ ~Waiting /\ Kind(leaf)[Pos] = do /\ leaf \in Leaves
      /\ Loose \in BOOLEAN /\ Pos \in 1..(Last(leaf) - 1) /\ Given = Queued(leaf)[Pos]
  BY Taking
<1>2. Others(leaf, Pos, Loose) /\ Onward(leaf, Pos, Loose)
  BY <1>1, OtherTable, FactsTable
<1>3. Queued(leaf)[Pos + 1] = Given /\ Synced(leaf)[Pos + 1] = Synced(leaf)[Pos]
  BY <1>1, <1>2 DEF Others
<1>4. Onwards
  BY <1>1, <1>3 DEF Onwards, Advance, engine, Done
<1> QED BY <1>1, <1>2, <1>3, <1>4 DEF engine, Running, InFifo

\* Length and elements of a concatenation.
LEMMA Joined ==
    ASSUME NEW S, NEW s \in Seq(S), NEW t \in Seq(S)
    PROVE  /\ Len(s \o t) = Len(s) + Len(t) /\ Len(s) \in Nat /\ Len(t) \in Nat
           /\ \A k \in 1..Len(s) : (s \o t)[k] = s[k]
           /\ \A k \in 1..Len(t) : (s \o t)[Len(s) + k] = t[k]
  OBVIOUS

\* PushMethods: the FIFO grows by the next piece of the line.
LEMMA PushKeeps == ASSUME TypeOK, TypeOK', Sound, PushMethods PROVE Sound'
<1> DEFINE ms == step.arg
<1>1. /\ Running /\ phase = "body" /\ todo # <<>> /\ ~Waiting /\ Kind(leaf)[Pos] = "push" /\ leaf \in Leaves
      /\ Loose \in BOOLEAN /\ Pos \in 1..Last(leaf) /\ Last(leaf) \in Nat /\ Given = Queued(leaf)[Pos]
      /\ step = Script(leaf)[Pos] /\ step.do = "push"
  BY Taking DEF PushMethods, At
<1>2. ms \in Seq(Words) /\ Asked(ms) \in Seq(Words) /\ Len(Asked(ms)) = Len(ms) /\ Len(ms) \in Nat
  BY <1>1, StepForm, AskedTyped
<1>3. \A k \in 1..Len(ms) : Asked(ms)[k] = Tag(ms[k])
  BY <1>2 DEF Asked, Tag
<1>4. phase' = "body" /\ strayed' = strayed
  BY <1>1 DEF PushMethods, Advance
<1>5. ASSUME Pos < Last(leaf) PROVE Running'
  <2>1. PICK q \in Nat, n \in Nat : Burst(leaf, Pos, q, n)
    BY <1>1, <1>5, PushTable
  <2>2. /\ Given = q /\ Queued(leaf)[Pos + 1] = q + n /\ Len(ms) = n
        /\ \A k \in 1..n : Line(leaf)[q + k] = ms[k]
    BY <1>1, <2>1 DEF Burst
  <2>3. Len(fifo') = Len(fifo) + n /\ Len(fifo) \in Nat /\ Len(fifo) = Given - Done /\ Done \in Nat
        /\ Out \in Nat
    <3>1. Len(fifo) = Given - Done /\ Done \in Nat /\ Len(fifo) \in Nat /\ Out \in Nat
      BY <1>1, Cursors DEF Running
    <3>2. fifo' = fifo \o Asked(ms) /\ fifo \in Seq(Words)
      BY DEF PushMethods, TypeOK
    <3> HIDE DEF ms
    <3>3. Len(fifo') = Len(fifo) + Len(Asked(ms))
      BY <1>2, <3>2, Joined
    <3> QED BY <1>2, <2>2, <3>1, <3>3
  <2>4. Onwards
    BY <1>1, <1>5, <2>2, <2>3 DEF Onwards, PushMethods, Advance
  <2>5. Pos' = Pos + 1 /\ Done' = Done /\ Out' = Out /\ ~Waiting' /\ InScript' /\ InEngine' /\ todo' # <<>>
    BY <2>4, Moved
  <2>6. Others(leaf, Pos, Loose) /\ Onward(leaf, Pos, Loose)
    BY <2>4, Facts
  <2>7. InPending'
    BY <1>1, <2>4, <2>6, MovedPending DEF Others, Running, InPending
  <2>8. \A k \in 1..Len(fifo') : fifo'[k] = Tag(Line(leaf)[Done + k])
    <3> TAKE k \in 1..Len(fifo')
    <3>1. CASE k <= Len(fifo)
      <4>1. fifo'[k] = fifo[k]
        BY <1>2, <2>3, <3>1 DEF PushMethods, TypeOK
      <4> QED BY <1>1, <2>3, <3>1, <4>1 DEF Running, InFifo
    <3>2. CASE k > Len(fifo)
      <4>1. fifo'[k] = Asked(ms)[k - Len(fifo)] /\ k - Len(fifo) \in 1..Len(ms)
        <5>1. fifo' = fifo \o Asked(ms) /\ fifo \in Seq(Words)
          BY DEF PushMethods, TypeOK
        <5> HIDE DEF ms
        <5>2. k - Len(fifo) \in 1..Len(ms) /\ Len(fifo) + (k - Len(fifo)) = k
          BY <1>2, <2>2, <2>3, <3>2
        <5>3. (fifo \o Asked(ms))[Len(fifo) + (k - Len(fifo))] = Asked(ms)[k - Len(fifo)]
          BY <1>2, <5>1, <5>2, Joined
        <5> QED BY <5>1, <5>2, <5>3
      <4> HIDE DEF ms
      <4>2. q + (k - Len(fifo)) = Done + k
        BY <2>2, <2>3, <4>1
      <4>3. ms[k - Len(fifo)] = Line(leaf)[q + (k - Len(fifo))]
        BY <2>2, <4>1
      <4> QED BY <1>3, <4>1, <4>2, <4>3
    <3> QED BY <2>3, <3>1, <3>2
  <2>9. InFifo'
    <3>1. Synced(leaf)[Pos + 1] <= Done
      BY <1>1, <2>6 DEF Others, Running, InFifo
    <3>2. leaf = "rewrite" /\ attempt = Attempts /\ Pos + 1 >= 13 => Done >= 13
      BY <1>1, <2>6 DEF Onward, Running, InFifo
    <3>3. UNCHANGED <<leaf, asked, attempt>>
      BY DEF PushMethods, Advance
    <3> QED BY <2>5, <2>8, <3>1, <3>2, <3>3 DEF InFifo, Tag
  <2>10. InMemory' /\ InPlace' /\ InOrder'
    BY <1>1, <2>4, SteadyMemory, SteadyPlace, SteadyOrder DEF PushMethods
  <2> QED BY <2>5, <2>7, <2>9, <2>10 DEF Running
<1>6. ASSUME Pos = Last(leaf) PROVE Returned'
  <2>1. fifo = <<>> /\ pending = <<>>
    BY <1>1, <1>6, Idle DEF Running
  <2>2. leaf = "range"
    BY <1>1, <1>6, Lasts
  <2>3. ms = <<Bind("a")>>
    <3>1. Script("range")[15] = Push(ms)
      <4>1. step = Script("range")[15]
        BY <1>1, <1>6, <2>2, LastStep
      <4>2. Script("range")[15] = Push(<<Bind("a")>>)
        BY DEF Script, Start, RangeGuard
      <4> QED BY <4>1, <4>2 DEF Push
    <3> QED BY <3>1, LastPush
  <2>4. fifo' = Asked(<<Bind("a")>>)
    BY <2>1, <2>3, <1>2 DEF PushMethods
  <2>5. \A k \in 1..Len(fifo') : fifo'[k].op # "report"
    <3>1. Len(ms) = 1 /\ ms[1].op = "bind"
      BY <2>3 DEF Bind, Method
    <3>2. fifo' = Asked(ms)
      BY <2>3, <2>4
    <3> HIDE DEF ms
    <3>3. Asked(ms)[1] = ms[1]
      <4>1. 1 \in 1..Len(ms)
        BY <3>1
      <4>2. Asked(ms)[1] = Tag(ms[1])
        BY <1>3, <4>1
      <4> QED BY <3>1, <4>2 DEF Tag
    <3>4. fifo'[1].op = "bind" /\ Len(fifo') = 1
      BY <1>2, <3>1, <3>2, <3>3
    <3> QED BY <3>4
  <2>6. descriptor' = "A"
    BY <1>1, <2>2 DEF Running, InPlace, PushMethods
  <2>7. failed => renderer \notin Conforming
    BY <1>1 DEF Running, InOrder
  <2>8. ASSUME ~failed, NEW r \in Judged(leaf) PROVE Whole(r) /\ memory[r].by = asked
    <3>1. r \in Kept(leaf, Pos, failed) /\ r \in Fresh(leaf, Pos)
      BY <1>1, <1>6, <2>2, <2>8, KeptLast DEF TypeOK
    <3>2. Whole(r) /\ (memory[r].state = "reset" \/ memory[r].by = asked)
      BY <1>1, <3>1 DEF Running, InMemory
    <3> QED BY <3>2 DEF Whole
  <2> QED BY <2>1, <2>2, <2>5, <2>6, <2>7, <2>8 DEF Returned, Quiet, PushMethods, Advance, Whole
<1>7. (todo' = <<>>) = (Pos = Last(leaf))
  BY <1>1, Advancing DEF Running, PushMethods, Advance
<1> QED BY <1>1, <1>4, <1>5, <1>6, <1>7, InBody

\* SemaphoreSeen: everything up to the semaphore is executed.
LEMMA SemaphoreKeeps == ASSUME TypeOK, TypeOK', Sound, SemaphoreSeen PROVE Sound'
<1>1. Running /\ phase = "body" /\ todo # <<>> /\ step.do = "released" /\ semaphore
  BY DEF Sound, SemaphoreSeen, At
<1>2. /\ Waiting /\ Kind(leaf)[Pos] = "complete" /\ Script(leaf)[Pos].do = "complete" /\ Pos \in 1..(Last(leaf) - 1)
      /\ leaf \in Leaves /\ Last(leaf) \in Nat
  BY <1>1, Underway DEF Running
<1>3. fifo = <<>> /\ Done = Given
  BY <1>1, <1>2, Cursors DEF Running, InFifo
<1>4. PICK s \in Nat, q \in Nat : Sync(leaf, Pos, s, q)
  BY <1>2, CompleteTable
<1>5. Given = q + 1 /\ Queued(leaf)[Pos + 1] = q + 1 /\ Synced(leaf)[Pos + 1] = q + 1
  BY <1>2, <1>4 DEF Sync, Given
<1>6. Onwards /\ fifo' = fifo
  BY <1>1, <1>2, <1>3, <1>5 DEF Onwards, SemaphoreSeen, Advance, engine
<1>7. Others(leaf, Pos, Loose) /\ Onward(leaf, Pos, Loose)
  BY <1>6, Facts
<1>8. InFifo'
  BY <1>1, <1>2, <1>3, <1>5, <1>6, <1>7, MovedFifo DEF Onward, Running, InFifo
<1>9. InPending'
  BY <1>1, <1>2, <1>6, <1>7, MovedPending DEF Others, Running, InPending
<1>10. InMemory' /\ InPlace' /\ InOrder'
  BY <1>2, <1>6, SteadyMemory, SteadyPlace, SteadyOrder DEF SemaphoreSeen
<1> QED BY <1>1, <1>6, <1>8, <1>9, <1>10, Moved, InBody DEF Running, SemaphoreSeen, Advance

\* ShadowSeen: the thread learns nothing that later steps rely on.
LEMMA ShadowKeeps == ASSUME TypeOK, TypeOK', Sound, ShadowSeen PROVE Sound'
<1>1. /\ Running /\ phase = "body" /\ Kind(leaf)[Pos] = "shadow" /\ Pos < Last(leaf) /\ At("shadow")
  BY Taking, Lasts DEF ShadowSeen
<1>2. Onwards /\ fifo' = fifo /\ Synced(leaf)[Pos + 1] <= Done /\ Others(leaf, Pos, Loose) /\ Onward(leaf, Pos, Loose)
  BY <1>1, Passing DEF ShadowSeen
<1>3. InFifo'
  BY <1>1, <1>2, MovedFifo DEF Onward, Running, InFifo
<1>4. InPending'
  BY <1>1, <1>2, MovedPending DEF Others, Running, InPending
<1>5. InMemory' /\ InPlace' /\ InOrder'
  BY <1>1, <1>2, SteadyMemory, SteadyPlace, SteadyOrder DEF ShadowSeen
<1> QED BY <1>1, <1>2, <1>3, <1>4, <1>5, Moved, InBody DEF Running, ShadowSeen, Advance

\* RecordSeen: a whole record tells how far the publisher is.
LEMMA AwaitKeeps == ASSUME TypeOK, TypeOK', Sound, RecordSeen PROVE Sound'
<1>1. /\ Running /\ phase = "body" /\ todo # <<>> /\ Kind(leaf)[Pos] = "await" /\ Pos \in 1..Last(leaf) /\ Pos < Last(leaf)
      /\ At("await") /\ step = Script(leaf)[Pos] /\ step.do = "await" /\ leaf \in Leaves /\ Loose \in BOOLEAN
  BY Taking, Lasts DEF RecordSeen, At
<1>2. Onwards /\ fifo' = fifo /\ Synced(leaf)[Pos + 1] <= Done /\ Others(leaf, Pos, Loose) /\ Onward(leaf, Pos, Loose)
  BY <1>1, Passing DEF RecordSeen
<1>3. InFifo'
  BY <1>1, <1>2, MovedFifo DEF Onward, Running, InFifo
<1> DEFINE W == {r \in Records : Whole(r)}
<1>4. Met(leaf, Loose)[Pos + 1] <= Out /\ \A r \in W : Soonest(leaf, Loose, Pos + 1, r) <= Out
  <2>1. Waits(leaf, Pos, Loose)
    BY <1>1, AwaitTable
  <2>2. Out \in Nat /\ W \in SUBSET Records
    BY <1>1, Cursors DEF Running
  <2>3. Met(leaf, Loose)[Pos] <= Out
    BY <1>1 DEF Running, InPending
  <2>4. Pos >= 2
    BY <1>1, <1>2 DEF Onward
  <2>5. \A r \in W : Soonest(leaf, Loose, Pos, r) <= Out
    BY <1>1, <2>4 DEF Running, InMemory
  <2>6. leaf = "switch" /\ A0 \in W /\ B0 \in W => 2 <= Out
    BY <1>1, <2>4 DEF Running, InMemory
  <2>7. \E r \in W : r \in Script(leaf)[Pos].arg
    <3>1. PICK r \in step.arg : Whole(r)
      BY DEF RecordSeen
    <3>2. step.arg \in SUBSET Records
      BY <1>1, StepForm
    <3> QED BY <1>1, <3>1, <3>2
  <2> HIDE DEF W
  <2> QED BY <2>1, <2>2, <2>3, <2>5, <2>6, <2>7 DEF Waits
<1>5. InPending'
  BY <1>2, <1>4, MovedPending
<1>6. InMemory'
  <2>1. Pos' = Pos + 1 /\ Out' = Out /\ Loose' = Loose /\ UNCHANGED <<leaf, asked, memory, failed>>
    BY <1>2, Moved DEF Onwards, RecordSeen
  <2>2. Pos >= 2 /\ Fresh(leaf, Pos + 1) = Fresh(leaf, Pos) /\ Kept(leaf, Pos + 1, failed) = Kept(leaf, Pos, failed)
    BY <1>1, <1>2 DEF Onward, TypeOK
  <2> QED BY <1>1, <1>4, <2>1, <2>2 DEF InMemory, Whole, Running
<1>7. InPlace' /\ InOrder'
  BY <1>1, <1>2, SteadyPlace, SteadyOrder DEF RecordSeen
<1> QED BY <1>1, <1>2, <1>3, <1>5, <1>6, <1>7, Moved, InBody DEF Running, RecordSeen, Advance

\* There is one way to complete.
LEMMA CompleteForm == ASSUME NEW s \in Steps, s.do = "complete" PROVE s = Complete
  BY DEF Steps, Complete

\* CompleteGpuWork, first half: one more method is queued, and no semaphore is left over.
LEMMA CompleteKeeps == ASSUME TypeOK, TypeOK', Sound, CompleteGpuWork PROVE Sound'
<1>1. /\ Running /\ phase = "body" /\ todo # <<>> /\ ~Waiting /\ Kind(leaf)[Pos] = "complete" /\ leaf \in Leaves
      /\ Loose \in BOOLEAN /\ Pos \in 1..Last(leaf) /\ Last(leaf) \in Nat /\ Given = Queued(leaf)[Pos]
      /\ step = Script(leaf)[Pos] /\ step.do = "complete" /\ step \in Steps
  BY Taking, StepForm DEF CompleteGpuWork, At
<1>2. Script(leaf)[Pos] = Complete
  BY <1>1, CompleteForm
<1>3. PICK s \in Nat, q \in Nat : Sync(leaf, Pos, s, q)
  BY <1>1, CompleteTable
<1>4. /\ Queued(leaf)[Pos] = q /\ Synced(leaf)[Pos] = s /\ Line(leaf)[q + 1] = Release
  BY <1>3 DEF Sync
<1>5. Len(fifo) = Given - Done /\ Done \in Nat /\ Len(fifo) \in Nat /\ Out \in Nat
  BY <1>1, Cursors DEF Running
<1>6. UNCHANGED <<renderer, phase, leaf, attempt, failed, bound, zpass, count, pending, descriptor, memory,
                  canaries, asked, strayed>>
  BY DEF CompleteGpuWork, observed
<1>7. todo' # <<>> /\ Len(todo') = Len(todo) /\ todo'[1] = Released /\ \A k \in 2..Len(todo) : todo'[k] = todo[k]
  <2>1. Tail(todo) \in Seq(Steps) /\ Len(Tail(todo)) = Len(todo) - 1
        /\ \A k \in 1..(Len(todo) - 1) : Tail(todo)[k] = todo[k + 1]
    BY <1>1 DEF TypeOK
  <2>2. <<Released>> \in Seq(Steps) /\ Len(<<Released>>) = 1 /\ <<Released>>[1] = Released
    BY StepTypes
  <2>3. todo' = <<Released>> \o Tail(todo) /\ todo \in Seq(Steps) /\ Len(todo) \in Nat /\ todo' \in Seq(Steps)
    BY DEF CompleteGpuWork, Released, TypeOK
  <2>4. Len(todo') = Len(todo)
    BY <2>1, <2>2, <2>3, Joined
  <2>5. \A k \in 1..(Len(todo) - 1) : todo'[1 + k] = todo[k + 1]
    BY <2>1, <2>2, <2>3, Joined
  <2>6. todo'[1] = Released
    BY <2>1, <2>2, <2>3, Joined
  <2>7. todo' # <<>>
    BY <1>1, <2>3, <2>4
  <2>8. \A k \in 2..Len(todo) : todo'[k] = todo[k]
    <3> TAKE k \in 2..Len(todo)
    <3>1. k - 1 \in 1..(Len(todo) - 1) /\ 1 + (k - 1) = k /\ (k - 1) + 1 = k
      BY <2>3
    <3>2. todo'[1 + (k - 1)] = todo[(k - 1) + 1]
      BY <2>5, <3>1
    <3> QED BY <3>1, <3>2
  <2> QED BY <2>4, <2>6, <2>7, <2>8
<1>8. Pos' = Pos /\ Waiting' /\ Loose' = Loose
  BY <1>6, <1>7 DEF Pos, Waiting, Loose
<1>9. InScript'
  BY <1>1, <1>2, <1>6, <1>7, <1>8 DEF InScript, Running
<1>10. Len(fifo') = Len(fifo) + 1 /\ fifo'[Len(fifo) + 1] = Release /\ \A k \in 1..Len(fifo) : fifo'[k] = fifo[k]
  BY MethodTypes DEF CompleteGpuWork, TypeOK
<1>11. Given' = Given + 1 /\ Done' = Done /\ Out' = Out
  <2>1. Given' = Given + 1
    BY <1>1, <1>4, <1>6, <1>8 DEF Given
  <2>2. Done' = Done
    BY <1>1, <1>4, <1>5, <1>10, <2>1 DEF Done
  <2> QED BY <1>6, <1>8, <2>1, <2>2 DEF Out
<1>12. InFifo'
  <2>1. \A k \in 1..Len(fifo') : fifo'[k] = Tag(Line(leaf)[Done + k])
    <3> TAKE k \in 1..Len(fifo')
    <3>1. CASE k \in 1..Len(fifo)
      BY <1>1, <1>10, <3>1 DEF Running, InFifo
    <3>2. CASE k = Len(fifo) + 1
      <4>1. Done + k = q + 1
        BY <1>1, <1>4, <1>5, <3>2
      <4>2. Tag(Release) = Release
        BY DEF Tag, Release, Method
      <4> QED BY <1>4, <1>10, <3>2, <4>1, <4>2
    <3> QED BY <1>5, <1>10, <3>1, <3>2
  <2>2. semaphore' = FALSE
    BY DEF CompleteGpuWork
  <2> QED BY <1>1, <1>6, <1>8, <1>11, <2>1, <2>2 DEF InFifo, Running, Tag
<1>13. InEngine' /\ InPending' /\ InMemory' /\ InPlace'
  BY <1>1, <1>6, <1>8, <1>11 DEF InEngine, InPending, InMemory, InPlace, Whole, Running
<1>14. InOrder'
  BY <1>1, <1>6, <1>8, <1>11 DEF InOrder, Exact, Whole, Running
<1> QED BY <1>1, <1>6, <1>7, <1>9, <1>12, <1>13, <1>14, InBody DEF Running

\* LookAtA1: on the last attempt the FIFO is empty when A1 is looked at.
LEMMA LookKeeps == ASSUME TypeOK, TypeOK', Sound, LookAtA1, ~excused' PROVE Sound'
<1>1. /\ Running /\ phase = "body" /\ todo # <<>> /\ Kind(leaf)[Pos] = "look" /\ Pos < Last(leaf) /\ At("look")
      /\ leaf \in Leaves /\ Pos \in 1..Last(leaf) /\ Given = Queued(leaf)[Pos]
  BY Taking, Lasts DEF LookAtA1
<1>2. Advance /\ UNCHANGED <<failed, descriptor, attempt, engine, memory, canaries, asked>>
  BY DEF LookAtA1, TypeOK
<1>3. Onwards /\ fifo' = fifo /\ Synced(leaf)[Pos + 1] <= Done /\ Others(leaf, Pos, Loose) /\ Onward(leaf, Pos, Loose)
  BY <1>1, <1>2, Passing
<1>4. leaf = "rewrite" /\ Pos = 12
  <2>1. CASE leaf \in {"zero", "single", "switch"}
    BY <1>1, <2>1, LastStep DEF Kind
  <2>2. CASE leaf \in {"clear", "multiple", "producer"}
    BY <1>1, <2>2, LastStep DEF Kind
  <2>3. CASE leaf = "range"
    BY <1>1, <2>3, LastStep DEF Kind
  <2>4. CASE leaf = "rewrite"
    BY <1>1, <2>4, LastStep DEF Kind
  <2> QED BY <1>1, <2>1, <2>2, <2>3, <2>4 DEF Leaves
<1>5. attempt = Attempts => Done = 13
  <2>1. Given = 13
    BY <1>1, <1>4 DEF Queued
  <2>2. attempt = Attempts => Len(fifo) = 0
    BY DEF LookAtA1
  <2> QED BY <1>1, <2>1, <2>2, Cursors DEF Running
<1>6. InFifo'
  BY <1>3, <1>5, MovedFifo
<1>7. InPending'
  BY <1>1, <1>3, MovedPending DEF Others, Running, InPending
<1>8. InMemory' /\ InPlace' /\ InOrder'
  BY <1>1, <1>2, <1>3, SteadyMemory, SteadyPlace, SteadyOrder
<1> QED BY <1>1, <1>2, <1>3, <1>6, <1>7, <1>8, Moved, InBody DEF Running, Advance

\* ResetRecord: what is reset has no report on its way from before.
LEMMA CleanKeeps == ASSUME TypeOK, TypeOK', Sound, WriteMemory, At("clean") PROVE Sound'
<1>1. /\ Running /\ phase = "body" /\ todo # <<>> /\ Kind(leaf)[Pos] = "clean" /\ Pos < Last(leaf)
      /\ leaf \in Leaves /\ Loose \in BOOLEAN /\ Pos \in 1..Last(leaf) /\ Given = Queued(leaf)[Pos]
      /\ step = Script(leaf)[Pos] /\ step.do = "clean"
  BY Taking, Lasts DEF At
<1>2. /\ Advance /\ UNCHANGED <<attempt, looked, failed, engine, asked, excused, descriptor>>
      /\ memory' = [r \in Records |-> IF r \in step.arg THEN Reset ELSE memory[r]]
      /\ canaries' = canaries
  BY <1>1 DEF WriteMemory, TypeOK
<1>3. Onwards /\ fifo' = fifo /\ Synced(leaf)[Pos + 1] <= Done /\ Others(leaf, Pos, Loose)
  BY <1>1, <1>2, Passing
<1>4. /\ Pos' = Pos + 1 /\ Out' = Out /\ Loose' = Loose /\ Done' = Done
      /\ UNCHANGED <<leaf, renderer, asked, failed, pending, attempt>>
  BY <1>2, <1>3, Moved DEF Onwards
<1>5. \/ Pos = 1 /\ step.arg = Records
      \/ leaf = "rewrite" /\ Pos = 9 /\ step.arg = {A1, B0, B1}
      \/ leaf = "range" /\ Pos = 9 /\ step.arg = {B0}
  BY <1>1, CleanTable
<1>6. /\ Len(pending) = Owed(leaf, Loose, Done) - Out /\ Done \in 0..Given /\ Out \in Nat /\ Len(pending) \in Nat
      /\ Met(leaf, Loose)[Pos] <= Out /\ Out \in 0..Owed(leaf, Loose, Done)
  BY <1>1, Cursors DEF Running, InPending
<1>7. InFifo'
  <2>1. ~(leaf = "rewrite" /\ Pos + 1 >= 13)
    BY <1>5
  <2> QED BY <1>3, <2>1, MovedFifo
<1>8. InPending'
  BY <1>1, <1>3, MovedPending DEF Others, Running, InPending
<1>9. InPlace'
  BY <1>1, <1>2, <1>3, SteadyPlace
<1>10. Reset.state = "reset"
  BY DEF Reset
<1>11. A0 \in Records /\ A1 \in Records /\ B0 \in Records /\ B1 \in Records /\ A0 # A1 /\ A0 # B0 /\ A0 # B1
       /\ Records = {A0, A1, B0, B1}
  BY DEF A0, A1, B0, B1, Records
<1>12. \A r \in Records : memory'[r] = IF r \in step.arg THEN Reset ELSE memory[r]
  BY <1>2
<1>13. CASE Pos = 1 /\ step.arg = Records
  <2>1. \A r \in Records : memory'[r] = Reset
    BY <1>12, <1>13
  <2>2. Kept(leaf, 2, failed) = {} /\ Fresh(leaf, 2) \subseteq Records
    BY <1>1 DEF Kept, Fresh, Leaves
  <2>3. InMemory'
    BY <1>4, <1>10, <1>11, <1>13, <2>1, <2>2 DEF InMemory, Whole
  <2>4. Given = 0
    BY <1>1, <1>13 DEF Queued, Leaves
  <2>5. Owed(leaf, Loose, 0) = 0
    BY <1>1 DEF Owed, Asking, Leaves
  <2>6. Out = 0 /\ Len(pending) = 0
    BY <1>6, <2>4, <2>5
  <2>7. InOrder'
    BY <1>1, <1>2, <1>4, <1>13, <2>6 DEF InOrder, Running
  <2> QED BY <1>1, <1>2, <1>3, <1>7, <1>8, <1>9, <2>3, <2>7, Moved, InBody DEF Running, Advance
<1>14. CASE leaf = "rewrite" /\ Pos = 9 /\ step.arg = {A1, B0, B1}
  <2>1. memory'[A1] = Reset /\ memory'[B0] = Reset /\ memory'[B1] = Reset /\ memory'[A0] = memory[A0]
    BY <1>11, <1>12, <1>14
  <2>2. Kept("rewrite", 10, failed) = {} /\ Fresh("rewrite", 10) = {A1, B0, B1}
        /\ Soonest("rewrite", Loose, 10, A0) = 0
    BY <1>11 DEF Kept, Fresh, Soonest, A0, B0
  <2>3. InMemory'
    <3>1. \A r \in Records : Whole(r)' => r = A0
      BY <1>10, <1>11, <2>1 DEF Whole
    <3>2. \A r \in Records : Whole(r)' => Soonest("rewrite", Loose, 10, r) <= Out
      BY <1>6, <2>2, <3>1
    <3>3. \A r \in Fresh("rewrite", 10) : memory'[r].state = "reset"
      BY <1>10, <2>1, <2>2
    <3> QED BY <1>4, <1>14, <2>2, <3>2, <3>3 DEF InMemory, Whole
  <2>4. Given = 8 /\ Met("rewrite", Loose)[9] = 1
    BY <1>1, <1>14 DEF Queued, Met
  <2>5. \A j \in 0..8 : Owed("rewrite", Loose, j) <= 1
    BY DEF Owed, Asking
  <2>6. Out = 1 /\ Len(pending) = 0
    <3>1. Done \in 0..8
      BY <1>6, <2>4
    <3>2. Owed("rewrite", Loose, Done) \in 0..1
      <4>1. Owed(leaf, Loose, Done) \in Nat
        BY <1>1, Cursors DEF Running
      <4>2. Owed("rewrite", Loose, Done) <= 1
        BY <2>5, <3>1
      <4> QED BY <1>14, <4>1, <4>2
    <3> QED BY <1>6, <1>14, <2>4, <3>2
  <2>7. Due("rewrite", Loose)[1] = A0
    BY DEF Due
  <2>8. InOrder'
    <3>1. renderer \in Conforming => Whole(A0) /\ memory[A0].value = Amount("rewrite")[1] /\ ~failed /\ canaries
      BY <1>1, <1>14, <2>6, <2>7 DEF InOrder, Running, Exact
    <3>2. \A n \in 1..Out : n = 1
      BY <2>6
    <3> QED BY <1>2, <1>4, <1>14, <2>1, <2>6, <2>7, <3>1, <3>2 DEF InOrder, Whole
  <2> QED BY <1>1, <1>2, <1>3, <1>7, <1>8, <1>9, <2>3, <2>8, Moved, InBody DEF Running, Advance
<1>15. CASE leaf = "range" /\ Pos = 9 /\ step.arg = {B0}
  <2>1. memory'[B0] = Reset /\ \A r \in Records : r # B0 => memory'[r] = memory[r]
    BY <1>11, <1>12, <1>15
  <2>2. Kept("range", 10, failed) = {A0} /\ Kept("range", 9, failed) = {A0}
        /\ Fresh("range", 10) = Records /\ Fresh("range", 9) = Records
        /\ \A r \in Records : r # B0 => Soonest("range", Loose, 10, r) = Soonest("range", Loose, 9, r)
    BY DEF Kept, Fresh, Soonest
  <2>3. InMemory
    BY <1>1 DEF Running
  <2>4. InMemory'
    <3>1. \A r \in Records : Whole(r)' => r # B0 /\ Whole(r)
      BY <1>10, <2>1 DEF Whole
    <3>2. \A r \in Records : Whole(r)' => Soonest("range", Loose, 10, r) <= Out
      BY <1>15, <2>2, <2>3, <3>1 DEF InMemory
    <3>3. \A r \in Records : memory'[r].state = "reset" \/ memory'[r].by = asked
      BY <1>10, <1>15, <2>1, <2>2, <2>3 DEF InMemory
    <3>4. Whole(A0)'
      BY <1>11, <1>15, <2>1, <2>2, <2>3 DEF InMemory, Whole
    <3> QED BY <1>4, <1>15, <2>2, <3>2, <3>3, <3>4 DEF InMemory, Whole
  <2>5. Given = 13
    BY <1>1, <1>15 DEF Queued
  <2>6. ASSUME renderer \in Conforming
        PROVE  Out <= 1
    <3>1. Loose = FALSE
      BY <2>6 DEF Loose, Conforming
    <3>2. \A j \in 0..13 : Owed("range", FALSE, j) <= 1
      BY DEF Owed, Asking
    <3>3. Done \in 0..13
      BY <1>6, <2>5
    <3>4. Owed(leaf, Loose, Done) <= 1
      BY <1>15, <3>1, <3>2, <3>3
    <3> QED BY <1>1, <1>6, <3>4, Cursors DEF Running
  <2>7. Due("range", Loose)[1] = A0
    BY <1>1 DEF Due
  <2>8. InOrder'
    <3> SUFFICES ASSUME renderer \in Conforming
                 PROVE  InOrder'
      BY <1>4 DEF InOrder
    <3>1. InOrder /\ Out <= 1
      BY <1>1, <2>6 DEF Running
    <3>2. \A n \in 1..Out : n = 1
      BY <1>6, <3>1
    <3>3. memory'[A0] = memory[A0]
      BY <1>11, <2>1
    <3> QED BY <1>2, <1>4, <1>15, <2>7, <3>1, <3>2, <3>3 DEF InOrder, Whole, Exact
  <2> QED BY <1>1, <1>2, <1>3, <1>7, <1>8, <1>9, <2>4, <2>8, Moved, InBody DEF Running, Advance
<1> QED BY <1>5, <1>13, <1>14, <1>15

\* WriteMemory: the same, painting the canaries, and rewriting the descriptor.
LEMMA WriteKeeps == ASSUME TypeOK, TypeOK', Sound, WriteMemory PROVE Sound'
<1>1. CASE At("clean")
  BY <1>1, CleanKeeps
<1>2. CASE At("paint")
  <2>1. /\ Running /\ phase = "body" /\ Kind(leaf)[Pos] = "paint" /\ Pos < Last(leaf) /\ step.do = "paint"
    BY <1>2, Taking, Lasts DEF At
  <2>2. Advance /\ UNCHANGED <<attempt, failed, engine, asked, descriptor, memory>> /\ canaries'
    BY <2>1 DEF WriteMemory
  <2>3. Onwards /\ fifo' = fifo /\ Synced(leaf)[Pos + 1] <= Done /\ Others(leaf, Pos, Loose) /\ Onward(leaf, Pos, Loose)
    BY <1>2, <2>1, <2>2, Passing
  <2>4. InFifo'
    BY <2>1, <2>3, MovedFifo DEF Onward, Running, InFifo
  <2>5. InPending'
    BY <2>1, <2>3, MovedPending DEF Others, Running, InPending
  <2>6. InMemory' /\ InPlace' /\ InOrder'
    BY <2>1, <2>2, <2>3, SteadyMemory, SteadyPlace, SteadyOrder
  <2> QED BY <2>1, <2>2, <2>3, <2>4, <2>5, <2>6, Moved, InBody DEF Running, Advance
<1>3. CASE At("point")
  <2>1. /\ Running /\ phase = "body" /\ Kind(leaf)[Pos] = "point" /\ Pos < Last(leaf) /\ step.do = "point"
        /\ leaf \in Leaves /\ Pos \in 1..Last(leaf) /\ step = Script(leaf)[Pos]
    BY <1>3, Taking, Lasts DEF At
  <2>2. Advance /\ UNCHANGED <<attempt, failed, engine, asked, memory>> /\ canaries' = canaries /\ descriptor' = step.arg
    BY <2>1 DEF WriteMemory, TypeOK
  <2>3. Onwards /\ fifo' = fifo /\ Synced(leaf)[Pos + 1] <= Done /\ Others(leaf, Pos, Loose) /\ Onward(leaf, Pos, Loose)
    BY <1>3, <2>1, <2>2, Passing
  <2>4. InFifo'
    BY <2>1, <2>3, MovedFifo DEF Onward, Running, InFifo
  <2>5. InPending'
    BY <2>1, <2>3, MovedPending DEF Others, Running, InPending
  <2>6. InMemory' /\ InOrder'
    BY <2>1, <2>2, <2>3, SteadyMemory, SteadyOrder
  <2>7. InPlace'
    <3>1. leaf = "rewrite" /\ ((Pos = 8 /\ step.arg = "A") \/ (Pos = 13 /\ step.arg = "B"))
      BY <2>1, PointTable
    <3>2. Pos' = Pos + 1 /\ leaf' = leaf
      BY <2>3, Moved DEF Onwards
    <3> QED BY <2>2, <3>1, <3>2 DEF InPlace
  <2> QED BY <2>1, <2>2, <2>3, <2>4, <2>5, <2>6, <2>7, Moved, InBody DEF Running, Advance
<1> QED BY <1>1, <1>2, <1>3 DEF WriteMemory

\* What a conforming renderer makes hold, once nothing is on its way.
LEMMA Fulfilled ==
    ASSUME TypeOK, Running, phase = "body", todo # <<>>, renderer \in Conforming,
           Script(leaf)[Pos].do \in {"check", "demand"}
    PROVE  Holds(Script(leaf)[Pos].arg)
<1>1. /\ leaf \in Leaves /\ Loose = FALSE /\ Pos \in 1..Last(leaf) /\ Last(leaf) \in Nat
      /\ Out \in Nat /\ Met(leaf, FALSE)[Pos] <= Out /\ Met(leaf, FALSE)[Pos] \in Nat
  <2>1. leaf \in Leaves /\ Pos \in 1..Last(leaf) /\ Last(leaf) \in Nat
    BY Underway DEF Running
  <2>2. Loose = FALSE
    BY DEF Loose, Conforming
  <2>3. Out \in Nat /\ Met(leaf, Loose)[Pos] <= Out
    BY Cursors DEF Running, InPending
  <2>4. Met(leaf, Loose)[Pos] \in Nat
    <3>1. Met(leaf, Loose)[Pos] \in 0..Len(Due(leaf, Loose)) /\ Len(Due(leaf, Loose)) \in 1..3
      BY Underway, QueuedBounds, Cursors DEF Running
    <3> QED BY <3>1
  <2> QED BY <2>1, <2>2, <2>3, <2>4
<1> DEFINE x == Script(leaf)[Pos].arg
           d == Due(leaf, FALSE)
           v == Amount(leaf)
           m == Met(leaf, FALSE)[Pos]
<1>2. x \in Relations
  <2>1. Script(leaf)[Pos] \in Steps
    BY <1>1, ScriptTyped DEF Last
  <2> QED BY <2>1 DEF Steps
<1>3. /\ x \in {"A0", "zero", "nonzero", "equal", "double", "targets"} => m >= 1 /\ d[1] = A0
      /\ x \in {"A1", "equal", "double"} => m >= 2 /\ d[2] = A1
      /\ x \in {"B0", "targets"} => m >= 2 /\ d[2] = B0
      /\ x = "zero" => v[1] = 0
      /\ x \in {"nonzero", "targets"} => v[1] = 1
      /\ x \in {"equal", "targets"} => v[2] = v[1]
      /\ x = "double" => v[2] = 2 * v[1]
  BY <1>1, ExpectTable DEF Expects
<1>4. \A n \in 1..Out : Exact(n) => Whole(d[n]) /\ memory[d[n]].value = v[n]
  BY <1>1 DEF Running, InOrder
<1>5. Exact(1) /\ (x \in {"A1", "B0", "equal", "double", "targets"} => Exact(2))
  <2>1. leaf = "rewrite" => m <= 1
    <3> SUFFICES ASSUME leaf = "rewrite" PROVE m <= 1
      OBVIOUS
    <3>1. Kind(leaf)[Pos] \in {"check", "demand"}
      BY <1>1, Kinds
    <3>2. Pos \in {6, 7}
      BY <1>1, <3>1, LastStep DEF Kind
    <3> QED BY <3>2 DEF Met
  <2>2. x \in {"A1", "B0", "equal", "double", "targets"} => m >= 2
    BY <1>3
  <2>4. m \in Nat
    BY <1>1
  <2> HIDE DEF x, m
  <2>3. x \in {"A1", "B0", "equal", "double", "targets"} => leaf # "rewrite"
    BY <2>1, <2>2, <2>4
  <2> QED BY <2>3 DEF Exact
<1>6. canaries
  BY DEF Running, InOrder
<1>7. Out \in Nat /\ m \in Nat /\ m <= Out
  BY <1>1
<1> HIDE DEF x, d, v, m
<1>8. x \in {"A0", "zero", "nonzero", "equal", "double", "targets"} => Whole(A0) /\ memory[A0].value = v[1]
  <2> SUFFICES ASSUME x \in {"A0", "zero", "nonzero", "equal", "double", "targets"}
               PROVE  Whole(A0) /\ memory[A0].value = v[1]
    OBVIOUS
  <2>1. 1 \in 1..Out /\ d[1] = A0
    BY <1>3, <1>7
  <2>2. Whole(d[1]) /\ memory[d[1]].value = v[1]
    BY <1>4, <1>5, <2>1
  <2> QED BY <2>1, <2>2
<1>9. ASSUME x \in {"A1", "B0", "equal", "double", "targets"}
      PROVE  Whole(d[2]) /\ memory[d[2]].value = v[2]
  <2>1. 2 \in 1..Out
    BY <1>3, <1>7, <1>9
  <2> QED BY <1>4, <1>5, <1>9, <2>1
<1>10. Holds(x)
  <2>1. CASE x \in {"A0", "zero", "nonzero"}
    <3>1. CASE x = "A0"
      BY <1>8, <3>1 DEF Holds
    <3>2. CASE x = "zero"
      BY <1>3, <1>8, <3>2 DEF Holds
    <3>3. CASE x = "nonzero"
      <4>1. memory[A0].value = 1
        BY <1>3, <1>8, <3>3
      <4> QED BY <3>3, <4>1 DEF Holds
    <3> QED BY <2>1, <3>1, <3>2, <3>3
  <2>2. CASE x \in {"A1", "B0"}
    BY <1>3, <1>9, <2>2 DEF Holds
  <2>3. CASE x = "equal"
    BY <1>3, <1>8, <1>9, <2>3 DEF Holds
  <2>4. CASE x = "double"
    BY <1>3, <1>8, <1>9, <2>4 DEF Holds
  <2>5. CASE x = "targets"
    BY <1>3, <1>8, <1>9, <2>5 DEF Holds
  <2>6. CASE x = "canaries"
    BY <1>6, <2>6 DEF Holds
  <2> QED BY <1>2, <2>1, <2>2, <2>3, <2>4, <2>5, <2>6 DEF Relations
<1> QED BY <1>10 DEF x

\* AssertXemuPerfEqual: an assertion fails only on a defective renderer.
LEMMA CheckKeeps == ASSUME TypeOK, TypeOK', Sound, AssertXemuPerfEqual PROVE Sound'
<1>1. /\ Running /\ phase = "body" /\ todo # <<>> /\ ~Waiting /\ Kind(leaf)[Pos] \in {"check", "demand"}
      /\ leaf \in Leaves /\ Loose \in BOOLEAN /\ Pos \in 1..Last(leaf) /\ Last(leaf) \in Nat
      /\ step = Script(leaf)[Pos] /\ Given = Queued(leaf)[Pos] /\ step.do = Kind(leaf)[Pos]
  <2>1. CASE At("check")
    BY <2>1, Taking DEF At
  <2>2. CASE At("demand")
    BY <2>2, Taking DEF At
  <2> QED BY <2>1, <2>2 DEF AssertXemuPerfEqual
<1>2. fifo = <<>> /\ pending = <<>>
  BY <1>1, Idle DEF Running
<1>3. UNCHANGED <<renderer, phase, leaf, bodies, strayed, attempt, looked, engine, memory, canaries, asked, excused>>
  BY DEF AssertXemuPerfEqual, Advance, Abandon
<1>4. renderer \in Conforming => Holds(step.arg) /\ ~failed
  BY <1>1, Fulfilled DEF Running, InOrder
<1>5. leaf = "range" => descriptor = "A"
  BY <1>1 DEF Running, InPlace
<1>6. CASE step.do = "demand" /\ ~Holds(step.arg)
  <2>1. Abandon
    BY <1>6 DEF AssertXemuPerfEqual
  <2>2. renderer \notin Conforming
    BY <1>4, <1>6
  <2>3. Returned'
    BY <1>2, <1>3, <2>1, <2>2 DEF Returned, Quiet, Abandon, engine
  <2> QED BY <1>1, <1>3, <2>1, <2>3, InBody DEF Abandon
<1>7. CASE ~(step.do = "demand" /\ ~Holds(step.arg))
  <2>1. Advance /\ UNCHANGED descriptor /\ failed' = (failed \/ ~Holds(step.arg))
    BY <1>7 DEF AssertXemuPerfEqual
  <2>2. (todo' = <<>>) = (Pos = Last(leaf))
    BY <1>1, <1>3, <2>1, Advancing DEF Running, Advance
  <2>3. renderer \in Conforming => ~failed'
    BY <1>4, <2>1
  <2>4. failed => failed'
    BY <2>1
  <2>5. ASSUME Pos < Last(leaf) PROVE Running'
    <3>1. At("check") \/ At("demand")
      BY DEF AssertXemuPerfEqual
    <3>2. Onwards /\ fifo' = fifo /\ Synced(leaf)[Pos + 1] <= Done /\ Others(leaf, Pos, Loose)
          /\ Onward(leaf, Pos, Loose)
      BY <1>3, <2>1, <2>5, <3>1, Passing
    <3>3. InFifo'
      BY <1>1, <3>2, MovedFifo DEF Onward, Running, InFifo
    <3>4. InPending'
      BY <1>1, <3>2, MovedPending DEF Others, Running, InPending
    <3>5. InPlace'
      BY <1>1, <2>1, <3>2, SteadyPlace
    <3>6. InOrder'
      BY <1>1, <1>3, <2>3, <3>2, SteadyOrder
    <3>7. Pos' = Pos + 1 /\ Out' = Out /\ Loose' = Loose
      BY <3>2, Moved
    <3>8. \A r \in Kept(leaf, Pos + 1, failed') : Whole(r)
      <4> TAKE r \in Kept(leaf, Pos + 1, failed')
      <4>1. \/ r \in Kept(leaf, Pos, failed)
            \/ Names(step.arg, r) /\ (step.do = "check" => ~failed')
        <5>1. Confirms(leaf, Pos)
          BY <1>1, <2>5, DemandTable
        <5>2. failed \in BOOLEAN /\ failed' \in BOOLEAN
          BY DEF TypeOK
        <5> QED BY <1>1, <2>4, <5>1, <5>2 DEF Confirms
      <4>2. CASE r \in Kept(leaf, Pos, failed)
        BY <1>1, <4>2 DEF Running, InMemory
      <4>3. CASE Names(step.arg, r) /\ (step.do = "check" => ~failed')
        <5>1. Holds(step.arg)
          BY <1>1, <1>7, <2>1, <4>3
        <5>2. CASE step.arg = "A0" /\ r = A0
          BY <5>1, <5>2 DEF Holds
        <5>3. CASE step.arg = "A1" /\ r = A1
          BY <5>1, <5>3 DEF Holds
        <5>4. CASE step.arg = "B0" /\ r = B0
          BY <5>1, <5>4 DEF Holds
        <5> QED BY <4>3, <5>2, <5>3, <5>4 DEF Names
      <4> QED BY <4>1, <4>2, <4>3
    <3>9. InMemory'
      <4>1. Pos >= 2 /\ Fresh(leaf, Pos + 1) = Fresh(leaf, Pos)
            /\ \A r \in Records : Soonest(leaf, Loose, Pos + 1, r) = Soonest(leaf, Loose, Pos, r)
        BY <1>1, <3>2 DEF Onward
      <4> QED BY <1>1, <1>3, <3>7, <3>8, <4>1 DEF InMemory, Whole, Running
    <3> QED BY <3>2, <3>3, <3>4, <3>5, <3>6, <3>9, Moved DEF Running
  <2>6. ASSUME Pos = Last(leaf) PROVE Returned'
    <3>1. leaf \notin {"rewrite", "range"}
      BY <1>1, <2>6, Lasts
    <3>2. descriptor = "A"
      BY <1>1, <3>1 DEF Running, InPlace
    <3>3. ASSUME ~failed', NEW r \in Judged(leaf) PROVE Whole(r) /\ memory[r].by = asked
      <4>1. failed = FALSE
        BY <2>4, <3>3 DEF TypeOK
      <4>2. r \in Kept(leaf, Pos, failed) /\ r \in Fresh(leaf, Pos)
        BY <1>1, <2>6, <3>1, <3>3, <4>1, KeptLast
      <4>3. Whole(r) /\ (memory[r].state = "reset" \/ memory[r].by = asked)
        BY <1>1, <4>2 DEF Running, InMemory
      <4> QED BY <4>3 DEF Whole
    <3> QED BY <1>2, <1>3, <2>1, <2>3, <3>1, <3>2, <3>3 DEF Returned, Quiet, Whole, engine
  <2> QED BY <1>1, <1>3, <2>2, <2>5, <2>6, InBody
<1> QED BY <1>6, <1>7

\* One more attempt starts where the eighth step of the script is.
LEMMA Again ==
    /\ Len(RewriteAttempt) = 11 /\ Last("rewrite") = 18
    /\ \A k \in 1..11 : RewriteAttempt[k] = Script("rewrite")[7 + k]
    /\ RewriteAttempt[1] = Point("A")
<1>1. Len(RewriteAttempt) = 11 /\ RewriteAttempt[1] = Point("A")
  BY DEF RewriteAttempt
<1>2. \A k \in 1..11 : RewriteAttempt[k] = Script("rewrite")[7 + k]
  BY SMTT(60) DEF RewriteAttempt, Script, Start, DescriptorRewrite
<1> QED BY <1>1, <1>2, LastStep

\* JudgeAttempt: the verdict is about this attempt, and the next one starts with nothing on its
\* way.
LEMMA JudgeKeeps == ASSUME TypeOK, TypeOK', Sound, JudgeAttempt PROVE Sound'
<1>1. /\ Running /\ phase = "body" /\ todo # <<>> /\ ~Waiting /\ Kind(leaf)[Pos] = "judge"
      /\ leaf \in Leaves /\ Loose \in BOOLEAN /\ Pos \in 1..Last(leaf) /\ Last(leaf) \in Nat
      /\ Given = Queued(leaf)[Pos]
  BY Taking DEF JudgeAttempt, At
<1>2. leaf = "rewrite" /\ Pos = 18
  <2>1. CASE leaf \in {"zero", "single", "switch"}
    BY <1>1, <2>1, LastStep DEF Kind
  <2>2. CASE leaf \in {"clear", "multiple", "producer"}
    BY <1>1, <2>2, LastStep DEF Kind
  <2>3. CASE leaf = "range"
    BY <1>1, <2>3, LastStep DEF Kind
  <2>4. CASE leaf = "rewrite"
    BY <1>1, <2>4, LastStep DEF Kind
  <2> QED BY <1>1, <2>1, <2>2, <2>3, <2>4 DEF Leaves
<1>3. fifo = <<>> /\ pending = <<>> /\ Done = 18 /\ Out = 3
  <2>1. fifo = <<>> /\ pending = <<>> /\ Done = Given /\ Out = Owed(leaf, Loose, Done)
    BY <1>1, Idle DEF Running
  <2>2. Given = 18
    BY <1>1, <1>2 DEF Queued
  <2>3. Owed("rewrite", Loose, 18) = 3
    BY DEF Owed, Asking
  <2> QED BY <1>2, <2>1, <2>2, <2>3
<1>4. /\ UNCHANGED <<renderer, phase, leaf, looked, bound, zpass, count, pending, semaphore, memory, canaries,
                     bodies, excused, strayed>>
      /\ descriptor' = "A"
  BY DEF JudgeAttempt
<1>5. failed => renderer \notin Conforming
  BY <1>1 DEF Running, InOrder
<1> DEFINE good == Whole(A1) /\ Whole(B0) /\ memory[B1] = Reset
<1>6. CASE good
  <2>1. fifo' = Append(fifo, Bind("a")) /\ todo' = <<>> /\ UNCHANGED <<attempt, asked, failed>>
    BY <1>6 DEF JudgeAttempt
  <2>2. Quiet'
    BY <1>3, <1>4, <2>1 DEF Quiet, Bind, Method
  <2>3. A1 \in Fresh(leaf, Pos) /\ B0 \in Fresh(leaf, Pos)
    BY <1>2 DEF Fresh
  <2>4. memory[A1].by = asked /\ memory[B0].by = asked
    BY <1>1, <1>6, <2>3 DEF Running, InMemory, Whole
  <2>5. Judged(leaf) = {A1, B0}
    BY <1>2 DEF Judged
  <2>6. Returned'
    BY <1>2, <1>4, <1>5, <1>6, <2>1, <2>2, <2>4, <2>5 DEF Returned, Whole
  <2> QED BY <1>1, <1>4, <2>1, <2>6, InBody
<1>7. CASE ~good /\ ~MoreDelays
  <2>1. fifo' = Append(fifo, Bind("a")) /\ todo' = <<>> /\ failed' = TRUE
    BY <1>7 DEF JudgeAttempt
  <2>2. Quiet'
    BY <1>3, <1>4, <2>1 DEF Quiet, Bind, Method
  <2>3. attempt = Attempts
    BY <1>7, ReportAssumption DEF MoreDelays, TypeOK
  <2>4. ASSUME renderer \in Conforming PROVE FALSE
    <3>1. Exact(2) /\ Exact(3)
      BY <2>3 DEF Exact
    <3>2. Due("rewrite", Loose)[2] = A1 /\ Due("rewrite", Loose)[3] = B0
      BY DEF Due
    <3>3. 2 \in 1..Out /\ 3 \in 1..Out
      BY <1>3
    <3>4. Whole(A1) /\ Whole(B0)
      BY <1>1, <1>2, <2>4, <3>1, <3>2, <3>3 DEF Running, InOrder
    <3>5. memory[B1] = Reset
      BY <1>1, <1>2, <2>3, <2>4 DEF Running, InOrder
    <3> QED BY <1>7, <3>4, <3>5
  <2>5. Returned'
    BY <1>2, <1>4, <2>1, <2>2, <2>4 DEF Returned
  <2> QED BY <1>1, <1>4, <2>1, <2>5, InBody
<1>8. CASE ~good /\ MoreDelays
  <2>1. /\ todo' = RewriteAttempt /\ UNCHANGED <<failed, fifo>>
        /\ attempt' = attempt + 1 /\ asked' = asked + 1
    BY <1>8 DEF JudgeAttempt
  <2>2. Len(todo') = 11 /\ todo' # <<>> /\ \A k \in 1..11 : todo'[k] = Script("rewrite")[7 + k]
    <3>1. todo' \in Seq(Steps) /\ Len(todo') = 11
      BY <2>1, Again DEF TypeOK
    <3>2. todo' # <<>>
      <4> SUFFICES ASSUME todo' = <<>> PROVE FALSE
        OBVIOUS
      <4>1. Len(todo') = 0
        OBVIOUS
      <4> QED BY <3>1, <4>1
    <3> QED BY <2>1, <3>1, <3>2, Again
  <2>3. Pos' = 8 /\ ~Waiting' /\ Loose' = Loose
    <3>1. Pos' = 8
      BY <1>2, <1>4, <2>2, LastStep DEF Pos, Last
    <3>2. todo'[1].do = "point" /\ Released.do = "released"
      BY <2>1, Again DEF Point, Released
    <3>3. todo'[1] # Released
      BY <3>2
    <3> QED BY <1>4, <3>1, <3>3 DEF Waiting, Loose
  <2>4. Given' = 8 /\ Done' = 8 /\ Len(fifo') = 0 /\ Len(pending') = 0
    <3>1. Given' = 8
      BY <1>2, <1>4, <2>3 DEF Given, Queued
    <3> QED BY <1>3, <1>4, <2>1, <3>1 DEF Done
  <2>5. Out' = 1
    <3>1. Owed("rewrite", Loose, 8) = 1
      BY DEF Owed, Asking
    <3> QED BY <1>2, <1>4, <2>3, <2>4, <3>1 DEF Out
  <2>6. InScript'
    <3>1. Len(Script("rewrite")) = 18
      BY LastStep DEF Last
    <3>2. \A k \in 2..Len(todo') : todo'[k] = Script("rewrite")[8 + k - 1]
      BY <2>2
    <3>3. todo'[1] = Script("rewrite")[8]
      BY <2>2
    <3> QED BY <1>2, <1>4, <2>3, <3>1, <3>2, <3>3 DEF InScript
  <2>7. InFifo'
    <3>1. Synced("rewrite")[8] = 8
      BY DEF Synced
    <3> QED BY <1>2, <1>4, <2>3, <2>4, <3>1 DEF InFifo
  <2>8. InEngine'
    <3>1. bound = "a" /\ zpass = 0 /\ count = 1
      BY <1>1, <1>2, <1>3 DEF Running, InEngine, BoundAt, ZpassAt, CountAt
    <3> QED BY <1>2, <1>4, <2>4, <3>1 DEF InEngine, BoundAt, ZpassAt, CountAt
  <2>9. InPending'
    <3>1. Met("rewrite", Loose)[8] = 1
      BY DEF Met
    <3> QED BY <1>2, <1>4, <2>3, <2>4, <2>5, <3>1 DEF InPending
  <2>10. InMemory'
    <3>1. \A r \in Records : Soonest("rewrite", Loose, 8, r) = 1
      BY DEF Soonest
    <3>2. Fresh("rewrite", 8) = {} /\ Kept("rewrite", 8, failed) = {}
      BY DEF Fresh, Kept
    <3> QED BY <1>2, <1>4, <2>1, <2>3, <2>5, <3>1, <3>2 DEF InMemory
  <2>11. InPlace'
    BY <1>2, <1>4, <2>3 DEF InPlace
  <2>12. InOrder'
    <3> SUFFICES ASSUME renderer \in Conforming PROVE InOrder'
      BY <1>4 DEF InOrder
    <3>1. InOrder
      BY <1>1 DEF Running
    <3>2. Due("rewrite", Loose)[1] = A0 /\ Exact(1)
      BY DEF Due, Exact
    <3>3. Whole(A0) /\ memory[A0].value = Amount("rewrite")[1] /\ ~failed /\ canaries
      BY <1>2, <1>3, <3>1, <3>2 DEF InOrder
    <3> QED BY <1>2, <1>4, <2>1, <2>3, <2>4, <2>5, <3>2, <3>3 DEF InOrder, Whole
  <2> QED BY <1>1, <1>4, <2>2, <2>6, <2>7, <2>8, <2>9, <2>10, <2>11, <2>12, InBody DEF Running
<1> QED BY <1>6, <1>7, <1>8

\* Where the cursors are when a body begins.
LEMMA FirstStep ==
    ASSUME NEW l \in Leaves
    PROVE  /\ Script(l)[1] = Clean(Records) /\ Queued(l)[1] = 0 /\ Synced(l)[1] = 0
           /\ \A u \in BOOLEAN : Met(l, u)[1] = 0 /\ Owed(l, u, 0) = 0
           /\ Fresh(l, 1) = {} /\ \A f \in BOOLEAN : Kept(l, 1, f) = {}
<1>1. Script(l)[1] = Clean(Records)
  BY DEF Script, Start, Leaves
<1>2. Queued(l)[1] = 0 /\ Synced(l)[1] = 0
  BY DEF Queued, Synced, Leaves
<1>3. \A u \in BOOLEAN : Met(l, u)[1] = 0 /\ Owed(l, u, 0) = 0
  BY DEF Met, Owed, Asking, Leaves
<1>4. Fresh(l, 1) = {} /\ \A f \in BOOLEAN : Kept(l, 1, f) = {}
  BY DEF Fresh, Kept, Leaves
<1> QED BY <1>1, <1>2, <1>3, <1>4

\* RunScenario: a body begins with empty queues and the descriptor in place.
LEMMA BeginKeeps ==
    ASSUME TypeOK, TypeOK', Sound, fifo = <<>>, pending = <<>>, descriptor = "A",
           NEW l \in Scenarios, RunScenario(l)
    PROVE  Sound'
<1>1. /\ leaf' = l /\ todo' = Script(l) /\ phase' = "body" /\ failed' = FALSE /\ canaries' = TRUE
      /\ UNCHANGED <<renderer, engine, descriptor, memory, excused, strayed>>
  BY DEF RunScenario
<1>2. l \in Leaves /\ Last(l) \in Nat \ {0} /\ Loose' \in BOOLEAN
  BY ReportAssumption, LastNat DEF Loose
<1>3. Pos' = 1 /\ todo' # <<>>
  BY <1>1, <1>2, FirstStep DEF Pos, Last
<1>4. todo'[1] = Script(l)[1] /\ ~Waiting'
  <2>1. Script(l)[1].do = "clean" /\ Released.do = "released"
    BY <1>2, FirstStep DEF Clean, Released
  <2>2. Script(l)[1] # Released
    BY <2>1
  <2> QED BY <1>1, <2>2 DEF Waiting
<1>5. Given' = 0 /\ Done' = 0 /\ Len(fifo') = 0 /\ Len(pending') = 0
  BY <1>1, <1>2, <1>3, <1>4, FirstStep DEF Given, Done, engine
<1>6. Out' = 0
  <2>1. Owed(l, Loose', 0) = 0
    BY <1>2, FirstStep
  <2> QED BY <1>1, <1>5, <2>1 DEF Out
<1>7. InScript'
  <2>1. \A k \in 2..Len(todo') : todo'[k] = Script(l)[1 + k - 1]
    BY <1>1
  <2> QED BY <1>1, <1>2, <1>3, <1>4, <2>1 DEF InScript, Last
<1>8. InFifo' /\ InEngine' /\ InPlace'
  BY <1>1, <1>2, <1>3, <1>4, <1>5, FirstStep DEF InFifo, InEngine, InPlace, engine
<1>9. InPending'
  <2>1. Met(l, Loose')[1] = 0
    BY <1>2, FirstStep
  <2> QED BY <1>1, <1>3, <1>5, <1>6, <2>1 DEF InPending
<1>10. InMemory'
  <2>1. Fresh(l, 1) = {} /\ Kept(l, 1, failed') = {}
    BY <1>1, <1>2, FirstStep
  <2> QED BY <1>1, <1>3, <1>6, <2>1 DEF InMemory
<1>11. InOrder'
  BY <1>1, <1>3, <1>5, <1>6 DEF InOrder
<1> QED BY <1>1, <1>3, <1>7, <1>8, <1>9, <1>10, <1>11, InBody DEF Running

-----------------------------------------------------------------------------
(* PFIFO                                                                   *)

\* Outside a body nothing on its way can write a record.
LEMMA Rests == ASSUME TypeOK, Sound, phase # "body" \/ todo = <<>> PROVE Quiet
  BY DEF Sound, Returned, TypeOK

\* What PFIFO executes next.
LEMMA Heads ==
    ASSUME TypeOK, todo # <<>>, Running, fifo # <<>>
    PROVE  /\ Done \in 0..(Ends(leaf) - 1) /\ leaf \in Leaves /\ Loose \in BOOLEAN
           /\ Head(fifo) = fifo[1] /\ fifo[1] = Tag(Line(leaf)[Done + 1]) /\ fifo[1] \in Words
           /\ fifo[1].op = Line(leaf)[Done + 1].op /\ fifo[1].arg = Line(leaf)[Done + 1].arg
           /\ fifo[1].op = "report" => fifo[1].by = asked
           /\ Line(leaf)[Done + 1] \in Words
<1>1. /\ Given \in 0..Ends(leaf) /\ Ends(leaf) \in Nat /\ Done \in 0..Given /\ Len(fifo) = Given - Done
      /\ leaf \in Leaves /\ Loose \in BOOLEAN
  BY Cursors, Underway DEF Running
<1>2. Len(fifo) \in Nat \ {0} /\ Head(fifo) = fifo[1] /\ fifo[1] \in Words
  BY DEF TypeOK
<1>3. Done \in 0..(Ends(leaf) - 1)
  BY <1>1, <1>2
<1>4. fifo[1] = Tag(Line(leaf)[Done + 1])
  BY <1>2 DEF Running, InFifo
<1>5. Line(leaf)[Done + 1] \in Words
  <2>1. Line(leaf) \in Seq(Words) /\ Len(Line(leaf)) = Ends(leaf)
    BY <1>1, LineTyped, LineEnds
  <2>2. Done + 1 \in 1..Len(Line(leaf))
    BY <1>1, <1>3, <2>1
  <2> QED BY <2>1, <2>2
<1> DEFINE w == Line(leaf)[Done + 1]
<1>6. fifo[1].op = w.op /\ fifo[1].arg = w.arg /\ (fifo[1].op = "report" => fifo[1].by = asked)
  <2> HIDE DEF w
  <2>1. w \in Words
    BY <1>5 DEF w
  <2>2. CASE w.op = "report"
    <3>1. w \in [op : {"zpass", "report"}, arg : {0, 1}, by : Nat]
      BY <2>1, <2>2 DEF Words
    <3> QED BY <1>4, <2>2, <3>1 DEF Tag, w
  <2>3. CASE w.op # "report"
    BY <1>4, <2>3 DEF Tag, w
  <2> QED BY <2>2, <2>3
<1> QED BY <1>1, <1>2, <1>3, <1>4, <1>5, <1>6

\* Where the limited context and context b may be bound.
LEMMA OnlyRange ==
    ASSUME NEW l \in Leaves, NEW j \in Nat
    PROVE  /\ l # "range" => BoundAt(l, j) # "limited"
           /\ l = "rewrite" => BoundAt(l, j) = "a"
  BY DEF BoundAt, Leaves

\* The registers follow the line of methods,
LEMMA EngineKeeps ==
    ASSUME TypeOK, todo # <<>>, Running, ExecuteMethod, Done' = Done + 1
    PROVE  InEngine'
<1> DEFINE j == Done
           m == Line(leaf)[j + 1]
<1>1. j \in 0..(Ends(leaf) - 1) /\ leaf \in Leaves /\ j \in Nat
  <2>1. Ends(leaf) \in Nat
    BY Cursors DEF Running, ExecuteMethod
  <2> QED BY <2>1, Heads DEF ExecuteMethod
<1>2. /\ bound' = IF m.op = "bind" THEN m.arg ELSE bound
      /\ zpass' = IF m.op = "zpass" THEN m.arg ELSE zpass
      /\ count' = CASE m.op = "clear" -> 0 [] m.op = "draw" -> count + zpass [] OTHER -> count
  BY Heads DEF ExecuteMethod
<1>3. RunsBound(leaf, j) /\ RunsZpass(leaf, j) /\ RunsCount(leaf, j)
  BY <1>1, BoundTable, ZpassTable, CountTable
<1>4. leaf' = leaf
  BY DEF ExecuteMethod, thread
<1>5. InEngine
  BY DEF Running
<1>6. bound' = BoundAt(leaf, j + 1)
  BY <1>1, <1>2, <1>3, <1>5 DEF RunsBound, InEngine
<1>7. j >= 1 => zpass' = ZpassAt(leaf, j + 1)
  BY <1>1, <1>2, <1>3, <1>5 DEF RunsZpass, InEngine
<1>8. j >= 2 => count' = CountAt(leaf, j + 1)
  BY <1>1, <1>2, <1>3, <1>5 DEF RunsCount, InEngine
<1> QED BY <1>1, <1>4, <1>6, <1>7, <1>8 DEF InEngine

\* and the FIFO is the rest of it.
LEMMA FifoKeeps ==
    ASSUME TypeOK, TypeOK', todo # <<>>, Running, ExecuteMethod
    PROVE  /\ Pos' = Pos /\ Waiting' = Waiting /\ Loose' = Loose /\ Given' = Given /\ Done' = Done + 1
           /\ InScript' /\ InFifo'
<1>1. UNCHANGED <<renderer, thread, descriptor, memory, canaries, observed>> /\ fifo # <<>> /\ fifo' = Tail(fifo)
  BY DEF ExecuteMethod
<1>2. Pos' = Pos /\ Waiting' = Waiting /\ Loose' = Loose
  BY <1>1 DEF Pos, Waiting, Loose, thread
<1>3. Given' = Given /\ InScript'
  BY <1>1, <1>2 DEF Given, InScript, Running, thread
<1>4. Len(fifo') = Len(fifo) - 1 /\ \A k \in 1..(Len(fifo) - 1) : fifo'[k] = fifo[k + 1]
  BY <1>1 DEF TypeOK
<1>5. /\ Given \in Nat /\ Done \in 0..Given /\ Len(fifo) = Given - Done /\ Len(fifo) \in Nat
      /\ leaf \in Leaves /\ Pos \in 1..Last(leaf) /\ Last(leaf) \in Nat
  BY Cursors, Underway DEF Running
<1>6. Done' = Done + 1
  BY <1>3, <1>4, <1>5 DEF Done
<1>7. InFifo
  BY DEF Running
<1>8. Synced(leaf)[Pos] <= Done + 1
  <2>1. Synced(leaf)[Pos] \in Nat
    BY <1>5, QueuedBounds, Underway DEF Running
  <2> QED BY <1>5, <1>7, <2>1 DEF InFifo
<1>9. \A k \in 1..Len(fifo') : fifo'[k] = Tag(Line(leaf)[Done + 1 + k])
  <2> TAKE k \in 1..Len(fifo')
  <2>1. fifo'[k] = fifo[k + 1] /\ k + 1 \in 1..Len(fifo)
    BY <1>4, <1>5
  <2>2. fifo[k + 1] = Tag(Line(leaf)[Done + (k + 1)])
    BY <1>7, <2>1 DEF InFifo
  <2>3. Done + (k + 1) = Done + 1 + k
    BY <1>4, <1>5
  <2> QED BY <2>1, <2>2, <2>3
<1>10. Waiting /\ semaphore' => fifo' = <<>>
  <2> SUFFICES ASSUME Waiting, semaphore' PROVE fifo' = <<>>
    OBVIOUS
  <2>1. ~semaphore
    BY <1>1, <1>7 DEF InFifo
  <2>2. Line(leaf)[Done + 1].op = "release"
    BY <1>1, <2>1, Heads DEF ExecuteMethod
  <2>3. Script(leaf)[Pos].do = "complete"
    BY <1>5, Underway DEF Running
  <2>4. PICK s \in Nat, q \in Nat : Sync(leaf, Pos, s, q)
    BY <1>5, <2>3, CompleteTable
  <2>5. Given = q + 1 /\ s <= Done
    BY <1>7, <2>4 DEF Sync, Given, InFifo
  <2>6. ~(Done + 1 \in (s + 1)..q)
    BY <2>2, <2>4 DEF Sync
  <2>7. Len(fifo') = 0
    BY <1>4, <1>5, <2>5, <2>6
  <2> QED BY <2>7 DEF TypeOK
<1>11. leaf = "rewrite" /\ attempt = Attempts /\ Pos >= 13 => Done + 1 >= 13
  BY <1>5, <1>7 DEF InFifo
<1>12. InFifo'
  BY <1>1, <1>2, <1>6, <1>8, <1>9, <1>10, <1>11 DEF InFifo, Tag, thread, observed
<1> QED BY <1>2, <1>3, <1>6, <1>12

\* A report that the GPU owes from now on.
Debt(m) == [target |-> Target(bound), index |-> m.arg, value |-> count, by |-> m.by,
            fits |-> Fits(bound, m.arg), part |-> FALSE]

\* No two reports of a body are due in the same record, and none in B1.
LEMMA Due2 ==
    ASSUME NEW l \in Leaves, NEW u \in BOOLEAN, NEW n \in 1..Len(Due(l, u))
    PROVE  /\ Due(l, u)[n] \in Records /\ Due(l, u)[n] = <<Due(l, u)[n][1], Due(l, u)[n][2]>>
           /\ Due(l, u)[n] # B1
           /\ \A i \in 1..Len(Due(l, u)) : i # n => Due(l, u)[i] # Due(l, u)[n]
  BY DEF Due, Leaves, Records, A0, A1, B0, B1

\* Where the descriptor points when a report of the rewrite is consumed.
LEMMA Aimed ==
    ASSUME TypeOK, todo # <<>>, Running, fifo # <<>>, leaf = "rewrite"
    PROVE  /\ Done = 5 => descriptor = "A"
           /\ Done = 12 /\ attempt = Attempts => descriptor = "A"
           /\ Done = 15 => descriptor = "B"
<1>1. /\ Pos \in 1..18 /\ Done < Given /\ Done \in Nat /\ Given \in Nat /\ Synced("rewrite")[Pos] <= Done
      /\ (Waiting => Kind("rewrite")[Pos] = "complete")
  <2>1. Pos \in 1..18 /\ (Waiting => Kind("rewrite")[Pos] = "complete")
    BY Underway, LastStep DEF Running
  <2>2. Len(fifo) # 0
    BY DEF TypeOK
  <2> QED BY <2>1, <2>2, Cursors DEF Running, InFifo
<1>2. descriptor = IF Pos >= 14 THEN "B" ELSE "A"
  BY DEF Running, InPlace
<1>3. Done = 5 => Pos < 14
  <2>1. \A p \in 14..18 : Synced("rewrite")[p] \in 8..18
    BY DEF Synced
  <2> SUFFICES ASSUME Done = 5, Pos >= 14 PROVE FALSE
    BY <1>1
  <2>2. Pos \in 14..18
    BY <1>1
  <2>3. Synced("rewrite")[Pos] \in 8..18
    BY <2>1, <2>2
  <2> QED BY <1>1, <2>3
<1>4. Done = 12 /\ attempt = Attempts => Pos < 14
  BY <1>1 DEF Running, InFifo
<1>5. Done = 15 => Pos >= 14
  <2>1. \A p \in 1..13 : Queued("rewrite")[p] \in 0..13
    BY DEF Queued
  <2> SUFFICES ASSUME Done = 15, Pos < 14 PROVE FALSE
    BY <1>1
  <2>2. Pos \in 1..13
    BY <1>1
  <2>3. Queued("rewrite")[Pos] \in 0..13
    BY <2>1, <2>2
  <2>4. Given = Queued("rewrite")[Pos] \/ Given = Queued("rewrite")[Pos] + 1
    BY <2>3 DEF Given
  <2> QED BY <1>1, <2>3, <2>4
<1> QED BY <1>1, <1>2, <1>3, <1>4, <1>5

\* A report is owed to the record it is due in.
LEMMA DebtsKeep ==
    ASSUME TypeOK, TypeOK', todo # <<>>, Running, ExecuteMethod
    PROVE  Out' = Out /\ InPending' /\ InOrder'
<1> DEFINE j == Done
           m == Line(leaf)[j + 1]
           n == Owed(leaf, Loose, j) + 1
           d == Due(leaf, Loose)
<1>1. /\ Pos' = Pos /\ Loose' = Loose /\ Done' = j + 1
      /\ UNCHANGED <<renderer, leaf, attempt, failed, descriptor, memory, canaries, asked>>
  BY FifoKeeps DEF ExecuteMethod, thread, observed
<1>2. /\ j \in 0..(Ends(leaf) - 1) /\ j \in Nat /\ leaf \in Leaves /\ Loose \in BOOLEAN /\ m \in Words
      /\ Head(fifo).op = m.op /\ Head(fifo).arg = m.arg /\ fifo # <<>>
      /\ (m.op = "report" => Head(fifo).by = asked)
  BY Heads, Cursors DEF ExecuteMethod, Running
<1>3. Counts(leaf, Loose, j)
  BY <1>2, CountsTable
<1>4. /\ Len(pending) = Owed(leaf, Loose, j) - Out /\ Len(pending) \in Nat /\ Out \in Nat
      /\ Owed(leaf, Loose, j) \in Nat /\ pending \in Seq(Debts)
  <2>1. /\ Len(pending) = Owed(leaf, Loose, j) - Out /\ Len(pending) \in Nat
        /\ Out \in 0..Owed(leaf, Loose, j) /\ Owed(leaf, Loose, j) \in 0..Len(d) /\ Len(d) \in 1..3
    BY Cursors DEF Running
  <2> QED BY <2>1 DEF TypeOK
<1>5. InPending /\ InOrder /\ InEngine
  BY DEF Running
<1>6. m.op = "report" => j >= 1 /\ bound = BoundAt(leaf, j)
  <2>1. j = 0 => m.op = "bind"
    BY <1>2, BoundTable DEF RunsBound
  <2> QED BY <1>2, <1>5, <2>1 DEF InEngine
<1>7. CASE m.op = "report" /\ (Fits(bound, m.arg) \/ renderer = "unguarded")
  <2> DEFINE e == Debt(Head(fifo))
  <2>1. pending' = Append(pending, e)
    BY <1>2, <1>7 DEF ExecuteMethod, Consume, Debt
  <2>2. Fits(BoundAt(leaf, j), m.arg) \/ Loose
    BY <1>2, <1>6, <1>7, OnlyRange DEF Loose, Fits
  <2>3. /\ j >= 3 /\ Owed(leaf, Loose, j + 1) = n
        /\ n \in 1..Len(d) /\ d[n][2] = m.arg
        /\ ~Loose => Amount(leaf)[n] = CountAt(leaf, j)
        /\ Fits(bound, m.arg) = (leaf = "range" => m.arg = 0)
        /\ bound = "a" => d[n][1] = IF leaf = "rewrite" /\ n = 3 THEN "B" ELSE "A"
        /\ bound = "b" => d[n][1] = "B"
        /\ bound = "limited" => d[n][1] = "A"
        /\ leaf = "rewrite" => bound = "a" /\ j = (CASE n = 1 -> 5 [] n = 2 -> 12 [] n = 3 -> 15)
        /\ leaf = "range" /\ n >= 2 => bound \in {"limited", "b"}
    BY <1>3, <1>6, <1>7, <2>2 DEF Counts
  <2>4. Len(pending') = Len(pending) + 1 /\ pending'[Len(pending) + 1] = e
        /\ \A k \in 1..Len(pending) : pending'[k] = pending[k]
    <3>1. e \in Debts
      <4>1. Target(bound) \in {"A", "B", "elsewhere"}
        BY DEF Target, TypeOK, Contexts
      <4>2. m.arg \in {0, 1}
        BY <1>2, <1>7, WordForm
      <4>3. Fits(bound, m.arg) \in BOOLEAN
        BY DEF Fits
      <4>4. asked \in Nat /\ count \in Nat
        BY DEF TypeOK
      <4> QED BY <1>2, <1>7, <4>1, <4>2, <4>3, <4>4 DEF Debt, Debts
    <3> HIDE DEF e
    <3> QED BY <1>4, <2>1, <3>1
  <2>5. Out' = Out
    BY <1>1, <1>4, <2>3, <2>4 DEF Out
  <2>6. Out + (Len(pending) + 1) = n
    BY <1>4
  <2>7. e.index = m.arg /\ e.by = asked /\ e.fits = Fits(bound, m.arg) /\ e.target = Target(bound) /\ e.value = count
    BY <1>2, <1>7 DEF Debt
  <2> HIDE DEF e, n, d, m, j
  <2>8. leaf = "range" /\ n >= 2 => e.target = d[n][1]
    BY <2>3, <2>7 DEF Target
  <2>9. InPending'
    <3>1. \A k \in 1..Len(pending') :
            /\ pending'[k].index = d[Out + k][2]
            /\ pending'[k].by = asked
            /\ pending'[k].fits = (leaf = "range" => pending'[k].index = 0)
            /\ leaf = "range" /\ Out + k >= 2 => pending'[k].target = d[Out + k][1]
      <4> TAKE k \in 1..Len(pending')
      <4>1. CASE k \in 1..Len(pending)
        BY <1>5, <2>4, <4>1 DEF InPending, d
      <4>2. CASE k = Len(pending) + 1
        BY <2>3, <2>4, <2>6, <2>7, <2>8, <4>2
      <4> QED BY <1>4, <2>4, <4>1, <4>2
    <3> QED BY <1>1, <1>5, <2>5, <3>1 DEF InPending, d
  <2>10. InOrder'
    <3> SUFFICES ASSUME renderer \in Conforming PROVE InOrder'
      BY <1>1 DEF InOrder
    <3>1. ~Loose /\ e.fits
      BY <1>7, <2>7 DEF Loose, Conforming
    <3>2. e.value = Amount(leaf)[n]
      BY <1>5, <2>3, <2>7, <3>1 DEF InEngine, j
    <3>3. Exact(n) => e.target = d[n][1]
      <4> SUFFICES ASSUME Exact(n) PROVE e.target = d[n][1]
        OBVIOUS
      <4>1. CASE leaf = "rewrite"
        <5>1. n \in {1, 2, 3}
          BY <1>2, <2>3, <4>1 DEF Due, d
        <5>2. (n = 1 => Done = 5) /\ (n = 2 => Done = 12) /\ (n = 3 => Done = 15)
          BY <2>3, <4>1 DEF j
        <5>3. n = 2 => attempt = Attempts
          BY <4>1 DEF Exact
        <5>4. descriptor = IF n = 3 THEN "B" ELSE "A"
          BY <1>2, <4>1, <5>1, <5>2, <5>3, Aimed
        <5> QED BY <2>3, <2>7, <4>1, <5>4 DEF Target
      <4>2. CASE leaf # "rewrite"
        <5>1. descriptor = "A"
          BY <4>2 DEF Running, InPlace
        <5>2. bound \in {"a", "b", "limited"}
          <6>1. BoundAt(leaf, j) \in {"a", "b", "limited"}
            BY DEF BoundAt
          <6> QED BY <1>6, <1>7, <6>1
        <5> QED BY <2>3, <2>7, <4>2, <5>1, <5>2 DEF Target
      <4> QED BY <4>1, <4>2
    <3>4. Exact(n) => <<e.target, e.index>> = d[n]
      BY <1>2, <2>3, <2>7, <3>3, Due2 DEF d
    <3>5. \A k \in 1..Len(pending') :
            /\ pending'[k].fits /\ pending'[k].value = Amount(leaf)[Out + k]
            /\ Exact(Out + k) => <<pending'[k].target, pending'[k].index>> = d[Out + k]
      <4> TAKE k \in 1..Len(pending')
      <4>1. CASE k \in 1..Len(pending)
        BY <1>5, <2>4, <4>1 DEF InOrder, d
      <4>2. CASE k = Len(pending) + 1
        BY <2>4, <2>6, <3>1, <3>2, <3>4, <4>2
      <4> QED BY <1>4, <2>4, <4>1, <4>2
    <3> QED BY <1>1, <1>5, <2>5, <3>5 DEF InOrder, Exact, Whole, d
  <2> QED BY <2>5, <2>9, <2>10
<1>8. CASE ~(m.op = "report" /\ (Fits(bound, m.arg) \/ renderer = "unguarded"))
  <2>1. pending' = pending
    BY <1>2, <1>8 DEF ExecuteMethod, Consume
  <2>2. Owed(leaf, Loose, j + 1) = Owed(leaf, Loose, j)
    <3>1. ~(m.op = "report" /\ (Fits(BoundAt(leaf, j), m.arg) \/ Loose))
      BY <1>6, <1>8 DEF Loose
    <3> QED BY <1>3, <3>1 DEF Counts
  <2>3. Out' = Out
    BY <1>1, <2>1, <2>2 DEF Out
  <2> QED BY <1>1, <1>5, <2>1, <2>3 DEF InPending, InOrder, Exact, Whole
<1> QED BY <1>7, <1>8

\* ExecuteMethod, in a body and outside one.
LEMMA ExecuteKeeps == ASSUME TypeOK, TypeOK', Sound, ExecuteMethod PROVE Sound'
<1>1. UNCHANGED <<renderer, thread, descriptor, memory, canaries, observed>> /\ fifo # <<>> /\ fifo' = Tail(fifo)
  BY DEF ExecuteMethod
<1>2. CASE phase = "body" /\ todo # <<>>
  <2>1. Running
    BY <1>2 DEF Sound
  <2>2. /\ Pos' = Pos /\ Loose' = Loose /\ Done' = Done + 1 /\ InScript' /\ InFifo'
        /\ Out' = Out /\ InPending' /\ InOrder'
    BY <1>2, <2>1, FifoKeeps, DebtsKeep
  <2>3. InEngine'
    BY <1>2, <2>1, <2>2, EngineKeeps
  <2>4. InMemory' /\ InPlace'
    BY <1>1, <2>1, <2>2 DEF InMemory, InPlace, Whole, Running, thread, observed
  <2> QED BY <1>1, <1>2, <2>2, <2>3, <2>4, InBody DEF Running, thread, observed
<1>3. CASE ~(phase = "body" /\ todo # <<>>)
  <2>1. Quiet
    BY <1>3, Rests
  <2>2. Head(fifo) = fifo[1] /\ Len(fifo) \in Nat \ {0} /\ Len(fifo') = Len(fifo) - 1
        /\ \A k \in 1..(Len(fifo) - 1) : fifo'[k] = fifo[k + 1]
    BY <1>1 DEF TypeOK
  <2>3. pending' = <<>>
    BY <2>1, <2>2 DEF Quiet, ExecuteMethod
  <2>4. \A k \in 1..Len(fifo') : fifo'[k].op # "report"
    BY <2>1, <2>2 DEF Quiet
  <2> QED BY <1>1, <1>3, <2>3, <2>4 DEF Sound, Returned, Quiet, Whole, thread, observed
<1> QED BY <1>2, <1>3

-----------------------------------------------------------------------------
(* The publisher                                                           *)

\* Where the report at the head of the queue goes, and what stands there then.
Aim == IF renderer = "late" THEN Target(bound) ELSE pending[1].target
Written == [state |-> IF pending[1].part THEN "done" ELSE "part", value |-> pending[1].value, by |-> pending[1].by]
Lands == Aim \in {"A", "B"} /\ pending[1].fits
Whither == <<Aim, pending[1].index>>

\* Two reports that differ only in how far they are written.
Same(d, e) ==
    d.target = e.target /\ d.index = e.index /\ d.value = e.value /\ d.by = e.by /\ d.fits = e.fits

\* The two strokes of PublishReport, one record at a time.
LEMMA Publishing ==
    ASSUME TypeOK, TypeOK', PublishReport
    PROVE  /\ UNCHANGED <<renderer, thread, fifo, bound, zpass, count, semaphore, descriptor, bodies, asked, excused>>
           /\ pending # <<>> /\ Len(pending) \in Nat \ {0} /\ pending[1] \in Debts
           /\ Lands => Whither \in Records
           /\ \A r \in Records : memory'[r] = IF Lands /\ r = Whither THEN Written ELSE memory[r]
           /\ canaries' = (canaries /\ pending[1].fits)
           /\ phase # "down" => strayed' = strayed
           /\ ~(pending[1].part \/ ~pending[1].fits) =>
                  /\ Len(pending') = Len(pending)
                  /\ \A k \in 1..Len(pending) : Same(pending'[k], pending[k])
           /\ pending[1].part \/ ~pending[1].fits =>
                  Len(pending') = Len(pending) - 1 /\ \A k \in 1..(Len(pending) - 1) : pending'[k] = pending[k + 1]
<1>1. pending # <<>> /\ Len(pending) \in Nat \ {0} /\ pending[1] \in Debts /\ Head(pending) = pending[1]
  BY DEF PublishReport, TypeOK
<1>2. /\ UNCHANGED <<renderer, thread, fifo, bound, zpass, count, semaphore, descriptor, bodies, asked, excused>>
      /\ memory' = IF Lands THEN [memory EXCEPT ![Whither] = Written] ELSE memory
      /\ canaries' = (canaries /\ pending[1].fits)
      /\ strayed' = (strayed \/ (phase = "down" /\ Aim \in {"A", "B"}))
      /\ pending' = IF pending[1].part \/ ~pending[1].fits THEN Tail(pending) ELSE [pending EXCEPT ![1].part = TRUE]
  BY <1>1 DEF PublishReport, Lands, Aim, Whither, Written
<1>3. Lands => Whither \in Records
  BY <1>1 DEF Lands, Whither, Records, Debts
<1>4. \A r \in Records : memory'[r] = IF Lands /\ r = Whither THEN Written ELSE memory[r]
  BY <1>2, <1>3 DEF TypeOK
<1>5. phase # "down" => strayed' = strayed
  BY <1>2 DEF TypeOK
<1>6. ASSUME ~(pending[1].part \/ ~pending[1].fits)
      PROVE  /\ Len(pending') = Len(pending)
             /\ \A k \in 1..Len(pending) : Same(pending'[k], pending[k])
  <2> DEFINE e == [pending[1] EXCEPT !.part = TRUE]
  <2>1. e \in Debts /\ Same(e, pending[1])
    BY <1>1 DEF Debts, Same
  <2>2. pending' = [pending EXCEPT ![1] = e] /\ pending \in Seq(Debts)
    BY <1>2, <1>6 DEF TypeOK
  <2> HIDE DEF e
  <2>3. DOMAIN pending = 1..Len(pending) /\ 1 \in DOMAIN pending
    BY <1>1, <2>2
  <2>4. pending' \in [1..Len(pending) -> Debts]
    BY <2>1, <2>2, <2>3
  <2>5. Len(pending') = Len(pending)
    BY <1>1, <2>4
  <2>6. \A k \in 1..Len(pending) : pending'[k] = IF k = 1 THEN e ELSE pending[k]
    BY <2>2, <2>3
  <2>7. \A k \in 1..Len(pending) : Same(pending'[k], pending[k])
    BY <2>1, <2>6 DEF Same
  <2> QED BY <2>5, <2>7
<1>7. ASSUME pending[1].part \/ ~pending[1].fits
      PROVE  Len(pending') = Len(pending) - 1 /\ \A k \in 1..(Len(pending) - 1) : pending'[k] = pending[k + 1]
  BY <1>1, <1>2, <1>7 DEF TypeOK
<1> QED BY <1>1, <1>2, <1>3, <1>4, <1>5, <1>6, <1>7

\* Every judged record that is known to be whole is out of the publisher's reach.
LEMMA KeptSafe ==
    ASSUME TypeOK, todo # <<>>, Running, pending # <<>>,
           NEW r \in Kept(leaf, Pos, failed), Lands
    PROVE  Whither # r
<1>1. /\ leaf \in Leaves /\ Loose \in BOOLEAN /\ Pos \in 1..Last(leaf) /\ Last(leaf) \in Nat /\ failed \in BOOLEAN
      /\ (Waiting => Kind(leaf)[Pos] = "complete")
  BY Underway DEF Running, TypeOK
<1>2. /\ Given \in Nat /\ Done \in 0..Given /\ Len(fifo) = Given - Done /\ Out \in 0..Owed(leaf, Loose, Done)
      /\ Len(pending) = Owed(leaf, Loose, Done) - Out /\ Len(pending) \in Nat \ {0}
      /\ Owed(leaf, Loose, Done) \in 0..Len(Due(leaf, Loose)) /\ Len(Due(leaf, Loose)) \in 1..3
  <2>1. Len(pending) # 0
    BY DEF TypeOK
  <2> QED BY <2>1, Cursors DEF Running
<1>3. Queued(leaf)[Pos] \in Nat /\ Synced(leaf)[Pos] \in Nat /\ Met(leaf, Loose)[Pos] \in Nat
  <2>1. /\ Queued(leaf)[Pos] \in 0..Ends(leaf) /\ Ends(leaf) \in Nat /\ Synced(leaf)[Pos] \in 0..Queued(leaf)[Pos]
        /\ Met(leaf, Loose)[Pos] \in 0..Len(Due(leaf, Loose))
    BY <1>1, QueuedBounds
  <2> QED BY <1>2, <2>1
<1>4. Synced(leaf)[Pos] <= Done /\ Met(leaf, Loose)[Pos] <= Out
  BY DEF Running, InFifo, InPending
<1>5. ~(/\ Synced(leaf)[Pos] = Queued(leaf)[Pos] /\ Met(leaf, Loose)[Pos] = Owed(leaf, Loose, Queued(leaf)[Pos])
        /\ Kind(leaf)[Pos] # "complete")
  <2> SUFFICES ASSUME Synced(leaf)[Pos] = Queued(leaf)[Pos], Kind(leaf)[Pos] # "complete",
                      Met(leaf, Loose)[Pos] = Owed(leaf, Loose, Queued(leaf)[Pos])
               PROVE  FALSE
    OBVIOUS
  <2>1. Given = Queued(leaf)[Pos]
    BY <1>1, <1>3 DEF Given
  <2>2. Done = Queued(leaf)[Pos]
    BY <1>2, <1>3, <1>4, <2>1
  <2> QED BY <1>2, <1>4, <2>2
<1>6. leaf = "range" /\ Pos \in 7..12 /\ r = A0
  <2>1. KeptWhen(leaf, Pos, Loose)
    BY <1>1, KeptTable
  <2> QED BY <1>1, <1>5, <2>1 DEF KeptWhen
<1>7. Met(leaf, Loose)[Pos] = 1
  <2>1. \A p \in 7..12 : Met("range", Loose)[p] = 1
    BY DEF Met
  <2> QED BY <1>6, <2>1
<1>8. /\ pending[1].index = Due(leaf, Loose)[Out + 1][2] /\ pending[1].fits = (pending[1].index = 0)
      /\ pending[1].target = Due(leaf, Loose)[Out + 1][1] /\ Out + 1 >= 2 /\ Out + 1 <= Owed(leaf, Loose, Done)
  BY <1>2, <1>4, <1>6, <1>7 DEF Running, InPending
<1>9. pending[1].index = 0
  BY <1>8 DEF Lands
<1>10. Aim = "B"
  <2>1. CASE renderer # "late"
    <3>1. Out + 1 \in 2..3
      BY <1>2, <1>8
    <3>2. CASE Loose
      <4>1. Due("range", Loose)[2][2] = 1 /\ Due("range", Loose)[3][1] = "B"
        BY <3>2 DEF Due, A0, A1, B0
      <4>2. Out + 1 # 2
        BY <1>6, <1>8, <1>9, <4>1
      <4>3. Out + 1 = 3
        BY <3>1, <4>2
      <4> QED BY <1>6, <1>8, <2>1, <4>1, <4>3 DEF Aim
    <3>3. CASE ~Loose
      <4>1. Due("range", Loose)[2][1] = "B" /\ Len(Due("range", Loose)) = 2
        BY <3>3 DEF Due, A0, B0
      <4>2. Len(Due(leaf, Loose)) = 2
        BY <1>6, <4>1
      <4>3. Out + 1 = 2
        BY <1>2, <1>8, <4>2
      <4> QED BY <1>6, <1>8, <2>1, <4>1, <4>3 DEF Aim
    <3> QED BY <3>2, <3>3
  <2>2. CASE renderer = "late"
    <3>1. Loose = FALSE
      BY <2>2 DEF Loose
    <3>2. \A k \in 0..14 : Owed("range", FALSE, k) <= 1
      BY DEF Owed, Asking
    <3>3. Done >= 15
      <4> SUFFICES ASSUME Done < 15 PROVE FALSE
        BY <1>2
      <4>1. Done \in 0..14
        BY <1>2
      <4>2. Owed(leaf, Loose, Done) <= 1
        BY <1>6, <3>1, <3>2, <4>1
      <4> QED BY <1>2, <1>8, <4>2
    <3>4. Done <= 16
      <4>1. \A p \in 7..12 : Queued("range")[p] \in 0..16 /\ (Kind("range")[p] = "complete" => Queued("range")[p] = 15)
        BY DEF Queued, Kind
      <4>2. Given = Queued(leaf)[Pos] + (IF Waiting THEN 1 ELSE 0)
        BY DEF Given
      <4>3. Queued(leaf)[Pos] \in 0..16 /\ (Waiting => Queued(leaf)[Pos] = 15)
        BY <1>1, <1>6, <4>1
      <4>4. Given \in 0..16
        <5>1. CASE Waiting
          BY <4>2, <4>3, <5>1
        <5>2. CASE ~Waiting
          BY <4>2, <4>3, <5>2
        <5> QED BY <5>1, <5>2
      <4> QED BY <1>2, <4>4
    <3>5. bound = "b"
      <4>1. bound = BoundAt(leaf, Done)
        BY <1>2, <3>3 DEF Running, InEngine
      <4> QED BY <1>2, <1>6, <3>3, <3>4, <4>1 DEF BoundAt
    <3> QED BY <2>2, <3>5 DEF Aim, Target
  <2> QED BY <2>1, <2>2
<1> QED BY <1>6, <1>10 DEF Whither, A0

\* A record that is whole now was whole, or has just been finished by its own report.
LEMMA MemoryKeeps ==
    ASSUME TypeOK, TypeOK', todo # <<>>, Running, PublishReport,
           Pos' = Pos, Loose' = Loose, Done' = Done,
           Out' = Out + (IF pending[1].part \/ ~pending[1].fits THEN 1 ELSE 0)
    PROVE  InMemory'
<1>1. /\ UNCHANGED <<renderer, leaf, failed, asked>> /\ pending # <<>> /\ pending[1] \in Debts
      /\ (Lands => Whither \in Records)
      /\ \A r \in Records : memory'[r] = IF Lands /\ r = Whither THEN Written ELSE memory[r]
  BY Publishing DEF thread
<1>2. InMemory
  BY DEF Running
<1>3. /\ leaf \in Leaves /\ Loose \in BOOLEAN /\ Pos \in 1..Last(leaf) /\ Last(leaf) \in Nat
  BY Underway DEF Running
<1>4. /\ Out \in Nat /\ Out + 1 \in 1..Len(Due(leaf, Loose)) /\ Len(Due(leaf, Loose)) \in Nat
      /\ Met(leaf, Loose)[Pos] < Out + 1
  <2>1. Len(pending) # 0
    BY <1>1 DEF TypeOK
  <2>2. /\ Out \in 0..Owed(leaf, Loose, Done) /\ Len(pending) = Owed(leaf, Loose, Done) - Out /\ Len(pending) \in Nat
        /\ Owed(leaf, Loose, Done) \in 0..Len(Due(leaf, Loose)) /\ Len(Due(leaf, Loose)) \in 1..3
    BY Cursors DEF Running
  <2>3. Met(leaf, Loose)[Pos] \in 0..Len(Due(leaf, Loose)) /\ Met(leaf, Loose)[Pos] <= Out
    BY <1>3, QueuedBounds DEF Running, InPending
  <2> QED BY <2>1, <2>2, <2>3
<1>5. /\ pending[1].index = Due(leaf, Loose)[Out + 1][2] /\ pending[1].by = asked
      /\ pending[1].fits = (leaf = "range" => pending[1].index = 0)
  <2>1. 1 \in 1..Len(pending)
    BY <1>1 DEF TypeOK
  <2> QED BY <2>1 DEF Running, InPending
<1>6. Out' \in Nat /\ Out <= Out' /\ (Lands /\ Written.state = "done" => Out' = Out + 1)
  BY <1>4 DEF Written
<1>7. Written.by = asked
  BY <1>5 DEF Written
<1>8. \A r \in Records : Whole(r)' => Whole(r) \/ (r = Whither /\ Lands /\ Out' = Out + 1)
  BY <1>1, <1>6 DEF Whole
<1>9. \A r \in Records : Pos >= 2 /\ Whole(r)' => Soonest(leaf, Loose, Pos, r) <= Out'
  <2> SUFFICES ASSUME NEW r \in Records, Pos >= 2, Whole(r)' PROVE Soonest(leaf, Loose, Pos, r) <= Out'
    OBVIOUS
  <2>0. Soonest(leaf, Loose, Pos, r) \in Int
    BY <1>3, <1>4 DEF Soonest
  <2>1. CASE Whole(r)
    BY <1>2, <1>4, <1>6, <2>0, <2>1 DEF InMemory
  <2>2. CASE r = Whither /\ Lands /\ Out' = Out + 1
    <3>1. r[2] = pending[1].index
      BY <2>2 DEF Whither
    <3>2. ~(leaf = "range" /\ r[2] = 1)
      <4>1. pending[1].fits
        BY <2>2 DEF Lands
      <4>2. leaf = "range" => pending[1].index = 0
        BY <1>5, <4>1
      <4> QED BY <3>1, <4>2
    <3>3. Soon(leaf, Pos, Loose)
      BY <1>3, SoonTable
    <3> QED BY <1>4, <1>5, <2>2, <3>1, <3>2, <3>3 DEF Soon
  <2> QED BY <1>8, <2>1, <2>2
<1>10. leaf = "switch" /\ Pos >= 2 /\ Whole(A0)' /\ Whole(B0)' => 2 <= Out'
  <2> SUFFICES ASSUME leaf = "switch", Pos >= 2, Whole(A0)', Whole(B0)' PROVE 2 <= Out'
    OBVIOUS
  <2>1. A0 \in Records /\ B0 \in Records /\ A0 # B0
    BY DEF A0, B0, Records
  <2>2. CASE Whole(A0) /\ Whole(B0)
    BY <1>2, <1>4, <1>6, <2>2 DEF InMemory
  <2>3. CASE Whole(A0) /\ ~Whole(B0)
    <3>1. Out' = Out + 1
      BY <1>8, <2>1, <2>3
    <3>2. Soonest("switch", Loose, Pos, A0) >= 1
      BY <1>3 DEF Soonest
    <3>3. Soonest("switch", Loose, Pos, A0) <= Out /\ Soonest("switch", Loose, Pos, A0) \in Int
      BY <1>2, <2>1, <2>3 DEF InMemory, Soonest
    <3> QED BY <1>4, <3>1, <3>2, <3>3
  <2>4. CASE ~Whole(A0) /\ Whole(B0)
    <3>1. Out' = Out + 1
      BY <1>8, <2>1, <2>4
    <3>2. Soonest("switch", Loose, Pos, B0) >= 1
      BY <1>3 DEF Soonest
    <3>3. Soonest("switch", Loose, Pos, B0) <= Out /\ Soonest("switch", Loose, Pos, B0) \in Int
      BY <1>2, <2>1, <2>4 DEF InMemory, Soonest
    <3> QED BY <1>4, <3>1, <3>2, <3>3
  <2> QED BY <1>8, <2>1, <2>2, <2>3, <2>4
<1>11. Fresh(leaf, Pos) \subseteq Records /\ Kept(leaf, Pos, failed) \subseteq Records
  BY <1>3 DEF Fresh, Kept, Records, A0, A1, B0, B1, Leaves
<1>12. \A r \in Fresh(leaf, Pos) : memory'[r].state = "reset" \/ memory'[r].by = asked
  BY <1>1, <1>2, <1>7, <1>11 DEF InMemory
<1>13. \A r \in Kept(leaf, Pos, failed) : Whole(r)'
  <2> TAKE r \in Kept(leaf, Pos, failed)
  <2>1. ~(Lands /\ r = Whither)
    BY <1>1, KeptSafe
  <2>2. memory'[r] = memory[r]
    BY <1>1, <1>11, <2>1
  <2> QED BY <1>2, <2>2 DEF InMemory, Whole
<1> QED BY <1>1, <1>9, <1>10, <1>12, <1>13 DEF InMemory

\* The publisher moves: the other two cursors stay.
LEMMA PublisherMoves ==
    ASSUME TypeOK, todo # <<>>, Running,
           UNCHANGED <<renderer, thread, fifo, bound, zpass, count, semaphore, descriptor, asked>>,
           Len(pending') \in Nat
    PROVE  /\ Pos' = Pos /\ Waiting' = Waiting /\ Loose' = Loose /\ Given' = Given /\ Done' = Done
           /\ Out' = Owed(leaf, Loose, Done) - Len(pending')
           /\ InScript' /\ InFifo' /\ InEngine' /\ InPlace'
<1>1. Pos' = Pos /\ Waiting' = Waiting /\ Loose' = Loose
  BY DEF Pos, Waiting, Loose, thread
<1>2. Given' = Given
  BY <1>1 DEF Given, thread
<1>3. Done' = Done
  BY <1>2 DEF Done
<1>4. Out' = Owed(leaf, Loose, Done) - Len(pending')
  BY <1>1, <1>3 DEF Out, thread
<1>5. InScript' /\ InPlace' /\ InEngine'
  BY <1>1, <1>3 DEF InScript, InPlace, InEngine, Running, thread
<1>6. InFifo'
  BY <1>1, <1>3 DEF InFifo, Tag, Running, thread
<1> QED BY <1>1, <1>2, <1>3, <1>4, <1>5, <1>6

\* A head that is through leaves the rest of the queue where it was due.
LEMMA PendingMoves ==
    ASSUME TypeOK, todo # <<>>, Running, UNCHANGED <<renderer, leaf, asked>>, Pos' = Pos, Loose' = Loose,
           Out' = Out + 1, Len(pending') = Len(pending) - 1,
           \A k \in 1..(Len(pending) - 1) : pending'[k] = pending[k + 1]
    PROVE  InPending'
<1>1. Out \in Nat /\ Len(pending) \in Nat /\ Met(leaf, Loose)[Pos] \in Nat
  <2>1. /\ Out \in 0..Owed(leaf, Loose, Done) /\ Owed(leaf, Loose, Done) \in 0..Len(Due(leaf, Loose))
        /\ Len(Due(leaf, Loose)) \in 1..3 /\ Len(pending) \in Nat
    BY Cursors DEF Running
  <2>2. Met(leaf, Loose)[Pos] \in 0..Len(Due(leaf, Loose))
    BY Underway, QueuedBounds DEF Running
  <2> QED BY <2>1, <2>2
<1>2. InPending
  BY DEF Running
<1>3. \A k \in 1..Len(pending') :
        /\ pending'[k].index = Due(leaf, Loose)[Out + 1 + k][2]
        /\ pending'[k].by = asked
        /\ pending'[k].fits = (leaf = "range" => pending'[k].index = 0)
        /\ leaf = "range" /\ Out + 1 + k >= 2 => pending'[k].target = Due(leaf, Loose)[Out + 1 + k][1]
  <2> TAKE k \in 1..Len(pending')
  <2>1. k \in 1..(Len(pending) - 1) /\ pending'[k] = pending[k + 1]
    OBVIOUS
  <2>2. k + 1 \in 1..Len(pending) /\ Out + (k + 1) = Out + 1 + k
    BY <1>1, <2>1
  <2> QED BY <1>2, <2>1, <2>2 DEF InPending
<1> QED BY <1>1, <1>2, <1>3 DEF InPending

\* On a conforming renderer the n-th report is in place once n reports are published.
LEMMA OrderKeeps ==
    ASSUME TypeOK, TypeOK', todo # <<>>, Running, PublishReport, renderer \in Conforming,
           Pos' = Pos, Loose' = Loose,
           Out' = Out + (IF pending[1].part \/ ~pending[1].fits THEN 1 ELSE 0)
    PROVE  InOrder'
<1> DEFINE d == Due(leaf, Loose)
<1>1. /\ UNCHANGED <<renderer, leaf, attempt, failed, asked>> /\ pending # <<>> /\ pending[1] \in Debts
      /\ canaries' = (canaries /\ pending[1].fits)
      /\ (Lands => Whither \in Records)
      /\ \A r \in Records : memory'[r] = IF Lands /\ r = Whither THEN Written ELSE memory[r]
      /\ Len(pending) \in Nat \ {0}
  BY Publishing DEF thread
<1>2. InOrder
  BY DEF Running
<1>3. /\ leaf \in Leaves /\ Loose \in BOOLEAN /\ Out \in Nat /\ Out + Len(pending) <= Len(d) /\ Len(d) \in Nat
  <2>1. /\ Out \in 0..Owed(leaf, Loose, Done) /\ Len(pending) = Owed(leaf, Loose, Done) - Out
        /\ Owed(leaf, Loose, Done) \in 0..Len(d) /\ Len(d) \in 1..3
    BY Cursors DEF Running
  <2>2. leaf \in Leaves /\ Loose \in BOOLEAN
    BY Underway DEF Running
  <2> QED BY <1>1, <2>1, <2>2
<1>4. /\ ~failed /\ canaries
      /\ \A k \in 1..Len(pending) : /\ pending[k].fits /\ pending[k].value = Amount(leaf)[Out + k]
                                    /\ Exact(Out + k) => <<pending[k].target, pending[k].index>> = d[Out + k]
      /\ \A i \in 1..Out : Exact(i) => Whole(d[i]) /\ memory[d[i]].value = Amount(leaf)[i]
      /\ leaf = "rewrite" /\ attempt = Attempts /\ Pos >= 10 => memory[B1] = Reset
  BY <1>2 DEF InOrder
<1>5. /\ pending[1].fits /\ pending[1].value = Amount(leaf)[Out + 1]
      /\ Exact(Out + 1) => <<pending[1].target, pending[1].index>> = d[Out + 1]
      /\ pending[1].index = d[Out + 1][2]
  <2>1. 1 \in 1..Len(pending)
    BY <1>1
  <2>2. pending[1].index = d[Out + 1][2]
    BY <2>1 DEF Running, InPending
  <2> QED BY <1>4, <2>1, <2>2
<1>6. Aim = pending[1].target
  BY DEF Aim, Conforming
<1>7. Out + 1 \in 1..Len(d) /\ \A i \in 1..Out : i \in 1..Len(d)
  BY <1>1, <1>3
<1>8. Exact(Out + 1) => Lands /\ Whither = d[Out + 1]
  <2> SUFFICES ASSUME Exact(Out + 1) PROVE Lands /\ Whither = d[Out + 1]
    OBVIOUS
  <2>1. Whither = d[Out + 1]
    BY <1>5, <1>6 DEF Whither
  <2>2. d[Out + 1] \in Records /\ d[Out + 1] = <<d[Out + 1][1], d[Out + 1][2]>>
    BY <1>3, <1>7, Due2
  <2>3. Aim \in {"A", "B"}
    BY <2>1, <2>2 DEF Whither, Records
  <2> QED BY <1>5, <2>1, <2>3 DEF Lands
<1>9. \A i \in 1..Out : Exact(i) => memory'[d[i]] = memory[d[i]]
  <2> SUFFICES ASSUME NEW i \in 1..Out, Exact(i) PROVE memory'[d[i]] = memory[d[i]]
    OBVIOUS
  <2>1. i \in 1..Len(d) /\ Out + 1 \in 1..Len(d) /\ i # Out + 1
    BY <1>3, <1>7
  <2>2. d[i] \in Records /\ d[Out + 1] # d[i]
    BY <1>3, <2>1, Due2
  <2>3. Whither # d[i]
    <3>1. CASE Exact(Out + 1)
      BY <1>8, <2>2, <3>1
    <3>2. CASE ~Exact(Out + 1)
      <4>1. leaf = "rewrite" /\ Out + 1 = 2
        BY <3>2 DEF Exact
      <4>2. i = 1
        BY <1>3, <4>1
      <4>3. d[1] = A0 /\ d[2][2] = 1
        BY <4>1 DEF Due, A0, A1
      <4>4. Whither[2] = 1 /\ A0[2] = 0
        BY <1>5, <4>1, <4>3 DEF Whither, A0
      <4> QED BY <4>2, <4>3, <4>4
    <3> QED BY <3>1, <3>2
  <2> QED BY <1>1, <2>2, <2>3
<1>10. Exact(Out + 1) /\ pending[1].part =>
          memory'[d[Out + 1]].state = "done" /\ memory'[d[Out + 1]].value = Amount(leaf)[Out + 1]
  <2>1. Exact(Out + 1) => memory'[d[Out + 1]] = Written
    BY <1>1, <1>8
  <2>2. pending[1].part => Written.state = "done" /\ Written.value = Amount(leaf)[Out + 1]
    BY <1>5 DEF Written
  <2> QED BY <2>1, <2>2
<1>11. leaf = "rewrite" /\ attempt = Attempts /\ Pos >= 10 => memory'[B1] = Reset
  <2> SUFFICES ASSUME leaf = "rewrite", attempt = Attempts, Pos >= 10 PROVE memory'[B1] = Reset
    OBVIOUS
  <2>1. B1 \in Records
    BY DEF B1, Records
  <2>2. Exact(Out + 1)
    BY DEF Exact
  <2>3. Whither # B1
    BY <1>3, <1>7, <1>8, <2>2, Due2
  <2> QED BY <1>1, <1>4, <2>1, <2>3
<1> HIDE DEF d
<1>12. CASE pending[1].part
  <2>1. /\ Len(pending') = Len(pending) - 1 /\ \A k \in 1..(Len(pending) - 1) : pending'[k] = pending[k + 1]
        /\ Out' = Out + 1
    BY <1>12, Publishing
  <2>2. \A k \in 1..Len(pending') :
          /\ pending'[k].fits /\ pending'[k].value = Amount(leaf)[Out + 1 + k]
          /\ Exact(Out + 1 + k) => <<pending'[k].target, pending'[k].index>> = d[Out + 1 + k]
    <3> TAKE k \in 1..Len(pending')
    <3>1. k + 1 \in 1..Len(pending) /\ Out + (k + 1) = Out + 1 + k /\ pending'[k] = pending[k + 1]
      BY <1>1, <1>3, <2>1
    <3> QED BY <1>4, <3>1
  <2>3. \A i \in 1..(Out + 1) : Exact(i) => /\ memory'[d[i]].state = "done"
                                            /\ memory'[d[i]].value = Amount(leaf)[i]
    <3> TAKE i \in 1..(Out + 1)
    <3>1. CASE i \in 1..Out
      BY <1>4, <1>9, <3>1 DEF Whole
    <3>2. CASE i = Out + 1
      BY <1>10, <1>12, <3>2
    <3> QED BY <1>3, <3>1, <3>2
  <2>4. \A k \in 1..Len(pending') :
          /\ pending'[k].fits /\ pending'[k].value = Amount(leaf')[Out' + k]
          /\ Exact(Out + k)' => <<pending'[k].target, pending'[k].index>> = Due(leaf', Loose')[Out' + k]
    <3> TAKE k \in 1..Len(pending')
    <3>1. Out' + k = Out + 1 + k
      BY <2>1
    <3>2. Exact(Out + k)' => Exact(Out + 1 + k)
      BY <1>1, <3>1 DEF Exact
    <3>3. d = Due(leaf', Loose') /\ leaf' = leaf
      BY <1>1 DEF d
    <3>4. /\ pending'[k].fits /\ pending'[k].value = Amount(leaf)[Out + 1 + k]
          /\ Exact(Out + 1 + k) => <<pending'[k].target, pending'[k].index>> = d[Out + 1 + k]
      BY <2>2
    <3> QED BY <3>1, <3>2, <3>3, <3>4
  <2>5. \A i \in 1..Out' : Exact(i)' => /\ memory'[Due(leaf', Loose')[i]].state = "done"
                                        /\ memory'[Due(leaf', Loose')[i]].value = Amount(leaf')[i]
    BY <1>1, <2>1, <2>3 DEF Exact, d
  <2>6. ~failed' /\ canaries'
    BY <1>1, <1>4, <1>5
  <2>7. leaf' = "rewrite" /\ attempt' = Attempts /\ Pos' >= 10 => memory'[B1] = Reset
    BY <1>1, <1>11
  <2> QED BY <2>4, <2>5, <2>6, <2>7 DEF InOrder, Whole
<1>13. CASE ~pending[1].part
  <2>1. /\ Len(pending') = Len(pending) /\ \A k \in 1..Len(pending) : Same(pending'[k], pending[k])
        /\ Out' = Out
    BY <1>3, <1>5, <1>13, Publishing
  <2>2. \A k \in 1..Len(pending') :
          /\ pending'[k].fits /\ pending'[k].value = Amount(leaf)[Out + k]
          /\ Exact(Out + k) => <<pending'[k].target, pending'[k].index>> = d[Out + k]
    BY <1>4, <2>1 DEF Same
  <2>3. \A i \in 1..Out : Exact(i) => memory'[d[i]].state = "done" /\ memory'[d[i]].value = Amount(leaf)[i]
    BY <1>4, <1>9 DEF Whole
  <2>4. \A k \in 1..Len(pending') :
          /\ pending'[k].fits /\ pending'[k].value = Amount(leaf')[Out' + k]
          /\ Exact(Out + k)' => <<pending'[k].target, pending'[k].index>> = Due(leaf', Loose')[Out' + k]
    <3> TAKE k \in 1..Len(pending')
    <3>1. Out' + k = Out + k
      BY <2>1
    <3>2. Exact(Out + k)' => Exact(Out + k)
      BY <1>1, <3>1 DEF Exact
    <3>3. d = Due(leaf', Loose') /\ leaf' = leaf
      BY <1>1 DEF d
    <3>4. /\ pending'[k].fits /\ pending'[k].value = Amount(leaf)[Out + k]
          /\ Exact(Out + k) => <<pending'[k].target, pending'[k].index>> = d[Out + k]
      BY <2>2
    <3> QED BY <3>1, <3>2, <3>3, <3>4
  <2>5. \A i \in 1..Out' : Exact(i)' => /\ memory'[Due(leaf', Loose')[i]].state = "done"
                                        /\ memory'[Due(leaf', Loose')[i]].value = Amount(leaf')[i]
    BY <1>1, <2>1, <2>3 DEF Exact, d
  <2>6. ~failed' /\ canaries'
    BY <1>1, <1>4, <1>5
  <2>7. leaf' = "rewrite" /\ attempt' = Attempts /\ Pos' >= 10 => memory'[B1] = Reset
    BY <1>1, <1>11
  <2> QED BY <2>4, <2>5, <2>6, <2>7 DEF InOrder, Whole
<1> QED BY <1>12, <1>13

\* PublishReport, in a body and outside one.
LEMMA PublishKeeps == ASSUME TypeOK, TypeOK', Sound, PublishReport PROVE Sound'
<1>1. pending # <<>>
  BY DEF PublishReport
<1>2. phase = "body" /\ todo # <<>> /\ Running
  BY <1>1, Rests DEF Quiet, Sound
<1>3. UNCHANGED <<renderer, thread, fifo, bound, zpass, count, semaphore, descriptor, asked>> /\ strayed' = strayed
      /\ UNCHANGED <<phase, leaf, todo>>
  BY <1>2, Publishing DEF thread
<1>4. Len(pending') \in Nat /\ Len(pending) \in Nat
  BY DEF TypeOK
<1>5. /\ Pos' = Pos /\ Loose' = Loose /\ Done' = Done /\ Out' = Owed(leaf, Loose, Done) - Len(pending')
      /\ InScript' /\ InFifo' /\ InEngine' /\ InPlace'
  BY <1>2, <1>3, <1>4, PublisherMoves
<1>6. Owed(leaf, Loose, Done) \in Nat /\ Out = Owed(leaf, Loose, Done) - Len(pending)
  <2>1. Owed(leaf, Loose, Done) \in 0..Len(Due(leaf, Loose)) /\ Len(Due(leaf, Loose)) \in 1..3
    BY <1>2, Cursors DEF Running
  <2> QED BY <2>1 DEF Out
<1>7. Out' = Out + (IF pending[1].part \/ ~pending[1].fits THEN 1 ELSE 0)
  BY <1>4, <1>5, <1>6, Publishing
<1>8. InMemory'
  BY <1>2, <1>5, <1>7, MemoryKeeps
<1>9. InOrder'
  <2>1. CASE renderer \in Conforming
    BY <1>2, <1>5, <1>7, <2>1, OrderKeeps
  <2>2. CASE renderer \notin Conforming
    BY <1>3, <2>2 DEF InOrder
  <2> QED BY <2>1, <2>2
<1>10. InPending'
  <2>1. CASE pending[1].part \/ ~pending[1].fits
    BY <1>2, <1>3, <1>5, <1>7, <2>1, Publishing, PendingMoves
  <2>2. CASE ~(pending[1].part \/ ~pending[1].fits)
    <3>1. Len(pending') = Len(pending) /\ \A k \in 1..Len(pending) : Same(pending'[k], pending[k])
      BY <2>2, Publishing
    <3>2. Out' = Out
      BY <1>4, <1>5, <1>6, <3>1
    <3>3. InPending
      BY <1>2 DEF Running
    <3> QED BY <1>3, <1>5, <3>1, <3>2, <3>3 DEF InPending, Same
  <2> QED BY <2>1, <2>2
<1> QED BY <1>2, <1>3, <1>5, <1>8, <1>9, <1>10, InBody DEF Running

\* LoseReport: a report that is lost leaves its record as it was.
LEMMA LoseKeeps == ASSUME TypeOK, TypeOK', Sound, LoseReport PROVE Sound'
<1>1. /\ pending # <<>> /\ renderer = "lossy" /\ pending' = Tail(pending) /\ pending \in Seq(Debts)
      /\ UNCHANGED <<renderer, thread, fifo, bound, zpass, count, semaphore, descriptor, memory, canaries, asked, strayed>>
      /\ UNCHANGED <<phase, leaf, todo, failed>>
  BY DEF LoseReport, observed, thread, TypeOK
<1>2. phase = "body" /\ todo # <<>> /\ Running
  BY <1>1, Rests DEF Quiet, Sound
<1>3. Len(pending') = Len(pending) - 1 /\ Len(pending) \in Nat \ {0}
      /\ \A k \in 1..(Len(pending) - 1) : pending'[k] = pending[k + 1]
  BY <1>1
<1>4. /\ Pos' = Pos /\ Loose' = Loose /\ Done' = Done /\ Out' = Owed(leaf, Loose, Done) - Len(pending')
      /\ InScript' /\ InFifo' /\ InEngine' /\ InPlace'
  BY <1>1, <1>2, <1>3, PublisherMoves
<1>5. Owed(leaf, Loose, Done) \in Nat /\ Out = Owed(leaf, Loose, Done) - Len(pending) /\ Out \in Nat
      /\ leaf \in Leaves /\ Len(Due(leaf, Loose)) \in Nat
  <2>1. /\ Owed(leaf, Loose, Done) \in 0..Len(Due(leaf, Loose)) /\ Len(Due(leaf, Loose)) \in 1..3
        /\ Out \in 0..Owed(leaf, Loose, Done) /\ leaf \in Leaves
    BY <1>2, Cursors, Underway DEF Running
  <2> QED BY <2>1 DEF Out
<1>6. Out' = Out + 1
  BY <1>3, <1>4, <1>5
<1>7. InPending'
  BY <1>1, <1>2, <1>3, <1>4, <1>6, PendingMoves
<1>8. InMemory'
  <2>1. \A r \in Records : Soonest(leaf, Loose, Pos, r) <= Out => Soonest(leaf, Loose, Pos, r) <= Out + 1
    <3> TAKE r \in Records
    <3>1. Soonest(leaf, Loose, Pos, r) \in Int
      BY <1>5 DEF Soonest
    <3> QED BY <1>5, <3>1
  <2>2. 2 <= Out => 2 <= Out + 1
    BY <1>5
  <2> QED BY <1>1, <1>2, <1>4, <1>6, <2>1, <2>2 DEF InMemory, Whole, Running
<1>9. InOrder'
  BY <1>1 DEF InOrder, Conforming
<1> QED BY <1>1, <1>2, <1>4, <1>7, <1>8, <1>9, InBody DEF Running

-----------------------------------------------------------------------------
(* The invariant, and what follows from it                                 *)

\* Between bodies, and at the end of the suite.
LEMMA RestKeeps ==
    ASSUME TypeOK, TypeOK', Sound, EndBody \/ EndTest \/ Deinitialize \/ FreeReportMemory
    PROVE  Sound'
<1>1. CASE EndBody
  <2>1. /\ phase = "body" /\ todo = <<>> /\ phase' = (IF failed THEN "returned" ELSE "passed")
        /\ UNCHANGED <<renderer, leaf, todo, failed, fifo, pending, descriptor, memory, asked, strayed>>
    BY <1>1 DEF EndBody, engine, observed
  <2>2. Returned'
    BY <2>1 DEF Sound, Returned, Quiet, Whole
  <2> QED BY <2>1, <2>2 DEF Sound
<1>2. CASE EndTest
  <2>1. /\ phase \in {"passed", "returned"} /\ fifo = <<>> /\ phase' = "ready"
        /\ UNCHANGED <<renderer, failed, fifo, pending, descriptor, strayed>>
    BY <1>2 DEF EndTest, observed
  <2> QED BY <2>1 DEF Sound, Returned, Quiet
<1>3. CASE Deinitialize
  <2>1. /\ phase = "ready" /\ phase' = "teardown" /\ UNCHANGED <<renderer, failed, pending, strayed>>
        /\ fifo' = fifo \o <<Zpass(0), Bind("full_ram"), Release>>
    BY <1>3 DEF Deinitialize, observed
  <2>2. fifo' = <<Zpass(0), Bind("full_ram"), Release>>
    BY <2>1 DEF Sound
  <2>3. Quiet'
    BY <2>1, <2>2 DEF Sound, Quiet, Zpass, Bind, Release, Method
  <2> QED BY <2>1, <2>3 DEF Sound
<1>4. CASE FreeReportMemory
  <2>1. phase = "teardown" /\ phase' = "down" /\ UNCHANGED <<renderer, failed, fifo, pending, strayed>>
    BY <1>4 DEF FreeReportMemory, engine, observed
  <2> QED BY <2>1 DEF Sound, Quiet
<1> QED BY <1>1, <1>2, <1>3, <1>4

\* A wait that has run out stays so.
LEMMA Excuses == ASSUME TypeOK, TypeOK', [Next]_vars, excused PROVE excused'
  BY DEF TypeOK, Next, TestThread, BeginTest, NextSample, RunScenario, PushMethods, WriteMemory,
     CompleteGpuWork,
         SemaphoreSeen, RecordSeen, ShadowSeen, TimesOut, AssertXemuPerfEqual, LookAtA1, JudgeAttempt, EndBody,
         EndTest, Deinitialize, FreeReportMemory, ExecuteMethod, PublishReport, LoseReport, observed, vars

\* As long as no wait runs out, every step keeps Sound.
LEMMA SoundKeeps == ASSUME TypeOK, TypeOK', Sound, [Next]_vars, ~excused' PROVE Sound'
<1>1. CASE BeginTest
  <2>1. fifo = <<>> /\ pending = <<>> /\ descriptor = "A"
    BY <1>1 DEF BeginTest, Sound, Quiet
  <2> QED BY <1>1, <2>1, BeginKeeps DEF BeginTest
<1>2. CASE NextSample
  <2>1. fifo = <<>> /\ pending = <<>> /\ descriptor = "A"
    BY <1>2 DEF NextSample, Sound, Returned, Quiet
  <2>2. leaf \in Scenarios
    BY DEF TypeOK
  <2> QED BY <1>2, <2>1, <2>2, BeginKeeps DEF NextSample
<1>3. CASE TimesOut
  BY <1>3 DEF TimesOut
<1>4. CASE UNCHANGED vars
  <2>1. UNCHANGED <<phase, todo>> /\ Running' = Running /\ Returned' = Returned
    BY <1>4 DEF vars, thread, engine, observed, Running, InScript, InFifo, InEngine, InPending,
                InMemory, InPlace,
                InOrder, Exact, Whole, Tag, Pos, Waiting, Loose, Given, Done, Out, Returned, Quiet
  <2> QED BY <1>4, <2>1 DEF Sound, vars, thread, engine, observed, Quiet
<1> QED
  BY <1>1, <1>2, <1>3, <1>4, PushKeeps, WriteKeeps, CompleteKeeps, SemaphoreKeeps, AwaitKeeps,
     ShadowKeeps,
     CheckKeeps, LookKeeps, JudgeKeeps, RestKeeps, ExecuteKeeps, PublishKeeps, LoseKeeps DEF Next, TestThread

\* The invariant holds initially,
LEMMA Begins == ASSUME Init PROVE IInv
  BY DEF Init, IInv, Sound, Quiet

\* and every step keeps it.
LEMMA IInvKeeps == ASSUME TypeOK, TypeOK', IInv, [Next]_vars PROVE IInv'
  BY Excuses, SoundKeeps DEF IInv

(***************************************************************************)
(* Every variable of the suite, the GPU and its memory keeps its type,     *)
(* whatever leaves are run on whatever renderer.                           *)
(***************************************************************************)
THEOREM TypesHold == Spec => []TypeOK
<1>1. Init => TypeOK
  BY InitTyped
<1>2. TypeOK /\ [Next]_vars => TypeOK'
  BY Typed
<1> QED BY <1>1, <1>2, PTL DEF Spec

(***************************************************************************)
(* Until a wait runs out, the thread, PFIFO and the publisher are where    *)
(* the script says they may be, and the registers, queues and records hold *)
(* what the methods between them make of them (RunScenario and the engine  *)
(* it drives).                                                             *)
(***************************************************************************)
THEOREM RunsAreSound == Spec => []IInv
<1>1. Init => IInv
  BY Begins
<1>2. TypeOK /\ TypeOK' /\ IInv /\ [Next]_vars => IInv'
  BY IInvKeeps
<1> QED BY <1>1, <1>2, TypesHold, PTL DEF Spec

(***************************************************************************)
(* RunScenario accepts every conforming renderer: on one that publishes a  *)
(* consumed report to the record its context pointed to, at any later time *)
(* and in order, no AssertXemuPerfEqual fails unless a bounded wait has    *)
(* run out, or A1 was seen half-written, before.                           *)
(***************************************************************************)
THEOREM ConformingNeverFails == Spec => []OracleIsSound
<1>1. TypeOK /\ IInv => OracleIsSound
  BY ReportAssumption DEF TypeOK, IInv, Sound, OracleIsSound
<1> QED BY <1>1, TypesHold, RunsAreSound, PTL

(***************************************************************************)
(* A leaf that passes, on any of the renderers, has been judged by whole   *)
(* records that its own last attempt asked for: ResetRecord and the waits  *)
(* of RunScenario leave no room for the reports of an earlier sample or    *)
(* attempt.                                                                *)
(***************************************************************************)
THEOREM PassOnOwnReports == Spec => []PassIsItsOwn
<1>1. IInv => PassIsItsOwn
  BY DEF IInv, Sound, Returned, PassIsItsOwn
<1> QED BY <1>1, RunsAreSound, PTL

(***************************************************************************)
(* Deinitialize frees the report memory only when no report can still be   *)
(* written to it, unless a wait has run out before: every body waits for   *)
(* the reports it asks for.                                                *)
(***************************************************************************)
THEOREM FreedMemoryIsLeftAlone == Spec => []NothingStrays
<1>1. IInv => NothingStrays
  BY DEF IInv, Sound, NothingStrays
<1> QED BY <1>1, RunsAreSound, PTL
=============================================================================
