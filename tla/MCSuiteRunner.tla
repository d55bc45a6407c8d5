--------------------------- MODULE MCSuiteRunner ---------------------------
(***************************************************************************)
(* Small instances of SuiteRunner: guests that pass, fail after or before  *)
(* a verdict, break the protocol on their way, number events out of order, *)
(* stop speaking or crash.                                                 *)
(***************************************************************************)
EXTENDS SuiteRunner

L(kind, seq) == [kind |-> kind, seq |-> seq]
F0 == L("F0", 0)
F1 == L("F1", 0)

G(lines, ends) == [lines |-> lines, ends |-> ends]

Passes == G(<<F0, F1, L("PASS", 2)>>, "exit")
Fails == G(<<F0, L("FAIL", 1)>>, "hang")
ErrorThenPass == G(<<F0, L("PROTOCOL_ERROR", 1), F1, L("PASS", 2)>>, "exit")
PassThenError == G(<<F0, F1, L("PASS", 2), L("PROTOCOL_ERROR", 3)>>, "exit")
Crashes == G(<<L("CONTEXT", 2), F0, F1>>, "crash")
FailsTwice == G(<<L("PROTOCOL_ERROR", 2), L("FAIL", 1)>>, "hang")

R(lm, wv, hf, cs, gs, vk, lg) ==
    [live |-> lm, waiver |-> wv, held |-> hf, shots |-> cs, gdb |-> gs,
     vulkan |-> vk, ledger |-> lg]

HeldRun == R(TRUE, FALSE, TRUE, 0, 0, TRUE, TRUE)
TimedRun == R(TRUE, FALSE, FALSE, 2, 0, FALSE, FALSE)
SampledRun == R(TRUE, FALSE, FALSE, 0, 1, FALSE, TRUE)
WaivedRun == R(TRUE, TRUE, FALSE, 0, 0, FALSE, TRUE)
OutputOnlyRun == R(FALSE, FALSE, FALSE, 0, 0, FALSE, TRUE)

Booting(r, guests) == {[req |-> r, guest |-> g] : g \in guests}

MCRuns ==
    Booting(HeldRun, {Passes, Fails, ErrorThenPass, PassThenError})
        \cup Booting(TimedRun, {Passes, FailsTwice})
        \cup Booting(SampledRun, {Passes, Fails})
        \cup Booting(WaivedRun, {PassThenError, Crashes, FailsTwice})
        \cup Booting(OutputOnlyRun, {Passes, Crashes})
=============================================================================
