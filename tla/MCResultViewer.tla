--------------------------- MODULE MCResultViewer ---------------------------
(***************************************************************************)
(* A complete baseline in the old format, and a candidate of any of a few  *)
(* runs cut anywhere: repeated ids, groups, records without samples, with  *)
(* as many samples as fit, and with enough to compact twice.               *)
(***************************************************************************)
EXTENDS ResultViewer

Leaf(id, taken) ==
    [id |-> id, group |-> FALSE, old |-> FALSE, oracle |-> "none", average |-> 2, median |-> 1, samples |-> taken]
Group == [Leaf("g", <<>>) EXCEPT !.group = TRUE]
Old(r) == [r EXCEPT !.old = TRUE]

Reference == <<Old(Leaf("a", <<3, 1>>)), Old([Leaf("b", <<2, 2, 1, 3>>) EXCEPT !.oracle = "PASS"])>>

Candidates == {
    <<Leaf("a", <<1, 2, 3, 1, 2, 3, 3>>), Leaf("b", <<2>>)>>,
    <<Old([Leaf("b", <<>>) EXCEPT !.oracle = "FAIL"]), Old(Leaf("a", <<1, 3, 2>>))>>,
    <<Leaf("a", <<1>>), Group, Leaf("a", <<2, 3>>)>>,
    <<Old(Leaf("b", <<3, 1, 2, 2>>)), Leaf("a", <<2, 1>>)>>}

MCHistories ==
    {[ref |-> [run |-> Reference, lines |-> RunLines(Reference)], now |-> [run |-> c, lines |-> l]] :
        <<c, l>> \in UNION {{c} \X Left(c) : c \in Candidates}}
=============================================================================
