-------------------------- MODULE MCOracleLedger --------------------------
(***************************************************************************)
(* Three runners and reports that agree, disagree on one of two tests,     *)
(* fail an oracle of their own, or have a surface scale the ledger refuses. *)
(***************************************************************************)
EXTENDS OracleLedger

P(name, size, records) == [id |-> name, scale |-> size, records |-> records]
Rec(h, i) == [hashes |-> h, internal |-> i]

MCReports ==
    {P("r1", 1, [t1 |-> Rec("a", "none"), t2 |-> Rec("a", "none")]),
     P("r2", 1, [t1 |-> Rec("a", "PASS"), t2 |-> Rec("b", "PASS")]),
     P("r3", 1, [t1 |-> Rec("a", "none"), t2 |-> Rec("b", "FAIL")]),
     P("r4", 2, [t1 |-> Rec("b", "none")]),
     P("r5", 5, [t1 |-> Rec("a", "none")])}

=============================================================================
