--------------------------- MODULE EvidenceStore ---------------------------
(***************************************************************************)
(* What the result directory promises, whatever the console does: a set of *)
(* result files, at most one per boot, that only ever grow.  A file takes  *)
(* records while it is open, may be cut short (power loss, failed write)   *)
(* and, once closed, is final.  No operation removes or rewrites one.      *)
(***************************************************************************)
EXTENDS Naturals, Sequences

CONSTANTS
    Ids,         \* stable identifiers of leaves and groups
    Boots        \* numbers of the power-ons

Outcome == {"PASS", "FAIL"}
Record == [id : Ids, outcome : Outcome]

(***************************************************************************)
(* One results file.  tail is how the text ends: "open" after a whole      *)
(* record, "torn" inside one, "closed" after the final bracket.            *)
(***************************************************************************)
File == [boot : Boots, recs : Seq(Record), tail : {"open", "torn", "closed"}]

VARIABLE store       \* every results file on the disk, whatever its name

Init == store = {}

Replace(f, g) == store' = (store \ {f}) \cup {g}

Open(b) ==
    /\ \A f \in store : f.boot # b
    /\ store' = store \cup {[boot |-> b, recs |-> <<>>, tail |-> "open"]}

AppendRecord(f, r) ==
    /\ f.tail = "open"
    /\ Replace(f, [f EXCEPT !.recs = Append(@, r)])

Tear(f) ==
    /\ f.tail = "open"
    /\ Replace(f, [f EXCEPT !.tail = "torn"])

Close(f) ==
    /\ f.tail = "open"
    /\ Replace(f, [f EXCEPT !.tail = "closed"])

Next ==
    \/ \E b \in Boots : Open(b)
    \/ \E f \in store : Tear(f) \/ Close(f) \/ \E r \in Record : AppendRecord(f, r)

Spec == Init /\ [][Next]_store
=============================================================================
