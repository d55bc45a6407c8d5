------------------------- MODULE DeterminismLedger -------------------------
(***************************************************************************)
(* What the functional-hash ledger of the host promises to its runs: every *)
(* accepted observation is in it, all of it or nothing, and the hashes of  *)
(* a key are those of its first observation for ever.                      *)
(***************************************************************************)
CONSTANTS Observations    \* [id, seen], seen: hashes of some keys

VARIABLE ledger           \* key |-> [hashes, ids]

Init == ledger = [k \in {} |-> {}]

Agrees(l, o) == \A k \in DOMAIN o.seen \cap DOMAIN l :
                   l[k].hashes = o.seen[k]

Merge(l, o) ==
    [k \in DOMAIN l \cup DOMAIN o.seen |->
        IF k \notin DOMAIN o.seen THEN l[k]
        ELSE [hashes |-> o.seen[k],
              ids |-> (IF k \in DOMAIN l THEN l[k].ids ELSE {}) \cup {o.id}]]

Learn(o) == Agrees(ledger, o) /\ ledger' = Merge(ledger, o)

Next == \E o \in Observations : Learn(o)

Spec == Init /\ [][Next]_ledger
=============================================================================
