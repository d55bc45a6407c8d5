-------------------------- MODULE MCRevalidation --------------------------
(***************************************************************************)
(* Runs whose reports agree, agree but for a diagnostic count or the       *)
(* spelling of a hash, or do not; runs of one record that differs in up to *)
(* two fields from a plain one; two revalidations with the same output     *)
(* directory.                                                              *)
(***************************************************************************)
EXTENDS Revalidation, FiniteSetsExt, TLC

CONSTANTS p1, p2, p3, v1, v2

MCSpelling == [a |-> "a", A |-> "a", b |-> "b"] @@ ("0xa" :> "a")
MCKats == {"source_kat", "tile_center_kat", "expected_kat", "actual_kat"}
MCCounterpart == [expected_kat |-> "actual_kat"]

Plain == [name |-> "t", contract |-> "c1", frame |-> "a",
          expectedFrame |-> "none", work |-> "none", result |-> "none",
          kind |-> "plain", metadata |-> [title |-> "x"], frameEligible |-> TRUE,
          oracleApplicable |-> TRUE, reason |-> "none", status |-> "none",
          failures |-> -1, provenance |-> "none"]

S3tc(count) == [Plain EXCEPT !.name = "s3tc", !.frameEligible = FALSE,
                             !.oracleApplicable = FALSE, !.reason = "unsynchronized",
                             !.metadata = [source_kat |-> "x", tile_center_kat |-> "x"],
                             !.status = "PASS", !.failures = count,
                             !.provenance = "regression_only"]

Metadata ==
    {[source_kat |-> "x"], [tile_center_kat |-> "bad"],
     [source_kat |-> "x", tile_center_kat |-> "y"],
     [expected_kat |-> "x", actual_kat |-> "y"]}

Values == [frame |-> {"none"}, expectedFrame |-> {"A", "?"},
           work |-> {"a"}, result |-> {"A"}, kind |-> {"repeated_display"},
           metadata |-> Metadata, frameEligible |-> {FALSE},
           oracleApplicable |-> {FALSE}, reason |-> {"why"},
           status |-> {"Fail", "pass"}]

Varied == UNION {UNION {{[Plain EXCEPT ![f] = x, ![g] = y] : x \in Values[f],
                                                           y \in Values[g]} :
              f \in DOMAIN Values} : g \in DOMAIN Values}

Saw ==
    <<{Plain, S3tc(1)},
      {[Plain EXCEPT !.frame = "0xa"], S3tc(2)},
      {[Plain EXCEPT !.frame = "b"], S3tc(1)},
      {Plain, S3tc(1)},
      {[Plain EXCEPT !.status = "fail"], S3tc(1)},
      {[Plain EXCEPT !.status = "FAIL"], S3tc(1)},
      {[Plain EXCEPT !.frame = "A"], S3tc(0)},
      {Plain}, {Plain}, {[Plain EXCEPT !.frame = "0xa"]},
      {Plain, [Plain EXCEPT !.frame = "b"]}>>
    \o FoldSet(LAMBDA r, s : Append(s, {r}), <<>>, Varied)

\* Run 4 is on another backend; runs 8 to 10 are on consoles of two owners.
MCRuns ==
    [i \in DOMAIN Saw |->
        [id |-> ToString(i),
         type |-> IF i \in 8..10 THEN "RETAIL_XBOX" ELSE "XEMU",
         backend |-> CASE i = 4 -> "VK" [] i \in 8..10 -> "xbox" [] OTHER -> "GL",
         guest |-> "g", job |-> "j", scale |-> 1,
         hardware |-> CASE i = 8 -> "o1" [] i \in 9..10 -> "o2" [] OTHER -> "none",
         raw |-> Saw[i]]]

MCFirst == {p1 :> i @@ p2 :> j @@ p3 :> k :
               i \in {1, 5}, j \in {2, 4, 6}, k \in {2, 3, 7}}
           \cup {p1 :> 8 @@ p2 :> 9 @@ p3 :> 10}
           \cup {p1 :> 1 @@ p2 :> 2 @@ p3 :> k : k \in DOMAIN Saw}
MCLater == {2, 3, 7}

MCBaseline == v1 :> <<p1, p2>> @@ v2 :> <<p3, p1>>
MCCandidate == v1 :> <<p3>> @@ v2 :> <<p2>>
=============================================================================
