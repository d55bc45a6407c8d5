-------------------------- MODULE MCPlanAdmission --------------------------
(***************************************************************************)
(* A catalog with every kind of leaf: a plain one, two masked composites   *)
(* of two stages, a pressure route of two checkpoints, and one leaf of an  *)
(* xemu-only suite of each kind.  The files are a valid legacy file and a  *)
(* few valid plans, and each of them spoilt in one place.                  *)
(***************************************************************************)
EXTENDS PlanAdmission, TLC

CONSTANTS plain, scene1, scene2, cross1, cross2, press1, press2, voice, cube, group

MCLeaves == {plain, scene1, scene2, cross1, cross2, press1, press2, voice, cube}
MCRouteOf ==
    (plain :> <<"S", "t1">>) @@ (scene1 :> <<"G", "t1">>) @@ (scene2 :> <<"G", "t1">>)
    @@ (cross1 :> <<"G", "t2">>) @@ (cross2 :> <<"G", "t2">>)
    @@ (press1 :> <<"S", "t2">>) @@ (press2 :> <<"S", "t2">>)
    @@ (voice :> <<"V", "t1">>) @@ (cube :> <<"C", "t1">>)
MCMaskOf == [l \in MCLeaves |-> CASE l \in {scene1, scene2} -> 1 [] l \in {cross1, cross2} -> 2 [] OTHER -> 0]
MCPressure == {{press1, press2}}

None == [present |-> FALSE, bits |-> {}, stages |-> {}]
Legacy == [kind |-> "json", sections |-> <<None, None>>, plan |-> {}, settings |-> "object",
           skip |-> {}, xemu |-> {}, fault |-> "none", filter |-> {}]
PlanOf(ids) == {[head |-> "ok", ids |-> ids, count |-> Len(ids)]}
Planning(ids) == [Legacy EXCEPT !.plan = PlanOf(ids)]

SectionFiles ==
    {[Legacy EXCEPT !.sections[1] = [present |-> TRUE, bits |-> b, stages |-> t], !.sections[2] = n] :
        b \in {{}, {{scene1}}}, t \in {{}, {{scene1, scene2}}, {{scene2}}},
        n \in {None, [None EXCEPT !.present = TRUE], [present |-> TRUE, bits |-> {{}}, stages |-> {}]}}

FilterFiles ==
    {[Legacy EXCEPT !.skip = {TRUE}, !.xemu = x,
                    !.filter = {[suites |-> "S" :> FALSE, cases |-> "G" :> ("t1" :> FALSE), fault |-> b]}] :
        x \in {{}, {TRUE}}, b \in BOOLEAN}

PlanFiles ==
    {[Planning(ids) EXCEPT !.settings = s, !.xemu = x, !.fault = f] :
        ids \in {<<plain>>, <<scene2, cross1>>, <<press1, press2>>, <<voice, plain>>, <<cube>>},
        s \in {"object", "absent"}, x \in {{}, {TRUE}}, f \in {"none", "late"}}

BadPlans ==
    {Planning(ids) : ids \in {<<>>, <<plain, plain>>, <<scene1, group>>, <<press1>>}}
    \cup {[Planning(<<plain>>) EXCEPT !.plan = {[head |-> h, ids |-> ids, count |-> n]}] :
            h \in {"ok", "bad_schema", "bad_catalog"}, n \in {1, 2},
            ids \in {<<plain>>, <<plain, plain>>}}
    \cup {[Planning(<<plain>>) EXCEPT !.filter = {[suites |-> <<>>, cases |-> <<>>, fault |-> FALSE]}]}

MCFiles ==
    {[Legacy EXCEPT !.kind = k] : k \in {"missing", "garbled", "json"}}
    \cup {[Legacy EXCEPT !.settings = s] : s \in {"absent", "bad"}}
    \cup {[Legacy EXCEPT !.fault = "early"]}
    \cup SectionFiles \cup FilterFiles \cup PlanFiles \cup BadPlans
=============================================================================
