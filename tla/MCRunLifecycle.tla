-------------------------- MODULE MCRunLifecycle --------------------------
(***************************************************************************)
(* A catalog with one plain leaf and one composite route of two stages and *)
(* a group: the smallest one where a plan can mask a stage, a rerun can    *)
(* duplicate a leaf and a soft failure can fall between two records.       *)
(***************************************************************************)
EXTENDS RunLifecycle, TLC

CONSTANTS leaf, stage1, stage2, summary, plain, composite

MCLeaves == {leaf, stage1, stage2}
MCGroups == {summary}
MCRoutes == {plain, composite}
MCEmits == (plain :> <<leaf>>) @@ (composite :> <<stage1, stage2, summary>>)
MCRunOrder == <<plain, composite>>
MCPlans == {{}, {stage2}, {leaf, stage1}}

\* One route and one leaf, for the runs that are about files across boots.
SmallEmits == plain :> <<leaf>>
SmallOrder == <<plain>>
=============================================================================
