\* One boot, up to three tests: reruns, mode toggles, masks, soft failures.
CONSTANTS
    leaf = leaf  stage1 = stage1  stage2 = stage2  summary = summary
    plain = plain  composite = composite
    Leaves <- MCLeaves
    Groups <- MCGroups
    Routes <- MCRoutes
    Emits <- MCEmits
    RunOrder <- MCRunOrder
    Plans <- MCPlans
    Stamps = {1}
    MaxBoots = 1
    MaxTests = 2
SPECIFICATION FairSpec
INVARIANTS PassIsClean PassMeansNoSoftFailure
PROPERTIES UnattendedRunEnds
CHECK_DEADLOCK FALSE
