\* One leaf, three boots within one or two clock seconds: archiving.
CONSTANTS
    leaf = leaf  stage1 = stage1  stage2 = stage2  summary = summary
    plain = plain  composite = composite
    Leaves = {leaf}
    Groups = {}
    Routes = {plain}
    Emits <- SmallEmits
    RunOrder <- SmallOrder
    Plans = {{}, {leaf}}
    Stamps = {1}
    MaxBoots = 3
    MaxTests = 1
SPECIFICATION Spec
INVARIANTS OneFilePerRun CompleteIsBacked
PROPERTY ImplementsEvidenceStore
CHECK_DEADLOCK FALSE
