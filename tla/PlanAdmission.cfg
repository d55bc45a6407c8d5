\* Every pair of the files of MCPlanAdmission on E: and D:.
CONSTANTS
    plain = plain  scene1 = scene1  scene2 = scene2  cross1 = cross1  cross2 = cross2
    press1 = press1  press2 = press2  voice = voice  cube = cube  group = group
    Leaves <- MCLeaves
    OtherIds = {group}
    Suites = {"S", "G", "V", "C"}
    Tests = {"t1", "t2"}
    RouteOf <- MCRouteOf
    Masks = 2
    MaskOf <- MCMaskOf
    Pressure <- MCPressure
    XemuOnly = {"V", "C"}
    Checked = {"V"}
    Files <- MCFiles
SPECIFICATION Spec
INVARIANTS FirstFileIsReadExactly PlanIsWhatRuns
CHECK_DEADLOCK FALSE
