\* Two suites, one with a loader thread; two tests each.
CONSTANTS
    Suites = {"plain", "loader"}
    Threaded = {"loader"}
    LastTest = 1
    MaxEvents = 7
SPECIFICATION MenuSpec
INVARIANTS HandlesFollowMenu OnlyHasteLosesALife AutorunOnce
CHECK_DEADLOCK FALSE
