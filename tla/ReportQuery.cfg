SPECIFICATION Spec
CONSTANTS
    Scenarios = {"zero", "single", "clear", "multiple", "switch", "producer", "rewrite", "range"}
    Renderers = {"immediate", "deferred", "late", "unguarded", "lossy"}
    MaxBodies = 2
    Attempts = 2
INVARIANTS OracleIsSound PassIsItsOwn NothingStrays
\* The suite stops when its memory is freed.
CHECK_DEADLOCK FALSE
