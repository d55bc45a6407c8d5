\* The bundled reference beside a candidate of two or three records, cut anywhere.
CONSTANTS
    Ids = {"a", "b", "g"}
    Values = {1, 2, 3}
    Budget = 3
    Paths = {"ref", "now"}
    Histories <- MCHistories
SPECIFICATION Spec
INVARIANTS RecoversWholeRecords KeepsEveryStride ShowsOneWholeRecord ShowsOrderStatistics
CHECK_DEADLOCK FALSE
