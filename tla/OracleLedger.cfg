\* Three runners, one of them killed, one process list that fails.
CONSTANTS
    Runners = {r1, r2, r3}
    Nobody = Nobody
    Reports <- MCReports
    MaxKills = 1
    MaxMisses = 1
SPECIFICATION Spec
INVARIANTS AtMostOneXemu NoObservationLost
PROPERTY ImplementsLedger
CHECK_DEADLOCK FALSE
