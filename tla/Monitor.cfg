SPECIFICATION FairSpec

CONSTANTS
    Minutes = 3
    MaxTrades = 2
    SnapshotLen = 2
    MaxAttempt = 1
    HourLen = 2
    Restarts = 1
    Pollers = {1, 2}

INVARIANTS
    TypeOK
    WholeHourEvaluated

PROPERTIES
    BarsInOrder
    OutageEvaluated
    FallbackStops

CHECK_DEADLOCK FALSE
