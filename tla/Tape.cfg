SPECIFICATION FairSpec

CONSTANTS
    Minutes = 4
    SnapshotLen = 2
    QueueMax = 1
    Settle = 1
    GapLookback = 4
    MaxGap = 2
    BucketLen = 2
    RollLookback = 1
    Reconcile = 3
    Restarts = 1

INVARIANTS
    TypeOK
    RowsAccounted
    FlatIsSilent

PROPERTIES
    GapsHeal
    TapeReachesWarehouse

CHECK_DEADLOCK FALSE
