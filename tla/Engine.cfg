SPECIFICATION Spec

CONSTANTS
    Prices = {5, 8}
    Geometries <- TwoGeometries
    DefaultLevels = 2
    DefaultUsd = 14
    TakerFee = 1
    CapStreak = 1
    Account <- SmallAccount
    Choices <- EngineChoices
    Copies = {1, 2}
    Builds = {b1, b2}
    MaxXrp = 2
    MaxUsd = 14
    MaxStreak = 2

SYMMETRY BuildSymmetry
INVARIANTS
    TypeOK
    BookMatchesRows
    HoldingsBounded
    OneGrid
    SnapshotCurrent
    SellsCovered
    CappedRebuildSells
PROPERTIES
    CapRefinement
