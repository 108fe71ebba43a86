SPECIFICATION Spec
CONSTANTS
    Parts = {"gate", "pnl", "scores", "shadow", "alerts"}
    None = None
    Worlds <- MCWorlds
    Start <- Empty
    Modes = {TRUE, FALSE}
    CapStreak = 2
    MaxQuiet = 3
    Evaluations = 1
    Moves = 2
    GateFaults = 1
    Variants <- Grids
    FeePerSide = 25
    MinSpacing = 150
    MaxSpacing = 250
    FullDay = 4
    MaxFills = 4
    MaxLots = 2
    MaxPrice = 2
    Cycles = {1, 2, 3}
    Traced = {2, 3}
    Vote <- MCVotes
    Gapped = {1}
    Windows <- MCWindows
    PerPass = 1
    LastDay = 2
    ScoreFaults = 1
    ShadowLevels <- MCShadowLevels
    KeySpacing = 25
    DefaultLevels = 2
    Grounds <- MCGrounds
    Ticks = {74, 100, 130}
    Budget = 400
    MakerFee = 1
    Memory = 4
    Kept = 3
    PersistEvery = 2
    RollingFills = 3
    RollingHours = 1
    SwitchFills = 1
    SwitchMargin = 1
    MaxTicks = 3
    MaxHour = 1
    ShadowEvents = 3
    Agents = {"casper", "melchior"}
    DedupWindow = 1
    LastTick = 3
    AlertFaults = 1
INVARIANTS CapStoryHolds ShadowAccounts CollapseOnBoard ReceiptsHonest
PROPERTIES RealizedStands CapShiftTold EveryScoreDelivered
CHECK_DEADLOCK FALSE
