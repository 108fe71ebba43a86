SPECIFICATION Spec

CONSTANTS
    Books <- MCBooks
    Worlds <- MCWorlds
    Ballots <- MCBallots
    Events = {}

INVARIANTS
    TypeOK
    SurvivalHalts
    MandateBlocksRebuild
    PauseSparesThinSide
PROPERTIES
    StandAsideEndsBuys
