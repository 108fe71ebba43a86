SPECIFICATION Spec

CONSTANTS
    Books <- MCBooks
    Worlds <- MCWorlds
    Ballots <- MCBallots
    Events = {}

INVARIANTS
    VetoHoldsGrid
