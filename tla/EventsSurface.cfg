SPECIFICATION Spec

CONSTANTS
    Books <- LedgerBooks
    Worlds <- LedgerWorlds
    Ballots <- LedgerBallots
    Events = {e1}

INVARIANTS
    EventsSurface
