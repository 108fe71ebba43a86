SPECIFICATION Spec

CONSTANTS
    Books <- LedgerBooks
    Worlds <- LedgerWorlds
    Ballots <- LedgerBallots
    Events = {e1}

PROPERTIES
    OutageDecidesNothing
    LateEventsSurvive
    CouncilRecovers
