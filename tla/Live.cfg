SPECIFICATION LiveSpec

CONSTANTS
    Buys <- BuyIds
    Sells <- SellIds
    Resumed <- RestingIds
    Cyclers = {c1}
    Arms = 1
    Restarts = 1

INVARIANTS
    NoSilentOrphan
    OneGrid

PROPERTIES
    FillSettles
    InventoryRecovers

CHECK_DEADLOCK FALSE
