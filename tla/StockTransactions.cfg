CONSTANTS
    Variants = {1, 2}
    Keys = {k1, k2}
    NoKey = NoKey
    Callers = {p1, p2}
    MaxStock = 1
    Lines <- SmallLines
    KeyLines <- OverlappingKeyLines
    Deltas <- Corrections
SPECIFICATION FairTxSpec
INVARIANTS
    TestedRowsStayValid
    NoLockCycle
PROPERTIES
    ImplementsInventory
    NoResurrection
    EveryCallEnds
