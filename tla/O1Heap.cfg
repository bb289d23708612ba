SPECIFICATION Spec
CONSTANTS
    Alignment = 2
    Capacity = 28
    Amount <- MCAmount
    NumBins = 6
    OomBound = 1
INVARIANTS ChainTilesArena BinsHoldFreeFragments SelfCheckHolds
PROPERTY ImplementsMalloc
