SPECIFICATION Spec
CONSTANTS
    Subject = {2}
    Response = {1}
    FramesOf <- FramesOfPort
    Capacity = 3
    HeapBlocks = 4
    CounterModulo = 4
    TidModulo = 2
    MaxPushes = 5
INVARIANTS TypeOK SizeCountsFrames HeapIsConserved TransfersLeaveWhole TransferIdCountsPublications
