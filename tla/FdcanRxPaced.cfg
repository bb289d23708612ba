SPECIFICATION PacedReceiveSpec
CONSTANTS
    MaxSize = 3
    Element = {1, 2, 3, 4, 5}
    Blank = 0
    FifoDepth = 2
    CountModulo = 4
    NumFrames = 5
INVARIANTS TypeOK IndicesAgree DeliveredInOrder
PROPERTIES IsOverwritingFifo EveryFrameDelivered PushAndPopAreAtomic
