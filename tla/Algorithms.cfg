SPECIFICATION SideBySide
CONSTANTS
    Price <- MCPrice
    Size <- MCSize
    Depth = 1
    MaxLevels = 3
    Scale = 6
    OrderSizes = {0, 1, 3, 5}
    MaxInt = 5
    NsPerMs = 2
    Frames <- MCFrames
    OrdinaryFrames <- MCOrdinaryFrames
    MaxAttempts = 3
INVARIANTS
    LoopIsOverlay
    FillsBestFirst
    SizingsAgree
    SlippageIsACost
    DecodeIsExact
    LogReadsBack
CHECK_DEADLOCK FALSE
