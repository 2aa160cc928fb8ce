SPECIFICATION Spec
CONSTANTS
    Price <- MCPrice
    Size <- MCSize
    Depth = 1
    Mode = "OkxSequenced"
    Policy = "SequenceOnly"
    BaseDelay = 1
    MaxDelay = 2
    JitterPercent = 25
    ExponentCap = 2
    Staleness = 1
    OpeningBook <- MCOpeningBook
    Changes <- MCChanges
    MaxVersion = 2
    SeqId <- MCSeqIdLower
    MaxWire = 2
    MaxDisturbances = 1
    Disturbances = {"close"}
    Targets = {}
INVARIANT
    ReadyMeansAnchored
