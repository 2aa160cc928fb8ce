SPECIFICATION SettledSpec
CONSTANTS
    Price <- MCPrice
    Size <- MCSize
    Depth = 1
    Mode = "OkxSequenced"
    Policy = "SequenceOnly"
    BaseDelay = 1
    MaxDelay = 2
    JitterPercent = 25
    ExponentCap = 2
    Staleness = 0
    OpeningBook <- MCOpeningBook
    Changes <- MCChanges
    MaxVersion = 3
    SeqId <- MCSeqId
    MaxWire = 2
    MaxDisturbances = 2
    Disturbances = {"close", "refuse", "keepalive", "repeat", "lose", "garble", "reorder"}
    Targets = {"Delta"}
PROPERTIES
    Resynchronises
    Converges
    Redials
    StopCompletes
