SPECIFICATION Spec
CONSTANTS
    Price <- MCPrice
    Size <- MCSize
    Depth = 1
    Mode = "OkxSequenced"
    Policy = "SequenceOnly"
    BaseDelay = 1
    MaxDelay = 2
    JitterPercent = 25
    ExponentCap = 2
    Staleness = 1
    OpeningBook <- MCOpeningBook
    Changes <- MCChanges
    MaxVersion = 3
    SeqId <- MCSeqId
    MaxWire = 3
    MaxDisturbances = 2
    Disturbances = {"keepalive", "repeat", "lose", "duplicate", "reorder", "garble"}
    Targets = {"Delta"}
INVARIANTS
    TypeOK
    BookIsTruth
    SequenceMirrorsValidator
    RecoveryInFlight
    AlarmsAreEarned
PROPERTY
    SyncSpec
