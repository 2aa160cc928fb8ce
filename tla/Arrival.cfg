SPECIFICATION Spec
CONSTANTS
    Price <- MCPrice
    Size <- MCSize
    Depth = 1
    Mode = "Arrival"
    Policy = "SequenceAndChecksum"
    BaseDelay = 1
    MaxDelay = 2
    JitterPercent = 25
    ExponentCap = 2
    Staleness = 1
    OpeningBook <- MCOpeningBook
    Changes <- MCChanges
    MaxVersion = 3
    SeqId <- MCSeqId
    MaxWire = 2
    MaxDisturbances = 2
    Disturbances = {"close", "lose", "corrupt"}
    Targets = {"Snapshot", "Delta"}
INVARIANTS
    SequenceMirrorsValidator
