\* Three cases on two lanes under a gate; the constants below are the idle queue's.
SPECIFICATION GateSpec
CONSTANTS
    Slots = {"s1", "s2", "s3"}
    N = 4
    Dir <- OwnDirs
    Lanes = FALSE
    DirLane <- NoLanes
    SlotLane <- AnySlot
    MaxRetry = 2
    Gate = TRUE
    Heavy <- FirstTwo
    HeavyMax = 1
    MayStop = FALSE
    MayCancel = FALSE
    OnLanes <- FiveOnLanes
    WithCorpus <- FourShared
    OfSql <- ThreeOfSql
PROPERTY LanesGateHolds
