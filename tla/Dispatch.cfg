\* Without lanes: four cases, three slots, two of the cases heavy, a gate.
SPECIFICATION MCSpec
CONSTANTS
    Slots = {"s1", "s2", "s3"}
    N = 4
    Dir <- OwnDirs
    Lanes = FALSE
    DirLane <- NoLanes
    SlotLane <- AnySlot
    MaxRetry = 2
    Gate = TRUE
    Heavy <- FirstTwo
    HeavyMax = 1
    MayStop = FALSE
    MayCancel = FALSE
    OnLanes <- FiveOnLanes
    WithCorpus <- FourShared
    OfSql <- ThreeOfSql
INVARIANT QueueSound
INVARIANT RetriesWait
INVARIANT OnLanesKept
INVARIANT CorpusTrue
INVARIANT SqlSound
PROPERTY KeptForSiblings
 
PROPERTY QueuesImplemented
