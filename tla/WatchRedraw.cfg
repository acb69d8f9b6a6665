\* Two ledgers, two lines between them.
SPECIFICATION WatchSpec
CONSTANTS
    Slot <- Slots
    Case <- Cases
    LaneOf <- Lane
    Family <- Families
    histEdges <- Edges
    bucketSpan = 1
    bucketMax = 3
    recentMax = 2
    failedMax = 1
    Plans <- Known
    Verdicts <- May
    Stamped <- Hour
    Day = 8
    Dawn = 6
    Horizon = 9
    Speeds = {1, 2}
    Controls = 1
PROPERTY PageAnswers
CHECK_DEADLOCK FALSE
