\* Three cases, two slots, a day of eight ticks, three ticks of run, one turn of
\* a knob; two ledgers of two lines between them.
SPECIFICATION MCSpec
CONSTANTS
    Slot <- Slots
    Case <- Cases
    LaneOf <- Lane
    Family <- Families
    histEdges <- Edges
    bucketSpan = 1
    bucketMax = 3
    recentMax = 2
    failedMax = 1
    Plans <- Known
    Verdicts <- May
    Stamped <- Hour
    Day = 8
    Dawn = 6
    Horizon = 9
    Speeds = {1, 2}
    Controls = 1
INVARIANT BoardTrue
 
 
INVARIANT LedgerFollowed
PROPERTY PageMoves
CHECK_DEADLOCK FALSE
