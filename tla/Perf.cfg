\* Two pairs, the first with an overlap and two conf groups.
CONSTANTS
    None = None
    NPairs = 2
    Canaries <- PerfCanaries
    Selected <- PerfPairs
    Key <- PerfKeys
    FixtureOf <- PerfFixtures
    HAKeys = {"ha"}
    Failovers = {"f"}
    BigKeys = {}
    Overlaps = {2}
    Unreadable = {"r"}
    Keeps = {FALSE, TRUE}
    Leftovers = {{"t", "o"}}
    OfPass <- TwoAndOne
    OfWait <- FiveReads
    OfSettle <- SixReadings
SPECIFICATION MCSpec
INVARIANT ClustersKnown
INVARIANT RecordTrue
INVARIANT PassesSound
INVARIANT WaitsTrue
PROPERTY PerfEnds
CHECK_DEADLOCK FALSE
