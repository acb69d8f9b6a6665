\* Three runs on sets of one and two pairs.
CONSTANTS
    OfSuite <- FourOnTwo
    OfAgain <- TwoOverThree
    Sizes = {1, 2}
    Runs = 3
    Trouble = 2
    Verbs = {"pairs", "stress", "restart"}
    Catalog <- Patterns
    Named <- NoneOrTs
    Trailing = {"ts"}
    Rounds = 2
    Commits = 1
    Kills = 2
    Engines = {"reorders", "stops", "reapplies", "diverges"}
    Lines <- LineFates
    Ints = 2
SPECIFICATION MCSpec
INVARIANT FoundAgain
CHECK_DEADLOCK FALSE
