\* Two clients, six scripts, two rounds to a wait.
SPECIFICATION MCSpec
CONSTANTS
    K = 2
    Scripts <- MCScripts
    Rounds = 2
    MayCrash = TRUE
    Long <- MCLong
    OfSuite <- ThreeFound
INVARIANT CtlHonest
INVARIANT NoneForgotten
 
INVARIANT SuiteHonest
PROPERTY CaseAndRunEnd
