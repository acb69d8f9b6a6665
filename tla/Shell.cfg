\* Three attempts, a timeout of two polls and a grace of two.
SPECIFICATION MCSpec
CONSTANTS
    Recorded <- TwoOverFour
    Held <- TwoKilled
    Tested <- ThreeOverTwo
    Attempts = 3
    Timeout = 2
    Grace = 2
    Escalates = TRUE
    MayCancel = TRUE
INVARIANT AbortsJust
INVARIANT FlaggedFails
INVARIANT ResumeTrue
INVARIANT Contained
INVARIANT LanesServed
 
PROPERTY PlanKeeps
PROPERTY AllEnd
CHECK_DEADLOCK FALSE
