\* The constants are the monitor's, which stands still.
SPECIFICATION RunSpec
CONSTANTS
    Recorded <- TwoOverFour
    Held <- TwoKilled
    Tested <- ThreeOverTwo
    Attempts = 1
    Timeout = 1
    Grace = 1
    Escalates = TRUE
    MayCancel = FALSE
INVARIANT PatchedTold
CHECK_DEADLOCK FALSE
