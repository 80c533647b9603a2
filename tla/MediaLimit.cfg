SPECIFICATION Spec
CONSTANTS
    MaxFrames = 3
    Limit = 2
    Grace = 1
INVARIANTS
    LimitMeansFailure
\* The task ends.
CHECK_DEADLOCK FALSE
