SPECIFICATION FairSpec
CONSTANTS
    MaxFrames = 3
    Limit = 2
    Grace = 1
INVARIANTS
    TypeOK
    OneFrameCut
    StageTimeoutFails
PROPERTIES
    TaskEnds
\* The task ends.
CHECK_DEADLOCK FALSE
