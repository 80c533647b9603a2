SPECIFICATION FairSpec
CONSTANTS
    MaxRows = 5
    EmbedRows = 2
    BatchSize = 2
    MaxAttempts = 3
    MaxRuns = 2
    ClientInstalled = TRUE
INVARIANTS
    TypeOK
    NothingLost
    ReplayIsIdempotent
    OnePointPerDelivery
    HashReportSparesProbe
PROPERTIES
    IndexingEnds
\* The task ends.
CHECK_DEADLOCK FALSE
