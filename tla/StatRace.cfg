SPECIFICATION Spec
CONSTANTS
    u1 = u1
    u2 = u2
    c1 = c1
    c2 = c2
    None = None
    Uploads = {u1, u2}
    Children = {c1, c2}
    Queues <- task_queues
    QueueOf <- BothDocuments
    Serves <- IngestionPool
    MaxTry = 2
    MaxRetries <- RetriesOn
    CleansTwice <- TwiceCleaning
    Unstated <- UnstatedQueues
    ResultKeys = {"k1", "k2"}
    KeyOf <- OwnKeys
    MaxSize = 2
    Size <- Sizes
    DiskSlots = 3
    MaxCrashes = 1
    Faults = {}
INVARIANTS
    ServerErrorMeansNoTask
\* The finite set of uploads is used up in the end.
CHECK_DEADLOCK FALSE
