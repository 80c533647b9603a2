SPECIFICATION Spec
CONSTANTS
    u1 = u1
    u2 = u2
    c1 = c1
    c2 = c2
    None = None
    Uploads = {u1}
    Children = {c1, c2}
    Queues <- task_queues
    QueueOf <- OneDocument
    Serves <- IngestionPool
    MaxTry = 2
    MaxRetries <- RetriesOn
    CleansTwice <- TwiceCleaning
    Unstated <- UnstatedQueues
    ResultKeys = {"k1"}
    KeyOf <- OneKey
    MaxSize = 2
    Size <- OneSize
    DiskSlots = 2
    MaxCrashes = 2
    Faults = {"stat", "oserror", "broker", "apicrash", "crash", "timeout",
              "hardlimit", "oom"}
SYMMETRY Pool
INVARIANTS
    TypeOK
    NoTaskForgotten
    OneRunner
    SuccessIsDurable
PROPERTIES
    OutcomeIsFinal
    ImplementsContract
\* The finite set of uploads is used up in the end.
CHECK_DEADLOCK FALSE
