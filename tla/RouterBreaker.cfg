SPECIFICATION FairSpec
CONSTANTS
    Threshold = 3
    Cooldown = 2
    Backend = "auto"
    LocalEnabled = TRUE
    Configured = {"local", "openai", "anthropic"}
    Anomalies = {"malformed", "softlimit"}
INVARIANTS
    TypeOK
    TripsAtThreshold
    FallbackOnlyBehindBreaker
PROPERTIES
    NoCallInCooldown
    EveryQueryEnds
    Recovers
