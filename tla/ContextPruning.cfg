SPECIFICATION Spec
CONSTANTS
    Items <- ThreeItems
    Modalities = {"text_chunk", "telemetry", "image_ref"}
    Lengths <- TextLengths
    Scores <- HighAndLow
    Widths <- OneOrTwo
    Overheads <- PromptOverheads
    CharsPerToken = 4
    Budget = 4
    MaxBytes = 60
INVARIANTS
    TypeOK
    Accounted
    SpentIsFootprint
    PassedOverOnlyForSize
    NoModalityErased
    OvershootIsReserved
    CitationsFollowRank
\* A query ends.
CHECK_DEADLOCK FALSE
