SPECIFICATION FairSpec
CONSTANTS
    Target = 2
    OverlapPercent = 50
    CharsPerToken = 2
    Documents <- SmallDocuments
    Window = 8
INVARIANTS
    TypeOK
    OnlySeamStopsLost
    StructureKept
    InSourceOrder
    NumberedInOrder
    CountedWithinBudget
PROPERTIES
    ParsingEnds
\* The document is parsed or given up.
CHECK_DEADLOCK FALSE
