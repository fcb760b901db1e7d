CONSTANTS
    GranulesPerLine = 1
    NumLines = 2
    EntryTypes <- AllTypes
    MaxSpan = 2
    NumSets <- OneSet
    NumWays <- OneWay

SPECIFICATION TracedSpec

PROPERTIES
    ImplementsTagMemory
    EntryCompletes
