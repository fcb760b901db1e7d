CONSTANTS
    GranulesPerLine = 2
    NumLines = 2
    ByteBits = 4
    EntryTypes <- ReadTypes
    MaxSpan = 3
    NumSets <- OneLine
    NumWays <- OneLine

SPECIFICATION PackedSpec

INVARIANTS
    KnownGrowsUpward
    SharersAgree
    OnlyTraceConflictsAbort
    TableUnpacks
    KnownIsShown

\* The program stops when an assertion fails.
CHECK_DEADLOCK FALSE
