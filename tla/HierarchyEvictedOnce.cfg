CONSTANTS
    GranulesPerLine = 1
    NumLines = 2
    EntryTypes <- LoadStore
    MaxSpan = 1
    NumSets <- OneSet
    NumWays <- OneWay

SPECIFICATION Spec

INVARIANTS
    EvictedOnce

\* The program stops when an assertion fails.
CHECK_DEADLOCK FALSE
