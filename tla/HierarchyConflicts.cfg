CONSTANTS
    GranulesPerLine = 1
    NumLines = 3
    EntryTypes <- FetchLoadStore
    MaxSpan = 1
    NumSets <- TwoSetsL2
    NumWays <- TwoWaysL1D

SPECIFICATION Spec

INVARIANTS
    TypeOK
    NoDuplicateLine
    CountersDistinct
    Inclusive
    SingleWriter
    OnlyTraceConflictsAbort

\* The program stops when an assertion fails.
CHECK_DEADLOCK FALSE
