CONSTANTS
    GranulesPerLine = 1
    NumPages = 1
    LinesPerPage = 1
    MaxEntries = 2

SPECIFICATION PipelineSpec

INVARIANTS
    MismatchesAreCounted

\* The scan stops when an assertion fails.
CHECK_DEADLOCK FALSE
