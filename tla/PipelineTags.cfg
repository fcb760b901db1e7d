CONSTANTS
    GranulesPerLine = 2
    NumPages = 1
    LinesPerPage = 1
    MaxEntries = 3

SPECIFICATION PipelineSpec

INVARIANTS
    ReadTagsAreReal
    StatsTypeOK
    CountsAgree

PROPERTIES
    OnlyStoresChangeTags

\* The scan stops when an assertion fails.
CHECK_DEADLOCK FALSE
