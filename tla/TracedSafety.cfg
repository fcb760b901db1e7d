CONSTANTS
    GranulesPerLine = 1
    NumLines = 3
    EntryTypes <- Showing
    MaxSpan = 1
    NumSets <- TwoSetsL2
    NumWays <- OneWay

SPECIFICATION TracedSpec

INVARIANTS
    NeverAborts
    DirtyTracksStores
    ViewAgreesWithMemory
    RequestCarriesView

PROPERTIES
    ImplementsTagMemory
