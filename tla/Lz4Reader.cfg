CONSTANTS
    EntrySize = 3
    NumEntries = 8
    BufferSize = 8
    FrameSize = 13
    Ratio = 2
    HeaderSize = 2
    MaxTail = 3

SPECIFICATION Spec

INVARIANTS
    BufferInOrder

PROPERTIES
    ImplementsTraceReader

\* The reader stops at the end of the trace.
CHECK_DEADLOCK FALSE
