CONSTANTS
    Names <- AllCommands
    Lz4Files = {"a"}
    MaxEntries = 2
    MaxRuns = 2
    BufferEntries = 2
    PipeEntries = 1

SPECIFICATION Spec

INVARIANTS
    OutputsHoldTrace
    OnlyIoErrorsAbort
    EndMarkMeansWhole
    SplitNeedsBothReaders

PROPERTIES
    OnlyAllowedChange
    PipesDrain

\* The last execution ends.
CHECK_DEADLOCK FALSE
