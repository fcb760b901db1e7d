CONSTANTS
    Names <- AllCommands
    Lz4Files = {"a"}
    MaxEntries = 2
    MaxRuns = 2
    BufferEntries = 2
    PipeEntries = 1

SPECIFICATION Spec

INVARIANTS
    OverwrittenFileIsTrace

\* The last execution ends.
CHECK_DEADLOCK FALSE
