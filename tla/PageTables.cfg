CONSTANTS
    VirtualPages = {1, 2}
    MemoryPages = {2, 3}
    DevicePages = {9}
    Offsets = {0, 1}
    MaxEntries = 3
    TracedTypes = {"INSTR", "CLOAD"}

SPECIFICATION Spec

INVARIANTS
    TypeOK
    DecodedIsConverted
    SkippedAreReported

PROPERTIES
    PatchedPaddrsAreReal
    SkippedPagesUnknown

\* The file ends.
CHECK_DEADLOCK FALSE
