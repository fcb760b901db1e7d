--------------------------- MODULE PackedHierarchy ---------------------------
(***************************************************************************)
(* CacheHierarchy with the bytes of the controller's tag table beside the  *)
(* function that it uses, and with a history of what the trace has shown.  *)
(***************************************************************************)
EXTENDS CacheHierarchy, TagTable

\* The size of memory is a multiple of what a byte stands for.
ASSUME TableAssumption == (NumLines * GranulesPerLine) % ByteBits = 0

Bytes == 0 .. (NumLines * GranulesPerLine) \div ByteBits - 1
EmptyBuffer == [i \in Bytes |-> {}]

VARIABLES
  tag_table,   \* its two buffers, of data and of known bits
  shown        \* history: the addresses whose tags entries have shown

packed_vars == <<vars, tag_table, shown>>

PackedInit ==
    /\ Init
    /\ tag_table = [data |-> EmptyBuffer, known |-> EmptyBuffer]
    /\ shown = {}

\* device_write and device_write_invisible on the controller interface.
TableWritten ==
    IF pc = "evict" /\ Faults = {}
      THEN TagTableWrite(tag_table, tag_addr[l2_victim], tags_cheri[l2_victim])
      ELSE tag_table

\* Every access but a plain load shows the tags of the addresses it covers;
\* the loop over an entry goes through those in the line it is at.
ShownUpTo ==
    IF pc = "use" /\ Faults = {} /\ access.type # "LOAD"
      THEN shown \cup {a \in access.first .. access.last : a \div GranulesPerLine = line}
      ELSE shown

PackedNext ==
    /\ Next
    /\ tag_table' = TableWritten
    /\ shown' = ShownUpTo

PackedSpec == PackedInit /\ [][PackedNext]_packed_vars

-----------------------------------------------------------------------------
\* What the packed table says of a line is what was last written of it, and
\* not what was written of a line that shares the byte; the assertions that
\* guard a write hold.
TableUnpacks ==
    /\ \A ln \in Lines : TagTableRead(tag_table, ln) = table[ln]
    /\ pc = "evict" =>
         ~ TagTableWriteFails(tag_table, tag_addr[l2_victim], tags_cheri[l2_victim])

\* The hierarchy knows the tag of a granule exactly when an entry has shown it:
\* an entry that covers parts of two lines teaches of each what it covers there
\* (the clipping in handlers.c), and no copy leaves without what it knows.
KnownIsShown ==
    \A ln \in Lines :
        table[ln].known \cup UNION {tags_cheri[f].known : f \in {h \in Frames : tag_addr[h] = ln}}
          = {g \in Granules : ln * GranulesPerLine + g \in shown}

=============================================================================
