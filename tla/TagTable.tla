------------------------------ MODULE TagTable ------------------------------
(***************************************************************************)
(* The table the controller interface keeps the tags of memory in          *)
(* (tag_table_t, simulator.c): a byte holds those of as many lines as fit. *)
(* A word or a byte is the set of its 1 bits.                              *)
(***************************************************************************)
EXTENDS Tags

CONSTANT ByteBits   \* bits of a byte of the table: 8

\* A line is a power of two of granules, of which a byte has room for one or
\* more; tag_table_get_index asserts that its bits fit.
ASSUME ByteAssumption == ByteBits \in 1 .. 8 /\ ByteBits % GranulesPerLine = 0

Byte == 0 .. ByteBits - 1
Word == 0 .. 31

Left(bits, n)  == {b + n : b \in bits} \cap Word
Right(bits, n) == {b - n : b \in {c \in bits : c >= n}}

\* tag_table_get_index
TagTableIndex(ln) == (ln * GranulesPerLine) \div ByteBits
FirstBit(ln)      == (ln * GranulesPerLine) % ByteBits

\* BUG: the bits below those of the line are cleared, too.
MaskAbove(ln) == Left(Left(Word, GranulesPerLine), FirstBit(ln))

ClearMask(ln) ==
    Left(Left(Word, GranulesPerLine), FirstBit(ln)) \cup 0 .. FirstBit(ln) - 1

ReadPartial(buffer, ln) ==
    Right(buffer[TagTableIndex(ln)] \ ClearMask(ln), FirstBit(ln))

Packed(byte, ln, bits) ==
    ((byte \cap ClearMask(ln)) \cup Left(bits, FirstBit(ln))) \cap Byte

WritePartial(buffer, ln, bits) ==
    [buffer EXCEPT ![TagTableIndex(ln)] = Packed(@, ln, bits)]

\* The assertions around the second half of tag_table_write_partial.
WriteFails(buffer, ln, bits) ==
    \/ Left(bits, FirstBit(ln)) \cap ClearMask(ln) # {}
    \/ ReadPartial(WritePartial(buffer, ln, bits), ln) # bits

TagTableRead(t, ln) ==
    [data |-> ReadPartial(t.data, ln), known |-> ReadPartial(t.known, ln)]

TagTableWrite(t, ln, tags) ==
    [data  |-> WritePartial(t.data, ln, tags.data),
     known |-> WritePartial(t.known, ln, tags.known)]

TagTableWriteFails(t, ln, tags) ==
    WriteFails(t.data, ln, tags.data) \/ WriteFails(t.known, ln, tags.known)

=============================================================================
