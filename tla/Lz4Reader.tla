------------------------------ MODULE Lz4Reader ------------------------------
(***************************************************************************)
(* lz4_reader_get_entry (io.c): entries out of a compressed file, through  *)
(* a buffer of compressed and a buffer of decompressed bytes.  A command   *)
(* asks for one entry after the other until it is told that there is none. *)
(* The file holds a frame as the writers make them, or only a part of it,  *)
(* or the end of an older file after it, which the writers do not cut off. *)
(* LZ4F_decompress is the library's.                                       *)
(***************************************************************************)
EXTENDS Integers

CONSTANTS EntrySize, NumEntries,
          BufferSize,   \* LZ4_BUFFER_SIZE, of both buffers
          FrameSize,    \* compressed bytes in the frame
          Ratio,        \* bytes a compressed byte stands for
          HeaderSize,   \* bytes the library needs to know the start of a frame
          MaxTail       \* bound: bytes of an older file after the frame

StreamSize == EntrySize * NumEntries

\* What the first bytes of the frame hold; the last is its end mark.
Decodable(bytes) == IF bytes * Ratio < StreamSize THEN bytes * Ratio ELSE StreamSize

ASSUME ReaderAssumption ==
    /\ {EntrySize, NumEntries, FrameSize, Ratio, HeaderSize} \subseteq Nat \ {0}
    /\ {BufferSize, MaxTail} \subseteq Nat
    /\ EntrySize <= BufferSize
    /\ Decodable(FrameSize - 1) = StreamSize

VARIABLES
  file_size,        \* bytes of the file
  src_unread,       \* bytes of the file that are not read
  src_remaining,    \* bytes of the source buffer that are not decompressed
  src_eof,
  finished_frame,
  dst_buf,          \* place in the buffer -> place of the byte in the trace
  dst_current,      \* where the bytes that were not returned start
  dst_remaining,    \* and how many they are
  fed, produced,    \* of the decompression context: bytes taken and given
  num_read, entry,  \* entries returned, and the last one
  ended, aborted    \* false was returned; an assertion failed

dst_vars == <<dst_buf, dst_current, dst_remaining>>
vars == <<file_size, src_unread, src_remaining, src_eof, finished_frame, dst_vars, fed,
          produced, num_read, entry, ended, aborted>>

Init ==
    /\ file_size \in 0 .. FrameSize + MaxTail
    /\ src_unread = file_size
    /\ src_remaining = 0
    /\ src_eof = FALSE
    /\ finished_frame = FALSE
    /\ dst_buf = [i \in 0 .. BufferSize - 1 |-> 0]
    /\ dst_current = 0
    /\ dst_remaining = 0
    /\ fed = 0
    /\ produced = 0
    /\ num_read = 0
    /\ entry = [i \in 1 .. EntrySize |-> 0]
    /\ ended = FALSE
    /\ aborted = FALSE

\* fread: the source buffer and the end-of-file flag an iteration works with.
Refilled ==
    IF src_remaining > 0 \/ src_eof
      THEN [unread |-> src_unread, remaining |-> src_remaining, eof |-> src_eof]
    ELSE LET n == IF src_unread < BufferSize THEN src_unread ELSE BufferSize
         IN [unread |-> src_unread - n, remaining |-> n, eof |-> n = 0]

\* BUG: the end of the file is the end of the trace.
EndAtEof == Refilled.eof

AtEnd == Refilled.eof /\ finished_frame

\* BUG: the bytes that are left stay where they are.
NotMoved == dst_buf

(***************************************************************************)
(* memmove_down copies from the last byte to the first: a byte whose place *)
(* has been written to already is read as what was written.                *)
(***************************************************************************)
MovedDown ==
    LET copied[i \in 0 .. dst_remaining - 1] ==
          IF i + dst_current < dst_remaining THEN copied[i + dst_current]
          ELSE dst_buf[i + dst_current]
    IN IF dst_current = 0 THEN dst_buf
       ELSE [i \in 0 .. BufferSize - 1 |->
               IF i < dst_remaining THEN copied[i] ELSE dst_buf[i]]

(***************************************************************************)
(* LZ4F_decompress takes n_src bytes and gives n_dst, and gets on if it    *)
(* can.  A call does not go past the end of a frame; after it the library  *)
(* waits for another one and fails when it sees that there is none.        *)
(***************************************************************************)
Decompresses(n_src, n_dst, src_size, dst_size) ==
    /\ IF fed < FrameSize \/ produced < StreamSize THEN fed + n_src <= FrameSize
       ELSE fed + n_src < FrameSize + HeaderSize
    /\ produced + n_dst <= Decodable(fed + n_src)
    /\ \/ n_src + n_dst > 0
       \/ src_size = 0 /\ (dst_size = 0 \/ produced = Decodable(fed))

\* An iteration that has to decompress.
Decompress ==
    LET src == Refilled
        space == BufferSize - dst_remaining
    IN
    /\ ~ ended /\ ~ aborted
    /\ dst_remaining < EntrySize
    /\ ~ AtEnd
    /\ \E n_src \in 0 .. src.remaining, n_dst \in 0 .. space :
        /\ Decompresses(n_src, n_dst, src.remaining, space)
        /\ dst_buf' = [i \in 0 .. BufferSize - 1 |->
                         IF i \in dst_remaining .. dst_remaining + n_dst - 1
                           THEN produced + 1 + i - dst_remaining
                           ELSE MovedDown[i]]
        /\ dst_remaining' = dst_remaining + n_dst
        /\ src_remaining' = src.remaining - n_src
        /\ fed' = fed + n_src
        /\ produced' = produced + n_dst
        /\ finished_frame' =
             (n_src + n_dst > 0 /\ fed' = FrameSize /\ produced' = StreamSize)
    /\ dst_current' = 0
    /\ src_unread' = src.unread
    /\ src_eof' = src.eof
    /\ UNCHANGED <<file_size, num_read, entry, ended, aborted>>

\* The library returns an error.
DecompressFails ==
    /\ ~ ended /\ ~ aborted
    /\ dst_remaining < EntrySize
    /\ ~ AtEnd
    /\ produced = StreamSize
    /\ fed + Refilled.remaining >= FrameSize + HeaderSize
    /\ fed >= FrameSize
    /\ aborted' = TRUE
    /\ UNCHANGED <<file_size, src_unread, src_remaining, src_eof, finished_frame,
                   dst_vars, fed, produced, num_read, entry, ended>>

\* The end of the trace; part of an entry may not be left.
ReturnFalse ==
    /\ ~ ended /\ ~ aborted
    /\ dst_remaining < EntrySize
    /\ AtEnd
    /\ IF dst_remaining = 0 THEN ended' = TRUE /\ UNCHANGED aborted
       ELSE aborted' = TRUE /\ UNCHANGED ended
    /\ src_eof' = TRUE
    /\ UNCHANGED <<file_size, src_unread, src_remaining, finished_frame, dst_vars, fed,
                   produced, num_read, entry>>

ReturnEntry ==
    /\ ~ ended /\ ~ aborted
    /\ dst_remaining >= EntrySize
    /\ entry' = [i \in 1 .. EntrySize |-> dst_buf[dst_current + i - 1]]
    /\ dst_current' = dst_current + EntrySize
    /\ dst_remaining' = dst_remaining - EntrySize
    /\ num_read' = num_read + 1
    /\ UNCHANGED <<file_size, src_unread, src_remaining, src_eof, finished_frame, dst_buf,
                   fed, produced, ended, aborted>>

Next == Decompress \/ DecompressFails \/ ReturnFalse \/ ReturnEntry

\* A command reads on until the end; LZ4F_decompress returns.
Spec == Init /\ [][Next]_vars /\ WF_vars(Next)

-----------------------------------------------------------------------------
\* Type correctness of the reader: the buffers are not left.
TypeOK ==
    /\ file_size \in 0 .. FrameSize + MaxTail
    /\ src_unread \in 0 .. file_size
    /\ src_remaining \in 0 .. BufferSize
    /\ src_eof \in BOOLEAN
    /\ finished_frame \in BOOLEAN
    /\ dst_buf \in [0 .. BufferSize - 1 -> 0 .. StreamSize]
    /\ dst_current \in 0 .. BufferSize
    /\ dst_remaining \in 0 .. BufferSize
    /\ dst_current + dst_remaining <= BufferSize
    /\ fed \in 0 .. file_size
    /\ produced \in 0 .. StreamSize
    /\ num_read \in 0 .. NumEntries
    /\ entry \in [1 .. EntrySize -> 0 .. StreamSize]
    /\ ended \in BOOLEAN
    /\ aborted \in BOOLEAN

\* The bytes that wait in the buffer are the next ones of the trace, in their
\* order: memmove_down, which copies in the order that is wrong for a move
\* down, is never asked to move bytes onto themselves.
BufferInOrder ==
    \A i \in 0 .. dst_remaining - 1 :
        dst_buf[dst_current + i] = num_read * EntrySize + i + 1

\* Whatever pieces the file and the library hand out, a command gets every
\* entry that can be had from the file, and then the end, but only if the file
\* is whole and nothing follows the frame.
Reader == INSTANCE TraceReader WITH
    available <- Decodable(file_size) \div EntrySize,
    intact <- file_size = FrameSize

ImplementsTraceReader == Reader!Spec

=============================================================================
