--------------------------- MODULE Lz4ReaderProofs ---------------------------
(***************************************************************************)
(* lz4_reader_get_entry for every size of an entry, of the buffers and of  *)
(* the file, and however the library cuts what it takes and gives: what    *)
(* waits in the buffer is next in the trace, and what is returned is what  *)
(* TraceReader promises.                                                   *)
(***************************************************************************)
EXTENDS Lz4Reader, TLAPS

\* Every byte of the file is unread, in the source buffer or decompressed, and
\* every byte of the trace so far is returned or waits; a move down happens
\* after a whole entry was returned.
Accounts ==
    /\ src_unread + src_remaining + fed = file_size
    /\ src_eof => src_unread = 0 /\ src_remaining = 0
    /\ finished_frame => fed = FrameSize /\ produced = StreamSize
    /\ dst_current = 0 \/ dst_current >= EntrySize
    /\ produced = num_read * EntrySize + dst_remaining
    /\ produced <= Decodable(fed)
    /\ aborted => file_size >= FrameSize + HeaderSize

RInv == TypeOK /\ Accounts /\ BufferInOrder

-----------------------------------------------------------------------------
(* Products and quotients *)

LEMMA Sizes ==
    /\ EntrySize \in Nat \ {0} /\ NumEntries \in Nat \ {0} /\ FrameSize \in Nat \ {0}
    /\ Ratio \in Nat \ {0} /\ HeaderSize \in Nat \ {0}
    /\ BufferSize \in Nat \ {0} /\ MaxTail \in Nat
    /\ EntrySize <= BufferSize
    /\ StreamSize \in Nat
<1>1. \A m, n \in Nat : m * n \in Nat
  OBVIOUS
<1> QED  BY <1>1, ReaderAssumption DEF StreamSize

LEMMA ProductOrder ==
    ASSUME NEW a \in Nat, NEW b \in Nat, NEW k \in Nat, a <= b
    PROVE  a * k <= b * k /\ a * k \in Nat /\ b * k \in Nat
OBVIOUS

LEMMA NextProduct ==
    ASSUME NEW n \in Nat, NEW k \in Nat
    PROVE  (n + 1) * k = n * k + k /\ n * k \in Nat
OBVIOUS

LEMMA DecodableFacts ==
    /\ \A n \in Nat : Decodable(n) \in 0 .. StreamSize
    /\ \A m, n \in Nat : m <= n => Decodable(m) <= Decodable(n)
    /\ Decodable(FrameSize) = StreamSize
<1>1. \A m, n \in Nat : m <= n => /\ m * Ratio \in Nat /\ n * Ratio \in Nat
                                  /\ m * Ratio <= n * Ratio
  BY Sizes, ProductOrder
<1>2. StreamSize \in Nat
  BY Sizes
<1>3. \A n \in Nat : Decodable(n) \in 0 .. StreamSize
  BY <1>1, <1>2 DEF Decodable
<1>4. ASSUME NEW m \in Nat, NEW n \in Nat, m <= n
      PROVE  Decodable(m) <= Decodable(n)
  BY <1>1, <1>2, <1>4 DEF Decodable
<1>5. Decodable(FrameSize) = StreamSize
  <2>1. FrameSize - 1 \in Nat /\ FrameSize \in Nat /\ FrameSize - 1 <= FrameSize
    BY Sizes
  <2>2. Decodable(FrameSize - 1) = StreamSize
    BY ReaderAssumption
  <2>3. Decodable(FrameSize - 1) <= Decodable(FrameSize)
    BY <2>1, <1>4
  <2> QED  BY <1>2, <1>3, <2>1, <2>2, <2>3
<1> QED  BY <1>3, <1>4, <1>5

\* n * k bytes are n whole entries, and as many as there is room for.
LEMMA WholeEntries ==
    ASSUME NEW k \in Nat \ {0}, NEW d \in Nat
    PROVE  /\ d \div k \in Nat
           /\ \A n \in Nat : n * k <= d <=> n <= d \div k
<1> DEFINE q == d \div k
           r == d % k
<1>1. q \in Nat /\ r \in 0 .. k - 1 /\ d = k * q + r
  OBVIOUS
<1> HIDE DEF q, r
<1>2. ASSUME NEW n \in Nat, n <= q
      PROVE  n * k <= d
  <2>1. n * k <= q * k /\ n * k \in Nat /\ q * k \in Nat
    BY <1>1, <1>2, ProductOrder
  <2>2. q * k = k * q
    BY <1>1
  <2> QED  BY <1>1, <2>1, <2>2
<1>3. ASSUME NEW n \in Nat, n > q
      PROVE  n * k > d
  <2>1. (q + 1) * k = q * k + k /\ q * k \in Nat
    BY <1>1, NextProduct
  <2>2. (q + 1) * k <= n * k /\ n * k \in Nat
    BY <1>1, <1>3, ProductOrder
  <2>3. q * k = k * q
    BY <1>1
  <2> QED  BY <1>1, <2>1, <2>2, <2>3
<1>4. ASSUME NEW n \in Nat
      PROVE  n * k <= d <=> n <= q
  <2>1. n * k \in Nat
    BY NextProduct
  <2>2. CASE n <= q
    BY <1>2, <2>2
  <2>3. CASE n > q
    BY <1>1, <1>3, <2>1, <2>3
  <2> QED  BY <1>1, <2>2, <2>3
<1> QED  BY <1>1, <1>4 DEF q

-----------------------------------------------------------------------------
(* What an iteration works with *)

LEMMA RefilledFacts ==
    ASSUME TypeOK, Accounts
    PROVE  /\ Refilled.unread \in 0 .. file_size
           /\ Refilled.remaining \in 0 .. BufferSize
           /\ Refilled.eof \in BOOLEAN
           /\ Refilled.unread + Refilled.remaining + fed = file_size
           /\ Refilled.eof => Refilled.unread = 0 /\ Refilled.remaining = 0
<1>1. /\ src_unread \in 0 .. file_size /\ src_remaining \in 0 .. BufferSize
      /\ src_eof \in BOOLEAN /\ fed \in Nat /\ file_size \in Nat
      /\ src_unread + src_remaining + fed = file_size
      /\ src_eof => src_unread = 0 /\ src_remaining = 0
      /\ BufferSize \in Nat \ {0}
  BY Sizes DEF TypeOK, Accounts
<1>2. CASE src_remaining > 0 \/ src_eof
  <2>1. Refilled = [unread |-> src_unread, remaining |-> src_remaining, eof |-> src_eof]
    BY <1>2 DEF Refilled
  <2> QED  BY <1>1, <2>1
<1>3. CASE ~ (src_remaining > 0 \/ src_eof)
  <2> DEFINE n == IF src_unread < BufferSize THEN src_unread ELSE BufferSize
  <2>1. Refilled = [unread |-> src_unread - n, remaining |-> n, eof |-> n = 0]
    BY <1>3 DEF Refilled
  <2>2. n \in 0 .. BufferSize /\ n <= src_unread /\ (n = 0 => src_unread = 0)
    BY <1>1
  <2> HIDE DEF n
  <2> QED  BY <1>1, <1>3, <2>1, <2>2
<1> QED  BY <1>2, <1>3

\* What is left moves down over at least a whole entry, and is less than one:
\* no byte is read after it was overwritten.
LEMMA MoveKeepsBytes ==
    ASSUME TypeOK, Accounts, dst_remaining < EntrySize
    PROVE  /\ MovedDown \in [0 .. BufferSize - 1 -> 0 .. StreamSize]
           /\ \A i \in 0 .. dst_remaining - 1 : MovedDown[i] = dst_buf[dst_current + i]
<1> DEFINE apart == [i \in 0 .. dst_remaining - 1 |-> dst_buf[i + dst_current]]
           IsCopied(c) ==
             c = [i \in 0 .. dst_remaining - 1 |->
                    IF i + dst_current < dst_remaining THEN c[i + dst_current]
                    ELSE dst_buf[i + dst_current]]
           copied == CHOOSE c : IsCopied(c)
<1>1. /\ dst_remaining \in Nat /\ dst_current \in Nat
      /\ dst_current + dst_remaining <= BufferSize
      /\ dst_buf \in [0 .. BufferSize - 1 -> 0 .. StreamSize]
      /\ BufferSize \in Nat /\ EntrySize \in Nat
  BY Sizes DEF TypeOK
<1>2. CASE dst_current = 0
  <2>1. MovedDown = dst_buf
    BY <1>2 DEF MovedDown
  <2> QED  BY <1>1, <1>2, <2>1
<1>3. CASE dst_current >= EntrySize
  <2>1. dst_current # 0
    BY Sizes, <1>3
  <2>2. \A i \in 0 .. dst_remaining - 1 : ~ (i + dst_current < dst_remaining)
    BY <1>1, <1>3
  <2>3. IsCopied(apart)
    BY <2>2
  <2>4. IsCopied(copied)
    BY <2>3
  <2>5. copied = apart
    BY <2>2, <2>4
  <2>6. MovedDown = [i \in 0 .. BufferSize - 1 |->
                       IF i < dst_remaining THEN copied[i] ELSE dst_buf[i]]
    BY <2>1 DEF MovedDown
  <2> HIDE DEF copied
  <2>7. \A i \in 0 .. dst_remaining - 1 : /\ i \in 0 .. BufferSize - 1
                                          /\ i + dst_current \in 0 .. BufferSize - 1
                                          /\ i < dst_remaining
    BY <1>1
  <2>8. \A i \in 0 .. dst_remaining - 1 : copied[i] = dst_buf[dst_current + i]
    BY <1>1, <2>5
  <2>9. \A i \in 0 .. BufferSize - 1 :
          i < dst_remaining => i \in 0 .. dst_remaining - 1 /\ copied[i] \in 0 .. StreamSize
    BY <1>1, <2>5, <2>7
  <2>10. MovedDown \in [0 .. BufferSize - 1 -> 0 .. StreamSize]
    BY <1>1, <2>6, <2>9
  <2> QED  BY <2>6, <2>7, <2>8, <2>10
<1> QED  BY <1>2, <1>3 DEF Accounts

-----------------------------------------------------------------------------
(* The invariant *)

LEMMA InitInvariant == Init => RInv
<1> SUFFICES ASSUME Init  PROVE RInv
  OBVIOUS
<1>1. file_size \in Nat /\ FrameSize + MaxTail \in Nat /\ BufferSize \in Nat
  BY Sizes DEF Init
<1>2. TypeOK
  <2>1. dst_buf \in [0 .. BufferSize - 1 -> 0 .. StreamSize]
        /\ entry \in [1 .. EntrySize -> 0 .. StreamSize]
    BY Sizes DEF Init
  <2>2. file_size \in 0 .. FrameSize + MaxTail /\ src_unread \in 0 .. file_size
    BY <1>1 DEF Init
  <2>3. /\ 0 \in 0 .. BufferSize /\ 0 \in 0 .. file_size /\ 0 \in 0 .. StreamSize
        /\ 0 \in 0 .. NumEntries /\ 0 + 0 <= BufferSize
    BY <1>1, Sizes
  <2>4. /\ src_remaining = 0 /\ src_eof = FALSE /\ finished_frame = FALSE /\ dst_current = 0
        /\ dst_remaining = 0 /\ fed = 0 /\ produced = 0 /\ num_read = 0
        /\ ended = FALSE /\ aborted = FALSE
    BY DEF Init
  <2> QED  BY <2>1, <2>2, <2>3, <2>4 DEF TypeOK
<1>3. Accounts
  <2>1. 0 * EntrySize = 0 /\ 0 <= Decodable(0)
    BY Sizes, DecodableFacts
  <2> QED  BY <1>1, <2>1 DEF Init, Accounts
<1>4. BufferInOrder
  BY DEF Init, BufferInOrder
<1> QED  BY <1>2, <1>3, <1>4 DEF RInv

\* As many entries were returned as the trace has, at most.
LEMMA ReturnedAtMost ==
    ASSUME NEW n \in Nat, n * EntrySize <= StreamSize
    PROVE  n \in 0 .. NumEntries
<1>1. CASE n <= NumEntries
  BY <1>1, Sizes
<1>2. CASE n >= NumEntries + 1
  <2>1. (NumEntries + 1) * EntrySize <= n * EntrySize
    BY <1>2, Sizes, ProductOrder
  <2>2. (NumEntries + 1) * EntrySize = NumEntries * EntrySize + EntrySize
        /\ NumEntries * EntrySize \in Nat
    BY Sizes, NextProduct
  <2>3. StreamSize = NumEntries * EntrySize
    BY Sizes DEF StreamSize
  <2>4. n * EntrySize \in Nat
    BY Sizes, NextProduct
  <2> QED  BY <2>1, <2>2, <2>3, <2>4, Sizes
<1> QED  BY <1>1, <1>2, Sizes

LEMMA DecompressInvariant ==
    ASSUME RInv, Decompress
    PROVE  RInv'
<1>1. TypeOK /\ Accounts /\ BufferInOrder
  BY DEF RInv
<1>2. PICK n_src \in 0 .. Refilled.remaining, n_dst \in 0 .. BufferSize - dst_remaining :
        /\ Decompresses(n_src, n_dst, Refilled.remaining, BufferSize - dst_remaining)
        /\ dst_buf' = [i \in 0 .. BufferSize - 1 |->
                         IF i \in dst_remaining .. dst_remaining + n_dst - 1
                           THEN produced + 1 + i - dst_remaining
                           ELSE MovedDown[i]]
        /\ dst_remaining' = dst_remaining + n_dst
        /\ src_remaining' = Refilled.remaining - n_src
        /\ fed' = fed + n_src
        /\ produced' = produced + n_dst
        /\ finished_frame' =
             (n_src + n_dst > 0 /\ fed' = FrameSize /\ produced' = StreamSize)
  BY DEF Decompress
<1>3. /\ dst_remaining < EntrySize
      /\ dst_current' = 0
      /\ src_unread' = Refilled.unread
      /\ src_eof' = Refilled.eof
      /\ UNCHANGED <<file_size, num_read, entry, ended, aborted>>
  BY DEF Decompress
<1>4. /\ Refilled.unread \in 0 .. file_size
      /\ Refilled.remaining \in 0 .. BufferSize
      /\ Refilled.eof \in BOOLEAN
      /\ Refilled.unread + Refilled.remaining + fed = file_size
      /\ Refilled.eof => Refilled.unread = 0 /\ Refilled.remaining = 0
  BY <1>1, RefilledFacts
<1>5. /\ MovedDown \in [0 .. BufferSize - 1 -> 0 .. StreamSize]
      /\ \A i \in 0 .. dst_remaining - 1 : MovedDown[i] = dst_buf[dst_current + i]
  BY <1>1, <1>3, MoveKeepsBytes
<1>6. /\ dst_remaining \in 0 .. BufferSize /\ produced \in 0 .. StreamSize
      /\ fed \in 0 .. file_size /\ file_size \in Nat /\ num_read \in Nat
  BY <1>1, Sizes DEF TypeOK
<1>7. produced' \in 0 .. StreamSize /\ produced' <= Decodable(fed')
  <2>1. produced + n_dst <= Decodable(fed + n_src)
    BY <1>2 DEF Decompresses
  <2>2. fed + n_src \in Nat
    BY <1>4, <1>6
  <2>3. Decodable(fed + n_src) \in 0 .. StreamSize
    BY <2>2, DecodableFacts
  <2> QED  BY <1>2, <1>6, <2>1, <2>3, Sizes
<1>8. TypeOK'
  <2>1. dst_buf' \in [0 .. BufferSize - 1 -> 0 .. StreamSize]
    <3>1. ASSUME NEW i \in 0 .. BufferSize - 1,
                 i \in dst_remaining .. dst_remaining + n_dst - 1
          PROVE  produced + 1 + i - dst_remaining \in 0 .. StreamSize
      BY <1>2, <1>6, <1>7, <3>1, Sizes
    <3>2. \A i \in 0 .. BufferSize - 1 : MovedDown[i] \in 0 .. StreamSize
      BY <1>5
    <3> QED  BY <1>2, <3>1, <3>2
  <2>2. fed' \in 0 .. file_size /\ src_remaining' \in 0 .. BufferSize
    <3> DEFINE u == Refilled.unread
               r == Refilled.remaining
    <3>1. u \in Nat /\ r \in 0 .. BufferSize /\ fed \in Nat /\ n_src \in 0 .. r
          /\ u + r + fed = file_size /\ BufferSize \in Nat /\ file_size \in Nat
      BY <1>4, <1>6, Sizes
    <3>2. src_remaining' = r - n_src /\ fed' = fed + n_src
      BY <1>2
    <3> HIDE DEF u, r
    <3> QED  BY <3>1, <3>2
  <2>3. dst_remaining' \in 0 .. BufferSize /\ dst_current' + dst_remaining' <= BufferSize
        /\ dst_current' \in 0 .. BufferSize
    BY <1>2, <1>3, <1>6, Sizes
  <2>4. finished_frame' \in BOOLEAN
    BY <1>2
  <2> QED  BY <1>1, <1>3, <1>4, <1>7, <2>1, <2>2, <2>3, <2>4 DEF TypeOK
<1>9. Accounts'
  <2>1. src_unread' + src_remaining' + fed' = file_size'
    <3> DEFINE u == Refilled.unread
               r == Refilled.remaining
    <3>1. u \in Nat /\ r \in Nat /\ fed \in Nat /\ n_src \in 0 .. r /\ u + r + fed = file_size
      BY <1>4, <1>6, Sizes
    <3>2. src_unread' = u /\ src_remaining' = r - n_src /\ fed' = fed + n_src
          /\ file_size' = file_size
      BY <1>2, <1>3
    <3> HIDE DEF u, r
    <3> QED  BY <3>1, <3>2
  <2>2. src_eof' => src_unread' = 0 /\ src_remaining' = 0
    BY <1>2, <1>3, <1>4
  <2>3. finished_frame' => fed' = FrameSize /\ produced' = StreamSize
    BY <1>2
  <2>4. produced' = num_read' * EntrySize + dst_remaining'
    <3>1. num_read * EntrySize \in Nat /\ produced = num_read * EntrySize + dst_remaining
      BY <1>1, <1>6, Sizes, NextProduct DEF Accounts
    <3>2. num_read' = num_read
      BY <1>3
    <3> QED  BY <1>2, <1>6, <3>1, <3>2
  <2>5. aborted' => file_size' >= FrameSize + HeaderSize
    BY <1>1, <1>3 DEF Accounts
  <2> QED  BY <1>3, <1>7, <2>1, <2>2, <2>3, <2>4, <2>5 DEF Accounts
<1>10. BufferInOrder'
  <2>1. ASSUME NEW i \in 0 .. dst_remaining' - 1
        PROVE  dst_buf'[dst_current' + i] = num_read' * EntrySize + i + 1
    <3> DEFINE start == num_read * EntrySize
    <3>1. start \in Nat /\ produced = start + dst_remaining
      BY <1>1, <1>6, Sizes, NextProduct DEF Accounts
    <3>2. num_read' * EntrySize = start /\ dst_current' + i = i /\ i \in 0 .. BufferSize - 1
      BY <1>2, <1>3, <1>6, Sizes
    <3>3. \A j \in 0 .. dst_remaining - 1 : dst_buf[dst_current + j] = start + j + 1
      BY <1>1 DEF BufferInOrder
    <3> HIDE DEF start
    <3>4. CASE i \in dst_remaining .. dst_remaining + n_dst - 1
      <4>1. dst_buf'[i] = produced + 1 + i - dst_remaining
        BY <1>2, <3>2, <3>4
      <4> QED  BY <1>6, <3>1, <3>2, <4>1
    <3>5. CASE i \in 0 .. dst_remaining - 1
      <4>1. ~ (i \in dst_remaining .. dst_remaining + n_dst - 1)
        BY <1>6, <3>5
      <4>2. dst_buf'[i] = MovedDown[i]
        BY <1>2, <3>2, <4>1
      <4> QED  BY <1>5, <3>2, <3>3, <3>5, <4>2
    <3> QED  BY <1>2, <1>6, <3>4, <3>5
  <2> QED  BY <2>1 DEF BufferInOrder
<1> QED  BY <1>8, <1>9, <1>10 DEF RInv

LEMMA DecompressFailsInvariant ==
    ASSUME RInv, DecompressFails
    PROVE  RInv'
<1>1. TypeOK /\ Accounts /\ BufferInOrder
  BY DEF RInv
<1>2. file_size >= FrameSize + HeaderSize
  <2>1. Refilled.unread + Refilled.remaining + fed = file_size
        /\ Refilled.unread \in 0 .. file_size /\ Refilled.remaining \in 0 .. BufferSize
    BY <1>1, RefilledFacts
  <2>2. fed + Refilled.remaining >= FrameSize + HeaderSize
    BY DEF DecompressFails
  <2>3. fed \in Nat /\ file_size \in Nat
    BY <1>1, Sizes DEF TypeOK
  <2> QED  BY <2>1, <2>2, <2>3, Sizes
<1>3. TypeOK'
  BY <1>1 DEF TypeOK, DecompressFails, dst_vars
<1>4. Accounts'
  BY <1>1, <1>2 DEF Accounts, DecompressFails, dst_vars
<1>5. BufferInOrder'
  BY <1>1 DEF BufferInOrder, DecompressFails, dst_vars
<1> QED  BY <1>3, <1>4, <1>5 DEF RInv

\* At the end every byte of the file was taken, and every byte of the trace
\* given; what was not returned of them is whole entries.
LEMMA EndIsClean ==
    ASSUME RInv, AtEnd, dst_remaining < EntrySize
    PROVE  /\ file_size = FrameSize
           /\ num_read = NumEntries
           /\ dst_remaining = 0
<1>1. TypeOK /\ Accounts
  BY DEF RInv
<1>2. fed = FrameSize /\ produced = StreamSize /\ file_size = FrameSize
  <2>1. Refilled.unread = 0 /\ Refilled.remaining = 0
        /\ Refilled.unread + Refilled.remaining + fed = file_size
    BY <1>1, RefilledFacts DEF AtEnd
  <2>2. fed = FrameSize /\ produced = StreamSize
    BY <1>1 DEF AtEnd, Accounts
  <2> QED  BY <2>1, <2>2, Sizes
<1>3. /\ num_read \in 0 .. NumEntries /\ dst_remaining \in Nat
      /\ num_read * EntrySize + dst_remaining = NumEntries * EntrySize
  BY <1>1, <1>2, Sizes DEF TypeOK, Accounts, StreamSize
<1>4. num_read = NumEntries
  <2> SUFFICES ASSUME num_read + 1 <= NumEntries
               PROVE  FALSE
    BY <1>3, Sizes
  <2>1. (num_read + 1) * EntrySize <= NumEntries * EntrySize
        /\ NumEntries * EntrySize \in Nat
    BY <1>3, Sizes, ProductOrder
  <2>2. (num_read + 1) * EntrySize = num_read * EntrySize + EntrySize
        /\ num_read * EntrySize \in Nat
    BY <1>3, Sizes, NextProduct
  <2> QED  BY <1>3, <2>1, <2>2, Sizes
<1>5. NumEntries * EntrySize \in Nat
  BY Sizes, NextProduct
<1> QED  BY <1>2, <1>3, <1>4, <1>5

LEMMA ReturnFalseInvariant ==
    ASSUME RInv, ReturnFalse
    PROVE  RInv' /\ ~ aborted'
<1>1. TypeOK /\ Accounts /\ BufferInOrder
  BY DEF RInv
<1>2. dst_remaining = 0
  BY EndIsClean DEF ReturnFalse
<1>3. ended' = TRUE /\ aborted' = aborted /\ ~ aborted /\ src_eof' = TRUE
      /\ UNCHANGED <<file_size, src_unread, src_remaining, finished_frame, dst_vars, fed,
                      produced, num_read, entry>>
  BY <1>2 DEF ReturnFalse
<1>4. src_unread = 0 /\ src_remaining = 0
  <2>1. Refilled.unread = 0 /\ Refilled.remaining = 0
        /\ Refilled.unread + Refilled.remaining + fed = file_size
    BY <1>1, RefilledFacts DEF AtEnd, ReturnFalse
  <2>2. src_unread + src_remaining + fed = file_size
        /\ src_unread \in Nat /\ src_remaining \in Nat /\ fed \in Nat
    BY <1>1, Sizes DEF TypeOK, Accounts
  <2> QED  BY <2>1, <2>2
<1>5. TypeOK'
  BY <1>1, <1>3 DEF TypeOK, dst_vars
<1>6. Accounts'
  BY <1>1, <1>3, <1>4 DEF Accounts, dst_vars
<1>7. BufferInOrder'
  BY <1>1, <1>3 DEF BufferInOrder, dst_vars
<1> QED  BY <1>3, <1>5, <1>6, <1>7 DEF RInv

LEMMA ReturnEntryInvariant ==
    ASSUME RInv, ReturnEntry
    PROVE  RInv'
<1>1. TypeOK /\ Accounts /\ BufferInOrder
  BY DEF RInv
<1>2. /\ dst_remaining >= EntrySize
      /\ entry' = [i \in 1 .. EntrySize |-> dst_buf[dst_current + i - 1]]
      /\ dst_current' = dst_current + EntrySize
      /\ dst_remaining' = dst_remaining - EntrySize
      /\ num_read' = num_read + 1
      /\ UNCHANGED <<file_size, src_unread, src_remaining, src_eof, finished_frame, dst_buf,
                      fed, produced, ended, aborted>>
  BY DEF ReturnEntry
<1>3. /\ dst_current \in 0 .. BufferSize /\ dst_remaining \in 0 .. BufferSize
      /\ dst_current + dst_remaining <= BufferSize
      /\ num_read \in Nat /\ produced \in 0 .. StreamSize
      /\ dst_buf \in [0 .. BufferSize - 1 -> 0 .. StreamSize]
  BY <1>1, Sizes DEF TypeOK
<1> DEFINE start == num_read * EntrySize
           next == (num_read + 1) * EntrySize
<1>4. start \in Nat /\ next = start + EntrySize /\ produced = start + dst_remaining
  BY <1>1, <1>3, Sizes, NextProduct DEF Accounts
<1>5. num_read + 1 \in 0 .. NumEntries
  <2>1. next <= StreamSize
    <3> HIDE DEF start, next
    <3> QED  BY <1>2, <1>3, <1>4, Sizes
  <2> QED  BY <1>3, <2>1, ReturnedAtMost
<1>6. num_read' * EntrySize = next
  BY <1>2
<1> HIDE DEF start, next
<1>7. TypeOK'
  <2>1. \A i \in 1 .. EntrySize : dst_current + i - 1 \in 0 .. BufferSize - 1
    BY <1>2, <1>3, Sizes
  <2>2. entry' \in [1 .. EntrySize -> 0 .. StreamSize]
    BY <1>2, <1>3, <2>1
  <2>3. dst_current' \in 0 .. BufferSize /\ dst_remaining' \in 0 .. BufferSize
        /\ dst_current' + dst_remaining' <= BufferSize
    BY <1>2, <1>3, Sizes
  <2> QED  BY <1>1, <1>2, <1>5, <2>2, <2>3 DEF TypeOK
<1>8. Accounts'
  <2>1. produced' = num_read' * EntrySize + dst_remaining'
    BY <1>2, <1>3, <1>4, <1>6, Sizes
  <2>2. dst_current' >= EntrySize
    BY <1>2, <1>3, Sizes
  <2> QED  BY <1>1, <1>2, <2>1, <2>2 DEF Accounts
<1>9. BufferInOrder'
  <2>1. ASSUME NEW i \in 0 .. dst_remaining' - 1
        PROVE  dst_buf'[dst_current' + i] = num_read' * EntrySize + i + 1
    <3>1. i + EntrySize \in 0 .. dst_remaining - 1
          /\ dst_current' + i = dst_current + (i + EntrySize)
      BY <1>2, <1>3, Sizes
    <3>2. dst_buf[dst_current + (i + EntrySize)] = start + (i + EntrySize) + 1
      BY <1>1, <3>1 DEF BufferInOrder, start
    <3> QED  BY <1>2, <1>4, <1>6, <3>1, <3>2, Sizes
  <2> QED  BY <2>1 DEF BufferInOrder
<1> QED  BY <1>7, <1>8, <1>9 DEF RInv

LEMMA StepInvariant == RInv /\ [Next]_vars => RInv'
<1> SUFFICES ASSUME RInv, [Next]_vars  PROVE RInv'
  OBVIOUS
<1>1. CASE Decompress
  BY <1>1, DecompressInvariant
<1>2. CASE DecompressFails
  BY <1>2, DecompressFailsInvariant
<1>3. CASE ReturnFalse
  BY <1>3, ReturnFalseInvariant
<1>4. CASE ReturnEntry
  BY <1>4, ReturnEntryInvariant
<1>5. CASE UNCHANGED vars
  BY <1>5 DEF RInv, TypeOK, Accounts, BufferInOrder, vars, dst_vars
<1> QED  BY <1>1, <1>2, <1>3, <1>4, <1>5 DEF Next

\* After any calls, what the reader holds adds up and the buffer is in order.
THEOREM ReaderInvariance == Spec => []RInv
<1>1. Init => RInv
  BY InitInvariant
<1>2. RInv /\ [Next]_vars => RInv'
  BY StepInvariant
<1> QED  BY <1>1, <1>2, PTL DEF Spec

\* The bytes that lz4_reader_get_entry has not returned are the next ones of the
\* trace, for any sizes: memmove_down's order of copying never harms it.
THEOREM BytesInOrder == Spec => []BufferInOrder
<1>1. RInv => BufferInOrder
  BY DEF RInv
<1> QED  BY <1>1, ReaderInvariance, PTL

\* The buffers are not left, by decompressing or by moving down or by copying
\* an entry out.
THEOREM BuffersAreKept == Spec => []TypeOK
<1>1. RInv => TypeOK
  BY DEF RInv
<1> QED  BY <1>1, ReaderInvariance, PTL

\* The assertion that no part of an entry is left at the end never fails, nor
\* does the library, but on a file with bytes behind the frame.
THEOREM OnlyTailsAbort == Spec => [](aborted => file_size >= FrameSize + HeaderSize)
<1>1. RInv => (aborted => file_size >= FrameSize + HeaderSize)
  BY DEF RInv, Accounts
<1> QED  BY <1>1, ReaderInvariance, PTL

-----------------------------------------------------------------------------
(* The promise *)

\* The entries of a file for which trace_reader_get has to find the bytes.
LEMMA EntriesAvailable ==
    ASSUME NEW size \in Nat
    PROVE  /\ Decodable(size) \div EntrySize \in 0 .. NumEntries
           /\ \A n \in Nat : n * EntrySize <= Decodable(size)
                              <=> n <= Decodable(size) \div EntrySize
           /\ size = FrameSize => Decodable(size) \div EntrySize = NumEntries
<1> DEFINE d == Decodable(size)
           q == d \div EntrySize
<1>1. d \in 0 .. StreamSize /\ d \in Nat /\ EntrySize \in Nat \ {0}
  BY DecodableFacts, Sizes
<1>2. q \in Nat /\ \A n \in Nat : n * EntrySize <= d <=> n <= q
  <2> HIDE DEF d
  <2> QED  BY <1>1, WholeEntries
<1>3. size = FrameSize => d = StreamSize
  BY DecodableFacts
<1> HIDE DEF d, q
<1>4. q \in 0 .. NumEntries
  <2>1. q * EntrySize <= d
    BY <1>2
  <2>2. q * EntrySize \in Nat
    BY <1>2, Sizes, NextProduct
  <2>3. q * EntrySize <= StreamSize
    BY <1>1, <2>1, <2>2, Sizes
  <2> QED  BY <1>2, <2>3, ReturnedAtMost
<1>5. ASSUME size = FrameSize
      PROVE  q = NumEntries
  <2>1. NumEntries * EntrySize = StreamSize /\ d = StreamSize
    BY <1>3, <1>5, Sizes DEF StreamSize
  <2>2. NumEntries * EntrySize <= d
    BY <2>1, Sizes
  <2>3. NumEntries <= q
    BY <1>2, <2>2, Sizes
  <2> QED  BY <1>4, <2>3, Sizes
<1> QED  BY <1>2, <1>4, <1>5 DEF d, q

LEMMA InitIsPromised == Init => Reader!Init
<1> SUFFICES ASSUME Init  PROVE Reader!Init
  OBVIOUS
<1>1. file_size \in Nat
  BY Sizes DEF Init
<1>2. /\ Decodable(file_size) \div EntrySize \in 0 .. NumEntries
      /\ file_size = FrameSize => Decodable(file_size) \div EntrySize = NumEntries
  BY <1>1, EntriesAvailable
<1> QED  BY <1>2 DEF Init, Reader!Init

LEMMA EntryIsNext ==
    ASSUME RInv, ReturnEntry
    PROVE  Reader!Get
<1>1. TypeOK /\ Accounts /\ BufferInOrder
  BY DEF RInv
<1>2. /\ dst_remaining \in Nat /\ num_read \in Nat /\ fed \in Nat /\ file_size \in Nat
      /\ fed <= file_size /\ dst_current \in Nat
  BY <1>1, Sizes DEF TypeOK
<1> DEFINE start == num_read * EntrySize
           available == Decodable(file_size) \div EntrySize
<1>3. (num_read + 1) * EntrySize <= Decodable(file_size)
  <2>1. start \in Nat /\ (num_read + 1) * EntrySize = start + EntrySize
        /\ produced = start + dst_remaining /\ produced <= Decodable(fed)
    BY <1>1, <1>2, Sizes, NextProduct DEF Accounts
  <2>2. Decodable(fed) <= Decodable(file_size)
        /\ Decodable(fed) \in Nat /\ Decodable(file_size) \in Nat
    BY <1>2, DecodableFacts, Sizes
  <2>3. dst_remaining >= EntrySize
    BY DEF ReturnEntry
  <2> HIDE DEF start
  <2> QED  BY <1>2, <2>1, <2>2, <2>3, Sizes
<1>4. num_read < available
  <2>1. num_read + 1 <= available /\ available \in Nat
    BY <1>2, <1>3, EntriesAvailable
  <2> HIDE DEF available
  <2> QED  BY <1>2, <2>1
<1>5. entry' = Reader!EntryAt(num_read)
  <2>1. ASSUME NEW i \in 1 .. EntrySize
        PROVE  dst_buf[dst_current + i - 1] = start + i
    <3>1. i - 1 \in 0 .. dst_remaining - 1 /\ dst_current + i - 1 = dst_current + (i - 1)
      BY <1>2, Sizes DEF ReturnEntry
    <3>2. dst_buf[dst_current + (i - 1)] = start + (i - 1) + 1 /\ start \in Nat
      BY <1>1, <1>2, <3>1, Sizes, NextProduct DEF BufferInOrder
    <3> HIDE DEF start
    <3> QED  BY <3>1, <3>2
  <2>2. entry' = [i \in 1 .. EntrySize |-> dst_buf[dst_current + i - 1]]
    BY DEF ReturnEntry
  <2> QED  BY <2>1, <2>2 DEF Reader!EntryAt
<1> QED  BY <1>4, <1>5 DEF Reader!Get, ReturnEntry

LEMMA EndIsPromised ==
    ASSUME RInv, ReturnFalse
    PROVE  Reader!End
<1>1. file_size = FrameSize /\ num_read = NumEntries /\ dst_remaining = 0
  BY EndIsClean DEF ReturnFalse
<1>2. Decodable(file_size) \div EntrySize = NumEntries
  BY <1>1, EntriesAvailable, Sizes
<1>3. ~ ended /\ ended' = TRUE /\ UNCHANGED <<file_size, num_read, entry>>
  BY <1>1 DEF ReturnFalse
<1> QED  BY <1>1, <1>2, <1>3 DEF Reader!End

LEMMA StepIsPromised == RInv /\ [Next]_vars => [Reader!Next]_(Reader!vars)
<1> SUFFICES ASSUME RInv, [Next]_vars  PROVE [Reader!Next]_(Reader!vars)
  OBVIOUS
<1>1. CASE Decompress
  BY <1>1 DEF Decompress, Reader!vars
<1>2. CASE DecompressFails
  BY <1>2 DEF DecompressFails, Reader!vars
<1>3. CASE ReturnFalse
  BY <1>3, EndIsPromised DEF Reader!Next
<1>4. CASE ReturnEntry
  BY <1>4, EntryIsNext DEF Reader!Next
<1>5. CASE UNCHANGED vars
  BY <1>5 DEF vars, Reader!vars
<1> QED  BY <1>1, <1>2, <1>3, <1>4, <1>5 DEF Next

\* What trace_reader_get returns of an lz4 file are the entries of the trace one
\* after the other, and false only at the end of a file that is whole and alone:
\* the safety part of ImplementsTraceReader.
THEOREM ReaderKeepsPromise == Spec => Reader!Init /\ [][Reader!Next]_(Reader!vars)
<1>1. Init => Reader!Init
  BY InitIsPromised
<1>2. RInv /\ [Next]_vars => [Reader!Next]_(Reader!vars)
  BY StepIsPromised
<1> QED  BY <1>1, <1>2, ReaderInvariance, PTL DEF Spec
=============================================================================
