------------------------ MODULE AddressPipelineProofs ------------------------
(***************************************************************************)
(* patch-paddrs, convert-drcachesim and the reader of the file, for every  *)
(* machine and any number of pages.  The invariant says what is left in    *)
(* the file between two accesses, and what the tables of the three         *)
(* programs have in common.                                                *)
(***************************************************************************)
EXTENDS AddressPipeline, SequenceTheorems, TLAPS

Tables ==
    /\ page_table \in PageMap
    /\ mapped \in PageMap
    /\ tlb \in PageMap
    /\ mapping \in [VirtualPages -> MemoryPages \cup DevicePages]
    /\ remapped \subseteq VirtualPages
    /\ physical \in MemoryPages \cup {Absent}

States ==
    /\ patch_state \in {"running", "done", "aborted"}
    /\ variant \in {"vaddr", "paddr"}
    /\ convert_state \in {"header", "loop", "done", "aborted"}
    /\ converted \in PatchedEntry \cup {Nothing}
    /\ tag \in {0, 1, Unknown}
    /\ decoded \in Access \cup {Nothing}
    /\ complete \in BOOLEAN

Counts ==
    /\ dbg_pages_changed_mapping \subseteq VirtualPages
    /\ dbg_pages_without_mapping \subseteq VirtualPages
    /\ dbg_num_addr_mapping_changes \in Nat
    /\ stats_before \in [Counters -> Nat]
    /\ stats_after \in [Counters -> Nat]
    /\ dbg_paddrs_invalid \in Nat
    /\ num_decoded \in Nat

\* A page that was not moved since its last valid entry is where the table
\* of patch-paddrs has it.
PagesReal ==
    \A page \in VirtualPages :
        page \notin remapped /\ page_table[page] # Absent =>
          page_table[page] = mapping[page]

\* convert maps no page that patch-paddrs has not seen.
MappedSeen ==
    \A page \in VirtualPages : mapped[page] # Absent => page_table[page] # Absent

\* The entry between the two commands has no valid address if patch-paddrs
\* had none for its page.
Waits(e) ==
    /\ converted = Nothing
    /\ drcachesim = <<>>
    /\ convert_state # "header"
    /\ IF PaddrValid(e.paddr)
         THEN page_table[e.vaddr.page] # Absent /\ e.paddr.offset = e.vaddr.offset
         ELSE page_table[e.vaddr.page] = Absent

Waiting == patched = <<>> \/ \E e \in PatchedEntry : patched = <<e>> /\ Waits(e)

NumWaiting == IF patched = <<>> THEN 0 ELSE 1

\* The records that say nothing of an access.
FrameTypes == {"HEADER", "THREAD", "PID", "TIMESTAMP", "CPU_ID", "PAGE_SIZE"}

\* The entries of the file that come for a converted entry.
PhysicalOf(e) == Marker("PHYSICAL_ADDRESS", e.paddr)
VirtualOf(e) == Marker("VIRTUAL_ADDRESS", e.vaddr)
AccessEntry(e) ==
    Marker(DrcachesimType(e.type), IF variant = "vaddr" THEN e.vaddr ELSE e.paddr)
Rest(e) == TagEntries(e) \o <<AccessEntry(e)>>

\* The reader's page table gets the mapping that convert has noted.
Moves(e) == variant = "vaddr" /\ mapped = [tlb EXCEPT ![e.vaddr.page] = e.paddr.page]
Mapped(e) == tlb = mapped /\ (variant = "vaddr" => mapped[e.vaddr.page] = e.paddr.page)

\* Where the reader is in them.
Coming(e) ==
    \/ drcachesim = <<PhysicalOf(e), VirtualOf(e)>> \o Rest(e) /\ tag = Unknown /\ Moves(e)
    \/ /\ drcachesim = <<VirtualOf(e)>> \o Rest(e) /\ tag = Unknown /\ Moves(e)
       /\ physical = e.paddr.page
    \/ drcachesim = Rest(e) /\ tag = Unknown /\ Mapped(e)
    \/ drcachesim = <<AccessEntry(e)>> /\ tag = AccessOf(e).tag /\ Mapped(e)

NumPatched == stats_after[<<"entries", "all">>]

InAccess ==
    /\ converted \in PatchedEntry /\ PaddrValid(converted.paddr)
    /\ converted.paddr.offset = converted.vaddr.offset
    /\ Coming(converted)
    /\ convert_state = "loop" /\ ~ complete
    /\ num_decoded + 1 + dbg_paddrs_invalid = NumPatched

\* The reader has come to the end of what the last access has left.
Between ==
    /\ \/ drcachesim \in Seq([type : FrameTypes]) /\ ~ complete /\ convert_state # "done"
       \/ drcachesim = Footer /\ ~ complete /\ convert_state = "done"
       \/ drcachesim = <<>> /\ convert_state = "done"
    /\ convert_state # "aborted"
    /\ tlb = mapped
    /\ tag = Unknown
    /\ converted # Nothing => decoded = AccessOf(converted)
    /\ num_decoded + dbg_paddrs_invalid + NumWaiting = NumPatched

\* convert has failed on the tag of an entry.
Aborted ==
    /\ convert_state = "aborted" /\ converted = Nothing /\ ~ complete
    /\ \/ drcachesim = <<>>
       \/ \E e \in PatchedEntry :
            /\ PaddrValid(e.paddr)
            /\ drcachesim \in {<<PhysicalOf(e), VirtualOf(e)>>, <<VirtualOf(e)>>}

Progress ==
    /\ convert_state = "header" => drcachesim = <<>> /\ patched = <<>> /\ converted = Nothing
    /\ convert_state = "done" => patched = <<>> /\ patch_state # "running"

Skipped ==
    /\ dbg_paddrs_invalid + (IF patched # <<>> /\ ~ PaddrValid(Head(patched).paddr)
                               THEN 1 ELSE 0)
         = stats_after[<<"entries", "invalid_paddr">>]
    /\ stats_after[<<"entries", "invalid_paddr">>] > 0 <=> dbg_pages_without_mapping # {}

IInv ==
    /\ Tables /\ States /\ Counts
    /\ PagesReal /\ MappedSeen /\ Waiting /\ Progress /\ Skipped
    /\ InAccess \/ Between \/ Aborted

-----------------------------------------------------------------------------
(* Data *)

LEMMA PageFacts ==
    /\ VirtualPages \subseteq Nat
    /\ MemoryPages \subseteq Nat \ {0}
    /\ Absent \notin MemoryPages /\ Absent \notin VirtualPages
    /\ ~ PaddrValid(Zero)
    /\ Nothing \notin PatchedEntry
BY PagesAssumption DEF Absent, PaddrValid, Zero, Nothing, PatchedEntry, Types

\* An entry of the trace, when patch-paddrs does not fail on it.
LEMMA TracedFacts ==
    ASSUME Tables, NEW e \in Traced, ~ FailsBefore(e)
    PROVE  /\ e.vaddr \in Address(VirtualPages) /\ e.vaddr.page \in VirtualPages
           /\ e.vaddr.offset \in Offsets
           /\ e.type \in Types /\ e.tag \in {0, 1}
           /\ e.paddr = Zero \/ e.paddr = Translated(e.vaddr)
           /\ e \in PatchedEntry
           /\ ~ StatsFail(e)
<1>1. e.vaddr # Zero /\ ~ StatsFail(e)
  BY DEF FailsBefore
<1>2. PICK vaddr \in Address(VirtualPages) \cup {Zero} :
        e \in [type : TracedTypes, tag : {0, 1}, vaddr : {vaddr}, paddr : TracedAs(vaddr)]
  BY DEF Traced
<1>3. e.vaddr = vaddr /\ vaddr \in Address(VirtualPages) /\ e.paddr \in TracedAs(vaddr)
  BY <1>1, <1>2
<1>4. vaddr.page \in VirtualPages /\ vaddr.offset \in Offsets
  BY <1>3 DEF Address
<1>5. e.paddr = Zero \/ e.paddr = Translated(e.vaddr)
  BY <1>1, <1>3 DEF TracedAs
<1>6. Translated(e.vaddr) \in Address(MemoryPages \cup DevicePages)
  BY <1>3, <1>4 DEF Translated, Address, Tables
<1>7. e.type \in Types /\ e.tag \in {0, 1}
  BY <1>2, PipelineAssumption
<1>8. e = [type |-> e.type, tag |-> e.tag, vaddr |-> e.vaddr, paddr |-> e.paddr]
  BY <1>2
<1>9. e \in PatchedEntry
  BY <1>3, <1>5, <1>6, <1>7, <1>8 DEF PatchedEntry
<1> QED
  BY <1>1, <1>3, <1>4, <1>5, <1>7, <1>9

\* What patch-paddrs makes of an entry and of its table.
LEMMA PatchFacts ==
    ASSUME Tables, NEW e \in Traced, ~ FailsBefore(e)
    PROVE  /\ Patched(e) \in PatchedEntry
           /\ Patched(e).vaddr = e.vaddr
           /\ TableAfter(e) \in PageMap
           /\ \A page \in VirtualPages :
                TableAfter(e)[page] = IF page = e.vaddr.page /\ PaddrValid(e.paddr)
                                        THEN e.paddr.page ELSE page_table[page]
           /\ PaddrValid(Patched(e).paddr) <=> TableAfter(e)[e.vaddr.page] # Absent
           /\ PaddrValid(Patched(e).paddr) <=> ~ Without(e)
           /\ PaddrValid(Patched(e).paddr) => Patched(e).paddr.offset = e.vaddr.offset
           /\ ~ StatsFail(Patched(e))
<1>1. /\ e.vaddr \in Address(VirtualPages) /\ e.vaddr.page \in VirtualPages
      /\ e.vaddr.offset \in Offsets /\ e \in PatchedEntry /\ ~ StatsFail(e)
      /\ e.type \in Types /\ e.tag \in {0, 1}
      /\ e.paddr = Zero \/ e.paddr = Translated(e.vaddr)
  BY TracedFacts
<1>2. page_table \in PageMap
  BY DEF Tables
<1>3. /\ TableAfter(e) \in PageMap
      /\ \A page \in VirtualPages :
           TableAfter(e)[page] = IF page = e.vaddr.page /\ PaddrValid(e.paddr)
                                   THEN e.paddr.page ELSE page_table[page]
  BY <1>1, <1>2 DEF TableAfter, PageMap, PaddrValid
<1>4. e.vaddr # Zero
  BY DEF FailsBefore
<1>5. CASE PaddrValid(e.paddr) \/ ~ Known(e)
  <2>1. Patched(e) = e
    BY <1>5 DEF Patched
  <2>2. PaddrValid(e.paddr) => TableAfter(e)[e.vaddr.page] # Absent
    BY <1>1, <1>3, PageFacts DEF PaddrValid
  <2>3. ~ PaddrValid(e.paddr) => TableAfter(e)[e.vaddr.page] = Absent
    BY <1>1, <1>3, <1>5 DEF Known
  <2>4. PaddrValid(e.paddr) => e.paddr.offset = e.vaddr.offset
    BY <1>1, PageFacts DEF Translated
  <2> QED
    BY <1>1, <1>3, <1>5, <2>1, <2>2, <2>3, <2>4 DEF Without
<1>6. CASE ~ PaddrValid(e.paddr) /\ Known(e)
  <2> DEFINE frame == page_table[e.vaddr.page]
  <2>1. frame \in MemoryPages
    BY <1>1, <1>2, <1>6 DEF Known, PageMap
  <2>2. Patched(e) = [e EXCEPT !.paddr = [page |-> frame, offset |-> e.vaddr.offset]]
    BY <1>6 DEF Patched
  <2>3. [page |-> frame, offset |-> e.vaddr.offset] \in Address(MemoryPages \cup DevicePages)
    BY <1>1, <2>1 DEF Address
  <2>4. e = [type |-> e.type, tag |-> e.tag, vaddr |-> e.vaddr, paddr |-> e.paddr]
    BY <1>1 DEF PatchedEntry
  <2>5. Patched(e) = [type |-> e.type, tag |-> e.tag, vaddr |-> e.vaddr,
                      paddr |-> [page |-> frame, offset |-> e.vaddr.offset]]
    BY <2>2, <2>4
  <2>6. Patched(e) \in PatchedEntry /\ PaddrValid(Patched(e).paddr)
    BY <1>1, <2>1, <2>3, <2>5 DEF PatchedEntry, PaddrValid
  <2>7. TableAfter(e)[e.vaddr.page] # Absent
    BY <1>1, <1>3, <1>6, <2>1, PageFacts
  <2>8. ~ StatsFail(Patched(e))
    BY <1>1, <1>4, <2>5 DEF StatsFail
  <2> QED
    BY <1>3, <1>6, <2>5, <2>6, <2>7, <2>8 DEF Without
<1> QED
  BY <1>5, <1>6

\* The statistics count every entry, and among them those without a valid
\* address.
LEMMA StatsFacts ==
    ASSUME NEW stats \in [Counters -> Nat], NEW e
    PROVE  /\ UpdateStats(stats, e) \in [Counters -> Nat]
           /\ UpdateStats(stats, e)[<<"entries", "all">>] = stats[<<"entries", "all">>] + 1
           /\ UpdateStats(stats, e)[<<"entries", "invalid_paddr">>] =
                stats[<<"entries", "invalid_paddr">>]
                  + (IF PaddrValid(e.paddr) THEN 0 ELSE 1)
           /\ stats[<<"entries", "all">>] \in Nat
           /\ stats[<<"entries", "invalid_paddr">>] \in Nat
<1>1. <<"entries", "all">> \in Counters /\ <<"entries", "invalid_paddr">> \in Counters
  BY DEF Counters, Kinds
<1>2. UpdateStats(stats, e) =
        [c \in Counters |-> stats[c] + (IF c \in CountersOf(e) THEN 1 ELSE 0)]
  BY DEF UpdateStats
<1>3. "entries" \in KindsOf(e)
  BY DEF KindsOf
<1>4. <<"entries", "all">> \in CountersOf(e)
  BY <1>3 DEF CountersOf
<1>5. <<"entries", "invalid_paddr">> \in CountersOf(e) <=> ~ PaddrValid(e.paddr)
  BY <1>3 DEF CountersOf
<1> QED
  BY <1>1, <1>2, <1>4, <1>5

-----------------------------------------------------------------------------
(* Steps of the machine and of patch-paddrs *)

LEMMA InitPipeline == Init => IInv
<1> SUFFICES ASSUME Init PROVE IInv
  OBVIOUS
<1>1. Tables /\ States /\ PagesReal /\ MappedSeen /\ Waiting /\ Progress
  BY PageFacts DEF Init, PatchInit, ConvertInit, EmptyMap, PageMap, Tables, States, PagesReal,
     MappedSeen, Waiting, Progress
<1>2. Counts
  BY DEF Init, PatchInit, ConvertInit, NoStats, Counts
<1>3. <<"entries", "all">> \in Counters /\ <<"entries", "invalid_paddr">> \in Counters
  BY DEF Counters, Kinds
<1>4. Skipped
  BY <1>3 DEF Init, PatchInit, ConvertInit, NoStats, Skipped
<1>5. Between
  BY <1>3 DEF Init, PatchInit, ConvertInit, NoStats, Between, NumWaiting, NumPatched
<1> QED
  BY <1>1, <1>2, <1>4, <1>5 DEF IInv

\* What the reader sees stays as it is.
LEMMA QuietStream ==
    ASSUME InAccess \/ Between \/ Aborted,
           UNCHANGED <<variant, mapped, dbg_paddrs_invalid, drcachesim, convert_state,
                       stats_after, patched, converted, physical, tlb, tag, decoded,
                       num_decoded, complete>>
    PROVE  InAccess' \/ Between' \/ Aborted'
<1>1. InAccess => InAccess'
  BY DEF InAccess, Coming, Moves, Mapped, Rest, AccessEntry, NumPatched
<1>2. Between => Between'
  BY DEF Between, NumWaiting, NumPatched
<1>3. Aborted => Aborted'
  BY DEF Aborted
<1> QED
  BY <1>1, <1>2, <1>3

LEMMA RemapPipeline ==
    ASSUME IInv, NEW page \in VirtualPages, NEW frame \in MemoryPages \cup DevicePages,
           Remap(page, frame)
    PROVE  IInv'
<1>1. /\ mapping' = [mapping EXCEPT ![page] = frame] /\ remapped' = remapped \cup {page}
      /\ UNCHANGED <<patch_vars, convert_vars, patched, converted, reader_vars>>
  BY DEF Remap
<1>2. UNCHANGED <<page_table, dbg_pages_changed_mapping, dbg_pages_without_mapping,
                  dbg_num_addr_mapping_changes, stats_before, stats_after, patch_state,
                  variant, mapped, dbg_paddrs_invalid, drcachesim, convert_state, patched,
                  converted, physical, tlb, tag, decoded, num_decoded, complete>>
  BY <1>1 DEF patch_vars, convert_vars, reader_vars
<1>3. Tables'
  BY <1>1, <1>2 DEF IInv, Tables
<1>4. PagesReal'
  BY <1>1, <1>2 DEF IInv, PagesReal, Tables
<1>5. States' /\ Counts' /\ MappedSeen' /\ Progress' /\ Skipped'
  BY <1>2 DEF IInv, States, Counts, MappedSeen, Progress, Skipped
<1>6. Waiting'
  BY <1>2 DEF IInv, Waiting, Waits
<1> QED
  BY <1>2, <1>3, <1>4, <1>5, <1>6, QuietStream DEF IInv

LEMMA PatchStopsPipeline ==
    ASSUME IInv, PatchStops
    PROVE  IInv'
<1>1. /\ patch_state' \in {"done", "aborted"}
      /\ UNCHANGED <<page_table, dbg_pages_changed_mapping, dbg_pages_without_mapping,
                     dbg_num_addr_mapping_changes, stats_before, stats_after,
                     variant, mapped, dbg_paddrs_invalid, drcachesim, convert_state, patched,
                     converted, physical, tlb, tag, decoded, num_decoded, complete,
                     mapping, remapped>>
  BY DEF PatchStops, PatchEnds, PatchAborts, convert_vars, machine_vars, reader_vars
<1>2. Tables' /\ PagesReal' /\ States' /\ Counts' /\ MappedSeen' /\ Progress' /\ Skipped'
  BY <1>1 DEF IInv, Tables, PagesReal, States, Counts, MappedSeen, Progress, Skipped
<1>3. Waiting'
  BY <1>1 DEF IInv, Waiting, Waits
<1> QED
  BY <1>1, <1>2, <1>3, QuietStream DEF IInv

\* When the stages after it are idle, patch-paddrs has nothing before it.
LEMMA IdleFacts ==
    ASSUME IInv, Idle
    PROVE  patched = <<>> /\ drcachesim = <<>> /\ ~ InAccess
<1>1. ASSUME InAccess PROVE FALSE
  <2> DEFINE e == converted
  <2>1. TagEntries(e) = <<>> \/ TagEntries(e) = <<Marker("TAG_CHERI", e.tag)>>
    BY DEF TagEntries
  <2>2. Rest(e) # <<>>
    BY <2>1 DEF Rest
  <2>3. <<PhysicalOf(e), VirtualOf(e)>> \o Rest(e) # <<>>
    BY <2>1 DEF Rest
  <2>4. <<VirtualOf(e)>> \o Rest(e) # <<>>
    BY <2>1 DEF Rest
  <2> QED
    BY <1>1, <2>2, <2>3, <2>4 DEF InAccess, Coming, Idle
<1> QED
  BY <1>1 DEF Idle

LEMMA PatchEntryPipeline ==
    ASSUME IInv, NEW e \in Traced, PatchEntry(e)
    PROVE  IInv'
<1> DEFINE p == e.vaddr.page
<1>0. PICK out \in PatchedEntry : out = Patched(e)
  BY PatchFacts DEF PatchEntry, Patch, IInv
<1> DEFINE Valid == PaddrValid(out.paddr)
<1>1. /\ patch_state = "running" /\ ~ FailsBefore(e) /\ Idle
      /\ page_table' = TableAfter(e)
      /\ dbg_num_addr_mapping_changes' =
           dbg_num_addr_mapping_changes + (IF Changes(e) THEN 1 ELSE 0)
      /\ dbg_pages_changed_mapping' =
           dbg_pages_changed_mapping \cup (IF Changes(e) THEN {p} ELSE {})
      /\ dbg_pages_without_mapping' =
           dbg_pages_without_mapping \cup (IF Without(e) THEN {p} ELSE {})
      /\ stats_before' = UpdateStats(stats_before, e)
      /\ stats_after' = UpdateStats(stats_after, out)
      /\ patch_state' = IF StatsFail(out) THEN "aborted" ELSE "running"
      /\ patched' = Append(patched, out)
      /\ remapped' = IF PaddrValid(e.paddr) THEN remapped \ {p} ELSE remapped
      /\ converted' = Nothing /\ decoded' = Nothing
      /\ UNCHANGED <<convert_vars, mapping, physical, tlb, tag, num_decoded, complete>>
  BY <1>0 DEF PatchEntry, Patch
<1>2. UNCHANGED <<variant, mapped, dbg_paddrs_invalid, drcachesim, convert_state>>
  BY <1>1 DEF convert_vars
<1>3. /\ patched = <<>> /\ drcachesim = <<>>
      /\ Between \/ Aborted
      /\ convert_state # "header"
  BY <1>1, IdleFacts DEF IInv, Idle
<1>4. patched' = <<out>> /\ patched' # <<>> /\ Head(patched') = out
  BY <1>1, <1>3
<1>5. /\ p \in VirtualPages /\ e.vaddr \in Address(VirtualPages)
      /\ e.paddr = Zero \/ e.paddr = Translated(e.vaddr)
  BY <1>1, TracedFacts DEF IInv
<1>6. /\ out \in PatchedEntry /\ out.vaddr = e.vaddr
      /\ TableAfter(e) \in PageMap
      /\ \A page \in VirtualPages :
           TableAfter(e)[page] = IF page = p /\ PaddrValid(e.paddr)
                                   THEN e.paddr.page ELSE page_table[page]
      /\ Valid <=> TableAfter(e)[p] # Absent
      /\ Valid <=> ~ Without(e)
      /\ Valid => out.paddr.offset = out.vaddr.offset
      /\ ~ StatsFail(out)
  BY <1>0, <1>1, PatchFacts DEF IInv
<1>7. /\ stats_after' \in [Counters -> Nat]
      /\ NumPatched' = NumPatched + 1 /\ NumPatched \in Nat
      /\ stats_after'[<<"entries", "invalid_paddr">>] =
           stats_after[<<"entries", "invalid_paddr">>] + (IF Valid THEN 0 ELSE 1)
      /\ stats_after[<<"entries", "invalid_paddr">>] \in Nat
  BY <1>1, StatsFacts DEF IInv, Counts, NumPatched
<1>8. stats_before' \in [Counters -> Nat]
  BY <1>1, StatsFacts DEF IInv, Counts
<1> HIDE DEF Valid, p
<1>9. Tables'
  BY <1>1, <1>2, <1>6 DEF IInv, Tables
<1>10. States'
  BY <1>1, <1>2, <1>6 DEF IInv, States
<1>11. Counts'
  BY <1>1, <1>2, <1>5, <1>7, <1>8 DEF IInv, Counts
<1>12. PagesReal'
  <2> SUFFICES ASSUME NEW page \in VirtualPages, page \notin remapped',
                      page_table'[page] # Absent
               PROVE  page_table'[page] = mapping[page]
    BY <1>1 DEF PagesReal
  <2>1. CASE page = p /\ PaddrValid(e.paddr)
    <3>1. e.paddr.page = mapping[p]
      BY <1>5, <2>1, PageFacts DEF Translated, p
    <3> QED
      BY <1>1, <1>6, <2>1, <3>1
  <2>2. CASE ~ (page = p /\ PaddrValid(e.paddr))
    BY <1>1, <1>6, <2>2 DEF IInv, PagesReal
  <2> QED
    BY <2>1, <2>2
<1>13. MappedSeen'
  BY <1>1, <1>2, <1>6, PageFacts DEF IInv, MappedSeen, PaddrValid
<1>14. Waiting'
  <2>1. Waits(out)'
    BY <1>1, <1>2, <1>3, <1>6 DEF Waits, Valid, PaddrValid, p
  <2> QED
    BY <1>4, <1>6, <2>1 DEF Waiting
<1>15. Progress'
  BY <1>1, <1>2, <1>3, <1>6 DEF IInv, Progress
<1>16. Skipped'
  <2>1. dbg_paddrs_invalid' + (IF patched' # <<>> /\ ~ PaddrValid(Head(patched').paddr)
                                 THEN 1 ELSE 0)
          = stats_after'[<<"entries", "invalid_paddr">>]
    BY <1>2, <1>3, <1>4, <1>7 DEF IInv, Skipped, Counts, Valid, PaddrValid
  <2>2. stats_after'[<<"entries", "invalid_paddr">>] > 0 <=> dbg_pages_without_mapping' # {}
    BY <1>1, <1>6, <1>7 DEF IInv, Skipped
  <2> QED
    BY <2>1, <2>2 DEF Skipped, PaddrValid
<1>17. Between' \/ Aborted'
  <2>1. CASE Aborted
    BY <1>1, <1>2, <1>3, <2>1 DEF Aborted
  <2>2. CASE Between
    <3>0. NumWaiting = 0 /\ NumWaiting' = 1
      BY <1>3, <1>4 DEF NumWaiting
    <3>1. num_decoded' + dbg_paddrs_invalid' + NumWaiting' = NumPatched'
      BY <3>0, <1>1, <1>2, <1>3, <1>4, <1>7, <2>2 DEF Between, IInv, Counts
    <3>2. convert_state # "done"
      BY <1>1 DEF IInv, Progress
    <3> QED
      BY <1>1, <1>2, <2>2, <3>1, <3>2 DEF Between
  <2> QED
    BY <1>3, <2>1, <2>2
<1> QED
  BY <1>9, <1>10, <1>11, <1>12, <1>13, <1>14, <1>15, <1>16, <1>17 DEF IInv

-----------------------------------------------------------------------------
(* Steps of convert *)

TagOf(e) == Marker("TAG_CHERI", e.tag)

\* Short sequences, element by element.
LEMMA Triples ==
    ASSUME NEW a, NEW b, NEW c
    PROVE  /\ <<a>> \o <<b>> = <<a, b>>
           /\ <<a>> \o <<b, c>> = <<a, b, c>>
           /\ <<a, b>> \o <<c>> = <<a, b, c>>
<1> DEFINE S == {a, b, c}
<1>1. <<a>> \o <<b>> = <<a, b>>
  <2>1. <<a>> \in Seq(S) /\ <<b>> \in Seq(S) /\ <<a, b>> \in Seq(S)
    OBVIOUS
  <2>2. Len(<<a>> \o <<b>>) = 2 /\ Len(<<a, b>>) = 2 /\ <<a>> \o <<b>> \in Seq(S)
    BY <2>1
  <2>3. \A i \in 1 .. 2 : (<<a>> \o <<b>>)[i] = <<a, b>>[i]
    BY <2>1
  <2> QED
    BY <2>1, <2>2, <2>3, SeqEqual
<1>2. <<a>> \o <<b, c>> = <<a, b, c>>
  <2>1. <<a>> \in Seq(S) /\ <<b, c>> \in Seq(S) /\ <<a, b, c>> \in Seq(S)
    OBVIOUS
  <2>2. Len(<<a>> \o <<b, c>>) = 3 /\ Len(<<a, b, c>>) = 3 /\ <<a>> \o <<b, c>> \in Seq(S)
    BY <2>1
  <2>3. \A i \in 1 .. 3 : (<<a>> \o <<b, c>>)[i] = <<a, b, c>>[i]
    BY <2>1
  <2> QED
    BY <2>1, <2>2, <2>3, SeqEqual
<1>3. <<a, b>> \o <<c>> = <<a, b, c>>
  <2>1. <<a, b>> \in Seq(S) /\ <<c>> \in Seq(S) /\ <<a, b, c>> \in Seq(S)
    OBVIOUS
  <2>2. Len(<<a, b>> \o <<c>>) = 3 /\ Len(<<a, b, c>>) = 3 /\ <<a, b>> \o <<c>> \in Seq(S)
    BY <2>1
  <2>3. \A i \in 1 .. 3 : (<<a, b>> \o <<c>>)[i] = <<a, b, c>>[i]
    BY <2>1
  <2> QED
    BY <2>1, <2>2, <2>3, SeqEqual
<1> QED
  BY <1>1, <1>2, <1>3

LEMMA Quadruples ==
    ASSUME NEW a, NEW b, NEW c, NEW d
    PROVE  /\ <<a, b>> \o <<c, d>> = <<a, b, c, d>>
           /\ <<a, b, c>> \o <<d>> = <<a, b, c, d>>
<1> DEFINE S == {a, b, c, d}
<1>1. <<a, b>> \o <<c, d>> = <<a, b, c, d>>
  <2>1. <<a, b>> \in Seq(S) /\ <<c, d>> \in Seq(S) /\ <<a, b, c, d>> \in Seq(S)
    OBVIOUS
  <2>2. Len(<<a, b>> \o <<c, d>>) = 4 /\ Len(<<a, b, c, d>>) = 4 /\ <<a, b>> \o <<c, d>> \in Seq(S)
    BY <2>1
  <2>3. \A i \in 1 .. 4 : (<<a, b>> \o <<c, d>>)[i] = <<a, b, c, d>>[i]
    BY <2>1
  <2> QED
    BY <2>1, <2>2, <2>3, SeqEqual
<1>2. <<a, b, c>> \o <<d>> = <<a, b, c, d>>
  <2>1. <<a, b, c>> \in Seq(S) /\ <<d>> \in Seq(S) /\ <<a, b, c, d>> \in Seq(S)
    OBVIOUS
  <2>2. Len(<<a, b, c>> \o <<d>>) = 4 /\ Len(<<a, b, c, d>>) = 4 /\ <<a, b, c>> \o <<d>> \in Seq(S)
    BY <2>1
  <2>3. \A i \in 1 .. 4 : (<<a, b, c>> \o <<d>>)[i] = <<a, b, c, d>>[i]
    BY <2>1
  <2> QED
    BY <2>1, <2>2, <2>3, SeqEqual
<1> QED
  BY <1>1, <1>2

\* What is left of the entries for an access, one by one.
LEMMA RestForms ==
    ASSUME NEW e
    PROVE  LET P == PhysicalOf(e)
               V == VirtualOf(e)
               T == TagOf(e)
               A == AccessEntry(e)
           IN IF HasTag(e.type)
                THEN /\ TagEntries(e) = <<T>>
                     /\ Rest(e) = <<T, A>>
                     /\ <<V>> \o Rest(e) = <<V, T, A>>
                     /\ <<P, V>> \o Rest(e) = <<P, V, T, A>>
                     /\ (<<P, V>> \o TagEntries(e)) \o <<A>> = <<P, V, T, A>>
                     /\ (<<>> \o TagEntries(e)) \o <<A>> = <<T, A>>
                ELSE /\ TagEntries(e) = <<>>
                     /\ Rest(e) = <<A>>
                     /\ <<V>> \o Rest(e) = <<V, A>>
                     /\ <<P, V>> \o Rest(e) = <<P, V, A>>
                     /\ (<<P, V>> \o TagEntries(e)) \o <<A>> = <<P, V, A>>
                     /\ (<<>> \o TagEntries(e)) \o <<A>> = <<A>>
<1> DEFINE P == PhysicalOf(e)
           V == VirtualOf(e)
           T == TagOf(e)
           A == AccessEntry(e)
<1>1. CASE HasTag(e.type)
  <2>1. TagEntries(e) = <<T>>
    BY <1>1 DEF TagEntries, TagOf
  <2> HIDE DEF P, V, T, A
  <2>2. <<T>> \o <<A>> = <<T, A>>
    BY Triples, Zenon
  <2>3. <<V>> \o <<T, A>> = <<V, T, A>>
    BY Triples, Zenon
  <2>4. <<P, V>> \o <<T, A>> = <<P, V, T, A>>
    BY Quadruples, Zenon
  <2>5. <<P, V>> \o <<T>> = <<P, V, T>>
    BY Triples, Zenon
  <2>6. <<P, V, T>> \o <<A>> = <<P, V, T, A>>
    BY Quadruples, Zenon
  <2>7. <<>> \o <<T>> = <<T>>
    OBVIOUS
  <2>8. Rest(e) = <<T, A>>
    BY <2>1, <2>2 DEF Rest, A
  <2> QED
    BY <1>1, <2>1, <2>2, <2>3, <2>4, <2>5, <2>6, <2>7, <2>8 DEF P, V, T, A
<1>2. CASE ~ HasTag(e.type)
  <2>1. TagEntries(e) = <<>>
    BY <1>2 DEF TagEntries
  <2> HIDE DEF P, V, T, A
  <2>2. /\ <<V>> \o <<A>> = <<V, A>>
        /\ <<P, V>> \o <<A>> = <<P, V, A>>
    BY Triples, Zenon
  <2>3. <<P, V>> \o <<>> = <<P, V>> /\ <<>> \o <<>> = <<>> /\ <<>> \o <<A>> = <<A>>
    OBVIOUS
  <2>4. Rest(e) = <<A>>
    BY <2>1, <2>2 DEF Rest, A
  <2> QED
    BY <1>2, <2>1, <2>2, <2>3, <2>4 DEF P, V, T, A
<1> QED
  BY <1>1, <1>2

LEMMA SkipPipeline ==
    ASSUME IInv, ConvertEntry, Skip(Head(patched)), UNCHANGED converted
    PROVE  IInv'
<1>1. PICK e \in PatchedEntry : patched = <<e>> /\ Waits(e)
  BY DEF ConvertEntry, IInv, Waiting
<1>2. Head(patched) = e /\ Tail(patched) = <<>> /\ patched # <<>>
  BY <1>1
<1>3. /\ convert_state = "loop" /\ ~ PaddrValid(e.paddr)
      /\ dbg_paddrs_invalid' = dbg_paddrs_invalid + 1
      /\ patched' = <<>>
      /\ UNCHANGED <<patch_vars, machine_vars, reader_vars, variant, mapped, drcachesim,
                     convert_state, converted>>
  BY <1>2 DEF Skip, ConvertEntry
<1>4. UNCHANGED <<page_table, dbg_pages_changed_mapping, dbg_pages_without_mapping,
                  dbg_num_addr_mapping_changes, stats_before, stats_after, patch_state,
                  physical, tlb, tag, decoded, num_decoded, complete, mapping, remapped>>
  BY <1>3 DEF patch_vars, machine_vars, reader_vars
<1>5. Tables' /\ PagesReal' /\ MappedSeen' /\ States'
  BY <1>3, <1>4 DEF IInv, Tables, PagesReal, MappedSeen, States
<1>6. Counts' /\ Waiting' /\ Progress'
  BY <1>3, <1>4 DEF IInv, Counts, Waiting, Progress
<1>7. Skipped'
  <2>1. dbg_paddrs_invalid \in Nat
    BY DEF IInv, Counts
  <2>2. stats_after'[<<"entries", "invalid_paddr">>] = dbg_paddrs_invalid + 1
    BY <1>2, <1>3, <1>4 DEF IInv, Skipped
  <2>3. stats_after'[<<"entries", "invalid_paddr">>] > 0 <=> dbg_pages_without_mapping' # {}
    BY <1>4 DEF IInv, Skipped
  <2> QED
    BY <1>3, <2>1, <2>2, <2>3 DEF Skipped
<1>8. Between'
  <2>1. Between
    BY <1>1, <1>3, PageFacts DEF IInv, Waits, InAccess, Aborted
  <2>2. NumWaiting = 1 /\ NumWaiting' = 0
    BY <1>2, <1>3 DEF NumWaiting
  <2>3. num_decoded' + dbg_paddrs_invalid' + NumWaiting' = NumPatched'
    BY <1>3, <1>4, <2>1, <2>2 DEF Between, IInv, Counts, NumPatched
  <2> QED
    BY <1>3, <1>4, <2>1, <2>3 DEF Between
<1> QED
  BY <1>5, <1>6, <1>7, <1>8 DEF IInv

LEMMA ConvertPipeline ==
    ASSUME IInv, ConvertEntry, Convert(Head(patched)),
           converted' = IF TagFails(Head(patched)) THEN converted ELSE Head(patched)
    PROVE  IInv'
<1>1. PICK e \in PatchedEntry : patched = <<e>> /\ Waits(e)
  BY DEF ConvertEntry, IInv, Waiting
<1> DEFINE p == e.vaddr.page
           Moving == variant = "vaddr" /\ Remaps(e)
           Mapping == IF variant = "vaddr" THEN MappingEntries(e) ELSE <<>>
<1>2. Head(patched) = e /\ Tail(patched) = <<>> /\ patched # <<>>
  BY <1>1
<1>3. /\ convert_state = "loop" /\ PaddrValid(e.paddr)
      /\ drcachesim = <<>> /\ patched' = <<>>
      /\ mapped' = IF Moving THEN [mapped EXCEPT ![p] = e.paddr.page] ELSE mapped
      /\ IF TagFails(e)
           THEN drcachesim' = <<>> \o Mapping /\ convert_state' = "aborted"
           ELSE drcachesim' = <<>> \o TraceEntries(e) /\ convert_state' = convert_state
      /\ converted' = IF TagFails(e) THEN converted ELSE e
      /\ UNCHANGED <<patch_vars, machine_vars, reader_vars, variant, dbg_paddrs_invalid>>
  BY <1>2 DEF Convert, ConvertEntry
<1>4. UNCHANGED <<page_table, dbg_pages_changed_mapping, dbg_pages_without_mapping,
                  dbg_num_addr_mapping_changes, stats_before, stats_after, patch_state,
                  physical, tlb, tag, decoded, num_decoded, complete, mapping, remapped>>
  BY <1>3 DEF patch_vars, machine_vars, reader_vars
<1>5. /\ p \in VirtualPages /\ e.paddr.page \in MemoryPages
      /\ page_table[p] # Absent /\ converted = Nothing
      /\ e.paddr.offset = e.vaddr.offset
  BY <1>1, <1>3 DEF PatchedEntry, Address, PaddrValid, Waits
<1>6. Between
  BY <1>3, <1>5, PageFacts DEF IInv, InAccess, Aborted
<1>7. tlb = mapped /\ tag = Unknown /\ ~ complete
  BY <1>3, <1>6 DEF Between
<1>8. mapped \in PageMap
  BY DEF IInv, Tables
<1> DEFINE P == PhysicalOf(e)
           V == VirtualOf(e)
           A == AccessEntry(e)
<1>9. Mapping = IF Moving THEN <<P, V>> ELSE <<>>
  BY <1>3 DEF MappingEntries, Remaps, PhysicalOf, VirtualOf
<1>10. TraceEntries(e) = (Mapping \o TagEntries(e)) \o <<A>>
  BY DEF TraceEntries, AccessEntry
<1>11. variant' = variant /\ AccessEntry(e)' = A /\ Rest(e)' = Rest(e)
  BY <1>3 DEF AccessEntry, Rest
<1> HIDE DEF p, Moving, Mapping, P, V, A
<1>12. Tables' /\ States'
  <2>1. mapped' \in PageMap
    BY <1>3, <1>5, <1>8 DEF PageMap
  <2> QED
    BY <1>3, <1>4, <2>1 DEF IInv, Tables, States
<1>13. MappedSeen'
  BY <1>3, <1>4, <1>5, <1>8 DEF IInv, MappedSeen, PageMap
<1>14. PagesReal' /\ Counts' /\ Waiting' /\ Progress'
  BY <1>3, <1>4 DEF IInv, PagesReal, Counts, Waiting, Progress
<1>15. Skipped'
  BY <1>2, <1>3, <1>4 DEF IInv, Skipped
<1>16. CASE TagFails(e)
  <2>1. <<>> \o <<P, V>> = <<P, V>> /\ <<>> \o <<>> = <<>>
    OBVIOUS
  <2>2. drcachesim' = <<P, V>> \/ drcachesim' = <<>>
    BY <1>3, <1>9, <1>16, <2>1
  <2>3. Aborted'
    BY <1>3, <1>4, <1>5, <1>7, <1>16, <2>2 DEF Aborted, P, V, PaddrValid
  <2> QED
    BY <1>12, <1>13, <1>14, <1>15, <2>3 DEF IInv
<1>17. CASE ~ TagFails(e)
  <2>1. drcachesim' = <<>> \o TraceEntries(e)
    BY <1>3, <1>17
  <2>2. ASSUME Moving PROVE Coming(e)'
    <3>1. TraceEntries(e) = <<P, V>> \o Rest(e)
      BY <1>9, <1>10, <2>2, RestForms DEF P, V, A
    <3>2. <<P, V>> \o Rest(e) = <<P, V, TagOf(e), A>> \/ <<P, V>> \o Rest(e) = <<P, V, A>>
      BY RestForms DEF P, V, A
    <3>3. <<>> \o <<P, V, TagOf(e), A>> = <<P, V, TagOf(e), A>>
          /\ <<>> \o <<P, V, A>> = <<P, V, A>>
      OBVIOUS
    <3>4. drcachesim' = <<P, V>> \o Rest(e)
      BY <2>1, <3>1, <3>2, <3>3
    <3>5. Moves(e)'
      BY <1>3, <1>4, <1>7, <2>2 DEF Moves, Moving, p
    <3> QED
      BY <1>4, <1>7, <1>11, <3>4, <3>5 DEF Coming, P, V
  <2>3. ASSUME ~ Moving PROVE Coming(e)'
    <3>1. TraceEntries(e) = Rest(e)
      BY <1>9, <1>10, <2>3, RestForms DEF A
    <3>2. Rest(e) = <<TagOf(e), A>> \/ Rest(e) = <<A>>
      BY RestForms DEF A
    <3>3. <<>> \o <<TagOf(e), A>> = <<TagOf(e), A>> /\ <<>> \o <<A>> = <<A>>
      OBVIOUS
    <3>4. drcachesim' = Rest(e)
      BY <2>1, <3>1, <3>2, <3>3
    <3>5. Mapped(e)'
      BY <1>3, <1>4, <1>7, <2>3 DEF Mapped, Moving, Remaps, p
    <3> QED
      BY <1>4, <1>7, <1>11, <3>4, <3>5 DEF Coming
  <2>4. Coming(e)'
    BY <2>2, <2>3
  <2>5. NumWaiting = 1
    BY <1>2 DEF NumWaiting
  <2>6. num_decoded' + 1 + dbg_paddrs_invalid' = NumPatched'
    BY <1>3, <1>4, <1>6, <2>5 DEF Between, IInv, Counts, NumPatched
  <2>7. converted' = e
    BY <1>3, <1>17
  <2>8. InAccess'
    BY <1>3, <1>4, <1>5, <1>7, <1>17, <2>4, <2>6, <2>7 DEF InAccess, PaddrValid
  <2> QED
    BY <1>12, <1>13, <1>14, <1>15, <2>8 DEF IInv
<1> QED
  BY <1>16, <1>17

LEMMA FramePipeline ==
    ASSUME IInv, ConvertFrame
    PROVE  IInv'
<1>1. /\ drcachesim = <<>>
      /\ \/ /\ convert_state = "header" /\ convert_state' = "loop"
            /\ drcachesim' = <<>> \o Header
         \/ /\ convert_state = "loop" /\ convert_state' = "done"
            /\ patched = <<>> /\ patch_state # "running"
            /\ drcachesim' = <<>> \o Footer
      /\ UNCHANGED <<patch_vars, machine_vars, patched, converted, reader_vars, variant,
                     mapped, dbg_paddrs_invalid>>
  BY DEF ConvertFrame, WriteHeader, WriteFooter
<1>2. UNCHANGED <<page_table, dbg_pages_changed_mapping, dbg_pages_without_mapping,
                  dbg_num_addr_mapping_changes, stats_before, stats_after, patch_state,
                  physical, tlb, tag, decoded, num_decoded, complete, mapping, remapped>>
  BY <1>1 DEF patch_vars, machine_vars, reader_vars
<1>3. Header \in Seq([type : FrameTypes]) /\ <<>> \o Header = Header
  <2>1. Header \in Seq([type : FrameTypes])
    BY DEF Header, Record, FrameTypes
  <2> QED
    BY <2>1, ConcatEmptySeq
<1>4. <<>> \o Footer = Footer
  BY DEF Footer
<1>5. Between /\ ~ complete
  <2>1. ~ InAccess
    BY <1>1, IdleFacts DEF Idle, IInv, Progress, InAccess
  <2> QED
    BY <1>1, <2>1 DEF IInv, Aborted, Between
<1>6. Tables' /\ States' /\ Counts' /\ PagesReal' /\ MappedSeen' /\ Skipped' /\ Progress'
  BY <1>1, <1>2 DEF IInv, Tables, States, Counts, PagesReal, MappedSeen, Skipped, Progress
<1>7. Waiting'
  <2>1. patched = <<>>
    BY <1>1 DEF IInv, Progress
  <2> QED
    BY <1>1, <2>1 DEF Waiting
<1>8. Between'
  BY <1>1, <1>2, <1>3, <1>4, <1>5 DEF Between, NumWaiting, NumPatched
<1> QED
  BY <1>6, <1>7, <1>8 DEF IInv

-----------------------------------------------------------------------------
(* Steps of the reader *)

LEMMA Heads ==
    ASSUME NEW a, NEW b, NEW c, NEW d
    PROVE  /\ Head(<<a>>) = a /\ Tail(<<a>>) = <<>>
           /\ Head(<<a, b>>) = a /\ Tail(<<a, b>>) = <<b>>
           /\ Head(<<a, b, c>>) = a /\ Tail(<<a, b, c>>) = <<b, c>>
           /\ Head(<<a, b, c, d>>) = a /\ Tail(<<a, b, c, d>>) = <<b, c, d>>
OBVIOUS

\* What a step of the reader leaves alone.
ReadLeaves ==
    UNCHANGED <<page_table, dbg_pages_changed_mapping, dbg_pages_without_mapping,
                dbg_num_addr_mapping_changes, stats_before, stats_after, patch_state,
                variant, mapped, dbg_paddrs_invalid, convert_state, patched, converted,
                mapping, remapped>>

LEMMA ReadKeeps ==
    ASSUME IInv, Read
    PROVE  /\ ReadLeaves /\ patched = <<>>
           /\ PagesReal' /\ MappedSeen' /\ Waiting' /\ Progress' /\ Skipped'
           /\ num_decoded' \in Nat => Counts'
           /\ physical' \in MemoryPages \cup {Absent} /\ tlb' \in PageMap => Tables'
           /\ tag' \in {0, 1, Unknown} /\ decoded' \in Access \cup {Nothing}
                /\ complete' \in BOOLEAN => States'
<1>1. ReadLeaves /\ drcachesim # <<>>
  BY DEF ReadLeaves, Read, patch_vars, machine_vars
<1>2. patched = <<>>
  BY <1>1 DEF IInv, Waiting, Waits
<1>3. PagesReal' /\ MappedSeen' /\ Skipped' /\ Waiting'
  BY <1>1, <1>2 DEF ReadLeaves, IInv, PagesReal, MappedSeen, Skipped, Waiting
<1>4. Progress'
  BY <1>1 DEF ReadLeaves, IInv, Progress
<1>5. num_decoded' \in Nat => Counts'
  BY <1>1 DEF ReadLeaves, IInv, Counts
<1>6. physical' \in MemoryPages \cup {Absent} /\ tlb' \in PageMap => Tables'
  BY <1>1 DEF ReadLeaves, IInv, Tables
<1>7. tag' \in {0, 1, Unknown} /\ decoded' \in Access \cup {Nothing}
        /\ complete' \in BOOLEAN => States'
  BY <1>1 DEF ReadLeaves, IInv, States
<1> QED
  BY <1>1, <1>2, <1>3, <1>4, <1>5, <1>6, <1>7

LEMMA ReadBetween ==
    ASSUME IInv, Read, Between
    PROVE  IInv'
<1> DEFINE r == Head(drcachesim)
<1>1. /\ drcachesim # <<>> /\ drcachesim' = Tail(drcachesim)
      /\ ReadMapping(r) \/ ReadTag(r) \/ ReadAccess(r) \/ ReadFrame(r)
  BY DEF Read
<1>2. \/ /\ r \in [type : FrameTypes] /\ drcachesim' \in Seq([type : FrameTypes])
         /\ ~ complete /\ convert_state # "done"
      \/ /\ r = Record("FOOTER") /\ drcachesim' = <<>>
         /\ ~ complete /\ convert_state = "done"
  <2>1. CASE drcachesim \in Seq([type : FrameTypes]) /\ ~ complete /\ convert_state # "done"
    <3>1. ASSUME NEW S, drcachesim \in Seq(S)
          PROVE  Head(drcachesim) \in S /\ Tail(drcachesim) \in Seq(S)
      BY <1>1, <3>1
    <3> QED
      BY <1>1, <2>1, <3>1
  <2>2. CASE drcachesim = Footer /\ ~ complete /\ convert_state = "done"
    BY <1>1, <2>2, Heads DEF Footer
  <2> QED
    BY <1>1, <2>1, <2>2 DEF Between
<1> HIDE DEF r
<1>3. /\ r.type \in FrameTypes \cup {"FOOTER"}
      /\ r.type = "FOOTER" => convert_state = "done" /\ drcachesim' = <<>>
      /\ r.type \in FrameTypes =>
           drcachesim' \in Seq([type : FrameTypes]) /\ convert_state # "done"
      /\ ~ complete
  BY <1>2 DEF FrameTypes, Record
<1>4. ReadFrame(r)
  BY <1>1, <1>3 DEF ReadMapping, ReadTag, ReadAccess, FrameTypes
<1>5. /\ complete' = (complete \/ r.type = "FOOTER")
      /\ UNCHANGED <<physical, tlb, tag, decoded, num_decoded>>
  BY <1>4 DEF ReadFrame
<1>6. Between'
  <2>1. ReadLeaves
    BY ReadKeeps
  <2> QED
    BY <1>3, <1>5, <2>1 DEF Between, ReadLeaves, NumWaiting, NumPatched, FrameTypes
<1>7. Tables' /\ States' /\ Counts'
  BY <1>5, ReadKeeps DEF IInv, Tables, States, Counts
<1> QED
  BY <1>6, <1>7, ReadKeeps DEF IInv

LEMMA ReadAborted ==
    ASSUME IInv, Read, Aborted
    PROVE  IInv'
<1> DEFINE r == Head(drcachesim)
<1>1. /\ drcachesim # <<>> /\ drcachesim' = Tail(drcachesim)
      /\ ReadMapping(r) \/ ReadTag(r) \/ ReadAccess(r) \/ ReadFrame(r)
  BY DEF Read
<1>2. PICK e \in PatchedEntry :
        /\ PaddrValid(e.paddr)
        /\ drcachesim \in {<<PhysicalOf(e), VirtualOf(e)>>, <<VirtualOf(e)>>}
  BY <1>1 DEF Aborted
<1>3. \/ r = PhysicalOf(e) /\ drcachesim' = <<VirtualOf(e)>>
      \/ r = VirtualOf(e) /\ drcachesim' = <<>>
  <2>1. CASE drcachesim = <<PhysicalOf(e), VirtualOf(e)>>
    BY <1>1, <2>1, Heads, Zenon
  <2>2. CASE drcachesim = <<VirtualOf(e)>>
    BY <1>1, <2>2, Heads, Zenon
  <2> QED
    BY <1>2, <2>1, <2>2
<1> HIDE DEF r
<1>4. ReadMapping(r)
  BY <1>1, <1>3 DEF ReadTag, ReadAccess, ReadFrame, PhysicalOf, VirtualOf, Marker
<1>5. /\ UNCHANGED <<tag, decoded, num_decoded, complete>>
      /\ \/ physical' = r.value.page /\ r = PhysicalOf(e) /\ tlb' = tlb
         \/ physical' = physical /\ r = VirtualOf(e)
            /\ tlb' = [tlb EXCEPT ![r.value.page] = physical]
  BY <1>3, <1>4 DEF ReadMapping, PhysicalOf, VirtualOf, Marker
<1>6. e.paddr.page \in MemoryPages /\ e.vaddr.page \in VirtualPages
  BY <1>2 DEF PaddrValid, PatchedEntry, Address
<1>7. physical' \in MemoryPages \cup {Absent} /\ tlb' \in PageMap
  BY <1>5, <1>6 DEF PhysicalOf, VirtualOf, Marker, IInv, Tables, PageMap
<1>8. Tables' /\ States' /\ Counts'
  BY <1>5, <1>7, ReadKeeps DEF IInv, Tables, States, Counts
<1>9. Aborted'
  <2>1. ReadLeaves
    BY ReadKeeps
  <2> QED
    BY <1>2, <1>3, <1>5, <2>1 DEF Aborted, ReadLeaves, PaddrValid
<1> QED
  BY <1>8, <1>9, ReadKeeps DEF IInv

\* The reader takes them one by one.
LEMMA RestSteps ==
    ASSUME NEW e
    PROVE  /\ Head(<<PhysicalOf(e), VirtualOf(e)>> \o Rest(e)) = PhysicalOf(e)
           /\ Tail(<<PhysicalOf(e), VirtualOf(e)>> \o Rest(e)) = <<VirtualOf(e)>> \o Rest(e)
           /\ Head(<<VirtualOf(e)>> \o Rest(e)) = VirtualOf(e)
           /\ Tail(<<VirtualOf(e)>> \o Rest(e)) = Rest(e)
           /\ HasTag(e.type) => Head(Rest(e)) = TagOf(e) /\ Tail(Rest(e)) = <<AccessEntry(e)>>
           /\ ~ HasTag(e.type) => Rest(e) = <<AccessEntry(e)>>
<1> DEFINE P == PhysicalOf(e)
           V == VirtualOf(e)
           T == TagOf(e)
           A == AccessEntry(e)
           R == Rest(e)
           Tagged == HasTag(e.type)
<1>1. CASE Tagged
  <2>1. R = <<T, A>> /\ <<V>> \o R = <<V, T, A>> /\ <<P, V>> \o R = <<P, V, T, A>>
    BY <1>1, RestForms
  <2> HIDE DEF P, V, T, A, R
  <2>2. Head(<<P, V, T, A>>) = P /\ Tail(<<P, V, T, A>>) = <<V, T, A>>
        /\ Head(<<V, T, A>>) = V /\ Tail(<<V, T, A>>) = <<T, A>>
        /\ Head(<<T, A>>) = T /\ Tail(<<T, A>>) = <<A>>
    OBVIOUS
  <2>3. /\ Head(<<P, V>> \o R) = P /\ Tail(<<P, V>> \o R) = <<V>> \o R
        /\ Head(<<V>> \o R) = V /\ Tail(<<V>> \o R) = R
        /\ Head(R) = T /\ Tail(R) = <<A>>
    BY <2>1, <2>2, Zenon
  <2> QED
    BY <1>1, <2>3 DEF P, V, T, A, R
<1>2. CASE ~ Tagged
  <2>1. R = <<A>> /\ <<V>> \o R = <<V, A>> /\ <<P, V>> \o R = <<P, V, A>>
    BY <1>2, RestForms
  <2> HIDE DEF P, V, T, A, R
  <2>2. Head(<<P, V, A>>) = P /\ Tail(<<P, V, A>>) = <<V, A>>
        /\ Head(<<V, A>>) = V /\ Tail(<<V, A>>) = <<A>>
    OBVIOUS
  <2>3. /\ Head(<<P, V>> \o R) = P /\ Tail(<<P, V>> \o R) = <<V>> \o R
        /\ Head(<<V>> \o R) = V /\ Tail(<<V>> \o R) = R
    BY <2>1, <2>2, Zenon
  <2> QED
    BY <1>2, <2>1, <2>3 DEF P, V, T, A, R
<1> QED
  BY <1>1, <1>2

LEMMA ReadInAccess ==
    ASSUME IInv, Read, InAccess
    PROVE  IInv'
<1> DEFINE r == Head(drcachesim)
<1>1. /\ drcachesim # <<>> /\ drcachesim' = Tail(drcachesim)
      /\ ReadMapping(r) \/ ReadTag(r) \/ ReadAccess(r) \/ ReadFrame(r)
  BY DEF Read
<1>2. PICK e \in PatchedEntry : e = converted
  BY DEF InAccess
<1> DEFINE p == e.vaddr.page
           P == PhysicalOf(e)
           V == VirtualOf(e)
           T == TagOf(e)
           A == AccessEntry(e)
<1>3. /\ PaddrValid(e.paddr) /\ e.paddr.offset = e.vaddr.offset
      /\ Coming(e) /\ convert_state = "loop" /\ ~ complete
      /\ num_decoded + 1 + dbg_paddrs_invalid = NumPatched
  BY <1>2 DEF InAccess
<1>4. ReadLeaves /\ patched = <<>>
  BY ReadKeeps
<1>5. /\ converted' = e /\ variant' = variant /\ NumPatched' = NumPatched
      /\ Rest(e)' = Rest(e) /\ AccessEntry(e)' = A
      /\ UNCHANGED <<mapped, dbg_paddrs_invalid, convert_state>>
  BY <1>2, <1>4 DEF ReadLeaves, Rest, AccessEntry, NumPatched
<1>6. /\ p \in VirtualPages /\ e.paddr.page \in MemoryPages /\ e.type \in Types
      /\ e.tag \in {0, 1} /\ e.paddr \in Address(MemoryPages)
      /\ e.paddr = [page |-> e.paddr.page, offset |-> e.paddr.offset]
  BY <1>3, PageFacts DEF PaddrValid, PatchedEntry, Address
<1>7. /\ AccessOf(e).tag = IF HasTag(e.type) THEN e.tag ELSE Unknown
      /\ A.type = DrcachesimType(e.type)
      /\ DrcachesimType(e.type) \in {"INSTR", "READ", "WRITE"}
  BY DEF AccessOf, AccessEntry, Marker, DrcachesimType
<1>8. /\ P.type = "PHYSICAL_ADDRESS" /\ P.value = e.paddr
      /\ V.type = "VIRTUAL_ADDRESS" /\ V.value = e.vaddr
      /\ T.type = "TAG_CHERI" /\ T.value = e.tag
      /\ A.value = IF variant = "vaddr" THEN e.vaddr ELSE e.paddr
  BY DEF PhysicalOf, VirtualOf, TagOf, AccessEntry, Marker
<1>9. tlb \in PageMap /\ physical \in MemoryPages \cup {Absent} /\ num_decoded \in Nat
      /\ dbg_paddrs_invalid \in Nat /\ decoded \in Access \cup {Nothing}
      /\ complete \in BOOLEAN
  BY DEF IInv, Tables, States, Counts
\* In the middle of the entries of an access.
<1>10. ASSUME Coming(e)', UNCHANGED <<num_decoded, decoded, complete>>,
              tag' \in {0, 1, Unknown}, tlb' \in PageMap,
              physical' \in MemoryPages \cup {Absent}
       PROVE  IInv'
  <2>1. Coming(converted)'
    BY <1>5, <1>10 DEF Coming, Rest, AccessEntry, AccessOf, Moves, Mapped
  <2>2. InAccess'
    BY <1>3, <1>5, <1>10, <2>1 DEF InAccess, PaddrValid
  <2>3. Tables' /\ States' /\ Counts'
    BY <1>3, <1>9, <1>10, ReadKeeps
  <2> QED
    BY <2>2, <2>3, ReadKeeps DEF IInv
<1> DEFINE R == Rest(e)
<1>11. /\ Head(<<P, V>> \o R) = P /\ Tail(<<P, V>> \o R) = <<V>> \o R
       /\ Head(<<V>> \o R) = V /\ Tail(<<V>> \o R) = R
       /\ HasTag(e.type) => Head(R) = T /\ Tail(R) = <<A>>
       /\ ~ HasTag(e.type) => R = <<A>>
  BY RestSteps
<1>12. r = Head(drcachesim)
  OBVIOUS
<1> HIDE DEF r, p, P, V, T, A, R
<1>13. CASE drcachesim = <<P, V>> \o R /\ tag = Unknown /\ Moves(e)
  <2>1. r = P /\ drcachesim' = <<V>> \o R
    BY <1>1, <1>11, <1>12, <1>13, Zenon
  <2>2. ReadMapping(r)
    BY <1>1, <1>8, <2>1 DEF ReadTag, ReadAccess, ReadFrame
  <2>3. physical' = e.paddr.page /\ UNCHANGED <<tlb, tag, decoded, num_decoded, complete>>
    BY <1>8, <2>1, <2>2 DEF ReadMapping
  <2>4. Coming(e)'
    BY <1>5, <1>13, <2>1, <2>3 DEF Coming, Moves, V, R
  <2> QED
    BY <1>6, <1>9, <1>10, <1>13, <2>3, <2>4
<1>14. CASE /\ drcachesim = <<V>> \o R /\ tag = Unknown /\ Moves(e)
            /\ physical = e.paddr.page
  <2>1. r = V /\ drcachesim' = R
    BY <1>1, <1>11, <1>12, <1>14, Zenon
  <2>2. ReadMapping(r)
    BY <1>1, <1>8, <2>1 DEF ReadTag, ReadAccess, ReadFrame
  <2>3. /\ tlb' = [tlb EXCEPT ![p] = e.paddr.page]
        /\ UNCHANGED <<physical, tag, decoded, num_decoded, complete>>
    BY <1>8, <1>14, <2>1, <2>2 DEF ReadMapping, p
  <2>4. tlb' = mapped /\ tlb' \in PageMap /\ mapped[p] = e.paddr.page
    BY <1>6, <1>9, <1>14, <2>3 DEF Moves, PageMap, p
  <2>5. Coming(e)'
    BY <1>5, <1>14, <2>1, <2>3, <2>4 DEF Coming, Mapped, p, R
  <2> QED
    BY <1>9, <1>10, <1>14, <2>3, <2>4, <2>5
<1>15. CASE drcachesim = R /\ tag = Unknown /\ Mapped(e) /\ HasTag(e.type)
  <2>1. r = T /\ drcachesim' = <<A>>
    BY <1>1, <1>11, <1>12, <1>15, Zenon
  <2>2. ReadTag(r)
    BY <1>1, <1>8, <2>1 DEF ReadMapping, ReadTag, ReadAccess, ReadFrame
  <2>3. tag' = e.tag /\ UNCHANGED <<physical, tlb, decoded, num_decoded, complete>>
    BY <1>8, <2>1, <2>2 DEF ReadTag
  <2>4. AccessOf(e)' = AccessOf(e) /\ Mapped(e)'
    BY <1>5, <1>15, <2>3 DEF AccessOf, Mapped
  <2>5. Coming(e)'
    BY <1>5, <1>7, <1>15, <2>1, <2>3, <2>4 DEF Coming
  <2> QED
    BY <1>6, <1>9, <1>10, <2>3, <2>5
<1>16. ASSUME drcachesim = <<A>>, tag = AccessOf(e).tag, Mapped(e)
       PROVE  IInv'
  <2>1. r = A /\ drcachesim' = <<>>
    BY <1>1, <1>12, <1>16, Heads, Zenon
  <2>2. ReadAccess(r)
    BY <1>1, <1>7, <1>8, <2>1 DEF ReadMapping, ReadTag, ReadAccess, ReadFrame
  <2>3. /\ decoded' = [type |-> A.type, tag |-> tag,
                       paddr |-> IF variant = "paddr" THEN A.value
                                 ELSE [page |-> tlb[A.value.page], offset |-> A.value.offset]]
        /\ num_decoded' = num_decoded + 1 /\ tag' = Unknown
        /\ UNCHANGED <<physical, tlb, complete>>
    BY <2>1, <2>2 DEF ReadAccess
  <2>4. variant \in {"vaddr", "paddr"}
    BY DEF IInv, States
  <2>5. (IF variant = "paddr" THEN A.value
         ELSE [page |-> tlb[A.value.page], offset |-> A.value.offset]) = e.paddr
    BY <1>3, <1>6, <1>8, <1>16, <2>4 DEF Mapped
  <2>6. decoded' = AccessOf(e)
    BY <1>7, <1>16, <2>3, <2>5 DEF AccessOf
  <2>7. AccessOf(e) \in Access
    BY <1>6, <1>7 DEF AccessOf, Access
  <2>8. Between'
    <3>1. AccessOf(converted)' = AccessOf(e)
      BY <1>5 DEF AccessOf
    <3>2. num_decoded' + dbg_paddrs_invalid' + NumWaiting' = NumPatched'
      BY <1>3, <1>4, <1>5, <1>9, <2>3 DEF NumWaiting, ReadLeaves
    <3>3. <<>> \in Seq([type : FrameTypes])
      OBVIOUS
    <3> QED
      BY <1>3, <1>5, <1>16, <2>1, <2>3, <2>6, <3>1, <3>2, <3>3 DEF Between, Mapped
  <2>9. Tables' /\ States' /\ Counts'
    BY <1>3, <1>9, <2>3, <2>6, <2>7, ReadKeeps
  <2> QED
    BY <2>8, <2>9, ReadKeeps DEF IInv
<1>17. CASE drcachesim = R /\ tag = Unknown /\ Mapped(e) /\ ~ HasTag(e.type)
  <2>1. drcachesim = <<A>> /\ tag = AccessOf(e).tag /\ Mapped(e)
    BY <1>7, <1>11, <1>17
  <2> QED
    BY <1>16, <2>1
<1> QED
  BY <1>3, <1>13, <1>14, <1>15, <1>16, <1>17 DEF Coming, P, V, A, R

-----------------------------------------------------------------------------
(* The specification *)

LEMMA NextPipeline == IInv /\ [Next]_vars => IInv'
<1> SUFFICES ASSUME IInv, [Next]_vars PROVE IInv'
  OBVIOUS
<1>1. ASSUME NEW page \in VirtualPages, NEW frame \in MemoryPages \cup DevicePages,
             Remap(page, frame)
      PROVE  IInv'
  BY <1>1, RemapPipeline
<1>2. ASSUME NEW e \in Traced, PatchEntry(e) PROVE IInv'
  BY <1>2, PatchEntryPipeline
<1>3. CASE PatchStops
  BY <1>3, PatchStopsPipeline
<1>4. CASE ConvertEntry
  <2>1. \/ Skip(Head(patched)) /\ UNCHANGED converted
        \/ /\ Convert(Head(patched))
           /\ converted' = IF TagFails(Head(patched)) THEN converted ELSE Head(patched)
    BY <1>4 DEF ConvertEntry
  <2> QED
    BY <1>4, <2>1, SkipPipeline, ConvertPipeline
<1>5. CASE ConvertFrame
  BY <1>5, FramePipeline
<1>6. CASE Read
  BY <1>6, ReadInAccess, ReadBetween, ReadAborted DEF IInv
<1>7. CASE UNCHANGED vars
  <2>1. UNCHANGED <<page_table, dbg_pages_changed_mapping, dbg_pages_without_mapping,
                    dbg_num_addr_mapping_changes, stats_before, stats_after, patch_state,
                    variant, mapped, dbg_paddrs_invalid, drcachesim, convert_state,
                    mapping, remapped, patched, converted, physical, tlb, tag, decoded,
                    num_decoded, complete>>
    BY <1>7 DEF vars, patch_vars, convert_vars, machine_vars, reader_vars
  <2>2. Tables' /\ PagesReal' /\ States' /\ Counts' /\ MappedSeen' /\ Progress' /\ Skipped'
    BY <2>1 DEF IInv, Tables, PagesReal, States, Counts, MappedSeen, Progress, Skipped
  <2>3. Waiting'
    BY <2>1 DEF IInv, Waiting, Waits
  <2> QED
    BY <2>1, <2>2, <2>3, QuietStream DEF IInv
<1> QED
  BY <1>1, <1>2, <1>3, <1>4, <1>5, <1>6, <1>7 DEF Next

\* What is left in the file, and the tables, are as IInv says in every state.
THEOREM PipelineInvariance == Spec => []IInv
<1>1. Init => IInv
  BY InitPipeline
<1>2. IInv /\ [Next]_vars => IInv'
  BY NextPipeline
<1> QED
  BY <1>1, <1>2, PTL DEF Spec

LEMMA WaitingSeq ==
    ASSUME Waiting
    PROVE  patched \in Seq(PatchedEntry) /\ Len(patched) <= 1
<1>1. CASE patched = <<>>
  BY <1>1
<1>2. CASE patched # <<>>
  <2>1. PICK e \in PatchedEntry : patched = <<e>>
    BY <1>2 DEF Waiting
  <2> HIDE DEF PatchedEntry
  <2> QED
    BY <2>1
<1> QED
  BY <1>1, <1>2

\* Every table, counter and entry has its type, and at most one entry waits
\* between the commands (patch_paddrs and convert_drcachesim_*, with the
\* reader of the file).
THEOREM PipelineTypes == Spec => []TypeOK
<1>1. ASSUME IInv PROVE TypeOK
  <2>1. patched \in Seq(PatchedEntry) /\ Len(patched) <= 1
    BY <1>1, WaitingSeq DEF IInv
  <2> QED
    BY <1>1, <2>1 DEF IInv, Tables, States, Counts, TypeOK
<1> QED
  BY <1>1, PipelineInvariance, PTL

\* The reader gets every converted entry as it was: its kind, its physical
\* address through the mapping markers, and its tag (the entries that
\* write_drcachesim_trace_entry_vaddr and _paddr emit, in their order).
THEOREM ReaderDecodes == Spec => []DecodedIsConverted
<1>1. ASSUME IInv PROVE DecodedIsConverted
  <2> SUFFICES ASSUME drcachesim = <<>>, converted # Nothing
               PROVE  decoded = AccessOf(converted)
    BY DEF DecodedIsConverted
  <2>1. convert_state # "header"
    BY <1>1 DEF IInv, Progress
  <2>2. patched = <<>>
    BY <1>1 DEF IInv, Waiting, Waits
  <2>3. ~ InAccess
    BY <1>1, <2>1, <2>2, IdleFacts DEF Idle
  <2>4. Between
    BY <1>1, <2>3 DEF IInv, Aborted
  <2> QED
    BY <2>4 DEF Between
<1> QED
  BY <1>1, PipelineInvariance, PTL

\* The statistics that patch-paddrs prints of its output are those of what
\* the convert commands read: what they skip and what the reader gets.
THEOREM SkippedAreCounted == Spec => []SkippedAreReported
<1>1. ASSUME IInv PROVE SkippedAreReported
  <2>1. /\ dbg_paddrs_invalid \in Nat /\ num_decoded \in Nat
        /\ stats_after[<<"entries", "invalid_paddr">>] =
             dbg_paddrs_invalid + (IF patched # <<>> /\ ~ PaddrValid(Head(patched).paddr)
                                     THEN 1 ELSE 0)
        /\ stats_after[<<"entries", "invalid_paddr">>] > 0 <=> dbg_pages_without_mapping # {}
    BY <1>1 DEF IInv, Counts, Skipped
  <2>2. ASSUME complete
        PROVE  num_decoded + stats_after[<<"entries", "invalid_paddr">>] =
                 stats_after[<<"entries", "all">>]
    <3>1. Between /\ convert_state = "done"
      BY <1>1, <2>2 DEF IInv, InAccess, Aborted, Between
    <3>2. patched = <<>>
      BY <1>1, <3>1 DEF IInv, Progress
    <3> QED
      BY <2>1, <3>1, <3>2 DEF Between, NumWaiting, NumPatched
  <2> QED
    BY <2>1, <2>2 DEF SkippedAreReported
<1> QED
  BY <1>1, PipelineInvariance, PTL

\* patch_paddrs fills in the address the machine used, unless the page was
\* moved after its last valid entry.
THEOREM PatchedIsReal == Spec => PatchedPaddrsAreReal
<1> DEFINE Fills ==
        Len(patched') > Len(patched) =>
          LET e == patched'[Len(patched')] IN
            /\ PaddrValid(e.paddr)
            /\ e.vaddr.page \notin remapped
            => e.paddr = Translated(e.vaddr)
<1>1. IInv /\ [Next]_vars => [Fills]_vars
  <2> SUFFICES ASSUME IInv, Next PROVE Fills
    OBVIOUS
  <2>1. ASSUME NEW e \in Traced, PatchEntry(e) PROVE Fills
    <3>1. patched' = <<Patched(e)>> /\ ~ FailsBefore(e)
      BY <2>1, IdleFacts DEF PatchEntry, Patch
    <3>2. /\ e.vaddr.page \in VirtualPages
          /\ e.paddr = Zero \/ e.paddr = Translated(e.vaddr)
      BY <3>1, TracedFacts DEF IInv
    <3>3. Patched(e).vaddr = e.vaddr /\ Patched(e) \in PatchedEntry
      BY <3>1, PatchFacts DEF IInv
    <3>4. ASSUME PaddrValid(Patched(e).paddr), e.vaddr.page \notin remapped
          PROVE  Patched(e).paddr = Translated(e.vaddr)
      <4>1. CASE PaddrValid(e.paddr) \/ ~ Known(e)
        BY <3>2, <3>4, <4>1, PageFacts DEF Patched
      <4>2. CASE ~ PaddrValid(e.paddr) /\ Known(e)
        <5>1. Patched(e) = [e EXCEPT !.paddr = [page |-> page_table[e.vaddr.page],
                                                offset |-> e.vaddr.offset]]
          BY <4>2 DEF Patched
        <5>2. e \in PatchedEntry
          BY <3>1, TracedFacts DEF IInv
        <5>3. page_table[e.vaddr.page] = mapping[e.vaddr.page]
          BY <3>2, <3>4, <4>2 DEF IInv, PagesReal, Known
        <5> QED
          BY <5>1, <5>2, <5>3 DEF Translated, PatchedEntry
      <4> QED
        BY <4>1, <4>2
    <3>5. Len(patched') = 1 /\ patched'[Len(patched')] = Patched(e)
      BY <3>1
    <3> QED
      BY <3>3, <3>4, <3>5
  <2>2. ASSUME patched' = patched \/ (patched # <<>> /\ patched' = Tail(patched))
        PROVE  Fills
    <3>1. patched \in Seq(PatchedEntry)
      BY WaitingSeq DEF IInv
    <3>2. Len(patched') <= Len(patched) /\ Len(patched) \in Nat /\ Len(patched') \in Nat
      BY <2>2, <3>1
    <3> QED
      BY <3>2
  <2>3. \/ \E e \in Traced : PatchEntry(e)
        \/ patched' = patched
        \/ patched # <<>> /\ patched' = Tail(patched)
    BY DEF Next, Remap, PatchStops, ConvertEntry, ConvertFrame, Read
  <2> QED
    BY <2>1, <2>2, <2>3
<1> QED
  BY <1>1, PipelineInvariance, PTL DEF Spec, PatchedPaddrsAreReal

\* convert_drcachesim skips no entry of a page it has written a mapping for.
THEOREM SkippedAreUnknown == Spec => SkippedPagesUnknown
<1>1. IInv /\ [Next]_vars =>
        [dbg_paddrs_invalid' # dbg_paddrs_invalid =>
           mapped[Head(patched).vaddr.page] = Absent]_vars
  <2> SUFFICES ASSUME IInv, Next, dbg_paddrs_invalid' # dbg_paddrs_invalid
               PROVE  mapped[Head(patched).vaddr.page] = Absent
    OBVIOUS
  <2>1. ConvertEntry /\ Skip(Head(patched))
    BY DEF Next, Remap, PatchEntry, PatchStops, ConvertEntry, ConvertFrame, Read, Convert,
       WriteHeader, WriteFooter, convert_vars
  <2>2. PICK e \in PatchedEntry : patched = <<e>> /\ Waits(e)
    BY <2>1 DEF ConvertEntry, IInv, Waiting
  <2>3. Head(patched) = e /\ ~ PaddrValid(e.paddr)
    BY <2>1, <2>2 DEF Skip
  <2>4. page_table[e.vaddr.page] = Absent
    BY <2>2, <2>3 DEF Waits
  <2>5. e.vaddr \in Address(VirtualPages)
    BY DEF PatchedEntry
  <2>6. e.vaddr.page \in VirtualPages
    BY <2>5 DEF Address
  <2> QED
    BY <2>3, <2>4, <2>6 DEF IInv, MappedSeen
<1> QED
  BY <1>1, PipelineInvariance, PTL DEF Spec, SkippedPagesUnknown

=============================================================================
