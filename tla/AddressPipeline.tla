--------------------------- MODULE AddressPipeline ---------------------------
(***************************************************************************)
(* patch-paddrs and then convert-drcachesim on the trace of a machine that *)
(* moves its pages, up to the simulator that reads the file.  The machine  *)
(* and the tracer, and the reader of the file, are not in this repository. *)
(* What a command writes depends on its input and not on when it is read:  *)
(* a stage goes on when those after it have nothing left to read.          *)
(***************************************************************************)
EXTENDS PatchPaddrs, Drcachesim

CONSTANTS TracedTypes,  \* types of the entries of the trace
          MaxEntries    \* bound: entries of the trace

ASSUME PipelineAssumption == TracedTypes \subseteq Types /\ MaxEntries \in Nat

VARIABLES
  mapping,      \* virtual page -> physical page, in the machine
  remapped,     \* pages whose mapping is not that of their last valid entry
  patched,      \* entries patch-paddrs has written and no one has read
  converted,    \* the last entry of patched, when it was converted
  physical,     \* of the reader: the page the last marker named
  tlb,          \* its page table
  tag,          \* what the last marker said of the next access
  decoded,      \* the access it has read since
  num_decoded,
  complete      \* it has come to the footer

machine_vars == <<mapping, remapped>>
reader_vars == <<physical, tlb, tag, decoded, num_decoded, complete>>
vars == <<patch_vars, convert_vars, machine_vars, patched, converted, reader_vars>>

\* What patch-paddrs writes.
PatchedEntry == [type : Types, tag : {0, 1}, vaddr : Address(VirtualPages),
                 paddr : Address(MemoryPages \cup DevicePages) \cup {Zero}]

Unknown == -1
Nothing == [type |-> "none"]

Init ==
    /\ PatchInit
    /\ ConvertInit
    /\ mapping \in [VirtualPages -> MemoryPages \cup DevicePages]
    /\ remapped = {}
    /\ patched = <<>>
    /\ converted = Nothing
    /\ physical = Absent
    /\ tlb = EmptyMap
    /\ tag = Unknown
    /\ decoded = Nothing
    /\ num_decoded = 0
    /\ complete = FALSE

Idle == patched = <<>> /\ drcachesim = <<>> /\ convert_state # "header"

\* The operating system moves a page.
Remap(page, frame) ==
    /\ Idle
    /\ patch_state = "running"
    /\ mapping' = [mapping EXCEPT ![page] = frame]
    /\ mapping[page] # frame
    /\ remapped' = remapped \cup {page}
    /\ UNCHANGED <<patch_vars, convert_vars, patched, converted, reader_vars>>

Translated(vaddr) == [page |-> mapping[vaddr.page], offset |-> vaddr.offset]

\* An access of the machine; the tracer may not know its physical address.
\* A damaged trace has an access to address 0, or a tag where there is none.
TracedAs(vaddr) ==
    IF vaddr = Zero THEN {Zero} \cup [page : MemoryPages, offset : {0}]
    ELSE {Zero, Translated(vaddr)}

Traced == UNION {[type : TracedTypes, tag : {0, 1}, vaddr : {vaddr}, paddr : TracedAs(vaddr)] :
                   vaddr \in Address(VirtualPages) \cup {Zero}}

PatchEntry(e) ==
    /\ stats_before[<<"entries", "all">>] < MaxEntries
    /\ Idle
    /\ Patch(e)
    /\ patched' = Append(patched, Patched(e))
    /\ remapped' = IF PaddrValid(e.paddr) THEN remapped \ {e.vaddr.page}
                   ELSE remapped
    /\ converted' = Nothing
    /\ decoded' = Nothing
    /\ UNCHANGED <<convert_vars, mapping, physical, tlb, tag, num_decoded, complete>>

PatchStops ==
    /\ Idle
    /\ PatchEnds \/ \E e \in Traced : PatchAborts(e)
    /\ UNCHANGED <<convert_vars, machine_vars, patched, converted, reader_vars>>

ConvertEntry ==
    LET e == Head(patched) IN
    /\ patched # <<>>
    /\ drcachesim = <<>>
    /\ patched' = Tail(patched)
    /\ \/ Skip(e) /\ UNCHANGED converted
       \/ /\ Convert(e)
          /\ converted' = IF TagFails(e) THEN converted ELSE e
    /\ UNCHANGED <<patch_vars, machine_vars, reader_vars>>

\* The reader of a file that a failed command has left finds its end, too.
ConvertFrame ==
    /\ drcachesim = <<>>
    /\ \/ WriteHeader
       \/ patched = <<>> /\ patch_state # "running" /\ WriteFooter
    /\ UNCHANGED <<patch_vars, machine_vars, patched, converted, reader_vars>>

-----------------------------------------------------------------------------
\* The simulator that reads the file, an entry at a time.
ReadMapping(r) ==
    /\ \/ /\ r.type = "PHYSICAL_ADDRESS"
          /\ physical' = r.value.page
          /\ UNCHANGED tlb
       \/ /\ r.type = "VIRTUAL_ADDRESS"
          /\ tlb' = [tlb EXCEPT ![r.value.page] = physical]
          /\ UNCHANGED physical
    /\ UNCHANGED <<tag, decoded, num_decoded, complete>>

ReadTag(r) ==
    /\ r.type = "TAG_CHERI"
    /\ tag' = r.value
    /\ UNCHANGED <<physical, tlb, decoded, num_decoded, complete>>

ReadAccess(r) ==
    /\ r.type \in {"INSTR", "READ", "WRITE"}
    /\ decoded' = [type |-> r.type, tag |-> tag,
                   paddr |-> IF variant = "paddr" THEN r.value
                             ELSE [page |-> tlb[r.value.page], offset |-> r.value.offset]]
    /\ num_decoded' = num_decoded + 1
    /\ tag' = Unknown
    /\ UNCHANGED <<physical, tlb, complete>>

ReadFrame(r) ==
    /\ r.type \in {"HEADER", "THREAD", "PID", "TIMESTAMP", "CPU_ID", "PAGE_SIZE",
                   "FOOTER"}
    /\ complete' = (complete \/ r.type = "FOOTER")
    /\ UNCHANGED <<physical, tlb, tag, decoded, num_decoded>>

Read ==
    LET r == Head(drcachesim) IN
    /\ drcachesim # <<>>
    /\ drcachesim' = Tail(drcachesim)
    /\ ReadMapping(r) \/ ReadTag(r) \/ ReadAccess(r) \/ ReadFrame(r)
    /\ UNCHANGED <<patch_vars, variant, mapped, dbg_paddrs_invalid,
                   convert_state, machine_vars, patched, converted>>

Next ==
    \/ \E page \in VirtualPages, frame \in MemoryPages \cup DevicePages :
         Remap(page, frame)
    \/ \E e \in Traced : PatchEntry(e)
    \/ PatchStops
    \/ ConvertEntry
    \/ ConvertFrame
    \/ Read

Spec == Init /\ [][Next]_vars

-----------------------------------------------------------------------------
\* What the reader can have read of an access.
Access == [type : {"INSTR", "READ", "WRITE"}, tag : {0, 1, Unknown},
           paddr : Address(MemoryPages)]

\* Type correctness: what is converted has an address in memory, also for
\* the reader, and at most one patched entry waits.
TypeOK ==
    /\ page_table \in PageMap
    /\ dbg_pages_changed_mapping \subseteq VirtualPages
    /\ dbg_pages_without_mapping \subseteq VirtualPages
    /\ dbg_num_addr_mapping_changes \in Nat
    /\ stats_before \in [Counters -> Nat]
    /\ stats_after \in [Counters -> Nat]
    /\ patch_state \in {"running", "done", "aborted"}
    /\ variant \in {"vaddr", "paddr"}
    /\ mapped \in PageMap
    /\ dbg_paddrs_invalid \in Nat
    /\ convert_state \in {"header", "loop", "done", "aborted"}
    /\ mapping \in [VirtualPages -> MemoryPages \cup DevicePages]
    /\ remapped \subseteq VirtualPages
    /\ patched \in Seq(PatchedEntry) /\ Len(patched) <= 1
    /\ converted \in PatchedEntry \cup {Nothing}
    /\ physical \in MemoryPages \cup {Absent}
    /\ tlb \in PageMap
    /\ tag \in {0, 1, Unknown}
    /\ decoded \in Access \cup {Nothing}
    /\ num_decoded \in Nat
    /\ complete \in BOOLEAN

\* What a converted entry is to its reader.
AccessOf(e) == [type |-> DrcachesimType(e.type), paddr |-> e.paddr,
                tag |-> IF HasTag(e.type) THEN e.tag ELSE Unknown]

\* Whoever reads the file gets the physical address, the kind and the tag of
\* every converted entry: a mapping is there before the first access that
\* needs it and again after it has changed, and no tag is that of another.
DecodedIsConverted ==
    drcachesim = <<>> /\ converted # Nothing => decoded = AccessOf(converted)

\* An address that patch-paddrs has filled in is the one the machine used,
\* unless the page was moved after its last entry with a valid address.
PatchedPaddrsAreReal ==
    [][Len(patched') > Len(patched) =>
         LET e == patched'[Len(patched')] IN
           /\ PaddrValid(e.paddr)
           /\ e.vaddr.page \notin remapped
           => e.paddr = Translated(e.vaddr)]_vars

\* The statistics patch-paddrs prints of its output are those of what convert
\* reads: as many entries are skipped as are counted as invalid, the others
\* come out, and a page is noted as one without a mapping if there are any.
SkippedAreReported ==
    LET num_invalid == stats_after[<<"entries", "invalid_paddr">>]
        IsWaiting == patched # <<>> /\ ~ PaddrValid(Head(patched).paddr)
    IN
    /\ num_invalid = dbg_paddrs_invalid + (IF IsWaiting THEN 1 ELSE 0)
    /\ num_invalid > 0 <=> dbg_pages_without_mapping # {}
    /\ complete => num_decoded + num_invalid = stats_after[<<"entries", "all">>]

\* Convert never skips an access to a page it has a mapping for.
SkippedPagesUnknown ==
    [][dbg_paddrs_invalid' # dbg_paddrs_invalid =>
         mapped[Head(patched).vaddr.page] = Absent]_vars

=============================================================================
