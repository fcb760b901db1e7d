----------------------------- MODULE Drcachesim -----------------------------
(***************************************************************************)
(* convert-drcachesim-vaddr and -paddr (handlers.c, drcachesim.cc): a trace *)
(* becomes a drcachesim file, a stream of entries of which some, markers,  *)
(* say something about those that follow.                                  *)
(***************************************************************************)
EXTENDS PageTables, Sequences

VARIABLES
  variant,           \* "vaddr" or "paddr": the command
  mapped,            \* its page_table: what the markers so far have said
  dbg_paddrs_invalid,
  drcachesim,        \* entries of the file its reader has not come to
  convert_state      \* "header", "loop", "done" or "aborted"

convert_vars == <<variant, mapped, dbg_paddrs_invalid, drcachesim, convert_state>>

ConvertInit ==
    /\ variant \in {"vaddr", "paddr"}
    /\ mapped = EmptyMap
    /\ dbg_paddrs_invalid = 0
    /\ drcachesim = <<>>
    /\ convert_state = "header"

Record(type) == [type |-> type]
Marker(type, value) == [type |-> type, value |-> value]

\* The page size marker gives the mapping markers their meaning.
Header == <<Record("HEADER"), Record("THREAD"), Record("PID"),
            Record("TIMESTAMP"), Record("CPU_ID"), Record("PAGE_SIZE")>>

Footer == <<Record("FOOTER")>>

DrcachesimType(type) ==
    CASE type = "INSTR"              -> "INSTR"
      [] type \in {"LOAD", "CLOAD"}  -> "READ"
      [] OTHER                       -> "WRITE"

\* Only of these does the trace know the tag.
HasTag(type) == type \in {"CLOAD", "CSTORE"}

TagEntries(e) == IF HasTag(e.type) THEN <<Marker("TAG_CHERI", e.tag)>> ELSE <<>>
TagFails(e) == e.type \in {"INSTR", "STORE"} /\ e.tag # 0

\* BUG: a page that has a mapping is not mapped again.
RemapsFirst(e) == PaddrValid(e.paddr) /\ mapped[e.vaddr.page] = Absent

Remaps(e) == PaddrValid(e.paddr) /\ mapped[e.vaddr.page] # e.paddr.page

MappingEntries(e) ==
    CASE Remaps(e) -> <<Marker("PHYSICAL_ADDRESS", e.paddr),
                        Marker("VIRTUAL_ADDRESS", e.vaddr)>>
      [] ~ PaddrValid(e.paddr) /\ mapped[e.vaddr.page] = Absent ->
           <<Marker("PHYSICAL_ADDRESS_NOT_AVAILABLE", e.vaddr)>>
      [] OTHER -> <<>>

\* BUG: the access comes before what is said of it.
AccessFirst(e) ==
    <<Marker(DrcachesimType(e.type), IF variant = "vaddr" THEN e.vaddr ELSE e.paddr)>>
      \o (IF variant = "vaddr" THEN MappingEntries(e) ELSE <<>>) \o TagEntries(e)

\* What write_drcachesim_trace_entry_vaddr and _paddr emit.
TraceEntries(e) ==
    (IF variant = "vaddr" THEN MappingEntries(e) ELSE <<>>) \o TagEntries(e)
      \o <<Marker(DrcachesimType(e.type), IF variant = "vaddr" THEN e.vaddr ELSE e.paddr)>>

WriteHeader ==
    /\ convert_state = "header"
    /\ drcachesim' = drcachesim \o Header
    /\ convert_state' = "loop"
    /\ UNCHANGED <<variant, mapped, dbg_paddrs_invalid>>

Skip(e) ==
    /\ convert_state = "loop"
    /\ ~ PaddrValid(e.paddr)
    /\ dbg_paddrs_invalid' = dbg_paddrs_invalid + 1
    /\ UNCHANGED <<variant, mapped, drcachesim, convert_state>>

\* The mapping is written before the tag is looked at.
Convert(e) ==
    /\ convert_state = "loop"
    /\ PaddrValid(e.paddr)
    /\ mapped' = IF variant = "vaddr" /\ Remaps(e)
                   THEN [mapped EXCEPT ![e.vaddr.page] = e.paddr.page] ELSE mapped
    /\ IF TagFails(e)
         THEN /\ drcachesim' = drcachesim \o
                   (IF variant = "vaddr" THEN MappingEntries(e) ELSE <<>>)
              /\ convert_state' = "aborted"
         ELSE /\ drcachesim' = drcachesim \o TraceEntries(e)
              /\ UNCHANGED convert_state
    /\ UNCHANGED <<variant, dbg_paddrs_invalid>>

WriteFooter ==
    /\ convert_state = "loop"
    /\ drcachesim' = drcachesim \o Footer
    /\ convert_state' = "done"
    /\ UNCHANGED <<variant, mapped, dbg_paddrs_invalid>>

=============================================================================
