----------------------------- MODULE PatchPaddrs -----------------------------
(***************************************************************************)
(* trace_patch_paddrs (handlers.c): entries whose physical address is      *)
(* missing or outside memory get one from the last entry of their page     *)
(* that had a valid one.                                                   *)
(***************************************************************************)
EXTENDS PageTables

VARIABLES
  page_table,                \* virtual page -> last valid physical page
  dbg_pages_changed_mapping,
  dbg_pages_without_mapping,
  dbg_num_addr_mapping_changes,
  stats_before, stats_after, \* of the input and of the output
  patch_state                \* "running", "done" or "aborted"

patch_vars == <<page_table, dbg_pages_changed_mapping,
                dbg_pages_without_mapping, dbg_num_addr_mapping_changes,
                stats_before, stats_after, patch_state>>

PatchInit ==
    /\ page_table = EmptyMap
    /\ dbg_pages_changed_mapping = {}
    /\ dbg_pages_without_mapping = {}
    /\ dbg_num_addr_mapping_changes = 0
    /\ stats_before = NoStats
    /\ stats_after = NoStats
    /\ patch_state = "running"

Known(e) == page_table[e.vaddr.page] # Absent

\* BUG: an address outside memory is left alone.
PatchedIfMissing(e) ==
    IF e.paddr # Zero \/ ~ Known(e) THEN e
    ELSE [e EXCEPT !.paddr = [page |-> page_table[e.vaddr.page],
                              offset |-> e.vaddr.offset]]

\* BUG: the new mapping is not kept.
TableFirstSeen(e) ==
    IF PaddrValid(e.paddr) /\ ~ Known(e)
      THEN [page_table EXCEPT ![e.vaddr.page] = e.paddr.page]
      ELSE page_table

\* The entry that is written.
Patched(e) ==
    IF PaddrValid(e.paddr) \/ ~ Known(e) THEN e
    ELSE [e EXCEPT !.paddr = [page |-> page_table[e.vaddr.page],
                              offset |-> e.vaddr.offset]]

TableAfter(e) ==
    IF PaddrValid(e.paddr)
      THEN [page_table EXCEPT ![e.vaddr.page] = e.paddr.page]
      ELSE page_table

Changes(e) ==
    PaddrValid(e.paddr) /\ Known(e) /\ page_table[e.vaddr.page] # e.paddr.page

\* BUG: pages are not noted when the entry has a paddr, though not in memory.
WithoutIfMissing(e) == e.paddr = Zero /\ ~ Known(e)

Without(e) == ~ PaddrValid(e.paddr) /\ ~ Known(e)

\* An assertion fails before the entry is written.
FailsBefore(e) ==
    \/ StatsFail(e)
    \/ e.vaddr = Zero
    \/ e.vaddr # Zero /\ ~ PaddrValid(e.paddr) /\ page_table[e.vaddr.page] = 0

\* Everything up to trace_writer_emit.
Patch(e) ==
    /\ patch_state = "running"
    /\ ~ FailsBefore(e)
    /\ page_table' = TableAfter(e)
    /\ dbg_num_addr_mapping_changes' =
         dbg_num_addr_mapping_changes + (IF Changes(e) THEN 1 ELSE 0)
    /\ dbg_pages_changed_mapping' =
         dbg_pages_changed_mapping \cup (IF Changes(e) THEN {e.vaddr.page} ELSE {})
    /\ dbg_pages_without_mapping' =
         dbg_pages_without_mapping \cup (IF Without(e) THEN {e.vaddr.page} ELSE {})
    /\ stats_before' = UpdateStats(stats_before, e)
    /\ stats_after' = UpdateStats(stats_after, Patched(e))
    /\ patch_state' = IF StatsFail(Patched(e)) THEN "aborted" ELSE "running"

PatchAborts(e) ==
    /\ patch_state = "running"
    /\ FailsBefore(e)
    /\ patch_state' = "aborted"
    /\ UNCHANGED <<page_table, dbg_pages_changed_mapping,
                   dbg_pages_without_mapping, dbg_num_addr_mapping_changes,
                   stats_before, stats_after>>

PatchEnds ==
    /\ patch_state = "running"
    /\ patch_state' = "done"
    /\ UNCHANGED <<page_table, dbg_pages_changed_mapping,
                   dbg_pages_without_mapping, dbg_num_addr_mapping_changes,
                   stats_before, stats_after>>

=============================================================================
