----------------------------- MODULE PageTables -----------------------------
(***************************************************************************)
(* Addresses and the tables of pages that two of the commands keep         *)
(* (inc/common.h, hashmap.cc), and the statistics of a trace (handlers.c). *)
(* An address is a page and an offset in it.                               *)
(***************************************************************************)
EXTENDS Integers

CONSTANTS VirtualPages,   \* pages a traced program uses
          MemoryPages,    \* pages of the simulated memory, BASE_PADDR on
          DevicePages,    \* physical pages outside it
          Offsets         \* places in a page

Zero == [page |-> 0, offset |-> 0]

ASSUME PagesAssumption ==
    /\ VirtualPages \subseteq Nat
    /\ MemoryPages \subseteq Nat \ {0}
    /\ DevicePages \subseteq Nat
    /\ MemoryPages \cap DevicePages = {}
    /\ 0 \in Offsets

Address(pages) == [page : pages, offset : Offsets]

\* check_paddr_valid: BASE_PADDR and MEMORY_SIZE are multiples of a page.
PaddrValid(paddr) == paddr.page \in MemoryPages

\* A map_u64 from pages to pages; a set_u64 of pages is a set.
Absent == -1
EmptyMap == [page \in VirtualPages |-> Absent]
PageMap == [VirtualPages -> MemoryPages \cup {Absent}]

Types == {"INSTR", "LOAD", "STORE", "CLOAD", "CSTORE"}

\* A trace entry.  A traced program accesses its pages; the tracer writes
\* address 0 when it does not know one.
Entry == [type : Types, tag : {0, 1},
          vaddr : Address(VirtualPages) \cup {Zero},
          paddr : Address(MemoryPages \cup DevicePages) \cup {Zero}]

-----------------------------------------------------------------------------
(***************************************************************************)
(* trace_stats_t: entries are counted together and by their type, and      *)
(* those of them that have no paddr, or none in memory.                    *)
(***************************************************************************)
Kinds == Types \cup {"entries", "paddr_matches_vaddr", "mem_accesses"}
Counters == Kinds \X {"all", "no_paddr", "invalid_paddr"}

KindsOf(e) ==
         {"entries", e.type}
    \cup (IF e.vaddr = e.paddr THEN {"paddr_matches_vaddr"} ELSE {})
    \cup (IF e.type # "INSTR" THEN {"mem_accesses"} ELSE {})

\* Accesses to memory are only counted together, entries whose paddr is
\* their vaddr not by a missing paddr: there are none.
CountersOf(e) ==
    LET paddr_kinds == KindsOf(e) \ {"mem_accesses"} IN
         (KindsOf(e) \X {"all"})
    \cup (IF e.paddr = Zero
            THEN (paddr_kinds \ {"paddr_matches_vaddr"}) \X {"no_paddr"} ELSE {})
    \cup (IF PaddrValid(e.paddr) THEN {} ELSE paddr_kinds \X {"invalid_paddr"})

NoStats == [c \in Counters |-> 0]
UpdateStats(stats, e) ==
    LET counted == CountersOf(e)
    IN [c \in Counters |-> stats[c] + (IF c \in counted THEN 1 ELSE 0)]

\* The assertions of update_trace_stats.
StatsFail(e) ==
    \/ e.vaddr = e.paddr /\ e.paddr = Zero
    \/ e.type = "STORE" /\ e.tag # 0

=============================================================================
