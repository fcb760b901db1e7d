---------------------------- MODULE InitialState ----------------------------
(***************************************************************************)
(* The initial state file: for every capability-sized granule of memory,   *)
(* the access of a trace that says most of the tag it had at the start.    *)
(* get-initial-state writes it (InitialAccesses), the statistics of the    *)
(* requests read it (RequestStats).                                        *)
(***************************************************************************)
EXTENDS Tags

CONSTANTS NumPages,      \* pages of physical memory
          LinesPerPage   \* PAGE_SIZE / CACHE_LINE_SIZE

ASSUME MemoryAssumption ==
    /\ NumPages \in Nat \ {0}
    /\ LinesPerPage \in Nat \ {0}

Pages == 0 .. NumPages - 1
Lines == 0 .. NumPages * LinesPerPage - 1

\* The granules of memory, by their place in it.
NumCaps == NumPages * LinesPerPage * GranulesPerLine
Caps == 0 .. NumCaps - 1

LineOf(cap) == cap \div GranulesPerLine
PageOf(cap) == LineOf(cap) \div LinesPerPage
CapOf(ln, granule) == ln * GranulesPerLine + granule

Types == {"INSTR", "LOAD", "STORE", "CLOAD", "CSTORE"}
Stores == {"STORE", "CSTORE"}

InitialAccess == [type : Types \cup {"none"}, tag : {0, 1}]
NotAccessed == [type |-> "none", tag |-> 0]

\* The tag memory is assumed to have had before the access.
GuessInitialTag(access) == access.type \in {"CLOAD", "CSTORE"} /\ access.tag = 1

VARIABLE initial_state_table   \* granule -> its record

=============================================================================
