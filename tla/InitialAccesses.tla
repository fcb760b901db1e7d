--------------------------- MODULE InitialAccesses ---------------------------
(***************************************************************************)
(* trace_get_initial_accesses (handlers.c): one pass over a trace that     *)
(* finds for every granule the first access, or the first capability load  *)
(* when plain loads came before it.                                        *)
(***************************************************************************)
EXTENDS InitialState, FiniteSets

VARIABLES
  modified_paddrs,  \* granules the trace has stored to
  num_CLOADs_after_mismatched_CLOAD,
  aborted           \* an assertion failed: no file is written

scan_vars == <<initial_state_table, modified_paddrs,
               num_CLOADs_after_mismatched_CLOAD, aborted>>

\* A trace entry covers the granules first .. last; the last may be past the
\* end of memory, only the address of the first byte is checked.
Entry == [type : Types, first : Caps, last : 0 .. NumCaps, tag : {0, 1}]

Covered(e) == e.first .. e.last

ScanInit ==
    /\ initial_state_table = [cap \in Caps |-> NotAccessed]
    /\ modified_paddrs = {}
    /\ num_CLOADs_after_mismatched_CLOAD = 0
    /\ aborted = FALSE

Unread(cap) == initial_state_table[cap].type = "none"

\* BUG: a capability load counts for the initial tag after stores, too.
LoadedThenRead(cap, e) ==
    initial_state_table[cap].type = "LOAD" /\ e.type = "CLOAD"

\* The entry is the first to read the tag of a granule that was only loaded.
FirstTagRead(cap, e) ==
    /\ initial_state_table[cap].type = "LOAD"
    /\ e.type = "CLOAD"
    /\ cap \notin modified_paddrs

ReadAgain(cap, e) ==
    /\ initial_state_table[cap].type = "CLOAD"
    /\ e.type = "CLOAD"
    /\ cap \notin modified_paddrs

\* The assertions in the loop over the granules of an entry.
ScanFails(e) ==
    \/ ~ Covered(e) \subseteq Caps
    \/ /\ e.type \in {"INSTR", "LOAD", "STORE"}
       /\ e.tag # 0
       /\ \E cap \in Covered(e) \cap Caps : Unread(cap)

Scan(e) ==
    /\ ~ aborted
    /\ ~ ScanFails(e)
    /\ initial_state_table' =
         [cap \in Caps |->
            IF cap \in Covered(e) /\ (Unread(cap) \/ FirstTagRead(cap, e))
              THEN [type |-> e.type, tag |-> e.tag]
              ELSE initial_state_table[cap]]
    /\ modified_paddrs' =
         IF e.type \in Stores THEN modified_paddrs \cup Covered(e)
         ELSE modified_paddrs
    /\ num_CLOADs_after_mismatched_CLOAD' =
         num_CLOADs_after_mismatched_CLOAD
           + Cardinality({cap \in Covered(e) : ReadAgain(cap, e)})
    /\ UNCHANGED aborted

ScanAborts(e) ==
    /\ ~ aborted
    /\ ScanFails(e)
    /\ aborted' = TRUE
    /\ UNCHANGED <<initial_state_table, modified_paddrs,
                   num_CLOADs_after_mismatched_CLOAD>>

=============================================================================
