--------------------------- MODULE TracedExecution ---------------------------
(***************************************************************************)
(* The simulation of a trace that a machine with tagged memory has         *)
(* produced: the entries agree with the tags the machine had.  The cache   *)
(* hierarchy is the one of CacheHierarchy; memory and stored are history,  *)
(* no step depends on them but the choice of the next entry.               *)
(***************************************************************************)
EXTENDS CacheHierarchy

VARIABLES memory,   \* line -> the granules that are tagged in the machine
          stored    \* line -> stored to since its last READ request

traced_vars == <<vars, memory, stored>>

\* The granules of a line that the machine accessed.
Accessed(e, ln) == {g \in Granules : ln * GranulesPerLine + g \in e.first .. e.last}

\* The machine stays in its memory, and the tracer leaves the tag of plain
\* accesses clear.  Capability loads return the tag of memory; instructions
\* are fetched from memory that holds no capability.
Consistent(e) ==
    /\ e.last \in Addresses
    /\ e.type \in {"INSTR", "STORE"} => e.tag = 0
    /\ \A ln \in FirstLine(e) .. LastLine(e) :
         CASE e.type = "INSTR" -> Accessed(e, ln) \cap memory[ln] = {}
           [] e.type = "CLOAD" -> IF e.tag = 1
                                    THEN Accessed(e, ln) \subseteq memory[ln]
                                    ELSE Accessed(e, ln) \cap memory[ln] = {}
           [] OTHER            -> TRUE

TracedInit ==
    /\ Init
    /\ memory \in [Lines -> SUBSET Granules]
    /\ stored = [ln \in Lines |-> FALSE]

TracedRead ==
    /\ failed = {}
    /\ \E e \in Entries : Consistent(e) /\ ReadEntry(e)
    /\ UNCHANGED <<failed, memory, stored>>

Storing   == pc = "use" /\ access.type \in Stores
Refilling == pc = "refill" /\ Faults = {}

\* The machine's memory after the stores the simulator has gone through.
TracedStore ==
    /\ Simulate
    /\ Storing
    /\ memory' = [memory EXCEPT ![line] =
                    IF access.tag = 1 THEN @ \cup Accessed(access, line)
                    ELSE @ \ Accessed(access, line)]
    /\ stored' = [stored EXCEPT ![line] = TRUE]

TracedRefill ==
    /\ Simulate
    /\ Refilling
    /\ stored' = [stored EXCEPT ![line] = FALSE]
    /\ UNCHANGED memory

TracedOther ==
    /\ Simulate
    /\ ~ Storing
    /\ ~ Refilling
    /\ UNCHANGED <<memory, stored>>

TracedSimulate == TracedStore \/ TracedRefill \/ TracedOther

TracedNext == TracedRead \/ TracedSimulate

TracedSpec ==
    TracedInit /\ [][TracedNext]_traced_vars /\ WF_traced_vars(TracedSimulate)

-----------------------------------------------------------------------------
\* No assertion of the simulator fails on the trace of a machine.
NeverAborts == failed = {}

\* The request the controller gets for a line that leaves L2 is a WRITE
\* exactly when the line was stored to since it was read: no store is lost
\* on the way down, no frame is written back for a store to another line.
DirtyTracksStores ==
    \A f \in Frames :
        f.cache = "L2" /\ tag_addr[f] # INVALID_TAG =>
          (stored[tag_addr[f]] <=>
             \/ dirty[f]
             \/ \E g \in Holders("L1D", tag_addr[f]) : dirty[g])

\* What the newest copy of a line knows: the data cache has it before the
\* instruction cache, and L2 before the controller.
View(ln) ==
    IF Cached("L1D", ln) THEN tags_cheri[Find("L1D", ln)]
    ELSE IF Cached("L1I", ln) THEN tags_cheri[Find("L1I", ln)]
    ELSE IF Cached("L2", ln) THEN tags_cheri[Find("L2", ln)]
    ELSE table[ln]

\* The hierarchy implements a memory that forgets nothing it was told of the
\* tags: whatever is evicted, invalidated or flushed, and in which order.
Promise == INSTANCE TagMemory WITH view <- [ln \in Lines |-> View(ln)]

ImplementsTagMemory == Promise!Spec

\* What is known of a line is what the machine has.
ViewAgreesWithMemory ==
    \A ln \in Lines : View(ln).data = memory[ln] \cap View(ln).known

\* A request tells the controller what is known of its line, and no less:
\* nothing of it is left behind in the other caches.
RequestCarriesView ==
    request.type # "none" => request.tags = View(request.line)

\* Every entry of a trace is carried through all of its lines.
EntryCompletes == pc # "read" ~> pc = "read"

=============================================================================
