------------------------------ MODULE TagMemory ------------------------------
(***************************************************************************)
(* What the simulated caches promise, without any cache.  A machine has a  *)
(* tagged memory; the simulator sees its accesses one by one and keeps,    *)
(* for every line, what it knows of the tags.  It starts knowing nothing,  *)
(* learns from accesses, and forgets nothing.                              *)
(***************************************************************************)
EXTENDS Tags

CONSTANT Lines

VARIABLES memory,   \* line -> the granules that are tagged
          view      \* line -> what the simulator knows of them

Init ==
    /\ memory \in [Lines -> SUBSET Granules]
    /\ view = [ln \in Lines |-> NoTags]

\* An access shows the tags of some granules.
Learn(ln, granules) ==
    /\ view' = [view EXCEPT ![ln] =
                  [data  |-> view[ln].data \cup (memory[ln] \cap granules),
                   known |-> view[ln].known \cup granules]]
    /\ UNCHANGED memory

\* A store gives granules of a line the same tag.
Store(ln, granules, tag) ==
    /\ memory' = [memory EXCEPT ![ln] = IF tag = 1 THEN @ \cup granules
                                        ELSE @ \ granules]
    /\ view' = [view EXCEPT ![ln] = TagsSet(view[ln], granules, tag)]

Next ==
    \E ln \in Lines, granules \in SUBSET Granules :
        \/ Learn(ln, granules)
        \/ \E tag \in {0, 1} : Store(ln, granules, tag)

Spec == Init /\ [][Next]_<<memory, view>>

=============================================================================
