--------------------------------- MODULE Lru ---------------------------------
(***************************************************************************)
(* The replacement policy of one set of a cache (cache_request in          *)
(* simulator.c; tag_cache_record_access has a copy of it).  A way is a     *)
(* number, a set of ways is the set of frames the policy chooses from, and *)
(* the operators take the counters and the tag addresses of the frames.    *)
(* Frames are records with a field "way": the order of the scan.           *)
(***************************************************************************)
EXTENDS Integers

\* INVALID_TAG, the tag address no line has.
INVALID_TAG == -1

\* A counter is a u16 and starts as the number of its way: the ways it can
\* tell apart.
MaxWays == 65536

FreeFrames(S, tag_addr) == {f \in S : tag_addr[f] = INVALID_TAG}

\* The frames the scan visits before it stops at the first free one.
Scanned(S, tag_addr) ==
    {f \in S : \A g \in FreeFrames(S, tag_addr) : f.way < g.way}

\* BUG: free ways are not looked at; the oldest one is evicted.
VictimIgnoresFree(S, tag_addr, counter) ==
    CHOOSE f \in S :
      \A g \in S : \/ counter[g] < counter[f]
                   \/ counter[g] = counter[f] /\ g.way <= f.way

\* The frame to fill: the first free one, else the last of those with the
\* largest counter.
Victim(S, tag_addr, counter) ==
    IF FreeFrames(S, tag_addr) # {}
      THEN CHOOSE f \in FreeFrames(S, tag_addr) :
             \A g \in FreeFrames(S, tag_addr) : f.way <= g.way
      ELSE CHOOSE f \in S :
             \A g \in S : \/ counter[g] < counter[f]
                          \/ counter[g] = counter[f] /\ g.way <= f.way

\* The scan asserts that no two frames share its running maximum, except 0.
ScanFaults(S, tag_addr, counter) ==
    LET scanned == Scanned(S, tag_addr)
        Repeats(f, g) == /\ f.way < g.way
                         /\ counter[f] = counter[g]
                         /\ counter[f] # 0
                         /\ \A h \in scanned :
                              h.way < g.way => counter[h] <= counter[f]
    IN IF \E f, g \in scanned : Repeats(f, g) THEN {"equal_counters"} ELSE {}

\* BUG: the frame that is touched is the only one whose counter moves.
TouchOnlyUsed(counter, S, f, num_ways) == [counter EXCEPT ![f] = 0]

\* BUG: the younger frames age and the touched one does not become youngest.
TouchNotReset(counter, S, f, num_ways) ==
    [g \in DOMAIN counter |->
        IF g \in S /\ counter[g] < counter[f] THEN counter[g] + 1 ELSE counter[g]]

\* BUG: frames older than the touched one age with the younger ones.
TouchAllAge(counter, S, f, num_ways) ==
    [g \in DOMAIN counter |->
        IF g = f THEN 0 ELSE IF g \in S THEN counter[g] + 1 ELSE counter[g]]

\* The counters after frame f of the set S is used: those younger than f age
\* by one and f becomes the youngest.  Nothing moves when f is the youngest.
Touch(counter, S, f, num_ways) ==
    IF counter[f] = 0 THEN counter
    ELSE [g \in DOMAIN counter |->
            IF g = f THEN 0
            ELSE IF g \in S /\ counter[g] <= counter[f]
              THEN (counter[g] + 1) % num_ways
            ELSE counter[g]]

=============================================================================
