------------------------------- MODULE LruSet -------------------------------
(***************************************************************************)
(* One set of a cache under any sequence of requests and invalidations:    *)
(* the counters of cache_request in simulator.c against the order in which *)
(* the frames were used.                                                   *)
(***************************************************************************)
EXTENDS Lru

CONSTANTS NumWays,  \* ways of the set
          Lines     \* lines that map to the set

ASSUME LruSetAssumption ==
    /\ NumWays \in 1 .. MaxWays
    /\ INVALID_TAG \notin Lines

Frames == [way : 0 .. NumWays - 1]

VARIABLES tag_addr, counter

vars == <<tag_addr, counter>>

Init ==
    /\ tag_addr = [f \in Frames |-> INVALID_TAG]
    /\ counter = [f \in Frames |-> f.way]

\* cache_request: the line is there, or the frame of the victim is filled.
Hit(ln) ==
    \E f \in Frames :
        /\ tag_addr[f] = ln
        /\ counter' = Touch(counter, Frames, f, NumWays)
        /\ UNCHANGED tag_addr

Miss(ln) ==
    LET victim == Victim(Frames, tag_addr, counter) IN
    /\ \A f \in Frames : tag_addr[f] # ln
    /\ tag_addr' = [tag_addr EXCEPT ![victim] = ln]
    /\ counter' = Touch(counter, Frames, victim, NumWays)

\* A coherence flush or a back invalidation drops the line; the counter of
\* the frame stays.
Drop(ln) ==
    \E f \in Frames :
        /\ tag_addr[f] = ln
        /\ tag_addr' = [tag_addr EXCEPT ![f] = INVALID_TAG]
        /\ UNCHANGED counter

Next == \E ln \in Lines : Hit(ln) \/ Miss(ln) \/ Drop(ln)

Spec == Init /\ [][Next]_vars

-----------------------------------------------------------------------------
TypeOK ==
    /\ tag_addr \in [Frames -> Lines \cup {INVALID_TAG}]
    /\ counter \in [Frames -> 0 .. NumWays - 1]

CountersDistinct == \A f, g \in Frames : counter[f] = counter[g] => f = g

\* The assertion of the scan (simulator.c:504) would not fail in any state,
\* whatever invalidations have left free.
VictimUnambiguous == ScanFaults(Frames, tag_addr, counter) = {}

\* Counters of the size of the set are enough: they are the order in which the
\* frames were used, and the victim is the least recently used frame.
Recency == INSTANCE RecencyOrder WITH
    older <- {p \in Frames \X Frames : counter[p[1]] > counter[p[2]]}

ImplementsRecencyOrder == Recency!Spec

=============================================================================
