---------------------------- MODULE RecencyOrder ----------------------------
(***************************************************************************)
(* Least-recently-used replacement, said without counters: the frames of a *)
(* set are ordered by their last use, and a line that is not there takes a *)
(* free frame, or else the frame no other is older than.                   *)
(***************************************************************************)
CONSTANTS Frames, Lines, INVALID_TAG

VARIABLES tag_addr,   \* frame -> the line it holds, or INVALID_TAG
          older       \* <<f, g>>: f was used before g

\* Before anything is used the frames have some order.
Init ==
    /\ tag_addr = [f \in Frames |-> INVALID_TAG]
    /\ older \in SUBSET (Frames \X Frames)
    /\ \A f, g \in Frames : f # g => (<<f, g>> \in older <=> <<g, f>> \notin older)
    /\ \A f \in Frames : <<f, f>> \notin older

\* f becomes the last used frame; the order of the others stays.
Use(f) ==
    older' = {p \in Frames \X Frames :
                IF p[2] = f THEN p[1] # f ELSE p[1] # f /\ p \in older}

Hit(ln) ==
    \E f \in Frames :
        /\ tag_addr[f] = ln
        /\ Use(f)
        /\ UNCHANGED tag_addr

Miss(ln) ==
    /\ \A f \in Frames : tag_addr[f] # ln
    /\ \E f \in Frames :
        /\ \/ tag_addr[f] = INVALID_TAG
           \/ /\ \A g \in Frames : tag_addr[g] # INVALID_TAG
              /\ \A g \in Frames : g # f => <<f, g>> \in older
        /\ Use(f)
        /\ tag_addr' = [tag_addr EXCEPT ![f] = ln]

\* A dropped line leaves its frame at the place it had in the order.
Drop(ln) ==
    \E f \in Frames :
        /\ tag_addr[f] = ln
        /\ tag_addr' = [tag_addr EXCEPT ![f] = INVALID_TAG]
        /\ UNCHANGED older

Next == \E ln \in Lines : Hit(ln) \/ Miss(ln) \/ Drop(ln)

Spec == Init /\ [][Next]_<<tag_addr, older>>

=============================================================================
