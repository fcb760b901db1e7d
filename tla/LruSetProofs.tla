---------------------------- MODULE LruSetProofs ----------------------------
(***************************************************************************)
(* For every number of ways and every set of lines: the counters of a set  *)
(* are an order of its frames, the scan for a victim never fails, and the  *)
(* set implements least-recently-used replacement.                         *)
(***************************************************************************)
EXTENDS LruSet, LruTheorems

\* The inductive invariant: the scan and the touch of a request rely on both
\* conjuncts.
IInv == TypeOK /\ CountersDistinct

\* What the lemmas of LruTheorems ask of the set.
LEMMA InvScannable ==
    ASSUME IInv
    PROVE  /\ Scannable(Frames, counter, NumWays)
           /\ DistinctOn(Frames, counter)
           /\ Frames = DOMAIN counter
           /\ Frames = DOMAIN tag_addr
<1>1. [way |-> 0] \in Frames
  BY LruSetAssumption DEF Frames
<1>2. \A f \in Frames : f.way \in 0 .. NumWays - 1
  BY DEF Frames
<1>3. NumWays \in Nat \ {0}
  BY LruSetAssumption
<1> QED
  BY <1>1, <1>2, <1>3
  DEF IInv, TypeOK, CountersDistinct, Scannable, DistinctOn

LEMMA InitIInv == Init => IInv
<1> SUFFICES ASSUME Init PROVE IInv
  OBVIOUS
<1>1. TypeOK
  <2>1. \A f \in Frames : f.way \in 0 .. NumWays - 1
    BY DEF Frames
  <2> QED
    BY <2>1 DEF Init, TypeOK
<1>2. CountersDistinct
  BY DEF Init, CountersDistinct, Frames
<1> QED
  BY <1>1, <1>2 DEF IInv

\* A use of a frame of the set keeps the invariant.
LEMMA TouchIInv ==
    ASSUME IInv, NEW f \in Frames,
           counter' = Touch(counter, Frames, f, NumWays)
    PROVE  /\ counter' \in [Frames -> 0 .. NumWays - 1]
           /\ CountersDistinct'
<1>1. /\ Scannable(Frames, counter', NumWays)
      /\ DistinctOn(Frames, counter')
  BY InvScannable, TouchOrder
<1>2. counter' = [g \in Frames |-> counter'[g]]
  BY InvScannable DEF Touch, IInv, TypeOK
<1> QED
  BY <1>1, <1>2 DEF Scannable, DistinctOn, CountersDistinct

LEMMA NextIInv == IInv /\ [Next]_vars => IInv'
<1> SUFFICES ASSUME IInv, [Next]_vars PROVE IInv'
  OBVIOUS
<1>1. ASSUME NEW ln \in Lines, Hit(ln) PROVE IInv'
  BY <1>1, TouchIInv DEF Hit, IInv, TypeOK
<1>2. ASSUME NEW ln \in Lines, Miss(ln) PROVE IInv'
  <2> DEFINE victim == Victim(Frames, tag_addr, counter)
  <2>1. victim \in Frames
    BY InvScannable, VictimInSet
  <2>2. /\ counter' = Touch(counter, Frames, victim, NumWays)
        /\ tag_addr' = [tag_addr EXCEPT ![victim] = ln]
    BY <1>2 DEF Miss
  <2> HIDE DEF victim
  <2>3. tag_addr' \in [Frames -> Lines \cup {INVALID_TAG}]
    BY <2>1, <2>2 DEF IInv, TypeOK
  <2> QED
    BY <2>1, <2>2, <2>3, TouchIInv DEF IInv, TypeOK
<1>3. ASSUME NEW ln \in Lines, Drop(ln) PROVE IInv'
  BY <1>3 DEF Drop, IInv, TypeOK, CountersDistinct
<1>4. CASE UNCHANGED vars
  BY <1>4 DEF vars, IInv, TypeOK, CountersDistinct
<1> QED
  BY <1>1, <1>2, <1>3, <1>4 DEF Next

THEOREM Invariance == Spec => []IInv
BY InitIInv, NextIInv, PTL DEF Spec

\* The assertion of the scan for a victim (simulator.c:504) holds in every
\* reachable state, for every number of ways.
THEOREM Unambiguous == Spec => []VictimUnambiguous
<1>1. IInv => VictimUnambiguous
  BY InvScannable, ScanUnambiguous DEF VictimUnambiguous, Scannable
<1> QED
  BY <1>1, Invariance, PTL

-----------------------------------------------------------------------------
\* The refinement of RecencyOrder

Older == {p \in Frames \X Frames : counter[p[1]] > counter[p[2]]}

LEMMA OlderIff ==
    \A f, g \in Frames : <<f, g>> \in Older <=> counter[f] > counter[g]
BY DEF Older

LEMMA InitRefines == Init => Recency!Init
<1> SUFFICES ASSUME Init PROVE Recency!Init
  OBVIOUS
<1>1. /\ \A f \in Frames : counter[f] \in Nat
      /\ \A f, g \in Frames : counter[f] = counter[g] => f = g
  BY InitIInv DEF IInv, TypeOK, CountersDistinct
<1>2. Older \in SUBSET (Frames \X Frames)
  BY DEF Older
<1>3. \A f, g \in Frames : f # g => (<<f, g>> \in Older <=> <<g, f>> \notin Older)
  BY <1>1, OlderIff
<1>4. \A f \in Frames : <<f, f>> \notin Older
  BY <1>1, OlderIff
<1> QED
  BY <1>2, <1>3, <1>4 DEF Init, Recency!Init, Older

\* A touch of the counters is a use in the abstract order.
LEMMA TouchRefines ==
    ASSUME IInv, NEW f \in Frames,
           counter' = Touch(counter, Frames, f, NumWays)
    PROVE  Recency!Use(f)
<1>1. /\ \A g \in Frames : g # f => counter'[f] < counter'[g]
      /\ \A g, h \in Frames : g # f /\ h # f =>
           (counter'[g] < counter'[h] <=> counter[g] < counter[h])
  BY InvScannable, TouchOrder
<1>2. \A g \in Frames : counter[g] \in Nat /\ counter'[g] \in Nat
  BY TouchIInv, LruSetAssumption DEF IInv, TypeOK
<1> DEFINE Used == {p \in Frames \X Frames :
                      IF p[2] = f THEN p[1] # f ELSE p[1] # f /\ p \in Older}
<1>3. ASSUME NEW g \in Frames, NEW h \in Frames
      PROVE  <<g, h>> \in Older' <=> <<g, h>> \in Used
  <2>1. <<g, h>> \in Older' <=> counter'[g] > counter'[h]
    BY DEF Older
  <2>2. <<g, h>> \in Used <=>
          IF h = f THEN g # f ELSE g # f /\ counter[g] > counter[h]
    BY OlderIff
  <2> QED
    BY <1>1, <1>2, <2>1, <2>2
<1>4. Older' \subseteq Frames \X Frames /\ Used \subseteq Frames \X Frames
  BY DEF Older
<1> HIDE DEF Used
<1>5. Older' = Used
  BY <1>3, <1>4
<1> QED
  BY <1>5 DEF Recency!Use, Older, Used

LEMMA NextRefines == IInv /\ [Next]_vars => [Recency!Next]_<<tag_addr, Older>>
<1> SUFFICES ASSUME IInv, [Next]_vars
             PROVE  Recency!Next \/ UNCHANGED <<tag_addr, Older>>
  OBVIOUS
<1>1. ASSUME NEW ln \in Lines, Hit(ln) PROVE Recency!Hit(ln)
  <2>1. PICK f \in Frames : /\ tag_addr[f] = ln
                            /\ counter' = Touch(counter, Frames, f, NumWays)
                            /\ UNCHANGED tag_addr
    BY <1>1 DEF Hit
  <2> QED
    BY <2>1, TouchRefines DEF Recency!Hit
<1>2. ASSUME NEW ln \in Lines, Miss(ln) PROVE Recency!Miss(ln)
  <2> DEFINE victim == Victim(Frames, tag_addr, counter)
  <2>1. victim \in Frames
    BY InvScannable, VictimInSet
  <2>2. /\ \A f \in Frames : tag_addr[f] # ln
        /\ counter' = Touch(counter, Frames, victim, NumWays)
        /\ tag_addr' = [tag_addr EXCEPT ![victim] = ln]
    BY <1>2 DEF Miss
  <2>3. ASSUME FreeFrames(Frames, tag_addr) # {}
        PROVE  tag_addr[victim] = INVALID_TAG
    <3>1. Scannable(Frames, counter, NumWays)
      BY InvScannable
    <3> QED
      BY <2>3, <3>1, VictimFree
  <2>4. ASSUME FreeFrames(Frames, tag_addr) = {}
        PROVE  /\ \A g \in Frames : tag_addr[g] # INVALID_TAG
               /\ \A g \in Frames : g # victim => <<victim, g>> \in Older
    <3>1. \A g \in Frames : counter[g] <= counter[victim]
      BY <2>4, InvScannable, VictimOldest
    <3> HIDE DEF victim
    <3>2. \A g \in Frames : g # victim => counter[victim] > counter[g]
      BY <2>1, <3>1, LruSetAssumption DEF IInv, TypeOK, CountersDistinct
    <3>3. \A g \in Frames : g # victim => <<victim, g>> \in Older
      BY <2>1, <3>2, OlderIff
    <3>4. \A g \in Frames : tag_addr[g] # INVALID_TAG
      BY <2>4 DEF FreeFrames
    <3> QED
      BY <3>3, <3>4
  <2> HIDE DEF victim
  <2>5. PICK f \in Frames : f = victim
    BY <2>1
  <2>6. Recency!Use(f)
    BY <2>2, <2>5, TouchRefines
  <2>7. \/ tag_addr[f] = INVALID_TAG
        \/ /\ \A g \in Frames : tag_addr[g] # INVALID_TAG
           /\ \A g \in Frames : g # f => <<f, g>> \in Older
    BY <2>3, <2>4, <2>5
  <2> QED
    BY <2>2, <2>5, <2>6, <2>7 DEF Recency!Miss, Older
<1>3. ASSUME NEW ln \in Lines, Drop(ln) PROVE Recency!Drop(ln)
  BY <1>3 DEF Drop, Recency!Drop
<1>4. CASE UNCHANGED vars
  BY <1>4 DEF vars, Older
<1> QED
  BY <1>1, <1>2, <1>3, <1>4 DEF Next, Recency!Next

\* The counters implement the order of last use: whatever requests and
\* invalidations come, the victim is a free frame or the frame that has not
\* been used for the longest time.
THEOREM Refinement == Spec => ImplementsRecencyOrder
<1>1. Init => Recency!Init
  BY InitRefines
<1>2. IInv /\ [Next]_vars =>
        [Recency!Next]_<<tag_addr, {p \in Frames \X Frames : counter[p[1]] > counter[p[2]]}>>
  BY NextRefines DEF Older
<1> QED
  BY <1>1, <1>2, Invariance, PTL DEF Spec, ImplementsRecencyOrder, Recency!Spec

=============================================================================
