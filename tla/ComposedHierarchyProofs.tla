----------------------- MODULE ComposedHierarchyProofs -----------------------
(***************************************************************************)
(* The hierarchy and what is around it, for every size of memory and       *)
(* caches. First the trace it reads, when it is that of a machine with     *)
(* tagged memory: the tags it reports are the machine's, no assertion      *)
(* fails, and it implements the tag memory; the invariant relates each     *)
(* copy of a line to the tags of the machine: a copy is right unless one   *)
(* above it is dirty. Then the table it writes to, in its packed form: a   *)
(* line is read as it was written, and the others as before. At last what  *)
(* it knows of any trace: exactly what the entries have shown.             *)
(***************************************************************************)
EXTENDS TracedExecution, PackedHierarchy, CacheHierarchyProofs

Correct(t, ln) == t.data = memory[ln] \cap t.known

HistoryOK ==
    /\ memory \in [Lines -> SUBSET Granules]
    /\ stored \in [Lines -> BOOLEAN]

Truth ==
    /\ \A f \in Frames :
         f.cache \in Children /\ tag_addr[f] # INVALID_TAG =>
           Correct(tags_cheri[f], tag_addr[f])
    /\ \A f \in Frames :
         /\ f.cache = "L2" /\ tag_addr[f] # INVALID_TAG
         /\ \A g \in Frames :
              g.cache \in Children /\ tag_addr[g] = tag_addr[f] => ~ dirty[g]
         => Correct(tags_cheri[f], tag_addr[f])
    /\ \A ln \in Lines :
         (\A g \in Frames : tag_addr[g] = ln => ~ dirty[g]) => Correct(table[ln], ln)

\* A line of L2 was stored to since it was read when some copy is dirty.
Tracks ==
    \A f \in Frames :
        f.cache = "L2" /\ tag_addr[f] # INVALID_TAG =>
          (stored[tag_addr[f]] <=>
             \E g \in Frames : tag_addr[g] = tag_addr[f] /\ dirty[g])

\* The frame of an L1 cache that is to be filled has been pushed into L2.
VictimPushed ==
    pc \in Missed1 /\ tag_addr[l1_victim] # INVALID_TAG =>
      \A h \in Frames :
        h.cache = "L2" /\ tag_addr[h] = tag_addr[l1_victim] =>
          /\ tags_cheri[h] = tags_cheri[l1_victim]
          /\ dirty[l1_victim] => dirty[h]

\* The frame of L2 that is to be filled has been written to the table.
VictimWritten ==
    pc = "refill" /\ tag_addr[l2_victim] # INVALID_TAG =>
      table[tag_addr[l2_victim]] = tags_cheri[l2_victim]

Handed == VictimPushed /\ VictimWritten

\* The entry is one of the machine.
Told == pc # "read" => Consistent(access) /\ FirstLine(access) <= line

\* A request is about the line that leaves L2 or the one that has just come.
Requested ==
    request.type # "none" =>
      /\ pc \in {"refill", "fill"}
      /\ pc = "refill" => /\ tag_addr[l2_victim] # INVALID_TAG
                          /\ request.line = tag_addr[l2_victim]
                          /\ request.tags = tags_cheri[l2_victim]
      /\ pc = "fill" => /\ request.line = line
                        /\ \A c \in Children : ~ Has(c, line)
                        /\ \A h \in Frames : h.cache = "L2" /\ tag_addr[h] = line =>
                             request.tags = tags_cheri[h]

TracedInv ==
    HistoryOK /\ Truth /\ Tracks /\ VictimPushed /\ VictimWritten /\ Told /\ Requested

-----------------------------------------------------------------------------
(* Steps of the hierarchy *)

LEMMA TracedIsNext == [TracedNext]_traced_vars => [Next]_vars
BY DEF TracedNext, TracedRead, TracedSimulate, TracedStore, TracedRefill,
       TracedOther, traced_vars, vars, Next, Read

\* A push, frame by frame.
LEMMA PushFrames ==
    ASSUME Contents, TagsOK, DirtyOK, NEW f \in Frames, f.cache \in Children,
           tag_addr[f] # INVALID_TAG
    PROVE  \E to \in Frames :
             /\ to.cache = "L2" /\ tag_addr[to] = tag_addr[f]
             /\ \A g \in Frames : g.cache = "L2" /\ tag_addr[g] = tag_addr[f] => g = to
             /\ \A g \in Frames :
                  /\ PushTags(f)[g] = IF g = to THEN tags_cheri[f] ELSE tags_cheri[g]
                  /\ PushDirty(f)[g] = IF g = to /\ dirty[f] THEN TRUE ELSE dirty[g]
<1>1. PICK ln \in Lines : ln = tag_addr[f]
  BY DEF Contents, TagAddrOK
<1>2. Cached("L2", ln) /\ ln \in Places /\ "L2" \in Caches
  BY <1>1, FindFacts, PlaceFacts, CacheNames DEF Contents, Included
<1>3. PICK to \in Frames :
        /\ to = Find("L2", ln)
        /\ to.cache = "L2" /\ tag_addr[to] = ln
        /\ \A g \in Frames : g.cache = "L2" /\ tag_addr[g] = ln => g = to
  BY <1>2, FindFacts, SetOfFacts DEF Contents
<1>4. \A g \in Frames : PushTags(f)[g] = IF g = to THEN tags_cheri[f] ELSE tags_cheri[g]
  BY <1>1, <1>3 DEF PushTags, TagsOK
<1>5. \A g \in Frames : PushDirty(f)[g] = IF g = to /\ dirty[f] THEN TRUE ELSE dirty[g]
  BY <1>1, <1>3 DEF PushDirty, DirtyOK
<1> QED
  BY <1>1, <1>3, <1>4, <1>5

-----------------------------------------------------------------------------
(* What has been handed down before a frame is filled *)

LEMMA RequestMissHanded ==
    ASSUME IInv, RequestMiss
    PROVE  Handed'
<1>1. PICK victim \in SetOf(Self, line) : victim = Victim(SetOf(Self, line), tag_addr, counter)
  BY SetScannable, CacheNames DEF IInv, ControlOK
<1>2. /\ victim \in Frames /\ victim.cache \in Children
      /\ l1_victim' = victim
      /\ pc' = "forward"
      /\ UNCHANGED tag_addr
  BY <1>1, CacheNames, SetOfFacts DEF IInv, ControlOK, RequestMiss
<1>3. CASE tag_addr[victim] = INVALID_TAG
  BY <1>2, <1>3 DEF Handed, VictimPushed, VictimWritten
<1>4. CASE tag_addr[victim] # INVALID_TAG
  <2>1. tags_cheri' = PushTags(victim) /\ dirty' = PushDirty(victim)
    BY <1>1, <1>4 DEF RequestMiss
  <2>2. PICK to \in Frames :
          /\ to.cache = "L2" /\ tag_addr[to] = tag_addr[victim]
          /\ \A g \in Frames : g.cache = "L2" /\ tag_addr[g] = tag_addr[victim] => g = to
          /\ \A g \in Frames :
               /\ PushTags(victim)[g] = IF g = to THEN tags_cheri[victim] ELSE tags_cheri[g]
               /\ PushDirty(victim)[g] = IF g = to /\ dirty[victim] THEN TRUE ELSE dirty[g]
    BY <1>2, <1>4, PushFrames DEF IInv
  <2>3. victim # to
    BY <1>2, <2>2, CacheNames
  <2> QED
    BY <1>2, <2>1, <2>2, <2>3 DEF Handed, VictimPushed, VictimWritten
<1> QED
  BY <1>3, <1>4

LEMMA ForwardHanded ==
    ASSUME Handed, ForwardHit \/ ForwardMiss
    PROVE  Handed'
<1>1. /\ UNCHANGED <<tag_addr, tags_cheri, dirty, table, l1_victim>>
      /\ pc = "forward" /\ pc' \in {"fill", "refill", "L1I"}
      /\ pc' = "refill" => tag_addr[l2_victim'] = INVALID_TAG
  BY DEF ForwardHit, ForwardMiss, control_vars, lines_vars
<1> QED
  BY <1>1 DEF Handed, VictimPushed, VictimWritten, Missed1

LEMMA BackInvalidateHanded ==
    ASSUME IInv, TagInv, Handed, NEW child \in Children, BackInvalidate(child)
    PROVE  Handed'
<1> DEFINE ln == tag_addr[l2_victim]
<1>1. /\ pc = child /\ pc \in {"L1I", "L1D"} /\ pc' \in {"L1D", "evict"}
      /\ UNCHANGED <<table, line, l1_victim, l2_victim>>
      /\ child \in Caches /\ line \in Places
  BY CacheNames DEF BackInvalidate, AfterChild, Children, IInv, ControlOK
<1>2. /\ l2_victim \in SetOf("L2", line) /\ ln # INVALID_TAG
      /\ l1_victim \in SetOf(Self, line)
  BY <1>1 DEF IInv, Control, Missed1, Missed2
<1>3. /\ l2_victim \in Frames /\ ln \in Lines
      /\ l1_victim \in Frames /\ l1_victim.cache \in Children
  BY <1>1, <1>2, SetOfFacts, CacheNames DEF IInv, Contents, TagAddrOK
<1>4. VictimWritten'
  BY <1>1 DEF VictimWritten
<1>5. CASE Cached(child, ln)
  <2>1. PICK f \in Frames : f = Find(child, ln) /\ f.cache = child /\ tag_addr[f] = ln
    BY <1>1, <1>3, <1>5, FindFacts, SetOfFacts, PlaceFacts DEF IInv, Contents
  <2>2. /\ tags_cheri' = PushTags(f)
        /\ dirty' = PushDirty(f)
        /\ tag_addr' = [tag_addr EXCEPT ![f] = INVALID_TAG]
    BY <1>5, <2>1 DEF BackInvalidate, DropChild
  <2>3. f.cache \in Children /\ tag_addr[f] # INVALID_TAG
    BY <1>2, <2>1
  <2> HIDE DEF ln
  <2>4. \A g \in Frames : tag_addr'[g] = IF g = f THEN INVALID_TAG ELSE tag_addr[g]
    BY <2>2 DEF IInv, Contents, TagAddrOK
  <2>5. PICK to \in Frames :
          /\ to.cache = "L2" /\ tag_addr[to] = tag_addr[f]
          /\ \A g \in Frames : g.cache = "L2" /\ tag_addr[g] = tag_addr[f] => g = to
          /\ \A g \in Frames :
               /\ PushTags(f)[g] = IF g = to THEN tags_cheri[f] ELSE tags_cheri[g]
               /\ PushDirty(f)[g] = IF g = to /\ dirty[f] THEN TRUE ELSE dirty[g]
    BY <2>3, PushFrames DEF IInv
  <2> SUFFICES ASSUME tag_addr'[l1_victim] # INVALID_TAG,
                      NEW h \in Frames, h.cache = "L2", tag_addr'[h] = tag_addr'[l1_victim]
               PROVE  /\ tags_cheri'[h] = tags_cheri'[l1_victim]
                      /\ dirty'[l1_victim] => dirty'[h]
    BY <1>1, <1>4 DEF Handed, VictimPushed
  <2>6. /\ l1_victim # f /\ h # f /\ l1_victim # to
        /\ tag_addr[l1_victim] # INVALID_TAG /\ tag_addr[h] = tag_addr[l1_victim]
    BY <1>3, <2>3, <2>4, <2>5, CacheNames
  <2>7. tags_cheri[h] = tags_cheri[l1_victim] /\ (dirty[l1_victim] => dirty[h])
    BY <1>1, <2>6 DEF Handed, VictimPushed, Missed1
  <2>8. tags_cheri'[h] = tags_cheri'[l1_victim]
    <3>1. CASE h = to
      <4>1. l1_victim.cache # f.cache
        BY <1>3, <2>3, <2>5, <2>6, <3>1 DEF IInv, Contents, Unique
      <4>2. tag_addr[l1_victim] = tag_addr[f] /\ tag_addr[l1_victim] = tag_addr[to]
        BY <2>5, <2>6, <3>1
      <4>3. tags_cheri'[h] = tags_cheri[f] /\ tags_cheri'[l1_victim] = tags_cheri[l1_victim]
        BY <1>3, <2>2, <2>5, <2>6, <3>1
      <4> QED
        BY <1>3, <2>3, <2>5, <4>1, <4>2, <4>3 DEF TagInv, Known, SharersAgree, Children
    <3>2. CASE h # to
      BY <1>3, <2>2, <2>5, <2>6, <2>7, <3>2
    <3> QED
      BY <3>1, <3>2
  <2>9. dirty'[l1_victim] => dirty'[h]
    BY <1>3, <2>2, <2>5, <2>6, <2>7
  <2> QED
    BY <2>8, <2>9
<1>6. CASE ~ Cached(child, ln)
  <2>1. UNCHANGED <<tags_cheri, dirty, tag_addr>>
    BY <1>6 DEF BackInvalidate
  <2> QED
    BY <1>1, <1>4, <2>1 DEF Handed, VictimPushed, Missed1
<1> QED
  BY <1>5, <1>6

LEMMA EvictHanded ==
    ASSUME IInv, Handed, Evict
    PROVE  Handed'
<1>1. /\ pc = "evict" /\ pc' = "refill"
      /\ UNCHANGED <<tag_addr, tags_cheri, dirty, line, l1_victim, l2_victim>>
      /\ table' = [table EXCEPT ![tag_addr[l2_victim]] = tags_cheri[l2_victim]]
  BY DEF Evict, Evicted, lines_vars, control_vars
<1>2. /\ l2_victim \in SetOf("L2", line) /\ tag_addr[l2_victim] # INVALID_TAG
      /\ line \in Places
  BY <1>1 DEF IInv, ControlOK, Control, Missed2
<1>3. tag_addr[l2_victim] \in Lines
  BY <1>2, SetOfFacts, CacheNames DEF IInv, Contents, TagAddrOK
<1>4. VictimWritten'
  BY <1>1, <1>3 DEF VictimWritten, IInv, TagsOK
<1>5. VictimPushed'
  BY <1>1 DEF Handed, VictimPushed, Missed1
<1> QED
  BY <1>4, <1>5 DEF Handed

LEMMA RefillHanded ==
    ASSUME IInv, Handed, Refill
    PROVE  Handed'
<1> DEFINE v == l2_victim
<1>1. /\ pc = "refill" /\ pc' = "fill"
      /\ tag_addr' = [tag_addr EXCEPT ![v] = line]
      /\ tags_cheri' = [tags_cheri EXCEPT ![v] = table[line]]
      /\ dirty' = [dirty EXCEPT ![v] = FALSE]
      /\ UNCHANGED l1_victim
  BY DEF Refill
<1>2. /\ v \in SetOf("L2", line)
      /\ l1_victim \in SetOf(Self, line) /\ ~ Has(Self, line)
      /\ line \in Places
  BY <1>1 DEF IInv, ControlOK, Control, Missed1, Missed2
<1>3. /\ v \in Frames /\ v.cache = "L2" /\ v.cache \notin Children
      /\ l1_victim \in Frames /\ l1_victim.cache = Self /\ Self \in Children
  BY <1>2, SetOfFacts, CacheNames
<1>4. tag_addr[l1_victim] # line
  BY <1>2, <1>3 DEF Has
<1> HIDE DEF v
<1>5. \A g \in Frames :
        /\ tag_addr'[g] = IF g = v THEN line ELSE tag_addr[g]
        /\ tags_cheri'[g] = IF g = v THEN table[line] ELSE tags_cheri[g]
        /\ dirty'[g] = IF g = v THEN FALSE ELSE dirty[g]
  BY <1>1, <1>3 DEF IInv, Contents, TagAddrOK, TagsOK, DirtyOK
<1>6. VictimWritten'
  BY <1>1 DEF VictimWritten
<1>7. VictimPushed'
  <2> SUFFICES ASSUME tag_addr'[l1_victim] # INVALID_TAG,
                      NEW h \in Frames, h.cache = "L2", tag_addr'[h] = tag_addr'[l1_victim]
               PROVE  /\ tags_cheri'[h] = tags_cheri'[l1_victim]
                      /\ dirty'[l1_victim] => dirty'[h]
    BY <1>1 DEF VictimPushed
  <2>1. l1_victim # v /\ h # v
    BY <1>3, <1>4, <1>5
  <2>2. tags_cheri[h] = tags_cheri[l1_victim] /\ (dirty[l1_victim] => dirty[h])
    BY <1>1, <1>3, <1>5, <2>1 DEF Handed, VictimPushed, Missed1
  <2> QED
    BY <1>3, <1>5, <2>1, <2>2
<1> QED
  BY <1>6, <1>7 DEF Handed

\* Before a miss and after the fill there is no victim.
LEMMA NoVictimHanded ==
    ASSUME pc' \notin Missed1
    PROVE  Handed'
BY DEF Handed, VictimPushed, VictimWritten, Missed1

LEMMA NextHanded == IInv /\ TagInv /\ Handed /\ [Next]_vars => Handed'
<1> SUFFICES ASSUME IInv, TagInv, Handed, [Next]_vars PROVE Handed'
  OBVIOUS
<1>1. CASE Read
  BY <1>1, NoVictimHanded DEF Read, ReadEntry, Missed1
<1>2. CASE Abort \/ UNCHANGED vars
  <2>1. UNCHANGED <<tag_addr, tags_cheri, dirty, table, pc, l1_victim, l2_victim>>
    BY <1>2 DEF Abort, vars, lines_vars, control_vars
  <2> QED
    BY <2>1 DEF Handed, VictimPushed, VictimWritten
<1>3. CASE NotifyPeers \/ RequestHit \/ Fill \/ Load \/ Store \/ Learn
  <2>1. pc' \in {"request", "use", "flush", "read"}
    BY <1>3 DEF NotifyPeers, RequestHit, Fill, Load, Store, Learn, NextLine
  <2> QED
    BY <2>1, NoVictimHanded DEF Missed1
<1>4. CASE \/ RequestMiss \/ ForwardHit \/ ForwardMiss
           \/ \E child \in Children : BackInvalidate(child)
           \/ Evict \/ Refill
  BY <1>4, RequestMissHanded, ForwardHanded, BackInvalidateHanded, EvictHanded, RefillHanded
<1> QED
  BY <1>1, <1>2, <1>3, <1>4 DEF Next, Simulate, Step

LEMMA PushTruth ==
    ASSUME Contents, TagsOK, DirtyOK, Truth, Tracks,
           NEW f \in Frames, f.cache \in Children, tag_addr[f] # INVALID_TAG,
           tags_cheri' = PushTags(f),
           \A g \in Frames : g # f => /\ tag_addr'[g] = tag_addr[g]
                                      /\ dirty'[g] = PushDirty(f)[g],
           tag_addr'[f] = tag_addr[f] \/ tag_addr'[f] = INVALID_TAG,
           dirty'[f] => dirty[f],
           UNCHANGED <<table, memory, stored>>
    PROVE  Truth' /\ Tracks'
<1>1. PICK to \in Frames :
        /\ to.cache = "L2" /\ tag_addr[to] = tag_addr[f]
        /\ \A g \in Frames : g.cache = "L2" /\ tag_addr[g] = tag_addr[f] => g = to
        /\ \A g \in Frames :
             /\ PushTags(f)[g] = IF g = to THEN tags_cheri[f] ELSE tags_cheri[g]
             /\ PushDirty(f)[g] = IF g = to /\ dirty[f] THEN TRUE ELSE dirty[g]
  BY PushFrames
<1>2. "L2" \notin Children /\ f # to /\ tag_addr'[to] = tag_addr[to]
  BY <1>1, CacheNames
<1>3. \A g \in Frames : tag_addr'[g] # INVALID_TAG => tag_addr'[g] = tag_addr[g]
  OBVIOUS
<1>4. Correct(tags_cheri[f], tag_addr[f])
  BY DEF Truth
<1>5. \A g \in Frames : g # f /\ g # to => dirty'[g] = dirty[g]
  BY <1>1
<1>6. \A ln \in Lines :
        (\E g \in Frames : tag_addr[g] = ln /\ dirty[g])
          <=> (\E g \in Frames : tag_addr'[g] = ln /\ dirty'[g])
  <2>1. dirty[f] => dirty'[to]
    BY <1>1, <1>2
  <2>2. dirty[to] => dirty'[to]
    BY <1>1, <1>2 DEF DirtyOK
  <2>3. dirty'[to] => dirty[to] \/ dirty[f]
    BY <1>1, <1>2
  <2>4. \A ln \in Lines : ln # INVALID_TAG
    BY PlaceFacts
  <2> QED
    BY <1>1, <1>2, <1>3, <1>5, <2>1, <2>2, <2>3, <2>4
<1>7. ASSUME NEW g \in Frames, g.cache \in Children, tag_addr'[g] # INVALID_TAG
      PROVE  Correct(tags_cheri[g], tag_addr[g])'
  <2>1. g # to /\ tag_addr'[g] = tag_addr[g]
    BY <1>1, <1>2, <1>3, <1>7
  <2>2. tags_cheri'[g] = tags_cheri[g]
    BY <1>1, <2>1
  <2>3. Correct(tags_cheri[g], tag_addr[g])
    BY <1>7, <2>1 DEF Truth
  <2> QED
    BY <2>1, <2>2, <2>3 DEF Correct
<1>8. ASSUME NEW g \in Frames, g.cache = "L2", tag_addr'[g] # INVALID_TAG,
             \A h \in Frames : h.cache \in Children /\ tag_addr'[h] = tag_addr'[g] => ~ dirty'[h]
      PROVE  Correct(tags_cheri[g], tag_addr[g])'
  <2>1. CASE g = to
    BY <1>1, <1>2, <1>4, <2>1 DEF Correct
  <2>2. CASE g # to
    <3>1. tag_addr'[g] = tag_addr[g] /\ tag_addr[g] # tag_addr[f]
      BY <1>1, <1>3, <1>8, <2>2
    <3>2. \A h \in Frames : h.cache \in Children /\ tag_addr[h] = tag_addr[g] => ~ dirty[h]
      BY <1>1, <1>2, <1>5, <1>8, <3>1
    <3>3. Correct(tags_cheri[g], tag_addr[g])
      BY <1>8, <3>1, <3>2 DEF Truth
    <3>4. tags_cheri'[g] = tags_cheri[g]
      BY <1>1, <2>2
    <3> QED
      BY <3>1, <3>3, <3>4 DEF Correct
  <2> QED
    BY <2>1, <2>2
<1>9. ASSUME NEW ln \in Lines, \A g \in Frames : tag_addr'[g] = ln => ~ dirty'[g]
      PROVE  Correct(table[ln], ln)'
  <2>1. \A g \in Frames : tag_addr[g] = ln => ~ dirty[g]
    BY <1>6, <1>9
  <2> QED
    BY <2>1 DEF Truth, Correct
<1>10. ASSUME NEW g \in Frames, g.cache = "L2", tag_addr'[g] # INVALID_TAG
       PROVE  stored'[tag_addr'[g]] <=>
                \E h \in Frames : tag_addr'[h] = tag_addr'[g] /\ dirty'[h]
  <2>1. tag_addr'[g] = tag_addr[g] /\ tag_addr[g] \in Lines
    BY <1>3, <1>10 DEF Contents, TagAddrOK
  <2> QED
    BY <1>6, <1>10, <2>1 DEF Tracks
<1>11. Truth'
  <2>1. /\ \A g \in Frames : g.cache \in Children /\ tag_addr'[g] # INVALID_TAG =>
             Correct(tags_cheri[g], tag_addr[g])'
        /\ \A g \in Frames :
             /\ g.cache = "L2" /\ tag_addr'[g] # INVALID_TAG
             /\ \A h \in Frames :
                  h.cache \in Children /\ tag_addr'[h] = tag_addr'[g] => ~ dirty'[h]
             => Correct(tags_cheri[g], tag_addr[g])'
    BY <1>7, <1>8
  <2>2. \A ln \in Lines :
          (\A g \in Frames : tag_addr'[g] = ln => ~ dirty'[g]) => Correct(table[ln], ln)'
    BY <1>9
  <2> QED
    BY <2>1, <2>2 DEF Truth
<1> QED
  BY <1>10, <1>11 DEF Tracks

LEMMA QuietTruth ==
    ASSUME Truth, Tracks,
           UNCHANGED <<tag_addr, tags_cheri, dirty, table, memory, stored>>
    PROVE  Truth' /\ Tracks'
<1>1. Truth'
  BY DEF Truth, Correct
<1>2. Tracks'
  BY DEF Tracks
<1> QED
  BY <1>1, <1>2

LEMMA InitTraced == TracedInit => HistoryOK /\ Truth /\ Tracks /\ VictimPushed
                                    /\ VictimWritten /\ Told /\ Requested
<1> SUFFICES ASSUME TracedInit
             PROVE  HistoryOK /\ Truth /\ Tracks /\ VictimPushed /\ VictimWritten
                      /\ Told /\ Requested
  OBVIOUS
<1>1. HistoryOK
  BY DEF TracedInit, HistoryOK
<1>2. Truth
  BY DEF TracedInit, Init, Truth, Correct, NoTags
<1>3. Tracks /\ VictimPushed /\ VictimWritten /\ Told /\ Requested
  BY DEF TracedInit, Init, Tracks, VictimPushed, VictimWritten, Told, Requested,
         NoRequest, Missed1
<1> QED
  BY <1>1, <1>2, <1>3

LEMMA ReadTraced ==
    ASSUME IInv, TracedInv, NEW e \in Entries, Consistent(e), ReadEntry(e),
           UNCHANGED <<memory, stored>>
    PROVE  TracedInv'
<1>1. /\ UNCHANGED <<tag_addr, tags_cheri, dirty, table, request>>
      /\ pc = "read" /\ pc' = "flush" /\ access' = e /\ line' = FirstLine(e)
  BY DEF ReadEntry, lines_vars
<1>2. Truth' /\ Tracks'
  BY <1>1, QuietTruth DEF TracedInv
<1>3. HistoryOK'
  BY DEF TracedInv, HistoryOK
<1>4. VictimPushed' /\ VictimWritten'
  BY <1>1 DEF VictimPushed, VictimWritten, Missed1
<1>5. Told'
  <2>1. Consistent(e)'
    BY DEF Consistent
  <2>2. FirstLine(e) <= FirstLine(e)
    BY LineFacts, PlaceFacts
  <2> QED
    BY <1>1, <2>1, <2>2 DEF Told, Consistent
<1>6. Requested'
  BY <1>1 DEF TracedInv, Requested
<1> QED
  BY <1>2, <1>3, <1>4, <1>5, <1>6 DEF TracedInv

\* What goes on with the entry without a store.
LEMMA ToldKept ==
    ASSUME Told, pc # "read", UNCHANGED <<access, line, memory>>
    PROVE  Told'
BY DEF Told, Consistent

LEMMA NotifyTraced ==
    ASSUME IInv, TracedInv, NotifyPeers, UNCHANGED <<memory, stored>>
    PROVE  TracedInv'
<1>1. /\ line \in Places /\ Peer(Self) \in Caches /\ Peer(Self) \in Children
      /\ line # INVALID_TAG
  BY CacheNames, PlaceFacts DEF IInv, ControlOK
<1>2. /\ pc = "flush" /\ pc' = "request"
      /\ UNCHANGED <<counter, table, request, access, line>>
  BY DEF NotifyPeers
<1>3. Truth' /\ Tracks'
  <2>1. CASE Cached(Peer(Self), line)
    <3>1. PICK f \in Frames : /\ f = Find(Peer(Self), line)
                              /\ f.cache = Peer(Self)
                              /\ tag_addr[f] = line
      BY <1>1, <2>1, FindFacts, SetOfFacts DEF IInv, Contents
    <3>2. /\ tags_cheri' = PushTags(f)
          /\ dirty' = [PushDirty(f) EXCEPT ![f] = FALSE]
          /\ tag_addr' = DropOnStore(f)
      BY <2>1, <3>1 DEF NotifyPeers
    <3>3. PushDirty(f) \in [Frames -> BOOLEAN]
      BY PushTypes DEF IInv
    <3>4. /\ \A g \in Frames : g # f => /\ tag_addr'[g] = tag_addr[g]
                                        /\ dirty'[g] = PushDirty(f)[g]
          /\ tag_addr'[f] = tag_addr[f] \/ tag_addr'[f] = INVALID_TAG
          /\ ~ dirty'[f]
      BY <3>2, <3>3 DEF DropOnStore, IInv, Contents, TagAddrOK
    <3> QED
      BY <1>1, <1>2, <3>1, <3>2, <3>4, PushTruth DEF IInv, TracedInv
  <2>2. CASE ~ Cached(Peer(Self), line)
    BY <1>2, <2>2, QuietTruth DEF NotifyPeers, TracedInv
  <2> QED
    BY <2>1, <2>2
<1>4. HistoryOK' /\ VictimPushed' /\ VictimWritten' /\ Requested'
  BY <1>2 DEF TracedInv, HistoryOK, VictimPushed, VictimWritten, Missed1, Requested
<1>5. Told'
  BY <1>2, ToldKept DEF TracedInv
<1> QED
  BY <1>3, <1>4, <1>5 DEF TracedInv

LEMMA RequestHitTraced ==
    ASSUME IInv, TracedInv, RequestHit, UNCHANGED <<memory, stored>>
    PROVE  TracedInv'
<1>1. /\ UNCHANGED <<tag_addr, tags_cheri, dirty, table, request, access, line>>
      /\ pc = "request" /\ pc' = "use"
  BY DEF RequestHit, control_vars
<1>2. Truth' /\ Tracks' /\ Told'
  BY <1>1, QuietTruth, ToldKept DEF TracedInv
<1>3. HistoryOK' /\ VictimPushed' /\ VictimWritten' /\ Requested'
  BY <1>1 DEF TracedInv, HistoryOK, VictimPushed, VictimWritten, Missed1, Requested
<1> QED
  BY <1>2, <1>3 DEF TracedInv

LEMMA RequestMissTraced ==
    ASSUME IInv, TracedInv, RequestMiss, UNCHANGED <<memory, stored>>
    PROVE  TracedInv'
<1>1. PICK victim \in SetOf(Self, line) : victim = Victim(SetOf(Self, line), tag_addr, counter)
  BY SetScannable, CacheNames DEF IInv, ControlOK
<1>2. /\ victim \in Frames /\ victim.cache \in Children
      /\ l1_victim' = victim
      /\ pc = "request" /\ pc' = "forward"
      /\ UNCHANGED <<tag_addr, table, request, access, line>>
  BY <1>1, CacheNames, SetOfFacts DEF IInv, ControlOK, RequestMiss
<1>3. HistoryOK' /\ VictimPushed' /\ VictimWritten' /\ Requested'
  BY <1>2, RequestMissHanded DEF TracedInv, HistoryOK, Handed, Requested
<1>4. Told'
  BY <1>2, ToldKept DEF TracedInv
<1>5. CASE tag_addr[victim] = INVALID_TAG
  <2>1. UNCHANGED <<tags_cheri, dirty>>
    BY <1>1, <1>5 DEF RequestMiss
  <2>2. Truth' /\ Tracks'
    BY <1>2, <2>1, QuietTruth DEF TracedInv
  <2> QED
    BY <1>3, <1>4, <2>2 DEF TracedInv
<1>6. CASE tag_addr[victim] # INVALID_TAG
  <2>1. tags_cheri' = PushTags(victim) /\ dirty' = PushDirty(victim)
    BY <1>1, <1>6 DEF RequestMiss
  <2>2. PICK to \in Frames :
          /\ to.cache = "L2" /\ tag_addr[to] = tag_addr[victim]
          /\ \A g \in Frames : g.cache = "L2" /\ tag_addr[g] = tag_addr[victim] => g = to
          /\ \A g \in Frames :
               /\ PushTags(victim)[g] = IF g = to THEN tags_cheri[victim] ELSE tags_cheri[g]
               /\ PushDirty(victim)[g] = IF g = to /\ dirty[victim] THEN TRUE ELSE dirty[g]
    BY <1>2, <1>6, PushFrames DEF IInv
  <2>3. victim # to
    BY <1>2, <2>2, CacheNames
  <2>4. dirty'[victim] = dirty[victim]
    BY <1>2, <2>1, <2>2, <2>3
  <2>5. Truth' /\ Tracks'
    BY <1>2, <1>6, <2>1, <2>4, PushTruth DEF IInv, TracedInv
  <2> QED
    BY <1>3, <1>4, <2>5 DEF TracedInv
<1> QED
  BY <1>5, <1>6

LEMMA ForwardTraced ==
    ASSUME IInv, TracedInv, ForwardHit \/ ForwardMiss, UNCHANGED <<memory, stored>>
    PROVE  TracedInv'
<1>1. /\ UNCHANGED <<tag_addr, tags_cheri, dirty, table, request, access, line, l1_victim>>
      /\ pc = "forward" /\ pc' \in {"fill", "refill", "L1I"}
      /\ pc' = "refill" => tag_addr[l2_victim'] = INVALID_TAG
  BY DEF ForwardHit, ForwardMiss, control_vars, lines_vars
<1>2. Truth' /\ Tracks' /\ Told'
  BY <1>1, QuietTruth, ToldKept DEF TracedInv
<1>3. HistoryOK' /\ VictimPushed' /\ VictimWritten' /\ Requested'
  BY <1>1 DEF TracedInv, HistoryOK, VictimPushed, VictimWritten, Missed1, Requested
<1> QED
  BY <1>2, <1>3 DEF TracedInv

LEMMA BackInvalidateTraced ==
    ASSUME IInv, TagInv, TracedInv, NEW child \in Children, BackInvalidate(child),
           UNCHANGED <<memory, stored>>
    PROVE  TracedInv'
<1> DEFINE ln == tag_addr[l2_victim]
<1>1. /\ pc = child /\ pc \in {"L1I", "L1D"} /\ pc' \in {"L1D", "evict"}
      /\ UNCHANGED <<table, request, access, line, l1_victim, l2_victim>>
      /\ child \in Caches /\ line \in Places
  BY CacheNames DEF BackInvalidate, AfterChild, Children, IInv, ControlOK
<1>2. /\ l2_victim \in SetOf("L2", line) /\ ln # INVALID_TAG
  BY <1>1 DEF IInv, Control, Missed2
<1>3. /\ l2_victim \in Frames /\ ln \in Lines
  BY <1>1, <1>2, SetOfFacts, CacheNames DEF IInv, Contents, TagAddrOK
<1>4. HistoryOK' /\ VictimPushed' /\ VictimWritten' /\ Requested' /\ Told'
  BY <1>1, ToldKept, BackInvalidateHanded DEF TracedInv, Handed, HistoryOK, Requested
<1>5. CASE Cached(child, ln)
  <2>1. PICK f \in Frames : f = Find(child, ln) /\ f.cache = child /\ tag_addr[f] = ln
    BY <1>1, <1>3, <1>5, FindFacts, SetOfFacts, PlaceFacts DEF IInv, Contents
  <2>2. /\ tags_cheri' = PushTags(f)
        /\ dirty' = PushDirty(f)
        /\ tag_addr' = [tag_addr EXCEPT ![f] = INVALID_TAG]
    BY <1>5, <2>1 DEF BackInvalidate, DropChild
  <2>3. f.cache \in Children /\ tag_addr[f] # INVALID_TAG
    BY <1>2, <2>1
  <2> HIDE DEF ln
  <2>4. \A g \in Frames : tag_addr'[g] = IF g = f THEN INVALID_TAG ELSE tag_addr[g]
    BY <2>2 DEF IInv, Contents, TagAddrOK
  <2>5. PICK to \in Frames :
          /\ to.cache = "L2" /\ tag_addr[to] = tag_addr[f]
          /\ \A g \in Frames : g.cache = "L2" /\ tag_addr[g] = tag_addr[f] => g = to
          /\ \A g \in Frames :
               /\ PushTags(f)[g] = IF g = to THEN tags_cheri[f] ELSE tags_cheri[g]
               /\ PushDirty(f)[g] = IF g = to /\ dirty[f] THEN TRUE ELSE dirty[g]
    BY <2>3, PushFrames DEF IInv
  <2>6. dirty'[f] = dirty[f] /\ f # to
    BY <2>2, <2>3, <2>5, CacheNames
  <2>7. Truth' /\ Tracks'
    BY <1>1, <2>2, <2>3, <2>4, <2>6, PushTruth DEF IInv, TracedInv
  <2> QED
    BY <1>4, <2>7 DEF TracedInv
<1>6. CASE ~ Cached(child, ln)
  <2>1. UNCHANGED <<tags_cheri, dirty, tag_addr>>
    BY <1>6 DEF BackInvalidate
  <2>2. Truth' /\ Tracks'
    BY <1>1, <2>1, QuietTruth DEF TracedInv
  <2> QED
    BY <1>4, <2>2 DEF TracedInv
<1> QED
  BY <1>5, <1>6

LEMMA EvictTraced ==
    ASSUME IInv, TracedInv, Evict, UNCHANGED <<memory, stored>>
    PROVE  TracedInv'
<1> DEFINE ln == tag_addr[l2_victim]
<1>1. /\ pc = "evict" /\ pc' = "refill"
      /\ UNCHANGED <<tag_addr, tags_cheri, dirty, access, line, l1_victim, l2_victim>>
      /\ table' = [table EXCEPT ![ln] = tags_cheri[l2_victim]]
      /\ request' = IF dirty[l2_victim] THEN Emit("WRITE", ln, tags_cheri[l2_victim])
                    ELSE NoRequest
  BY DEF Evict, Evicted, lines_vars, control_vars
<1>2. /\ l2_victim \in SetOf("L2", line) /\ ln # INVALID_TAG
      /\ \A c \in Children : ~ Has(c, ln)
      /\ line \in Places
  BY <1>1 DEF IInv, ControlOK, Control, Missed2
<1>3. l2_victim \in Frames /\ l2_victim.cache = "L2" /\ ln \in Lines
  BY <1>2, SetOfFacts, CacheNames DEF IInv, Contents, TagAddrOK
<1>4. Correct(tags_cheri[l2_victim], ln)
  <2>1. \A g \in Frames : g.cache \in Children => tag_addr[g] # ln
    BY <1>2 DEF Has
  <2> QED
    BY <1>2, <1>3, <2>1 DEF TracedInv, Truth
<1>5. \A x \in Lines : table'[x] = IF x = ln THEN tags_cheri[l2_victim] ELSE table[x]
  BY <1>1, <1>3 DEF IInv, TagsOK
<1>6. Requested'
  BY <1>1, <1>2 DEF Requested, Emit, NoRequest
<1> HIDE DEF ln
<1>7. Truth'
  <2>1. \A x \in Lines :
          (\A g \in Frames : tag_addr'[g] = x => ~ dirty'[g]) => Correct(table[x], x)'
    BY <1>1, <1>4, <1>5 DEF TracedInv, Truth, Correct
  <2>2. \A g \in Frames :
          Correct(tags_cheri[g], tag_addr[g])' <=> Correct(tags_cheri[g], tag_addr[g])
    BY <1>1 DEF Correct
  <2> QED
    BY <1>1, <2>1, <2>2 DEF TracedInv, Truth
<1>8. Tracks' /\ HistoryOK'
  BY <1>1 DEF TracedInv, Tracks, HistoryOK
<1>9. VictimPushed' /\ VictimWritten'
  BY EvictHanded DEF TracedInv, Handed
<1>10. Told'
  BY <1>1, ToldKept DEF TracedInv
<1> QED
  BY <1>6, <1>7, <1>8, <1>9, <1>10 DEF TracedInv

LEMMA RefillTraced ==
    ASSUME IInv, TracedInv, Refill, Faults = {}, UNCHANGED memory,
           stored' = [stored EXCEPT ![line] = FALSE]
    PROVE  TracedInv'
<1> DEFINE v == l2_victim
<1>1. /\ pc = "refill" /\ pc' = "fill"
      /\ tag_addr' = [tag_addr EXCEPT ![v] = line]
      /\ tags_cheri' = [tags_cheri EXCEPT ![v] = table[line]]
      /\ dirty' = [dirty EXCEPT ![v] = FALSE]
      /\ request' = Emit("READ", line, table[line])
      /\ UNCHANGED <<table, access, line, l1_victim>>
  BY DEF Refill
<1>2. line \in Lines /\ line \in Places /\ line # INVALID_TAG
  BY PlaceFacts DEF Refill, Faults, RefillFaults, Children, IInv, ControlOK
<1>3. /\ v \in SetOf("L2", line) /\ ~ Has("L2", line)
      /\ l1_victim \in SetOf(Self, line) /\ ~ Has(Self, line)
      /\ tag_addr[v] # INVALID_TAG => \A c \in Children : ~ Has(c, tag_addr[v])
  BY <1>1 DEF IInv, Control, Missed1, Missed2
<1>4. /\ v \in Frames /\ v.cache = "L2" /\ v.cache \notin Children
      /\ l1_victim \in Frames /\ l1_victim.cache \in Children
  BY <1>2, <1>3, SetOfFacts, CacheNames
<1>5. \A c \in Children : ~ Has(c, line)
  BY <1>2, <1>3 DEF IInv, Contents, Included, Has
<1>6. \A g \in Frames : tag_addr[g] # line
  BY <1>3, <1>5, FrameFacts, CacheNames DEF Has, Children
<1> HIDE DEF v
<1>7. \A g \in Frames :
        /\ tag_addr'[g] = IF g = v THEN line ELSE tag_addr[g]
        /\ tags_cheri'[g] = IF g = v THEN table[line] ELSE tags_cheri[g]
        /\ dirty'[g] = IF g = v THEN FALSE ELSE dirty[g]
  BY <1>1, <1>4 DEF IInv, Contents, TagAddrOK, TagsOK, DirtyOK
<1>8. Correct(table[line], line)
  BY <1>2, <1>6 DEF TracedInv, Truth
<1>9. \A g \in Frames :
        g.cache \in Children => tag_addr[g] # tag_addr[v] \/ tag_addr[v] = INVALID_TAG
  BY <1>3 DEF Has
<1>10. Truth'
  <2>1. ASSUME NEW g \in Frames, g.cache \in Children, tag_addr'[g] # INVALID_TAG
        PROVE  Correct(tags_cheri[g], tag_addr[g])'
    <3>1. g # v
      BY <1>4, <2>1
    <3>2. Correct(tags_cheri[g], tag_addr[g])
      BY <1>7, <2>1, <3>1 DEF TracedInv, Truth
    <3> QED
      BY <1>7, <3>1, <3>2 DEF Correct
  <2>2. ASSUME NEW g \in Frames, g.cache = "L2", tag_addr'[g] # INVALID_TAG,
               \A h \in Frames : h.cache \in Children /\ tag_addr'[h] = tag_addr'[g] => ~ dirty'[h]
        PROVE  Correct(tags_cheri[g], tag_addr[g])'
    <3>1. CASE g = v
      BY <1>7, <1>8, <3>1 DEF Correct
    <3>2. CASE g # v
      <4>1. Correct(tags_cheri[g], tag_addr[g])
        BY <1>4, <1>7, <2>2, <3>2 DEF TracedInv, Truth
      <4> QED
        BY <1>7, <3>2, <4>1 DEF Correct
    <3> QED
      BY <3>1, <3>2
  <2>3. ASSUME NEW x \in Lines, \A g \in Frames : tag_addr'[g] = x => ~ dirty'[g]
        PROVE  Correct(table[x], x)'
    <3>1. CASE tag_addr[v] = x
      <4>1. tag_addr[v] # INVALID_TAG
        BY <3>1, PlaceFacts
      <4>2. table[x] = tags_cheri[v]
        BY <1>1, <3>1, <4>1 DEF TracedInv, VictimWritten, v
      <4>3. Correct(tags_cheri[v], x)
        BY <1>4, <1>9, <3>1, <4>1 DEF TracedInv, Truth
      <4> QED
        BY <1>1, <4>2, <4>3 DEF Correct
    <3>2. CASE tag_addr[v] # x
      <4>1. \A g \in Frames : tag_addr[g] = x => ~ dirty[g]
        BY <1>7, <2>3, <3>2
      <4>2. Correct(table[x], x)
        BY <4>1 DEF TracedInv, Truth
      <4> QED
        BY <1>1, <4>2 DEF Correct
    <3> QED
      BY <3>1, <3>2
  <2> QED
    BY <2>1, <2>2, <2>3 DEF Truth
<1>11. \A x \in Lines : stored'[x] = IF x = line THEN FALSE ELSE stored[x]
  BY DEF TracedInv, HistoryOK
<1>12. Tracks'
  <2> SUFFICES ASSUME NEW g \in Frames, g.cache = "L2", tag_addr'[g] # INVALID_TAG
               PROVE  stored'[tag_addr'[g]] <=>
                        \E h \in Frames : tag_addr'[h] = tag_addr'[g] /\ dirty'[h]
    BY DEF Tracks
  <2>1. CASE g = v
    BY <1>2, <1>6, <1>7, <1>11, <2>1
  <2>2. CASE g # v
    <3>1. tag_addr'[g] = tag_addr[g] /\ tag_addr[g] \in Lines /\ tag_addr[g] # line
      BY <1>6, <1>7, <2>2 DEF IInv, Contents, TagAddrOK
    <3>2. tag_addr[v] # tag_addr[g]
      BY <1>4, <2>2, <3>1, PlaceFacts DEF IInv, Contents, Unique
    <3>3. stored[tag_addr[g]] <=> \E h \in Frames : tag_addr[h] = tag_addr[g] /\ dirty[h]
      BY <3>1, PlaceFacts DEF TracedInv, Tracks
    <3> QED
      BY <1>7, <1>11, <3>1, <3>2, <3>3
  <2> QED
    BY <2>1, <2>2
<1>13. HistoryOK'
  BY <1>2 DEF TracedInv, HistoryOK
<1>14. VictimPushed' /\ VictimWritten'
  BY RefillHanded DEF TracedInv, Handed
<1>15. Told'
  BY <1>1, ToldKept DEF TracedInv
<1>16. Requested'
  <2>1. \A c \in Children : ~ Has(c, line)'
    BY <1>1, <1>4, <1>6, <1>7 DEF Has
  <2>2. \A h \in Frames : h.cache = "L2" /\ tag_addr'[h] = line => tags_cheri'[h] = table[line]
    BY <1>6, <1>7
  <2> QED
    BY <1>1, <2>1, <2>2 DEF Requested, Emit
<1> QED
  BY <1>10, <1>12, <1>13, <1>14, <1>15, <1>16 DEF TracedInv

LEMMA FillTraced ==
    ASSUME IInv, TagInv, TracedInv, Fill, UNCHANGED <<memory, stored>>
    PROVE  TracedInv'
<1> DEFINE v == l1_victim
<1>1. /\ pc = "fill" /\ pc' = "use"
      /\ tag_addr' = [tag_addr EXCEPT ![v] = line]
      /\ tags_cheri' = [tags_cheri EXCEPT ![v] = tags_cheri[Find("L2", line)]]
      /\ dirty' = [dirty EXCEPT ![v] = FALSE]
      /\ request' = NoRequest
      /\ UNCHANGED <<table, access, line>>
  BY DEF Fill, FilledDirty
<1>2. /\ line \in Places /\ line # INVALID_TAG
      /\ Self \in Children /\ Self \in Caches /\ "L2" \in Caches /\ "L2" \notin Children
      /\ \A c \in Children : c = Self \/ c = Peer(Self)
  BY CacheNames, PlaceFacts DEF IInv, ControlOK, Children, Self, Peer
<1>3. v \in SetOf(Self, line) /\ ~ Has(Self, line) /\ Has("L2", line)
  BY <1>1 DEF IInv, Control, Missed1
<1>4. v \in Frames /\ v.cache = Self
  BY <1>2, <1>3, SetOfFacts
<1>5. PICK k \in Frames :
         /\ k = Find("L2", line) /\ k.cache = "L2" /\ tag_addr[k] = line
         /\ \A h \in Frames : h.cache = "L2" /\ tag_addr[h] = line => h = k
  BY <1>2, <1>3, FindFacts, SetOfFacts DEF IInv, Contents
<1>6. \A g \in Frames : g.cache \in Children /\ tag_addr[g] = line => ~ dirty[g]
  BY <1>1, <1>2, <1>3 DEF TagInv, Flushed, Has
<1>7. Correct(tags_cheri[k], line)
  BY <1>2, <1>5, <1>6 DEF TracedInv, Truth
<1> HIDE DEF v
<1>8. \A g \in Frames :
        /\ tag_addr'[g] = IF g = v THEN line ELSE tag_addr[g]
        /\ tags_cheri'[g] = IF g = v THEN tags_cheri[k] ELSE tags_cheri[g]
        /\ dirty'[g] = IF g = v THEN FALSE ELSE dirty[g]
  BY <1>1, <1>4, <1>5 DEF IInv, Contents, TagAddrOK, TagsOK, DirtyOK
<1>9. tag_addr[v] # INVALID_TAG =>
        \E h \in Frames : /\ h.cache = "L2" /\ tag_addr[h] = tag_addr[v]
                          /\ tags_cheri[h] = tags_cheri[v]
                          /\ dirty[v] => dirty[h]
  <2> SUFFICES ASSUME tag_addr[v] # INVALID_TAG
               PROVE  \E h \in Frames : /\ h.cache = "L2" /\ tag_addr[h] = tag_addr[v]
                                        /\ tags_cheri[h] = tags_cheri[v]
                                        /\ dirty[v] => dirty[h]
    OBVIOUS
  <2>1. PICK h \in Frames : h.cache = "L2" /\ tag_addr[h] = tag_addr[v]
    BY <1>2, <1>4 DEF IInv, Contents, Included, Has
  <2> QED
    BY <1>1, <2>1 DEF TracedInv, VictimPushed, Missed1, v
<1>10. tag_addr[v] # line
  BY <1>3, <1>4 DEF Has
\* A line has a dirty copy after the step if it had one before.
<1>11. \A x \in Lines : (\E g \in Frames : tag_addr'[g] = x /\ dirty'[g])
                          <=> (\E g \in Frames : tag_addr[g] = x /\ dirty[g])
  <2> SUFFICES ASSUME NEW x \in Lines
               PROVE  (\E g \in Frames : tag_addr'[g] = x /\ dirty'[g])
                        <=> (\E g \in Frames : tag_addr[g] = x /\ dirty[g])
    OBVIOUS
  <2>1. ASSUME NEW g \in Frames, tag_addr[g] = x, dirty[g]
        PROVE  \E h \in Frames : tag_addr'[h] = x /\ dirty'[h]
    <3>1. CASE g = v
      <4>1. PICK h \in Frames : h.cache = "L2" /\ tag_addr[h] = x /\ dirty[h]
        BY <1>9, <2>1, <3>1, PlaceFacts
      <4>2. h # v
        BY <1>2, <1>4, <4>1
      <4> QED
        BY <1>8, <4>1, <4>2
    <3>2. CASE g # v
      BY <1>8, <2>1, <3>2
    <3> QED
      BY <3>1, <3>2
  <2>2. ASSUME NEW g \in Frames, tag_addr'[g] = x, dirty'[g]
        PROVE  tag_addr[g] = x /\ dirty[g]
    BY <1>8, <2>2
  <2> QED
    BY <2>1, <2>2
<1>12. Truth'
  <2>1. ASSUME NEW g \in Frames, g.cache \in Children, tag_addr'[g] # INVALID_TAG
        PROVE  Correct(tags_cheri[g], tag_addr[g])'
    <3>1. CASE g = v
      BY <1>7, <1>8, <3>1 DEF Correct
    <3>2. CASE g # v
      <4>1. Correct(tags_cheri[g], tag_addr[g])
        BY <1>8, <2>1, <3>2 DEF TracedInv, Truth
      <4> QED
        BY <1>8, <3>2, <4>1 DEF Correct
    <3> QED
      BY <3>1, <3>2
  <2>2. ASSUME NEW g \in Frames, g.cache = "L2", tag_addr'[g] # INVALID_TAG,
               \A h \in Frames : h.cache \in Children /\ tag_addr'[h] = tag_addr'[g] => ~ dirty'[h]
        PROVE  Correct(tags_cheri[g], tag_addr[g])'
    <3>1. g # v /\ tag_addr'[g] = tag_addr[g] /\ tags_cheri'[g] = tags_cheri[g]
      BY <1>2, <1>4, <1>8, <2>2
    <3>2. CASE tag_addr[g] = tag_addr[v]
      <4>1. PICK h \in Frames : /\ h.cache = "L2" /\ tag_addr[h] = tag_addr[v]
                                /\ tags_cheri[h] = tags_cheri[v]
        BY <1>9, <2>2, <3>1, <3>2
      <4>2. h = g
        BY <2>2, <3>1, <3>2, <4>1 DEF IInv, Contents, Unique
      <4>3. Correct(tags_cheri[v], tag_addr[v])
        BY <1>2, <1>4, <2>2, <3>1, <3>2 DEF TracedInv, Truth
      <4> QED
        BY <3>1, <3>2, <4>1, <4>2, <4>3 DEF Correct
    <3>3. CASE tag_addr[g] # tag_addr[v]
      <4>1. Correct(tags_cheri[g], tag_addr[g])
        BY <1>8, <2>2, <3>1, <3>3 DEF TracedInv, Truth
      <4> QED
        BY <3>1, <4>1 DEF Correct
    <3> QED
      BY <3>2, <3>3
  <2>3. ASSUME NEW x \in Lines, \A g \in Frames : tag_addr'[g] = x => ~ dirty'[g]
        PROVE  Correct(table[x], x)'
    <3>1. Correct(table[x], x)
      BY <1>11, <2>3 DEF TracedInv, Truth
    <3> QED
      BY <1>1, <3>1 DEF Correct
  <2> QED
    BY <2>1, <2>2, <2>3 DEF Truth
<1>13. Tracks'
  <2> SUFFICES ASSUME NEW g \in Frames, g.cache = "L2", tag_addr'[g] # INVALID_TAG
               PROVE  stored'[tag_addr'[g]] <=>
                        \E h \in Frames : tag_addr'[h] = tag_addr'[g] /\ dirty'[h]
    BY DEF Tracks
  <2>1. tag_addr'[g] = tag_addr[g] /\ tag_addr[g] \in Lines
    BY <1>2, <1>4, <1>8 DEF IInv, Contents, TagAddrOK
  <2>2. stored[tag_addr[g]] <=> \E h \in Frames : tag_addr[h] = tag_addr[g] /\ dirty[h]
    BY <2>1 DEF TracedInv, Tracks
  <2> QED
    BY <1>11, <2>1, <2>2
<1>14. HistoryOK' /\ VictimPushed' /\ VictimWritten' /\ Requested'
  BY <1>1 DEF TracedInv, HistoryOK, VictimPushed, VictimWritten, Missed1, Requested, NoRequest
<1>15. Told'
  BY <1>1, ToldKept DEF TracedInv
<1> QED
  BY <1>12, <1>13, <1>14, <1>15 DEF TracedInv

\* The frame an access uses.
LEMMA UsedFrame ==
    ASSUME IInv, pc = "use"
    PROVE  /\ line \in Lines /\ line \in Places /\ line # INVALID_TAG
           /\ Find(Self, line) \in Frames
           /\ Find(Self, line).cache = Self
           /\ tag_addr[Find(Self, line)] = line
           /\ \A g \in Frames : g.cache = Self /\ tag_addr[g] = line => g = Find(Self, line)
           /\ Self \in Children
<1>1. line \in Places /\ Has(Self, line) /\ Self \in Caches /\ Self \in Children
  BY CacheNames DEF IInv, ControlOK, Control
<1>2. /\ Find(Self, line) \in Frames
      /\ Find(Self, line).cache = Self
      /\ tag_addr[Find(Self, line)] = line
      /\ \A g \in Frames : g.cache = Self /\ tag_addr[g] = line => g = Find(Self, line)
  BY <1>1, FindFacts, SetOfFacts DEF IInv, Contents
<1>3. line # INVALID_TAG
  BY <1>1, PlaceFacts
<1>4. line \in Lines
  BY <1>2, <1>3 DEF IInv, Contents, TagAddrOK
<1> QED
  BY <1>1, <1>2, <1>3, <1>4

\* The loop goes through the granules of the line that the machine accessed.
LEMMA AccessedGranules ==
    ASSUME IInv, pc = "use"
    PROVE  /\ GranulesIn(access, line) = Accessed(access, line)
           /\ GranulesIn(access, line) \in SUBSET Granules
<1>1. access \in Entries /\ line \in Places
  BY UsedFrame DEF IInv, Control
<1> QED
  BY <1>1, GranulesFacts DEF Accessed

\* The machine has shown its tags of the granules of the line that it loads.
LEMMA ToldTags ==
    ASSUME IInv, TracedInv, pc = "use", access.type \in {"INSTR", "CLOAD"}
    PROVE  IF access.tag = 1 THEN GranulesIn(access, line) \subseteq memory[line]
           ELSE GranulesIn(access, line) \cap memory[line] = {}
<1>1. access \in Entries /\ line <= LastLine(access) /\ line \in Nat
  BY UsedFrame, PlaceFacts DEF IInv, Control
<1>2. FirstLine(access) \in Nat /\ LastLine(access) \in Nat
  BY <1>1, LineFacts, PlaceFacts
<1>3. line \in FirstLine(access) .. LastLine(access)
  BY <1>1, <1>2 DEF TracedInv, Told
<1>4. access.tag \in {0, 1}
  BY <1>1 DEF Entries, Entry
<1>5. access.type = "INSTR" => access.tag = 0
  BY DEF TracedInv, Told, Consistent
<1>6. CASE access.type = "INSTR"
  BY <1>3, <1>5, <1>6, AccessedGranules DEF TracedInv, Told, Consistent
<1>7. CASE access.type = "CLOAD"
  BY <1>3, <1>7, AccessedGranules DEF TracedInv, Told, Consistent
<1> QED
  BY <1>6, <1>7

\* What a load shows is added to what was known, and nothing else changes.
LEMMA LearnedTags ==
    ASSUME IInv, TracedInv, pc = "use", access.type \in {"INSTR", "CLOAD"}
    PROVE  /\ Correct(NewTags, line)
           /\ NewTags = LET old == tags_cheri[Find(Self, line)]
                            told == GranulesIn(access, line)
                        IN [data |-> old.data \cup (memory[line] \cap told),
                            known |-> old.known \cup told]
<1> DEFINE old == tags_cheri[Find(Self, line)]
           told == GranulesIn(access, line)
<1>1. old.data = memory[line] \cap old.known
  BY UsedFrame DEF TracedInv, Truth, Correct
<1>2. IF access.tag = 1 THEN told \subseteq memory[line] ELSE told \cap memory[line] = {}
  BY ToldTags
<1>3. NewTags = [data  |-> IF access.tag = 1 THEN old.data \cup told ELSE old.data \ told,
                 known |-> old.known \cup told]
  BY DEF NewTags, TagsSet
<1> HIDE DEF old, told
<1>4. (IF access.tag = 1 THEN old.data \cup told ELSE old.data \ told)
        = old.data \cup (memory[line] \cap told)
  BY <1>1, <1>2
<1>5. NewTags = [data |-> old.data \cup (memory[line] \cap told),
                 known |-> old.known \cup told]
  BY <1>3, <1>4
<1>6. Correct(NewTags, line)
  BY <1>1, <1>5 DEF Correct
<1> QED
  BY <1>5, <1>6 DEF old, told

\* The next line, or the end of the entry.
LEMMA UseToldKept ==
    ASSUME IInv, TracedInv, pc = "use", NextLine,
           UNCHANGED <<request, l1_victim, l2_victim>>,
           access.type \in Stores \/ memory' = memory
    PROVE  VictimPushed' /\ VictimWritten' /\ Requested' /\ Told'
<1>1. pc' \in {"flush", "read"}
  BY DEF NextLine
<1>2. VictimPushed' /\ VictimWritten' /\ Requested'
  BY <1>1 DEF VictimPushed, VictimWritten, Missed1, TracedInv, Requested
<1>3. CASE pc' = "read"
  BY <1>2, <1>3 DEF Told
<1>4. CASE pc' = "flush"
  <2>1. access' = access /\ line' = line + 1
    BY <1>4 DEF NextLine
  <2>2. access \in Entries /\ line \in Nat
    BY UsedFrame, PlaceFacts DEF IInv, Control
  <2>3. FirstLine(access) \in Nat
    BY <2>2, LineFacts, PlaceFacts
  <2>4. Consistent(access) /\ FirstLine(access) <= line + 1
    BY <2>2, <2>3 DEF TracedInv, Told
  <2>5. Consistent(access)'
    <3>1. CASE memory' = memory
      BY <2>1, <2>4, <3>1 DEF Consistent
    <3>2. CASE access.type \in Stores
      <4>1. access.type # "INSTR" /\ access.type # "CLOAD"
        BY <3>2 DEF Stores
      <4> QED
        BY <2>1, <2>4, <4>1 DEF Consistent
    <3> QED
      BY <3>1, <3>2
  <2> QED
    BY <1>2, <2>1, <2>4, <2>5 DEF Told
<1> QED
  BY <1>1, <1>3, <1>4

LEMMA LoadTraced ==
    ASSUME IInv, TracedInv, Load, UNCHANGED <<memory, stored>>
    PROVE  TracedInv'
<1>1. /\ UNCHANGED <<tag_addr, tags_cheri, dirty, table, request, l1_victim, l2_victim>>
      /\ NextLine /\ pc = "use"
  BY DEF Load, lines_vars
<1>2. Truth' /\ Tracks' /\ HistoryOK'
  BY <1>1, QuietTruth DEF TracedInv, HistoryOK
<1> QED
  BY <1>1, <1>2, UseToldKept DEF TracedInv

LEMMA StoreTraced ==
    ASSUME IInv, TagInv, TracedInv, Store,
           memory' = [memory EXCEPT ![line] =
                        IF access.tag = 1 THEN @ \cup Accessed(access, line)
                        ELSE @ \ Accessed(access, line)],
           stored' = [stored EXCEPT ![line] = TRUE]
    PROVE  TracedInv'
<1> DEFINE f == Find(Self, line)
           G == Accessed(access, line)
<1>1. /\ pc = "use" /\ access.type \in Stores /\ NextLine
      /\ tags_cheri' = [tags_cheri EXCEPT ![f] = NewTags]
      /\ dirty' = [dirty EXCEPT ![f] = TRUE]
      /\ UNCHANGED <<tag_addr, table, request, l1_victim, l2_victim>>
  BY DEF Store
<1>2. /\ line \in Lines /\ line \in Places /\ line # INVALID_TAG
      /\ f \in Frames /\ f.cache = Self /\ tag_addr[f] = line
      /\ \A g \in Frames : g.cache = Self /\ tag_addr[g] = line => g = f
      /\ Self \in Children
  BY <1>1, UsedFrame
<1>3. \A g \in Frames : g.cache \in Children /\ tag_addr[g] = line => g = f
  <2>1. \A g \in Frames : g.cache \in Children => g.cache = Self \/ g.cache = Peer(Self)
    BY DEF Children, Self, Peer
  <2> QED
    BY <1>1, <1>2, <2>1 DEF TagInv, Flushed, Has
<1>4. Correct(tags_cheri[f], line)
  BY <1>2 DEF TracedInv, Truth
<1>5. NewTags = [data  |-> IF access.tag = 1 THEN tags_cheri[f].data \cup G
                           ELSE tags_cheri[f].data \ G,
                 known |-> tags_cheri[f].known \cup G]
  BY <1>1, AccessedGranules DEF NewTags, TagsSet
<1>6. G \subseteq Granules
  BY DEF Accessed
<1> HIDE DEF f, G
<1>7. /\ \A x \in Lines : x # line => memory'[x] = memory[x] /\ stored'[x] = stored[x]
      /\ memory'[line] = IF access.tag = 1 THEN memory[line] \cup G ELSE memory[line] \ G
      /\ stored'[line] = TRUE
  BY <1>2 DEF TracedInv, HistoryOK, G
<1>8. NewTags.data = memory'[line] \cap NewTags.known
  BY <1>4, <1>5, <1>7 DEF Correct
<1>9. \A g \in Frames : /\ tags_cheri'[g] = IF g = f THEN NewTags ELSE tags_cheri[g]
                        /\ dirty'[g] = IF g = f THEN TRUE ELSE dirty[g]
  BY <1>1 DEF IInv, TagsOK, DirtyOK
<1>10. Truth'
  <2>1. ASSUME NEW g \in Frames, g.cache \in Children, tag_addr[g] # INVALID_TAG
        PROVE  tags_cheri'[g].data = memory'[tag_addr[g]] \cap tags_cheri'[g].known
    <3>1. CASE g = f
      BY <1>2, <1>8, <1>9, <3>1
    <3>2. CASE g # f
      <4>1. tag_addr[g] # line /\ tag_addr[g] \in Lines
        BY <1>3, <2>1, <3>2 DEF IInv, Contents, TagAddrOK
      <4>2. Correct(tags_cheri[g], tag_addr[g])
        BY <2>1 DEF TracedInv, Truth
      <4> QED
        BY <1>7, <1>9, <3>2, <4>1, <4>2 DEF Correct
    <3> QED
      BY <3>1, <3>2
  <2>2. ASSUME NEW g \in Frames, g.cache = "L2", tag_addr[g] # INVALID_TAG,
               \A h \in Frames : h.cache \in Children /\ tag_addr[h] = tag_addr[g] => ~ dirty'[h]
        PROVE  tags_cheri'[g].data = memory'[tag_addr[g]] \cap tags_cheri'[g].known
    <3>1. tag_addr[g] # line /\ tag_addr[g] \in Lines
      BY <1>2, <1>9, <2>2 DEF IInv, Contents, TagAddrOK
    <3>2. g # f /\ \A h \in Frames : h.cache \in Children /\ tag_addr[h] = tag_addr[g] => ~ dirty[h]
      BY <1>2, <1>9, <2>2, <3>1
    <3>3. Correct(tags_cheri[g], tag_addr[g])
      BY <2>2, <3>2 DEF TracedInv, Truth
    <3> QED
      BY <1>7, <1>9, <3>1, <3>2, <3>3 DEF Correct
  <2>3. ASSUME NEW x \in Lines, \A g \in Frames : tag_addr[g] = x => ~ dirty'[g]
        PROVE  table[x].data = memory'[x] \cap table[x].known
    <3>1. x # line /\ \A g \in Frames : tag_addr[g] = x => ~ dirty[g]
      BY <1>2, <1>9, <2>3
    <3>2. Correct(table[x], x)
      BY <3>1 DEF TracedInv, Truth
    <3> QED
      BY <1>7, <3>1, <3>2 DEF Correct
  <2> QED
    BY <1>1, <2>1, <2>2, <2>3 DEF Truth, Correct
<1>11. Tracks'
  <2> SUFFICES ASSUME NEW g \in Frames, g.cache = "L2", tag_addr[g] # INVALID_TAG
               PROVE  stored'[tag_addr[g]] <=>
                        \E h \in Frames : tag_addr[h] = tag_addr[g] /\ dirty'[h]
    BY <1>1 DEF Tracks
  <2>1. CASE tag_addr[g] = line
    BY <1>2, <1>7, <1>9, <2>1
  <2>2. CASE tag_addr[g] # line
    <3>1. tag_addr[g] \in Lines
      BY DEF IInv, Contents, TagAddrOK
    <3>2. stored[tag_addr[g]] <=> \E h \in Frames : tag_addr[h] = tag_addr[g] /\ dirty[h]
      BY DEF TracedInv, Tracks
    <3> QED
      BY <1>2, <1>7, <1>9, <2>2, <3>1, <3>2
  <2> QED
    BY <2>1, <2>2
<1>12. HistoryOK'
  BY <1>2, <1>6 DEF TracedInv, HistoryOK, G
<1> QED
  BY <1>1, <1>10, <1>11, <1>12, UseToldKept DEF TracedInv

LEMMA LearnTraced ==
    ASSUME IInv, TagInv, TracedInv, Learn, UNCHANGED <<memory, stored>>
    PROVE  TracedInv'
<1> DEFINE f == Find(Self, line)
<1>1. /\ pc = "use" /\ access.type \in {"INSTR", "CLOAD"} /\ NextLine
      /\ tags_cheri' = [h \in Frames |->
                          IF h = f \/ (Shared /\ h \in Copies) THEN NewTags ELSE tags_cheri[h]]
      /\ UNCHANGED <<tag_addr, dirty, table, request, l1_victim, l2_victim>>
  BY LearnShared DEF Learn
<1>2. Correct(NewTags, line)
  BY <1>1, LearnedTags
<1>3. f \in Frames /\ tag_addr[f] = line
  BY <1>1, UsedFrame
<1>4. \A h \in Copies : tag_addr[h] = line
  BY DEF Copies, Holders
<1> HIDE DEF f
<1>5. \A g \in Frames : tags_cheri'[g] = tags_cheri[g]
                          \/ (tags_cheri'[g] = NewTags /\ tag_addr[g] = line)
  BY <1>1, <1>3, <1>4
<1>6. Truth'
  <2>1. \A g \in Frames : Correct(tags_cheri[g], tag_addr[g]) =>
          tags_cheri'[g].data = memory[tag_addr[g]] \cap tags_cheri'[g].known
    BY <1>2, <1>5 DEF Correct
  <2>2. \A x \in Lines : Correct(table[x], x) => Correct(table[x], x)'
    BY <1>1 DEF Correct
  <2> QED
    BY <1>1, <2>1, <2>2 DEF TracedInv, Truth, Correct
<1>7. Tracks' /\ HistoryOK'
  BY <1>1 DEF TracedInv, Tracks, HistoryOK
<1> QED
  BY <1>1, <1>6, <1>7, UseToldKept DEF TracedInv

-----------------------------------------------------------------------------
(* The assertions *)

\* Two copies of a line that are both right do not contradict each other.
LEMMA CorrectUpdate ==
    ASSUME NEW old, NEW new, NEW ln, Correct(old, ln), Correct(new, ln),
           old.known \subseteq new.known
    PROVE  "known_data_changed" \notin UpdateFaults(old, new)
<1>1. old.data \cap old.known = new.data \cap old.known
  BY DEF Correct
<1> QED
  BY <1>1 DEF UpdateFaults

LEMMA PushNoFaults ==
    ASSUME Contents, TagsOK, DirtyOK, Known, Writer, Truth,
           NEW f \in Frames, f.cache \in Children, tag_addr[f] # INVALID_TAG
    PROVE  PushFaults(f) = {}
<1>1. PushFaults(f) \subseteq {"known_data_changed"}
  BY PushFaultsOnly
<1>2. PICK ln \in Lines : ln = tag_addr[f]
  BY DEF Contents, TagAddrOK
<1>3. Cached("L2", ln) /\ ln \in Places /\ "L2" \in Caches
  BY <1>2, FindFacts, PlaceFacts, CacheNames DEF Contents, Included
<1>4. PICK to \in Frames : to = Find("L2", ln) /\ to.cache = "L2" /\ tag_addr[to] = ln
  BY <1>3, FindFacts, SetOfFacts DEF Contents
<1>5. FindFaults("L2", ln) = {}
  BY <1>3, FindNoFaults
<1>6. "known_data_changed" \notin PushFaults(f)
  <2>1. CASE dirty[f]
    BY <1>2, <1>3, <1>5, <2>1 DEF PushFaults
  <2>2. CASE ~ dirty[f]
    <3>1. \A g \in Frames : g.cache \in Children /\ tag_addr[g] = ln => ~ dirty[g]
      <4> SUFFICES ASSUME NEW g \in Frames, g.cache \in Children, tag_addr[g] = ln, dirty[g]
                   PROVE  FALSE
        OBVIOUS
      <4>1. g.cache = "L1D" /\ ~ Has("L1I", ln)
        BY <1>2 DEF Writer
      <4>2. f.cache = "L1D"
        BY <1>2, <4>1 DEF Has, Children
      <4>3. f = g
        BY <1>2, <4>1, <4>2 DEF Contents, Unique
      <4> QED
        BY <2>2, <4>3
    <3>2. Correct(tags_cheri[to], ln) /\ Correct(tags_cheri[f], ln)
      BY <1>2, <1>4, <3>1 DEF Truth
    <3>3. tags_cheri[to].known \subseteq tags_cheri[f].known
      BY <1>2, <1>4 DEF Known, KnownGrowsUpward
    <3>4. "known_data_changed" \notin UpdateFaults(tags_cheri[to], tags_cheri[f])
      BY <3>2, <3>3, CorrectUpdate
    <3> QED
      BY <1>2, <1>3, <1>4, <1>5, <2>2, <3>4 DEF PushFaults
  <2> QED
    BY <2>1, <2>2
<1> QED
  BY <1>1, <1>6

LEMMA ChildNoFaults ==
    ASSUME IInv, TagInv, TracedInv, NEW c \in Children, NEW ln \in Places
    PROVE  ChildFaults(c, ln) = {}
<1>1. c \in Caches /\ FindFaults(c, ln) = {}
  BY FindNoFaults, CacheNames DEF IInv
<1>2. ASSUME Cached(c, ln)
      PROVE  PushFaults(Find(c, ln)) = {}
  <2>1. PICK f \in Frames : f = Find(c, ln) /\ f.cache = c /\ tag_addr[f] = ln
    BY <1>1, <1>2, FindFacts, SetOfFacts DEF IInv, Contents
  <2> QED
    BY <2>1, PlaceFacts, PushNoFaults DEF IInv, TagInv, TracedInv
<1> QED
  BY <1>1, <1>2 DEF ChildFaults

LEMMA RequestNoFaults ==
    ASSUME IInv, TagInv, TracedInv, NEW c \in Caches
    PROVE  RequestFaults(c) = {}
<1>1. line \in Places /\ FindFaults(c, line) = {}
  BY FindNoFaults DEF IInv, ControlOK
<1>2. PICK victim \in SetOf(c, line) : victim = Victim(SetOf(c, line), tag_addr, counter)
  BY <1>1, SetScannable DEF IInv
<1>3. victim \in Frames /\ victim.cache = c
  BY <1>1, <1>2, SetOfFacts
<1>4. ScanFaults(SetOf(c, line), tag_addr, counter) = {}
  <2>1. DistinctOn(SetOf(c, line), counter)
    BY <1>1, SetScannable DEF IInv
  <2>2. \A f \in SetOf(c, line) : f.way \in Nat
    BY <1>1, SetOfFacts, FrameFacts
  <2> QED
    BY <2>1, <2>2, ScanUnambiguous
<1>5. ASSUME c \in Children, tag_addr[victim] # INVALID_TAG
      PROVE  PushFaults(victim) = {}
  BY <1>3, <1>5, PushNoFaults DEF IInv, TagInv, TracedInv
<1> QED
  BY <1>1, <1>2, <1>4, <1>5 DEF RequestFaults

LEMMA EvictNoFaults ==
    ASSUME IInv, TagInv, TracedInv, pc = "evict"
    PROVE  EvictFaults = {}
<1> DEFINE ln == tag_addr[l2_victim]
<1>1. EvictFaults \subseteq {"known_data_changed"}
  BY EvictFaultsOnly
<1>2. /\ line \in Places /\ l2_victim \in SetOf("L2", line) /\ ln # INVALID_TAG
      /\ \A c \in Children : ~ Has(c, ln)
  BY DEF IInv, ControlOK, Control, Missed2
<1>3. l2_victim \in Frames /\ l2_victim.cache = "L2" /\ ln \in Lines
  BY <1>2, SetOfFacts, CacheNames DEF IInv, Contents, TagAddrOK
<1>4. ASSUME ~ dirty[l2_victim]
      PROVE  "known_data_changed" \notin UpdateFaults(table[ln], tags_cheri[l2_victim])
  <2>1. \A g \in Frames : tag_addr[g] = ln => g = l2_victim
    <3> SUFFICES ASSUME NEW g \in Frames, tag_addr[g] = ln
                 PROVE  g = l2_victim
      OBVIOUS
    <3>1. g.cache = "L2"
      BY <1>2, FrameFacts, CacheNames DEF Has, Children
    <3> QED
      BY <1>2, <1>3, <3>1 DEF IInv, Contents, Unique
  <2>2. Correct(table[ln], ln)
    BY <1>3, <1>4, <2>1 DEF TracedInv, Truth
  <2>3. Correct(tags_cheri[l2_victim], ln)
    BY <1>2, <1>3, <1>4, <2>1 DEF TracedInv, Truth
  <2>4. table[ln].known \subseteq tags_cheri[l2_victim].known
    BY <1>2, <1>3 DEF TagInv, Known, KnownGrowsUpward
  <2> QED
    BY <2>2, <2>3, <2>4, CorrectUpdate
<1>5. "known_data_changed" \notin EvictFaults
  BY <1>4 DEF EvictFaults
<1> QED
  BY <1>1, <1>5

LEMMA UseNoFaults ==
    ASSUME IInv, TagInv, TracedInv, pc = "use"
    PROVE  UseFaults = {}
<1>1. access.type \in {"INSTR", "STORE"} => access.tag = 0
  BY DEF TracedInv, Told, Consistent
<1>2. ASSUME access.type \in {"INSTR", "CLOAD"}
      PROVE  LearnFaults = {}
  <2> DEFINE f == Find(Self, line)
             told == GranulesIn(access, line)
  <2>1. LearnFaults \subseteq {"tag_mismatch", "known_data_changed"}
    BY <1>2, LearnFaultsOnly
  <2>2. f \in Frames /\ tag_addr[f] = line /\ f.cache \in Children
        /\ line # INVALID_TAG /\ line \in Places
    BY UsedFrame
  <2>3. Correct(tags_cheri[f], line) /\ Correct(NewTags, line)
    BY <1>2, <2>2, LearnedTags DEF TracedInv, Truth
  <2>4. IF access.tag = 1 THEN told \subseteq memory[line] ELSE told \cap memory[line] = {}
    BY <1>2, ToldTags
  <2>5. ~ \E g \in told \cap tags_cheri[f].known : (g \in tags_cheri[f].data) # (access.tag = 1)
    BY <2>3, <2>4 DEF Correct
  <2>6. ASSUME Shared, NEW h \in Copies
        PROVE  "known_data_changed" \notin UpdateFaults(tags_cheri[h], NewTags)
    <3>1. /\ h \in Frames /\ tag_addr[h] = line
          /\ h.cache = "L2" \/ h.cache = Peer(Self)
      BY <2>2, SetOfFacts, CacheNames DEF Copies, Holders
    <3>2. \A g \in Frames : g.cache \in Children /\ tag_addr[g] = line => ~ dirty[g]
      <4> SUFFICES ASSUME NEW g \in Frames, g.cache \in Children, tag_addr[g] = line
                   PROVE  ~ dirty[g]
        OBVIOUS
      <4>1. Has(Peer(Self), line)
        BY <1>2, <2>6 DEF TagInv, Flushed, Stores
      <4>2. CASE g.cache = Peer(Self)
        BY <4>2 DEF TagInv, Flushed
      <4>3. CASE g.cache = Self
        <5>1. Self = "L1D" => Peer(Self) = "L1I"
          BY DEF Peer
        <5> QED
          BY <2>2, <4>1, <4>3, <5>1 DEF TagInv, Writer
      <4> QED
        BY <4>2, <4>3 DEF Children, Self, Peer
    <3>3. Correct(tags_cheri[h], line)
      <4>1. "L2" \notin Children /\ Peer(Self) \in Children
        BY CacheNames
      <4> QED
        BY <2>2, <3>1, <3>2, <4>1 DEF TracedInv, Truth
    <3>4. tags_cheri[h].known \subseteq NewTags.known
      <4>1. NewTags.known = tags_cheri[f].known \cup told
        BY DEF NewTags, TagsSet
      <4>2. tags_cheri[h].known \subseteq tags_cheri[f].known
        <5>1. Has("L2", line)
          BY <2>2 DEF IInv, Contents, Included
        <5>2. PICK k \in Frames : k.cache = "L2" /\ tag_addr[k] = line
          BY <5>1 DEF Has
        <5>3. h.cache = "L2" \/ tags_cheri[h] = tags_cheri[k]
          BY <3>1, <5>2 DEF TagInv, Flushed
        <5> QED
          BY <2>2, <3>1, <5>2, <5>3 DEF TagInv, Known, KnownGrowsUpward
      <4> QED
        BY <4>1, <4>2
    <3> QED
      BY <2>3, <3>3, <3>4, CorrectUpdate
  <2>7. "tag_mismatch" \notin LearnFaults
    <3>1. \A h : "tag_mismatch" \notin UpdateFaults(tags_cheri[h], NewTags)
      BY DEF UpdateFaults
    <3> QED
      BY <2>5, <3>1 DEF LearnFaults
  <2>8. "known_data_changed" \notin LearnFaults
    BY <2>6 DEF LearnFaults, Propagates
  <2> QED
    BY <2>1, <2>7, <2>8
<1> QED
  BY <1>1, <1>2 DEF UseFaults

\* No assertion of the devices fails.
LEMMA NoFaults ==
    ASSUME IInv, TagInv, TracedInv
    PROVE  Faults = {}
<1>1. line \in Places /\ pc \in Steps
  BY DEF IInv, ControlOK
<1>2. CASE pc = "flush"
  BY <1>1, <1>2, ChildNoFaults, CacheNames DEF Faults
<1>3. CASE pc = "request"
  BY <1>3, RequestNoFaults, CacheNames DEF Faults
<1>4. CASE pc = "forward"
  BY <1>4, RequestNoFaults, CacheNames DEF Faults
<1>5. CASE pc \in Children
  <2>1. l2_victim \in SetOf("L2", line) /\ tag_addr[l2_victim] # INVALID_TAG
    BY <1>5 DEF IInv, Control, Missed2, Children
  <2>2. tag_addr[l2_victim] \in Places
    BY <1>1, <2>1, SetOfFacts, PlaceFacts, CacheNames DEF IInv, Contents, TagAddrOK
  <2>3. pc \notin {"flush", "request", "forward", "evict", "refill", "use"}
    BY <1>5 DEF Children
  <2>4. Faults = ChildFaults(pc, tag_addr[l2_victim])
    BY <1>5, <2>3 DEF Faults
  <2> QED
    BY <1>5, <2>2, <2>4, ChildNoFaults
<1>6. CASE pc = "evict"
  BY <1>6, EvictNoFaults DEF Faults, Children
<1>7. CASE pc = "refill"
  <2>1. access \in Entries /\ line <= LastLine(access)
    BY <1>7 DEF IInv, Control
  <2>2. access.last \in Addresses
    BY <1>7 DEF TracedInv, Told, Consistent
  <2>3. LastLine(access) \in Nat /\ LastLine(access) < NumLines
    <3>1. GranulesPerLine \in 1 .. 8 /\ NumLines \in Nat \ {0}
      BY ConstantFacts
    <3>2. access.last \in 0 .. NumLines * GranulesPerLine - 1
      BY <2>2 DEF Addresses
    <3>3. GranulesPerLine = 1 \/ GranulesPerLine = 2 \/ GranulesPerLine = 3 \/ GranulesPerLine = 4
          \/ GranulesPerLine = 5 \/ GranulesPerLine = 6 \/ GranulesPerLine = 7
          \/ GranulesPerLine = 8
      BY <3>1
    <3> QED
      BY <3>1, <3>2, <3>3 DEF LastLine
  <2>4. line \in Lines
    BY <1>1, <2>1, <2>3, ConstantFacts, PlaceFacts DEF Lines
  <2>5. Masked(table[line])
    BY <2>4 DEF TagInv, Known, AllMasked
  <2> QED
    BY <1>7, <2>4, <2>5 DEF Faults, RefillFaults, Children
<1>8. CASE pc = "use"
  BY <1>8, UseNoFaults DEF Faults, Children
<1>9. CASE pc \in {"read", "fill"}
  BY <1>9 DEF Faults, Children
<1>10. \/ pc \in {"flush", "request", "forward", "evict"} \/ pc \in Children
       \/ pc \in {"refill", "use"} \/ pc \in {"read", "fill"}
  BY <1>1 DEF Steps, Children
<1> QED
  BY <1>2, <1>3, <1>4, <1>5, <1>6, <1>7, <1>8, <1>9, <1>10

-----------------------------------------------------------------------------
(* All steps *)

Safe == IInv /\ TagInv /\ TracedInv /\ failed = {}

LEMMA InitSafe == TracedInit => Safe
<1>1. TracedInit => Init
  BY DEF TracedInit
<1>2. Init => failed = {}
  BY DEF Init
<1> QED
  BY <1>1, <1>2, InitIInv, InitTags, InitTraced DEF Safe, TracedInv

\* What a step of the simulation is: no assertion fails, one device has gone
\* on, and only stores and refills are noted.
LEMMA SimulateStep ==
    ASSUME Safe, TracedSimulate
    PROVE  /\ Faults = {} /\ failed' = failed
           /\ \/ Store /\ TracedStore
              \/ Refill /\ TracedRefill
              \/ /\ UNCHANGED <<memory, stored>>
                 /\ \/ NotifyPeers \/ RequestHit \/ RequestMiss \/ ForwardHit \/ ForwardMiss
                    \/ \E child \in Children : BackInvalidate(child)
                    \/ Evict \/ Fill \/ Load \/ Learn
<1>1. Faults = {}
  BY NoFaults DEF Safe
<1>2. Step /\ UNCHANGED failed
  BY <1>1 DEF TracedSimulate, TracedStore, TracedRefill, TracedOther, Simulate, Abort
<1>3. Store => Storing
  BY DEF Store, Storing
<1>4. Refill => Refilling /\ ~ Storing
  BY <1>1 DEF Refill, Refilling, Storing
<1>5. Step /\ Storing => Store
  BY DEF Step, Storing, NotifyPeers, RequestHit, RequestMiss, ForwardHit, ForwardMiss,
         BackInvalidate, Children, Evict, Refill, Fill, Load, Store, Learn, Stores
<1>6. Step /\ Refilling => Refill
  BY DEF Step, Refilling, NotifyPeers, RequestHit, RequestMiss, ForwardHit, ForwardMiss,
         BackInvalidate, Children, Evict, Refill, Fill, Load, Store, Learn
<1>7. CASE TracedStore
  BY <1>1, <1>2, <1>5, <1>7 DEF TracedStore
<1>8. CASE TracedRefill
  BY <1>1, <1>2, <1>6, <1>8 DEF TracedRefill
<1>9. CASE TracedOther
  BY <1>1, <1>2, <1>3, <1>4, <1>9 DEF TracedOther, Step
<1> QED
  BY <1>7, <1>8, <1>9 DEF TracedSimulate

LEMMA SimulateTraced ==
    ASSUME Safe, TracedSimulate
    PROVE  TracedInv' /\ failed' = {}
<1>1. failed' = {}
  BY SimulateStep DEF Safe
<1>2. CASE Store /\ TracedStore
  BY <1>1, <1>2, StoreTraced DEF Safe, TracedStore
<1>3. CASE Refill /\ TracedRefill
  <2>1. Refill /\ Faults = {} /\ memory' = memory /\ stored' = [stored EXCEPT ![line] = FALSE]
    BY <1>3, SimulateStep DEF TracedRefill
  <2> QED
    BY <1>1, <2>1, RefillTraced DEF Safe
<1>4. CASE /\ UNCHANGED <<memory, stored>>
           /\ \/ NotifyPeers \/ RequestHit \/ RequestMiss \/ ForwardHit \/ ForwardMiss
              \/ \E child \in Children : BackInvalidate(child)
              \/ Evict \/ Fill \/ Load \/ Learn
  BY <1>1, <1>4, NotifyTraced, RequestHitTraced, RequestMissTraced, ForwardTraced,
     BackInvalidateTraced, EvictTraced, FillTraced, LoadTraced, LearnTraced
  DEF Safe
<1> QED
  BY <1>2, <1>3, <1>4, SimulateStep

LEMMA NextSafe == Safe /\ [TracedNext]_traced_vars => Safe'
<1> SUFFICES ASSUME Safe, [TracedNext]_traced_vars PROVE Safe'
  OBVIOUS
<1>1. IInv' /\ TagInv'
  BY TracedIsNext, NextIInv, NextTags DEF Safe
<1>2. CASE TracedRead
  <2>1. PICK e \in Entries : Consistent(e) /\ ReadEntry(e)
    BY <1>2 DEF TracedRead
  <2>2. TracedInv' /\ failed' = {}
    BY <1>2, <2>1, ReadTraced DEF Safe, TracedRead
  <2> QED
    BY <1>1, <2>2 DEF Safe
<1>3. CASE TracedSimulate
  BY <1>1, <1>3, SimulateTraced DEF Safe
<1>4. CASE UNCHANGED traced_vars
  <2>1. UNCHANGED <<tag_addr, tags_cheri, dirty, table, memory, stored, request, pc,
                    access, line, l1_victim, l2_victim, failed>>
    BY <1>4 DEF traced_vars, vars, lines_vars, control_vars
  <2>2. Truth' /\ Tracks'
    BY <2>1, QuietTruth DEF Safe, TracedInv
  <2>3. HistoryOK' /\ VictimPushed' /\ VictimWritten' /\ Told' /\ Requested' /\ failed' = {}
    BY <2>1 DEF Safe, TracedInv, HistoryOK, VictimPushed, VictimWritten, Told,
       Consistent, Requested, Has
  <2> QED
    BY <1>1, <2>2, <2>3 DEF Safe, TracedInv
<1> QED
  BY <1>2, <1>3, <1>4 DEF TracedNext

\* The invariant of the caches, of their tags and of the machine they follow
\* holds in every execution.
THEOREM TracedInvariance == TracedSpec => []Safe
BY InitSafe, NextSafe, PTL DEF TracedSpec

\* Where the newest copy of a line is.
NewestCopy ==
    \A ln \in Lines :
      /\ \A g \in Frames : g.cache \in Children /\ tag_addr[g] = ln =>
           View(ln) = tags_cheri[g]
      /\ \A g \in Frames :
           /\ g.cache = "L2" /\ tag_addr[g] = ln
           /\ \A h \in Frames : h.cache \in Children => tag_addr[h] # ln
           => View(ln) = tags_cheri[g]
      /\ (\A g \in Frames : tag_addr[g] # ln) => View(ln) = table[ln]

LEMMA NewestCopyIs == IInv /\ TagInv => NewestCopy
<1> SUFFICES ASSUME IInv, TagInv, NEW ln \in Lines
             PROVE  /\ \A g \in Frames : g.cache \in Children /\ tag_addr[g] = ln =>
                         View(ln) = tags_cheri[g]
                    /\ \A g \in Frames :
                         /\ g.cache = "L2" /\ tag_addr[g] = ln
                         /\ \A h \in Frames : h.cache \in Children => tag_addr[h] # ln
                         => View(ln) = tags_cheri[g]
                    /\ (\A g \in Frames : tag_addr[g] # ln) => View(ln) = table[ln]
  BY DEF NewestCopy
<1>1. \A c \in Caches :
        /\ Cached(c, ln) <=> Has(c, ln)
        /\ Cached(c, ln) =>
             \A f \in Frames : f.cache = c /\ tag_addr[f] = ln => f = Find(c, ln)
  BY FindFacts, PlaceFacts DEF IInv, Contents
<1>2. "L1D" \in Caches /\ "L1I" \in Caches /\ "L2" \in Caches
  BY DEF Caches
<1>3. ASSUME NEW g \in Frames, g.cache \in Children, tag_addr[g] = ln
      PROVE  View(ln) = tags_cheri[g]
  <2>1. CASE g.cache = "L1D"
    BY <1>1, <1>2, <1>3, <2>1 DEF View, Has
  <2>2. CASE g.cache = "L1I" /\ ~ Has("L1D", ln)
    BY <1>1, <1>2, <1>3, <2>2 DEF View, Has
  <2>3. CASE g.cache = "L1I" /\ Has("L1D", ln)
    <3>1. PICK d \in Frames : d.cache = "L1D" /\ tag_addr[d] = ln
      BY <2>3 DEF Has
    <3>2. View(ln) = tags_cheri[d]
      BY <1>1, <1>2, <2>3, <3>1 DEF View
    <3>3. ln # INVALID_TAG /\ Has("L2", ln)
      BY <1>3, PlaceFacts DEF IInv, Contents, Included
    <3>4. tags_cheri[g] = tags_cheri[d]
      BY <1>3, <2>3, <3>1, <3>3 DEF Has, TagInv, Known, SharersAgree
    <3> QED
      BY <3>2, <3>4
  <2> QED
    BY <1>3, <2>1, <2>2, <2>3 DEF Children
<1>4. ASSUME NEW g \in Frames, g.cache = "L2", tag_addr[g] = ln,
             \A h \in Frames : h.cache \in Children => tag_addr[h] # ln
      PROVE  View(ln) = tags_cheri[g]
  <2>1. ~ Has("L1D", ln) /\ ~ Has("L1I", ln) /\ Has("L2", ln)
    BY <1>4 DEF Has, Children
  <2> QED
    BY <1>1, <1>2, <1>4, <2>1 DEF View
<1>5. ASSUME \A g \in Frames : tag_addr[g] # ln
      PROVE  View(ln) = table[ln]
  <2>1. ~ Has("L1D", ln) /\ ~ Has("L1I", ln) /\ ~ Has("L2", ln)
    BY <1>5 DEF Has
  <2> QED
    BY <1>1, <1>2, <2>1 DEF View
<1> QED
  BY <1>3, <1>4, <1>5

-----------------------------------------------------------------------------
(* The newest copies, step by step *)

SameViews == \A ln \in Lines : View(ln)' = View(ln)

LEMMA QuietViews ==
    ASSUME IInv, NewestCopy, NewestCopy', UNCHANGED <<tag_addr, tags_cheri, table>>
    PROVE  SameViews
<1> SUFFICES ASSUME NEW ln \in Lines PROVE View(ln)' = View(ln)
  BY DEF SameViews
<1>1. CASE \E g \in Frames : g.cache \in Children /\ tag_addr[g] = ln
  BY <1>1 DEF NewestCopy
<1>2. CASE /\ ~ \E g \in Frames : g.cache \in Children /\ tag_addr[g] = ln
           /\ \E g \in Frames : g.cache = "L2" /\ tag_addr[g] = ln
  BY <1>2 DEF NewestCopy
<1>3. CASE \A g \in Frames : tag_addr[g] # ln
  BY <1>3 DEF NewestCopy
<1> QED
  BY <1>1, <1>2, <1>3, FrameFacts, CacheNames DEF Children

LEMMA PushViews ==
    ASSUME IInv, NewestCopy, NewestCopy',
           NEW f \in Frames, f.cache \in Children, tag_addr[f] # INVALID_TAG,
           tags_cheri' = PushTags(f),
           \A g \in Frames : g # f => tag_addr'[g] = tag_addr[g],
           tag_addr'[f] = tag_addr[f] \/ tag_addr'[f] = INVALID_TAG,
           UNCHANGED table
    PROVE  SameViews
<1>1. PICK to \in Frames :
        /\ to.cache = "L2" /\ tag_addr[to] = tag_addr[f]
        /\ \A g \in Frames : PushTags(f)[g] = IF g = to THEN tags_cheri[f] ELSE tags_cheri[g]
  <2>1. Contents /\ TagsOK /\ DirtyOK
    BY DEF IInv
  <2>2. PICK to \in Frames :
          /\ to.cache = "L2" /\ tag_addr[to] = tag_addr[f]
          /\ \A g \in Frames :
               /\ PushTags(f)[g] = IF g = to THEN tags_cheri[f] ELSE tags_cheri[g]
               /\ PushDirty(f)[g] = IF g = to /\ dirty[f] THEN TRUE ELSE dirty[g]
    BY <2>1, PushFrames
  <2> QED
    BY <2>2
<1>2. "L2" \notin Children /\ f # to /\ tag_addr'[to] = tag_addr[to]
  BY <1>1, CacheNames
<1>3. \A g \in Frames : g # to => tags_cheri'[g] = tags_cheri[g]
  BY <1>1
<1>4. tags_cheri'[to] = tags_cheri[f]
  BY <1>1
<1>5. \A ln \in Lines : ln # INVALID_TAG
  BY PlaceFacts
<1> SUFFICES ASSUME NEW ln \in Lines PROVE View(ln)' = View(ln)
  BY DEF SameViews
<1>6. CASE \E g \in Frames : g.cache \in Children /\ tag_addr'[g] = ln
  <2>1. PICK g \in Frames : g.cache \in Children /\ tag_addr'[g] = ln
    BY <1>6
  <2>2. tag_addr[g] = ln /\ g # to
    BY <1>1, <1>2, <1>5, <2>1
  <2> QED
    BY <1>3, <2>1, <2>2 DEF NewestCopy
<1>7. CASE /\ \A g \in Frames : g.cache \in Children => tag_addr'[g] # ln
           /\ tag_addr[f] = ln
  <2>1. View(ln) = tags_cheri[f]
    BY <1>7 DEF NewestCopy
  <2>2. View(ln)' = tags_cheri'[to]
    BY <1>1, <1>2, <1>7 DEF NewestCopy
  <2> QED
    BY <1>4, <2>1, <2>2
<1>8. CASE /\ \A g \in Frames : g.cache \in Children => tag_addr'[g] # ln
           /\ tag_addr[f] # ln
  <2>1. \A g \in Frames : tag_addr'[g] = ln <=> tag_addr[g] = ln
    BY <1>5, <1>8
  <2>2. CASE \E g \in Frames : g.cache = "L2" /\ tag_addr[g] = ln
    <3>1. PICK g \in Frames : g.cache = "L2" /\ tag_addr[g] = ln
      BY <2>2
    <3>2. g # to
      BY <1>1, <1>8, <3>1
    <3>3. View(ln) = tags_cheri[g] /\ View(ln)' = tags_cheri'[g]
      BY <1>8, <2>1, <3>1 DEF NewestCopy
    <3> QED
      BY <1>3, <3>2, <3>3
  <2>3. CASE \A g \in Frames : g.cache = "L2" => tag_addr[g] # ln
    <3>1. \A g \in Frames : tag_addr[g] # ln /\ tag_addr'[g] # ln
      BY <1>8, <2>1, <2>3, FrameFacts, CacheNames DEF Children
    <3> QED
      BY <3>1 DEF NewestCopy
  <2> QED
    BY <2>2, <2>3
<1> QED
  BY <1>6, <1>7, <1>8

LEMMA NotifyViews ==
    ASSUME IInv, NewestCopy, NewestCopy', NotifyPeers
    PROVE  SameViews
<1>1. /\ line \in Places /\ Peer(Self) \in Caches /\ Peer(Self) \in Children
      /\ line # INVALID_TAG /\ UNCHANGED table
  BY CacheNames, PlaceFacts DEF IInv, ControlOK, NotifyPeers
<1>2. CASE Cached(Peer(Self), line)
  <2>1. PICK f \in Frames : /\ f = Find(Peer(Self), line)
                            /\ f.cache = Peer(Self)
                            /\ tag_addr[f] = line
    BY <1>1, <1>2, FindFacts, SetOfFacts DEF IInv, Contents
  <2>2. tags_cheri' = PushTags(f) /\ tag_addr' = DropOnStore(f)
    BY <1>2, <2>1 DEF NotifyPeers
  <2>3. /\ \A g \in Frames : g # f => tag_addr'[g] = tag_addr[g]
        /\ tag_addr'[f] = tag_addr[f] \/ tag_addr'[f] = INVALID_TAG
    BY <2>2 DEF DropOnStore, IInv, Contents, TagAddrOK
  <2> QED
    BY <1>1, <2>1, <2>2, <2>3, PushViews
<1>3. CASE ~ Cached(Peer(Self), line)
  BY <1>1, <1>3, QuietViews DEF NotifyPeers
<1> QED
  BY <1>2, <1>3

LEMMA RequestMissViews ==
    ASSUME IInv, NewestCopy, NewestCopy', RequestMiss
    PROVE  SameViews
<1>1. PICK victim \in SetOf(Self, line) : victim = Victim(SetOf(Self, line), tag_addr, counter)
  BY SetScannable, CacheNames DEF IInv, ControlOK
<1>2. /\ victim \in Frames /\ victim.cache \in Children
      /\ UNCHANGED <<tag_addr, table>>
  BY <1>1, CacheNames, SetOfFacts DEF IInv, ControlOK, RequestMiss
<1>3. CASE tag_addr[victim] = INVALID_TAG
  BY <1>1, <1>2, <1>3, QuietViews DEF RequestMiss
<1>4. CASE tag_addr[victim] # INVALID_TAG
  <2>1. tags_cheri' = PushTags(victim)
    BY <1>1, <1>4 DEF RequestMiss
  <2> QED
    BY <1>2, <1>4, <2>1, PushViews
<1> QED
  BY <1>3, <1>4

LEMMA BackInvalidateViews ==
    ASSUME IInv, NewestCopy, NewestCopy', NEW child \in Children, BackInvalidate(child)
    PROVE  SameViews
<1> DEFINE ln == tag_addr[l2_victim]
<1>1. pc \in {"L1I", "L1D"} /\ UNCHANGED table /\ child \in Caches /\ line \in Places
  BY CacheNames DEF BackInvalidate, Children, IInv, ControlOK
<1>2. l2_victim \in SetOf("L2", line) /\ ln # INVALID_TAG
  BY <1>1 DEF IInv, Control, Missed2
<1>3. ln \in Lines
  BY <1>1, <1>2, SetOfFacts, CacheNames DEF IInv, Contents, TagAddrOK
<1>4. CASE Cached(child, ln)
  <2>1. PICK f \in Frames : f = Find(child, ln) /\ f.cache = child /\ tag_addr[f] = ln
    BY <1>1, <1>3, <1>4, FindFacts, SetOfFacts, PlaceFacts DEF IInv, Contents
  <2>2. /\ tags_cheri' = PushTags(f)
        /\ tag_addr' = [tag_addr EXCEPT ![f] = INVALID_TAG]
    BY <1>4, <2>1 DEF BackInvalidate, DropChild
  <2>3. \A g \in Frames : tag_addr'[g] = IF g = f THEN INVALID_TAG ELSE tag_addr[g]
    BY <2>2 DEF IInv, Contents, TagAddrOK
  <2> HIDE DEF ln
  <2> QED
    BY <1>1, <1>2, <2>1, <2>2, <2>3, PushViews
<1>5. CASE ~ Cached(child, ln)
  BY <1>1, <1>5, QuietViews DEF BackInvalidate
<1> QED
  BY <1>4, <1>5

LEMMA EvictViews ==
    ASSUME IInv, NewestCopy, NewestCopy', Evict
    PROVE  SameViews
<1>1. /\ UNCHANGED <<tag_addr, tags_cheri>> /\ pc = "evict" /\ line \in Places
      /\ table' = [table EXCEPT ![tag_addr[l2_victim]] = tags_cheri[l2_victim]]
  BY DEF Evict, Evicted, lines_vars, IInv, ControlOK
<1>2. l2_victim \in Frames
  BY <1>1, SetOfFacts, CacheNames DEF IInv, Control, Missed2
<1> SUFFICES ASSUME NEW ln \in Lines PROVE View(ln)' = View(ln)
  BY DEF SameViews
<1>3. CASE \E g \in Frames : g.cache \in Children /\ tag_addr[g] = ln
  BY <1>1, <1>3 DEF NewestCopy
<1>4. CASE /\ ~ \E g \in Frames : g.cache \in Children /\ tag_addr[g] = ln
           /\ \E g \in Frames : g.cache = "L2" /\ tag_addr[g] = ln
  BY <1>1, <1>4 DEF NewestCopy
<1>5. CASE \A g \in Frames : tag_addr[g] # ln
  <2>1. table'[ln] = table[ln]
    BY <1>1, <1>2, <1>5 DEF IInv, TagsOK
  <2> QED
    BY <1>1, <1>5, <2>1 DEF NewestCopy
<1> QED
  BY <1>3, <1>4, <1>5, FrameFacts, CacheNames DEF Children

LEMMA RefillViews ==
    ASSUME IInv, Handed, NewestCopy, NewestCopy', Refill, Faults = {}
    PROVE  SameViews
<1> DEFINE v == l2_victim
<1>1. /\ pc = "refill"
      /\ tag_addr' = [tag_addr EXCEPT ![v] = line]
      /\ tags_cheri' = [tags_cheri EXCEPT ![v] = table[line]]
      /\ UNCHANGED table
  BY DEF Refill
<1>2. line \in Lines /\ line \in Places /\ line # INVALID_TAG
  BY PlaceFacts DEF Refill, Faults, RefillFaults, Children, IInv, ControlOK
<1>3. /\ v \in SetOf("L2", line) /\ ~ Has("L2", line)
      /\ tag_addr[v] # INVALID_TAG => \A c \in Children : ~ Has(c, tag_addr[v])
  BY <1>1 DEF IInv, Control, Missed2
<1>4. v \in Frames /\ v.cache = "L2" /\ v.cache \notin Children
  BY <1>2, <1>3, SetOfFacts, CacheNames
<1>5. \A c \in Children : ~ Has(c, line)
  BY <1>2, <1>3 DEF IInv, Contents, Included, Has
<1>6. \A g \in Frames : tag_addr[g] # line
  BY <1>3, <1>5, FrameFacts, CacheNames DEF Has, Children
<1>7. tag_addr[v] # INVALID_TAG => table[tag_addr[v]] = tags_cheri[v]
  BY <1>1 DEF Handed, VictimWritten
<1> HIDE DEF v
<1>8. \A g \in Frames :
        /\ tag_addr'[g] = IF g = v THEN line ELSE tag_addr[g]
        /\ tags_cheri'[g] = IF g = v THEN table[line] ELSE tags_cheri[g]
  BY <1>1, <1>4 DEF IInv, Contents, TagAddrOK, TagsOK
<1>9. \A x \in Lines : x # INVALID_TAG
  BY PlaceFacts
<1> SUFFICES ASSUME NEW ln \in Lines PROVE View(ln)' = View(ln)
  BY DEF SameViews
<1>10. CASE ln = line
  <2>1. View(ln) = table[line]
    BY <1>6, <1>10 DEF NewestCopy
  <2>2. View(ln)' = tags_cheri'[v]
    BY <1>4, <1>6, <1>8, <1>10 DEF NewestCopy
  <2> QED
    BY <1>4, <1>8, <2>1, <2>2
<1>11. CASE ln # line /\ \E g \in Frames : g.cache \in Children /\ tag_addr[g] = ln
  <2>1. PICK g \in Frames : g.cache \in Children /\ tag_addr[g] = ln
    BY <1>11
  <2>2. tag_addr'[g] = ln /\ tags_cheri'[g] = tags_cheri[g]
    BY <1>4, <1>8, <2>1
  <2> QED
    BY <2>1, <2>2 DEF NewestCopy
<1>12. CASE /\ ln # line
            /\ \A g \in Frames : g.cache \in Children => tag_addr[g] # ln
  <2>1. \A g \in Frames : g.cache \in Children => tag_addr'[g] # ln
    BY <1>8, <1>12
  <2>2. CASE tag_addr[v] = ln
    <3>1. \A g \in Frames : tag_addr'[g] # ln
      <4> SUFFICES ASSUME NEW g \in Frames, tag_addr'[g] = ln PROVE FALSE
        OBVIOUS
      <4>1. g # v /\ tag_addr[g] = ln /\ g.cache = "L2"
        BY <1>8, <1>12, FrameFacts, CacheNames DEF Children
      <4> QED
        BY <1>4, <1>9, <2>2, <4>1 DEF IInv, Contents, Unique
    <3>2. View(ln) = tags_cheri[v]
      BY <1>4, <1>12, <2>2 DEF NewestCopy
    <3>3. View(ln)' = table[ln]
      BY <1>1, <3>1 DEF NewestCopy
    <3> QED
      BY <1>7, <1>9, <2>2, <3>2, <3>3
  <2>3. CASE tag_addr[v] # ln /\ \E g \in Frames : g.cache = "L2" /\ tag_addr[g] = ln
    <3>1. PICK g \in Frames : g.cache = "L2" /\ tag_addr[g] = ln
      BY <2>3
    <3>2. tag_addr'[g] = ln /\ tags_cheri'[g] = tags_cheri[g]
      BY <1>8, <2>3, <3>1
    <3> QED
      BY <1>12, <2>1, <3>1, <3>2 DEF NewestCopy
  <2>4. CASE \A g \in Frames : g.cache = "L2" => tag_addr[g] # ln
    <3>1. \A g \in Frames : tag_addr[g] # ln /\ tag_addr'[g] # ln
      BY <1>8, <1>12, <2>4, FrameFacts, CacheNames DEF Children
    <3> QED
      BY <1>1, <3>1 DEF NewestCopy
  <2> QED
    BY <2>2, <2>3, <2>4
<1> QED
  BY <1>10, <1>11, <1>12

LEMMA FillViews ==
    ASSUME IInv, TagInv, Handed, NewestCopy, NewestCopy', Fill
    PROVE  SameViews
<1> DEFINE v == l1_victim
<1>1. /\ pc = "fill"
      /\ tag_addr' = [tag_addr EXCEPT ![v] = line]
      /\ tags_cheri' = [tags_cheri EXCEPT ![v] = tags_cheri[Find("L2", line)]]
      /\ UNCHANGED table
  BY DEF Fill
<1>2. /\ line \in Places /\ line # INVALID_TAG
      /\ Self \in Children /\ Self \in Caches /\ "L2" \in Caches /\ "L2" \notin Children
      /\ \A c \in Children : c = Self \/ c = Peer(Self)
  BY CacheNames, PlaceFacts DEF IInv, ControlOK, Children, Self, Peer
<1>3. v \in SetOf(Self, line) /\ ~ Has(Self, line) /\ Has("L2", line)
  BY <1>1 DEF IInv, Control, Missed1
<1>4. v \in Frames /\ v.cache = Self
  BY <1>2, <1>3, SetOfFacts
<1>5. PICK k \in Frames : k = Find("L2", line) /\ k.cache = "L2" /\ tag_addr[k] = line
  BY <1>2, <1>3, FindFacts, SetOfFacts DEF IInv, Contents
<1>6. \A g \in Frames : g.cache \in Children /\ tag_addr[g] = line => tags_cheri[g] = tags_cheri[k]
  BY <1>1, <1>2, <1>3, <1>5 DEF TagInv, Flushed, Has
<1>7. tag_addr[v] # INVALID_TAG =>
        \E h \in Frames : /\ h.cache = "L2" /\ tag_addr[h] = tag_addr[v]
                          /\ tags_cheri[h] = tags_cheri[v]
  <2> SUFFICES ASSUME tag_addr[v] # INVALID_TAG
               PROVE  \E h \in Frames : /\ h.cache = "L2" /\ tag_addr[h] = tag_addr[v]
                                        /\ tags_cheri[h] = tags_cheri[v]
    OBVIOUS
  <2>1. PICK h \in Frames : h.cache = "L2" /\ tag_addr[h] = tag_addr[v]
    BY <1>2, <1>4 DEF IInv, Contents, Included, Has
  <2> QED
    BY <1>1, <2>1 DEF Handed, VictimPushed, Missed1, v
<1>8. tag_addr[v] # line
  BY <1>3, <1>4 DEF Has
<1> HIDE DEF v
<1>9. \A g \in Frames :
        /\ tag_addr'[g] = IF g = v THEN line ELSE tag_addr[g]
        /\ tags_cheri'[g] = IF g = v THEN tags_cheri[k] ELSE tags_cheri[g]
  BY <1>1, <1>4, <1>5 DEF IInv, Contents, TagAddrOK, TagsOK
<1> SUFFICES ASSUME NEW ln \in Lines PROVE View(ln)' = View(ln)
  BY DEF SameViews
<1>10. CASE ln = line
  <2>1. View(ln)' = tags_cheri[k]
    BY <1>2, <1>4, <1>9, <1>10 DEF NewestCopy
  <2>2. View(ln) = tags_cheri[k]
    <3>1. CASE \E g \in Frames : g.cache \in Children /\ tag_addr[g] = line
      BY <1>6, <1>10, <3>1 DEF NewestCopy
    <3>2. CASE \A g \in Frames : g.cache \in Children => tag_addr[g] # line
      BY <1>5, <1>10, <3>2 DEF NewestCopy
    <3> QED
      BY <3>1, <3>2
  <2> QED
    BY <2>1, <2>2
<1>11. CASE ln # line /\ tag_addr[v] = ln
  <2>1. PICK h \in Frames : /\ h.cache = "L2" /\ tag_addr[h] = ln
                            /\ tags_cheri[h] = tags_cheri[v]
    BY <1>7, <1>11, PlaceFacts
  <2>2. View(ln) = tags_cheri[v]
    BY <1>2, <1>4, <1>11 DEF NewestCopy
  <2>3. CASE \E g \in Frames : g.cache \in Children /\ tag_addr'[g] = ln
    <3>1. PICK g \in Frames : g.cache \in Children /\ tag_addr'[g] = ln
      BY <2>3
    <3>2. g # v /\ tag_addr[g] = ln /\ tags_cheri'[g] = tags_cheri[g]
      BY <1>9, <1>11, <3>1
    <3>3. View(ln) = tags_cheri[g] /\ View(ln)' = tags_cheri'[g]
      BY <3>1, <3>2 DEF NewestCopy
    <3> QED
      BY <3>2, <3>3
  <2>4. CASE \A g \in Frames : g.cache \in Children => tag_addr'[g] # ln
    <3>1. h # v
      BY <1>2, <1>4, <2>1
    <3>2. View(ln)' = tags_cheri'[h]
      BY <1>9, <2>1, <2>4, <3>1 DEF NewestCopy
    <3> QED
      BY <1>9, <2>1, <2>2, <3>1, <3>2
  <2> QED
    BY <2>3, <2>4
<1>12. CASE ln # line /\ tag_addr[v] # ln
  <2>1. \A g \in Frames : /\ tag_addr'[g] = ln <=> tag_addr[g] = ln
                          /\ tag_addr[g] = ln => tags_cheri'[g] = tags_cheri[g]
    BY <1>9, <1>12
  <2>2. CASE \E g \in Frames : g.cache \in Children /\ tag_addr[g] = ln
    BY <2>1, <2>2 DEF NewestCopy
  <2>3. CASE /\ \A g \in Frames : g.cache \in Children => tag_addr[g] # ln
             /\ \E g \in Frames : g.cache = "L2" /\ tag_addr[g] = ln
    BY <2>1, <2>3 DEF NewestCopy
  <2>4. CASE \A g \in Frames : tag_addr[g] # ln
    BY <1>1, <2>1, <2>4 DEF NewestCopy
  <2> QED
    BY <2>2, <2>3, <2>4, FrameFacts, CacheNames DEF Children
<1> QED
  BY <1>10, <1>11, <1>12


\* A step that gives the copies of one line new tags changes the view of that
\* line, and of no other.
LEMMA UseViews ==
    ASSUME IInv, NewestCopy, NewestCopy', pc = "use", UNCHANGED <<tag_addr, table>>,
           tags_cheri'[Find(Self, line)] = NewTags,
           \A g \in Frames : tag_addr[g] # line => tags_cheri'[g] = tags_cheri[g]
    PROVE  /\ View(line) = tags_cheri[Find(Self, line)]
           /\ [ln \in Lines |-> View(ln)]' =
                [[ln \in Lines |-> View(ln)] EXCEPT ![line] = NewTags]
<1> DEFINE f == Find(Self, line)
<1>1. line \in Lines /\ f \in Frames /\ f.cache \in Children /\ tag_addr[f] = line
  BY UsedFrame
<1>2. PICK x \in Lines : x = line
  BY <1>1
<1>3. View(x) = tags_cheri[f] /\ View(x)' = NewTags
  BY <1>1, <1>2 DEF NewestCopy
<1>4. ASSUME NEW ln \in Lines, ln # line
      PROVE  View(ln)' = View(ln)
  <2>1. \A g \in Frames : tag_addr[g] = ln => tags_cheri'[g] = tags_cheri[g]
    BY <1>4
  <2>2. CASE \E g \in Frames : g.cache \in Children /\ tag_addr[g] = ln
    BY <2>1, <2>2 DEF NewestCopy
  <2>3. CASE /\ \A g \in Frames : g.cache \in Children => tag_addr[g] # ln
             /\ \E g \in Frames : g.cache = "L2" /\ tag_addr[g] = ln
    BY <2>1, <2>3 DEF NewestCopy
  <2>4. CASE \A g \in Frames : tag_addr[g] # ln
    BY <2>4 DEF NewestCopy
  <2> QED
    BY <2>2, <2>3, <2>4, FrameFacts, CacheNames DEF Children
<1> HIDE DEF f
<1>5. \A ln \in Lines : View(ln)' = IF ln = line THEN NewTags ELSE View(ln)
  BY <1>2, <1>3, <1>4
<1>6. [ln \in Lines |-> View(ln)]' = [ln \in Lines |-> View(ln)']
  OBVIOUS
<1>7. [ln \in Lines |-> View(ln)'] =
        [[ln \in Lines |-> View(ln)] EXCEPT ![line] = NewTags]
  BY <1>5
<1> QED
  BY <1>2, <1>3, <1>6, <1>7 DEF f


-----------------------------------------------------------------------------
(* The steps of TagMemory *)

LEMMA StorePromise ==
    ASSUME IInv, NewestCopy, NewestCopy', Store,
           memory' = [memory EXCEPT ![line] =
                        IF access.tag = 1 THEN @ \cup Accessed(access, line)
                        ELSE @ \ Accessed(access, line)]
    PROVE  Promise!Next
<1> DEFINE f == Find(Self, line)
           G == Accessed(access, line)
<1>1. /\ pc = "use" /\ UNCHANGED <<tag_addr, table>>
      /\ tags_cheri' = [tags_cheri EXCEPT ![f] = NewTags]
  BY DEF Store
<1>2. line \in Lines /\ f \in Frames /\ tag_addr[f] = line
  BY <1>1, UsedFrame
<1>3. /\ tags_cheri'[f] = NewTags
      /\ \A g \in Frames : tag_addr[g] # line => tags_cheri'[g] = tags_cheri[g]
  BY <1>1, <1>2 DEF IInv, TagsOK
<1>4. /\ View(line) = tags_cheri[f]
      /\ [ln \in Lines |-> View(ln)]' =
           [[ln \in Lines |-> View(ln)] EXCEPT ![line] = NewTags]
  BY <1>1, <1>3, UseViews
<1>5. NewTags = Promise!TagsSet([ln \in Lines |-> View(ln)][line], G, access.tag)
  BY <1>1, <1>2, <1>4, AccessedGranules DEF NewTags, TagsSet, Promise!TagsSet
<1>6. Promise!Store(line, G, access.tag)
  BY <1>4, <1>5 DEF Promise!Store
<1>7. G \in SUBSET Promise!Granules
  BY DEF Accessed, Granules, Promise!Granules
<1>8. access.tag \in {0, 1}
  BY <1>1 DEF IInv, Control, Entries, Entry
<1> QED
  BY <1>2, <1>6, <1>7, <1>8 DEF Promise!Next

LEMMA LearnPromise ==
    ASSUME IInv, TagInv, TracedInv, NewestCopy, NewestCopy', Learn, UNCHANGED memory
    PROVE  Promise!Next
<1> DEFINE f == Find(Self, line)
           G == GranulesIn(access, line)
           view == [ln \in Lines |-> View(ln)]
<1>1. /\ pc = "use" /\ access.type \in {"INSTR", "CLOAD"} /\ UNCHANGED <<tag_addr, table>>
      /\ tags_cheri' = [h \in Frames |->
                          IF h = f \/ (Shared /\ h \in Copies) THEN NewTags ELSE tags_cheri[h]]
  BY LearnShared DEF Learn
<1>2. line \in Lines /\ f \in Frames /\ tag_addr[f] = line
  BY <1>1, UsedFrame
<1>3. \A h \in Copies : tag_addr[h] = line
  BY DEF Copies, Holders
<1>4. /\ tags_cheri'[f] = NewTags
      /\ \A g \in Frames : tag_addr[g] # line => tags_cheri'[g] = tags_cheri[g]
  BY <1>1, <1>2, <1>3
<1>5. View(line) = tags_cheri[f] /\ view' = [view EXCEPT ![line] = NewTags]
  BY <1>1, <1>4, UseViews
<1>6. NewTags = [data |-> View(line).data \cup (memory[line] \cap G),
                 known |-> View(line).known \cup G]
  BY <1>1, <1>5, LearnedTags
<1>7. view[line] = View(line)
  BY <1>2
<1>8. Promise!Learn(line, G)
  BY <1>5, <1>6, <1>7 DEF Promise!Learn
<1>9. G \in SUBSET Promise!Granules
  BY <1>1, AccessedGranules DEF Granules, Promise!Granules
<1> QED
  BY <1>2, <1>8, <1>9 DEF Promise!Next

\* The other steps leave the newest copies as they are.
LEMMA OtherViews ==
    ASSUME IInv, TagInv, Handed, NewestCopy, NewestCopy', Faults = {},
           \/ NotifyPeers \/ RequestHit \/ RequestMiss \/ ForwardHit \/ ForwardMiss
           \/ \E child \in Children : BackInvalidate(child)
           \/ Evict \/ Refill \/ Fill \/ Load
    PROVE  SameViews
<1>1. CASE RequestHit \/ ForwardHit \/ ForwardMiss \/ Load
  <2>1. UNCHANGED <<tag_addr, tags_cheri, table>>
    BY <1>1 DEF RequestHit, ForwardHit, ForwardMiss, Load, lines_vars
  <2> QED
    BY <2>1, QuietViews
<1>2. CASE NotifyPeers
  BY <1>2, NotifyViews
<1>3. CASE RequestMiss
  BY <1>3, RequestMissViews
<1>4. CASE \E child \in Children : BackInvalidate(child)
  BY <1>4, BackInvalidateViews
<1>5. CASE Evict
  BY <1>5, EvictViews
<1>6. CASE Refill
  BY <1>6, RefillViews
<1>7. CASE Fill
  BY <1>7, FillViews
<1> QED
  BY <1>1, <1>2, <1>3, <1>4, <1>5, <1>6, <1>7

LEMMA SameViewsStutter ==
    ASSUME SameViews, UNCHANGED memory
    PROVE  UNCHANGED <<memory, [ln \in Lines |-> View(ln)]>>
<1>1. \A ln \in Lines : View(ln)' = View(ln)
  BY DEF SameViews
<1>2. [ln \in Lines |-> View(ln)'] = [ln \in Lines |-> View(ln)]
  BY <1>1
<1>3. [ln \in Lines |-> View(ln)]' = [ln \in Lines |-> View(ln)']
  OBVIOUS
<1> QED
  BY <1>2, <1>3

LEMMA InitPromise == TracedInit => Promise!Init
<1> SUFFICES ASSUME TracedInit PROVE Promise!Init
  OBVIOUS
<1>1. NewestCopy
  BY InitSafe, NewestCopyIs DEF Safe
<1>2. /\ \A g \in Frames : tag_addr[g] = INVALID_TAG
      /\ \A ln \in Lines : table[ln] = NoTags
      /\ memory \in [Lines -> SUBSET Granules]
  BY DEF TracedInit, Init
<1>3. \A ln \in Lines : View(ln) = NoTags
  BY <1>1, <1>2, PlaceFacts DEF NewestCopy
<1>4. [ln \in Lines |-> View(ln)] = [ln \in Lines |-> Promise!NoTags]
  BY <1>3 DEF NoTags, Promise!NoTags
<1> QED
  BY <1>2, <1>4 DEF Promise!Init, Granules, Promise!Granules

LEMMA NextPromise ==
    Safe /\ NewestCopy /\ NewestCopy' /\ [TracedNext]_traced_vars
      => [Promise!Next]_<<memory, [ln \in Lines |-> View(ln)]>>
<1> SUFFICES ASSUME Safe, NewestCopy, NewestCopy', [TracedNext]_traced_vars
             PROVE  Promise!Next \/ UNCHANGED <<memory, [ln \in Lines |-> View(ln)]>>
  OBVIOUS
<1>1. CASE TracedRead
  <2>1. UNCHANGED <<tag_addr, tags_cheri, table, memory>>
    BY <1>1 DEF TracedRead, ReadEntry, lines_vars
  <2> QED
    BY <2>1, QuietViews, SameViewsStutter DEF Safe
<1>2. CASE TracedSimulate
  <2>1. CASE Store /\ TracedStore
    BY <2>1, StorePromise DEF Safe, TracedStore
  <2>2. CASE Refill /\ TracedRefill
    <3>1. Faults = {} /\ UNCHANGED memory
      BY <1>2, <2>2, SimulateStep DEF TracedRefill
    <3> QED
      BY <2>2, <3>1, OtherViews, SameViewsStutter DEF Safe, TracedInv, Handed
  <2>3. CASE UNCHANGED memory /\ Learn
    BY <2>3, LearnPromise DEF Safe
  <2>4. CASE /\ UNCHANGED memory
             /\ \/ NotifyPeers \/ RequestHit \/ RequestMiss \/ ForwardHit \/ ForwardMiss
                \/ \E child \in Children : BackInvalidate(child)
                \/ Evict \/ Fill \/ Load
    <3>1. Faults = {}
      BY <1>2, SimulateStep
    <3> QED
      BY <2>4, <3>1, OtherViews, SameViewsStutter DEF Safe, TracedInv, Handed
  <2> QED
    BY <1>2, <2>1, <2>2, <2>3, <2>4, SimulateStep
<1>3. CASE UNCHANGED traced_vars
  <2>1. UNCHANGED <<tag_addr, tags_cheri, table, memory>>
    BY <1>3 DEF traced_vars, vars, lines_vars
  <2> QED
    BY <2>1, QuietViews, SameViewsStutter DEF Safe
<1> QED
  BY <1>1, <1>2, <1>3 DEF TracedNext


-----------------------------------------------------------------------------
(* The properties *)

\* On the trace of a machine with tagged memory no assertion of the simulator
\* fails, neither those of its devices nor those that compare what a capability
\* load shows with what is known (trace_simulate).
THEOREM NoAssertionFails == TracedSpec => []NeverAborts
<1>1. Safe => NeverAborts
  BY DEF Safe, NeverAborts
<1> QED
  BY <1>1, TracedInvariance, PTL

\* The newest copy of a line never says anything of a tag that is not so in
\* the memory of the machine.
THEOREM ViewIsTrue == TracedSpec => []ViewAgreesWithMemory
<1>1. Safe => ViewAgreesWithMemory
  <2> SUFFICES ASSUME Safe, NEW ln \in Lines
               PROVE  View(ln).data = memory[ln] \cap View(ln).known
    BY DEF ViewAgreesWithMemory
  <2>1. NewestCopy /\ ln # INVALID_TAG
    BY NewestCopyIs, PlaceFacts DEF Safe
  <2>2. CASE \E g \in Frames : g.cache \in Children /\ tag_addr[g] = ln
    BY <2>1, <2>2 DEF NewestCopy, Safe, TracedInv, Truth, Correct
  <2>3. CASE /\ \A h \in Frames : h.cache \in Children => tag_addr[h] # ln
             /\ \E g \in Frames : g.cache = "L2" /\ tag_addr[g] = ln
    <3>1. PICK g \in Frames : g.cache = "L2" /\ tag_addr[g] = ln
      BY <2>3
    <3>2. Correct(tags_cheri[g], ln)
      BY <2>1, <2>3, <3>1 DEF Safe, TracedInv, Truth
    <3> QED
      BY <2>1, <2>3, <3>1, <3>2 DEF NewestCopy, Correct
  <2>4. CASE \A g \in Frames : tag_addr[g] # ln
    <3>1. Correct(table[ln], ln)
      BY <2>4 DEF Safe, TracedInv, Truth
    <3> QED
      BY <2>1, <2>4, <3>1 DEF NewestCopy, Correct
  <2> QED
    BY <2>2, <2>3, <2>4, FrameFacts, CacheNames DEF Children
<1> QED
  BY <1>1, TracedInvariance, PTL

\* A line of L2 or its copy in the data cache is dirty exactly when the line
\* was stored to since it was read: the controller gets a WRITE for each line
\* that was stored to, and for no other (cache_write_back, device_write).
THEOREM DirtyIsStored == TracedSpec => []DirtyTracksStores
<1>1. Safe => DirtyTracksStores
  <2> SUFFICES ASSUME Safe, NEW f \in Frames, f.cache = "L2", tag_addr[f] # INVALID_TAG
               PROVE  stored[tag_addr[f]] <=>
                        \/ dirty[f]
                        \/ \E g \in Holders("L1D", tag_addr[f]) : dirty[g]
    BY DEF DirtyTracksStores
  <2>1. stored[tag_addr[f]] <=> \E g \in Frames : tag_addr[g] = tag_addr[f] /\ dirty[g]
    BY DEF Safe, TracedInv, Tracks
  <2>2. ASSUME NEW g \in Frames, tag_addr[g] = tag_addr[f], dirty[g]
        PROVE  g = f \/ g \in Holders("L1D", tag_addr[f])
    <3>1. CASE g.cache = "L2"
      BY <2>2, <3>1 DEF Safe, IInv, Contents, Unique
    <3>2. CASE g.cache \in Children
      <4>1. g.cache = "L1D"
        BY <2>2, <3>2 DEF Safe, TagInv, Writer
      <4>2. g.set = tag_addr[f] % NumSets["L1D"]
        BY <2>2, <4>1 DEF Safe, IInv, Contents, Placed
      <4> QED
        BY <2>2, <4>1, <4>2 DEF Holders, SetOf
    <3> QED
      BY <3>1, <3>2, FrameFacts, CacheNames DEF Children
  <2>3. \A g \in Holders("L1D", tag_addr[f]) : g \in Frames /\ tag_addr[g] = tag_addr[f]
    BY DEF Holders, SetOf
  <2> QED
    BY <2>1, <2>2, <2>3
<1> QED
  BY <1>1, TracedInvariance, PTL

\* A request to the controller carries all that is known of the tags of its
\* line: nothing is left behind in a copy above (cache_back_invalidate before
\* the write-back, an L1 cache that has pushed its victim before it asks L2).
THEOREM RequestsAreComplete == TracedSpec => []RequestCarriesView
<1>1. Safe => RequestCarriesView
  <2> SUFFICES ASSUME Safe, request.type # "none"
               PROVE  request.tags = View(request.line)
    BY DEF RequestCarriesView
  <2>1. NewestCopy /\ request.line \in Lines /\ line \in Places
    BY NewestCopyIs DEF Safe, IInv, TagsOK, Request, ControlOK
  <2>2. CASE pc = "refill"
    <3>1. /\ tag_addr[l2_victim] # INVALID_TAG /\ request.line = tag_addr[l2_victim]
          /\ request.tags = tags_cheri[l2_victim]
      BY <2>2 DEF Safe, TracedInv, Requested
    <3>2. l2_victim \in Frames /\ l2_victim.cache = "L2"
      BY <2>1, <2>2, SetOfFacts, CacheNames DEF Safe, IInv, Control, Missed2
    <3>3. \A h \in Frames : h.cache \in Children => tag_addr[h] # request.line
      BY <2>2, <3>1 DEF Safe, IInv, Control, Has
    <3> QED
      BY <2>1, <3>1, <3>2, <3>3 DEF NewestCopy
  <2>3. CASE pc = "fill"
    <3>1. PICK h \in Frames : h.cache = "L2" /\ tag_addr[h] = line
      BY <2>3 DEF Safe, IInv, Control, Has
    <3>2. /\ request.line = line /\ request.tags = tags_cheri[h]
          /\ \A c \in Children : ~ Has(c, line)
      BY <2>3, <3>1 DEF Safe, TracedInv, Requested
    <3>3. \A g \in Frames : g.cache \in Children => tag_addr[g] # line
      BY <3>2 DEF Has
    <3> QED
      BY <2>1, <3>1, <3>2, <3>3 DEF NewestCopy
  <2> QED
    BY <2>2, <2>3 DEF Safe, TracedInv, Requested
<1> QED
  BY <1>1, TracedInvariance, PTL

\* The hierarchy implements the memory of TagMemory: each step of the caches
\* shows the machine's tags, stores, or changes nothing of the newest copies.
THEOREM HierarchyImplementsMemory == TracedSpec => ImplementsTagMemory
<1>1. Safe => NewestCopy
  BY NewestCopyIs DEF Safe
<1>2. TracedInit => Promise!Init
  BY InitPromise
<1>3. Safe /\ NewestCopy /\ NewestCopy' /\ [TracedNext]_traced_vars
        => [Promise!Next]_<<memory, [ln \in Lines |-> View(ln)]>>
  BY NextPromise
<1> QED
  BY <1>1, <1>2, <1>3, TracedInvariance, PTL
  DEF TracedSpec, ImplementsTagMemory, Promise!Spec

-----------------------------------------------------------------------------
(* The packed tag table *)

TableOK == tag_table \in [data : [Bytes -> SUBSET Byte], known : [Bytes -> SUBSET Byte]]

Unpacks == \A ln \in Lines : TagTableRead(tag_table, ln) = table[ln]

-----------------------------------------------------------------------------
(* Where the bits of a line are *)

\* A byte holds whole lines.
LEMMA SizeFacts ==
    \/ ByteBits = 1 /\ GranulesPerLine = 1
    \/ ByteBits = 2 /\ GranulesPerLine \in {1, 2}
    \/ ByteBits = 3 /\ GranulesPerLine \in {1, 3}
    \/ ByteBits = 4 /\ GranulesPerLine \in {1, 2, 4}
    \/ ByteBits = 5 /\ GranulesPerLine \in {1, 5}
    \/ ByteBits = 6 /\ GranulesPerLine \in {1, 2, 3, 6}
    \/ ByteBits = 7 /\ GranulesPerLine \in {1, 7}
    \/ ByteBits = 8 /\ GranulesPerLine \in {1, 2, 4, 8}
<1>1. /\ ByteBits \in {1, 2, 3, 4, 5, 6, 7, 8}
      /\ GranulesPerLine \in {1, 2, 3, 4, 5, 6, 7, 8}
      /\ ByteBits % GranulesPerLine = 0
  BY ByteAssumption, GranulesAssumption
<1> DEFINE B == ByteBits
           G == GranulesPerLine
<1> HIDE DEF B, G
<1>2. /\ B \in {1, 2, 3, 4, 5, 6, 7, 8}
      /\ G \in {1, 2, 3, 4, 5, 6, 7, 8}
      /\ B % G = 0
  BY <1>1 DEF B, G
<1>3. CASE G \in {1, 2, 3, 4}
  BY <1>2, <1>3 DEF B, G
<1>4. CASE G \in {5, 6, 7, 8}
  BY <1>2, <1>4 DEF B, G
<1> QED
  BY <1>2, <1>3, <1>4

\* The bits of a line are in its byte, and no other line has any of them.
LEMMA BitsFacts ==
    ASSUME NEW a \in Lines
    PROVE  /\ TagTableIndex(a) \in Bytes
           /\ FirstBit(a) \in Nat
           /\ FirstBit(a) + GranulesPerLine <= ByteBits
           /\ \A b \in Lines :
                a # b /\ TagTableIndex(a) = TagTableIndex(b) =>
                  \/ FirstBit(a) + GranulesPerLine <= FirstBit(b)
                  \/ FirstBit(b) + GranulesPerLine <= FirstBit(a)
<1>1. ASSUME NEW b \in Lines
      PROVE  /\ TagTableIndex(a) \in Bytes
             /\ FirstBit(a) \in Nat
             /\ FirstBit(a) + GranulesPerLine <= ByteBits
             /\ a # b /\ TagTableIndex(a) = TagTableIndex(b) =>
                  \/ FirstBit(a) + GranulesPerLine <= FirstBit(b)
                  \/ FirstBit(b) + GranulesPerLine <= FirstBit(a)
  <2> DEFINE N == NumLines
  <2>1. /\ a \in Nat /\ b \in Nat /\ N \in Nat /\ a < N
        /\ (N * GranulesPerLine) % ByteBits = 0
    BY ConstantFacts, TableAssumption DEF Lines
  <2> HIDE DEF N
  <2>2. CASE ByteBits = 1 /\ GranulesPerLine = 1
    BY <2>1, <2>2 DEF TagTableIndex, FirstBit, Bytes, N
  <2>3. CASE ByteBits = 2 /\ GranulesPerLine \in {1, 2}
    BY <2>1, <2>3 DEF TagTableIndex, FirstBit, Bytes, N
  <2>4. CASE ByteBits = 3 /\ GranulesPerLine \in {1, 3}
    BY <2>1, <2>4 DEF TagTableIndex, FirstBit, Bytes, N
  <2>5. CASE ByteBits = 4 /\ GranulesPerLine \in {1, 2, 4}
    BY <2>1, <2>5 DEF TagTableIndex, FirstBit, Bytes, N
  <2>6. CASE ByteBits = 5 /\ GranulesPerLine \in {1, 5}
    BY <2>1, <2>6 DEF TagTableIndex, FirstBit, Bytes, N
  <2>7. CASE ByteBits = 6 /\ GranulesPerLine \in {1, 2, 3, 6}
    BY <2>1, <2>7 DEF TagTableIndex, FirstBit, Bytes, N
  <2>8. CASE ByteBits = 7 /\ GranulesPerLine \in {1, 7}
    BY <2>1, <2>8 DEF TagTableIndex, FirstBit, Bytes, N
  <2>9. CASE ByteBits = 8 /\ GranulesPerLine \in {1, 2, 4, 8}
    BY <2>1, <2>9 DEF TagTableIndex, FirstBit, Bytes, N
  <2> QED
    BY <2>2, <2>3, <2>4, <2>5, <2>6, <2>7, <2>8, <2>9, SizeFacts
<1> QED
  BY <1>1

\* The mask keeps what is not of the line.
LEMMA MaskFacts ==
    ASSUME NEW ln \in Lines
    PROVE  \A x \in Byte :
             x \in ClearMask(ln) <=>
               x < FirstBit(ln) \/ x >= FirstBit(ln) + GranulesPerLine
<1> DEFINE f == FirstBit(ln)
           G == GranulesPerLine
<1>1. f \in Nat /\ G \in 1 .. 8 /\ ByteBits \in 1 .. 8
  BY BitsFacts, ConstantFacts, ByteAssumption
<1> HIDE DEF f, G
<1>2. \A x \in Byte : x \in Left(Left(Word, G), f) <=> x >= f + G
  <2> TAKE x \in Byte
  <2>1. x \in Nat /\ x \in Word
    BY <1>1 DEF Byte, Word
  <2>2. ASSUME x >= f + G
        PROVE  x \in Left(Left(Word, G), f)
    <3>1. x - f - G \in Word /\ x - f \in Word
      BY <1>1, <2>1, <2>2 DEF Word
    <3>2. x - f \in Left(Word, G)
      <4>1. x - f = (x - f - G) + G
        BY <1>1, <2>1
      <4> QED
        BY <3>1, <4>1 DEF Left
    <3>3. x = (x - f) + f
      BY <1>1, <2>1
    <3> QED
      BY <2>1, <3>2, <3>3 DEF Left
  <2>3. ASSUME x \in Left(Left(Word, G), f)
        PROVE  x >= f + G
    <3>1. PICK y \in Left(Word, G) : x = y + f
      BY <2>3 DEF Left
    <3>2. PICK z \in Word : y = z + G
      BY <3>1 DEF Left
    <3> QED
      BY <1>1, <3>1, <3>2 DEF Word
  <2> QED
    BY <2>2, <2>3
<1>3. \A x \in Byte : x \in 0 .. f - 1 <=> x < f
  BY <1>1 DEF Byte
<1>4. ClearMask(ln) = Left(Left(Word, G), f) \cup 0 .. f - 1
  BY DEF ClearMask, f, G
<1> QED
  BY <1>2, <1>3, <1>4 DEF f, G

\* What is written into a byte is read out of it again, and the bits of the
\* other lines stay.
LEMMA PackedFacts ==
    ASSUME NEW ln \in Lines, NEW byte \in SUBSET Byte, NEW bits \in SUBSET Granules
    PROVE  /\ Packed(byte, ln, bits) \in SUBSET Byte
           /\ Left(bits, FirstBit(ln)) \cap ClearMask(ln) = {}
           /\ Right(Packed(byte, ln, bits) \ ClearMask(ln), FirstBit(ln)) = bits
           /\ \A b \in Lines :
                b # ln /\ TagTableIndex(b) = TagTableIndex(ln) =>
                  Packed(byte, ln, bits) \ ClearMask(b) = byte \ ClearMask(b)
<1> DEFINE f == FirstBit(ln)
           G == GranulesPerLine
           shifted == Left(bits, f)
           mask == ClearMask(ln)
           packed == Packed(byte, ln, bits)
<1>1. /\ f \in Nat /\ G \in 1 .. 8 /\ ByteBits \in 1 .. 8 /\ f + G <= ByteBits
      /\ bits \subseteq 0 .. G - 1
  BY BitsFacts, ConstantFacts, ByteAssumption DEF Granules
<1>2. \A x \in Byte : x \in mask <=> x < f \/ x >= f + G
  BY MaskFacts
<1>3. packed = ((byte \cap mask) \cup shifted) \cap Byte
  BY DEF Packed
<1> HIDE DEF f, G, mask, packed
<1>4. /\ shifted \subseteq Byte
      /\ \A x \in shifted : x >= f /\ x < f + G
      /\ \A b \in bits : b + f \in shifted
  BY <1>1 DEF Left, Byte, Word
<1>5. \A x \in shifted : x - f \in bits
  BY <1>1 DEF Left
<1> HIDE DEF shifted
<1>6. shifted \cap mask = {}
  <2> SUFFICES ASSUME NEW x \in shifted, x \in mask PROVE FALSE
    OBVIOUS
  <2>1. x \in Byte /\ x >= f /\ x < f + G
    BY <1>4
  <2>2. x \in Int
    BY <1>1, <2>1 DEF Byte
  <2>3. x < f \/ x >= f + G
    BY <1>2, <2>1
  <2> QED
    BY <1>1, <2>1, <2>2, <2>3
<1>7. packed \ mask = shifted
  BY <1>3, <1>4, <1>6
<1>8. Right(packed \ mask, f) = bits
  <2>1. \A b \in bits : b + f \in shifted /\ b + f >= f /\ b = (b + f) - f
    BY <1>1, <1>4
  <2>2. Right(shifted, f) = {x - f : x \in shifted}
    BY <1>4 DEF Right
  <2> QED
    BY <1>5, <1>7, <2>1, <2>2
<1>9. ASSUME NEW b \in Lines, b # ln, TagTableIndex(b) = TagTableIndex(ln)
      PROVE  packed \ ClearMask(b) = byte \ ClearMask(b)
  <2>1. /\ FirstBit(b) \in Nat
        /\ FirstBit(b) + G <= f \/ f + G <= FirstBit(b)
    BY <1>9, BitsFacts DEF f, G
  <2>2. \A x \in Byte : x \in ClearMask(b) <=> x < FirstBit(b) \/ x >= FirstBit(b) + G
    BY MaskFacts DEF G
  <2>3. \A x \in Byte : x \notin ClearMask(b) => x \in mask
    BY <1>1, <1>2, <2>1, <2>2 DEF Byte
  <2> QED
    BY <1>3, <1>4, <1>6, <2>3
<1> QED
  BY <1>3, <1>6, <1>8, <1>9 DEF f, mask, packed, shifted

-----------------------------------------------------------------------------
(* The buffers and the table *)

\* tag_table_write_partial: its assertions hold, the line is read as it was
\* written, every other line as before.
LEMMA WriteFacts ==
    ASSUME NEW buffer \in [Bytes -> SUBSET Byte], NEW ln \in Lines,
           NEW bits \in SUBSET Granules
    PROVE  /\ WritePartial(buffer, ln, bits) \in [Bytes -> SUBSET Byte]
           /\ ReadPartial(WritePartial(buffer, ln, bits), ln) = bits
           /\ ~ WriteFails(buffer, ln, bits)
           /\ \A b \in Lines \ {ln} :
                ReadPartial(WritePartial(buffer, ln, bits), b) = ReadPartial(buffer, b)
<1> DEFINE i == TagTableIndex(ln)
           after == WritePartial(buffer, ln, bits)
<1>1. i \in Bytes /\ buffer[i] \in SUBSET Byte
  BY BitsFacts
<1>2. /\ Packed(buffer[i], ln, bits) \in SUBSET Byte
      /\ Left(bits, FirstBit(ln)) \cap ClearMask(ln) = {}
      /\ Right(Packed(buffer[i], ln, bits) \ ClearMask(ln), FirstBit(ln)) = bits
      /\ \A b \in Lines :
           b # ln /\ TagTableIndex(b) = i =>
             Packed(buffer[i], ln, bits) \ ClearMask(b) = buffer[i] \ ClearMask(b)
  BY <1>1, PackedFacts
<1>3. /\ after = [buffer EXCEPT ![i] = Packed(buffer[i], ln, bits)]
      /\ after \in [Bytes -> SUBSET Byte]
      /\ after[i] = Packed(buffer[i], ln, bits)
      /\ \A j \in Bytes : j # i => after[j] = buffer[j]
  BY <1>1, <1>2 DEF WritePartial
<1> HIDE DEF after
<1>4. ReadPartial(after, ln) = bits
  BY <1>2, <1>3 DEF ReadPartial
<1>5. ASSUME NEW b \in Lines \ {ln}
      PROVE  ReadPartial(after, b) = ReadPartial(buffer, b)
  <2>1. TagTableIndex(b) \in Bytes
    BY BitsFacts
  <2>2. after[TagTableIndex(b)] \ ClearMask(b) = buffer[TagTableIndex(b)] \ ClearMask(b)
    BY <1>2, <1>3, <2>1
  <2> QED
    BY <2>2 DEF ReadPartial
<1> QED
  BY <1>2, <1>3, <1>4, <1>5 DEF after, WriteFails

LEMMA TableWriteFacts ==
    ASSUME TableOK, NEW ln \in Lines, NEW tags \in TagState
    PROVE  /\ TagTableWrite(tag_table, ln, tags) \in
                [data : [Bytes -> SUBSET Byte], known : [Bytes -> SUBSET Byte]]
           /\ ~ TagTableWriteFails(tag_table, ln, tags)
           /\ TagTableRead(TagTableWrite(tag_table, ln, tags), ln) = tags
           /\ \A b \in Lines \ {ln} :
                TagTableRead(TagTableWrite(tag_table, ln, tags), b)
                  = TagTableRead(tag_table, b)
<1>1. /\ tag_table.data \in [Bytes -> SUBSET Byte]
      /\ tag_table.known \in [Bytes -> SUBSET Byte]
      /\ tags.data \in SUBSET Granules /\ tags.known \in SUBSET Granules
      /\ tags = [data |-> tags.data, known |-> tags.known]
  BY DEF TableOK, TagState
<1> QED
  BY <1>1, WriteFacts DEF TagTableWrite, TagTableWriteFails, TagTableRead

LEMMA InitTable == PackedInit => TableOK /\ Unpacks
<1> SUFFICES ASSUME PackedInit PROVE TableOK /\ Unpacks
  OBVIOUS
<1>1. TableOK
  BY DEF PackedInit, TableOK, EmptyBuffer
<1>2. ASSUME NEW ln \in Lines
      PROVE  TagTableRead(tag_table, ln) = table[ln]
  <2>1. EmptyBuffer[TagTableIndex(ln)] = {}
    BY BitsFacts DEF EmptyBuffer
  <2>2. ReadPartial(EmptyBuffer, ln) = {}
    BY <2>1 DEF ReadPartial, Right
  <2> QED
    BY <2>2 DEF PackedInit, Init, TagTableRead, NoTags
<1> QED
  BY <1>1, <1>2 DEF Unpacks

\* The victim that is evicted: a line of memory, and what L2 knows of it.
LEMMA VictimFacts ==
    ASSUME IInv, pc = "evict"
    PROVE  tag_addr[l2_victim] \in Lines /\ tags_cheri[l2_victim] \in TagState
<1>1. line \in Places /\ l2_victim \in SetOf("L2", line) /\ tag_addr[l2_victim] # INVALID_TAG
  BY DEF IInv, ControlOK, Control, Missed2
<1>2. l2_victim \in Frames
  BY <1>1, SetOfFacts, CacheNames
<1> QED
  BY <1>1, <1>2 DEF IInv, Contents, TagAddrOK, TagsOK

\* Only an eviction changes the table.
LEMMA OtherSteps ==
    ASSUME Next, ~ (pc = "evict" /\ Faults = {})
    PROVE  UNCHANGED table
<1>1. CASE Read
  BY <1>1 DEF Read, ReadEntry
<1>2. CASE Abort
  BY <1>2 DEF Abort
<1>3. CASE Faults = {} /\ Step
  BY <1>3 DEF Step, NotifyPeers, RequestHit, RequestMiss, ForwardHit, ForwardMiss,
       BackInvalidate, Evict, Refill, Fill, Load, Store, Learn
<1> QED
  BY <1>1, <1>2, <1>3 DEF Next, Simulate

LEMMA NextTable == IInv /\ TableOK /\ Unpacks /\ PackedNext => TableOK' /\ Unpacks'
<1> SUFFICES ASSUME IInv, TableOK, Unpacks, PackedNext PROVE TableOK' /\ Unpacks'
  OBVIOUS
<1> DEFINE ln == tag_addr[l2_victim]
           tags == tags_cheri[l2_victim]
<1>1. CASE pc = "evict" /\ Faults = {}
  <2>1. ln \in Lines /\ tags \in TagState
    BY <1>1, VictimFacts
  <2>2. table' = [table EXCEPT ![ln] = tags] /\ table \in [Lines -> TagState]
    <3>1. Evict
      BY <1>1 DEF PackedNext, Next, Read, ReadEntry, Simulate, Abort, Step, NotifyPeers,
         RequestHit, RequestMiss, ForwardHit, ForwardMiss, BackInvalidate, Refill,
         Fill, Load, Store, Learn, Children
    <3> QED
      BY <3>1 DEF Evict, Evicted, IInv, TagsOK
  <2>3. tag_table' = TagTableWrite(tag_table, ln, tags)
    BY <1>1 DEF PackedNext, TableWritten
  <2> HIDE DEF ln, tags
  <2>4. TableOK'
    BY <2>1, <2>3, TableWriteFacts DEF TableOK
  <2>5. ASSUME NEW x \in Lines
        PROVE  TagTableRead(tag_table', x) = table'[x]
    <3>1. CASE x = ln
      BY <2>1, <2>2, <2>3, <3>1, TableWriteFacts
    <3>2. CASE x # ln
      BY <2>1, <2>2, <2>3, <3>2, TableWriteFacts DEF Unpacks
    <3> QED
      BY <3>1, <3>2
  <2> QED
    BY <2>4, <2>5 DEF Unpacks
<1>2. CASE ~ (pc = "evict" /\ Faults = {})
  <2>1. tag_table' = tag_table
    BY <1>2 DEF PackedNext, TableWritten
  <2>2. table' = table
    BY <1>2, OtherSteps DEF PackedNext
  <2> QED
    BY <2>1, <2>2 DEF TableOK, Unpacks
<1> QED
  BY <1>1, <1>2

\* The packed table is the function CacheHierarchy uses, and the assertions
\* of its code hold: lines that share a byte do not disturb each other.
THEOREM PackedTable == PackedSpec => []TableUnpacks
<1> DEFINE Inv == IInv /\ TableOK /\ Unpacks
<1>1. PackedInit => Inv
  BY InitIInv, InitTable DEF PackedInit
<1>2. Inv /\ [PackedNext]_packed_vars => Inv'
  <2> SUFFICES ASSUME Inv, [PackedNext]_packed_vars PROVE Inv'
    OBVIOUS
  <2>1. CASE PackedNext
    BY <2>1, NextIInv, NextTable DEF PackedNext
  <2>2. CASE UNCHANGED packed_vars
    <3>1. UNCHANGED vars /\ UNCHANGED <<table, tag_table>>
      BY <2>2 DEF packed_vars, vars
    <3>2. IInv'
      BY <3>1, NextIInv
    <3> QED
      BY <3>1, <3>2 DEF TableOK, Unpacks
  <2> QED
    BY <2>1, <2>2
<1>3. Inv => TableUnpacks
  <2> SUFFICES ASSUME Inv PROVE TableUnpacks
    OBVIOUS
  <2>1. pc = "evict" =>
          ~ TagTableWriteFails(tag_table, tag_addr[l2_victim], tags_cheri[l2_victim])
    BY VictimFacts, TableWriteFacts
  <2> QED
    BY <2>1 DEF TableUnpacks, Unpacks
<1> QED
  BY <1>1, <1>2, <1>3, PTL DEF PackedSpec

-----------------------------------------------------------------------------
(* What is known is what the trace has shown *)

ShownIn(ln) == {g \in Granules : ln * GranulesPerLine + g \in shown}

\* Every granule of memory is in one line.
LEMMA LineOfGranule ==
    ASSUME NEW ln \in Nat, NEW g \in Granules
    PROVE  /\ ln * GranulesPerLine + g \in Nat
           /\ (ln * GranulesPerLine + g) \div GranulesPerLine = ln
<1> DEFINE G == GranulesPerLine
<1>1. G \in 1 .. 8 /\ g \in 0 .. G - 1
  BY ConstantFacts DEF Granules
<1> HIDE DEF G
<1>2. G = 1 \/ G = 2 \/ G = 3 \/ G = 4 \/ G = 5 \/ G = 6 \/ G = 7 \/ G = 8
  BY <1>1
<1>3. ln * G + g \in Nat /\ (ln * G + g) \div G = ln
  BY <1>1, <1>2
<1> QED
  BY <1>3 DEF G

\* The newest copy knows what any copy of the line knows.
LEMMA NewestKnows ==
    ASSUME IInv, TagInv, NEW ln \in Lines
    PROVE  View(ln).known =
             table[ln].known \cup
             UNION {tags_cheri[f].known : f \in {h \in Frames : tag_addr[h] = ln}}
<1>1. NewestCopy /\ ln # INVALID_TAG
  BY NewestCopyIs, PlaceFacts
<1>2. ASSUME NEW f \in Frames, tag_addr[f] = ln
      PROVE  \E h \in Frames :
               /\ h.cache = "L2" /\ tag_addr[h] = ln
               /\ table[ln].known \subseteq tags_cheri[h].known
               /\ f.cache \in Children => tags_cheri[h].known \subseteq tags_cheri[f].known
  <2>1. PICK h \in Frames : h.cache = "L2" /\ tag_addr[h] = ln
    BY <1>1, <1>2, FrameFacts, CacheNames DEF IInv, Contents, Included, Has, Children
  <2> QED
    BY <1>1, <1>2, <2>1 DEF TagInv, Known, KnownGrowsUpward
<1>3. ASSUME NEW f \in Frames, tag_addr[f] = ln
      PROVE  /\ tags_cheri[f].known \subseteq View(ln).known
             /\ table[ln].known \subseteq View(ln).known
  <2>1. CASE f.cache \in Children
    BY <1>1, <1>2, <1>3, <2>1 DEF NewestCopy
  <2>2. CASE f.cache = "L2" /\ \A g \in Frames : g.cache \in Children => tag_addr[g] # ln
    BY <1>1, <1>2, <1>3, <2>2 DEF NewestCopy
  <2>3. CASE f.cache = "L2" /\ \E g \in Frames : g.cache \in Children /\ tag_addr[g] = ln
    <3>1. PICK g \in Frames : g.cache \in Children /\ tag_addr[g] = ln
      BY <2>3
    <3>2. PICK h \in Frames : /\ h.cache = "L2" /\ tag_addr[h] = ln
                              /\ table[ln].known \subseteq tags_cheri[h].known
                              /\ tags_cheri[h].known \subseteq tags_cheri[g].known
      BY <1>2, <3>1
    <3>3. h = f
      BY <1>1, <1>3, <2>3, <3>2 DEF IInv, Contents, Unique
    <3> QED
      BY <1>1, <3>1, <3>2, <3>3 DEF NewestCopy
  <2> QED
    BY <2>1, <2>2, <2>3, FrameFacts, CacheNames DEF Children
<1>4. \/ View(ln) = table[ln] /\ \A f \in Frames : tag_addr[f] # ln
      \/ \E f \in Frames : tag_addr[f] = ln /\ View(ln) = tags_cheri[f]
  <2>1. CASE \E f \in Frames : f.cache \in Children /\ tag_addr[f] = ln
    BY <1>1, <2>1 DEF NewestCopy
  <2>2. CASE /\ \A f \in Frames : f.cache \in Children => tag_addr[f] # ln
             /\ \E f \in Frames : f.cache = "L2" /\ tag_addr[f] = ln
    BY <1>1, <2>2 DEF NewestCopy
  <2>3. CASE \A f \in Frames : tag_addr[f] # ln
    BY <1>1, <2>3 DEF NewestCopy
  <2> QED
    BY <2>1, <2>2, <2>3, FrameFacts, CacheNames DEF Children
<1> QED
  BY <1>3, <1>4

\* A step either uses the line and shows what it covers of it, or does neither.
LEMMA ShownStep ==
    ASSUME IInv, PackedNext
    PROVE  \/ (Store \/ Learn) /\ shown' = shown \cup
                {a \in access.first .. access.last : a \div GranulesPerLine = line}
           \/ /\ shown' = shown
              /\ \/ UNCHANGED <<tag_addr, tags_cheri, table>>
                 \/ /\ Faults = {}
                    /\ \/ NotifyPeers \/ RequestHit \/ RequestMiss \/ ForwardHit \/ ForwardMiss
                       \/ \E child \in Children : BackInvalidate(child)
                       \/ Evict \/ Refill \/ Fill \/ Load
<1>1. CASE Read
  BY <1>1 DEF Read, ReadEntry, PackedNext, ShownUpTo, lines_vars
<1>2. CASE Abort
  BY <1>2 DEF Abort, PackedNext, ShownUpTo, lines_vars
<1>3. CASE Faults = {} /\ (Store \/ Learn)
  BY <1>3 DEF Store, Learn, Stores, PackedNext, ShownUpTo
<1>4. CASE /\ Faults = {}
           /\ \/ NotifyPeers \/ RequestHit \/ RequestMiss \/ ForwardHit \/ ForwardMiss
              \/ \E child \in Children : BackInvalidate(child)
              \/ Evict \/ Refill \/ Fill \/ Load
  <2>1. ~ (pc = "use" /\ access.type # "LOAD")
    BY <1>4 DEF NotifyPeers, RequestHit, RequestMiss, ForwardHit, ForwardMiss,
         BackInvalidate, Evict, Refill, Fill, Load, Children
  <2> QED
    BY <1>4, <2>1 DEF PackedNext, ShownUpTo
<1> QED
  BY <1>1, <1>2, <1>3, <1>4 DEF PackedNext, Next, Simulate, Step

ViewsShown == \A ln \in Lines : View(ln).known = ShownIn(ln)

LEMMA UseShows ==
    ASSUME IInv, TagInv, NewestCopy, NewestCopy', ViewsShown, Store \/ Learn,
           shown' = shown \cup
             {a \in access.first .. access.last : a \div GranulesPerLine = line}
    PROVE  ViewsShown'
<1> DEFINE f == Find(Self, line)
<1>1. pc = "use" /\ UNCHANGED <<tag_addr, table>>
  BY DEF Store, Learn
<1>2. line \in Lines /\ f \in Frames /\ tag_addr[f] = line /\ Lines \subseteq Nat
  BY <1>1, UsedFrame DEF Lines
<1>3. /\ tags_cheri'[f] = NewTags
      /\ \A g \in Frames : tag_addr[g] # line => tags_cheri'[g] = tags_cheri[g]
  <2>1. \A h \in Copies : tag_addr[h] = line
    BY DEF Copies, Holders
  <2>2. CASE Store
    BY <1>2, <2>2 DEF Store, IInv, TagsOK
  <2>3. CASE Learn
    BY <1>2, <2>1, <2>3 DEF Learn
  <2> QED
    BY <2>2, <2>3
<1>4. /\ View(line) = tags_cheri[f]
      /\ [ln \in Lines |-> View(ln)]' =
           [[ln \in Lines |-> View(ln)] EXCEPT ![line] = NewTags]
  BY <1>1, <1>3, UseViews
<1>5. NewTags.known = View(line).known \cup Accessed(access, line)
  BY <1>1, <1>4, AccessedGranules DEF NewTags, TagsSet
<1> HIDE DEF f
<1>6. [ln \in Lines |-> View(ln)]' = [ln \in Lines |-> View(ln)']
  OBVIOUS
<1>7. \A ln \in Lines : View(ln)' = IF ln = line THEN NewTags ELSE View(ln)
  BY <1>2, <1>4, <1>6
<1>8. ASSUME NEW ln \in Lines
      PROVE  ShownIn(ln)' = ShownIn(ln) \cup (IF ln = line THEN Accessed(access, line) ELSE {})
  <2>1. \A g \in Granules : (ln * GranulesPerLine + g) \div GranulesPerLine = ln
    BY <1>2, <1>8, LineOfGranule
  <2>2. \A g \in Granules :
          ln * GranulesPerLine + g \in shown' <=>
            \/ ln * GranulesPerLine + g \in shown
            \/ ln = line /\ ln * GranulesPerLine + g \in access.first .. access.last
    BY <2>1
  <2> QED
    BY <2>2 DEF ShownIn, Accessed
<1> SUFFICES ASSUME NEW ln \in Lines PROVE View(ln)'.known = ShownIn(ln)'
  BY DEF ViewsShown
<1>9. View(ln).known = ShownIn(ln)
  BY DEF ViewsShown
<1> QED
  BY <1>5, <1>7, <1>8, <1>9

\* What the hierarchy and its table know of the tags is what the entries have
\* shown, of entries that cover parts of lines too (the clipping in the loop of
\* trace_simulate): nothing more, and none of it is lost.
THEOREM NothingForgotten == PackedSpec => []KnownIsShown
<1> DEFINE Inv == IInv /\ TagInv /\ Handed /\ ViewsShown
<1>1. PackedInit => Inv
  <2> SUFFICES ASSUME PackedInit PROVE Inv
    OBVIOUS
  <2>1. IInv /\ TagInv
    BY InitIInv, InitTags DEF PackedInit
  <2>2. /\ \A f \in Frames : tag_addr[f] = INVALID_TAG
        /\ \A ln \in Lines : table[ln] = NoTags
        /\ pc = "read" /\ shown = {}
    BY DEF PackedInit, Init
  <2>3. \A ln \in Lines : View(ln) = NoTags
    BY <2>1, <2>2, NewestCopyIs, PlaceFacts DEF NewestCopy
  <2>4. Handed
    BY <2>2 DEF Handed, VictimPushed, VictimWritten, Missed1
  <2> QED
    BY <2>1, <2>2, <2>3, <2>4 DEF ViewsShown, ShownIn, NoTags
<1>2. IInv /\ TagInv /\ [PackedNext]_packed_vars => IInv' /\ TagInv'
  <2> SUFFICES ASSUME IInv, TagInv, [PackedNext]_packed_vars PROVE IInv' /\ TagInv'
    OBVIOUS
  <2>1. [Next]_vars
    BY DEF PackedNext, packed_vars
  <2> QED
    BY <2>1, NextIInv, NextTags
<1>3. Inv /\ NewestCopy /\ NewestCopy' /\ [PackedNext]_packed_vars => Handed' /\ ViewsShown'
  <2> SUFFICES ASSUME Inv, NewestCopy, NewestCopy', [PackedNext]_packed_vars
               PROVE  Handed' /\ ViewsShown'
    OBVIOUS
  <2>1. [Next]_vars
    BY DEF PackedNext, packed_vars
  <2>2. Handed'
    BY <2>1, NextHanded
  <2>3. ViewsShown'
    <3>1. CASE SameViews /\ shown' = shown
      BY <3>1 DEF ViewsShown, SameViews, ShownIn
    <3>2. CASE UNCHANGED packed_vars
      <4>1. UNCHANGED <<tag_addr, tags_cheri, table, shown>>
        BY <3>2 DEF packed_vars, vars, lines_vars
      <4> QED
        BY <3>1, <4>1, QuietViews
    <3>3. CASE PackedNext
      BY <3>1, <3>3, ShownStep, UseShows, QuietViews, OtherViews
    <3> QED
      BY <3>2, <3>3
  <2> QED
    BY <2>2, <2>3
<1>4. Inv => KnownIsShown
  BY NewestKnows DEF ViewsShown, ShownIn, KnownIsShown
<1> QED
  BY <1>1, <1>2, <1>3, <1>4, NewestCopyIs, PTL DEF PackedSpec

==============================================================================
