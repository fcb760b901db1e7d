------------------------ MODULE CacheHierarchyProofs ------------------------
(***************************************************************************)
(* Invariants of the cache hierarchy for every number of lines, granules,  *)
(* sets and ways, and every trace.                                         *)
(***************************************************************************)
EXTENDS CacheHierarchy, LruTheorems

(***************************************************************************)
(* The inductive invariant.  Where the properties of CacheHierarchy look a *)
(* line up in the set of its address, the invariant says that a cache has  *)
(* it in some frame.                                                       *)
(***************************************************************************)
Has(c, ln) == \E f \in Frames : f.cache = c /\ tag_addr[f] = ln

Placed ==
    \A f \in Frames :
        tag_addr[f] # INVALID_TAG => f.set = tag_addr[f] % NumSets[f.cache]

Unique ==
    \A f, g \in Frames :
        f.cache = g.cache /\ tag_addr[f] = tag_addr[g] /\ tag_addr[f] # INVALID_TAG
          => f = g

Included ==
    \A f \in Frames :
        f.cache \in Children /\ tag_addr[f] # INVALID_TAG => Has("L2", tag_addr[f])

\* Where the program is: what it has looked up, and what it points to.
Missed1 == {"forward", "L1I", "L1D", "evict", "refill", "fill"}
Missed2 == {"L1I", "L1D", "evict", "refill"}

Control ==
    /\ pc # "read" => access \in Entries /\ line <= LastLine(access)
    /\ pc \in Missed1 => l1_victim \in SetOf(Self, line) /\ ~ Has(Self, line)
    /\ pc \in Missed2 => l2_victim \in SetOf("L2", line) /\ ~ Has("L2", line)
    /\ pc \in {"L1I", "L1D", "evict"} => tag_addr[l2_victim] # INVALID_TAG
    /\ pc = "L1I" => num_children_dirty = 0
    /\ pc = "L1D" => num_children_dirty <= 1 /\ ~ Has("L1I", tag_addr[l2_victim])
    /\ pc \in {"evict", "refill"} /\ tag_addr[l2_victim] # INVALID_TAG =>
         \A c \in Children : ~ Has(c, tag_addr[l2_victim])
    /\ pc = "fill" => Has("L2", line)
    /\ pc = "use" => Has(Self, line)

Contents == TagAddrOK /\ Placed /\ Unique /\ Included

IInv ==
    /\ Contents
    /\ CountersOK
    /\ CountersDistinct
    /\ DirtyOK
    /\ TagsOK
    /\ ControlOK
    /\ Control

-----------------------------------------------------------------------------
(* Constants *)

LEMMA ConstantFacts ==
    /\ NumLines \in Nat \ {0}
    /\ GranulesPerLine \in 1 .. 8
    /\ MaxSpan \in Nat \ {0}
    /\ MaxWays \in Nat
    /\ \A c \in Caches : /\ NumSets[c] \in Nat \ {0}
                         /\ NumWays[c] \in 1 .. MaxWays
    /\ EntryTypes \subseteq Types
<1>1. MaxWays \in Nat
  BY DEF MaxWays
<1> QED
  BY <1>1, HierarchyAssumption, GranulesAssumption

\* Where an access can come to is a number, and no tag address of a free frame.
LEMMA PlaceFacts ==
    /\ Lines \subseteq Places
    /\ \A ln \in Places : ln \in Nat /\ ln # INVALID_TAG
    /\ \A ln \in Lines : ln + 1 \in Places
BY ConstantFacts DEF Lines, Places, INVALID_TAG

\* A frame is its cache, its set and its way.
LEMMA FrameFacts ==
    /\ \A f \in Frames : /\ f.cache \in Caches
                         /\ f.set \in 0 .. NumSets[f.cache] - 1
                         /\ f.way \in 0 .. NumWays[f.cache] - 1
    /\ \A f, g \in Frames :
         f.cache = g.cache /\ f.set = g.set /\ f.way = g.way => f = g
    /\ \A c \in Caches : \A s \in 0 .. NumSets[c] - 1, w \in 0 .. NumWays[c] - 1 :
         [cache |-> c, set |-> s, way |-> w] \in Frames
    /\ NoFrame \notin Frames
<1>1. ASSUME NEW f \in Frames
      PROVE  /\ f.cache \in Caches
             /\ f.set \in 0 .. NumSets[f.cache] - 1
             /\ f.way \in 0 .. NumWays[f.cache] - 1
             /\ f = [cache |-> f.cache, set |-> f.set, way |-> f.way]
  <2>1. PICK c \in Caches : f \in [cache : {c}, set : 0 .. NumSets[c] - 1,
                                   way : 0 .. NumWays[c] - 1]
    BY DEF Frames
  <2> QED
    BY <2>1
<1>2. ASSUME NEW c \in Caches,
             NEW s \in 0 .. NumSets[c] - 1, NEW w \in 0 .. NumWays[c] - 1
      PROVE  [cache |-> c, set |-> s, way |-> w] \in Frames
  BY DEF Frames
<1>3. NoFrame \notin Frames
  BY <1>1 DEF NoFrame, Caches
<1> QED
  BY <1>1, <1>2, <1>3

LEMMA SetOfFacts ==
    ASSUME NEW c \in Caches, NEW ln \in Places
    PROVE  /\ \A f : f \in SetOf(c, ln) <=>
                       /\ f \in Frames
                       /\ f.cache = c
                       /\ f.set = ln % NumSets[c]
           /\ SetOf(c, ln) # {}
           /\ ln % NumSets[c] \in 0 .. NumSets[c] - 1
<1>1. ln % NumSets[c] \in 0 .. NumSets[c] - 1
  BY ConstantFacts, PlaceFacts
<1>2. 0 \in 0 .. NumWays[c] - 1
  BY ConstantFacts
<1>3. [cache |-> c, set |-> ln % NumSets[c], way |-> 0] \in SetOf(c, ln)
  BY <1>1, <1>2, FrameFacts DEF SetOf
<1> QED
  BY <1>1, <1>3 DEF SetOf

LEMMA LineFacts ==
    ASSUME NEW e \in Entries
    PROVE  FirstLine(e) \in Lines /\ LastLine(e) \in Nat /\ FirstLine(e) <= LastLine(e)
<1> DEFINE G == GranulesPerLine
<1>1. e.first \in 0 .. NumLines * G - 1 /\ e.last \in Nat
  BY ConstantFacts DEF Entries, Entry, Addresses
<1>2. G \in 1 .. 8 /\ NumLines \in Nat \ {0}
  BY ConstantFacts
<1>3. FirstLine(e) <= LastLine(e)
  BY DEF Entries
<1> HIDE DEF G
<1>4. G = 1 \/ G = 2 \/ G = 3 \/ G = 4 \/ G = 5 \/ G = 6 \/ G = 7 \/ G = 8
  BY <1>2
<1>5. e.first \div G \in Nat /\ e.last \div G \in Nat
  BY <1>1, <1>4
<1>6. e.first \div G < NumLines
  BY <1>1, <1>2, <1>4
<1> QED
  BY <1>2, <1>3, <1>5, <1>6 DEF FirstLine, LastLine, Lines, G

\* The clipping to a line leaves the granules of the line that the entry covers.
LEMMA GranulesFacts ==
    ASSUME NEW e \in Entries, NEW ln \in Places
    PROVE  /\ GranulesIn(e, ln) =
                {g \in Granules : ln * GranulesPerLine + g \in e.first .. e.last}
           /\ GranulesIn(e, ln) \in SUBSET Granules
<1> DEFINE G     == GranulesPerLine
           base  == ln * G
           first == e.first
           last  == e.last
<1>1. G \in Nat /\ ln \in Nat /\ first \in Nat /\ last \in Nat
  BY ConstantFacts DEF Entries, Entry, Addresses, Places
<1>2. base \in Nat /\ (ln + 1) * G = base + G
  BY <1>1
<1>3. GranulesIn(e, ln) = (IF first < base THEN 0 ELSE first - base) ..
                          (IF last >= base + G THEN G ELSE last + 1 - base) - 1
  BY <1>2 DEF GranulesIn, StartGranule, EndGranule
<1>4. Granules = 0 .. G - 1
  BY DEF Granules
<1> HIDE DEF G, base, first, last
<1>5. GranulesIn(e, ln) = {g \in Granules : base + g \in first .. last}
  BY <1>1, <1>2, <1>3, <1>4
<1> QED
  BY <1>5 DEF G, base, first, last

LEMMA CacheNames ==
    /\ Self \in Children /\ Peer(Self) \in Children
    /\ Self # Peer(Self)
    /\ Children \subseteq Caches /\ "L2" \in Caches /\ "L2" \notin Children
    /\ \A c \in Caches : c # "L2" => c = "L1I" \/ c = "L1D"
BY DEF Self, Peer, Children, Caches

-----------------------------------------------------------------------------
(* Lookups, and the victims *)

\* A lookup finds a line that the cache has, and no other frame.
LEMMA FindFacts ==
    ASSUME Placed, Unique, NEW c \in Caches, NEW ln \in Places
    PROVE  /\ Cached(c, ln) <=> Has(c, ln)
           /\ Cached(c, ln) =>
                /\ Find(c, ln) \in SetOf(c, ln)
                /\ tag_addr[Find(c, ln)] = ln
                /\ \A f \in Frames : f.cache = c /\ tag_addr[f] = ln => f = Find(c, ln)
<1>1. ln # INVALID_TAG
  BY PlaceFacts
<1>2. Holders(c, ln) = {f \in Frames : f.cache = c /\ tag_addr[f] = ln}
  BY <1>1 DEF Holders, SetOf, Placed
<1>3. Cached(c, ln) <=> Has(c, ln)
  BY <1>2 DEF Cached, Has
<1>4. ASSUME Cached(c, ln)
      PROVE  Find(c, ln) \in Holders(c, ln)
  BY <1>4 DEF Cached, Find
<1>5. Holders(c, ln) \subseteq SetOf(c, ln)
  BY DEF Holders
<1> QED
  BY <1>1, <1>2, <1>3, <1>4, <1>5 DEF Unique

\* The sets are what the lemmas on the replacement policy ask for.
LEMMA SetScannable ==
    ASSUME CountersOK, CountersDistinct, NEW c \in Caches, NEW ln \in Places
    PROVE  /\ Scannable(SetOf(c, ln), counter, NumWays[c])
           /\ DistinctOn(SetOf(c, ln), counter)
           /\ SetOf(c, ln) \subseteq DOMAIN counter
           /\ Victim(SetOf(c, ln), tag_addr, counter) \in SetOf(c, ln)
<1>1. /\ \A f \in SetOf(c, ln) : f \in Frames /\ f.cache = c /\ f.set = ln % NumSets[c]
      /\ SetOf(c, ln) # {}
  BY SetOfFacts
<1>2. Scannable(SetOf(c, ln), counter, NumWays[c])
  BY <1>1, FrameFacts, ConstantFacts DEF CountersOK, Scannable
<1>3. DistinctOn(SetOf(c, ln), counter)
  BY <1>1 DEF CountersDistinct, DistinctOn
<1>4. SetOf(c, ln) \subseteq DOMAIN counter
  BY <1>1 DEF CountersOK
<1> QED
  BY <1>2, <1>3, <1>4, VictimInSet

\* Using a frame keeps the counters of every set an order of its frames.
LEMMA TouchCounters ==
    ASSUME CountersOK, CountersDistinct, NEW c \in Caches, NEW ln \in Places,
           NEW f \in SetOf(c, ln),
           counter' = Touch(counter, SetOf(c, ln), f, NumWays[c])
    PROVE  CountersOK' /\ CountersDistinct'
<1> DEFINE S == SetOf(c, ln)
<1>1. /\ Scannable(S, counter', NumWays[c])
      /\ DistinctOn(S, counter')
  BY SetScannable, TouchOrder
<1>2. \A g : g \in S <=> g \in Frames /\ g.cache = c /\ g.set = ln % NumSets[c]
  BY SetOfFacts
<1> HIDE DEF S
<1>3. /\ DOMAIN counter' = Frames
      /\ counter' = [g \in Frames |-> counter'[g]]
      /\ \A g \in Frames : g \notin S => counter'[g] = counter[g]
  <2>1. f \in S /\ counter' = Touch(counter, S, f, NumWays[c]) /\ DOMAIN counter = Frames
        /\ counter = [g \in Frames |-> counter[g]]
    BY DEF S, CountersOK
  <2>2. CASE counter[f] = 0
    <3>1. counter' = counter
      BY <2>1, <2>2, Zenon DEF Touch
    <3> QED
      BY <2>1, <3>1
  <2>3. CASE counter[f] # 0
    <3> DEFINE Aged(g) == IF g = f THEN 0
                          ELSE IF g \in S /\ counter[g] <= counter[f]
                            THEN (counter[g] + 1) % NumWays[c]
                          ELSE counter[g]
    <3>1. counter' = [g \in Frames |-> Aged(g)]
      BY <2>1, <2>3, Zenon DEF Touch
    <3>2. \A g \in Frames : g \notin S => Aged(g) = counter[g]
      BY <2>1
    <3> HIDE DEF Aged
    <3> QED
      BY <3>1, <3>2, Zenon
  <2> QED
    BY <2>2, <2>3
<1>4. \A g \in S : counter'[g] \in 0 .. NumWays[c] - 1
  BY <1>1 DEF Scannable
<1>5. \A g \in Frames : counter'[g] \in 0 .. MaxWays - 1 /\ counter'[g] < NumWays[g.cache]
  BY <1>2, <1>3, <1>4, ConstantFacts DEF CountersOK
<1>6. CountersDistinct'
  BY <1>1, <1>2, <1>3 DEF CountersDistinct, DistinctOn
<1> QED
  BY <1>3, <1>5, <1>6 DEF CountersOK

-----------------------------------------------------------------------------
(* The two ways in which the contents of the caches change *)

\* An L1 cache drops a line.
LEMMA DropContents ==
    ASSUME Contents, NEW f \in Frames, f.cache \in Children,
           tag_addr' = [tag_addr EXCEPT ![f] = INVALID_TAG]
    PROVE  /\ Contents'
           /\ \A c \in Caches, ln \in Places :
                /\ Has(c, ln)' => Has(c, ln)
                /\ c # f.cache => (Has(c, ln)' <=> Has(c, ln))
           /\ \A x \in Places : x = tag_addr[f] => ~ Has(f.cache, x)'
<1>1. /\ TagAddrOK'
      /\ \A g \in Frames : tag_addr'[g] = IF g = f THEN INVALID_TAG ELSE tag_addr[g]
  BY DEF Contents, TagAddrOK
<1>2. \A ln \in Places : ln # INVALID_TAG
  BY PlaceFacts
<1>3. Placed' /\ Unique'
  BY <1>1 DEF Contents, Placed, Unique
<1>4. \A ln : Has("L2", ln)' <=> Has("L2", ln)
  BY <1>1, CacheNames DEF Has
<1>5. Included'
  BY <1>1, <1>4 DEF Contents, Included
<1>6. ASSUME NEW c \in Caches, NEW ln \in Places
      PROVE  /\ Has(c, ln)' => Has(c, ln)
             /\ c # f.cache => (Has(c, ln)' <=> Has(c, ln))
  BY <1>1, <1>2 DEF Has
<1>7. \A x \in Places : x = tag_addr[f] => ~ Has(f.cache, x)'
  BY <1>1, <1>2 DEF Has, Contents, Unique
<1> QED
  BY <1>1, <1>3, <1>5, <1>6, <1>7 DEF Contents

\* A cache that does not have a line puts it into a frame of its set; a line
\* that leaves L2 has left the L1 caches, one that enters L1 is in L2.
LEMMA FillContents ==
    ASSUME Contents, NEW c \in Caches, NEW ln \in Lines, NEW f \in SetOf(c, ln),
           ~ Has(c, ln),
           c \in Children => Has("L2", ln),
           c = "L2" /\ tag_addr[f] # INVALID_TAG =>
             \A child \in Children : ~ Has(child, tag_addr[f]),
           tag_addr' = [tag_addr EXCEPT ![f] = ln]
    PROVE  /\ Contents'
           /\ Has(c, ln)'
           /\ \A d \in Caches, x \in Places :
                d # c => (Has(d, x)' <=> Has(d, x))
<1>1. f \in Frames /\ f.cache = c /\ f.set = ln % NumSets[c]
  BY SetOfFacts, PlaceFacts
<1>2. /\ TagAddrOK'
      /\ \A g \in Frames : tag_addr'[g] = IF g = f THEN ln ELSE tag_addr[g]
  BY <1>1 DEF Contents, TagAddrOK
<1>3. ln # INVALID_TAG
  BY PlaceFacts
<1>4. Placed'
  BY <1>1, <1>2 DEF Contents, Placed
<1>5. Unique'
  BY <1>1, <1>2 DEF Contents, Unique, Has
<1>6. Has(c, ln)'
  BY <1>1, <1>2 DEF Has
<1>7. ASSUME NEW d \in Caches, d # c, NEW x
      PROVE  Has(d, x)' <=> Has(d, x)
  BY <1>1, <1>2, <1>7 DEF Has
<1>8. ASSUME NEW g \in Frames, g.cache \in Children, tag_addr'[g] # INVALID_TAG
      PROVE  \E h \in Frames : h.cache = "L2" /\ tag_addr'[h] = tag_addr'[g]
  <2>1. CASE c # "L2"
    <3>1. Has("L2", tag_addr'[g])
      BY <1>1, <1>2, <1>8, <2>1, CacheNames DEF Contents, Included, Caches, Children
    <3>2. PICK h \in Frames : h.cache = "L2" /\ tag_addr[h] = tag_addr'[g]
      BY <3>1 DEF Has
    <3> QED
      BY <1>1, <1>2, <2>1, <3>2
  <2>2. CASE c = "L2"
    <3>1. g # f /\ tag_addr'[g] = tag_addr[g]
      BY <1>1, <1>2, <1>8, <2>2, CacheNames
    <3>2. PICK h \in Frames : h.cache = "L2" /\ tag_addr[h] = tag_addr[g]
      BY <1>8, <3>1 DEF Contents, Included, Has
    <3>3. h # f
      BY <1>8, <2>2, <3>1, <3>2 DEF Has
    <3> QED
      BY <1>2, <3>1, <3>2, <3>3 DEF Has
  <2> QED
    BY <2>1, <2>2
<1>9. Included'
  BY <1>8 DEF Included, Has
<1> QED
  BY <1>2, <1>4, <1>5, <1>6, <1>7, <1>9 DEF Contents

-----------------------------------------------------------------------------
(* One lemma for each step of the program *)

LEMMA TagFacts ==
    /\ NoTags \in TagState
    /\ \A t \in TagState, g \in SUBSET Granules, v \in {0, 1} :
         TagsSet(t, g, v) \in TagState
BY DEF NoTags, TagState, TagsSet

\* What a write-back leaves of the types.
LEMMA PushTypes ==
    ASSUME DirtyOK, TagsOK, NEW f \in Frames
    PROVE  /\ PushTags(f) \in [Frames -> TagState]
           /\ PushDirty(f) \in [Frames -> BOOLEAN]
BY DEF DirtyOK, TagsOK, PushTags, PushDirty

LEMMA InitIInv == Init => IInv
<1> SUFFICES ASSUME Init PROVE IInv
  OBVIOUS
<1>1. Contents
  BY ConstantFacts DEF Init, Contents, TagAddrOK, Placed, Unique, Included
<1>2. CountersOK /\ CountersDistinct
  <2>1. \A f \in Frames : f.way \in 0 .. MaxWays - 1 /\ f.way < NumWays[f.cache]
    BY FrameFacts, ConstantFacts
  <2> QED
    BY <2>1, FrameFacts DEF Init, CountersOK, CountersDistinct
<1>3. 0 \in Lines /\ 0 \in Places
  BY ConstantFacts, PlaceFacts DEF Lines
<1>4. DirtyOK /\ TagsOK
  BY <1>3, TagFacts DEF Init, DirtyOK, TagsOK, NoRequest, Request
<1>5. ControlOK
  BY <1>3 DEF Init, ControlOK, Steps, Statuses
<1>6. Control
  BY DEF Init, Control, Missed1, Missed2
<1> QED
  BY <1>1, <1>2, <1>4, <1>5, <1>6 DEF IInv

LEMMA ReadIInv ==
    ASSUME IInv, NEW e \in Entries, ReadEntry(e), UNCHANGED failed
    PROVE  IInv'
<1>1. Contents' /\ CountersOK' /\ CountersDistinct' /\ DirtyOK' /\ TagsOK'
  BY DEF IInv, ReadEntry, lines_vars, Contents, TagAddrOK, Placed, Unique,
         Included, Has, CountersOK, CountersDistinct, DirtyOK, TagsOK
<1>2. ControlOK'
  BY LineFacts, PlaceFacts DEF IInv, ReadEntry, ControlOK, Steps, Statuses
<1>3. Control'
  BY LineFacts DEF ReadEntry, Control, Missed1, Missed2
<1> QED
  BY <1>1, <1>2, <1>3 DEF IInv

LEMMA NotifyIInv ==
    ASSUME IInv, NotifyPeers, UNCHANGED failed
    PROVE  IInv'
<1> DEFINE f == Find(Peer(Self), line)
<1>1. line \in Places
  BY DEF IInv, ControlOK
<1>2. ASSUME Cached(Peer(Self), line)
      PROVE  f \in Frames /\ f.cache \in Children
  BY <1>1, <1>2, FindFacts, SetOfFacts, CacheNames DEF IInv, Contents
<1>3. Contents'
  <2>1. CASE tag_addr' = tag_addr
    BY <2>1 DEF IInv, Contents, TagAddrOK, Placed, Unique, Included, Has
  <2>2. CASE tag_addr' # tag_addr
    <3>1. /\ Cached(Peer(Self), line)
          /\ tag_addr' = [tag_addr EXCEPT ![f] = INVALID_TAG]
      BY <2>2 DEF NotifyPeers, DropOnStore
    <3> QED
      BY <1>2, <3>1, DropContents DEF IInv
  <2> QED
    BY <2>1, <2>2
<1>4. CountersOK' /\ CountersDistinct'
  BY DEF IInv, NotifyPeers, CountersOK, CountersDistinct
<1>5. DirtyOK' /\ TagsOK'
  <2>1. CASE Cached(Peer(Self), line)
    <3>1. /\ tags_cheri' = PushTags(f)
          /\ dirty' = [PushDirty(f) EXCEPT ![f] = FALSE]
          /\ UNCHANGED <<table, request>>
      BY <2>1 DEF NotifyPeers
    <3> HIDE DEF f
    <3> QED
      BY <1>2, <2>1, <3>1, PushTypes DEF IInv, DirtyOK, TagsOK
  <2>2. CASE ~ Cached(Peer(Self), line)
    BY <2>2 DEF IInv, NotifyPeers, DirtyOK, TagsOK
  <2> QED
    BY <2>1, <2>2
<1>6. ControlOK'
  BY DEF IInv, NotifyPeers, ControlOK, Steps, Statuses
<1>7. Control'
  BY DEF IInv, NotifyPeers, Control, Missed1, Missed2
<1> QED
  BY <1>3, <1>4, <1>5, <1>6, <1>7 DEF IInv

LEMMA RequestHitIInv ==
    ASSUME IInv, RequestHit, UNCHANGED failed
    PROVE  IInv'
<1>1. line \in Places /\ Self \in Caches
  BY CacheNames DEF IInv, ControlOK
<1>2. Has(Self, line) /\ Find(Self, line) \in SetOf(Self, line)
  BY <1>1, FindFacts DEF IInv, Contents, RequestHit
<1>3. CountersOK' /\ CountersDistinct'
  BY <1>1, <1>2, TouchCounters DEF IInv, RequestHit, Used
<1>4. Contents' /\ DirtyOK' /\ TagsOK'
  BY DEF IInv, RequestHit, Contents, TagAddrOK, Placed, Unique, Included, Has,
         DirtyOK, TagsOK
<1>5. ControlOK'
  BY DEF IInv, RequestHit, control_vars, ControlOK, Steps
<1>6. Control'
  BY <1>2 DEF IInv, RequestHit, control_vars, Control, Missed1, Missed2, Has, Self
<1> QED
  BY <1>3, <1>4, <1>5, <1>6 DEF IInv

LEMMA RequestMissIInv ==
    ASSUME IInv, RequestMiss, UNCHANGED failed
    PROVE  IInv'
<1> DEFINE victim == Victim(SetOf(Self, line), tag_addr, counter)
<1>1. line \in Places /\ Self \in Caches
  BY CacheNames DEF IInv, ControlOK
<1>2. victim \in SetOf(Self, line) /\ victim \in Frames /\ ~ Has(Self, line)
  BY <1>1, SetScannable, SetOfFacts, FindFacts DEF IInv, Contents, RequestMiss
<1>3. /\ l1_victim' = victim
      /\ \/ UNCHANGED <<tags_cheri, dirty>>
         \/ tags_cheri' = PushTags(victim) /\ dirty' = PushDirty(victim)
      /\ pc' = "forward"
      /\ pc = "request"
      /\ UNCHANGED <<tag_addr, counter, table, request, access, line, status,
                     l2_victim, num_children_dirty>>
  BY DEF RequestMiss
<1> HIDE DEF victim
<1>4. DirtyOK' /\ TagsOK'
  BY <1>2, <1>3, PushTypes DEF IInv, DirtyOK, TagsOK
<1>5. Contents' /\ CountersOK' /\ CountersDistinct'
  BY <1>3 DEF IInv, Contents, TagAddrOK, Placed, Unique, Included, Has,
              CountersOK, CountersDistinct
<1>6. ControlOK'
  BY <1>2, <1>3 DEF IInv, ControlOK, Steps
<1>7. Control'
  BY <1>2, <1>3 DEF IInv, Control, Missed1, Missed2, Has, Self, SetOf
<1> QED
  BY <1>4, <1>5, <1>6, <1>7 DEF IInv

LEMMA ForwardHitIInv ==
    ASSUME IInv, ForwardHit, UNCHANGED failed
    PROVE  IInv'
<1>1. line \in Places /\ "L2" \in Caches
  BY CacheNames DEF IInv, ControlOK
<1>2. Has("L2", line) /\ Find("L2", line) \in SetOf("L2", line)
  BY <1>1, FindFacts DEF IInv, Contents, ForwardHit
<1>3. CountersOK' /\ CountersDistinct'
  BY <1>1, <1>2, TouchCounters DEF IInv, ForwardHit, Used
<1>4. Contents' /\ DirtyOK' /\ TagsOK'
  BY DEF IInv, ForwardHit, Contents, TagAddrOK, Placed, Unique, Included, Has,
         DirtyOK, TagsOK
<1>5. ControlOK'
  BY DEF IInv, ForwardHit, control_vars, ControlOK, Steps
<1>6. Control'
  BY <1>2 DEF IInv, ForwardHit, control_vars, Control, Missed1, Missed2, Has,
              Self, SetOf
<1> QED
  BY <1>3, <1>4, <1>5, <1>6 DEF IInv

LEMMA ForwardMissIInv ==
    ASSUME IInv, ForwardMiss, UNCHANGED failed
    PROVE  IInv'
<1> DEFINE victim == Victim(SetOf("L2", line), tag_addr, counter)
<1>1. line \in Places /\ "L2" \in Caches
  BY CacheNames DEF IInv, ControlOK
<1>2. victim \in SetOf("L2", line) /\ victim \in Frames /\ ~ Has("L2", line)
  BY <1>1, SetScannable, SetOfFacts, FindFacts DEF IInv, Contents, ForwardMiss
<1>3. /\ l2_victim' = victim
      /\ num_children_dirty' = 0
      /\ pc' = IF tag_addr[victim] = INVALID_TAG THEN "refill" ELSE "L1I"
      /\ pc = "forward"
      /\ UNCHANGED <<lines_vars, table, request, access, line, status, l1_victim>>
  BY DEF ForwardMiss
<1> HIDE DEF victim
<1>4. Contents' /\ CountersOK' /\ CountersDistinct' /\ DirtyOK' /\ TagsOK'
  BY <1>3 DEF IInv, lines_vars, Contents, TagAddrOK, Placed, Unique, Included,
              Has, CountersOK, CountersDistinct, DirtyOK, TagsOK
<1>5. ControlOK'
  BY <1>2, <1>3 DEF IInv, ControlOK, Steps
<1>6. Control'
  BY <1>2, <1>3 DEF IInv, lines_vars, Control, Missed1, Missed2, Has, Self, SetOf
<1> QED
  BY <1>4, <1>5, <1>6 DEF IInv

LEMMA BackInvalidateIInv ==
    ASSUME IInv, NEW child \in Children, BackInvalidate(child), UNCHANGED failed
    PROVE  IInv'
<1> DEFINE ln == tag_addr[l2_victim]
           f == Find(child, ln)
<1>1. /\ pc = child
      /\ pc' = IF child = "L1I" THEN "L1D" ELSE "evict"
      /\ UNCHANGED <<counter, table, request, access, line, status, l1_victim,
                     l2_victim>>
  BY DEF BackInvalidate, AfterChild
<1>2. /\ line \in Places /\ child \in Caches
      /\ pc \in Missed1 /\ pc \in Missed2 /\ pc \in {"L1I", "L1D"}
  BY <1>1, CacheNames DEF IInv, ControlOK, Children, Missed1, Missed2
<1>3. /\ l1_victim \in SetOf(Self, line) /\ ~ Has(Self, line)
      /\ l2_victim \in SetOf("L2", line) /\ ~ Has("L2", line)
      /\ ln # INVALID_TAG
  BY <1>2 DEF IInv, Control
<1>4. l2_victim \in Frames /\ l2_victim.cache = "L2" /\ ln \in Lines
  BY <1>2, <1>3, SetOfFacts, PlaceFacts, CacheNames DEF IInv, Contents, TagAddrOK
<1>5. Cached(child, ln) <=> Has(child, ln)
  BY <1>2, <1>4, FindFacts, PlaceFacts DEF IInv, Contents
<1>6. ASSUME Cached(child, ln)
      PROVE  f \in Frames /\ f.cache = child /\ tag_addr[f] = ln /\ f # l2_victim
  BY <1>2, <1>4, <1>6, FindFacts, SetOfFacts, PlaceFacts, CacheNames DEF IInv, Contents
<1>7. \/ /\ Cached(child, ln)
         /\ tags_cheri' = PushTags(f)
         /\ dirty' = PushDirty(f)
         /\ tag_addr' = [tag_addr EXCEPT ![f] = INVALID_TAG]
         /\ num_children_dirty' = num_children_dirty + (IF dirty[f] THEN 1 ELSE 0)
      \/ /\ ~ Cached(child, ln)
         /\ UNCHANGED <<tags_cheri, dirty, tag_addr, num_children_dirty>>
  BY DEF BackInvalidate, DropChild
<1> HIDE DEF f
<1>8. /\ Contents'
      /\ \A c \in Caches, x \in Places :
           /\ Has(c, x)' => Has(c, x)
           /\ c # child => (Has(c, x)' <=> Has(c, x))
      /\ \A x \in Places : x = ln => ~ Has(child, x)'
      /\ tag_addr'[l2_victim] = ln
  <2>1. CASE Cached(child, ln)
    <3>1. tag_addr' = [tag_addr EXCEPT ![f] = INVALID_TAG]
      BY <1>7, <2>1
    <3>2. tag_addr'[l2_victim] = ln
      BY <1>4, <1>6, <2>1, <3>1 DEF IInv, Contents, TagAddrOK
    <3> QED
      BY <1>6, <2>1, <3>1, <3>2, DropContents DEF IInv
  <2>2. CASE ~ Cached(child, ln)
    BY <1>5, <1>7, <2>2
    DEF IInv, Contents, TagAddrOK, Placed, Unique, Included, Has
  <2> QED
    BY <2>1, <2>2
<1>9. CountersOK' /\ CountersDistinct'
  BY <1>1 DEF IInv, CountersOK, CountersDistinct
<1>10. DirtyOK' /\ TagsOK'
  BY <1>1, <1>6, <1>7, PushTypes DEF IInv, DirtyOK, TagsOK
<1>11. /\ num_children_dirty' \in 0 .. 2
       /\ child = "L1I" => num_children_dirty' <= 1
  BY <1>1, <1>7 DEF IInv, Control, ControlOK, Children
<1>12. ControlOK'
  BY <1>1, <1>11 DEF IInv, ControlOK, Steps
<1>13. Control'
  <2>1. Self' = Self /\ SetOf(Self, line)' = SetOf(Self, line)
        /\ SetOf("L2", line)' = SetOf("L2", line)
    BY <1>1 DEF Self, SetOf
  <2>2. ~ Has(Self, line)' /\ ~ Has("L2", line)'
    <3>1. \A c \in Caches, x \in Places : x = line /\ ~ Has(c, x) => ~ Has(c, line)'
      BY <1>1, <1>8 DEF Has
    <3> QED
      BY <1>2, <1>3, <2>1, <3>1, CacheNames DEF Has
  <2>3. ~ Has(child, tag_addr[l2_victim])'
    BY <1>1, <1>4, <1>8, PlaceFacts DEF Has
  <2>4. child = "L1D" => ~ Has("L1I", tag_addr[l2_victim])'
    <3>1. child = "L1D" => ~ Has("L1I", ln)
      BY <1>1 DEF IInv, Control
    <3>2. \A x \in Places : ~ Has("L1I", x) => ~ Has("L1I", x)'
      BY <1>8, CacheNames DEF Children
    <3> QED
      BY <1>1, <1>4, <1>8, <3>1, <3>2, PlaceFacts DEF Has
  <2>5. access \in Entries /\ line <= LastLine(access)
    BY <1>2 DEF IInv, Control
  <2> QED
    BY <1>1, <1>2, <1>3, <1>8, <1>11, <2>1, <2>2, <2>3, <2>4, <2>5
    DEF Control, Children
<1> QED
  BY <1>8, <1>9, <1>10, <1>12, <1>13 DEF IInv

LEMMA EvictIInv ==
    ASSUME IInv, Evict, UNCHANGED failed
    PROVE  IInv'
<1> DEFINE ln == tag_addr[l2_victim]
<1>1. line \in Places /\ l2_victim \in SetOf("L2", line) /\ ln # INVALID_TAG
  BY DEF IInv, Evict, ControlOK, Control, Missed2
<1>2. l2_victim \in Frames /\ ln \in Lines
  BY <1>1, SetOfFacts, CacheNames DEF IInv, Contents, TagAddrOK
<1>3. tags_cheri[l2_victim] \in TagState
  BY <1>2 DEF IInv, TagsOK
<1>4. table' \in [Lines -> TagState] /\ request' \in Request
  BY <1>2, <1>3, TagFacts, ConstantFacts
  DEF Evict, Evicted, Emit, IInv, TagsOK, Request, NoRequest, Lines
<1>5. /\ Contents' /\ CountersOK' /\ CountersDistinct' /\ DirtyOK' /\ TagsOK'
  BY <1>4 DEF IInv, Evict, lines_vars, Contents, TagAddrOK, Placed, Unique,
              Included, Has, CountersOK, CountersDistinct, DirtyOK, TagsOK
<1>6. ControlOK'
  BY DEF IInv, Evict, control_vars, ControlOK, Steps
<1>7. Control'
  BY DEF IInv, Evict, lines_vars, control_vars, Control, Missed1, Missed2, Has,
         Self, SetOf
<1> QED
  BY <1>5, <1>6, <1>7 DEF IInv

LEMMA RefillIInv ==
    ASSUME IInv, Refill, Faults = {}, UNCHANGED failed
    PROVE  IInv'
<1>1. /\ line \in Places /\ "L2" \in Caches
      /\ l2_victim \in SetOf("L2", line) /\ ~ Has("L2", line)
      /\ l1_victim \in SetOf(Self, line) /\ ~ Has(Self, line)
      /\ tag_addr[l2_victim] # INVALID_TAG =>
           \A c \in Children : ~ Has(c, tag_addr[l2_victim])
  BY CacheNames DEF IInv, Refill, ControlOK, Control, Missed1, Missed2
<1>0. line \in Lines
  BY DEF Refill, Faults, RefillFaults, Children
<1>2. l2_victim \in Frames
  BY <1>1, SetOfFacts
<1>3. /\ Contents'
      /\ Has("L2", line)'
      /\ \A d \in Caches, x \in Places : d # "L2" => (Has(d, x)' <=> Has(d, x))
  <2>1. tag_addr' = [tag_addr EXCEPT ![l2_victim] = line] /\ line' = line
    BY DEF Refill
  <2>2. PICK ln \in Lines : ln = line
    BY <1>0
  <2>3. /\ Contents
        /\ l2_victim \in SetOf("L2", ln) /\ ~ Has("L2", ln)
        /\ "L2" \in Children => Has("L2", ln)
        /\ tag_addr' = [tag_addr EXCEPT ![l2_victim] = ln]
    BY <1>1, <2>1, <2>2, CacheNames DEF IInv
  <2>4. /\ Contents'
        /\ Has("L2", ln)'
        /\ \A d \in Caches, x \in Places : d # "L2" => (Has(d, x)' <=> Has(d, x))
    BY <1>1, <2>3, FillContents
  <2>5. Has("L2", line)'
    BY <2>1, <2>2, <2>4 DEF Has
  <2> QED
    BY <2>4, <2>5
<1>4. CountersOK' /\ CountersDistinct'
  BY <1>1, TouchCounters DEF IInv, Refill, Used
<1>5. DirtyOK' /\ TagsOK'
  BY <1>0, <1>2 DEF IInv, Refill, DirtyOK, TagsOK, Emit, Request
<1>6. ControlOK'
  BY DEF IInv, Refill, ControlOK, Steps
<1>7. Control'
  <2>1. /\ pc' = "fill" /\ pc = "refill"
        /\ UNCHANGED <<access, line, l1_victim>>
    BY DEF Refill
  <2>2. Self' = Self /\ SetOf(Self, line)' = SetOf(Self, line)
    BY <2>1 DEF Self, SetOf
  <2>3. ~ Has(Self, line)'
    <3>1. \A c \in Children, x \in Places : x = line /\ ~ Has(c, x) => ~ Has(c, line)'
      BY <1>3, <2>1, CacheNames DEF Has
    <3> QED
      BY <1>1, <2>2, <3>1, CacheNames DEF Has
  <2>4. access \in Entries /\ line <= LastLine(access)
    BY <2>1 DEF IInv, Control
  <2> QED
    BY <1>1, <1>3, <2>1, <2>2, <2>3, <2>4 DEF Control, Missed1, Missed2
<1> QED
  BY <1>3, <1>4, <1>5, <1>6, <1>7 DEF IInv

LEMMA FillIInv ==
    ASSUME IInv, Fill, UNCHANGED failed
    PROVE  IInv'
<1>1. /\ line \in Places /\ Self \in Caches /\ Self # "L2" /\ "L2" \in Caches
      /\ l1_victim \in SetOf(Self, line) /\ ~ Has(Self, line)
      /\ Has("L2", line)
  BY CacheNames DEF IInv, Fill, ControlOK, Control, Missed1
<1>2. l1_victim \in Frames /\ l1_victim.cache = Self
  BY <1>1, SetOfFacts
<1>3. Find("L2", line) \in Frames
  BY <1>1, FindFacts, SetOfFacts DEF IInv, Contents
<1>4. /\ tag_addr' = [tag_addr EXCEPT ![l1_victim] = line]
      /\ pc' = "use"
      /\ UNCHANGED <<access, line>>
  BY DEF Fill
<1>5. Contents'
  <2>1. line \in Lines
    BY <1>1, PlaceFacts DEF IInv, Contents, TagAddrOK, Has
  <2> QED
    BY <1>1, <1>4, <2>1, FillContents DEF IInv
<1>6. CountersOK' /\ CountersDistinct'
  BY <1>1, TouchCounters DEF IInv, Fill, Used
<1>7. DirtyOK' /\ TagsOK'
  <2>1. tags_cheri[Find("L2", line)] \in TagState
    BY <1>3 DEF IInv, TagsOK
  <2>2. NoRequest \in Request
    BY TagFacts, ConstantFacts DEF NoRequest, Request, Lines
  <2> QED
    BY <1>2, <2>1, <2>2 DEF IInv, Fill, FilledDirty, DirtyOK, TagsOK
<1>8. ControlOK'
  BY DEF IInv, Fill, ControlOK, Steps
<1>9. Control'
  <2>1. Has(Self, line)'
    BY <1>2, <1>4 DEF Has, Self, IInv, Contents, TagAddrOK
  <2>2. access \in Entries /\ line <= LastLine(access)
    BY DEF Fill, IInv, Control
  <2> QED
    BY <1>4, <2>1, <2>2 DEF Control, Missed1, Missed2
<1> QED
  BY <1>5, <1>6, <1>7, <1>8, <1>9 DEF IInv

\* The three ways to use a line change tags and dirty flags only, and go on
\* with the next line.
LEMMA UseIInv ==
    ASSUME IInv, pc = "use", NextLine,
           tags_cheri' \in [Frames -> TagState],
           dirty' \in [Frames -> BOOLEAN],
           UNCHANGED <<tag_addr, counter, table, request, l1_victim, l2_victim,
                       num_children_dirty, failed>>
    PROVE  IInv'
<1>1. /\ Contents' /\ CountersOK' /\ CountersDistinct' /\ DirtyOK' /\ TagsOK'
  BY DEF IInv, Contents, TagAddrOK, Placed, Unique, Included, Has, CountersOK,
         CountersDistinct, DirtyOK, TagsOK
<1>2. access \in Entries /\ line \in Lines /\ LastLine(access) \in Nat
  <2>1. Has(Self, line) /\ line \in Places /\ access \in Entries
    BY DEF IInv, Control, ControlOK
  <2> QED
    BY <2>1, LineFacts, PlaceFacts DEF IInv, Contents, TagAddrOK, Has
<1>3. line + 1 \in Places /\ (line < LastLine(access) => line + 1 <= LastLine(access))
  BY <1>2, PlaceFacts
<1>4. 0 \in Places /\ line \in Places
  <2>1. 0 \in Places
    BY ConstantFacts DEF Places
  <2> QED
    BY <1>2, <2>1, PlaceFacts
<1>5. ControlOK'
  BY <1>3, <1>4 DEF IInv, NextLine, ControlOK, Steps, Statuses
<1>6. Control'
  BY <1>2, <1>3 DEF NextLine, Control, Missed1, Missed2
<1> QED
  BY <1>1, <1>5, <1>6 DEF IInv

\* The tags an access leaves in its line.
LEMMA NewTagsType ==
    ASSUME IInv, pc = "use"
    PROVE  NewTags \in TagState
<1>1. line \in Places /\ Has(Self, line) /\ Self \in Caches /\ access \in Entries
  BY CacheNames DEF IInv, ControlOK, Control
<1>2. Find(Self, line) \in Frames
  BY <1>1, FindFacts, SetOfFacts DEF IInv, Contents
<1>3. tags_cheri[Find(Self, line)] \in TagState
  BY <1>2 DEF IInv, TagsOK
<1>4. access.tag \in {0, 1} /\ GranulesIn(access, line) \in SUBSET Granules
  BY <1>1, GranulesFacts DEF Entries, Entry
<1> QED
  BY <1>3, <1>4, TagFacts DEF NewTags

LEMMA LoadIInv ==
    ASSUME IInv, Load, UNCHANGED failed
    PROVE  IInv'
BY UseIInv DEF Load, lines_vars, IInv, TagsOK, DirtyOK

LEMMA StoreIInv ==
    ASSUME IInv, Store, UNCHANGED failed
    PROVE  IInv'
<1>1. /\ tags_cheri' = [tags_cheri EXCEPT ![Find(Self, line)] = NewTags]
      /\ dirty' = [dirty EXCEPT ![Find(Self, line)] = TRUE]
      /\ pc = "use"
  BY DEF Store
<1>2. tags_cheri' \in [Frames -> TagState] /\ dirty' \in [Frames -> BOOLEAN]
  BY <1>1, NewTagsType DEF IInv, TagsOK, DirtyOK
<1> QED
  BY <1>2, UseIInv DEF Store

LEMMA LearnIInv ==
    ASSUME IInv, Learn, UNCHANGED failed
    PROVE  IInv'
<1>1. pc = "use" /\ dirty' = dirty
  BY DEF Learn
<1>2. tags_cheri' \in [Frames -> TagState]
  BY <1>1, NewTagsType DEF Learn, IInv, TagsOK
<1> QED
  BY <1>1, <1>2, UseIInv DEF Learn, IInv, DirtyOK

\* When an assertion fails nothing changes but that it has failed.
LEMMA AbortIInv ==
    ASSUME IInv, Abort
    PROVE  IInv'
<1>1. Faults \subseteq Assertions
  BY DEF Faults, ChildFaults, FindFaults, PushFaults, UpdateFaults,
         RequestFaults, ScanFaults, RefillFaults, UseFaults, EvictFaults, LearnFaults, Assertions
<1>2. ControlOK'
  BY <1>1 DEF Abort, IInv, control_vars, ControlOK
<1> QED
  BY <1>2 DEF Abort, IInv, lines_vars, control_vars, Contents, TagAddrOK,
     Placed, Unique, Included, Has, CountersOK, CountersDistinct, DirtyOK,
     TagsOK, Control, Missed1, Missed2, Self, SetOf

LEMMA NextIInv == IInv /\ [Next]_vars => IInv'
<1> SUFFICES ASSUME IInv, [Next]_vars PROVE IInv'
  OBVIOUS
<1>1. CASE Read
  BY <1>1, ReadIInv DEF Read
<1>2. CASE Faults = {} /\ Step /\ UNCHANGED failed
  BY <1>2, NotifyIInv, RequestHitIInv, RequestMissIInv, ForwardHitIInv,
     ForwardMissIInv, BackInvalidateIInv, EvictIInv, RefillIInv, FillIInv,
     LoadIInv, StoreIInv, LearnIInv
  DEF Step
<1>3. CASE Abort
  BY <1>3, AbortIInv
<1>4. CASE UNCHANGED vars
  BY <1>4 DEF vars, IInv, lines_vars, control_vars, Contents, TagAddrOK,
     Placed, Unique, Included, Has, CountersOK, CountersDistinct, DirtyOK,
     TagsOK, ControlOK, Control, Missed1, Missed2, Self, SetOf
<1> QED
  BY <1>1, <1>2, <1>3, <1>4 DEF Next, Simulate

-----------------------------------------------------------------------------
\* The inductive invariant holds in every execution.
THEOREM Invariance == Spec => []IInv
BY InitIInv, NextIInv, PTL DEF Spec

\* The devices and the loop of trace_simulate never leave their types: no
\* counter reaches the number of ways, which its u16 has to hold, and at most
\* two children are counted.
THEOREM Typed == Spec => []TypeOK
<1>1. IInv => TypeOK
  BY DEF IInv, Contents, TypeOK
<1> QED
  BY <1>1, Invariance, PTL

\* The assertion of cache_find_existing: whatever a request did between the
\* choice of a frame and the fill, no cache has a line twice.
THEOREM AtMostOnce == Spec => []NoDuplicateLine
<1>1. IInv => NoDuplicateLine
  BY DEF IInv, Contents, Placed, Unique, NoDuplicateLine
<1> QED
  BY <1>1, Invariance, PTL

\* The replacement scans find one oldest way: the counters of a set differ.
THEOREM DistinctCounters == Spec => []CountersDistinct
<1>1. IInv => CountersDistinct
  BY DEF IInv
<1> QED
  BY <1>1, Invariance, PTL

\* L2 is inclusive: the write-backs of the L1 caches find their line.
THEOREM Inclusion == Spec => []Inclusive
<1>1. IInv => Inclusive
  <2> SUFFICES ASSUME IInv, NEW f \in Frames, f.cache \in Children,
                      tag_addr[f] # INVALID_TAG
               PROVE  Cached("L2", tag_addr[f])
    BY DEF Inclusive
  <2>1. PICK ln \in Lines : ln = tag_addr[f]
    BY DEF IInv, Contents, TagAddrOK
  <2>2. Has("L2", ln)
    BY <2>1 DEF IInv, Contents, Included
  <2>3. Cached("L2", ln)
    BY <2>2, FindFacts, PlaceFacts, CacheNames DEF IInv, Contents
  <2> QED
    BY <2>1, <2>3
<1> QED
  BY <1>1, Invariance, PTL

-----------------------------------------------------------------------------
(* What the caches know of the tags, for every size and every trace: on top *)
(* of the invariant above, which is about lines and pointers, one about      *)
(* tags and dirty flags.                                                     *)

AllMasked ==
    /\ \A f \in Frames : Masked(tags_cheri[f])
    /\ \A ln \in Lines : Masked(table[ln])

Writer ==
    \A f \in Frames :
        f.cache \in Children /\ tag_addr[f] # INVALID_TAG /\ dirty[f] =>
          f.cache = "L1D" /\ ~ Has("L1I", tag_addr[f])

\* From the flush to the end of the access: the other L1 cache has the line
\* if the flush has found it and left it there, and then it has what L2 has.
Flushed ==
    pc \notin {"read", "flush"} =>
      /\ access.type \in Stores => ~ Has(Peer(Self), line)
      /\ access.type \notin Stores => (Shared <=> Has(Peer(Self), line))
      /\ \A g \in Frames :
           g.cache = Peer(Self) /\ tag_addr[g] = line =>
             /\ ~ dirty[g]
             /\ \A h \in Frames :
                  h.cache = "L2" /\ tag_addr[h] = line => tags_cheri[g] = tags_cheri[h]

\* At most the data cache has a dirty copy of the line that leaves L2.
Counted ==
    /\ pc = "L1D" => num_children_dirty = 0
    /\ pc = "evict" => num_children_dirty <= 1

Known == AllMasked /\ KnownGrowsUpward /\ SharersAgree

TagInv == Known /\ Writer /\ Flushed /\ Counted

-----------------------------------------------------------------------------
(* How a step changes what is known *)

\* The only lines that have moved have left a cache.
Dropped ==
    \A g \in Frames : tag_addr'[g] = tag_addr[g] \/ tag_addr'[g] = INVALID_TAG

\* A frame of an L1 cache is pushed into L2, and may be dropped.
LEMMA PushKnown ==
    ASSUME Contents, TagsOK, Known, NEW f \in Frames, f.cache \in Children,
           tag_addr[f] # INVALID_TAG, tags_cheri' = PushTags(f), Dropped,
           UNCHANGED table
    PROVE  /\ Known'
           /\ \A g \in Frames : g.cache \in Children => tags_cheri'[g] = tags_cheri[g]
           /\ \A g, h \in Frames :
                /\ g.cache \in Children /\ h.cache = "L2"
                /\ tag_addr[g] # INVALID_TAG /\ tag_addr[g] = tag_addr[h]
                /\ tags_cheri[g] = tags_cheri[h]
                => tags_cheri'[g] = tags_cheri'[h]
<1>1. PICK ln \in Lines : ln = tag_addr[f]
  BY DEF Contents, TagAddrOK
<1>2. Cached("L2", ln)
  BY <1>1, FindFacts, PlaceFacts, CacheNames DEF Contents, Included
<1>3. PICK to \in Frames : to = Find("L2", ln)
  BY <1>2, FindFacts, SetOfFacts, PlaceFacts, CacheNames DEF Contents
<1>4. to.cache = "L2" /\ tag_addr[to] = ln
  BY <1>2, <1>3, FindFacts, SetOfFacts, PlaceFacts, CacheNames DEF Contents
<1>5. \A g \in Frames : tags_cheri'[g] = IF g = to THEN tags_cheri[f] ELSE tags_cheri[g]
  BY <1>1, <1>3 DEF PushTags, TagsOK
<1>6. \A g \in Frames : g.cache = "L2" /\ tag_addr[g] = ln => g = to
  BY <1>1, <1>4 DEF Contents, Unique
<1>7. \A g \in Frames : g.cache \in Children => g # to
  BY <1>4, CacheNames
<1>8. ASSUME NEW g \in Frames, g.cache \in Children, tag_addr[g] = ln
      PROVE  tags_cheri[g] = tags_cheri[f]
  <2>1. CASE g.cache = f.cache
    BY <1>1, <1>8, <2>1 DEF Contents, Unique
  <2>2. CASE g.cache # f.cache
    BY <1>1, <1>4, <1>8, <2>2 DEF Known, SharersAgree, Children
  <2> QED
    BY <2>1, <2>2
<1>9. AllMasked'
  BY <1>5 DEF Known, AllMasked
<1>10. KnownGrowsUpward'
  <2>1. ASSUME NEW g \in Frames, g.cache = "L2", tag_addr'[g] # INVALID_TAG
        PROVE  table[tag_addr'[g]].known \subseteq tags_cheri'[g].known
    <3>1. tag_addr'[g] = tag_addr[g] /\ tag_addr[g] # INVALID_TAG
      BY <2>1 DEF Dropped
    <3>2. table[tag_addr[g]].known \subseteq tags_cheri[g].known
      BY <2>1, <3>1 DEF Known, KnownGrowsUpward
    <3>3. tags_cheri[to].known \subseteq tags_cheri[f].known
      BY <1>1, <1>4 DEF Known, KnownGrowsUpward
    <3> QED
      BY <1>5, <3>1, <3>2, <3>3
  <2>2. ASSUME NEW g \in Frames, NEW h \in Frames, g.cache \in Children, h.cache = "L2",
               tag_addr'[g] # INVALID_TAG, tag_addr'[g] = tag_addr'[h]
        PROVE  tags_cheri'[h].known \subseteq tags_cheri'[g].known
    <3>1. tag_addr'[g] = tag_addr[g] /\ tag_addr'[h] = tag_addr[h]
      BY <2>2 DEF Dropped
    <3>2. tags_cheri[h].known \subseteq tags_cheri[g].known
      BY <2>2, <3>1 DEF Known, KnownGrowsUpward
    <3>3. h = to => tags_cheri[g] = tags_cheri[f]
      BY <1>4, <1>8, <2>2, <3>1
    <3> QED
      BY <1>5, <1>7, <2>2, <3>2, <3>3
  <2> QED
    BY <2>1, <2>2 DEF KnownGrowsUpward
<1>11. ASSUME NEW g \in Frames, NEW h \in Frames, g.cache \in Children, h.cache = "L2",
              tag_addr[g] # INVALID_TAG, tag_addr[g] = tag_addr[h],
              tags_cheri[g] = tags_cheri[h]
       PROVE  tags_cheri'[g] = tags_cheri'[h]
  BY <1>4, <1>5, <1>7, <1>8, <1>11
<1>12. ASSUME NEW g \in Frames, NEW h \in Frames, NEW k \in Frames,
              g.cache = "L1I", h.cache = "L1D", k.cache = "L2",
              tag_addr'[g] # INVALID_TAG,
              tag_addr'[g] = tag_addr'[h], tag_addr'[g] = tag_addr'[k]
       PROVE  tags_cheri'[g] = tags_cheri'[h] /\ tags_cheri'[g] = tags_cheri'[k]
  <2>1. /\ tag_addr'[g] = tag_addr[g] /\ tag_addr'[h] = tag_addr[h]
        /\ tag_addr'[k] = tag_addr[k]
    BY <1>12 DEF Dropped
  <2>2. /\ tag_addr[g] # INVALID_TAG /\ tag_addr[h] # INVALID_TAG
        /\ tag_addr[g] = tag_addr[h] /\ tag_addr[g] = tag_addr[k]
        /\ tag_addr[h] = tag_addr[k]
    BY <1>12, <2>1
  <2>3. SharersAgree
    BY DEF Known
  <2>4. tags_cheri[g] = tags_cheri[h] /\ tags_cheri[g] = tags_cheri[k]
    BY <1>12, <2>2, <2>3, Zenon DEF SharersAgree
  <2>5. tags_cheri[h] = tags_cheri[k]
    BY <2>4
  <2>6. g.cache \in Children /\ h.cache \in Children /\ k.cache = "L2"
    BY <1>12 DEF Children
  <2>7. tags_cheri'[g] = tags_cheri'[k]
    BY <1>11, <2>2, <2>4, <2>6, Zenon
  <2>8. tags_cheri'[h] = tags_cheri'[k]
    BY <1>11, <2>2, <2>5, <2>6, Zenon
  <2> QED
    BY <2>7, <2>8
<1>13. SharersAgree'
  <2> SUFFICES ASSUME NEW g \in Frames, NEW h \in Frames, NEW k \in Frames
               PROVE  (/\ g.cache = "L1I" /\ h.cache = "L1D" /\ k.cache = "L2"
                       /\ tag_addr[g] # INVALID_TAG
                       /\ tag_addr[g] = tag_addr[h]
                       /\ tag_addr[g] = tag_addr[k]
                       => tags_cheri[g] = tags_cheri[h] /\ tags_cheri[g] = tags_cheri[k])'
    BY Zenon DEF SharersAgree
  <2> QED
    BY <1>12
<1> QED
  BY <1>5, <1>7, <1>9, <1>10, <1>11, <1>13 DEF Known

\* A push makes only frames of L2 dirty.
LEMMA PushDirtyFacts ==
    ASSUME Contents, DirtyOK, NEW f \in Frames, f.cache \in Children,
           tag_addr[f] # INVALID_TAG
    PROVE  \A g \in Frames : g.cache \in Children => PushDirty(f)[g] = dirty[g]
<1>1. PICK ln \in Lines : ln = tag_addr[f]
  BY DEF Contents, TagAddrOK
<1>2. Cached("L2", ln)
  BY <1>1, FindFacts, PlaceFacts, CacheNames DEF Contents, Included
<1>3. Find("L2", ln).cache = "L2"
  BY <1>2, FindFacts, SetOfFacts, PlaceFacts, CacheNames DEF Contents
<1>4. "L2" \notin Children
  BY CacheNames
<1> QED
  BY <1>1, <1>3, <1>4 DEF PushDirty, DirtyOK

\* No L1 cache has become dirty, no line has come to one.
LEMMA WriterKept ==
    ASSUME Writer, Dropped,
           \A g \in Frames : g.cache \in Children /\ dirty'[g] => dirty[g]
    PROVE  Writer'
<1> SUFFICES ASSUME NEW f \in Frames, f.cache \in Children,
                    tag_addr'[f] # INVALID_TAG, dirty'[f]
             PROVE  f.cache = "L1D" /\ ~ Has("L1I", tag_addr[f])'
  BY DEF Writer
<1>1. tag_addr'[f] = tag_addr[f] /\ dirty[f]
  BY DEF Dropped
<1>2. f.cache = "L1D" /\ ~ Has("L1I", tag_addr[f])
  BY <1>1 DEF Writer
<1>3. \A g \in Frames : tag_addr'[g] = tag_addr[f] => tag_addr[g] = tag_addr[f]
  BY <1>1 DEF Dropped
<1> QED
  BY <1>1, <1>2, <1>3 DEF Has

\* What a step of the access has to leave alone for Flushed to stay.
LEMMA FlushedKept ==
    ASSUME Flushed, pc \notin {"read", "flush"}, line \in Places,
           UNCHANGED <<access, line, status>>,
           \A g \in Frames : g.cache = Peer(Self) =>
             /\ tag_addr'[g] = line <=> tag_addr[g] = line
             /\ dirty'[g] => dirty[g],
           \A g, h \in Frames :
             /\ g.cache = Peer(Self) /\ h.cache = "L2"
             /\ tag_addr'[g] = line /\ tag_addr'[h] = line
             => tags_cheri'[g] = tags_cheri'[h]
    PROVE  Flushed'
<1>1. Self' = Self /\ Shared' = Shared /\ line' = line /\ access' = access
  BY DEF Self, Shared
<1>2. Peer(Self)' = Peer(Self)
  BY <1>1 DEF Peer
<1>3. Has(Peer(Self), line)' <=> Has(Peer(Self), line)
  BY <1>1, <1>2 DEF Has
<1>4. \A g \in Frames :
        g.cache = Peer(Self) /\ tag_addr'[g] = line =>
          /\ ~ dirty'[g]
          /\ \A h \in Frames :
               h.cache = "L2" /\ tag_addr'[h] = line => tags_cheri'[g] = tags_cheri'[h]
  BY DEF Flushed
<1> QED
  BY <1>1, <1>2, <1>3, <1>4 DEF Flushed

\* The same for a step that pushes a frame, with any other line, or that of
\* another cache.
LEMMA FlushedPushed ==
    ASSUME Contents, TagsOK, Known, Flushed, pc \notin {"read", "flush"},
           line \in Places, UNCHANGED <<access, line, status, table>>,
           NEW f \in Frames, f.cache \in Children, tag_addr[f] # INVALID_TAG,
           tags_cheri' = PushTags(f), Dropped,
           \A g \in Frames : g.cache \in Children /\ dirty'[g] => dirty[g],
           \A g \in Frames : g.cache = Peer(Self) /\ tag_addr[g] = line =>
             tag_addr'[g] = line
    PROVE  Flushed'
<1>1. Peer(Self) \in Children
  BY CacheNames
<1>2. line # INVALID_TAG
  BY PlaceFacts
<1>3. ASSUME NEW g \in Frames, g.cache = Peer(Self)
      PROVE  /\ tag_addr'[g] = line <=> tag_addr[g] = line
             /\ dirty'[g] => dirty[g]
  BY <1>1, <1>2, <1>3 DEF Dropped
<1>4. ASSUME NEW g \in Frames, NEW h \in Frames, g.cache = Peer(Self), h.cache = "L2",
             tag_addr'[g] = line, tag_addr'[h] = line
      PROVE  tags_cheri'[g] = tags_cheri'[h]
  <2>1. tag_addr[g] = line /\ tag_addr[h] = line
    BY <1>2, <1>4 DEF Dropped
  <2>2. tags_cheri[g] = tags_cheri[h]
    BY <1>4, <2>1 DEF Flushed
  <2> QED
    BY <1>1, <1>2, <1>4, <2>1, <2>2, PushKnown
<1> QED
  BY <1>3, <1>4, FlushedKept

\* Nothing moves between the caches.
LEMMA QuietKnown ==
    ASSUME Known, Writer, UNCHANGED <<tag_addr, tags_cheri, dirty, table>>
    PROVE  Known' /\ Writer'
<1>1. AllMasked' /\ KnownGrowsUpward'
  BY DEF Known, AllMasked, KnownGrowsUpward
<1>2. SharersAgree'
  <2> SUFFICES ASSUME NEW g \in Frames, NEW h \in Frames, NEW k \in Frames
               PROVE  (/\ g.cache = "L1I" /\ h.cache = "L1D" /\ k.cache = "L2"
                       /\ tag_addr[g] # INVALID_TAG
                       /\ tag_addr[g] = tag_addr[h]
                       /\ tag_addr[g] = tag_addr[k]
                       => tags_cheri[g] = tags_cheri[h] /\ tags_cheri[g] = tags_cheri[k])'
    BY Zenon DEF SharersAgree
  <2> QED
    BY DEF Known, SharersAgree
<1>3. Writer'
  BY DEF Writer, Has
<1> QED
  BY <1>1, <1>2, <1>3 DEF Known

\* A step that goes on with the access and leaves the caches as they are.
LEMMA QuietStep ==
    ASSUME TagInv, pc \notin {"read", "flush"}, line \in Places,
           UNCHANGED <<tag_addr, tags_cheri, dirty, table, access, line, status>>
    PROVE  Known' /\ Writer' /\ Flushed'
<1>1. Known' /\ Writer'
  BY QuietKnown DEF TagInv
<1>2. Flushed'
  BY FlushedKept DEF TagInv, Flushed
<1> QED
  BY <1>1, <1>2

-----------------------------------------------------------------------------
(* One lemma for each step of the program *)

LEMMA InitTags == Init => TagInv
<1> SUFFICES ASSUME Init PROVE TagInv
  OBVIOUS
<1>1. AllMasked
  BY DEF Init, AllMasked, Masked, NoTags
<1>2. KnownGrowsUpward /\ Writer /\ Flushed /\ Counted
  BY DEF Init, KnownGrowsUpward, Writer, Flushed, Counted
<1>3. SharersAgree
  BY DEF Init, SharersAgree
<1> QED
  BY <1>1, <1>2, <1>3 DEF TagInv, Known

LEMMA ReadTags ==
    ASSUME TagInv, NEW e \in Entries, ReadEntry(e)
    PROVE  TagInv'
<1>1. UNCHANGED <<tag_addr, tags_cheri, dirty, table>> /\ pc' = "flush"
  BY DEF ReadEntry, lines_vars
<1>2. Flushed' /\ Counted'
  BY <1>1 DEF Flushed, Counted
<1> QED
  BY <1>1, <1>2, QuietKnown DEF TagInv

LEMMA NotifyTags ==
    ASSUME IInv, TagInv, NotifyPeers
    PROVE  TagInv'
<1>1. /\ line \in Places /\ Self \in Children /\ Peer(Self) \in Children
      /\ Peer(Self) \in Caches /\ Self # Peer(Self)
  BY CacheNames DEF IInv, ControlOK
<1>2. /\ pc' = "request"
      /\ UNCHANGED <<counter, table, request, access, line>>
  BY DEF NotifyPeers
<1>3. Self' = Self /\ Peer(Self)' = Peer(Self)
  BY <1>2 DEF Self, Peer
<1>4. Counted'
  BY <1>2 DEF Counted
<1>5. CASE Cached(Peer(Self), line)
  <2>1. PICK f \in Frames :
           /\ f = Find(Peer(Self), line)
           /\ f.cache = Peer(Self)
           /\ tag_addr[f] = line
           /\ \A g \in Frames : g.cache = Peer(Self) /\ tag_addr[g] = line => g = f
    BY <1>1, <1>5, FindFacts, SetOfFacts DEF IInv, Contents
  <2>2. /\ tags_cheri' = PushTags(f)
        /\ dirty' = [PushDirty(f) EXCEPT ![f] = FALSE]
        /\ tag_addr' = DropOnStore(f)
        /\ status' # "not_found"
    BY <1>5, <2>1 DEF NotifyPeers
  <2>3. f.cache \in Children /\ tag_addr[f] # INVALID_TAG /\ line # INVALID_TAG
    BY <1>1, <2>1, PlaceFacts
  <2>4. Dropped
    BY <2>2 DEF Dropped, DropOnStore, IInv, Contents, TagAddrOK
  <2>5. Known' /\ \A g, h \in Frames :
                     /\ g.cache \in Children /\ h.cache = "L2"
                     /\ tag_addr[g] # INVALID_TAG /\ tag_addr[g] = tag_addr[h]
                     /\ tags_cheri[g] = tags_cheri[h]
                     => tags_cheri'[g] = tags_cheri'[h]
    BY <1>2, <2>2, <2>3, <2>4, PushKnown DEF IInv, TagInv
  <2>6. /\ \A g \in Frames : g.cache \in Children /\ dirty'[g] => dirty[g]
        /\ ~ dirty'[f]
    <3>1. PushDirty(f) \in [Frames -> BOOLEAN]
      BY PushTypes DEF IInv
    <3>2. \A g \in Frames : g.cache \in Children => PushDirty(f)[g] = dirty[g]
      BY <2>3, PushDirtyFacts DEF IInv
    <3> QED
      BY <2>2, <3>1, <3>2
  <2>7. Writer'
    BY <2>4, <2>6, WriterKept DEF TagInv
  <2>8. \A h \in Frames : h.cache = "L2" /\ tag_addr[h] = line =>
          tags_cheri'[f] = tags_cheri'[h]
    <3> SUFFICES ASSUME NEW h \in Frames, h.cache = "L2", tag_addr[h] = line
                 PROVE  tags_cheri'[f] = tags_cheri'[h]
      OBVIOUS
    <3>1. Find("L2", line) = h
      <4>1. Has("L2", line)
        BY DEF Has
      <4> QED
        BY <1>1, <4>1, FindFacts, CacheNames DEF IInv, Contents
    <3>2. f # h
      BY <2>1, <1>1, CacheNames
    <3> QED
      BY <2>1, <2>2, <3>1, <3>2 DEF PushTags, IInv, TagsOK
  <2>9. \A g \in Frames : tag_addr'[g] = line => tag_addr[g] = line
    BY <2>3, <2>4 DEF Dropped
  <2>10. access.type \in Stores => ~ Has(Peer(Self), line)'
    BY <1>2, <1>3, <2>1, <2>2, <2>3, <2>9 DEF DropOnStore, Has, IInv, Contents, TagAddrOK
  <2>11. access.type \notin Stores => Has(Peer(Self), line)'
    BY <1>2, <1>3, <2>1, <2>2 DEF DropOnStore, Has
  <2>12. \A g \in Frames : g.cache = Peer(Self) /\ tag_addr'[g] = line =>
           /\ ~ dirty'[g]
           /\ \A h \in Frames : h.cache = "L2" /\ tag_addr'[h] = line =>
                tags_cheri'[g] = tags_cheri'[h]
    BY <2>1, <2>6, <2>8, <2>9
  <2>13. Flushed'
    BY <1>2, <1>3, <2>2, <2>10, <2>11, <2>12 DEF Flushed, Shared
  <2> QED
    BY <1>4, <2>5, <2>7, <2>13 DEF TagInv
<1>6. CASE ~ Cached(Peer(Self), line)
  <2>1. status' = "not_found" /\ UNCHANGED <<tag_addr, tags_cheri, dirty>>
    BY <1>6 DEF NotifyPeers
  <2>2. ~ Has(Peer(Self), line)
    BY <1>1, <1>6, FindFacts DEF IInv, Contents
  <2>3. ~ Has(Peer(Self), line)'
    BY <1>2, <1>3, <2>1, <2>2 DEF Has
  <2>4. Flushed'
    BY <1>2, <2>1, <2>3 DEF Flushed, Shared, Has
  <2> QED
    BY <1>2, <1>4, <2>1, <2>4, QuietKnown DEF TagInv
<1> QED
  BY <1>5, <1>6

LEMMA RequestHitTags ==
    ASSUME IInv, TagInv, RequestHit
    PROVE  TagInv'
<1>1. /\ UNCHANGED <<tag_addr, tags_cheri, dirty, table, access, line, status>>
      /\ pc = "request" /\ pc' = "use"
  BY DEF RequestHit, control_vars
<1>2. Counted'
  BY <1>1 DEF Counted
<1> QED
  BY <1>1, <1>2, QuietStep DEF TagInv, IInv, ControlOK

LEMMA RequestMissTags ==
    ASSUME IInv, TagInv, RequestMiss
    PROVE  TagInv'
<1>1. PICK victim \in SetOf(Self, line) : victim = Victim(SetOf(Self, line), tag_addr, counter)
  BY SetScannable, CacheNames DEF IInv, ControlOK
<1>2. /\ line \in Places /\ Self \in Children /\ Self # Peer(Self)
      /\ victim \in Frames /\ victim.cache = Self
  BY <1>1, CacheNames, SetOfFacts DEF IInv, ControlOK
<1>3. /\ UNCHANGED <<tag_addr, table, access, line, status>>
      /\ pc = "request" /\ pc' = "forward"
  BY DEF RequestMiss
<1>4. Counted'
  BY <1>3 DEF Counted
<1>5. CASE tag_addr[victim] = INVALID_TAG
  <2>1. UNCHANGED <<tags_cheri, dirty>>
    BY <1>1, <1>5 DEF RequestMiss
  <2> QED
    BY <1>2, <1>3, <1>4, <2>1, QuietStep DEF TagInv
<1>6. CASE tag_addr[victim] # INVALID_TAG
  <2>1. tags_cheri' = PushTags(victim) /\ dirty' = PushDirty(victim)
    BY <1>1, <1>6 DEF RequestMiss
  <2>2. Dropped
    BY <1>3 DEF Dropped
  <2>3. \A g \in Frames : g.cache \in Children /\ dirty'[g] => dirty[g]
    BY <1>2, <1>6, <2>1, PushDirtyFacts DEF IInv
  <2>4. Known'
    BY <1>2, <1>3, <1>6, <2>1, <2>2, PushKnown DEF IInv, TagInv
  <2>5. Writer'
    BY <2>2, <2>3, WriterKept DEF TagInv
  <2>6. Flushed'
    BY <1>2, <1>3, <1>6, <2>1, <2>2, <2>3, FlushedPushed DEF IInv, TagInv
  <2> QED
    BY <1>4, <2>4, <2>5, <2>6 DEF TagInv
<1> QED
  BY <1>5, <1>6

LEMMA ForwardTags ==
    ASSUME IInv, TagInv, ForwardHit \/ ForwardMiss
    PROVE  TagInv'
<1>1. /\ UNCHANGED <<tag_addr, tags_cheri, dirty, table, access, line, status>>
      /\ pc = "forward" /\ pc' \in {"fill", "refill", "L1I"}
  BY DEF ForwardHit, ForwardMiss, control_vars, lines_vars
<1>2. Counted'
  BY <1>1 DEF Counted
<1> QED
  BY <1>1, <1>2, QuietStep DEF TagInv, IInv, ControlOK

LEMMA BackInvalidateTags ==
    ASSUME IInv, TagInv, NEW child \in Children, BackInvalidate(child)
    PROVE  TagInv'
<1> DEFINE ln == tag_addr[l2_victim]
<1>1. /\ pc = child /\ pc \in {"L1I", "L1D"}
      /\ pc' = IF child = "L1I" THEN "L1D" ELSE "evict"
      /\ UNCHANGED <<table, access, line, status>>
      /\ child \in Caches /\ line \in Places
  BY CacheNames DEF BackInvalidate, AfterChild, Children, IInv, ControlOK
<1>2. l2_victim \in SetOf("L2", line) /\ ~ Has("L2", line) /\ ln # INVALID_TAG
  BY <1>1 DEF IInv, Control, Missed2
<1>3. l2_victim \in Frames /\ l2_victim.cache = "L2" /\ ln \in Lines /\ ln # line
  BY <1>1, <1>2, SetOfFacts, CacheNames DEF IInv, Contents, TagAddrOK, Has
<1>4. CASE Cached(child, ln)
  <2>1. PICK f \in Frames : f = Find(child, ln) /\ f.cache = child /\ tag_addr[f] = ln
    BY <1>1, <1>3, <1>4, FindFacts, SetOfFacts, PlaceFacts DEF IInv, Contents
  <2>2. /\ tags_cheri' = PushTags(f)
        /\ dirty' = PushDirty(f)
        /\ tag_addr' = [tag_addr EXCEPT ![f] = INVALID_TAG]
        /\ num_children_dirty' = num_children_dirty + (IF dirty[f] THEN 1 ELSE 0)
    BY <1>4, <2>1 DEF BackInvalidate, DropChild
  <2> HIDE DEF ln
  <2>3. Dropped
    BY <2>2 DEF Dropped, IInv, Contents, TagAddrOK
  <2>4. f.cache \in Children /\ tag_addr[f] # INVALID_TAG
    BY <1>2, <2>1
  <2>5. \A g \in Frames : g.cache \in Children /\ dirty'[g] => dirty[g]
    BY <2>2, <2>4, PushDirtyFacts DEF IInv
  <2>6. Known'
    BY <1>1, <2>2, <2>3, <2>4, PushKnown DEF IInv, TagInv
  <2>7. Writer'
    BY <2>3, <2>5, WriterKept DEF TagInv
  <2>8. \A g \in Frames : g.cache = Peer(Self) /\ tag_addr[g] = line => tag_addr'[g] = line
    BY <1>3, <2>1, <2>2 DEF IInv, Contents, TagAddrOK
  <2>9. Flushed'
    BY <1>1, <2>2, <2>3, <2>4, <2>5, <2>8, FlushedPushed DEF IInv, TagInv
  <2>10. Counted'
    <3>1. child = "L1I" => ~ dirty[f] /\ num_children_dirty = 0
      BY <1>1, <2>1, <2>4 DEF IInv, Control, TagInv, Writer
    <3>2. child = "L1D" => num_children_dirty = 0
      BY <1>1 DEF TagInv, Counted
    <3> QED
      BY <1>1, <2>2, <3>1, <3>2 DEF Counted
  <2> QED
    BY <2>6, <2>7, <2>9, <2>10 DEF TagInv
<1>5. CASE ~ Cached(child, ln)
  <2>1. UNCHANGED <<tags_cheri, dirty, tag_addr, num_children_dirty>>
    BY <1>5 DEF BackInvalidate
  <2>2. Counted'
    BY <1>1, <2>1 DEF Counted, TagInv, IInv, Control
  <2> QED
    BY <1>1, <2>1, <2>2, QuietStep DEF TagInv
<1> QED
  BY <1>4, <1>5

LEMMA EvictTags ==
    ASSUME IInv, TagInv, Evict
    PROVE  TagInv'
<1> DEFINE ln == tag_addr[l2_victim]
<1>1. /\ pc = "evict" /\ pc' = "refill"
      /\ UNCHANGED <<tag_addr, tags_cheri, dirty, access, line, status>>
      /\ table' = [table EXCEPT ![ln] = tags_cheri[l2_victim]]
      /\ line \in Places
  BY DEF Evict, Evicted, lines_vars, control_vars, IInv, ControlOK
<1>2. l2_victim \in SetOf("L2", line) /\ ln # INVALID_TAG
  BY <1>1 DEF IInv, Control, Missed2
<1>3. l2_victim \in Frames /\ l2_victim.cache = "L2" /\ ln \in Lines
  BY <1>1, <1>2, SetOfFacts, CacheNames DEF IInv, Contents, TagAddrOK
<1> HIDE DEF ln
<1>4. \A x \in Lines : table'[x] = IF x = ln THEN tags_cheri[l2_victim] ELSE table[x]
  BY <1>1, <1>3 DEF IInv, TagsOK
<1>5. \A g \in Frames : g.cache = "L2" /\ tag_addr[g] = ln => g = l2_victim
  BY <1>2, <1>3 DEF ln, IInv, Contents, Unique
<1>6. AllMasked'
  BY <1>1, <1>3, <1>4 DEF TagInv, Known, AllMasked
<1>7. KnownGrowsUpward'
  <2>1. ASSUME NEW g \in Frames, g.cache = "L2", tag_addr'[g] # INVALID_TAG
        PROVE  table'[tag_addr'[g]].known \subseteq tags_cheri'[g].known
    <3>1. tag_addr'[g] = tag_addr[g] /\ tags_cheri'[g] = tags_cheri[g] /\ tag_addr[g] \in Lines
      BY <1>1, <2>1 DEF IInv, Contents, TagAddrOK
    <3>2. table[tag_addr[g]].known \subseteq tags_cheri[g].known
      BY <2>1, <3>1 DEF TagInv, Known, KnownGrowsUpward
    <3> QED
      BY <1>4, <1>5, <2>1, <3>1, <3>2
  <2> QED
    BY <1>1, <2>1 DEF TagInv, Known, KnownGrowsUpward
<1>8. SharersAgree'
  <2> SUFFICES ASSUME NEW g \in Frames, NEW h \in Frames, NEW k \in Frames
               PROVE  (/\ g.cache = "L1I" /\ h.cache = "L1D" /\ k.cache = "L2"
                       /\ tag_addr[g] # INVALID_TAG
                       /\ tag_addr[g] = tag_addr[h]
                       /\ tag_addr[g] = tag_addr[k]
                       => tags_cheri[g] = tags_cheri[h] /\ tags_cheri[g] = tags_cheri[k])'
    BY Zenon DEF SharersAgree
  <2> QED
    BY <1>1 DEF TagInv, Known, SharersAgree
<1>9. Writer' /\ Flushed' /\ Counted'
  <2>1. Writer'
    BY <1>1 DEF TagInv, Writer, Has
  <2>2. Flushed'
    BY <1>1, FlushedKept DEF TagInv, Flushed
  <2> QED
    BY <1>1, <2>1, <2>2 DEF Counted
<1> QED
  BY <1>6, <1>7, <1>8, <1>9 DEF TagInv, Known

\* A frame gets a line that its cache did not have; the line's other copies
\* and what is below it agree with what it gets.
LEMMA FillKnown ==
    ASSUME Contents, TagsOK, Known, NEW ln \in Lines, NEW f \in Frames,
           NEW tags, Masked(tags),
           f.cache = "L2" =>
             /\ table[ln].known \subseteq tags.known
             /\ \A c \in Children : ~ Has(c, ln),
           f.cache \in Children =>
             \A h \in Frames : tag_addr[h] = ln /\ h.cache # f.cache => tags_cheri[h] = tags,
           tag_addr' = [tag_addr EXCEPT ![f] = ln],
           tags_cheri' = [tags_cheri EXCEPT ![f] = tags],
           UNCHANGED table
    PROVE  Known'
<1>1. \A g \in Frames : /\ tag_addr'[g] = IF g = f THEN ln ELSE tag_addr[g]
                        /\ tags_cheri'[g] = IF g = f THEN tags ELSE tags_cheri[g]
  BY DEF Contents, TagAddrOK, TagsOK
<1>2. ln # INVALID_TAG /\ f.cache \in Caches
  BY PlaceFacts, FrameFacts
<1>3. f.cache = "L2" \/ f.cache \in Children
  BY <1>2, CacheNames DEF Children
<1>4. "L2" \notin Children
  BY CacheNames
<1>5. AllMasked'
  BY <1>1 DEF Known, AllMasked
<1>6. \A g \in Frames : f.cache = "L2" /\ g.cache \in Children => tag_addr[g] # ln
  BY DEF Has
<1>7. KnownGrowsUpward'
  <2>1. ASSUME NEW g \in Frames, g.cache = "L2", tag_addr'[g] # INVALID_TAG
        PROVE  table[tag_addr'[g]].known \subseteq tags_cheri'[g].known
    <3>1. CASE g = f
      BY <1>1, <2>1, <3>1
    <3>2. CASE g # f
      BY <1>1, <2>1, <3>2 DEF Known, KnownGrowsUpward
    <3> QED
      BY <3>1, <3>2
  <2>2. ASSUME NEW g \in Frames, NEW h \in Frames, g.cache \in Children, h.cache = "L2",
               tag_addr'[g] # INVALID_TAG, tag_addr'[g] = tag_addr'[h]
        PROVE  tags_cheri'[h].known \subseteq tags_cheri'[g].known
    <3>1. CASE h = f
      BY <1>1, <1>4, <1>6, <2>2, <3>1
    <3>2. CASE g = f
      BY <1>1, <1>4, <2>2, <3>2
    <3>3. CASE g # f /\ h # f
      BY <1>1, <2>2, <3>3 DEF Known, KnownGrowsUpward
    <3> QED
      BY <3>1, <3>2, <3>3
  <2> QED
    BY <2>1, <2>2 DEF KnownGrowsUpward
<1>8. ASSUME NEW g \in Frames, NEW h \in Frames, NEW k \in Frames,
             g.cache = "L1I", h.cache = "L1D", k.cache = "L2",
             tag_addr'[g] # INVALID_TAG,
             tag_addr'[g] = tag_addr'[h], tag_addr'[g] = tag_addr'[k]
      PROVE  tags_cheri'[g] = tags_cheri'[h] /\ tags_cheri'[g] = tags_cheri'[k]
  <2>1. g.cache \in Children /\ h.cache \in Children
    BY <1>8 DEF Children
  <2>2. CASE k = f
    BY <1>1, <1>6, <1>8, <2>1, <2>2, <1>4
  <2>3. CASE g = f
    BY <1>1, <1>8, <2>1, <2>3
  <2>4. CASE h = f
    BY <1>1, <1>8, <2>1, <2>4
  <2>5. CASE g # f /\ h # f /\ k # f
    BY <1>1, <1>8, <2>5 DEF Known, SharersAgree
  <2> QED
    BY <2>2, <2>3, <2>4, <2>5
<1>9. SharersAgree'
  <2> SUFFICES ASSUME NEW g \in Frames, NEW h \in Frames, NEW k \in Frames
               PROVE  (/\ g.cache = "L1I" /\ h.cache = "L1D" /\ k.cache = "L2"
                       /\ tag_addr[g] # INVALID_TAG
                       /\ tag_addr[g] = tag_addr[h]
                       /\ tag_addr[g] = tag_addr[k]
                       => tags_cheri[g] = tags_cheri[h] /\ tags_cheri[g] = tags_cheri[k])'
    BY Zenon DEF SharersAgree
  <2> QED
    BY <1>8
<1> QED
  BY <1>5, <1>7, <1>9 DEF Known

LEMMA RefillTags ==
    ASSUME IInv, TagInv, Refill, Faults = {}
    PROVE  TagInv'
<1>1. /\ pc = "refill" /\ pc' = "fill"
      /\ tag_addr' = [tag_addr EXCEPT ![l2_victim] = line]
      /\ tags_cheri' = [tags_cheri EXCEPT ![l2_victim] = table[line]]
      /\ dirty' = [dirty EXCEPT ![l2_victim] = FALSE]
      /\ UNCHANGED <<table, access, line, status>>
  BY DEF Refill
<1>2. line \in Lines /\ line \in Places
  BY DEF Refill, Faults, RefillFaults, Children, IInv, ControlOK
<1>3. l2_victim \in SetOf("L2", line) /\ ~ Has("L2", line)
  BY <1>1 DEF IInv, Control, Missed2
<1>4. l2_victim \in Frames /\ l2_victim.cache = "L2"
  BY <1>2, <1>3, SetOfFacts, CacheNames
<1>5. \A c \in Children : ~ Has(c, line)
  BY <1>2, <1>3, PlaceFacts DEF IInv, Contents, Included, Has
<1>6. Masked(table[line])
  BY <1>2 DEF TagInv, Known, AllMasked
<1>7. Known'
  <2>1. PICK ln \in Lines : ln = line
    BY <1>2
  <2> QED
    BY <1>1, <1>4, <1>5, <1>6, <2>1, CacheNames, FillKnown DEF IInv, TagInv
<1>8. \A g \in Frames : g.cache \in Children =>
        tag_addr'[g] = tag_addr[g] /\ dirty'[g] = dirty[g]
  BY <1>1, <1>4, CacheNames DEF IInv, Contents, TagAddrOK, DirtyOK
<1>9. Writer'
  <2>1. \A x : Has("L1I", x)' => Has("L1I", x)
    BY <1>8 DEF Has, Children
  <2> QED
    BY <1>8, <2>1 DEF TagInv, Writer, Has
<1>10. Flushed'
  <2>1. Peer(Self) \in Children
    BY CacheNames
  <2>2. \A g \in Frames : g.cache = Peer(Self) => tag_addr[g] # line
    BY <1>5, <2>1 DEF Has
  <2> QED
    BY <1>1, <1>2, <1>8, <2>1, <2>2, FlushedKept DEF TagInv
<1>11. Counted'
  BY <1>1 DEF Counted
<1> QED
  BY <1>7, <1>9, <1>10, <1>11 DEF TagInv

LEMMA FillTags ==
    ASSUME IInv, TagInv, Fill
    PROVE  TagInv'
<1>1. /\ pc = "fill" /\ pc' = "use"
      /\ tag_addr' = [tag_addr EXCEPT ![l1_victim] = line]
      /\ tags_cheri' = [tags_cheri EXCEPT ![l1_victim] = tags_cheri[Find("L2", line)]]
      /\ dirty' = [dirty EXCEPT ![l1_victim] = FALSE]
      /\ UNCHANGED <<table, access, line, status>>
  BY DEF Fill, FilledDirty
<1>2. /\ line \in Places /\ Self \in Children /\ Peer(Self) \in Children
      /\ Self # Peer(Self) /\ Self \in Caches /\ "L2" \in Caches /\ "L2" \notin Children
      /\ \A c \in Caches : c = "L2" \/ c = Self \/ c = Peer(Self)
  BY CacheNames DEF IInv, ControlOK, Caches, Peer, Self
<1>3. l1_victim \in SetOf(Self, line) /\ ~ Has(Self, line) /\ Has("L2", line)
  BY <1>1 DEF IInv, Control, Missed1
<1>4. l1_victim \in Frames /\ l1_victim.cache = Self
  BY <1>2, <1>3, SetOfFacts
<1>5. PICK k \in Frames : k = Find("L2", line) /\ k.cache = "L2" /\ tag_addr[k] = line
  BY <1>2, <1>3, FindFacts, SetOfFacts DEF IInv, Contents
<1>6. line \in Lines
  BY <1>2, <1>5, PlaceFacts DEF IInv, Contents, TagAddrOK
<1>7. \A h \in Frames : h.cache = "L2" /\ tag_addr[h] = line => h = k
  BY <1>5, <1>6, PlaceFacts DEF IInv, Contents, Unique
<1>8. \A h \in Frames : tag_addr[h] = line /\ h.cache # Self => tags_cheri[h] = tags_cheri[k]
  BY <1>1, <1>2, <1>5, <1>7, FrameFacts DEF TagInv, Flushed
<1>9. Known'
  <2>1. PICK ln \in Lines : ln = line
    BY <1>6
  <2>2. Masked(tags_cheri[k])
    BY DEF TagInv, Known, AllMasked
  <2>3. PICK tags : tags = tags_cheri[k]
    OBVIOUS
  <2> QED
    BY <1>1, <1>2, <1>4, <1>5, <1>8, <2>1, <2>2, <2>3, FillKnown DEF IInv, TagInv
<1>10. \A g \in Frames : /\ tag_addr'[g] = IF g = l1_victim THEN line ELSE tag_addr[g]
                         /\ dirty'[g] <=> g # l1_victim /\ dirty[g]
                         /\ g # l1_victim => tags_cheri'[g] = tags_cheri[g]
  BY <1>1, <1>4 DEF IInv, Contents, TagAddrOK, DirtyOK, TagsOK
<1>11. Writer'
  <2> SUFFICES ASSUME NEW f \in Frames, f.cache \in Children,
                      tag_addr'[f] # INVALID_TAG, dirty'[f]
               PROVE  f.cache = "L1D" /\ ~ Has("L1I", tag_addr[f])'
    BY DEF Writer
  <2>1. f # l1_victim /\ dirty[f] /\ tag_addr'[f] = tag_addr[f]
    BY <1>10
  <2>2. f.cache = "L1D" /\ ~ Has("L1I", tag_addr[f])
    BY <2>1 DEF TagInv, Writer
  <2>3. l1_victim.cache = "L1I" => tag_addr[f] # line
    <3>1. l1_victim.cache = "L1I" => Peer(Self) = "L1D"
      BY <1>4 DEF Peer
    <3> QED
      BY <1>1, <2>1, <2>2, <3>1 DEF TagInv, Flushed
  <2> QED
    BY <1>10, <2>1, <2>2, <2>3 DEF Has
<1>12. Flushed'
  <2>1. \A g \in Frames : g.cache = Peer(Self) => g # l1_victim
    BY <1>2, <1>4
  <2>2. \A h \in Frames : h.cache = "L2" => h # l1_victim
    BY <1>2, <1>4
  <2> QED
    BY <1>1, <1>2, <1>10, <2>1, <2>2, FlushedKept DEF TagInv, Flushed
<1>13. Counted'
  BY <1>1 DEF Counted
<1> QED
  BY <1>9, <1>11, <1>12, <1>13 DEF TagInv

\* The access changes the tags of its frame: of that frame alone when the
\* other L1 cache does not have the line, else of every copy of it.
LEMMA UseKnown ==
    ASSUME IInv, TagInv, pc = "use", NEW all \in BOOLEAN,
           all \/ ~ Has(Peer(Self), line),
           \A g \in Frames :
             tags_cheri'[g] =
               IF g = Find(Self, line) \/ (all /\ tag_addr[g] = line) THEN NewTags
               ELSE tags_cheri[g],
           UNCHANGED <<tag_addr, table>>
    PROVE  Known'
<1> DEFINE f == Find(Self, line)
<1>1. line \in Places /\ Has(Self, line) /\ Self \in Caches /\ Self # "L2"
  BY CacheNames DEF IInv, ControlOK, Control
<1>2. /\ f \in Frames /\ f.cache = Self /\ tag_addr[f] = line
      /\ \A g \in Frames : g.cache = Self /\ tag_addr[g] = line => g = f
  BY <1>1, FindFacts, SetOfFacts DEF IInv, Contents
<1>3. NewTags.known = tags_cheri[f].known \cup GranulesIn(access, line)
      /\ (Masked(tags_cheri[f]) => Masked(NewTags))
  BY DEF NewTags, TagsSet, Masked
<1> HIDE DEF f
<1>4. /\ \A g \in Frames : g.cache \in Children => g.cache = Self \/ g.cache = Peer(Self)
      /\ Self \in Children /\ Peer(Self) \in Children /\ "L2" \notin Children
  BY DEF Children, Self, Peer
<1>5. \A g \in Frames :
        tags_cheri'[g] = IF g = f \/ (all /\ tag_addr[g] = line) THEN NewTags ELSE tags_cheri[g]
  BY DEF f
<1>6. AllMasked'
  BY <1>2, <1>3, <1>5 DEF TagInv, Known, AllMasked
<1>7. \A g, h \in Frames :
        /\ g.cache \in Children /\ h.cache = "L2"
        /\ tag_addr[g] # INVALID_TAG /\ tag_addr[g] = tag_addr[h]
        => tags_cheri[h].known \subseteq tags_cheri[g].known
  BY DEF TagInv, Known, KnownGrowsUpward
<1>8. KnownGrowsUpward'
  <2>1. ASSUME NEW g \in Frames, g.cache = "L2", tag_addr'[g] # INVALID_TAG
        PROVE  table'[tag_addr'[g]].known \subseteq tags_cheri'[g].known
    <3>1. table[tag_addr[g]].known \subseteq tags_cheri[g].known
      BY <2>1 DEF TagInv, Known, KnownGrowsUpward
    <3>2. tag_addr[g] = line => tags_cheri[g].known \subseteq NewTags.known
      BY <1>2, <1>3, <1>4, <1>7, <2>1
    <3> QED
      BY <1>2, <1>5, <3>1, <3>2
  <2>2. ASSUME NEW g \in Frames, NEW h \in Frames, g.cache \in Children, h.cache = "L2",
               tag_addr'[g] # INVALID_TAG, tag_addr'[g] = tag_addr'[h]
        PROVE  tags_cheri'[h].known \subseteq tags_cheri'[g].known
    <3>1. tags_cheri[h].known \subseteq tags_cheri[g].known
      BY <1>7, <2>2
    <3>2. h # f
      BY <1>1, <1>2, <2>2
    <3>3. CASE all /\ tag_addr[h] = line
      BY <1>5, <2>2, <3>3
    <3>4. CASE ~ (all /\ tag_addr[h] = line)
      <4>1. tags_cheri'[h] = tags_cheri[h]
        BY <1>5, <3>2, <3>4
      <4>2. g = f \/ tags_cheri'[g] = tags_cheri[g]
        BY <1>5, <2>2, <3>4
      <4> QED
        BY <1>3, <1>5, <3>1, <4>1, <4>2
    <3> QED
      BY <3>3, <3>4
  <2> QED
    BY <2>1, <2>2 DEF KnownGrowsUpward
<1>9. ASSUME NEW g \in Frames, NEW h \in Frames, NEW k \in Frames,
             g.cache = "L1I", h.cache = "L1D", k.cache = "L2",
             tag_addr'[g] # INVALID_TAG,
             tag_addr'[g] = tag_addr'[h], tag_addr'[g] = tag_addr'[k]
      PROVE  tags_cheri'[g] = tags_cheri'[h] /\ tags_cheri'[g] = tags_cheri'[k]
  <2>1. tags_cheri[g] = tags_cheri[h] /\ tags_cheri[g] = tags_cheri[k]
    BY <1>9 DEF TagInv, Known, SharersAgree
  <2>2. CASE tag_addr[g] = line
    <3>1. Peer(Self) = "L1I" \/ Peer(Self) = "L1D"
      BY DEF Peer
    <3>2. Has(Peer(Self), line)
      BY <1>9, <2>2, <3>1 DEF Has
    <3> QED
      BY <1>5, <1>9, <2>2, <3>2
  <2>3. CASE tag_addr[g] # line
    BY <1>2, <1>5, <1>9, <2>1, <2>3
  <2> QED
    BY <2>2, <2>3
<1>10. SharersAgree'
  <2> SUFFICES ASSUME NEW g \in Frames, NEW h \in Frames, NEW k \in Frames
               PROVE  (/\ g.cache = "L1I" /\ h.cache = "L1D" /\ k.cache = "L2"
                       /\ tag_addr[g] # INVALID_TAG
                       /\ tag_addr[g] = tag_addr[h]
                       /\ tag_addr[g] = tag_addr[k]
                       => tags_cheri[g] = tags_cheri[h] /\ tags_cheri[g] = tags_cheri[k])'
    BY Zenon DEF SharersAgree
  <2> QED
    BY <1>9
<1> QED
  BY <1>6, <1>8, <1>10 DEF Known

\* After the access the next one starts, where Flushed and Counted say nothing.
LEMMA NextLineTags ==
    ASSUME NextLine
    PROVE  Flushed' /\ Counted'
BY DEF NextLine, Flushed, Counted

LEMMA LoadTags ==
    ASSUME TagInv, Load
    PROVE  TagInv'
<1>1. NextLine /\ UNCHANGED <<tag_addr, tags_cheri, dirty, table>>
  BY DEF Load, lines_vars
<1> QED
  BY <1>1, NextLineTags, QuietKnown DEF TagInv

LEMMA StoreTags ==
    ASSUME IInv, TagInv, Store
    PROVE  TagInv'
<1> DEFINE f == Find(Self, line)
<1>1. /\ pc = "use" /\ access.type \in Stores /\ NextLine
      /\ tags_cheri' = [tags_cheri EXCEPT ![f] = NewTags]
      /\ dirty' = [dirty EXCEPT ![f] = TRUE]
      /\ UNCHANGED <<tag_addr, table>>
  BY DEF Store
<1>2. /\ line \in Places /\ Has(Self, line) /\ Self \in Caches
      /\ Self = "L1D" /\ Peer(Self) = "L1I"
  BY <1>1, CacheNames DEF IInv, ControlOK, Control, Self, Peer, Stores
<1>3. f \in Frames /\ f.cache = Self /\ tag_addr[f] = line
  BY <1>2, FindFacts, SetOfFacts DEF IInv, Contents
<1>4. ~ Has("L1I", line)
  BY <1>1, <1>2 DEF TagInv, Flushed
<1>5. \A g \in Frames : tags_cheri'[g] = IF g = f THEN NewTags ELSE tags_cheri[g]
  BY <1>1 DEF IInv, TagsOK
<1>6. Known'
  <2>1. FALSE \in BOOLEAN
    OBVIOUS
  <2>2. \A g \in Frames :
          tags_cheri'[g] = IF g = Find(Self, line) \/ (FALSE /\ tag_addr[g] = line)
                             THEN NewTags ELSE tags_cheri[g]
    BY <1>5
  <2> QED
    BY <1>1, <1>2, <1>4, <2>1, <2>2, UseKnown
<1> HIDE DEF f
<1>7. Writer'
  BY <1>1, <1>2, <1>3, <1>4 DEF TagInv, Writer, Has, IInv, DirtyOK
<1> QED
  BY <1>1, <1>6, <1>7, NextLineTags DEF TagInv

\* An entry that covers nothing of the line propagates nothing, which is the
\* same as to propagate what all the copies of a shared line have already.
LEMMA LearnShared ==
    ASSUME IInv, TagInv, Learn
    PROVE  tags_cheri' = [h \in Frames |->
                            IF h = Find(Self, line) \/ (Shared /\ h \in Copies)
                              THEN NewTags ELSE tags_cheri[h]]
<1> DEFINE f == Find(Self, line)
<1>1. /\ pc = "use" /\ access.type \in {"INSTR", "CLOAD"}
      /\ tags_cheri' = [h \in Frames |->
                          IF h = f \/ (Propagates /\ h \in Copies)
                            THEN NewTags ELSE tags_cheri[h]]
  BY DEF Learn
<1>2. line \in Places /\ Has(Self, line) /\ Self \in Caches /\ Peer(Self) \in Caches
      /\ "L2" \in Caches /\ Self \in Children
  BY <1>1, CacheNames DEF IInv, ControlOK, Control
<1>3. f \in Frames /\ f.cache = Self /\ tag_addr[f] = line /\ line # INVALID_TAG
  BY <1>2, FindFacts, SetOfFacts, PlaceFacts DEF IInv, Contents
<1>4. tags_cheri[f] \in TagState
  BY <1>3 DEF IInv, TagsOK
<1>5. GranulesIn(access, line) = {} => NewTags = tags_cheri[f]
  BY <1>4 DEF NewTags, TagsSet, TagState
<1> HIDE DEF f
<1>6. ASSUME Shared, NEW h \in Copies
      PROVE  tags_cheri[h] = tags_cheri[f]
  <2>1. PICK p \in Frames : p.cache = Peer(Self) /\ tag_addr[p] = line
    BY <1>1, <1>6 DEF TagInv, Flushed, Stores, Has
  <2>2. PICK k \in Frames : k.cache = "L2" /\ tag_addr[k] = line
    BY <1>2, <1>3 DEF IInv, Contents, Included, Has
  <2>3. h \in Frames /\ tag_addr[h] = line /\ (h.cache = "L2" \/ h.cache = Peer(Self))
    BY <1>2, SetOfFacts DEF Copies, Holders
  <2>4. \/ Self = "L1I" /\ Peer(Self) = "L1D"
        \/ Self = "L1D" /\ Peer(Self) = "L1I"
    BY DEF Self, Peer
  <2>5. \A g \in Frames, i \in Frames :
          /\ g.cache = Peer(Self) /\ i.cache = "L2"
          /\ tag_addr[g] = line /\ tag_addr[i] = line
          => tags_cheri[f] = tags_cheri[g] /\ tags_cheri[f] = tags_cheri[i]
    BY <1>3, <2>4 DEF TagInv, Known, SharersAgree
  <2> QED
    BY <2>1, <2>2, <2>3, <2>5
<1>7. \A h \in Frames : ~ Propagates /\ Shared /\ h \in Copies => tags_cheri[h] = NewTags
  BY <1>5, <1>6 DEF Propagates
<1>8. Propagates => Shared
  BY DEF Propagates
<1> QED
  BY <1>1, <1>7, <1>8 DEF f

LEMMA LearnTags ==
    ASSUME IInv, TagInv, Learn
    PROVE  TagInv'
<1>1. /\ pc = "use" /\ access.type \in {"INSTR", "CLOAD"} /\ NextLine
      /\ tags_cheri' = [h \in Frames |->
                          IF h = Find(Self, line) \/ (Shared /\ h \in Copies)
                            THEN NewTags ELSE tags_cheri[h]]
      /\ UNCHANGED <<tag_addr, dirty, table>>
  BY LearnShared DEF Learn
<1>2. line \in Places /\ Has(Self, line) /\ Self \in Caches /\ Peer(Self) \in Caches
      /\ "L2" \in Caches /\ \A c \in Caches : c = "L2" \/ c = Self \/ c = Peer(Self)
  BY <1>1, CacheNames DEF IInv, ControlOK, Control, Self, Peer, Caches
<1>3. \A g \in Frames : g.cache = Self /\ tag_addr[g] = line => g = Find(Self, line)
  BY <1>2, FindFacts DEF IInv, Contents
<1>4. \A c \in Caches : \A g : g \in Holders(c, line) <=>
        g \in Frames /\ g.cache = c /\ tag_addr[g] = line
  BY <1>2, PlaceFacts DEF Holders, SetOf, IInv, Contents, Placed
<1>5. \A g \in Frames : g = Find(Self, line) \/ g \in Copies
                          <=> g = Find(Self, line) \/ tag_addr[g] = line
  BY <1>2, <1>3, <1>4, FrameFacts DEF Copies
<1>6. Shared \in BOOLEAN /\ (Shared \/ ~ Has(Peer(Self), line))
  BY <1>1 DEF TagInv, Flushed, Stores, Shared
<1>7. \A g \in Frames :
        tags_cheri'[g] = IF g = Find(Self, line) \/ (Shared /\ tag_addr[g] = line)
                           THEN NewTags ELSE tags_cheri[g]
  BY <1>1, <1>5
<1>8. Known'
  <2>1. PICK all \in BOOLEAN : all = Shared
    BY <1>6
  <2>2. all \/ ~ Has(Peer(Self), line)
    BY <1>6, <2>1
  <2>3. \A g \in Frames :
          tags_cheri'[g] = IF g = Find(Self, line) \/ (all /\ tag_addr[g] = line)
                             THEN NewTags ELSE tags_cheri[g]
    BY <1>7, <2>1, Zenon
  <2> QED
    BY <1>1, <2>2, <2>3, UseKnown
<1>9. Writer'
  BY <1>1 DEF TagInv, Writer, Has
<1> QED
  BY <1>1, <1>8, <1>9, NextLineTags DEF TagInv

\* Steps that change nothing of what the invariant speaks of.
LEMMA SameTags ==
    ASSUME TagInv, UNCHANGED <<tag_addr, tags_cheri, dirty, table, pc, access,
                               line, status, num_children_dirty>>
    PROVE  TagInv'
<1>1. Known' /\ Writer'
  BY QuietKnown DEF TagInv
<1>2. Flushed' /\ Counted'
  BY DEF TagInv, Flushed, Counted, Self, Peer, Has, Shared
<1> QED
  BY <1>1, <1>2 DEF TagInv

LEMMA NextTags == IInv /\ TagInv /\ [Next]_vars => TagInv'
<1> SUFFICES ASSUME IInv, TagInv, [Next]_vars PROVE TagInv'
  OBVIOUS
<1>1. CASE Read
  BY <1>1, ReadTags DEF Read
<1>2. CASE Faults = {} /\ Step
  BY <1>2, NotifyTags, RequestHitTags, RequestMissTags, ForwardTags,
     BackInvalidateTags, EvictTags, RefillTags, FillTags, LoadTags, StoreTags,
     LearnTags
  DEF Step
<1>3. CASE Abort \/ UNCHANGED vars
  <2>1. UNCHANGED <<tag_addr, tags_cheri, dirty, table, pc, access, line, status,
                    num_children_dirty>>
    BY <1>3 DEF Abort, vars, lines_vars, control_vars
  <2> QED
    BY <2>1, SameTags
<1> QED
  BY <1>1, <1>2, <1>3 DEF Next, Simulate

-----------------------------------------------------------------------------
(* The assertions *)

Conflicts == {"tag_mismatch", "known_data_changed", "tag_not_clear", "outside_memory"}

LEMMA FindNoFaults ==
    ASSUME Contents, NEW c \in Caches, NEW ln \in Places
    PROVE  FindFaults(c, ln) = {}
<1>1. \A f, g \in Holders(c, ln) : f = g
  BY PlaceFacts, SetOfFacts DEF Holders, Contents, Unique
<1> QED
  BY <1>1 DEF FindFaults

\* Where what is known grows, only its value can be wrong.
LEMMA UpdateFaultsOnly ==
    ASSUME NEW old, NEW new, Masked(old), Masked(new), old.known \subseteq new.known
    PROVE  UpdateFaults(old, new) \subseteq {"known_data_changed"}
BY DEF UpdateFaults

LEMMA PushFaultsOnly ==
    ASSUME Contents, Known, NEW f \in Frames, f.cache \in Children,
           tag_addr[f] # INVALID_TAG
    PROVE  PushFaults(f) \subseteq {"known_data_changed"}
<1>1. PICK ln \in Lines : ln = tag_addr[f]
  BY DEF Contents, TagAddrOK
<1>2. Cached("L2", ln) /\ ln \in Places
  BY <1>1, FindFacts, PlaceFacts, CacheNames DEF Contents, Included
<1>3. PICK to \in Frames : to = Find("L2", ln) /\ to.cache = "L2" /\ tag_addr[to] = ln
  BY <1>2, FindFacts, SetOfFacts, CacheNames DEF Contents
<1>4. /\ tags_cheri[to].known \subseteq tags_cheri[f].known
      /\ Masked(tags_cheri[to]) /\ Masked(tags_cheri[f])
  BY <1>1, <1>3 DEF Known, KnownGrowsUpward, AllMasked
<1>5. UpdateFaults(tags_cheri[to], tags_cheri[f]) \subseteq {"known_data_changed"}
  BY <1>4, UpdateFaultsOnly
<1>6. FindFaults("L2", ln) = {}
  BY <1>2, FindNoFaults, CacheNames
<1> QED
  BY <1>1, <1>2, <1>3, <1>4, <1>5, <1>6 DEF PushFaults

LEMMA ChildFaultsOnly ==
    ASSUME IInv, TagInv, NEW c \in Children, NEW ln \in Places
    PROVE  ChildFaults(c, ln) \subseteq {"known_data_changed"}
<1>1. c \in Caches /\ FindFaults(c, ln) = {}
  BY FindNoFaults, CacheNames DEF IInv
<1>2. ASSUME Cached(c, ln)
      PROVE  PushFaults(Find(c, ln)) \subseteq {"known_data_changed"}
  <2>1. PICK f \in Frames : f = Find(c, ln) /\ f.cache = c /\ tag_addr[f] = ln
    BY <1>1, <1>2, FindFacts, SetOfFacts DEF IInv, Contents
  <2> QED
    BY <2>1, PlaceFacts, PushFaultsOnly DEF IInv, TagInv
<1> QED
  BY <1>1, <1>2 DEF ChildFaults

LEMMA RequestFaultsOnly ==
    ASSUME IInv, TagInv, NEW c \in Caches
    PROVE  RequestFaults(c) \subseteq {"known_data_changed"}
<1>1. line \in Places /\ FindFaults(c, line) = {}
  BY FindNoFaults DEF IInv, ControlOK
<1>2. PICK victim \in SetOf(c, line) : victim = Victim(SetOf(c, line), tag_addr, counter)
  BY <1>1, SetScannable DEF IInv
<1>3. victim \in Frames /\ victim.cache = c
  BY <1>1, <1>2, SetOfFacts
<1>4. ScanFaults(SetOf(c, line), tag_addr, counter) = {}
  <2>1. DistinctOn(SetOf(c, line), counter)
    BY <1>1, SetScannable DEF IInv
  <2>2. \A f \in SetOf(c, line) : f.way \in Nat
    BY <1>1, SetOfFacts, FrameFacts
  <2> QED
    BY <2>1, <2>2, ScanUnambiguous
<1>5. ASSUME c \in Children, tag_addr[victim] # INVALID_TAG
      PROVE  PushFaults(victim) \subseteq {"known_data_changed"}
  BY <1>3, <1>5, PushFaultsOnly DEF IInv, TagInv
<1> QED
  BY <1>1, <1>2, <1>4, <1>5 DEF RequestFaults

LEMMA EvictFaultsOnly ==
    ASSUME IInv, TagInv, pc = "evict"
    PROVE  EvictFaults \subseteq {"known_data_changed"}
<1>1. /\ line \in Places /\ l2_victim \in SetOf("L2", line)
      /\ tag_addr[l2_victim] # INVALID_TAG /\ num_children_dirty <= 1
  BY DEF IInv, ControlOK, Control, Missed2, TagInv, Counted
<1>2. l2_victim \in Frames /\ l2_victim.cache = "L2"
  BY <1>1, SetOfFacts, CacheNames
<1>3. tag_addr[l2_victim] \in Lines
  BY <1>1, <1>2 DEF IInv, Contents, TagAddrOK
<1>4. /\ table[tag_addr[l2_victim]].known \subseteq tags_cheri[l2_victim].known
      /\ Masked(table[tag_addr[l2_victim]]) /\ Masked(tags_cheri[l2_victim])
  BY <1>1, <1>2, <1>3 DEF TagInv, Known, AllMasked, KnownGrowsUpward
<1>5. UpdateFaults(table[tag_addr[l2_victim]], tags_cheri[l2_victim])
        \subseteq {"known_data_changed"}
  BY <1>4, UpdateFaultsOnly
<1> QED
  BY <1>1, <1>4, <1>5 DEF EvictFaults

LEMMA LearnFaultsOnly ==
    ASSUME IInv, TagInv, pc = "use", access.type \in {"INSTR", "CLOAD"}
    PROVE  LearnFaults \subseteq {"tag_mismatch", "known_data_changed"}
<1> DEFINE f == Find(Self, line)
<1>1. /\ line \in Places /\ Has(Self, line) /\ Self \in Caches
      /\ Peer(Self) \in Caches /\ Peer(Self) \in Children /\ Self \in Children
      /\ "L2" \in Caches
  BY CacheNames DEF IInv, ControlOK, Control
<1>2. /\ f \in Frames /\ f.cache = Self /\ tag_addr[f] = line
      /\ f.cache \in Children /\ tag_addr[f] # INVALID_TAG
  BY <1>1, FindFacts, SetOfFacts, PlaceFacts DEF IInv, Contents
<1> HIDE DEF f
<1>3. access.type = "INSTR" => ~ dirty[f]
  <2>1. access.type = "INSTR" => f.cache = "L1I"
    BY <1>2 DEF Self
  <2> QED
    BY <1>2, <2>1 DEF TagInv, Writer
<1>4. ASSUME Shared
      PROVE  /\ Cached("L2", line)
             /\ \A h \in {f} \cup Holders(Peer(Self), line) : ~ dirty[h]
             /\ \A h \in Copies : UpdateFaults(tags_cheri[h], NewTags)
                                    \subseteq {"known_data_changed"}
  <2>1. Has(Peer(Self), line)
    BY <1>4 DEF TagInv, Flushed, Stores
  <2>2. PICK p \in Frames : p.cache = Peer(Self) /\ tag_addr[p] = line
    BY <2>1 DEF Has
  <2>3. Has("L2", line) /\ Cached("L2", line)
    <3>1. Has("L2", line)
      BY <1>2 DEF IInv, Contents, Included
    <3> QED
      BY <1>1, <3>1, FindFacts DEF IInv, Contents
  <2>4. ~ dirty[f]
    <3>1. Self = "L1D" => Peer(Self) = "L1I"
      BY DEF Peer
    <3> QED
      BY <1>2, <2>1, <3>1 DEF TagInv, Writer
  <2>5. \A h \in Holders(Peer(Self), line) :
          h \in Frames /\ h.cache = Peer(Self) /\ tag_addr[h] = line
    BY <1>1, SetOfFacts DEF Holders
  <2>6. \A h \in Holders(Peer(Self), line) : ~ dirty[h]
    BY <2>5 DEF TagInv, Flushed
  <2>7. NewTags.known = tags_cheri[f].known \cup GranulesIn(access, line)
        /\ Masked(NewTags)
    BY <1>2 DEF NewTags, TagsSet, Masked, f, TagInv, Known, AllMasked
  <2>8. ASSUME NEW h \in Copies
        PROVE  h \in Frames /\ tags_cheri[h].known \subseteq tags_cheri[f].known
    <3>1. /\ h \in Frames /\ tag_addr[h] = line
          /\ h.cache = "L2" \/ h.cache = Peer(Self)
      BY <1>1, <2>5, SetOfFacts DEF Copies, Holders
    <3>2. CASE h.cache = "L2"
      BY <1>2, <3>1, <3>2 DEF TagInv, Known, KnownGrowsUpward
    <3>3. CASE h.cache = Peer(Self)
      <4>1. PICK k \in Frames : k.cache = "L2" /\ tag_addr[k] = line
        BY <2>3 DEF Has
      <4>2. tags_cheri[h] = tags_cheri[k]
        BY <3>1, <3>3, <4>1 DEF TagInv, Flushed
      <4> QED
        BY <1>2, <3>1, <4>1, <4>2 DEF TagInv, Known, KnownGrowsUpward
    <3> QED
      BY <3>1, <3>2, <3>3
  <2>9. ASSUME NEW h \in Copies
        PROVE  UpdateFaults(tags_cheri[h], NewTags) \subseteq {"known_data_changed"}
    <3>1. Masked(tags_cheri[h]) /\ tags_cheri[h].known \subseteq NewTags.known
      BY <2>7, <2>8, <2>9 DEF TagInv, Known, AllMasked
    <3> QED
      BY <2>7, <3>1, UpdateFaultsOnly
  <2> QED
    BY <2>3, <2>4, <2>6, <2>9
<1> QED
  BY <1>3, <1>4 DEF LearnFaults, Propagates, f

LEMMA FaultsOnly ==
    ASSUME IInv, TagInv
    PROVE  /\ Faults \subseteq Conflicts
           /\ "outside_memory" \in Faults <=> line = NumLines /\ pc = "refill"
<1>1. line \in Places /\ pc \in Steps
  BY DEF IInv, ControlOK
<1>2. CASE pc = "flush"
  BY <1>1, <1>2, ChildFaultsOnly, CacheNames DEF Faults, Conflicts
<1>3. CASE pc = "request"
  BY <1>3, RequestFaultsOnly, CacheNames DEF Faults, Conflicts
<1>4. CASE pc = "forward"
  BY <1>4, RequestFaultsOnly, CacheNames DEF Faults, Conflicts
<1>5. CASE pc \in Children
  <2>1. l2_victim \in SetOf("L2", line) /\ tag_addr[l2_victim] # INVALID_TAG
    BY <1>5 DEF IInv, Control, Missed2, Children
  <2>2. tag_addr[l2_victim] \in Places
    BY <1>1, <2>1, SetOfFacts, PlaceFacts, CacheNames DEF IInv, Contents, TagAddrOK
  <2>3. pc \notin {"flush", "request", "forward", "evict", "refill", "use"}
    BY <1>5 DEF Children
  <2>4. Faults = ChildFaults(pc, tag_addr[l2_victim])
    BY <1>5, <2>3 DEF Faults
  <2>5. ChildFaults(pc, tag_addr[l2_victim]) \subseteq {"known_data_changed"}
    BY <1>5, <2>2, ChildFaultsOnly
  <2> QED
    BY <2>3, <2>4, <2>5 DEF Conflicts
<1>6. CASE pc = "evict"
  BY <1>6, EvictFaultsOnly DEF Faults, Conflicts, Children
<1>7. CASE pc = "refill"
  <2>1. line \notin Lines <=> line = NumLines
    BY <1>1, ConstantFacts DEF Places, Lines
  <2>2. line \in Lines => Masked(table[line])
    BY DEF TagInv, Known, AllMasked
  <2> QED
    BY <1>7, <2>1, <2>2 DEF Faults, RefillFaults, Conflicts, Children
<1>8. CASE pc = "use"
  BY <1>8, LearnFaultsOnly DEF Faults, UseFaults, Conflicts, Children
<1>9. CASE pc \in {"read", "fill"}
  BY <1>9 DEF Faults, Conflicts, Children
<1>10. \/ pc \in {"flush", "request", "forward", "evict"} \/ pc \in Children
       \/ pc \in {"refill", "use"} \/ pc \in {"read", "fill"}
  BY <1>1 DEF Steps, Children
<1> QED
  BY <1>2, <1>3, <1>4, <1>5, <1>6, <1>7, <1>8, <1>9, <1>10

LEMMA NextFailed ==
    IInv /\ TagInv /\ OnlyTraceConflictsAbort /\ [Next]_vars => OnlyTraceConflictsAbort'
<1> SUFFICES ASSUME IInv, TagInv, OnlyTraceConflictsAbort, [Next]_vars
             PROVE  OnlyTraceConflictsAbort'
  OBVIOUS
<1>1. CASE failed = {} /\ failed' = failed
  BY <1>1 DEF OnlyTraceConflictsAbort
<1>2. CASE Abort
  BY <1>2, FaultsOnly DEF Abort, control_vars, OnlyTraceConflictsAbort, Conflicts
<1>3. CASE UNCHANGED vars
  BY <1>3 DEF vars, control_vars, OnlyTraceConflictsAbort
<1> QED
  BY <1>1, <1>2, <1>3 DEF Next, Read, Simulate

-----------------------------------------------------------------------------
\* The invariant on tags and dirty flags holds in every execution.
THEOREM TagInvariance == Spec => []TagInv
<1>1. Init => TagInv
  BY InitTags
<1>2. IInv /\ TagInv /\ [Next]_vars => TagInv'
  BY NextTags
<1> QED
  BY <1>1, <1>2, Invariance, PTL DEF Spec

\* A line that the data cache has modified is in no other cache of its level,
\* and the instruction cache has modified none: what the flush of the other
\* cache before each access is for (device_coherence_flush).
THEOREM OneWriter == Spec => []SingleWriter
<1>1. IInv /\ TagInv => SingleWriter
  <2> SUFFICES ASSUME IInv, TagInv, NEW f \in Frames, f.cache \in Children,
                      tag_addr[f] # INVALID_TAG, dirty[f]
               PROVE  f.cache = "L1D" /\ ~ Cached("L1I", tag_addr[f])
    BY DEF SingleWriter
  <2>1. PICK ln \in Lines : ln = tag_addr[f]
    BY DEF IInv, Contents, TagAddrOK
  <2>2. f.cache = "L1D" /\ ~ Has("L1I", ln)
    BY <2>1 DEF TagInv, Writer
  <2>3. "L1I" \in Caches
    BY DEF Caches
  <2>4. ~ Cached("L1I", ln)
    BY <2>2, <2>3, FindFacts, PlaceFacts DEF IInv, Contents
  <2> QED
    BY <2>1, <2>2, <2>4
<1> QED
  BY <1>1, Invariance, TagInvariance, PTL

\* No write-back loses a tag that was known below (the assertions of
\* check_update_unknown_tags and of cache_write_back).
THEOREM KnowledgeGrows == Spec => []KnownGrowsUpward
<1>1. TagInv => KnownGrowsUpward
  BY DEF TagInv, Known
<1> QED
  BY <1>1, TagInvariance, PTL

\* Copies of a line in both L1 caches and in L2 have the same tags: what
\* coherence_propagate_known_tags is for.
THEOREM SharersKnowTheSame == Spec => []SharersAgree
<1>1. TagInv => SharersAgree
  BY DEF TagInv, Known
<1> QED
  BY <1>1, TagInvariance, PTL

\* Of the assertions of the devices only those that compare what the trace
\* says of a tag with what it said before can fail, or that are about the
\* entry alone: the simulator never contradicts itself.
THEOREM OnlyConflictsAbort == Spec => []OnlyTraceConflictsAbort
<1>1. Init => OnlyTraceConflictsAbort
  BY DEF Init, OnlyTraceConflictsAbort
<1>2. IInv /\ TagInv /\ OnlyTraceConflictsAbort /\ [Next]_vars
        => OnlyTraceConflictsAbort'
  BY NextFailed
<1> QED
  BY <1>1, <1>2, Invariance, TagInvariance, PTL DEF Spec

=============================================================================
