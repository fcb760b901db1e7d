--------------------------- MODULE CacheHierarchy ---------------------------
(***************************************************************************)
(* The cache simulation of trace_simulate (handlers.c) and the devices it  *)
(* drives (simulator.c): an instruction cache L1I and a data cache L1D     *)
(* over an inclusive cache L2, over the interface to the tag controller.   *)
(* The caches hold no data, only tag bits and which of them are known.     *)
(*                                                                         *)
(* The program has one thread.  An access runs through the steps below,    *)
(* cut where one device has called another and works on state the caller   *)
(* still points to:                                                        *)
(*                                                                         *)
(*   read -> flush -> request ------------------------------> use -> next  *)
(*                       |                               ^                 *)
(*                       +-> forward ------------> fill -+                 *)
(*                              |                   ^                      *)
(*                              +-> (L1I -> L1D -> evict ->) refill        *)
(*                                                                         *)
(* A step whose assertions fail is not taken: the program aborts instead.  *)
(***************************************************************************)
EXTENDS Tags, Lru, FiniteSets

CONSTANTS NumLines,     \* lines of physical memory
          NumSets,      \* sets of each cache: size / num_ways
          NumWays,      \* ways of each cache
          EntryTypes,   \* kinds of access the trace has
          MaxSpan       \* granules one trace entry covers at most

Caches == {"L1I", "L1D", "L2"}

Types == {"INSTR", "LOAD", "STORE", "CLOAD", "CSTORE"}
Stores == {"STORE", "CSTORE"}

ASSUME HierarchyAssumption ==
    /\ NumLines \in Nat \ {0}
    /\ NumSets \in [Caches -> Nat \ {0}]
    /\ NumWays \in [Caches -> 1 .. MaxWays]
    /\ EntryTypes \subseteq Types
    /\ MaxSpan \in Nat \ {0}

Lines == 0 .. NumLines - 1

\* Where an access can come to: it is stopped at the end of memory.
Places == 0 .. NumLines

Frames == UNION {[cache : {c}, set : 0 .. NumSets[c] - 1,
                  way : 0 .. NumWays[c] - 1] : c \in Caches}

\* No frame is held by this pointer of the program.
NoFrame == [cache |-> "none", set |-> 0, way |-> 0]

Children == {"L1I", "L1D"}

Peer(c) == IF c = "L1I" THEN "L1D" ELSE "L1I"

\* A trace entry covers the granules first .. last, which is none when its size
\* is 0 and it is at the start of a granule.  Only the first is known to be in
\* memory.
Addresses == 0 .. NumLines * GranulesPerLine - 1
Entry == [type : Types, first : Addresses, tag : {0, 1},
          last : 0 .. NumLines * GranulesPerLine + MaxSpan - 2]

FirstLine(e) == e.first \div GranulesPerLine
LastLine(e)  == e.last \div GranulesPerLine

\* Entries the traces hold (the field tag of a LOAD is meaningless, and not
\* used).  An entry of size 0 at the start of a line has no line: the loop does
\* nothing for it.
Entries == {e \in Entry : /\ e.type \in EntryTypes
                          /\ e.first <= e.last + 1
                          /\ FirstLine(e) <= LastLine(e)
                          /\ e.last < e.first + MaxSpan
                          /\ e.type = "LOAD" => e.tag = 0}

\* The value of current_entry between two entries, when it is out of scope.
NoEntry == [type |-> "LOAD", first |-> 0, tag |-> 0, last |-> 0]

\* BUG: a line that is not the first starts where the entry starts in its line.
StartUnclipped(e, ln) == e.first % GranulesPerLine

\* start_addr_cap and end_addr_cap, clipped to the line.
StartGranule(e, ln) ==
    IF e.first < ln * GranulesPerLine THEN 0 ELSE e.first - ln * GranulesPerLine

EndGranule(e, ln) ==
    IF e.last >= (ln + 1) * GranulesPerLine THEN GranulesPerLine
    ELSE e.last + 1 - ln * GranulesPerLine

\* The granules of a line that the loops over an entry go through.
GranulesIn(e, ln) == StartGranule(e, ln) .. EndGranule(e, ln) - 1

VARIABLES
  tag_addr,     \* frame -> the line it holds, or INVALID_TAG
  counter,      \* frame -> its age in its set
  tags_cheri,   \* frame -> tag state
  dirty,        \* frame -> modified since it was filled or written back
  table,        \* tag_table of the controller interface: line -> tag state
  request,      \* the record the step has just written to the output, if any
  pc,           \* the step the program is at
  access,       \* current_entry
  line,         \* the line of the entry being accessed (paddr)
  status,       \* coherence_search.status
  l1_victim,    \* line_to_replace of the cache_request to an L1 cache
  l2_victim,    \* line_to_replace of the cache_request to L2
  num_children_dirty,
  failed        \* the assertions that failed, if the program aborted

lines_vars   == <<tag_addr, counter, tags_cheri, dirty>>
control_vars == <<access, line, status, l1_victim, l2_victim,
                  num_children_dirty>>
vars == <<lines_vars, table, request, pc, control_vars, failed>>

Assertions == {"data_outside_known", "known_bits_lost", "known_data_changed",
               "equal_counters", "duplicate_line", "not_in_parent",
               "two_children_dirty", "tag_mismatch", "dirty_instruction",
               "shared_line_dirty", "tag_not_clear", "outside_memory"}
Steps == {"read", "flush", "request", "forward", "L1I", "L1D", "evict",
          "refill", "fill", "use"}
Statuses == {"none", "not_found", "clean", "modified"}
Request == [type : {"none", "READ", "WRITE"}, line : Lines, tags : TagState]
NoRequest == [type |-> "none", line |-> 0, tags |-> NoTags]

-----------------------------------------------------------------------------
\* Looking a line up

SetOf(c, ln) == {f \in Frames : f.cache = c /\ f.set = ln % NumSets[c]}

\* cache_find_existing finds at most one frame, and asserts it.
Holders(c, ln) == {f \in SetOf(c, ln) : tag_addr[f] = ln}
Find(c, ln)    == CHOOSE f \in Holders(c, ln) : TRUE

\* BUG: a line in the last of several ways is not seen.
CachedButLast(c, ln) ==
    \E f \in Holders(c, ln) : f.way = 0 \/ f.way + 1 < NumWays[c]

Cached(c, ln) == Holders(c, ln) # {}

FindFaults(c, ln) ==
    IF \E f, g \in Holders(c, ln) : f # g THEN {"duplicate_line"} ELSE {}

Self == IF access.type = "INSTR" THEN "L1I" ELSE "L1D"

-----------------------------------------------------------------------------
(***************************************************************************)
(* Write-backs.  A frame of an L1 cache is pushed into L2, visibly         *)
(* (cache_write_back) when it is dirty, invisibly (only what is known of   *)
(* the tags moves: cache_write_back_invisible) when it is clean.  L2 is    *)
(* inclusive: the line is there.                                           *)
(***************************************************************************)
PushFaults(f) ==
    LET ln == tag_addr[f]
        to == Find("L2", ln)
    IN FindFaults("L2", ln) \cup
       IF ~ Cached("L2", ln) THEN {"not_in_parent"}
       ELSE IF ~ dirty[f] THEN UpdateFaults(tags_cheri[to], tags_cheri[f])
       ELSE IF tags_cheri[to].known \subseteq tags_cheri[f].known THEN {}
       ELSE {"known_bits_lost"}

\* BUG: only dirty lines are pushed; what is known of a clean one is lost.
PushTagsDirtyOnly(f) ==
    IF dirty[f]
      THEN [tags_cheri EXCEPT ![Find("L2", tag_addr[f])] = tags_cheri[f]]
      ELSE tags_cheri

PushTags(f) == [tags_cheri EXCEPT ![Find("L2", tag_addr[f])] = tags_cheri[f]]

\* BUG: the parent does not become dirty.
PushDirtyLost(f) == dirty

PushDirty(f) ==
    IF dirty[f] THEN [dirty EXCEPT ![Find("L2", tag_addr[f])] = TRUE] ELSE dirty

-----------------------------------------------------------------------------
Init ==
    /\ tag_addr = [f \in Frames |-> INVALID_TAG]
    /\ counter = [f \in Frames |-> f.way]
    /\ tags_cheri = [f \in Frames |-> NoTags]
    /\ dirty = [f \in Frames |-> FALSE]
    /\ table = [ln \in Lines |-> NoTags]
    /\ request = NoRequest
    /\ pc = "read"
    /\ access = NoEntry
    /\ line = 0
    /\ status = "none"
    /\ l1_victim = NoFrame
    /\ l2_victim = NoFrame
    /\ num_children_dirty = 0
    /\ failed = {}

\* The loop of trace_simulate takes an entry with a valid address; the others
\* change nothing here.
ReadEntry(e) ==
    /\ pc = "read"
    /\ access' = e
    /\ line' = FirstLine(e)
    /\ status' = "none"
    /\ pc' = "flush"
    /\ UNCHANGED <<lines_vars, table, request, l1_victim, l2_victim,
                   num_children_dirty>>

(***************************************************************************)
(* notify_peers_coherence_flush: the other L1 cache writes its copy of the *)
(* line back, and drops it before a store.  L2 has no peer.                *)
(***************************************************************************)
\* BUG: stores do not invalidate the copy of the peer.
KeepOnStore(f) == tag_addr

DropOnStore(f) ==
    IF access.type \in Stores THEN [tag_addr EXCEPT ![f] = INVALID_TAG]
    ELSE tag_addr

NotifyPeers ==
    LET peer == Peer(Self)
        f == Find(peer, line)
    IN
    /\ pc = "flush"
    /\ IF Cached(peer, line)
         THEN /\ tags_cheri' = PushTags(f)
              /\ dirty' = [PushDirty(f) EXCEPT ![f] = FALSE]
              /\ tag_addr' = DropOnStore(f)
              /\ status' = IF dirty[f] THEN "modified" ELSE "clean"
         ELSE /\ status' = "not_found"
              /\ UNCHANGED <<tag_addr, tags_cheri, dirty>>
    /\ pc' = "request"
    /\ UNCHANGED <<counter, table, request, access, line, l1_victim,
                   l2_victim, num_children_dirty>>

-----------------------------------------------------------------------------
\* cache_request to the L1 cache of the access

Used(c, f) == Touch(counter, SetOf(c, line), f, NumWays[c])

RequestHit ==
    /\ pc = "request"
    /\ Cached(Self, line)
    /\ counter' = Used(Self, Find(Self, line))
    /\ pc' = "use"
    /\ UNCHANGED <<tag_addr, tags_cheri, dirty, table, request, control_vars>>

\* The line of the victim is pushed into L2 and stays in the frame, as it
\* is, until the frame is filled.
RequestMiss ==
    LET victim == Victim(SetOf(Self, line), tag_addr, counter) IN
    /\ pc = "request"
    /\ ~ Cached(Self, line)
    /\ l1_victim' = victim
    /\ IF tag_addr[victim] = INVALID_TAG THEN UNCHANGED <<tags_cheri, dirty>>
       ELSE /\ tags_cheri' = PushTags(victim)
            /\ dirty' = PushDirty(victim)
    /\ pc' = "forward"
    /\ UNCHANGED <<tag_addr, counter, table, request, access, line, status,
                   l2_victim, num_children_dirty>>

-----------------------------------------------------------------------------
\* cache_request to L2, through device_read

ForwardHit ==
    /\ pc = "forward"
    /\ Cached("L2", line)
    /\ counter' = Used("L2", Find("L2", line))
    /\ pc' = "fill"
    /\ UNCHANGED <<tag_addr, tags_cheri, dirty, table, request, control_vars>>

ForwardMiss ==
    LET victim == Victim(SetOf("L2", line), tag_addr, counter) IN
    /\ pc = "forward"
    /\ ~ Cached("L2", line)
    /\ l2_victim' = victim
    /\ num_children_dirty' = 0
    /\ pc' = IF tag_addr[victim] = INVALID_TAG THEN "refill" ELSE "L1I"
    /\ UNCHANGED <<lines_vars, table, request, access, line, status, l1_victim>>

\* Back invalidation of the line L2 is about to replace.  The dirty flag of
\* the dropped frame keeps its value until the frame is filled.
\* BUG: the child keeps its copy.
KeepChild(f) == tag_addr

DropChild(f) == [tag_addr EXCEPT ![f] = INVALID_TAG]

\* BUG: the loop over the children ends after the first.
OnlyFirstChild(child) == "evict"

AfterChild(child) == IF child = "L1I" THEN "L1D" ELSE "evict"

BackInvalidate(child) ==
    LET ln == tag_addr[l2_victim]
        f == Find(child, ln)
    IN
    /\ pc = child
    /\ IF Cached(child, ln)
         THEN /\ tags_cheri' = PushTags(f)
              /\ dirty' = PushDirty(f)
              /\ tag_addr' = DropChild(f)
              /\ num_children_dirty' =
                   num_children_dirty + (IF dirty[f] THEN 1 ELSE 0)
         ELSE UNCHANGED <<tags_cheri, dirty, tag_addr, num_children_dirty>>
    /\ pc' = AfterChild(child)
    /\ UNCHANGED <<counter, table, request, access, line, status, l1_victim,
                   l2_victim>>

\* device_write and device_write_invisible on the controller interface.
EvictFaults ==
    LET old == table[tag_addr[l2_victim]]
        new == tags_cheri[l2_victim]
    IN (IF num_children_dirty <= 1 THEN {} ELSE {"two_children_dirty"}) \cup
       IF ~ dirty[l2_victim] THEN UpdateFaults(old, new)
       ELSE IF Masked(new) THEN {} ELSE {"data_outside_known"}

\* BUG: only a dirty line updates the view of the controller.
EvictedDirtyOnly ==
    IF dirty[l2_victim]
      THEN [table EXCEPT ![tag_addr[l2_victim]] = tags_cheri[l2_victim]]
      ELSE table

Evicted == [table EXCEPT ![tag_addr[l2_victim]] = tags_cheri[l2_victim]]

\* controller_interface_write_entry
Emit(type, ln, tags) == [type |-> type, line |-> ln, tags |-> tags]

Evict ==
    /\ pc = "evict"
    /\ table' = Evicted
    /\ request' = IF dirty[l2_victim]
                    THEN Emit("WRITE", tag_addr[l2_victim], tags_cheri[l2_victim])
                    ELSE NoRequest
    /\ pc' = "refill"
    /\ UNCHANGED <<lines_vars, control_vars>>

\* device_read on the controller interface, and the rest of the request to L2.
Refill ==
    /\ pc = "refill"
    /\ request' = Emit("READ", line, table[line])
    /\ tag_addr' = [tag_addr EXCEPT ![l2_victim] = line]
    /\ tags_cheri' = [tags_cheri EXCEPT ![l2_victim] = table[line]]
    /\ dirty' = [dirty EXCEPT ![l2_victim] = FALSE]
    /\ counter' = Used("L2", l2_victim)
    /\ l2_victim' = NoFrame
    /\ num_children_dirty' = 0
    /\ pc' = "fill"
    /\ UNCHANGED <<table, access, line, status, l1_victim>>

\* The rest of the request to the L1 cache: it gets what L2 has.
\* BUG: the dirty flag of the line that was replaced stays.
FilledStaleDirty == dirty

FilledDirty == [dirty EXCEPT ![l1_victim] = FALSE]

Fill ==
    /\ pc = "fill"
    /\ tag_addr' = [tag_addr EXCEPT ![l1_victim] = line]
    /\ tags_cheri' = [tags_cheri EXCEPT ![l1_victim] = tags_cheri[Find("L2", line)]]
    /\ dirty' = FilledDirty
    /\ counter' = Used(Self, l1_victim)
    /\ l1_victim' = NoFrame
    /\ request' = NoRequest
    /\ pc' = "use"
    /\ UNCHANGED <<table, access, line, status, l2_victim, num_children_dirty>>

-----------------------------------------------------------------------------
\* What the access does to the line

\* BUG: the loop over the lines of an entry does not move on.
NextLineSame ==
    /\ status' = "none"
    /\ IF line < LastLine(access)
         THEN pc' = "flush" /\ UNCHANGED <<access, line>>
         ELSE line' = 0 /\ pc' = "read" /\ access' = NoEntry

\* The line is done; an entry may go on in the next one.
NextLine ==
    /\ status' = "none"
    /\ IF line < LastLine(access)
         THEN line' = line + 1 /\ pc' = "flush" /\ UNCHANGED access
         ELSE line' = 0 /\ pc' = "read" /\ access' = NoEntry

\* The tags of the line after the access.
NewTags == TagsSet(tags_cheri[Find(Self, line)], GranulesIn(access, line), access.tag)

Load ==
    /\ pc = "use"
    /\ access.type = "LOAD"
    /\ NextLine
    /\ UNCHANGED <<lines_vars, table, request, l1_victim, l2_victim,
                   num_children_dirty>>

Store ==
    /\ pc = "use"
    /\ access.type \in Stores
    /\ tags_cheri' = [tags_cheri EXCEPT ![Find(Self, line)] = NewTags]
    /\ dirty' = [dirty EXCEPT ![Find(Self, line)] = TRUE]
    /\ NextLine
    /\ UNCHANGED <<tag_addr, counter, table, request, l1_victim, l2_victim,
                   num_children_dirty>>

(***************************************************************************)
(* An instruction fetch shows that the granules it covers are untagged, a  *)
(* capability load what their tag is.  When the peer has the line too,     *)
(* coherence_propagate_known_tags passes it to L2 and to the peer: all of  *)
(* the copies that exist.  The loop over the granules is one step.         *)
(***************************************************************************)
Shared == status # "not_found"

\* An entry that covers nothing shows nothing.
Propagates == Shared /\ GranulesIn(access, line) # {}

\* BUG: what was learned goes to L2 and not to the peer.
ParentOnly == Holders("L2", line)

Copies == Holders("L2", line) \cup Holders(Peer(Self), line)

LearnFaults ==
    LET f == Find(Self, line)
        old == tags_cheri[f]
        Mismatch == \E g \in GranulesIn(access, line) \cap old.known :
                      (g \in old.data) # (access.tag = 1)
    IN (IF access.type = "CLOAD" /\ Mismatch THEN {"tag_mismatch"} ELSE {}) \cup
       (IF access.type = "INSTR" /\ dirty[f] THEN {"dirty_instruction"} ELSE {}) \cup
       IF ~ Propagates THEN {}
       ELSE (IF Cached("L2", line) THEN {} ELSE {"not_in_parent"}) \cup
            (IF \E h \in {f} \cup Holders(Peer(Self), line) : dirty[h]
               THEN {"shared_line_dirty"} ELSE {}) \cup
            UNION {UpdateFaults(tags_cheri[h], NewTags) : h \in Copies}

Learn ==
    LET f == Find(Self, line) IN
    /\ pc = "use"
    /\ access.type \in {"INSTR", "CLOAD"}
    /\ tags_cheri' = [h \in Frames |->
                        IF h = f \/ (Propagates /\ h \in Copies)
                          THEN NewTags ELSE tags_cheri[h]]
    /\ NextLine
    /\ UNCHANGED <<tag_addr, counter, dirty, table, request, l1_victim,
                   l2_victim, num_children_dirty>>

-----------------------------------------------------------------------------
\* The assertions that fail in the step the program is at.

\* tag_table_get_index
RefillFaults ==
    IF line \notin Lines THEN {"outside_memory"}
    ELSE IF Masked(table[line]) THEN {} ELSE {"data_outside_known"}

\* Only a capability access may carry a tag.
UseFaults ==
    IF access.type \in {"INSTR", "STORE"} /\ access.tag = 1 THEN {"tag_not_clear"}
    ELSE IF access.type \in {"INSTR", "CLOAD"} THEN LearnFaults ELSE {}

RequestFaults(c) ==
    LET victim == Victim(SetOf(c, line), tag_addr, counter)
        Pushed == c \in Children /\ tag_addr[victim] # INVALID_TAG
    IN FindFaults(c, line) \cup
       IF Cached(c, line) THEN {}
       ELSE ScanFaults(SetOf(c, line), tag_addr, counter) \cup
            IF Pushed THEN PushFaults(victim) ELSE {}

ChildFaults(child, ln) ==
    FindFaults(child, ln) \cup
    IF Cached(child, ln) THEN PushFaults(Find(child, ln)) ELSE {}

\* coherence_flush finds a dirty copy in one cache at most.
Faults ==
    CASE pc = "flush"             -> ChildFaults(Peer(Self), line)
      [] pc = "request"           -> RequestFaults(Self)
      [] pc = "forward"           -> RequestFaults("L2")
      [] pc \in Children          -> ChildFaults(pc, tag_addr[l2_victim])
      [] pc = "evict"             -> EvictFaults
      [] pc = "refill"            -> RefillFaults
      [] pc = "use"               -> UseFaults
      [] OTHER                    -> {}

Abort ==
    /\ Faults # {}
    /\ failed' = Faults
    /\ UNCHANGED <<lines_vars, table, request, pc, control_vars>>

Step ==
    \/ NotifyPeers
    \/ RequestHit
    \/ RequestMiss
    \/ ForwardHit
    \/ ForwardMiss
    \/ \E child \in Children : BackInvalidate(child)
    \/ Evict
    \/ Refill
    \/ Fill
    \/ Load
    \/ Store
    \/ Learn

\* The steps of the program after it has read an entry.
Simulate ==
    /\ failed = {}
    /\ \/ Faults = {} /\ Step /\ UNCHANGED failed
       \/ Abort

Read == failed = {} /\ UNCHANGED failed /\ \E e \in Entries : ReadEntry(e)

Next == Read \/ Simulate

\* The program does not stop by itself in the middle of an entry; nothing
\* says that the trace has another entry.
Spec == Init /\ [][Next]_vars /\ WF_vars(Simulate)

-----------------------------------------------------------------------------
\* Properties

TagAddrOK == tag_addr \in [Frames -> Lines \cup {INVALID_TAG}]

CountersOK ==
    /\ counter \in [Frames -> 0 .. MaxWays - 1]
    /\ \A f \in Frames : counter[f] < NumWays[f.cache]

DirtyOK == dirty \in [Frames -> BOOLEAN]

TagsOK ==
    /\ tags_cheri \in [Frames -> TagState]
    /\ table \in [Lines -> TagState]
    /\ request \in Request

ControlOK ==
    /\ pc \in Steps
    /\ access \in Entries \cup {NoEntry}
    /\ line \in Places
    /\ status \in Statuses
    /\ l1_victim \in Frames \cup {NoFrame}
    /\ l2_victim \in Frames \cup {NoFrame}
    /\ num_children_dirty \in 0 .. 2
    /\ failed \subseteq Assertions

\* Type correctness of the devices and of the loop of trace_simulate.
TypeOK == TagAddrOK /\ CountersOK /\ DirtyOK /\ TagsOK /\ ControlOK

\* A line is in at most one frame of a cache, in the set of its address
\* (cache_find_existing asserts that it finds one at most; a frame is chosen
\* before the next level runs, and filled after).
NoDuplicateLine ==
    \A f \in Frames :
        tag_addr[f] # INVALID_TAG =>
          /\ f.set = tag_addr[f] % NumSets[f.cache]
          /\ \A g \in Frames :
               g.cache = f.cache /\ tag_addr[g] = tag_addr[f] => g = f

\* L2 has every line an L1 cache has: what the write-backs rely on.
Inclusive ==
    \A f \in Frames :
        f.cache \in Children /\ tag_addr[f] # INVALID_TAG =>
          Cached("L2", tag_addr[f])

\* A line that an L1 cache has modified is in no other L1 cache, and the
\* instruction cache modifies none.
SingleWriter ==
    \A f \in Frames :
        f.cache \in Children /\ tag_addr[f] # INVALID_TAG /\ dirty[f] =>
          f.cache = "L1D" /\ ~ Cached("L1I", tag_addr[f])

\* The counters of a set are an order of its ways: the scan for a victim has
\* one answer, whatever mixture of hits, fills and invalidations came before.
CountersDistinct ==
    \A f, g \in Frames :
        /\ f.cache = g.cache
        /\ f.set = g.set
        /\ counter[f] = counter[g]
        => f = g

\* What is known of a line grows towards the cores: a copy knows what the
\* copies below it know, also when it is modified.
KnownGrowsUpward ==
    /\ \A f \in Frames :
         f.cache = "L2" /\ tag_addr[f] # INVALID_TAG =>
           table[tag_addr[f]].known \subseteq tags_cheri[f].known
    /\ \A f, g \in Frames :
         /\ f.cache \in Children
         /\ g.cache = "L2"
         /\ tag_addr[f] # INVALID_TAG
         /\ tag_addr[f] = tag_addr[g]
         => tags_cheri[g].known \subseteq tags_cheri[f].known

\* When both L1 caches have a line they and L2 have the same tags for it:
\* what one of them learns, the other knows too.
SharersAgree ==
    \A f, g, h \in Frames :
        /\ f.cache = "L1I" /\ g.cache = "L1D" /\ h.cache = "L2"
        /\ tag_addr[f] # INVALID_TAG
        /\ tag_addr[f] = tag_addr[g]
        /\ tag_addr[f] = tag_addr[h]
        => tags_cheri[f] = tags_cheri[g] /\ tags_cheri[f] = tags_cheri[h]

\* The only assertions a trace can make fail are those that compare what it
\* says of a tag with what it said before, or are about the entry alone: an
\* access that runs over the end of memory, which is stopped before any cache
\* has the line, or a tag on a plain access.  The others hold for every trace.
OnlyTraceConflictsAbort ==
    /\ failed \subseteq {"tag_mismatch", "known_data_changed", "tag_not_clear",
                        "outside_memory"}
    /\ "outside_memory" \in failed <=> line = NumLines /\ pc = "refill" /\ failed # {}

\* What cache_request says of itself (simulator.c:602-618): an L1 cache makes
\* space before it asks L2, so that L2 never evicts the very line that the L1
\* cache is about to evict, which would be written back a second time.
EvictedOnce ==
    pc \in Children => l1_victim \notin Holders(pc, tag_addr[l2_victim])

=============================================================================
