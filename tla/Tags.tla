-------------------------------- MODULE Tags --------------------------------
(***************************************************************************)
(* The tag state of one cache line (tags_t in inc/simulator.h): which of   *)
(* its capability-sized granules have a tag the simulator knows, and which *)
(* of them are tagged.  A bit vector is the set of its 1 bits.             *)
(***************************************************************************)
EXTENDS Integers

CONSTANT GranulesPerLine    \* CACHE_LINE_SIZE / CAP_SIZE_BYTES

\* A tags_t holds its bits in a byte (simulator.c:591), and a line has at
\* least one granule.
ASSUME GranulesAssumption == GranulesPerLine \in 1..8

Granules == 0 .. GranulesPerLine - 1

TagState == [data : SUBSET Granules, known : SUBSET Granules]

NoTags == [data |-> {}, known |-> {}]

\* BUG: what was known of the other granules is overwritten.
TagsOverwritten(t, granules, tag) ==
    [data  |-> IF tag = 1 THEN t.data \cup granules ELSE t.data \ granules,
     known |-> granules]

\* tag_set, for every granule an access covers.
TagsSet(t, granules, tag) ==
    [data  |-> IF tag = 1 THEN t.data \cup granules ELSE t.data \ granules,
     known |-> t.known \cup granules]

\* Granules whose tag is not known have a clear bit.
Masked(t) == t.data \subseteq t.known

\* The assertions of check_update_unknown_tags: the ones the step from old
\* to new fails.
UpdateFaults(old, new) ==
       (IF Masked(old) /\ Masked(new) THEN {} ELSE {"data_outside_known"})
  \cup (IF old.known \subseteq new.known THEN {} ELSE {"known_bits_lost"})
  \cup (IF old.data \cap old.known = new.data \cap old.known
          THEN {} ELSE {"known_data_changed"})

=============================================================================
