-------------------------- MODULE MCCacheHierarchy --------------------------
(***************************************************************************)
(* Sizes of the caches for the model checker.                              *)
(***************************************************************************)
EXTENDS CacheHierarchy

Sizes(l1i, l1d, l2) == [L1I |-> l1i, L1D |-> l1d, L2 |-> l2]

\* One line in every cache.
OneSet == Sizes(1, 1, 1)
OneWay == Sizes(1, 1, 1)

\* L1D keeps any two lines, L2 an even and an odd one: lines conflict in L2
\* and not in L1D, and back invalidation leaves frames of L1D free.
TwoSetsL2 == Sizes(1, 1, 2)
TwoWaysL1D == Sizes(1, 2, 1)

\* With one granule in a line a plain store is a capability store of tag 0.
\* What a load learns is for other runs; a fetch learns too.
FetchLoadStore == {"INSTR", "LOAD", "CSTORE"}

LoadStore == {"LOAD", "STORE"}

=============================================================================
