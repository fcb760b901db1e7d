-------------------------- MODULE MCTracedExecution -------------------------
(***************************************************************************)
(* Sizes of the caches for the model checker.                              *)
(***************************************************************************)
EXTENDS TracedExecution

Sizes(l1i, l1d, l2) == [L1I |-> l1i, L1D |-> l1d, L2 |-> l2]

\* One line in every cache.
OneSet == Sizes(1, 1, 1)
OneWay == Sizes(1, 1, 1)

\* L2 keeps an even and an odd line.
TwoSetsL2 == Sizes(1, 1, 2)

\* With one granule in a line a plain store is a capability store of tag 0; a
\* load that shows no tags is for the run with all types.
Showing == {"INSTR", "CLOAD", "CSTORE"}

AllTypes == Types

=============================================================================
