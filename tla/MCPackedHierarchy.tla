-------------------------- MODULE MCPackedHierarchy --------------------------
(***************************************************************************)
(* One line in every cache; the two lines of memory share a byte of the    *)
(* tag table.                                                              *)
(***************************************************************************)
EXTENDS PackedHierarchy

OneLine == [L1I |-> 1, L1D |-> 1, L2 |-> 1]

ReadTypes == {"INSTR", "LOAD", "CLOAD"}

=============================================================================
