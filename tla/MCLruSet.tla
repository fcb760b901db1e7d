------------------------------ MODULE MCLruSet ------------------------------
(***************************************************************************)
(* A set of four ways, the L1 caches of trace_simulate, and two lines more *)
(* than it has ways.                                                       *)
(***************************************************************************)
EXTENDS LruSet

SixLines == 1 .. 6

=============================================================================
