--------------------------- MODULE MCCDCDelivery ----------------------------
(* TLC instance of CDCDelivery. *)
EXTENDS CDCDelivery, TLC

Symmetry == Permutations(Rows)
=============================================================================
