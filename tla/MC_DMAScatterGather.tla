------------------------- MODULE MC_DMAScatterGather -------------------------
(* Model values for DMAScatterGather: the buffer names are symmetric. *)
EXTENDS DMAScatterGather, TLC

CONSTANTS b1, b2

NameSymmetry == Permutations(Names)

=============================================================================
