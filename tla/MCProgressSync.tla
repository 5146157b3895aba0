--------------------------- MODULE MCProgressSync ---------------------------
(* A small account for TLC. *)
EXTENDS ProgressSync, TLC

CONSTANTS b1, b2, brick1, s1, s2, i1, c1, g1

OneChapter == i1 :> c1
Slots == Permutations(Slot)
=============================================================================
