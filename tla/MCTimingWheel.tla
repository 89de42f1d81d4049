--------------------------- MODULE MCTimingWheel ---------------------------
(* Wheels of two slots, so that four tasks spread over four levels, a     *)
(* slot is used again on a later turn and the heap of slots is three deep. *)
(* The tasks are alike and every property checked is a safety property.    *)
EXTENDS TimingWheel, TLC
TaskSymmetry == Permutations(Tasks)
=============================================================================
