------------------------- MODULE MCScheduler -------------------------
(* Two workers, the senders and services each configuration names. *)
EXTENDS Scheduler, TLC

CONSTANTS p1, p2, s1, s2

Interchangeable == Permutations({p1, p2})

=============================================================================
