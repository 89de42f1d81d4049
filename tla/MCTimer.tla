------------------------------ MODULE MCTimer ------------------------------
(* Two timers, one of them repeating, added by two threads through a pool  *)
(* of one slot, so that tasks go both ways and the slot is used again.     *)
EXTENDS Timer
CONSTANTS once, twice
MCDelay == [t \in Timers |-> 1]
MCRepeat == [t \in Timers |-> IF t = twice THEN 1 ELSE 0]
=============================================================================
