-------------------------------- MODULE Ring --------------------------------
(***************************************************************************)
(* What the rings of mq_mpsc.h and mq_mpmc.h have in common: who pushes    *)
(* what into how many slots, and the index arithmetic.  A push derives its *)
(* slot from a ticket by a mask, a pop walks the slots with a counter of   *)
(* its own; MpscQueueProofs shows that the two agree.                      *)
(***************************************************************************)
EXTENDS Integers, FiniteSets

CONSTANTS Capacity,    \* struct mq_mpsc::capacity, struct mq_mpmc::capacity
          Producers,   \* threads that push
          Msgs,        \* what they may push
          NoMsg,       \* what a slot holds before it is first written
          MaxTickets   \* bound on the tickets drawn in one behaviour

ASSUME CapacityAssumption == Capacity \in Nat \ {0}
ASSUME ProducersAssumption == IsFiniteSet(Producers)
ASSUME NoMsgAssumption == NoMsg \notin Msgs
ASSUME MaxTicketsAssumption == MaxTickets \in Nat

Slots == 0 .. (Capacity - 1)

(* headIdx: `ticket & (capacity - 1)`, the remainder by the capacity, for  *)
(* mpsc_create and mpmc_create accept only powers of two.                  *)
SlotOf(t) == t % Capacity

(* tail, back to 0 at the capacity. *)
After(i) == IF i + 1 >= Capacity THEN 0 ELSE i + 1
=============================================================================
