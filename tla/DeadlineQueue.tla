--------------------------- MODULE DeadlineQueue ---------------------------
(***************************************************************************)
(* What the timer threads are promised by timing_wheel.h: a set of tasks   *)
(* with expirations, whose advance fires every task that is due and no     *)
(* other, and answers how long the caller may sleep.  Time has the grain   *)
(* of a tick: a task is due from the beginning of the tick it expires in.  *)
(***************************************************************************)
EXTENDS Integers, FiniteSets

CONSTANTS Tasks,    \* calls of tmwheel_add
          TickDur,  \* the length of a tick
          Times     \* bound: the points of time of clock and expirations

VARIABLES now, expiration, pending, fired, advancing, delay

None == -1   \* expiration of a task not added yet
vars == <<now, expiration, pending, fired, advancing, delay>>

Due(t) == expiration[t] - (expiration[t] % TickDur) <= now

Init ==
    /\ now = 0 /\ expiration = [t \in Tasks |-> None]
    /\ pending = {} /\ fired = {} /\ advancing = FALSE /\ delay = 0

(* A task that is due may fire when it is added.                           *)
Add(t, e) ==
    /\ ~advancing /\ expiration[t] = None
    /\ expiration' = [expiration EXCEPT ![t] = e]
    /\ \/ pending' = pending \union {t} /\ UNCHANGED fired
       \/ Due(t)' /\ fired' = fired \union {t} /\ UNCHANGED pending
    /\ UNCHANGED <<now, advancing, delay>>

Elapse ==
    /\ ~advancing /\ now' \in {n \in Times : n > now}
    /\ UNCHANGED <<expiration, pending, fired, advancing, delay>>

Begin ==
    /\ ~advancing /\ advancing' = TRUE /\ delay' = 0
    /\ UNCHANGED <<now, expiration, pending, fired>>

Fire(S) ==
    /\ advancing /\ \A t \in S : Due(t)
    /\ pending' = pending \ S /\ fired' = fired \union S
    /\ UNCHANGED <<now, expiration, advancing, delay>>

(* The answer is 0 when nothing is left, and else no later than the next   *)
(* task is due.                                                            *)
Return ==
    /\ advancing /\ advancing' = FALSE
    /\ \A t \in pending : ~Due(t)
    /\ IF pending = {} THEN delay' = 0
       ELSE /\ delay' \in Nat \ {0}
            /\ \A t \in pending : now + delay' <= expiration[t]
    /\ UNCHANGED <<now, expiration, pending, fired>>

Next ==
    \/ \E t \in Tasks : \E e \in Times : Add(t, e)
    \/ Elapse \/ Begin \/ Return
    \/ \E S \in SUBSET pending : Fire(S)

Spec == Init /\ [][Next]_vars
=============================================================================
