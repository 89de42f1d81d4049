----------------------------- MODULE MCService -----------------------------
(***************************************************************************)
(* What a service is run with: the task queue it waits in, its mailbox     *)
(* (MCRings), and the coroutines that handle its messages, two that run at *)
(* most twice and share two timer ids.  A behaviour is of the rings or of  *)
(* the coroutines, by the initial value of part, and leaves the others     *)
(* where they began.                                                       *)
(***************************************************************************)
EXTENDS MCRings, Coroutine

CONSTANTS c1, c2

VARIABLE part
serviceVars == <<part, ring, vars, mailVars, allVars>>

ServiceInit == /\ MCInit /\ CoInit /\ part \in {"rings", "coroutines"}
               /\ part = "coroutines" => ring = "mpsc"

InRings(A) == part = "rings" /\ A /\ UNCHANGED <<part, allVars>>
InCo(A)    == part = "coroutines" /\ A /\ UNCHANGED <<part, ring, vars, mailVars>>

ServiceFairSpec ==
    /\ ServiceInit /\ [][InRings(MCNext) \/ InCo(CoNext)]_serviceVars
    (* CoFairSpec *)
    /\ WF_serviceVars(InCo(End)) /\ WF_serviceVars(InCo(ProcError))
    /\ SF_serviceVars(InCo(Selfmsg)) /\ \A i \in Id : SF_serviceVars(InCo(Fire(i)))
=============================================================================
