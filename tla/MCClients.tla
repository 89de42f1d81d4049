----------------------------- MODULE MCClients -----------------------------
(***************************************************************************)
(* Two connects with different timeouts, and three calls of a database     *)
(* client.  A behaviour is of one or the other, by the initial value of    *)
(* part, and leaves the other where it began.                              *)
(***************************************************************************)
EXTENDS Connect, DbClient

CONSTANTS short, long
MCTimeout == [c \in {short, long} |-> IF c = short THEN 1 ELSE 2]

VARIABLE part
allVars == <<part, vars, dbVars>>

MCInit == /\ Init /\ DbInit /\ part \in {"connect", "db"}
          /\ part = "connect" => ~queued

InConnect(A) == part = "connect" /\ fault = "none" /\ A /\ UNCHANGED <<part, dbVars>>
InDb(A)      == part = "db" /\ ~crossed /\ A /\ UNCHANGED <<part, vars>>

MCFairSpec ==
    /\ MCInit /\ [][InConnect(Next) \/ InDb(DbNext)]_allVars
    (* FairSpec of Connect *)
    /\ WF_allVars(InConnect(NetStep)) /\ WF_allVars(InConnect(Tick))
    /\ \A c \in Conns : WF_allVars(InConnect(CtrlGets(c) \/ CtrlTimesOut(c)))
    (* DbFairSpec *)
    /\ WF_allVars(InDb(ServiceStep)) /\ WF_allVars(InDb(Arrive))
    /\ SF_allVars(InDb(\E c \in Co : Sync(c)))
=============================================================================
