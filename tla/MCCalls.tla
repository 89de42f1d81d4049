------------------------------ MODULE MCCalls ------------------------------
(* Small instances of Calls: two slots, the boot service's and one that    *)
(* services share in turn.                                                 *)
EXTENDS Calls
=============================================================================
