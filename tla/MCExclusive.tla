---------------------------- MODULE MCExclusive ----------------------------
(* One slot that two services use one after the other, and two senders.    *)
EXTENDS Exclusive
=============================================================================
