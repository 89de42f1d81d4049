------------------------------- MODULE MCNet -------------------------------
(* Two connections through one slot; the second one is there to be hit by  *)
(* what is left of the first.                                              *)
EXTENDS Net
MCMaxRecv == <<2, 0>>
MCMaxSend == <<2, 0>>
=============================================================================
