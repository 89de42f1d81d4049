---------------------------- MODULE MCShutdown -----------------------------
(* One worker, one exclusive service and one external thread; the worker   *)
(* and the exclusive service log through a queue of one.                   *)
EXTENDS Shutdown
=============================================================================
