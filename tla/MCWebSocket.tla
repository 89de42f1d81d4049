---------------------------- MODULE MCWebSocket ----------------------------
(* Clients that send two messages with a ping between them, a frame that   *)
(* is not masked, a ping with a payload, lengths of 16 bits, and a message *)
(* that ends in an empty continuation.                                     *)
EXTENDS WebSocket
F(o, l, b, m) == [op |-> o, flag |-> l, body |-> b, masked |-> m]
MCStreams ==
    { <<F("data", "short", 2, TRUE), F("inner", "short", 0, TRUE), F("data", "long", 1, TRUE)>>,
      <<F("data", "short", 1, TRUE), F("data", "short", 1, FALSE), F("data", "short", 1, TRUE)>>,
      <<F("inner", "short", 1, TRUE), F("data", "short", 1, TRUE)>>,
      <<F("data", "mid", 2, TRUE), F("data", "short", 1, TRUE)>>,
      <<F("data", "short", 1, TRUE), F("cont", "short", 0, TRUE), F("data", "short", 1, TRUE)>> }
MCHeadLen == [short |-> 2, mid |-> 3, long |-> 3]
=============================================================================
