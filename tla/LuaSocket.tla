----------------------------- MODULE LuaSocket -----------------------------
(***************************************************************************)
(* Reads of one connection as a Lua service sees them                      *)
(* (lualib/pipes/socket.lua).  A coroutine that finds no data waits, and   *)
(* those that read meanwhile queue up behind it; the handler of the notice *)
(* of the network resumes the one that waits and then serves the queue.    *)
(* What netapi_tcp_read does below is module Net: here it has data, has    *)
(* none and waits, or the connection has gone.  Which coroutine reads what *)
(* is up to the module that extends this one.                              *)
(***************************************************************************)
EXTENDS Integers, Sequences

CONSTANT MaxCo   \* bound: coroutines that use the connection

ASSUME MaxCoAssumption == MaxCo \in Nat

Co == 1 .. MaxCo
None  == 0     \* no coroutine, nothing read
Gone  == -1
Error == -2

VARIABLES
  chain,      \* coroutines that resumed one another, the running one last
  handler,    \* the net message handler: "out", "first", "loop" or "gone"
  rdwt,       \* id._rdwt
  qrd,        \* id._qrd
  tbRdWait,   \* the coroutine in _tbRdWait, whose read is under way in C
  got,        \* what the last read of a coroutine returned
  inbuf,      \* what has come in and is not read
  closed,     \* the connection has ended
  closeCalled,    \* by close() of this service (closeCalled4Svc)
  forgotten   \* coroutines taken from where they waited and not resumed

readVars == <<rdwt, qrd, tbRdWait, got, inbuf, forgotten>>
sockVars == <<chain, handler, readVars, closed, closeCalled>>

Top == IF chain = << >> THEN None ELSE chain[Len(chain)]
Yields == SubSeq(chain, 1, Len(chain) - 1)   \* the chain without its last
Idle == chain = << >> /\ handler = "out"     \* between two messages

SockInit ==
    /\ chain = << >> /\ handler = "out" /\ rdwt = FALSE /\ qrd = << >>
    /\ tbRdWait = None /\ got = [c \in Co |-> None] /\ inbuf = << >> /\ closed = FALSE
    /\ closeCalled = FALSE /\ forgotten = {}

(* What is in the buffer is read before the end is seen.                   *)
Gets(c) ==
    \/ inbuf # << >> /\ got' = [got EXCEPT ![c] = Head(inbuf)] /\ inbuf' = Tail(inbuf)
    \/ inbuf = << >> /\ closed /\ got' = [got EXCEPT ![c] = Gone] /\ UNCHANGED inbuf

NothingToGet == inbuf = << >> /\ ~closed

(* A read beside one that waits in C is refused (-3, "last read not        *)
(* complete"), unless the service has closed: then it finds the end (-1).  *)
Beside == tbRdWait # None /\ ~closeCalled

(* _read: behind a reader that is known to wait, or in C.                  *)
ReadQueues(c) ==
    /\ rdwt /\ qrd' = Append(qrd, c) /\ chain' = Yields
    /\ UNCHANGED <<rdwt, tbRdWait, got, inbuf, forgotten>>
ReadRefused(c) ==
    /\ ~rdwt /\ Beside /\ got' = [got EXCEPT ![c] = Error]
    /\ UNCHANGED <<chain, rdwt, qrd, tbRdWait, inbuf, forgotten>>
ReadNow(c) ==
    /\ ~rdwt /\ ~Beside /\ Gets(c)
    /\ UNCHANGED <<chain, rdwt, qrd, tbRdWait, forgotten>>
ReadWaits(c) ==
    /\ ~rdwt /\ ~Beside /\ NothingToGet
    /\ rdwt' = TRUE /\ tbRdWait' = c /\ chain' = Yields
    /\ UNCHANGED <<qrd, got, inbuf, forgotten>>

Read(c) ==
    /\ ReadQueues(c) \/ ReadRefused(c) \/ ReadNow(c) \/ ReadWaits(c)
    /\ UNCHANGED <<handler, closed, closeCalled>>

(* The notice: the one that waited is resumed with data, or with the end   *)
(* of the connection, after which the handler returns.                     *)
Notice ==
    /\ Idle /\ tbRdWait # None /\ ~NothingToGet
    /\ Gets(tbRdWait) /\ tbRdWait' = None /\ chain' = <<tbRdWait>>
    /\ handler' = IF inbuf = << >> THEN "gone" ELSE "first"
    /\ rdwt' = (inbuf # << >> /\ qrd # << >>)
    /\ UNCHANGED <<qrd, closed, closeCalled, forgotten>>

(* The end was told: whoever is queued stays there.                        *)
NoticeGoneEnds ==
    /\ chain = << >> /\ handler = "gone" /\ handler' = "out"
    /\ forgotten' = forgotten \union {qrd[i] : i \in 1..Len(qrd)}
    /\ UNCHANGED <<chain, rdwt, qrd, tbRdWait, got, inbuf, closed, closeCalled>>

Serving == chain = << >> /\ handler \in {"first", "loop"}

(* The queue is empty: nobody waits, the handler says, whoever does.       *)
QueueServed ==
    /\ Serving /\ qrd = << >>
    /\ handler' = "out" /\ rdwt' = FALSE
    /\ UNCHANGED <<chain, qrd, tbRdWait, got, inbuf, closed, closeCalled, forgotten>>

(* Nothing is done for a reader whose read is refused (-3): it has left    *)
(* the queue and is not resumed.                                           *)
ServeRefused ==
    /\ Serving /\ qrd # << >> /\ Beside
    /\ forgotten' = forgotten \union {Head(qrd)} /\ qrd' = Tail(qrd) /\ handler' = "loop"
    /\ UNCHANGED <<chain, rdwt, tbRdWait, got, inbuf, closed, closeCalled>>

ServeData ==
    /\ Serving /\ qrd # << >> /\ ~Beside
    /\ Gets(Head(qrd)) /\ chain' = <<Head(qrd)>> /\ qrd' = Tail(qrd) /\ handler' = "loop"
    /\ UNCHANGED <<rdwt, tbRdWait, closed, closeCalled, forgotten>>

ServeWaitsForgets ==
    /\ Serving /\ qrd # << >> /\ ~Beside /\ NothingToGet
    /\ qrd' = Tail(qrd) /\ handler' = "out"
    /\ UNCHANGED <<chain, rdwt, tbRdWait, got, inbuf, closed, closeCalled, forgotten>>

ServeWaits ==
    /\ Serving /\ qrd # << >> /\ ~Beside /\ NothingToGet
    /\ tbRdWait' = Head(qrd) /\ qrd' = Tail(qrd) /\ handler' = "out"
    /\ UNCHANGED <<chain, rdwt, got, inbuf, closed, closeCalled, forgotten>>

Handle == Notice \/ NoticeGoneEnds \/ QueueServed \/ ServeRefused \/ ServeData \/ ServeWaits
=============================================================================
