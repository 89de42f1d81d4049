------------------------------ MODULE DbClient ------------------------------
(***************************************************************************)
(* The database clients (lualib/pipes/db/redis.lua, mysql.lua) of one      *)
(* connection: a call sends a command and reads its reply piece by piece;  *)
(* a pipeline collects commands in a buffer of the worker and sends them   *)
(* together.  A service may give its calls to a queue                      *)
(* (lualib/pipes/queue.lua), which runs one at a time: the coroutine that  *)
(* ends one call runs the next, and goes here by the name of that call.    *)
(* Calls, and so coroutines, are numbered in the order they are made.      *)
(*                                                                         *)
(* The server answers in order, or ends the connection.  Login,            *)
(* subscriptions and what a reply says are left out.                       *)
(***************************************************************************)
EXTENDS LuaSocket

CONSTANT Kinds   \* of calls, out of "line", "bulk", "packet" and "pipe"

VARIABLES
  queued,     \* whether the service gives its calls to a queue
  idle, fns,  \* of the queue: nobody runs; who is to run
  call,       \* where each call is
  kind,
  left,       \* pieces of its reply still to be read
  connAlive,      \* _alive
  ppcnt,      \* _ppcnt, NoPipe for nil
  batch,      \* whose commands a pipeline has in bufRdsSend of the worker
  coming,     \* what the server will still send
  overlapped, \* the callers have mixed their calls
  shared,     \* another service has used the buffer of an open pipeline
  abandoned,  \* a reply was left before its end
  crossed     \* a call has read what was not its own

queueVars == <<queued, idle, fns>>
historyVars == <<overlapped, shared, abandoned, crossed>>
dbVars == <<sockVars, queueVars, call, kind, left, connAlive, ppcnt, batch, coming, historyVars>>

NoPipe == -1
Other == -3   \* another service of the same worker
Under == {c \in Co : call[c] \in {"begin", "asleep", "reply"}}

DbInit ==
    /\ SockInit /\ queued \in BOOLEAN /\ idle = TRUE /\ fns = << >>
    /\ call = [c \in Co |-> "new"] /\ kind = [c \in Co |-> "line"]
    /\ left = [c \in Co |-> 0] /\ connAlive = TRUE /\ ppcnt = NoPipe /\ batch = << >>
    /\ coming = << >> /\ overlapped = FALSE /\ shared = FALSE /\ abandoned = FALSE /\ crossed = FALSE

Goto(c, place) == call' = [call EXCEPT ![c] = place]
Runs(c, place) == Top = c /\ call[c] = place

(* A line is read by readline; a bulk string, and a packet, by its head    *)
(* and by readlen of the rest.                                             *)
Pieces(k) == IF k = "line" THEN 1 ELSE 2

(* A message, or a coroutine outside a call, starts another one.  add of   *)
(* queue.lua runs it when nobody runs.                                     *)
MayRunAlways == TRUE
MayRun == ~queued \/ idle
Begin(c, k) ==
    /\ call[c] = "new" /\ \A d \in 1 .. c - 1 : call[d] # "new"
    /\ kind' = [kind EXCEPT ![c] = k]
    /\ \/ Idle
       \/ Top # None /\ call[Top] \in {"begin", "after"}
    /\ \/ /\ MayRun /\ chain' = Append(chain, c) /\ Goto(c, "begin") /\ idle' = ~queued
          /\ overlapped' = (overlapped \/ (~queued /\ Under # {})) /\ UNCHANGED fns
       \/ /\ ~MayRun /\ fns' = Append(fns, c) /\ Goto(c, "queued")
          /\ UNCHANGED <<chain, idle, overlapped>>
    /\ UNCHANGED <<handler, readVars, closed, closeCalled, queued, left, connAlive, ppcnt, batch,
                   coming, shared, abandoned, crossed>>

StayOfCall == <<handler, rdwt, qrd, tbRdWait, forgotten, closeCalled, queued>>

(* What is over needs no record.                                           *)
Forget(c) == kind' = [kind EXCEPT ![c] = "line"] /\ left' = [left EXCEPT ![c] = 0]

(* _call while a pipeline is open: the command is added to it.             *)
AddToPipeline(c) ==
    /\ Runs(c, "begin") /\ ppcnt # NoPipe /\ kind[c] # "pipe"
    /\ ppcnt' = ppcnt + 1 /\ batch' = Append(batch, c) /\ Goto(c, "after")
    /\ UNCHANGED <<StayOfCall, kind, chain, got, inbuf, closed, idle, fns, left, connAlive, coming,
                   historyVars>>

(* The connection has gone, and this is known or found out by sending; or  *)
(* "duplicate call of pipeline".                                           *)
Refuse(c) ==
    /\ Runs(c, "begin") /\ (~connAlive \/ closed \/ (ppcnt # NoPipe /\ kind[c] = "pipe"))
    /\ ppcnt = NoPipe \/ kind[c] = "pipe"
    /\ connAlive' = (connAlive /\ ppcnt # NoPipe) /\ Goto(c, "after")
    /\ UNCHANGED <<StayOfCall, kind, chain, got, inbuf, closed, idle, fns, left, ppcnt, batch,
                   coming, historyVars>>

(* What is sent is answered, unless the other end has gone already.        *)
Sends(replies) == coming' = IF closed THEN coming ELSE coming \o replies

(* The command is put together in the worker's buffer too, with no         *)
(* pipeline of this connection open.                                       *)
SendCmd(c) ==
    /\ Runs(c, "begin") /\ ppcnt = NoPipe /\ connAlive /\ kind[c] # "pipe"
    /\ Sends(IF kind[c] = "line" THEN <<c>> ELSE <<c, c>>)
    /\ left' = [left EXCEPT ![c] = Pieces(kind[c])] /\ Goto(c, "reply")
    /\ UNCHANGED <<StayOfCall, kind, chain, got, inbuf, closed, idle, fns, connAlive, ppcnt, batch,
                   historyVars>>

(* pipeline() and its first command; the caller waits for something else   *)
(* before it goes on.                                                      *)
Pipeline(c) ==
    /\ Runs(c, "begin") /\ ppcnt = NoPipe /\ connAlive /\ kind[c] = "pipe"
    /\ ppcnt' = 1 /\ batch' = <<c>> /\ Goto(c, "asleep") /\ chain' = Yields
    /\ UNCHANGED <<StayOfCall, kind, got, inbuf, closed, idle, fns, left, connAlive, coming,
                   historyVars>>

(* Another service of the worker sends a command of its own meanwhile.     *)
OtherSends ==
    /\ Idle /\ ppcnt # NoPipe /\ batch' = <<Other>> /\ shared' = TRUE
    /\ UNCHANGED <<sockVars, queueVars, call, kind, left, connAlive, ppcnt, coming, overlapped,
                   abandoned, crossed>>

(* The second command, and sync(): as many replies are read as commands    *)
(* were added.                                                             *)
Sync(c) ==
    /\ Idle /\ call[c] = "asleep"
    /\ chain' = <<c>> /\ ppcnt' = NoPipe /\ batch' = << >>
    /\ \/ /\ Sends(Append(batch, c)) /\ left' = [left EXCEPT ![c] = ppcnt + 1]
          /\ Goto(c, "reply") /\ UNCHANGED connAlive
       \/ closed /\ connAlive' = FALSE /\ Goto(c, "after") /\ UNCHANGED <<left, coming>>
    /\ UNCHANGED <<StayOfCall, kind, got, inbuf, closed, idle, fns, historyVars>>

ReadPiece(c) ==
    /\ Runs(c, "reply") /\ got[c] = None /\ Read(c)
    /\ UNCHANGED <<queueVars, call, kind, left, connAlive, ppcnt, batch, coming, historyVars>>

(* A piece of the reply; a packet that is too large is left unread after   *)
(* its head, and so are rows after one that looks like the end.            *)
TakePiece(c) ==
    /\ Runs(c, "reply") /\ got[c] \in Co \union {Other}
    /\ crossed' = (got[c] # c)
    /\ got' = [got EXCEPT ![c] = None] /\ left' = [left EXCEPT ![c] = @ - 1]
    /\ \/ left[c] = 1 /\ Goto(c, "after") /\ UNCHANGED abandoned
       \/ left[c] > 1 /\ UNCHANGED <<call, abandoned>>
       \/ left[c] > 1 /\ kind[c] = "packet" /\ Goto(c, "after") /\ abandoned' = TRUE
    /\ UNCHANGED <<StayOfCall, kind, chain, inbuf, closed, idle, fns, connAlive, ppcnt, batch, coming,
                   overlapped, shared>>

TakeGone(c) ==
    /\ Runs(c, "reply") /\ got[c] = Gone
    /\ got' = [got EXCEPT ![c] = None] /\ connAlive' = FALSE /\ Goto(c, "after")
    /\ UNCHANGED <<StayOfCall, kind, chain, inbuf, closed, idle, fns, left, ppcnt, batch, coming,
                   historyVars>>

(* The call is over and its coroutine ends, or runs the next in the queue. *)
End(c) ==
    /\ Runs(c, "after")
    /\ \/ /\ fns = << >> /\ Goto(c, "done") /\ chain' = Yields /\ idle' = TRUE
          /\ UNCHANGED fns
       \/ /\ fns # << >> /\ chain' = Append(Yields, Head(fns)) /\ fns' = Tail(fns)
          /\ call' = [call EXCEPT ![c] = "done", ![Head(fns)] = "begin"]
          /\ UNCHANGED idle
    /\ Forget(c)
    /\ UNCHANGED <<StayOfCall, got, inbuf, closed, connAlive, ppcnt, batch, coming,
                   historyVars>>

(* An error, of the call or of what the caller does with its reply, leaves *)
(* add where it is.                                                        *)
Raise(c) ==
    /\ Top = c /\ (call[c] = "after" \/ got[c] = Error)
    /\ Goto(c, "raised") /\ chain' = Yields /\ got' = [got EXCEPT ![c] = None]
    /\ Forget(c)
    /\ UNCHANGED <<StayOfCall, inbuf, closed, idle, fns, connAlive, ppcnt, batch, coming,
                   historyVars>>

(* close(): nothing more can be read.                                      *)
Close(c) ==
    /\ Runs(c, "after") /\ connAlive /\ connAlive' = FALSE
    /\ closed' = TRUE /\ closeCalled' = TRUE /\ inbuf' = << >> /\ coming' = << >>
    /\ UNCHANGED <<handler, rdwt, qrd, tbRdWait, forgotten, queued, kind, chain, got, idle, fns,
                   call, left, ppcnt, batch, historyVars>>

Arrive ==
    /\ coming # << >>
    /\ inbuf' = Append(inbuf, Head(coming)) /\ coming' = Tail(coming)
    /\ UNCHANGED <<chain, handler, rdwt, qrd, tbRdWait, got, forgotten, closed, closeCalled,
                   queueVars, call, kind, left, connAlive, ppcnt, batch, historyVars>>

PeerEnds ==
    /\ ~closed /\ closed' = TRUE /\ coming' = << >>
    /\ UNCHANGED <<chain, handler, readVars, closeCalled, queueVars, call, kind, left, connAlive,
                   ppcnt, batch, historyVars>>

HandleStep ==
    /\ Handle
    /\ UNCHANGED <<queueVars, call, kind, left, connAlive, ppcnt, batch, coming, historyVars>>

ServiceStep ==
    \/ HandleStep
    \/ \E c \in Co : \/ AddToPipeline(c) \/ Refuse(c) \/ SendCmd(c) \/ Pipeline(c)
                     \/ ReadPiece(c) \/ TakePiece(c) \/ TakeGone(c) \/ End(c) \/ Raise(c)

DbNext ==
    /\ ~crossed
    /\ \/ ServiceStep \/ OtherSends \/ Arrive \/ PeerEnds
       \/ \E c \in Co : Sync(c) \/ Close(c) \/ \E k \in Kinds : Begin(c, k)

DbSpec == DbInit /\ [][DbNext]_dbVars

(* A service with mail runs, a sleep ends, and what is sent arrives.       *)
DbFairness ==
    /\ WF_dbVars(~crossed /\ ServiceStep) /\ WF_dbVars(~crossed /\ Arrive)
    /\ SF_dbVars(~crossed /\ \E c \in Co : Sync(c))
DbFairSpec == DbSpec /\ DbFairness

-----------------------------------------------------------------------------
(* A reply is read by the call that asked for it.  What may break this:    *)
(* calls that overlap, which under a queue they never do; a command that   *)
(* another service of the worker puts together in the buffer of an open    *)
(* pipeline, queue or not; and a reply that was not read to its end.       *)
AnswerOfItsCall == crossed => (overlapped /\ ~queued) \/ shared \/ abandoned

(* Every call ends.  What may keep one from it: its read was dropped from  *)
(* the queue of readers, or it stands behind such a call, or behind one    *)
(* that raised an error, in the queue of calls.                            *)
Dropped(c) == \/ c \in forgotten
              \/ queued /\ \E d \in Co : d \in forgotten \/ call[d] = "raised"
CallEnds ==
    \A c \in Co : (call[c] # "new") ~> (\/ call[c] \in {"done", "raised"}
                                        \/ Dropped(c) \/ crossed)
=============================================================================
