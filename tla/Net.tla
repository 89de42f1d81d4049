-------------------------------- MODULE Net --------------------------------
(***************************************************************************)
(* One slot of the socket pool (pps_net.cpp, pps_net_api.cpp,              *)
(* pps_socket.cpp): the service that reads, sends and closes, the net      *)
(* thread that owns the slot's polling, and the peer.  The slot carries    *)
(* one connection after the other; a connection is named by the count of   *)
(* the slot it got, and a call holds that count from its first test on.    *)
(*                                                                         *)
(* The service makes one call at a time, so its read lock is never in      *)
(* contention and its send lock only with the net thread.  A read asks for *)
(* ReadLen bytes; the other decoders and the protocols (hasProtocol) are   *)
(* not in the model.  Bytes received are counted, bytes sent are numbered. *)
(* A call or a request for a connection the slot no longer carries, where  *)
(* the code does not test for it, sets fault, and the model stops there.   *)
(***************************************************************************)
EXTENDS Integers, Sequences, FiniteSets

CONSTANTS MaxConn,    \* connections the peers make to the listener
          MaxRecv,    \* MaxRecv[c]: bytes the peer sends on connection c
          ReadLen,    \* bytes a read asks for
          RecvBufLen, \* ctx->recvBufLen, at which reading pauses
          SendLen,    \* bytes of one send
          MaxSend,    \* MaxSend[c]: sends of the service on it
          MayExit     \* whether the service may go

ASSUME NetAssumption ==
    /\ {MaxConn, ReadLen, RecvBufLen, SendLen} \subseteq Nat \ {0}
    /\ MaxRecv \in [1..MaxConn -> Nat] /\ MaxSend \in [1..MaxConn -> Nat]

Conns == 1..MaxConn
NoConn == 0

VARIABLES
  cnt,          \* ctx->cnt
  ctx,          \* the fields of socket_ctx only the net thread uses
  readRuntime, sendRuntime,
  slot,         \* "free" in queCtxFree, "used", or "wait" in queWaitRecycleSock
  queTaskReq,   \* requests to the net thread, [cmd, id, used]
  io,           \* the socket: bytes to receive and received, peer, bytes on the wire
  npc, seen, evOut,      \* the net thread and its locals
  pc, op, isNew, local,  \* the service's call and its locals
  inbox,        \* the service's mailbox: [cmd, id]
  known,        \* connections it has been told of
  waiting,      \* those a read of which has answered 0
  alive,
  (* ghosts *)
  closed, over, \* connections the service closed, and those declared read over
  closedUnsent, \* some close found unsent bytes (do_tcp_close does nothing then)
  fault         \* "none", "twice" or "stale"

netVars == <<npc, seen, evOut>>
svcVars == <<pc, op, isNew, local>>
boxVars == <<inbox, known, waiting, alive>>
ghosts  == <<closed, over, closedUnsent, fault>>
sockVars == <<cnt, ctx, readRuntime, sendRuntime, slot>>
svcSide == <<svcVars, boxVars, ghosts>>
allVars == <<sockVars, queTaskReq, io, netVars, svcSide>>

NewCtx(n) == [cnt4Net |-> n, closeCalled4Net |-> FALSE, readOver4Net |-> FALSE,
              pollIn |-> FALSE, pollOut |-> FALSE, inPoll |-> FALSE, fd |-> n # NoConn]
NewRead == [sockClosed |-> FALSE, onReadWait |-> FALSE, hasSendReadOver |-> FALSE,
            readable |-> 0, wait |-> FALSE]
NewSend == [sockClosed |-> FALSE, closeCalled4Svc |-> FALSE, unSendBytes |-> 0,
            queUnSend |-> << >>, sends |-> 0]
NewIo == [in |-> 0, recv |-> 0, peer |-> "open", wire |-> << >>]

NetInit ==
    /\ cnt = 1 /\ ctx = NewCtx(NoConn)
    /\ readRuntime = NewRead /\ sendRuntime = NewSend
    /\ slot = "free" /\ queTaskReq = << >> /\ io = NewIo
    /\ npc = "tasks" /\ seen = 0 /\ evOut = FALSE
    /\ pc = "idle" /\ op = NoConn /\ isNew = FALSE /\ local = 0
    /\ inbox = << >> /\ known = {} /\ waiting = {} /\ alive = TRUE
    /\ closed = {} /\ over = {} /\ closedUnsent = FALSE /\ fault = "none"

Req(cmd, c) == [cmd |-> cmd, id |-> c, used |-> 0]
Msg(cmd, c) == [cmd |-> cmd, id |-> c]
Enqueue(t) == queTaskReq' = Append(queTaskReq, t)
Fault(f) == fault' = f /\ UNCHANGED <<sockVars, queTaskReq, io, netVars, svcVars,
                                       boxVars, closed, over, closedUnsent>>
-----------------------------------------------------------------------------
(* The service.  BeginCall is sock_valid_ctx: from there on the slot moves. *)
Return == pc' = "idle" /\ op' = NoConn /\ isNew' = FALSE /\ local' = 0
At(label) == pc = label
Mine == ctx.cnt4Net = op   \* the runtimes are still those of the connection

BeginCall(label, new) ==
    \E c \in known :
        /\ At("idle") /\ cnt = c
        /\ pc' = label /\ op' = c /\ isNew' = new /\ local' = 0

Call ==
    /\ \/ BeginCall("read", TRUE) \/ BeginCall("close", TRUE)
       \/ cnt \in Conns /\ sendRuntime.sends < MaxSend[cnt] /\ BeginCall("send", TRUE)
    /\ UNCHANGED <<sockVars, queTaskReq, io, netVars, boxVars, ghosts>>

TakeConnIn ==
    /\ At("idle") /\ alive /\ inbox # << >> /\ Head(inbox).cmd = "conn_in"
    /\ inbox' = Tail(inbox) /\ known' = known \union {Head(inbox).id}
    /\ UNCHANGED <<sockVars, queTaskReq, io, netVars, svcVars, waiting, alive, ghosts>>

(* A read notification: the read that waits goes on, or finds the slot gone.*)
TakeReadRet ==
    /\ At("idle") /\ alive /\ inbox # << >> /\ Head(inbox).cmd = "read_ret"
    /\ inbox' = Tail(inbox)
    /\ LET c == Head(inbox).id
       IN IF cnt = c
          THEN pc' = "read" /\ op' = c /\ isNew' = FALSE /\ local' = 0
               /\ waiting' = waiting
          ELSE waiting' = waiting \ {c} /\ UNCHANGED svcVars
    /\ UNCHANGED <<sockVars, queTaskReq, io, netVars, known, alive, ghosts>>

(* netapi_send_read_over, once for a connection.                           *)
ReadOver(run) ==
    /\ readRuntime' = [run EXCEPT !.hasSendReadOver = TRUE]
    /\ IF run.hasSendReadOver THEN UNCHANGED queTaskReq
                              ELSE Enqueue(Req("READ_OVER", op))
    /\ over' = over \union {op}

ReadClosed ==
    /\ At("read") /\ Mine /\ sendRuntime.closeCalled4Svc
    /\ ReadOver(readRuntime)
    /\ waiting' = (IF isNew THEN waiting ELSE waiting \ {op}) /\ Return
    /\ UNCHANGED <<cnt, ctx, sendRuntime, slot, io, netVars, inbox, known, alive,
                   closed, closedUnsent, fault>>

(* A second read beside one that waits, or a continued one that does not.  *)
ReadRefused ==
    /\ At("read") /\ Mine /\ ~sendRuntime.closeCalled4Svc
    /\ isNew = readRuntime.onReadWait
    /\ waiting' = (IF isNew THEN waiting ELSE waiting \ {op}) /\ Return
    /\ UNCHANGED <<sockVars, queTaskReq, io, netVars, inbox, known, alive, ghosts>>

Enough(n) == n >= ReadLen

ReadData ==
    /\ At("read") /\ Mine /\ ~sendRuntime.closeCalled4Svc
    /\ isNew # readRuntime.onReadWait /\ Enough(readRuntime.readable)
    /\ readRuntime' = [readRuntime EXCEPT !.readable = @ - ReadLen, !.onReadWait = FALSE]
    /\ waiting' = waiting \ {op} /\ Return
    /\ UNCHANGED <<cnt, ctx, sendRuntime, slot, queTaskReq, io, netVars, inbox, known,
                   alive, ghosts>>

ReadNothing ==
    /\ At("read") /\ Mine /\ ~sendRuntime.closeCalled4Svc
    /\ isNew # readRuntime.onReadWait /\ ~Enough(readRuntime.readable)
    /\ readRuntime' = [readRuntime EXCEPT !.onReadWait = TRUE]
    /\ pc' = "closed?" /\ local' = readRuntime.readable
    /\ UNCHANGED <<cnt, ctx, sendRuntime, slot, queTaskReq, io, netVars, op, isNew,
                   boxVars, ghosts>>

(* The read side has closed: what came after the first look is read still. *)
ReadEnd ==
    /\ At("closed?") /\ Mine /\ readRuntime.sockClosed
    /\ LET more == readRuntime.readable > local /\ Enough(readRuntime.readable)
       IN ReadOver([readRuntime EXCEPT !.onReadWait = FALSE,
                                       !.readable = IF more THEN @ - ReadLen ELSE @])
    /\ waiting' = waiting \ {op} /\ Return
    /\ UNCHANGED <<cnt, ctx, sendRuntime, slot, io, netVars, inbox, known, alive,
                   closed, closedUnsent, fault>>

ReadOpen ==
    /\ At("closed?") /\ Mine /\ ~readRuntime.sockClosed
    /\ pc' = "readwait"
    /\ UNCHANGED <<sockVars, queTaskReq, io, netVars, op, isNew, local, boxVars,
                   ghosts>>

ReadWait ==
    /\ At("readwait")
    /\ Enqueue([Req("READ_WAIT", op) EXCEPT !.used = local])
    /\ waiting' = waiting \union {op} /\ Return
    /\ UNCHANGED <<sockVars, io, netVars, inbox, known, alive, ghosts>>

SendClosed ==
    /\ At("send") /\ Mine /\ sendRuntime.closeCalled4Svc /\ Return
    /\ UNCHANGED <<sockVars, queTaskReq, io, netVars, boxVars, ghosts>>

Bytes(from, n) == [i \in 1..n |-> from + i]
Next1(sd) == sd.sends * SendLen   \* the last byte of the sends before
(* With nothing unsent the bytes go to the socket, as many as it takes.    *)
CanSendDirectOften(unSend) == unSend < 2
CanSendDirect(unSend) == unSend < 1

SendDirect ==
    /\ At("send") /\ Mine /\ ~sendRuntime.closeCalled4Svc
    /\ CanSendDirect(sendRuntime.unSendBytes) /\ ctx.fd
    /\ IF io.peer = "gone"
       THEN Return /\ UNCHANGED <<io, sendRuntime>>
       ELSE \E k \in 0..SendLen :
              /\ io' = [io EXCEPT !.wire = @ \o Bytes(Next1(sendRuntime), k)]
              /\ sendRuntime' = [sendRuntime EXCEPT !.sends = @ + 1]
              /\ IF k = SendLen THEN Return
                 ELSE pc' = "enqueue" /\ local' = SendLen - k /\ UNCHANGED <<op, isNew>>
    /\ UNCHANGED <<cnt, ctx, readRuntime, slot, queTaskReq, netVars, boxVars, ghosts>>

SendBehind ==
    /\ At("send") /\ Mine /\ ~sendRuntime.closeCalled4Svc
    /\ ~CanSendDirect(sendRuntime.unSendBytes)
    /\ sendRuntime' = [sendRuntime EXCEPT !.sends = @ + 1]
    /\ pc' = "enqueue" /\ local' = SendLen
    /\ UNCHANGED <<cnt, ctx, readRuntime, slot, queTaskReq, io, netVars, op, isNew,
                   boxVars, ghosts>>

SendEnqueue ==
    /\ At("enqueue") /\ Mine
    /\ sendRuntime' = [sendRuntime EXCEPT
           !.queUnSend = @ \o Bytes(Next1(sendRuntime) - local, local),
           !.unSendBytes = @ + local]
    /\ IF sendRuntime.unSendBytes < 1
       THEN pc' = "sendwait" /\ local' = 0 /\ UNCHANGED <<op, isNew>>
       ELSE Return
    /\ UNCHANGED <<cnt, ctx, readRuntime, slot, queTaskReq, io, netVars, boxVars,
                   ghosts>>

SendWait ==
    /\ At("sendwait") /\ Enqueue(Req("SEND_WAIT", op)) /\ Return
    /\ UNCHANGED <<sockVars, io, netVars, boxVars, ghosts>>

CloseMark ==
    /\ At("close") /\ Mine
    /\ IF sendRuntime.closeCalled4Svc
       THEN Return /\ UNCHANGED <<sendRuntime, closed>>
       ELSE /\ sendRuntime' = [sendRuntime EXCEPT !.closeCalled4Svc = TRUE]
            /\ closed' = closed \union {op}
            /\ pc' = "tcpclose" /\ UNCHANGED <<op, isNew, local>>
    /\ UNCHANGED <<cnt, ctx, readRuntime, slot, queTaskReq, io, netVars, boxVars, over,
                   closedUnsent, fault>>

CloseSend ==
    /\ At("tcpclose") /\ Enqueue(Req("TCP_CLOSE", op)) /\ Return
    /\ UNCHANGED <<sockVars, io, netVars, boxVars, ghosts>>

(* The wait for the send lock let the net thread release the slot.         *)
TurnedAway ==
    /\ pc \in {"send", "close"} /\ cnt # op /\ Return
    /\ UNCHANGED <<sockVars, queTaskReq, io, netVars, boxVars, ghosts>>

(* Behind the test of cnt nothing holds the slot: the next connection's    *)
(* runtimes, or a descriptor that has been closed, are used instead.       *)
UseStale ==
    /\ \/ pc \in {"read", "closed?", "send", "enqueue", "close"} /\ ~Mine
       \/ At("send") /\ Mine /\ ~sendRuntime.closeCalled4Svc
          /\ CanSendDirect(sendRuntime.unSendBytes) /\ ~ctx.fd
    /\ Fault("stale")

SvcExit ==
    /\ MayExit /\ At("idle") /\ alive
    /\ alive' = FALSE /\ waiting' = {} /\ known' = {} /\ inbox' = << >>
    /\ UNCHANGED <<sockVars, queTaskReq, io, netVars, svcVars, ghosts>>

SendLocked == pc \in {"enqueue", "sendwait"}
-----------------------------------------------------------------------------
(* The net thread's requests.                                              *)
Task(cmd) == npc = "tasks" /\ queTaskReq # << >> /\ Head(queTaskReq).cmd = cmd
CurrentUntested(t) == TRUE
Current(t) == cnt = t.id

(* send_readnotify_to_svc: for a service that has gone the thread declares *)
(* the read over itself.                                                   *)
NotifyReader(q, c) ==
    IF alive THEN /\ inbox' = Append(inbox, Msg("read_ret", c))
                  /\ queTaskReq' = q /\ over' = over
             ELSE /\ queTaskReq' = Append(q, Req("READ_OVER", c))
                  /\ over' = over \union {c} /\ inbox' = inbox

RecycleCtx == cnt' = cnt + 1 /\ slot' = "wait"
CloseFd(c) == [c EXCEPT !.pollIn = FALSE, !.pollOut = FALSE, !.inPoll = FALSE, !.fd = FALSE]

DoTcpAdd ==
    /\ Task("TCP_ADD")
    /\ LET c == Head(queTaskReq).id
       IN IF alive
          THEN /\ inbox' = Append(inbox, Msg("conn_in", c))
               /\ ctx' = [ctx EXCEPT !.pollIn = TRUE, !.inPoll = TRUE]
               /\ UNCHANGED <<cnt, slot>>
          ELSE ctx' = CloseFd(ctx) /\ RecycleCtx /\ UNCHANGED inbox
    /\ queTaskReq' = Tail(queTaskReq)
    /\ UNCHANGED <<readRuntime, sendRuntime, io, netVars, svcVars, known, waiting,
                   alive, ghosts>>

TrigLater(n, used) == FALSE
Trig(n, used) == n > used /\ Enough(n)

DoReadWait ==
    /\ Task("READ_WAIT") /\ Current(Head(queTaskReq))
    /\ LET t == Head(queTaskReq)
       IN IF Trig(readRuntime.readable, t.used) \/ readRuntime.sockClosed
             \/ ctx.closeCalled4Net
          THEN NotifyReader(Tail(queTaskReq), t.id) /\ UNCHANGED <<readRuntime, ctx>>
          ELSE /\ readRuntime' = [readRuntime EXCEPT !.wait = TRUE]
               /\ ctx' = [ctx EXCEPT !.pollIn = TRUE]
               /\ queTaskReq' = Tail(queTaskReq) /\ UNCHANGED <<inbox, over>>
    /\ UNCHANGED <<cnt, sendRuntime, slot, io, netVars, svcVars, known, waiting, alive,
                   closed, closedUnsent, fault>>

(* With bytes to send the rest is left to on_tcp_send.                     *)
DoReadOver ==
    /\ Task("READ_OVER") /\ Current(Head(queTaskReq))
    /\ queTaskReq' = Tail(queTaskReq)
    /\ IF ctx.pollOut
       THEN /\ ctx' = [ctx EXCEPT !.readOver4Net = TRUE]
            /\ UNCHANGED <<cnt, slot, readRuntime, sendRuntime>>
       ELSE /\ ~SendLocked
            /\ ctx' = [ctx EXCEPT !.readOver4Net = TRUE,
                          !.pollIn = @ /\ readRuntime.sockClosed,
                          !.inPoll = @ /\ readRuntime.sockClosed /\ ctx.closeCalled4Net,
                          !.fd = @ /\ ctx.closeCalled4Net]
            /\ readRuntime' = [readRuntime EXCEPT !.sockClosed = TRUE]
            /\ sendRuntime' = [sendRuntime EXCEPT
                                  !.sockClosed = @ \/ ~readRuntime.sockClosed]
            /\ RecycleCtx
    /\ UNCHANGED <<io, netVars, svcSide>>

DoSendWait ==
    /\ Task("SEND_WAIT")
    /\ queTaskReq' = Tail(queTaskReq)
    /\ ctx' = [ctx EXCEPT !.pollOut = @ \/ (Current(Head(queTaskReq))
                  /\ ~ctx.closeCalled4Net /\ ~sendRuntime.sockClosed)]
    /\ UNCHANGED <<cnt, readRuntime, sendRuntime, slot, io, netVars, svcSide>>

CloseIgnored ==
    /\ Task("TCP_CLOSE")
    /\ ~Current(Head(queTaskReq)) \/ ctx.closeCalled4Net
    /\ queTaskReq' = Tail(queTaskReq)
    /\ UNCHANGED <<sockVars, io, netVars, svcSide>>

(* READ_OVER came first, or bytes are unsent: another step ends it.        *)
CloseLater ==
    /\ Task("TCP_CLOSE") /\ Current(Head(queTaskReq)) /\ ~ctx.closeCalled4Net
    /\ ctx.readOver4Net \/ ctx.pollOut
    /\ queTaskReq' = Tail(queTaskReq)
    /\ ctx' = [ctx EXCEPT !.closeCalled4Net = TRUE, !.pollIn = @ /\ ctx.readOver4Net]
    /\ closedUnsent' = (closedUnsent \/ ~ctx.readOver4Net)
    /\ UNCHANGED <<cnt, readRuntime, sendRuntime, slot, io, netVars, svcVars, boxVars,
                   closed, over, fault>>

CloseNow ==
    /\ Task("TCP_CLOSE") /\ Current(Head(queTaskReq)) /\ ~ctx.closeCalled4Net
    /\ ~ctx.readOver4Net /\ ~ctx.pollOut
    /\ ctx' = [CloseFd(ctx) EXCEPT !.closeCalled4Net = TRUE]
    /\ readRuntime' = [readRuntime EXCEPT !.sockClosed = TRUE, !.wait = FALSE]
    /\ sendRuntime' = [sendRuntime EXCEPT !.sockClosed = TRUE]
    /\ IF readRuntime.wait
       THEN NotifyReader(Tail(queTaskReq), cnt) /\ UNCHANGED <<cnt, slot>>
       ELSE RecycleCtx /\ queTaskReq' = Tail(queTaskReq) /\ UNCHANGED <<inbox, over>>
    /\ UNCHANGED <<io, netVars, svcVars, known, waiting, alive, closed, closedUnsent,
                   fault>>

(* Neither do_read_over nor do_read_wait tests the count.                  *)
TaskStale ==
    /\ Task("READ_OVER") \/ Task("READ_WAIT")
    /\ ~Current(Head(queTaskReq))
    /\ Fault("twice")

(* The requests are done: what is in queWaitRecycleSock is free.           *)
SlotFree ==
    /\ npc = "tasks" /\ queTaskReq = << >>
    /\ slot' = (IF slot = "wait" THEN "free" ELSE slot)
    /\ npc' = "poll"
    /\ UNCHANGED <<cnt, ctx, readRuntime, sendRuntime, queTaskReq, io, seen, evOut,
                   svcSide>>
-----------------------------------------------------------------------------
(* sock_poll: a task's notify, the listener, or the channel's events.      *)
Notified ==
    /\ npc = "poll" /\ queTaskReq # << >> /\ npc' = "tasks"
    /\ UNCHANGED <<sockVars, queTaskReq, io, seen, evOut, svcSide>>

OnTcpAccept ==
    /\ npc = "poll" /\ slot = "free" /\ cnt \in Conns
    /\ slot' = "used" /\ ctx' = NewCtx(cnt)
    /\ readRuntime' = NewRead /\ sendRuntime' = NewSend /\ io' = NewIo
    /\ Enqueue(Req("TCP_ADD", cnt)) /\ npc' = "tasks"
    /\ UNCHANGED <<cnt, seen, evOut, svcSide>>

(* EPOLLRDHUP is always asked for, EPOLLHUP need not be.                   *)
ReadReady == ctx.inPoll /\ ((ctx.pollIn /\ io.in > 0) \/ io.peer # "open")

PollRead ==
    /\ npc = "poll" /\ ReadReady /\ npc' = "fill" /\ evOut' = FALSE /\ seen' = 0
    /\ UNCHANGED <<sockVars, queTaskReq, io, svcSide>>
PollSend ==
    /\ npc = "poll" /\ ctx.inPoll /\ ctx.pollOut
    /\ evOut' = TRUE /\ seen' = 0 /\ npc' = IF ReadReady THEN "fill" ELSE "send"
    /\ UNCHANGED <<sockVars, queTaskReq, io, svcSide>>

(* on_tcp_read: recv until nothing is left.                                *)
Fill ==
    /\ npc = "fill" /\ ~readRuntime.sockClosed /\ io.in > 0
    /\ readRuntime' = [readRuntime EXCEPT !.readable = @ + io.in]
    /\ seen' = readRuntime.readable + io.in
    /\ io' = [io EXCEPT !.in = 0]
    /\ UNCHANGED <<cnt, ctx, sendRuntime, slot, queTaskReq, npc, evOut, svcSide>>

FillEnd ==
    /\ npc = "fill" /\ (readRuntime.sockClosed \/ io.in = 0)
    /\ readRuntime' = [readRuntime EXCEPT !.sockClosed = @ \/ io.peer # "open"]
    /\ IF ~readRuntime.sockClosed /\ io.peer = "gone"
       THEN /\ ctx' = [ctx EXCEPT !.pollIn = FALSE, !.pollOut = FALSE, !.inPoll = FALSE]
            /\ sendRuntime' = [sendRuntime EXCEPT !.sockClosed = TRUE]
       ELSE /\ ctx' = [ctx EXCEPT !.pollIn = @ /\ (readRuntime.sockClosed \/ io.peer = "open")]
            /\ UNCHANGED sendRuntime
    /\ npc' = "trigger"
    /\ UNCHANGED <<cnt, slot, queTaskReq, io, seen, evOut, svcSide>>

AfterRead == npc' = (IF evOut THEN "send" ELSE "tasks") /\ seen' = 0 /\ evOut' = FALSE

(* ... then the read that waits is looked at, and a full buffer pauses.    *)
Trigger ==
    /\ npc = "trigger"
    /\ LET trig == ~readRuntime.sockClosed /\ readRuntime.wait /\ Enough(seen)
           pause == ~readRuntime.sockClosed /\ seen >= RecvBufLen
                    /\ (~readRuntime.wait \/ trig)
       IN /\ ctx' = [ctx EXCEPT !.pollIn = @ /\ ~pause]
          /\ IF readRuntime.wait /\ (trig \/ readRuntime.sockClosed)
             THEN /\ readRuntime' = [readRuntime EXCEPT !.wait = FALSE]
                  /\ NotifyReader(queTaskReq, ctx.cnt4Net)
             ELSE UNCHANGED <<readRuntime, inbox, queTaskReq, over>>
    /\ AfterRead
    /\ UNCHANGED <<cnt, sendRuntime, slot, io, svcVars, known, waiting, alive, closed,
                   closedUnsent, fault>>

(* on_tcp_send                                                             *)
SendLoad ==
    /\ npc = "send" /\ seen' = sendRuntime.unSendBytes /\ npc' = "sending"
    /\ UNCHANGED <<sockVars, queTaskReq, io, evOut, svcSide>>

NothingToSend ==
    /\ npc = "sending" /\ seen < 1
    /\ ctx' = [ctx EXCEPT !.pollOut = FALSE] /\ npc' = "sent" /\ seen' = 0
    /\ UNCHANGED <<cnt, readRuntime, sendRuntime, slot, queTaskReq, io, evOut, svcSide>>

SendSome ==
    /\ npc = "sending" /\ seen >= 1 /\ io.peer # "gone"
    /\ \E k \in 1..seen :
          /\ io' = [io EXCEPT !.wire = @ \o SubSeq(sendRuntime.queUnSend, 1, k)]
          /\ sendRuntime' = [sendRuntime EXCEPT
                                !.queUnSend = SubSeq(@, k + 1, Len(@))]
          /\ seen' = k
    /\ npc' = "subtract"
    /\ UNCHANGED <<cnt, ctx, readRuntime, slot, queTaskReq, evOut, svcSide>>

Subtract ==
    /\ npc = "subtract"
    /\ sendRuntime' = [sendRuntime EXCEPT !.unSendBytes = @ - seen]
    /\ npc' = "sent" /\ seen' = 0
    /\ UNCHANGED <<cnt, ctx, readRuntime, slot, queTaskReq, io, evOut, svcSide>>

SendFails ==
    /\ npc = "sending" /\ seen >= 1 /\ io.peer = "gone"
    /\ sendRuntime' = [sendRuntime EXCEPT !.sockClosed = TRUE]
    /\ ctx' = [ctx EXCEPT !.pollOut = FALSE] /\ npc' = "sent" /\ seen' = 0
    /\ UNCHANGED <<cnt, readRuntime, slot, queTaskReq, io, evOut, svcSide>>

SentAllForgets ==
    /\ npc = "sent" /\ npc' = "tasks"
    /\ UNCHANGED <<cnt, slot, ctx, readRuntime, sendRuntime, queTaskReq, io, seen,
                   evOut, svcSide>>
SentAll ==
    /\ npc = "sent"
    /\ IF ~ctx.pollOut /\ ctx.readOver4Net
       THEN /\ ~SendLocked
            /\ ctx' = CloseFd(ctx)
            /\ readRuntime' = [readRuntime EXCEPT !.sockClosed = TRUE]
            /\ sendRuntime' = [sendRuntime EXCEPT !.sockClosed = TRUE]
            /\ RecycleCtx
       ELSE UNCHANGED <<cnt, slot, ctx, readRuntime, sendRuntime>>
    /\ npc' = "tasks"
    /\ UNCHANGED <<queTaskReq, io, seen, evOut, svcSide>>
-----------------------------------------------------------------------------
(* The peer.                                                               *)
Connected == ctx.fd /\ ctx.inPoll /\ io.peer # "gone"

PeerSend ==
    /\ Connected /\ io.peer = "open" /\ io.recv < MaxRecv[ctx.cnt4Net]
    /\ io' = [io EXCEPT !.in = @ + 1, !.recv = @ + 1]
    /\ UNCHANGED <<sockVars, queTaskReq, netVars, svcSide>>

PeerEnd ==
    /\ Connected
    /\ \/ io.peer = "open" /\ io' = [io EXCEPT !.peer = "half"]
       \/ io' = [io EXCEPT !.peer = "gone", !.in = 0]
    /\ UNCHANGED <<sockVars, queTaskReq, netVars, svcSide>>
-----------------------------------------------------------------------------
ServiceCalls == Call \/ SvcExit
ServiceStep ==
    \/ TakeConnIn \/ TakeReadRet
    \/ ReadClosed \/ ReadRefused \/ ReadData \/ ReadNothing \/ ReadEnd \/ ReadOpen
    \/ ReadWait
    \/ SendClosed \/ SendDirect \/ SendBehind \/ SendEnqueue \/ SendWait
    \/ CloseMark \/ CloseSend \/ TurnedAway
NetStep ==
    \/ DoTcpAdd \/ DoReadWait \/ DoReadOver \/ DoSendWait
    \/ CloseIgnored \/ CloseLater \/ CloseNow \/ SlotFree
    \/ Notified \/ PollRead \/ PollSend
    \/ Fill \/ FillEnd \/ Trigger
    \/ SendLoad \/ NothingToSend \/ SendSome \/ Subtract \/ SendFails \/ SentAll

NetNext ==
    /\ fault = "none"
    /\ \/ ServiceCalls \/ ServiceStep \/ UseStale
       \/ NetStep \/ OnTcpAccept \/ TaskStale
       \/ PeerSend \/ PeerEnd

NetSpec == NetInit /\ [][NetNext]_allVars
-----------------------------------------------------------------------------
InQueue(cmd, c) == \E i \in 1..Len(queTaskReq) :
                       queTaskReq[i].cmd = cmd /\ queTaskReq[i].id = c
InMail(cmd, c) == \E i \in 1..Len(inbox) : inbox[i] = Msg(cmd, c)

(* A slot goes to the next connection only when the service has closed the *)
(* one it was told of, or a read of it has been declared over; and a call  *)
(* that uses what belongs to another connection is one on a connection     *)
(* that has ended this way (recycle_ctx and the callers of it).            *)
SlotNotTakenFromUser ==
    /\ \A c \in known : cnt > c => c \in closed \union over
    /\ fault = "stale" => op \in closed \union over

(* A request for a connection the slot no longer carries (do_read_over and *)
(* do_read_wait test nothing) is for one the service has closed: without   *)
(* close, every connection is recycled once.                               *)
RecycledTwiceOnlyAfterClose ==
    fault = "twice" => Head(queTaskReq).id \in closed

(* A read that was answered 0 has its request in the queue, its answer in  *)
(* the mailbox, or waits with the poller for bytes that have not come, or  *)
(* a close found bytes unsent and stopped the polling (do_tcp_close).      *)
NoLostReader ==
    \A c \in waiting :
        \/ InMail("read_ret", c) \/ op = c \/ closedUnsent
        \/ /\ cnt = c
           /\ \/ InQueue("READ_WAIT", c)
              \/ readRuntime.wait /\ npc \in {"fill", "trigger"}
              \/ /\ readRuntime.wait /\ ctx.inPoll /\ ctx.pollIn
                 /\ ~Enough(readRuntime.readable)

(* Bytes go out in the order of the sends, whether the service writes them *)
(* itself or the net thread does, and while some wait the thread polls for *)
(* the socket or is about to be asked to, or the connection is over.       *)
SentInOrder ==
    /\ io.wire \o sendRuntime.queUnSend =
           Bytes(0, Next1(sendRuntime) - (IF At("enqueue") THEN local ELSE 0))
    /\ sendRuntime.unSendBytes > 0 =>
           \/ ctx.pollOut \/ InQueue("SEND_WAIT", ctx.cnt4Net) \/ At("sendwait")
           \/ sendRuntime.sockClosed \/ cnt # ctx.cnt4Net

(* A slot that is free again has its descriptor closed, unless a close     *)
(* found bytes unsent.                                                     *)
FdClosedWithSlot == ctx.fd => cnt = ctx.cnt4Net \/ closedUnsent

(* A slot and its descriptor serve one connection, and the next one only   *)
(* when that is done with.                                                 *)
SlotOfOneUser == SlotNotTakenFromUser /\ RecycledTwiceOnlyAfterClose /\ FdClosedWithSlot

-----------------------------------------------------------------------------
(* The threads run and epoll reports; every connection ends at its peer;   *)
(* a socket with bytes to send gets room again and again.  A service makes *)
(* calls as it likes, but each ends and the next message comes.            *)
Fairness ==
    /\ WF_allVars(fault = "none" /\ (ServiceStep \/ UseStale))
    /\ SF_allVars(fault = "none" /\ (TakeConnIn \/ TakeReadRet))
    /\ WF_allVars(fault = "none" /\ (NetStep \/ TaskStale))
    /\ SF_allVars(fault = "none" /\ PollSend)
    /\ WF_allVars(fault = "none" /\ PeerEnd)
NetFairSpec == NetSpec /\ Fairness

Broken == fault # "none" \/ closedUnsent
(* A connection that was closed or read to its end gives its slot back,    *)
(* unless its service goes: with a notification in its mailbox nobody else *)
(* declares the read over.                                                 *)
Ended == cnt \in closed \union over
SlotReturns == Ended ~> (~Ended \/ Broken \/ ~alive)
=============================================================================
