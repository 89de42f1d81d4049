----------------------------- MODULE Exclusive -----------------------------
(***************************************************************************)
(* Exclusive services: each has a thread of its own, which handles its     *)
(* mail and sleeps on its own condition variable (worker_exclusive_thread  *)
(* of pps_worker.cpp; the exclusive part of svc_sendmsg, svc_newservice    *)
(* and exclusive_mgr_* of pps_service.cpp).                                *)
(*                                                                         *)
(* Threads are numbered in the order in which svc_newservice starts them;  *)
(* thread t is also the t-th exclusive_thread_ctx with its                 *)
(* exclusive_svc_ctx, and <<home[t], cnt[t]>> is the address its service   *)
(* is sent to.  A slot serves another thread once it has been given back.  *)
(* The mutex of a context is held only across a notify or the entry of a   *)
(* wait and is part of those steps; the manager's is mgrMtx.  Mailboxes    *)
(* are as in Scheduler; parked messages are left out.                      *)
(***************************************************************************)
EXTENDS Integers, Sequences, FiniteSets

CONSTANTS Slots,       \* slots for exclusive services (MAX_EXCLUSIVE)
          Senders,     \* threads that call svc_newservice and svc_sendmsg
          MqInCap,     \* capacity of a mailbox
          CountMod,    \* msgNum counts modulo this (2^32)
          MaxThreads,  \* bound: services created
          MaxSends,    \* bound: calls of svc_sendmsg, start messages left out
          MayShutdown  \* whether pps_shutdown may be called

Threads == 1 .. MaxThreads
NoThread == 0
Ready == "ready"   \* a published mailbox entry
None  == "none"

ASSUME MaxThreadsAssumption == MaxThreads \in Nat
ASSUME CountModAssumption == CountMod \in Nat \ {0, 1}
ASSUME BoundsAssumption == MaxSends \in Nat /\ MqInCap \in 1 .. CountMod - 1
ASSUME NamesAssumption == Ready \notin Senders
ASSUME ThreadsAssumption == Slots # {} /\ IsFiniteSet(Senders)
ASSUME MayShutdownAssumption == MayShutdown \in BOOLEAN

VARIABLES
  (* struct pps_service, by slot *)
  svcCnt, calledCnt, mqIn, exitCalled,
  exclusiveCtx,    \* the thread whose context it points to, or NoThread
  quIdxFree,       \* the slots given back or never used
  (* a thread, its contexts and its locals *)
  tpc, home, cnt, loop, isIdle, msgNum, procMsgNum,
  missed,          \* a notify since it last read loop found it not waiting
  created,         \* threads started so far
  (* a sender's locals *)
  spc, dst,
  made,            \* the service its svc_newservice is starting
  sends,
  (* struct pps_exclusive_mgr, and the threads in pps_shutdown and at the  *)
  (* end of worker_thread *)
  plkCtx, mgrMtx, shut, todo,
  stopping,        \* the context whose loop shutdown has just cleared
  waiter,
  fault            \* the failed assertion or bad access that stopped the process

slotVars   == <<svcCnt, calledCnt, mqIn, exitCalled, exclusiveCtx, quIdxFree>>
placeVars  == <<home, cnt, created>>
idleVars   == <<isIdle, msgNum, procMsgNum, missed>>
threadVars == <<tpc, loop, placeVars, idleVars>>
senderVars == <<spc, dst, made, sends>>
mgrVars    == <<plkCtx, mgrMtx, shut, todo, stopping, waiter>>
vars == <<slotVars, threadVars, senderVars, mgrVars, fault>>

Readable(q) == q # << >> /\ Head(q) = Ready

(* mpsc_pop until it fails. *)
DropReadable(q) ==
    LET pending == {i \in DOMAIN q : q[i] # Ready}
    IN IF pending = {} THEN << >>
       ELSE SubSeq(q, CHOOSE i \in pending : \A j \in pending : i <= j, Len(q))

SenderAt(p, label) == fault = None /\ spc[p] = label
ThreadAt(t, label) == fault = None /\ tpc[t] = label
SenderGoto(p, label) == spc' = [spc EXCEPT ![p] = label]
ThreadGoto(t, label) == tpc' = [tpc EXCEPT ![t] = label]

(* The context of t has not been deleted. *)
Alive(t) == exclusiveCtx[home[t]] = t

(* cond.notify_all on the context of t. *)
Notify(t) ==
    IF tpc[t] = "sleep"
    THEN ThreadGoto(t, "unidle") /\ UNCHANGED missed
    ELSE missed' = [missed EXCEPT ![t] = TRUE] /\ UNCHANGED tpc

----------------------------------------------------------------------------
(* Wrong variants of steps below, each a bug of the kind this code could   *)
(* have.  No specification uses them: they show that the properties at the *)
(* end of the module can fail.                                             *)

(* msgNum is not looked at again after isIdle is set. *)
CheckIdleNever(t) ==
    /\ ThreadAt(t, "checkidle")
    /\ ThreadGoto(t, "wait")
    /\ UNCHANGED <<slotVars, loop, placeVars, idleVars, senderVars, mgrVars, fault>>

(* calledCnt is not waited for. *)
DrainedAtOnce(t) ==
    /\ ThreadAt(t, "drain")
    /\ ThreadGoto(t, "free")
    /\ UNCHANGED <<slotVars, loop, placeVars, idleVars, senderVars, mgrVars, fault>>

(* Sleeping threads are not notified. *)
ShutdownNotifyNobody ==
    /\ fault = None /\ shut = "notify"
    /\ stopping' = NoThread
    /\ shut' = "next"
    /\ UNCHANGED <<slotVars, threadVars, senderVars, plkCtx, mgrMtx, todo, waiter, fault>>

----------------------------------------------------------------------------
Init ==
    /\ svcCnt = [s \in Slots |-> 0]
    /\ calledCnt = [s \in Slots |-> 0]
    /\ mqIn = [s \in Slots |-> << >>]
    /\ exitCalled = [s \in Slots |-> FALSE]
    /\ exclusiveCtx = [s \in Slots |-> NoThread]
    /\ quIdxFree = Slots
    /\ tpc = [t \in Threads |-> "none"]
    /\ home = [t \in Threads |-> CHOOSE s \in Slots : TRUE]
    /\ cnt = [t \in Threads |-> 0]
    /\ loop = [t \in Threads |-> FALSE]
    /\ isIdle = [t \in Threads |-> FALSE]
    /\ msgNum = [t \in Threads |-> 0]
    /\ procMsgNum = [t \in Threads |-> 0]
    /\ missed = [t \in Threads |-> FALSE]
    /\ created = 0
    /\ spc = [p \in Senders |-> "idle"]
    /\ dst = [p \in Senders |-> NoThread]
    /\ made = [p \in Senders |-> NoThread]
    /\ sends = 0
    /\ plkCtx = {}
    /\ mgrMtx = "free"
    /\ shut = "off"
    /\ todo = {}
    /\ stopping = NoThread
    /\ waiter = "off"
    /\ fault = None

----------------------------------------------------------------------------
(* svc_newservice of an exclusive service *)

(* Take a slot, make the contexts, start the thread: nobody else knows     *)
(* the slot's new count yet.                                               *)
NewService(p, s) ==
    LET t == created + 1
    IN /\ SenderAt(p, "idle") /\ s \in quIdxFree /\ created < MaxThreads
       /\ created' = t
       /\ quIdxFree' = quIdxFree \ {s}
       /\ exitCalled' = [exitCalled EXCEPT ![s] = FALSE]
       /\ exclusiveCtx' = [exclusiveCtx EXCEPT ![s] = t]
       /\ home' = [home EXCEPT ![t] = s]
       /\ cnt' = [cnt EXCEPT ![t] = svcCnt[s]]
       /\ loop' = [loop EXCEPT ![t] = TRUE]
       /\ ThreadGoto(t, "loop")
       /\ made' = [made EXCEPT ![p] = t]
       /\ SenderGoto(p, "list")
       /\ UNCHANGED <<svcCnt, calledCnt, mqIn, idleVars, dst, sends, mgrVars, fault>>

ListContext(p) ==                       \* plk_push, after the thread started
    /\ SenderAt(p, "list") /\ mgrMtx = "free"
    /\ plkCtx' = plkCtx \union {made[p]}
    /\ SenderGoto(p, "start")
    /\ UNCHANGED <<slotVars, threadVars, dst, made, sends, mgrMtx, shut, todo, stopping,
                   waiter, fault>>

----------------------------------------------------------------------------
(* svc_sendmsg; the message that starts a service is one of them. *)

CallBegin(p, t) ==                      \* callsvc_begin
    /\ calledCnt' = [calledCnt EXCEPT ![home[t]] = @ + 1]
    /\ dst' = [dst EXCEPT ![p] = t]
    /\ SenderGoto(p, "check")
    /\ UNCHANGED <<svcCnt, mqIn, exitCalled, exclusiveCtx, quIdxFree, threadVars, made,
                   mgrVars, fault>>

(* An address is known once svc_newservice has returned it. *)
SendBegin(p, t) ==
    /\ SenderAt(p, "idle") /\ sends < MaxSends
    /\ t <= created /\ \A q \in Senders : made[q] # t
    /\ sends' = sends + 1
    /\ CallBegin(p, t)

SendStart(p) ==
    /\ SenderAt(p, "start")
    /\ CallBegin(p, made[p])
    /\ UNCHANGED sends

(* svc_sendmsg fails, which svc_newservice asserts it does not. *)
Refuse(p) ==
    /\ SenderGoto(p, "end")
    /\ fault' = IF made[p] # NoThread THEN "start refused" ELSE None
    /\ UNCHANGED <<slotVars, threadVars, dst, made, sends, mgrVars>>

SendGone(p) ==                          \* svcCnt not match, svc may gone
    /\ SenderAt(p, "check") /\ svcCnt[home[dst[p]]] # cnt[dst[p]]
    /\ Refuse(p)

SendCheck(p) ==
    /\ SenderAt(p, "check") /\ svcCnt[home[dst[p]]] = cnt[dst[p]]
    /\ SenderGoto(p, "push")
    /\ UNCHANGED <<slotVars, threadVars, dst, made, sends, mgrVars, fault>>

SendFull(p) ==
    /\ SenderAt(p, "push") /\ Len(mqIn[home[dst[p]]]) >= MqInCap
    /\ Refuse(p)

SendPush(p) ==
    /\ SenderAt(p, "push") /\ Len(mqIn[home[dst[p]]]) < MqInCap
    /\ mqIn' = [mqIn EXCEPT ![home[dst[p]]] = Append(@, p)]
    /\ SenderGoto(p, "publish")
    /\ UNCHANGED <<svcCnt, calledCnt, exitCalled, exclusiveCtx, quIdxFree, threadVars,
                   dst, made, sends, mgrVars, fault>>

SendPublish(p) ==
    /\ SenderAt(p, "publish")
    /\ mqIn' = [mqIn EXCEPT ![home[dst[p]]] =
                  [i \in DOMAIN @ |-> IF @[i] = p THEN Ready ELSE @[i]]]
    /\ SenderGoto(p, "count")
    /\ UNCHANGED <<svcCnt, calledCnt, exitCalled, exclusiveCtx, quIdxFree, threadVars,
                   dst, made, sends, mgrVars, fault>>

SendCount(p) ==                         \* msgNum.fetch_add(1)
    /\ SenderAt(p, "count")
    /\ msgNum' = [msgNum EXCEPT ![dst[p]] = @ + 1]
    /\ SenderGoto(p, "look")
    /\ UNCHANGED <<slotVars, tpc, loop, placeVars, isIdle, procMsgNum, missed, dst, made,
                   sends, mgrVars, fault>>

SendLook(p) ==                          \* isIdle.load()
    /\ SenderAt(p, "look")
    /\ SenderGoto(p, IF isIdle[dst[p]] THEN "notify" ELSE "end")
    /\ UNCHANGED <<slotVars, threadVars, dst, made, sends, mgrVars, fault>>

SendNotify(p) ==
    /\ SenderAt(p, "notify")
    /\ Notify(dst[p])
    /\ SenderGoto(p, "end")
    /\ UNCHANGED <<slotVars, loop, placeVars, isIdle, msgNum, procMsgNum, dst, made,
                   sends, mgrVars, fault>>

SendEnd(p) ==                           \* callsvc_end
    /\ SenderAt(p, "end")
    /\ calledCnt' = [calledCnt EXCEPT ![home[dst[p]]] = @ - 1]
    /\ dst' = [dst EXCEPT ![p] = NoThread]
    /\ made' = [made EXCEPT ![p] = NoThread]
    /\ SenderGoto(p, "idle")
    /\ UNCHANGED <<svcCnt, mqIn, exitCalled, exclusiveCtx, quIdxFree, threadVars, sends,
                   mgrVars, fault>>

----------------------------------------------------------------------------
(* worker_exclusive_thread *)

LoopTop(t) ==
    /\ ThreadAt(t, "loop")
    /\ ThreadGoto(t, IF loop[t] THEN "proc" ELSE "stop")
    /\ missed' = [missed EXCEPT ![t] = FALSE]
    /\ UNCHANGED <<slotVars, loop, placeVars, isIdle, msgNum, procMsgNum, senderVars,
                   mgrVars, fault>>

(* proc_svc pops until nothing is left; when the first message leaves      *)
(* nothing counted behind it, it does not look again.                      *)
HandleMsg(t, exits) ==
    LET s    == home[t]
        done == exits \/ (procMsgNum[t] = 0 /\ Len(mqIn[s]) = 1)
    IN /\ ThreadAt(t, "proc") /\ Readable(mqIn[s])
       /\ mqIn' = [mqIn EXCEPT ![s] = Tail(@)]
       /\ exitCalled' = [exitCalled EXCEPT ![s] = exits]
       /\ svcCnt' = [svcCnt EXCEPT ![s] = @ + (IF exits THEN 1 ELSE 0)]
       /\ procMsgNum' = [procMsgNum EXCEPT ![t] = @ + 1]
       /\ ThreadGoto(t, IF done THEN "uncount" ELSE "proc")
       /\ UNCHANGED <<calledCnt, exclusiveCtx, quIdxFree, loop, placeVars, isIdle, msgNum,
                      missed, senderVars, mgrVars, fault>>

NoMsg(t) ==
    /\ ThreadAt(t, "proc") /\ ~Readable(mqIn[home[t]])
    /\ ThreadGoto(t, "uncount")
    /\ UNCHANGED <<slotVars, loop, placeVars, idleVars, senderVars, mgrVars, fault>>

Uncount(t) ==                           \* msgNum.fetch_sub(procMsgNum)
    /\ ThreadAt(t, "uncount")
    /\ msgNum' = [msgNum EXCEPT ![t] = @ - procMsgNum[t]]
    /\ procMsgNum' = [procMsgNum EXCEPT ![t] = 0]
    /\ ThreadGoto(t, IF exitCalled[home[t]] THEN "stop" ELSE "idle")
    /\ UNCHANGED <<slotVars, loop, placeVars, isIdle, missed, senderVars, mgrVars, fault>>

SetIdle(t) ==                           \* isIdle.store(true)
    /\ ThreadAt(t, "idle")
    /\ isIdle' = [isIdle EXCEPT ![t] = TRUE]
    /\ ThreadGoto(t, "checkidle")
    /\ UNCHANGED <<slotVars, loop, placeVars, msgNum, procMsgNum, missed, senderVars,
                   mgrVars, fault>>

CheckIdle(t) ==                         \* msgNum.load() < 1, on uint32_t
    /\ ThreadAt(t, "checkidle")
    /\ ThreadGoto(t, IF (msgNum[t] % CountMod) < 1 THEN "wait" ELSE "unidle")
    /\ UNCHANGED <<slotVars, loop, placeVars, idleVars, senderVars, mgrVars, fault>>

Wait(t) ==
    /\ ThreadAt(t, "wait")
    /\ ThreadGoto(t, "sleep")
    /\ UNCHANGED <<slotVars, loop, placeVars, idleVars, senderVars, mgrVars, fault>>

SpuriousWake(t) ==
    /\ ThreadAt(t, "sleep")
    /\ ThreadGoto(t, "unidle")
    /\ UNCHANGED <<slotVars, loop, placeVars, idleVars, senderVars, mgrVars, fault>>

Unidle(t) ==                            \* isIdle.store(false)
    /\ ThreadAt(t, "unidle")
    /\ isIdle' = [isIdle EXCEPT ![t] = FALSE]
    /\ ThreadGoto(t, "loop")
    /\ UNCHANGED <<slotVars, loop, placeVars, msgNum, procMsgNum, missed, senderVars,
                   mgrVars, fault>>

(* A thread that shutdown stops makes the address invalid; exitCalled is   *)
(* left as it is.                                                          *)
Stop(t) ==
    /\ ThreadAt(t, "stop")
    /\ svcCnt' = [svcCnt EXCEPT ![home[t]] = @ + (IF exitCalled[home[t]] THEN 0 ELSE 1)]
    /\ ThreadGoto(t, "drain")
    /\ UNCHANGED <<calledCnt, mqIn, exitCalled, exclusiveCtx, quIdxFree, loop, placeVars,
                   idleVars, senderVars, mgrVars, fault>>

Drained(t) ==                           \* until calledCnt.load() is 0
    /\ ThreadAt(t, "drain") /\ calledCnt[home[t]] = 0
    /\ ThreadGoto(t, "free")
    /\ UNCHANGED <<slotVars, loop, placeVars, idleVars, senderVars, mgrVars, fault>>

(* do_svc_free: a service that shutdown stopped still handles its mail,    *)
(* and may call svc_exit when it does.                                     *)
Free(t, exits) ==
    LET s == home[t]
    IN /\ ThreadAt(t, "free")
       /\ exits => Readable(mqIn[s]) /\ ~exitCalled[s]
       /\ mqIn' = [mqIn EXCEPT ![s] = DropReadable(@)]
       /\ exitCalled' = [exitCalled EXCEPT ![s] = @ \/ exits]
       /\ svcCnt' = [svcCnt EXCEPT ![s] = @ + (IF exits THEN 1 ELSE 0)]
       /\ exclusiveCtx' = [exclusiveCtx EXCEPT ![s] = NoThread]
       /\ quIdxFree' = quIdxFree \union {s}
       /\ ThreadGoto(t, "remove")
       /\ UNCHANGED <<calledCnt, loop, placeVars, idleVars, senderVars, mgrVars, fault>>

Remove(t) ==                            \* exclusive_mgr_svcexit, then delete ctx
    /\ ThreadAt(t, "remove") /\ mgrMtx = "free"
    /\ plkCtx' = plkCtx \ {t}
    /\ ThreadGoto(t, "ended")
    /\ UNCHANGED <<slotVars, loop, placeVars, idleVars, senderVars, mgrMtx, shut, todo,
                   stopping, waiter, fault>>

----------------------------------------------------------------------------
(* exclusive_mgr_shutdown holds the manager's mutex throughout. *)

ShutdownBegin ==
    /\ MayShutdown /\ fault = None /\ shut = "off" /\ mgrMtx = "free"
    /\ mgrMtx' = "shutdown"
    /\ shut' = "next"
    /\ todo' = plkCtx
    /\ UNCHANGED <<slotVars, threadVars, senderVars, plkCtx, stopping, waiter, fault>>

ShutdownLoop(t) ==                      \* ctx->loop.store(false)
    /\ fault = None /\ shut = "next" /\ t \in todo
    /\ loop' = [loop EXCEPT ![t] = FALSE]
    /\ todo' = todo \ {t}
    /\ stopping' = t
    /\ shut' = "notify"
    /\ UNCHANGED <<slotVars, tpc, placeVars, idleVars, senderVars, plkCtx, mgrMtx, waiter,
                   fault>>

(* lock ctx->svcCtx->mtx and notify: nothing keeps the context alive.      *)
ShutdownNotify ==
    /\ fault = None /\ shut = "notify"
    /\ IF Alive(stopping) THEN Notify(stopping) /\ UNCHANGED fault
       ELSE fault' = "deleted context" /\ UNCHANGED <<tpc, missed>>
    /\ stopping' = NoThread
    /\ shut' = "next"
    /\ UNCHANGED <<slotVars, loop, placeVars, isIdle, msgNum, procMsgNum, senderVars,
                   plkCtx, mgrMtx, todo, waiter>>

ShutdownEnd ==
    /\ fault = None /\ shut = "next" /\ todo = {}
    /\ mgrMtx' = "free"
    /\ shut' = "done"
    /\ UNCHANGED <<slotVars, threadVars, senderVars, plkCtx, todo, stopping, waiter, fault>>

(* exclusive_mgr_waitalldone, by a worker that shutdown has ended; it      *)
(* sleeps with the mutex locked.                                           *)
WaitLock ==
    /\ fault = None /\ shut = "done" /\ waiter = "off" /\ mgrMtx = "free"
    /\ waiter' = IF plkCtx = {} THEN "done" ELSE "asleep"
    /\ mgrMtx' = IF plkCtx = {} THEN "free" ELSE "waiter"
    /\ UNCHANGED <<slotVars, threadVars, senderVars, plkCtx, shut, todo, stopping, fault>>

WaitUnlock ==
    /\ fault = None /\ waiter = "asleep"
    /\ waiter' = "off"
    /\ mgrMtx' = "free"
    /\ UNCHANGED <<slotVars, threadVars, senderVars, plkCtx, shut, todo, stopping, fault>>

----------------------------------------------------------------------------
SenderStep(p) ==
    \/ ListContext(p) \/ SendStart(p) \/ SendGone(p) \/ SendCheck(p)
    \/ SendFull(p) \/ SendPush(p) \/ SendPublish(p) \/ SendCount(p)
    \/ SendLook(p) \/ SendNotify(p) \/ SendEnd(p)

ThreadStep(t) ==
    \/ LoopTop(t) \/ (\E exits \in BOOLEAN : HandleMsg(t, exits)) \/ NoMsg(t)
    \/ Uncount(t) \/ SetIdle(t) \/ CheckIdle(t) \/ Wait(t) \/ Unidle(t)
    \/ Stop(t) \/ Drained(t) \/ (\E exits \in BOOLEAN : Free(t, exits)) \/ Remove(t)

ShutdownStep ==
    ShutdownNotify \/ ShutdownEnd \/ \E t \in Threads : ShutdownLoop(t)

Next ==
    \/ \E p \in Senders, s \in Slots : NewService(p, s)
    \/ \E p \in Senders, t \in Threads : SendBegin(p, t)
    \/ \E p \in Senders : SenderStep(p)
    \/ \E t \in Threads : ThreadStep(t)
    \/ \E t \in Threads : SpuriousWake(t)
    \/ ShutdownBegin \/ ShutdownStep
    \/ WaitLock \/ WaitUnlock

Spec == Init /\ [][Next]_vars

(* Every thread that can run runs.  The manager's mutex is free again and  *)
(* again, and whoever waits for it gets it in the end.                     *)
FairSpec ==
    /\ Spec
    /\ \A p \in Senders : WF_vars(SenderStep(p)) /\ SF_vars(ListContext(p))
    /\ \A t \in Threads : WF_vars(ThreadStep(t)) /\ SF_vars(Remove(t))
    /\ WF_vars(ShutdownStep)
    /\ WF_vars(WaitLock \/ WaitUnlock)

----------------------------------------------------------------------------
ThreadPlaces == {"none", "loop", "proc", "uncount", "idle", "checkidle", "wait", "sleep",
                 "unidle", "stop", "drain", "free", "remove", "ended"}
SenderPlaces == {"idle", "list", "start", "check", "push", "publish", "count", "look",
                 "notify", "end"}

(* Every variable has its type. *)
TypeOK ==
    /\ svcCnt \in [Slots -> Nat]
    /\ calledCnt \in [Slots -> Nat]
    /\ mqIn \in [Slots -> Seq(Senders \union {Ready})]
    /\ exitCalled \in [Slots -> BOOLEAN]
    /\ exclusiveCtx \in [Slots -> Threads \union {NoThread}]
    /\ quIdxFree \subseteq Slots
    /\ tpc \in [Threads -> ThreadPlaces]
    /\ home \in [Threads -> Slots]
    /\ cnt \in [Threads -> Nat]
    /\ loop \in [Threads -> BOOLEAN]
    /\ isIdle \in [Threads -> BOOLEAN]
    /\ msgNum \in [Threads -> Int]
    /\ procMsgNum \in [Threads -> Nat]
    /\ missed \in [Threads -> BOOLEAN]
    /\ created \in 0 .. MaxThreads
    /\ spc \in [Senders -> SenderPlaces]
    /\ dst \in [Senders -> Threads \union {NoThread}]
    /\ made \in [Senders -> Threads \union {NoThread}]
    /\ sends \in Nat
    /\ plkCtx \subseteq Threads
    /\ mgrMtx \in {"free", "shutdown", "waiter"}
    /\ shut \in {"off", "next", "notify", "done"}
    /\ todo \subseteq Threads
    /\ stopping \in Threads \union {NoThread}
    /\ waiter \in {"off", "asleep", "done"}
    /\ fault \in {None, "start refused", "deleted context"}

(* A sender that has found the address valid uses the context and the      *)
(* mailbox of that very service until it leaves, however slots are reused. *)
Inside == {p \in Senders : spc[p] \in {"push", "publish", "count", "look", "notify"}}
ContextAliveUnderSender == \A p \in Inside : Alive(dst[p])

(* msgNum is the mail there is, but for what senders have pushed and not   *)
(* counted, and what the thread has popped and not uncounted.              *)
MsgNumIsMail ==
    \A t \in Threads :
        Alive(t) /\ tpc[t] \notin {"stop", "drain", "free"} =>
            msgNum[t] = Len(mqIn[home[t]]) + procMsgNum[t]
                        - Cardinality({p \in Senders : /\ spc[p] \in {"publish", "count"}
                                                       /\ dst[p] = t})

(* A slot on the free queue is in nobody's hands: it has an empty mailbox  *)
(* and no context, and its last thread has nothing left to do with it.     *)
FreeSlotUnused ==
    \A s \in quIdxFree :
        /\ mqIn[s] = << >> /\ exclusiveCtx[s] = NoThread
        /\ \A t \in Threads : home[t] = s => tpc[t] \in {"none", "remove", "ended"}

(* A context leaves the manager's list exactly when its thread ends: the   *)
(* list never keeps one that was deleted, which exclusive_mgr_waitalldone  *)
(* would wait for without end.                                             *)
ListedUntilEnd ==
    /\ \A t \in plkCtx : tpc[t] # "ended"
    /\ \A t \in 1 .. created : tpc[t] # "ended" =>
          t \in plkCtx \/ \E p \in Senders : made[p] = t /\ spc[p] = "list"

(* A thread that sleeps beside readable mail has missed a notify, or is    *)
(* about to be notified.                                                   *)
SleepsOnlyByMissedNotify ==
    \A t \in Threads :
        tpc[t] = "sleep" /\ Readable(mqIn[home[t]]) =>
            missed[t] \/ \E p \in Inside : dst[p] = t

(* Slots and contexts belong to one service at a time.                     *)
SlotOfOneService == ContextAliveUnderSender /\ FreeSlotUnused /\ ListedUntilEnd
(* The thread sleeps when it may, and its count of mail is right.          *)
SleepsAsCounted == MsgNumIsMail /\ SleepsOnlyByMissedNotify

(* A thread that sleeps for good because it missed a notify. *)
Stuck(t) == tpc[t] = "sleep" /\ missed[t]

(* Shutdown ends every thread and the worker that waits for them, unless a *)
(* thread missed its notify, or joined the list too late to be told.       *)
Late(t) == t \in plkCtx /\ loop[t]
ShutdownCompletes ==
    shut = "done" ~>
        (waiter = "done" \/ fault # None \/ \E t \in Threads : Stuck(t) \/ Late(t))
=============================================================================
