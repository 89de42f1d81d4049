----------------------------- MODULE Scheduler -----------------------------
(***************************************************************************)
(* How a message makes a service run (pps_worker.cpp, pps_service.cpp).    *)
(*                                                                         *)
(* A sender -- the timer and net threads, an exclusive service's thread,   *)
(* another worker inside a callback -- pushes into the service's mailbox   *)
(* and, when it wins the compare-and-swap of onTask, queues the service on *)
(* a worker.  A worker pops its own queue or steals, runs the service's    *)
(* callbacks (proc_svc), and then either requeues the service or takes it  *)
(* off task and looks at the mailbox once more.  Workers that find nothing *)
(* sleep on one condition variable.  svc_exit, do_svc_free and             *)
(* worker_shutdown are part of the same loops and are modelled with them.  *)
(*                                                                         *)
(* Every access to an atomic or to a lock-free queue is one step.  The     *)
(* mailbox is the abstraction that MpscQueue justifies: a FIFO of entries, *)
(* each reserved first and readable once its producer has published it.    *)
(* mqTimer and mqNet follow the same protocol and are one mailbox with     *)
(* mqIn.  A message's content is left out (Mailbox tells who may read it). *)
(*                                                                         *)
(* Assertions are those of the Debug build: a failed one, or a call        *)
(* through a null callback, stops the process, recorded in fault.          *)
(***************************************************************************)
EXTENDS Integers, Sequences, FiniteSets

CONSTANTS WorkerNum,    \* config->worker_num
          Services,     \* the service slots in use, all started
          Senders,      \* threads that call svc_sendmsg with no caller
          MqInCap,      \* capacity of a mailbox
          StepMax,      \* SVC_STEP_PROCMSG_MAX
          CountMod,     \* totalWorkerTask counts modulo this (2^32)
          MaxSends,     \* bound: calls of svc_sendmsg altogether
          MaxParked,    \* bound: messages parked in a service's mqWaitSend
          Exiting,      \* services that may call svc_exit
          MayShutdown   \* whether worker_shutdown may be called

Workers  == 0 .. (WorkerNum - 1)
NoWorker == -1       \* lastWorker before the first task
Sentinel == "shutdown"   \* the task -1 of worker_shutdown
Ready    == "ready"  \* a published mailbox entry
None     == "none"

ASSUME WorkerNumAssumption == WorkerNum \in Nat \ {0}
ASSUME StepMaxAssumption == StepMax \in Nat \ {0, 1}
ASSUME CountModAssumption == CountMod \in Nat /\ CountMod > WorkerNum + 1
ASSUME BoundsAssumption == MaxSends \in Nat /\ MaxParked \in Nat /\ MqInCap \in Nat \ {0}
ASSUME ExitingAssumption == Exiting \subseteq Services
ASSUME NamesAssumption == {Sentinel, None} \intersect Services = {} /\ Ready \notin Senders
ASSUME MayShutdownAssumption == MayShutdown \in BOOLEAN
ASSUME ThreadsAssumption == IsFiniteSet(Senders) /\ IsFiniteSet(Services)

VARIABLES
  (* struct pps_service *)
  onTask, exitCalled, svcCnt, calledCnt, mqIn, waitSendMsgNum, lastWorker,
  cbSet,           \* ud.cbOnMsg is not null
  (* struct pipes *)
  queTask, totalWorkerTask, idleWorkerNum, svcWorkerCnt,
  quIdxFree,       \* how often svc_back has put the slot on the free queue
  (* a worker's locals *)
  wpc, cur, handled, inMsgLeft, stealCnt, lastSteal, idleSeen,
  svcWaitFree,     \* how often each service is in plkSvcWaitFree
  (* a sender's locals *)
  spc, dst, totalSeen,
  sends,           \* calls so far
  (* the thread in worker_shutdown *)
  shut,            \* sentinels pushed so far
  (* the process *)
  fault,           \* the assertion or null call that stopped it, or None
  lostNotify       \* a notify fell between a worker's last look and its wait, or
                   \* another thread kept a worker from seeing its sentinel

serviceVars == <<onTask, exitCalled, svcCnt, calledCnt, mqIn, waitSendMsgNum,
                 lastWorker, cbSet, quIdxFree>>
countVars   == <<totalWorkerTask, idleWorkerNum, svcWorkerCnt>>
runVars     == <<cur, handled, inMsgLeft>>
searchVars  == <<stealCnt, lastSteal, idleSeen, svcWaitFree>>
workerVars  == <<wpc, runVars, searchVars>>
senderVars  == <<spc, dst, totalSeen, sends>>
processVars == <<shut, fault, lostNotify>>
vars == <<serviceVars, queTask, countVars, workerVars, senderVars, processVars>>

(* The entry a consumer reads next is published. *)
Readable(q) == q # << >> /\ Head(q) = Ready

(* mpsc_pop until it fails: everything up to the first unpublished entry. *)
DropReadable(q) ==
    LET pending == {i \in DOMAIN q : q[i] # Ready}
    IN IF pending = {} THEN << >>
       ELSE SubSeq(q, CHOOSE i \in pending : \A j \in pending : i <= j, Len(q))

(* totalTask > workerNum - idleNum, on uint32_t. *)
MoreTasksThanBusy(total, idle) == (total % CountMod) > (WorkerNum - idle)

(* An empty plkSvcWaitFree. *)
NoService == [s \in Services |-> 0]

(* The workers in condNotifyWorker.wait. *)
asleep == {w \in Workers : wpc[w] = "sleep"}

SenderAt(p, label) == fault = None /\ spc[p] = label
WorkerAt(w, label) == fault = None /\ wpc[w] = label
SenderGoto(p, label) == spc' = [spc EXCEPT ![p] = label]
WorkerGoto(w, label) == wpc' = [wpc EXCEPT ![w] = label]

----------------------------------------------------------------------------
(* Wrong variants of steps and helpers below, each a bug of the kind this  *)
(* code could have.  No specification uses them: they show that the        *)
(* properties at the end of the module can fail.                           *)

(* The idle workers are not taken off the workers that are busy. *)
SendNotifyTestIgnoresIdle(p) ==
    /\ SenderAt(p, "notify")
    /\ SenderGoto(p, IF idleWorkerNum > 0 /\ MoreTasksThanBusy(totalSeen[p], 0)
                     THEN "wake" ELSE "end")
    /\ totalSeen' = [totalSeen EXCEPT ![p] = 0]
    /\ UNCHANGED <<serviceVars, queTask, countVars, workerVars, dst, sends, processVars>>

(* The mailbox is not looked at again. *)
RecheckNever(w) ==
    /\ WorkerAt(w, "recheck")
    /\ WorkerGoto(w, "uncount")
    /\ UNCHANGED <<serviceVars, queTask, countVars, runVars, searchVars, senderVars,
                   processVars>>

(* The result of the compare-and-swap is not looked at. *)
RetakeAnyway(w) ==
    /\ WorkerAt(w, "retake")
    /\ onTask' = [onTask EXCEPT ![cur[w]] = TRUE]
    /\ WorkerGoto(w, "requeue")
    /\ UNCHANGED <<exitCalled, svcCnt, calledCnt, mqIn, waitSendMsgNum, lastWorker,
                   cbSet, quIdxFree, queTask, countVars, runVars, searchVars, senderVars,
                   processVars>>

(* The service is not kept for later. *)
FreeLaterForgets(w) ==
    /\ WorkerAt(w, "free") /\ calledCnt[cur[w]] # 0
    /\ cur' = [cur EXCEPT ![w] = None]
    /\ WorkerGoto(w, "top")
    /\ UNCHANGED <<serviceVars, queTask, countVars, handled, inMsgLeft, searchVars,
                   senderVars, processVars>>

(* notify_one where notify_all is called. *)
ShutdownNotifyOne ==
    /\ fault = None /\ shut = WorkerNum
    /\ IF asleep = {} THEN UNCHANGED wpc ELSE \E w \in asleep : WorkerGoto(w, "unidle")
    /\ lostNotify' = (lostNotify \/ \E w \in Workers :
                                      wpc[w] \in {"steal", "idle", "checkidle", "wait"})
    /\ shut' = shut + 1
    /\ UNCHANGED <<serviceVars, queTask, countVars, runVars, searchVars, senderVars, fault>>

----------------------------------------------------------------------------
(* do_svc_free of the services in freed, as often as it says: drop their   *)
(* messages, clear the callbacks, give the slots back.  A service freed    *)
(* before has no callback left to tell it that it has gone.                *)
DoSvcFree(freed) ==
    IF \A s \in Services : freed[s] <= (IF cbSet[s] THEN 1 ELSE 0)
    THEN /\ mqIn' = [s \in Services |->
                       IF freed[s] = 1 THEN DropReadable(mqIn[s]) ELSE mqIn[s]]
         /\ cbSet' = [s \in Services |-> cbSet[s] /\ freed[s] = 0]
         /\ quIdxFree' = [s \in Services |-> quIdxFree[s] + freed[s]]
         /\ fault' = None
    ELSE /\ fault' = "null callback"
         /\ UNCHANGED <<mqIn, cbSet, quIdxFree>>

Init ==
    /\ onTask = [s \in Services |-> FALSE]
    /\ exitCalled = [s \in Services |-> FALSE]
    /\ svcCnt = [s \in Services |-> 0]
    /\ calledCnt = [s \in Services |-> 0]
    /\ mqIn = [s \in Services |-> << >>]
    /\ waitSendMsgNum = [s \in Services |-> 0]
    /\ lastWorker = [s \in Services |-> NoWorker]
    /\ cbSet = [s \in Services |-> TRUE]
    /\ queTask = [w \in Workers |-> << >>]
    /\ totalWorkerTask = 0
    /\ idleWorkerNum = 0
    /\ svcWorkerCnt = 0
    /\ quIdxFree = [s \in Services |-> 0]
    /\ wpc = [w \in Workers |-> "top"]
    /\ cur = [w \in Workers |-> None]
    /\ handled = [w \in Workers |-> 0]
    /\ inMsgLeft = [w \in Workers |-> 0]
    /\ stealCnt = [w \in Workers |-> 0]
    /\ lastSteal = [w \in Workers |-> 0]
    /\ idleSeen = [w \in Workers |-> 0]
    /\ svcWaitFree = [w \in Workers |-> NoService]
    /\ spc = [p \in Senders |-> "idle"]
    /\ dst = [p \in Senders |-> None]
    /\ totalSeen = [p \in Senders |-> 0]
    /\ sends = 0
    /\ shut = 0
    /\ fault = None
    /\ lostNotify = FALSE

----------------------------------------------------------------------------
(* svc_sendmsg and worker_add_task(isNew), run by a sender. *)

SendBegin(p, s) ==                      \* callsvc_begin
    /\ SenderAt(p, "idle") /\ sends < MaxSends
    /\ sends' = sends + 1
    /\ dst' = [dst EXCEPT ![p] = s]
    /\ calledCnt' = [calledCnt EXCEPT ![s] = @ + 1]
    /\ SenderGoto(p, "check")
    /\ UNCHANGED <<onTask, exitCalled, svcCnt, mqIn, waitSendMsgNum, lastWorker,
                   cbSet, quIdxFree, queTask, countVars, workerVars, totalSeen,
                   processVars>>

(* msg->to_cnt is the count the service was created with. *)
SendCheck(p) ==
    /\ SenderAt(p, "check")
    /\ SenderGoto(p, IF svcCnt[dst[p]] # 0 THEN "end" ELSE "push")
    /\ UNCHANGED <<serviceVars, queTask, countVars, workerVars, dst, totalSeen,
                   sends, processVars>>

SendPush(p) ==                          \* mpsc_push_ptr takes its place
    /\ SenderAt(p, "push") /\ Len(mqIn[dst[p]]) < MqInCap
    /\ mqIn' = [mqIn EXCEPT ![dst[p]] = Append(@, p)]
    /\ SenderGoto(p, "publish")
    /\ UNCHANGED <<onTask, exitCalled, svcCnt, calledCnt, waitSendMsgNum, lastWorker,
                   cbSet, quIdxFree, queTask, countVars, workerVars, dst, totalSeen,
                   sends, processVars>>

SendFull(p) ==                          \* mqIn is full, return 0
    /\ SenderAt(p, "push") /\ Len(mqIn[dst[p]]) >= MqInCap
    /\ SenderGoto(p, "end")
    /\ UNCHANGED <<serviceVars, queTask, countVars, workerVars, dst, totalSeen,
                   sends, processVars>>

SendPublish(p) ==                       \* canRead.store(true)
    /\ SenderAt(p, "publish")
    /\ mqIn' = [mqIn EXCEPT ![dst[p]] =
                  [i \in DOMAIN @ |-> IF @[i] = p THEN Ready ELSE @[i]]]
    /\ SenderGoto(p, "cas")
    /\ UNCHANGED <<onTask, exitCalled, svcCnt, calledCnt, waitSendMsgNum, lastWorker,
                   cbSet, quIdxFree, queTask, countVars, workerVars, dst, totalSeen,
                   sends, processVars>>

SendCas(p) ==                           \* onTask.compare_exchange_strong
    /\ SenderAt(p, "cas")
    /\ onTask' = [onTask EXCEPT ![dst[p]] = TRUE]
    /\ SenderGoto(p, IF onTask[dst[p]] THEN "end" ELSE "enqueue")
    /\ UNCHANGED <<exitCalled, svcCnt, calledCnt, mqIn, waitSendMsgNum, lastWorker,
                   cbSet, quIdxFree, queTask, countVars, workerVars, dst, totalSeen,
                   sends, processVars>>

(* The worker that had the service last, or the workers in turn. *)
QueueFor(s) == IF lastWorker[s] < 0 THEN svcWorkerCnt % WorkerNum ELSE lastWorker[s]

(* Only the winner of onTask is here, so lastWorker has no second writer   *)
(* but the worker that steals the task.                                    *)
SendEnqueue(p) ==
    LET s == dst[p]
        w == QueueFor(s)
    IN /\ SenderAt(p, "enqueue")
       /\ svcWorkerCnt' = IF lastWorker[s] < 0 THEN svcWorkerCnt + 1 ELSE svcWorkerCnt
       /\ lastWorker' = [lastWorker EXCEPT ![s] = w]
       /\ queTask' = [queTask EXCEPT ![w] = Append(@, s)]
       /\ SenderGoto(p, "count")
       /\ UNCHANGED <<onTask, exitCalled, svcCnt, calledCnt, mqIn, waitSendMsgNum,
                      cbSet, quIdxFree, totalWorkerTask, idleWorkerNum, workerVars,
                      dst, totalSeen, sends, processVars>>

SendCount(p) ==                         \* totalWorkerTask.fetch_add(1) + 1
    /\ SenderAt(p, "count")
    /\ totalWorkerTask' = totalWorkerTask + 1
    /\ totalSeen' = [totalSeen EXCEPT ![p] = totalWorkerTask + 1]
    /\ SenderGoto(p, "notify")
    /\ UNCHANGED <<serviceVars, queTask, idleWorkerNum, svcWorkerCnt, workerVars,
                   dst, sends, processVars>>

SendNotifyTest(p) ==
    /\ SenderAt(p, "notify")
    /\ SenderGoto(p, IF idleWorkerNum > 0 /\ MoreTasksThanBusy(totalSeen[p], idleWorkerNum)
                     THEN "wake" ELSE "end")
    /\ totalSeen' = [totalSeen EXCEPT ![p] = 0]
    /\ UNCHANGED <<serviceVars, queTask, countVars, workerVars, dst, sends, processVars>>

SendWake(p, w) ==                       \* notify_one with a worker waiting
    /\ SenderAt(p, "wake") /\ w \in asleep
    /\ WorkerGoto(w, "unidle")
    /\ SenderGoto(p, "end")
    /\ UNCHANGED <<serviceVars, queTask, countVars, runVars, searchVars, dst,
                   totalSeen, sends, processVars>>

SendWakeNobody(p) ==                    \* notify_one with none
    /\ SenderAt(p, "wake") /\ asleep = {}
    /\ lostNotify' = (lostNotify \/ \E w \in Workers : wpc[w] = "wait")
    /\ SenderGoto(p, "end")
    /\ UNCHANGED <<serviceVars, queTask, countVars, workerVars, dst, totalSeen,
                   sends, shut, fault>>

SendEnd(p) ==                           \* callsvc_end
    /\ SenderAt(p, "end")
    /\ calledCnt' = [calledCnt EXCEPT ![dst[p]] = @ - 1]
    /\ dst' = [dst EXCEPT ![p] = None]
    /\ SenderGoto(p, "idle")
    /\ UNCHANGED <<onTask, exitCalled, svcCnt, mqIn, waitSendMsgNum, lastWorker,
                   cbSet, quIdxFree, queTask, countVars, workerVars, totalSeen, sends,
                   processVars>>

----------------------------------------------------------------------------
(* worker_thread: look for a task, or sleep. *)

(* One pass over plkSvcWaitFree: those that nobody calls are freed. *)
ScanWaitFree(w) ==
    /\ WorkerAt(w, "top") /\ svcWaitFree[w] # NoService
    /\ DoSvcFree([s \in Services |-> IF calledCnt[s] = 0 THEN svcWaitFree[w][s] ELSE 0])
    /\ svcWaitFree' = [svcWaitFree EXCEPT ![w] =
                         [s \in Services |-> IF calledCnt[s] = 0 THEN 0 ELSE @[s]]]
    /\ WorkerGoto(w, "pop")
    /\ UNCHANGED <<onTask, exitCalled, svcCnt, calledCnt, waitSendMsgNum, lastWorker,
                   queTask, countVars, runVars, stealCnt, lastSteal, idleSeen, senderVars,
                   shut, lostNotify>>

AtPop(w) == WorkerAt(w, "pop") \/ (WorkerAt(w, "top") /\ svcWaitFree[w] = NoService)

PopTask(w) ==
    /\ AtPop(w) /\ queTask[w] # << >> /\ Head(queTask[w]) # Sentinel
    /\ cur' = [cur EXCEPT ![w] = Head(queTask[w])]
    /\ queTask' = [queTask EXCEPT ![w] = Tail(@)]
    /\ WorkerGoto(w, "proc")
    /\ UNCHANGED <<serviceVars, countVars, handled, inMsgLeft, searchVars, senderVars,
                   processVars>>

PopSentinel(w) ==                       \* svcIdx == -1, leave the loop
    /\ AtPop(w) /\ queTask[w] # << >> /\ Head(queTask[w]) = Sentinel
    /\ queTask' = [queTask EXCEPT ![w] = Tail(@)]
    /\ WorkerGoto(w, "exited")
    /\ UNCHANGED <<serviceVars, countVars, runVars, searchVars, senderVars, processVars>>

(* mpmc_pop answers 0 beside a task when another thread is inside it, or   *)
(* when a push that came before the task's is not published yet.           *)
Contended(w, v) ==
    \/ \E x \in Workers \ {w} : IF x = v THEN AtPop(x) \/ WorkerAt(x, "requeue")
                                         ELSE WorkerAt(x, "steal") /\ lastSteal[x] = v
    \/ \E p \in Senders : spc[p] = "enqueue" /\ QueueFor(dst[p]) = v

PopNothing(w) ==
    /\ AtPop(w) /\ (queTask[w] = << >> \/ Contended(w, w))
    /\ lostNotify' = (lostNotify \/ \E n \in DOMAIN queTask[w] : queTask[w][n] = Sentinel)
    /\ WorkerGoto(w, "steal")
    /\ UNCHANGED <<serviceVars, queTask, countVars, runVars, searchVars, senderVars, shut,
                   fault>>

(* steal_task looks at one queue after the other, its own left out.        *)
CanSteal(w) == lastSteal[w] # w /\ queTask[lastSteal[w]] # << >>
After(v) == (v + 1) % WorkerNum
NextSteal(w) == lastSteal' = [lastSteal EXCEPT ![w] = After(@)]

StealNothing(w) ==                      \* after the last one, idle or scan again
    LET last == stealCnt[w] + 1 = WorkerNum
    IN /\ WorkerAt(w, "steal") /\ (~CanSteal(w) \/ Contended(w, lastSteal[w]))
       /\ NextSteal(w)
       /\ stealCnt' = [stealCnt EXCEPT ![w] = IF last THEN 0 ELSE @ + 1]
       /\ WorkerGoto(w, IF ~last THEN "steal"
                        ELSE IF svcWaitFree[w] = NoService THEN "idle" ELSE "top")
       /\ UNCHANGED <<serviceVars, queTask, countVars, runVars, idleSeen, svcWaitFree,
                      senderVars, processVars>>

StealTask(w) ==
    LET s == Head(queTask[lastSteal[w]])
    IN /\ WorkerAt(w, "steal") /\ CanSteal(w) /\ s # Sentinel
       /\ queTask' = [queTask EXCEPT ![lastSteal[w]] = Tail(@)]
       /\ NextSteal(w)
       /\ stealCnt' = [stealCnt EXCEPT ![w] = 0]
       /\ lastWorker' = [lastWorker EXCEPT ![s] = w]
       /\ cur' = [cur EXCEPT ![w] = s]
       /\ WorkerGoto(w, "proc")
       /\ UNCHANGED <<onTask, exitCalled, svcCnt, calledCnt, mqIn, waitSendMsgNum, cbSet,
                      quIdxFree, countVars, handled, inMsgLeft, idleSeen, svcWaitFree,
                      senderVars, processVars>>

StealSentinel(w) ==                     \* assert svcmgr_get_svc(svcMgr, -1)
    /\ WorkerAt(w, "steal") /\ CanSteal(w) /\ Head(queTask[lastSteal[w]]) = Sentinel
    /\ queTask' = [queTask EXCEPT ![lastSteal[w]] = Tail(@)]
    /\ fault' = "no service"
    /\ UNCHANGED <<serviceVars, countVars, workerVars, senderVars, shut, lostNotify>>

CountIdle(w) ==                         \* idleWorkerNum.fetch_add(1) + 1
    /\ WorkerAt(w, "idle")
    /\ idleWorkerNum' = idleWorkerNum + 1
    /\ idleSeen' = [idleSeen EXCEPT ![w] = idleWorkerNum + 1]
    /\ WorkerGoto(w, "checkidle")
    /\ UNCHANGED <<serviceVars, queTask, totalWorkerTask, svcWorkerCnt, runVars, stealCnt,
                   lastSteal, svcWaitFree, senderVars, processVars>>

CheckIdle(w) ==                         \* totalTask <= workerNum - idleNum
    /\ WorkerAt(w, "checkidle")
    /\ WorkerGoto(w, IF MoreTasksThanBusy(totalWorkerTask, idleSeen[w])
                     THEN "unidle" ELSE "wait")
    /\ idleSeen' = [idleSeen EXCEPT ![w] = 0]
    /\ UNCHANGED <<serviceVars, queTask, countVars, runVars, stealCnt, lastSteal,
                   svcWaitFree, senderVars, processVars>>

Wait(w) ==                              \* lock, condNotifyWorker.wait
    /\ WorkerAt(w, "wait")
    /\ WorkerGoto(w, "sleep")
    /\ UNCHANGED <<serviceVars, queTask, countVars, runVars, searchVars, senderVars,
                   processVars>>

SpuriousWake(w) ==                      \* which a condition_variable may do
    /\ WorkerAt(w, "sleep")
    /\ WorkerGoto(w, "unidle")
    /\ UNCHANGED <<serviceVars, queTask, countVars, runVars, searchVars, senderVars,
                   processVars>>

Unidle(w) ==                            \* idleWorkerNum.fetch_sub(1)
    /\ WorkerAt(w, "unidle")
    /\ idleWorkerNum' = idleWorkerNum - 1
    /\ WorkerGoto(w, "top")
    /\ UNCHANGED <<serviceVars, queTask, totalWorkerTask, svcWorkerCnt, runVars,
                   searchVars, senderVars, processVars>>

----------------------------------------------------------------------------
(* proc_svc and what worker_thread does after it. *)

(* proc_svc calls the callback of the next message; outcome tells whether  *)
(* it called svc_exit, or had a message parked in mqWaitSend.  It goes on  *)
(* to the next message unless this was the only one counted when it was    *)
(* the first, or the last of the step.                                     *)
HandleMsg(w, outcome) ==
    LET s    == cur[w]
        left == Len(mqIn[s]) - 1
        done == \/ outcome = "exits"
                \/ handled[w] = 0 /\ left = 0
                \/ handled[w] + 1 = StepMax
    IN /\ WorkerAt(w, "proc") /\ ~exitCalled[s] /\ Readable(mqIn[s])
       /\ \/ outcome = "returns"
          \/ outcome = "exits" /\ s \in Exiting
          \/ outcome = "parks" /\ waitSendMsgNum[s] < MaxParked
       /\ mqIn' = [mqIn EXCEPT ![s] = Tail(@)]
       /\ exitCalled' = [exitCalled EXCEPT ![s] = (outcome = "exits")]
       /\ svcCnt' = [svcCnt EXCEPT ![s] = @ + (IF outcome = "exits" THEN 1 ELSE 0)]
       /\ waitSendMsgNum' =
             [waitSendMsgNum EXCEPT ![s] = @ + (IF outcome = "parks" THEN 1 ELSE 0)]
       /\ handled' = [handled EXCEPT ![w] = @ + 1]
       /\ inMsgLeft' = [inMsgLeft EXCEPT ![w] = left]
       /\ WorkerGoto(w, IF done THEN "tail" ELSE "proc")
       /\ UNCHANGED <<onTask, calledCnt, lastWorker, cbSet, quIdxFree, queTask, countVars,
                      cur, searchVars, senderVars, processVars>>

NoMsg(w) ==                             \* nothing readable, or exited
    /\ WorkerAt(w, "proc")
    /\ exitCalled[cur[w]] \/ ~Readable(mqIn[cur[w]])
    /\ inMsgLeft' = [inMsgLeft EXCEPT ![w] = 0]
    /\ WorkerGoto(w, "tail")
    /\ UNCHANGED <<serviceVars, queTask, countVars, cur, handled, searchVars, senderVars,
                   processVars>>

(* The parked messages: up to StepMax of them are sent or, by an exited    *)
(* service, destroyed.  (What they are, and who gets them, is left out.)   *)
RetryWaitSend(w, n) ==
    LET s   == cur[w]
        biz == (~exitCalled[s] /\ inMsgLeft[w] > 0) \/ n > 0
    IN /\ WorkerAt(w, "tail")
       /\ n <= waitSendMsgNum[s] /\ n >= waitSendMsgNum[s] - StepMax
       /\ waitSendMsgNum' = [waitSendMsgNum EXCEPT ![s] = n]
       /\ handled' = [handled EXCEPT ![w] = 0]
       /\ inMsgLeft' = [inMsgLeft EXCEPT ![w] = 0]
       /\ WorkerGoto(w, IF biz THEN "requeue" ELSE "off")
       /\ UNCHANGED <<onTask, exitCalled, svcCnt, calledCnt, mqIn, lastWorker, cbSet,
                      quIdxFree, queTask, countVars, cur, searchVars, senderVars,
                      processVars>>

(* worker_add_task of a task the worker has. *)
Requeue(w) ==
    /\ WorkerAt(w, "requeue")
    /\ queTask' = [queTask EXCEPT ![w] = Append(@, cur[w])]
    /\ cur' = [cur EXCEPT ![w] = None]
    /\ WorkerGoto(w, "top")
    /\ UNCHANGED <<serviceVars, countVars, handled, inMsgLeft, searchVars, senderVars,
                   processVars>>

OffTask(w) ==                           \* assert onTask.exchange(false)
    /\ WorkerAt(w, "off")
    /\ onTask' = [onTask EXCEPT ![cur[w]] = FALSE]
    /\ fault' = IF onTask[cur[w]] THEN None ELSE "not on task"
    /\ WorkerGoto(w, "recheck")
    /\ UNCHANGED <<exitCalled, svcCnt, calledCnt, mqIn, waitSendMsgNum, lastWorker, cbSet,
                   quIdxFree, queTask, countVars, runVars, searchVars, senderVars, shut,
                   lostNotify>>

Recheck(w) ==                           \* mpsc_size(mqIn) > 0 ?
    /\ WorkerAt(w, "recheck")
    /\ WorkerGoto(w, IF ~exitCalled[cur[w]] /\ mqIn[cur[w]] # << >>
                     THEN "retake" ELSE "uncount")
    /\ UNCHANGED <<serviceVars, queTask, countVars, runVars, searchVars, senderVars,
                   processVars>>

(* Somebody else may have put it on task again; nothing is undone then.    *)
Retake(w) ==
    LET won == ~onTask[cur[w]]
    IN /\ WorkerAt(w, "retake")
       /\ onTask' = [onTask EXCEPT ![cur[w]] = TRUE]
       /\ cur' = IF won THEN cur ELSE [cur EXCEPT ![w] = None]
       /\ WorkerGoto(w, IF won THEN "requeue" ELSE "top")
       /\ UNCHANGED <<exitCalled, svcCnt, calledCnt, mqIn, waitSendMsgNum, lastWorker,
                      cbSet, quIdxFree, queTask, countVars, handled, inMsgLeft,
                      searchVars, senderVars, processVars>>

Uncount(w) ==                           \* totalWorkerTask.fetch_sub(1)
    LET exited == exitCalled[cur[w]]
    IN /\ WorkerAt(w, "uncount")
       /\ totalWorkerTask' = totalWorkerTask - 1
       /\ cur' = IF exited THEN cur ELSE [cur EXCEPT ![w] = None]
       /\ WorkerGoto(w, IF exited THEN "free" ELSE "top")
       /\ UNCHANGED <<serviceVars, queTask, idleWorkerNum, svcWorkerCnt, handled,
                      inMsgLeft, searchVars, senderVars, processVars>>

FreeNow(w) ==                           \* calledCnt == 0, can free now
    /\ WorkerAt(w, "free") /\ calledCnt[cur[w]] = 0
    /\ DoSvcFree([NoService EXCEPT ![cur[w]] = 1])
    /\ cur' = [cur EXCEPT ![w] = None]
    /\ WorkerGoto(w, "top")
    /\ UNCHANGED <<onTask, exitCalled, svcCnt, calledCnt, waitSendMsgNum, lastWorker,
                   queTask, countVars, handled, inMsgLeft, searchVars, senderVars, shut,
                   lostNotify>>

FreeLater(w) ==                         \* add to waitfree queue
    /\ WorkerAt(w, "free") /\ calledCnt[cur[w]] # 0
    /\ svcWaitFree' = [svcWaitFree EXCEPT ![w][cur[w]] = @ + 1]
    /\ cur' = [cur EXCEPT ![w] = None]
    /\ WorkerGoto(w, "top")
    /\ UNCHANGED <<serviceVars, queTask, countVars, handled, inMsgLeft, stealCnt,
                   lastSteal, idleSeen, senderVars, processVars>>

----------------------------------------------------------------------------
(* worker_shutdown *)

(* Between its look at its own queue and its wait; the sentinels are not   *)
(* in totalWorkerTask, so nothing in between keeps it from sleeping.       *)
LookedAtQueue(w) == wpc[w] \in {"steal", "idle", "checkidle", "wait"}

ShutdownPush ==
    /\ MayShutdown /\ fault = None /\ shut < WorkerNum
    /\ queTask' = [queTask EXCEPT ![shut] = Append(@, Sentinel)]
    /\ shut' = shut + 1
    /\ UNCHANGED <<serviceVars, countVars, workerVars, senderVars, fault, lostNotify>>

ShutdownNotify ==                       \* notify_all
    /\ fault = None /\ shut = WorkerNum
    /\ wpc' = [w \in Workers |-> IF w \in asleep THEN "unidle" ELSE wpc[w]]
    /\ lostNotify' = (lostNotify \/ \E w \in Workers : LookedAtQueue(w))
    /\ shut' = shut + 1
    /\ UNCHANGED <<serviceVars, queTask, countVars, runVars, searchVars, senderVars, fault>>

----------------------------------------------------------------------------
Outcomes == {"returns", "exits", "parks"}

SenderStep(p) ==
    \/ SendCheck(p) \/ SendPush(p) \/ SendFull(p) \/ SendPublish(p) \/ SendCas(p)
    \/ SendEnqueue(p) \/ SendCount(p) \/ SendNotifyTest(p)
    \/ (\E w \in Workers : SendWake(p, w)) \/ SendWakeNobody(p) \/ SendEnd(p)

(* What worker_thread does by itself; a sleeping worker does nothing. *)
WorkerStep(w) ==
    \/ ScanWaitFree(w) \/ PopTask(w) \/ PopSentinel(w) \/ PopNothing(w)
    \/ StealNothing(w) \/ StealTask(w) \/ StealSentinel(w)
    \/ CountIdle(w) \/ CheckIdle(w) \/ Wait(w) \/ Unidle(w)
    \/ (\E outcome \in Outcomes : HandleMsg(w, outcome)) \/ NoMsg(w)
    \/ (\E n \in 0 .. MaxParked : RetryWaitSend(w, n))
    \/ Requeue(w) \/ OffTask(w) \/ Recheck(w) \/ Retake(w) \/ Uncount(w)
    \/ FreeNow(w) \/ FreeLater(w)

Next ==
    \/ \E p \in Senders, s \in Services : SendBegin(p, s)
    \/ \E p \in Senders : SenderStep(p)
    \/ \E w \in Workers : WorkerStep(w)
    \/ \E w \in Workers : SpuriousWake(w)
    \/ ShutdownPush
    \/ ShutdownNotify

Spec == Init /\ [][Next]_vars

(* The operating system runs every thread that can run.  Nobody is obliged *)
(* to send, to shut down, or to wake a worker without a notify.  Threads   *)
(* do not keep each other out of the task queues for ever: the one that is *)
(* inside mpmc_pop takes the task.                                         *)
TakeTask == \E w \in Workers :
    PopTask(w) \/ PopSentinel(w) \/ StealTask(w) \/ StealSentinel(w)
FairSpec ==
    /\ Spec
    /\ SF_vars(TakeTask)
    /\ \A p \in Senders : WF_vars(SenderStep(p))
    /\ \A w \in Workers : WF_vars(WorkerStep(w))
    /\ WF_vars((shut > 0 /\ ShutdownPush) \/ ShutdownNotify)

----------------------------------------------------------------------------
Places == {"top", "pop", "steal", "idle", "checkidle", "wait", "sleep", "unidle",
           "proc", "tail", "requeue", "off", "recheck", "retake", "uncount", "free",
           "exited"}
SenderPlaces == {"idle", "check", "push", "publish", "cas", "enqueue", "count", "notify",
                 "wake", "end"}

(* Every variable has its type; the workers counted idle are at most all.  *)
TypeOK ==
    /\ onTask \in [Services -> BOOLEAN]
    /\ exitCalled \in [Services -> BOOLEAN]
    /\ cbSet \in [Services -> BOOLEAN]
    /\ svcCnt \in [Services -> Int]
    /\ calledCnt \in [Services -> Int]
    /\ mqIn \in [Services -> Seq(Senders \union {Ready})]
    /\ waitSendMsgNum \in [Services -> Int]
    /\ quIdxFree \in [Services -> Nat]
    /\ lastWorker \in [Services -> Workers \union {NoWorker}]
    /\ queTask \in [Workers -> Seq(Services \union {Sentinel})]
    /\ totalWorkerTask \in Int
    /\ idleWorkerNum \in 0 .. WorkerNum
    /\ svcWorkerCnt \in Nat
    /\ wpc \in [Workers -> Places]
    /\ cur \in [Workers -> Services \union {None}]
    /\ handled \in [Workers -> Nat]
    /\ inMsgLeft \in [Workers -> Int]
    /\ stealCnt \in [Workers -> Nat]
    /\ lastSteal \in [Workers -> Workers]
    /\ idleSeen \in [Workers -> Int]
    /\ svcWaitFree \in [Workers -> [Services -> Nat]]
    /\ spc \in [Senders -> SenderPlaces]
    /\ dst \in [Senders -> Services \union {None}]
    /\ totalSeen \in [Senders -> Int]
    /\ sends \in Nat
    /\ shut \in Nat
    /\ fault \in {None, "null callback", "no service", "not on task"}
    /\ lostNotify \in BOOLEAN

(* Where a service's task is: the entries of the workers' queues, the      *)
(* workers that run it or are about to requeue it, and the sender that has *)
(* won onTask and not queued it yet.                                       *)
Holding == {"proc", "tail", "requeue", "off"}
Tasks(s) ==
    (UNION {{<<"queued", w, i>> : i \in {j \in DOMAIN queTask[w] : queTask[w][j] = s}}
              : w \in Workers})
    \union {<<"held", w>> : w \in {v \in Workers : wpc[v] \in Holding /\ cur[v] = s}}
    \union {<<"sent", p>> : p \in {q \in Senders : spc[q] = "enqueue" /\ dst[q] = s}}

(* No two workers run callbacks of one service at the same time: the actor *)
(* guarantee every service and the whole Lua layer rely on.                *)
SingleRunner ==
    \A v, w \in Workers :
        v # w /\ {wpc[v], wpc[w]} \subseteq Holding => cur[v] # cur[w]

(* onTask tells exactly whether the service has a task, and it never has   *)
(* two: no task is lost between queues, thieves, requeues and the sender   *)
(* that adds it, and none is duplicated by two that add it at once.        *)
OneTask ==
    \A s \in Services : IF onTask[s] THEN \E t \in Tasks(s) : Tasks(s) = {t}
                                     ELSE Tasks(s) = {}

(* Mail in the mailbox of a service that has no task is always about to be *)
(* noticed: by its sender, which still has to try onTask, or by the worker *)
(* that has taken the service off task and looks at the mailbox again.     *)
NoStrandedMail ==
    \A s \in Services :
        mqIn[s] # << >> /\ ~onTask[s] /\ ~exitCalled[s] =>
            \/ \E p \in Senders : spc[p] \in {"publish", "cas"} /\ dst[p] = s
            \/ \E w \in Workers : wpc[w] \in {"recheck", "retake"} /\ cur[w] = s

(* All workers asleep beside a queued task, and no sender in flight to     *)
(* wake one.                                                               *)
AllAsleepBesideTask ==
    /\ asleep = Workers
    /\ \E w \in Workers : queTask[w] # << >>
    /\ \A p \in Senders : spc[p] = "idle"
    /\ shut \in {0, WorkerNum + 1}

(* That happens only when a notify came between some worker's check of the *)
(* task count and its wait: the counts themselves never mislead.           *)
StrandedOnlyByLostNotify == AllAsleepBesideTask => lostNotify

(* An assertion stopped the process, or worker_shutdown ended a worker.    *)
Stopping == fault # None \/ \E w \in Workers : wpc[w] = "exited"

(* Readable mail is handled and an exited service is freed, also when it   *)
(* must wait on plkSvcWaitFree for its callers, unless a message it parked *)
(* is never sent, a notify was lost that way or the workers end.           *)
Served ==
    \A s \in Services : (Readable(mqIn[s]) \/ exitCalled[s]) ~>
        \/ ~Readable(mqIn[s]) /\ (exitCalled[s] => ~cbSet[s])
        \/ exitCalled[s] /\ waitSendMsgNum[s] > 0
        \/ lostNotify \/ Stopping

(* calledCnt and svcCnt keep a service from being freed under a sender     *)
(* that has found it alive, and a freed slot has an empty mailbox for its  *)
(* next service to start with.                                             *)
NotFreedUnderSender ==
    \A p \in Senders : spc[p] \in {"push", "publish", "cas", "enqueue"} => cbSet[dst[p]]
FreedMailboxEmpty == \A s \in Services : ~cbSet[s] => mqIn[s] = << >>

(* A service that has exited is not forgotten: it has a task, or the       *)
(* worker that runs it or keeps it in plkSvcWaitFree will free it.         *)
ExitedIsKept ==
    \A s \in Services : exitCalled[s] /\ cbSet[s] /\ fault = None =>
        Tasks(s) # {} \/ \E w \in Workers : cur[w] = s \/ svcWaitFree[w][s] > 0
FreedSafely == NotFreedUnderSender /\ FreedMailboxEmpty /\ ExitedIsKept

(* worker_shutdown ends every worker, unless its notify_all was lost on    *)
(* one, or the process stopped at an assertion.                            *)
ShutdownCompletes ==
    shut > WorkerNum ~>
        ((\A w \in Workers : wpc[w] = "exited") \/ fault # None \/ lostNotify)

=============================================================================
