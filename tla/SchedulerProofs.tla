--------------------------- MODULE SchedulerProofs ---------------------------
(***************************************************************************)
(* What holds of the scheduler for any number of workers, services and     *)
(* senders, with exits and shutdown.                                       *)
(*                                                                         *)
(* First, a service never has two tasks, and so never runs on two workers. *)
(* The places a task of service s can be are told apart by the predicates  *)
(* Queued, Held and Sent; TaskInv says that at most one of them holds, at  *)
(* one place, and that onTask[s] tells whether one does.  Most steps leave *)
(* the three predicates and onTask alone; each of the others moves, adds   *)
(* or removes one task.                                                    *)
(*                                                                         *)
(* Then, on top of TaskInv: MailInv, for the mail of a service and its     *)
(* end, and CountInv, for the task count that sends workers to sleep.      *)
(***************************************************************************)
EXTENDS Scheduler, FiniteSetTheorems, TLAPS

(* The workers' places at which cur is a service. *)
Serving == Holding \union {"recheck", "retake", "uncount", "free"}

TaskTypes ==
    /\ queTask \in [Workers -> Seq(Services \union {Sentinel})]
    /\ wpc \in [Workers -> Places]
    /\ cur \in [Workers -> Services \union {None}]
    /\ spc \in [Senders -> SenderPlaces]
    /\ dst \in [Senders -> Services \union {None}]
    /\ onTask \in [Services -> BOOLEAN]
    /\ lastSteal \in [Workers -> Workers]
    /\ lastWorker \in [Services -> Workers \union {NoWorker}]
    /\ svcWorkerCnt \in Nat
    /\ shut \in Nat
    /\ \A w \in Workers : wpc[w] \in Serving => cur[w] \in Services
    /\ \A p \in Senders : spc[p] # "idle" => dst[p] \in Services

(* The places of a task of service s. *)
Queued(s, w, i) == i \in DOMAIN queTask[w] /\ queTask[w][i] = s
Held(s, w) == wpc[w] \in Holding /\ cur[w] = s
Sent(s, p) == spc[p] = "enqueue" /\ dst[p] = s

AtMostOne(s) ==
    /\ \A v, w \in Workers, i, j \in Nat : Queued(s, v, i) /\ Queued(s, w, j) => v = w /\ i = j
    /\ \A v, w \in Workers : Held(s, v) /\ Held(s, w) => v = w
    /\ \A p, q \in Senders : Sent(s, p) /\ Sent(s, q) => p = q
    /\ \A v, w \in Workers, i \in Nat : ~(Queued(s, v, i) /\ Held(s, w))
    /\ \A v \in Workers, i \in Nat, p \in Senders : ~(Queued(s, v, i) /\ Sent(s, p))
    /\ \A w \in Workers, p \in Senders : ~(Held(s, w) /\ Sent(s, p))

AtLeastOne(s) ==
    \/ \E w \in Workers, i \in Nat : Queued(s, w, i)
    \/ \E w \in Workers : Held(s, w)
    \/ \E p \in Senders : Sent(s, p)

TaskInv ==
    /\ TaskTypes
    /\ \A s \in Services : AtMostOne(s) /\ (onTask[s] <=> AtLeastOne(s))

----------------------------------------------------------------------------
(* Queues *)

LEMMA AppendEntries ==
    ASSUME NEW S, NEW q \in Seq(S), NEW e \in S
    PROVE  /\ Append(q, e) \in Seq(S)
           /\ Len(q) + 1 \in Nat
           /\ Len(q) + 1 \notin DOMAIN q
           /\ DOMAIN Append(q, e) = DOMAIN q \union {Len(q) + 1}
           /\ \A i \in DOMAIN q : i \in Nat /\ Append(q, e)[i] = q[i]
           /\ Append(q, e)[Len(q) + 1] = e
OBVIOUS

LEMMA TailEntries ==
    ASSUME NEW S, NEW q \in Seq(S), q # << >>
    PROVE  /\ Tail(q) \in Seq(S)
           /\ Head(q) \in S
           /\ 1 \in DOMAIN q /\ q[1] = Head(q)
           /\ \A i \in Nat : i \in DOMAIN Tail(q) <=> (i # 0 /\ i + 1 \in DOMAIN q)
           /\ \A i \in DOMAIN Tail(q) : i \in Nat /\ Tail(q)[i] = q[i + 1]
           /\ \A i \in DOMAIN q : i \in Nat /\ (i # 1 => i - 1 \in Nat /\ i - 1 # 0)
OBVIOUS

LEMMA WorkersNat == Workers \subseteq Nat /\ NoWorker \notin Workers
BY WorkerNumAssumption DEF Workers, NoWorker

LEMMA NoneApart == None \notin Services
BY NamesAssumption DEF None

LEMMA AfterType == \A v \in Workers : After(v) \in Workers
BY WorkerNumAssumption DEF Workers, After

LEMMA ShareType == \A n \in Nat : n % WorkerNum \in Workers
BY WorkerNumAssumption DEF Workers

----------------------------------------------------------------------------
(* Steps that leave every task where it is *)

OnePlace == \A s \in Services : AtMostOne(s) /\ (onTask[s] <=> AtLeastOne(s))

Steady ==
    /\ onTask' = onTask
    /\ \A s \in Services :
        /\ \A w \in Workers, i \in Nat : Queued(s, w, i)' <=> Queued(s, w, i)
        /\ \A w \in Workers : Held(s, w)' <=> Held(s, w)
        /\ \A p \in Senders : Sent(s, p)' <=> Sent(s, p)

LEMMA SteadyOnePlace == OnePlace /\ Steady => OnePlace'
BY DEF OnePlace, Steady, AtMostOne, AtLeastOne

(* What a step does to the variables of TaskTypes when only the place and  *)
(* cur of one worker change, or only the place and dst of one sender.      *)
WorkerMoves(w, to) ==
    /\ wpc' = [wpc EXCEPT ![w] = to]
    /\ cur' = cur \/ cur' = [cur EXCEPT ![w] = None]
    /\ UNCHANGED <<queTask, onTask, spc, dst, svcWorkerCnt, lastWorker, shut>>

SenderMoves(p, to) ==
    /\ spc' = [spc EXCEPT ![p] = to]
    /\ dst' = dst \/ \E s \in Services \union {None} : dst' = [dst EXCEPT ![p] = s]
    /\ UNCHANGED <<queTask, onTask, wpc, cur, svcWorkerCnt, lastWorker, lastSteal, shut>>

(* A worker keeps the task it has, or has none before and after.           *)
LEMMA WorkerFrame ==
    ASSUME TaskTypes, NEW w \in Workers, NEW to \in Places, WorkerMoves(w, to),
           lastSteal' \in [Workers -> Workers],
           wpc[w] \in Holding <=> to \in Holding,
           to \in Serving => wpc[w] \in Serving /\ cur' = cur
    PROVE  TaskTypes' /\ Steady
<1>1. wpc' \in [Workers -> Places] BY DEF TaskTypes, WorkerMoves
<1>2. cur' \in [Workers -> Services \union {None}] BY DEF TaskTypes, WorkerMoves
<1>3. \A v \in Workers : wpc'[v] \in Serving => cur'[v] \in Services
  BY DEF TaskTypes, WorkerMoves
<1>4. TaskTypes' BY <1>1, <1>2, <1>3 DEF TaskTypes, WorkerMoves
<1>5. Holding \subseteq Serving BY DEF Serving
<1>6. \A s \in Services, v \in Workers : Held(s, v)' <=> Held(s, v)
  BY <1>5 DEF TaskTypes, WorkerMoves, Held
<1>7. \A s \in Services, p \in Senders : Sent(s, p)' <=> Sent(s, p)
  BY DEF WorkerMoves, Sent
<1>8. \A s \in Services, v \in Workers, i \in Nat : Queued(s, v, i)' <=> Queued(s, v, i)
  BY DEF WorkerMoves, Queued
<1> QED BY <1>4, <1>6, <1>7, <1>8 DEF Steady, WorkerMoves

(* A sender that neither takes a task nor gives one away.                  *)
LEMMA SenderFrame ==
    ASSUME TaskTypes, NEW p \in Senders, NEW to \in SenderPlaces, SenderMoves(p, to),
           spc[p] # "enqueue", to # "enqueue",
           to # "idle" => dst'[p] \in Services
    PROVE  TaskTypes' /\ Steady
<1>1. spc' \in [Senders -> SenderPlaces] BY DEF TaskTypes, SenderMoves
<1>2. dst' \in [Senders -> Services \union {None}] BY DEF TaskTypes, SenderMoves
<1>3. \A q \in Senders : spc'[q] # "idle" => dst'[q] \in Services
  BY DEF TaskTypes, SenderMoves
<1>4. TaskTypes' BY <1>1, <1>2, <1>3 DEF TaskTypes, SenderMoves
<1>5. \A s \in Services, v \in Workers : Held(s, v)' <=> Held(s, v)
  BY DEF SenderMoves, Held
<1>6. \A s \in Services, q \in Senders : Sent(s, q)' <=> Sent(s, q)
  BY DEF TaskTypes, SenderMoves, Sent
<1>7. \A s \in Services, v \in Workers, i \in Nat : Queued(s, v, i)' <=> Queued(s, v, i)
  BY DEF SenderMoves, Queued
<1> QED BY <1>4, <1>5, <1>6, <1>7 DEF Steady, SenderMoves

LEMMA SteadySender ==
    ASSUME TaskTypes, NEW p \in Senders,
           \/ \E s \in Services : SendBegin(p, s)
           \/ SendCheck(p) \/ SendPush(p) \/ SendFull(p) \/ SendPublish(p) \/ SendCount(p)
           \/ SendNotifyTest(p) \/ (\E w \in Workers : SendWake(p, w))
           \/ SendWakeNobody(p) \/ SendEnd(p)
    PROVE  TaskTypes' /\ Steady
<1>1. ASSUME NEW s \in Services, SendBegin(p, s) PROVE TaskTypes' /\ Steady
  <2>1. /\ spc[p] = "idle" /\ dst'[p] \in Services
        /\ \E to \in {"check"} : SenderMoves(p, to)
    BY <1>1, NoneApart DEF
       TaskTypes, SendBegin, SenderMoves, SenderAt, SenderGoto, serviceVars,
       countVars, runVars, searchVars, workerVars, senderVars, processVars
  <2> QED BY <2>1, SenderFrame DEF TaskTypes, SenderPlaces
<1>2. ASSUME SendCheck(p) PROVE TaskTypes' /\ Steady
  <2>1. /\ spc[p] = "check" /\ dst' = dst
        /\ \E to \in {"end", "push"} : SenderMoves(p, to)
    BY <1>2, NoneApart DEF
       TaskTypes, SendCheck, SenderMoves, SenderAt, SenderGoto, serviceVars,
       countVars, runVars, searchVars, workerVars, senderVars, processVars
  <2> QED BY <2>1, SenderFrame DEF TaskTypes, SenderPlaces
<1>3. ASSUME SendPush(p) PROVE TaskTypes' /\ Steady
  <2>1. /\ spc[p] = "push" /\ dst' = dst
        /\ \E to \in {"publish"} : SenderMoves(p, to)
    BY <1>3, NoneApart DEF
       TaskTypes, SendPush, SenderMoves, SenderAt, SenderGoto, serviceVars,
       countVars, runVars, searchVars, workerVars, senderVars, processVars
  <2> QED BY <2>1, SenderFrame DEF TaskTypes, SenderPlaces
<1>4. ASSUME SendFull(p) PROVE TaskTypes' /\ Steady
  <2>1. /\ spc[p] = "push" /\ dst' = dst
        /\ \E to \in {"end"} : SenderMoves(p, to)
    BY <1>4, NoneApart DEF
       TaskTypes, SendFull, SenderMoves, SenderAt, SenderGoto, serviceVars,
       countVars, runVars, searchVars, workerVars, senderVars, processVars
  <2> QED BY <2>1, SenderFrame DEF TaskTypes, SenderPlaces
<1>5. ASSUME SendPublish(p) PROVE TaskTypes' /\ Steady
  <2>1. /\ spc[p] = "publish" /\ dst' = dst
        /\ \E to \in {"cas"} : SenderMoves(p, to)
    BY <1>5, NoneApart DEF
       TaskTypes, SendPublish, SenderMoves, SenderAt, SenderGoto,
       serviceVars, countVars, runVars, searchVars, workerVars, senderVars,
       processVars
  <2> QED BY <2>1, SenderFrame DEF TaskTypes, SenderPlaces
<1>6. ASSUME SendCount(p) PROVE TaskTypes' /\ Steady
  <2>1. /\ spc[p] = "count" /\ dst' = dst
        /\ \E to \in {"notify"} : SenderMoves(p, to)
    BY <1>6, NoneApart DEF
       TaskTypes, SendCount, SenderMoves, SenderAt, SenderGoto, serviceVars,
       countVars, runVars, searchVars, workerVars, senderVars, processVars
  <2> QED BY <2>1, SenderFrame DEF TaskTypes, SenderPlaces
<1>7. ASSUME SendNotifyTest(p) PROVE TaskTypes' /\ Steady
  <2>1. /\ spc[p] = "notify" /\ dst' = dst
        /\ \E to \in {"wake", "end"} : SenderMoves(p, to)
    BY <1>7, NoneApart DEF
       TaskTypes, SendNotifyTest, SenderMoves, SenderAt, SenderGoto,
       serviceVars, countVars, runVars, searchVars, workerVars, senderVars,
       processVars
  <2> QED BY <2>1, SenderFrame DEF TaskTypes, SenderPlaces
<1>8. ASSUME SendWakeNobody(p) PROVE TaskTypes' /\ Steady
  <2>1. /\ spc[p] = "wake" /\ dst' = dst
        /\ \E to \in {"end"} : SenderMoves(p, to)
    BY <1>8, NoneApart DEF
       TaskTypes, SendWakeNobody, SenderMoves, SenderAt, SenderGoto,
       serviceVars, countVars, runVars, searchVars, workerVars, senderVars,
       processVars
  <2> QED BY <2>1, SenderFrame DEF TaskTypes, SenderPlaces
<1>9. ASSUME SendEnd(p) PROVE TaskTypes' /\ Steady
  <2>1. /\ spc[p] = "end" /\ TRUE
        /\ \E to \in {"idle"} : SenderMoves(p, to)
    BY <1>9, NoneApart DEF
       TaskTypes, SendEnd, SenderMoves, SenderAt, SenderGoto, serviceVars,
       countVars, runVars, searchVars, workerVars, senderVars, processVars
  <2> QED BY <2>1, SenderFrame DEF TaskTypes, SenderPlaces
<1>10. ASSUME NEW w \in Workers, SendWake(p, w) PROVE TaskTypes' /\ Steady
  <2>1. /\ wpc' = [wpc EXCEPT ![w] = "unidle"] /\ wpc[w] = "sleep"
        /\ spc' = [spc EXCEPT ![p] = "end"] /\ spc[p] = "wake"
        /\ UNCHANGED <<queTask, onTask, cur, dst, svcWorkerCnt, lastWorker, lastSteal, shut>>
    BY <1>10 DEF
       SendWake, asleep, SenderAt, SenderGoto, WorkerGoto, serviceVars,
       countVars, runVars, searchVars, workerVars, senderVars, processVars
  <2>2. TaskTypes' BY <2>1 DEF TaskTypes, Places, SenderPlaces, Serving, Holding
  <2> QED BY <2>1, <2>2 DEF TaskTypes, Steady, Queued, Held, Sent, Holding
<1> QED
  BY <1>1, <1>2, <1>3, <1>4, <1>5, <1>6, <1>7, <1>8, <1>9, <1>10

LEMMA SteadyWorker ==
    ASSUME TaskTypes, NEW w \in Workers,
           \/ ScanWaitFree(w) \/ PopNothing(w) \/ StealNothing(w) \/ CountIdle(w)
           \/ CheckIdle(w) \/ Wait(w) \/ SpuriousWake(w) \/ Unidle(w)
           \/ (\E outcome \in Outcomes : HandleMsg(w, outcome)) \/ NoMsg(w)
           \/ (\E n \in 0 .. MaxParked : RetryWaitSend(w, n)) \/ Recheck(w) \/ Uncount(w)
           \/ FreeNow(w) \/ FreeLater(w)
    PROVE  TaskTypes' /\ Steady
<1>1. ASSUME ScanWaitFree(w) PROVE TaskTypes' /\ Steady
  <2>1. /\ wpc[w] \in {"top"}
        /\ lastSteal' \in [Workers -> Workers]
        /\ \E to \in {"pop"} : WorkerMoves(w, to)
    BY <1>1 DEF
       TaskTypes, ScanWaitFree, WorkerMoves, WorkerAt, WorkerGoto,
       serviceVars, countVars, runVars, searchVars, workerVars, senderVars,
       processVars
  <2> QED BY <2>1, WorkerFrame DEF Places, Serving, Holding
<1>2. ASSUME PopNothing(w) PROVE TaskTypes' /\ Steady
  <2>1. /\ wpc[w] \in {"top", "pop"}
        /\ lastSteal' \in [Workers -> Workers]
        /\ \E to \in {"steal"} : WorkerMoves(w, to)
    BY <1>2 DEF
       TaskTypes, PopNothing, AtPop, WorkerMoves, WorkerAt, WorkerGoto,
       serviceVars, countVars, runVars, searchVars, workerVars, senderVars,
       processVars
  <2> QED BY <2>1, WorkerFrame DEF Places, Serving, Holding
<1>3. ASSUME StealNothing(w) PROVE TaskTypes' /\ Steady
  <2>1. /\ wpc[w] \in {"steal"}
        /\ lastSteal' \in [Workers -> Workers]
        /\ \E to \in {"steal", "idle", "top"} : WorkerMoves(w, to)
    BY <1>3, AfterType DEF
       TaskTypes, StealNothing, NextSteal, WorkerMoves, WorkerAt, WorkerGoto,
       serviceVars, countVars, runVars, searchVars, workerVars, senderVars,
       processVars
  <2> QED BY <2>1, WorkerFrame DEF Places, Serving, Holding
<1>4. ASSUME CountIdle(w) PROVE TaskTypes' /\ Steady
  <2>1. /\ wpc[w] \in {"idle"}
        /\ lastSteal' \in [Workers -> Workers]
        /\ \E to \in {"checkidle"} : WorkerMoves(w, to)
    BY <1>4 DEF
       TaskTypes, CountIdle, WorkerMoves, WorkerAt, WorkerGoto, serviceVars,
       countVars, runVars, searchVars, workerVars, senderVars, processVars
  <2> QED BY <2>1, WorkerFrame DEF Places, Serving, Holding
<1>5. ASSUME CheckIdle(w) PROVE TaskTypes' /\ Steady
  <2>1. /\ wpc[w] \in {"checkidle"}
        /\ lastSteal' \in [Workers -> Workers]
        /\ \E to \in {"unidle", "wait"} : WorkerMoves(w, to)
    BY <1>5 DEF
       TaskTypes, CheckIdle, WorkerMoves, WorkerAt, WorkerGoto, serviceVars,
       countVars, runVars, searchVars, workerVars, senderVars, processVars
  <2> QED BY <2>1, WorkerFrame DEF Places, Serving, Holding
<1>6. ASSUME Wait(w) PROVE TaskTypes' /\ Steady
  <2>1. /\ wpc[w] \in {"wait"}
        /\ lastSteal' \in [Workers -> Workers]
        /\ \E to \in {"sleep"} : WorkerMoves(w, to)
    BY <1>6 DEF
       TaskTypes, Wait, WorkerMoves, WorkerAt, WorkerGoto, serviceVars,
       countVars, runVars, searchVars, workerVars, senderVars, processVars
  <2> QED BY <2>1, WorkerFrame DEF Places, Serving, Holding
<1>7. ASSUME SpuriousWake(w) PROVE TaskTypes' /\ Steady
  <2>1. /\ wpc[w] \in {"sleep"}
        /\ lastSteal' \in [Workers -> Workers]
        /\ \E to \in {"unidle"} : WorkerMoves(w, to)
    BY <1>7 DEF
       TaskTypes, SpuriousWake, WorkerMoves, WorkerAt, WorkerGoto,
       serviceVars, countVars, runVars, searchVars, workerVars, senderVars,
       processVars
  <2> QED BY <2>1, WorkerFrame DEF Places, Serving, Holding
<1>8. ASSUME Unidle(w) PROVE TaskTypes' /\ Steady
  <2>1. /\ wpc[w] \in {"unidle"}
        /\ lastSteal' \in [Workers -> Workers]
        /\ \E to \in {"top"} : WorkerMoves(w, to)
    BY <1>8 DEF
       TaskTypes, Unidle, WorkerMoves, WorkerAt, WorkerGoto, serviceVars,
       countVars, runVars, searchVars, workerVars, senderVars, processVars
  <2> QED BY <2>1, WorkerFrame DEF Places, Serving, Holding
<1>9. ASSUME NEW outcome \in Outcomes, HandleMsg(w, outcome) PROVE TaskTypes' /\ Steady
  <2>1. /\ wpc[w] \in {"proc"}
        /\ lastSteal' \in [Workers -> Workers]
        /\ \E to \in {"proc", "tail"} : WorkerMoves(w, to) /\ cur' = cur
    BY <1>9 DEF
       TaskTypes, HandleMsg, WorkerMoves, WorkerAt, WorkerGoto, serviceVars,
       countVars, runVars, searchVars, workerVars, senderVars, processVars
  <2> QED BY <2>1, WorkerFrame DEF Places, Serving, Holding
<1>10. ASSUME NoMsg(w) PROVE TaskTypes' /\ Steady
  <2>1. /\ wpc[w] \in {"proc"}
        /\ lastSteal' \in [Workers -> Workers]
        /\ \E to \in {"tail"} : WorkerMoves(w, to) /\ cur' = cur
    BY <1>10 DEF
       TaskTypes, NoMsg, WorkerMoves, WorkerAt, WorkerGoto, serviceVars,
       countVars, runVars, searchVars, workerVars, senderVars, processVars
  <2> QED BY <2>1, WorkerFrame DEF Places, Serving, Holding
<1>11. ASSUME NEW n \in 0 .. MaxParked, RetryWaitSend(w, n) PROVE TaskTypes' /\ Steady
  <2>1. /\ wpc[w] \in {"tail"}
        /\ lastSteal' \in [Workers -> Workers]
        /\ \E to \in {"requeue", "off"} : WorkerMoves(w, to) /\ cur' = cur
    BY <1>11 DEF
       TaskTypes, RetryWaitSend, WorkerMoves, WorkerAt, WorkerGoto,
       serviceVars, countVars, runVars, searchVars, workerVars, senderVars,
       processVars
  <2> QED BY <2>1, WorkerFrame DEF Places, Serving, Holding
<1>12. ASSUME Recheck(w) PROVE TaskTypes' /\ Steady
  <2>1. /\ wpc[w] \in {"recheck"}
        /\ lastSteal' \in [Workers -> Workers]
        /\ \E to \in {"retake", "uncount"} : WorkerMoves(w, to) /\ cur' = cur
    BY <1>12 DEF
       TaskTypes, Recheck, WorkerMoves, WorkerAt, WorkerGoto, serviceVars,
       countVars, runVars, searchVars, workerVars, senderVars, processVars
  <2> QED BY <2>1, WorkerFrame DEF Places, Serving, Holding
<1>13. ASSUME Uncount(w) PROVE TaskTypes' /\ Steady
  <2>1. /\ wpc[w] \in {"uncount"}
        /\ lastSteal' \in [Workers -> Workers]
        /\ \E to \in {"free", "top"} : WorkerMoves(w, to) /\ (to = "free" => cur' = cur)
    BY <1>13 DEF
       TaskTypes, Uncount, WorkerMoves, WorkerAt, WorkerGoto, serviceVars,
       countVars, runVars, searchVars, workerVars, senderVars, processVars
  <2> QED BY <2>1, WorkerFrame DEF Places, Serving, Holding
<1>14. ASSUME FreeNow(w) PROVE TaskTypes' /\ Steady
  <2>1. /\ wpc[w] \in {"free"}
        /\ lastSteal' \in [Workers -> Workers]
        /\ \E to \in {"top"} : WorkerMoves(w, to)
    BY <1>14 DEF
       TaskTypes, FreeNow, WorkerMoves, WorkerAt, WorkerGoto, serviceVars,
       countVars, runVars, searchVars, workerVars, senderVars, processVars
  <2> QED BY <2>1, WorkerFrame DEF Places, Serving, Holding
<1>15. ASSUME FreeLater(w) PROVE TaskTypes' /\ Steady
  <2>1. /\ wpc[w] \in {"free"}
        /\ lastSteal' \in [Workers -> Workers]
        /\ \E to \in {"top"} : WorkerMoves(w, to)
    BY <1>15 DEF
       TaskTypes, FreeLater, WorkerMoves, WorkerAt, WorkerGoto, serviceVars,
       countVars, runVars, searchVars, workerVars, senderVars, processVars
  <2> QED BY <2>1, WorkerFrame DEF Places, Serving, Holding
<1> QED
  BY <1>1, <1>2, <1>3, <1>4, <1>5, <1>6, <1>7, <1>8, <1>9, <1>10, <1>11, <1>12, <1>13, <1>14, <1>15

LEMMA SteadyRest ==
    ASSUME TaskTypes, ShutdownNotify \/ UNCHANGED vars
    PROVE  TaskTypes' /\ Steady
<1>1. /\ UNCHANGED <<queTask, onTask, cur, spc, dst, svcWorkerCnt, lastWorker, lastSteal>>
      /\ shut' \in Nat
  BY DEF TaskTypes, ShutdownNotify, vars, serviceVars, countVars, runVars, searchVars,
         workerVars, senderVars, processVars
<1>2. \/ wpc' = wpc
      \/ wpc' = [w \in Workers |-> IF wpc[w] = "sleep" THEN "unidle" ELSE wpc[w]]
  BY DEF TaskTypes, ShutdownNotify, asleep, vars, workerVars
<1>3. wpc' \in [Workers -> Places] BY <1>2 DEF TaskTypes, Places
<1>4. \A w \in Workers :
        /\ wpc'[w] \in Serving <=> wpc[w] \in Serving
        /\ wpc'[w] \in Holding <=> wpc[w] \in Holding
  BY <1>2 DEF Serving, Holding
<1>5. TaskTypes' BY <1>1, <1>3, <1>4 DEF TaskTypes
<1> QED BY <1>1, <1>4, <1>5 DEF Steady, Queued, Held, Sent

----------------------------------------------------------------------------
(* Steps that move a task *)

LEMMA QueueAppend ==
    ASSUME TaskTypes, NEW x \in Workers, NEW e \in Services \union {Sentinel},
           queTask' = [queTask EXCEPT ![x] = Append(@, e)]
    PROVE  /\ queTask' \in [Workers -> Seq(Services \union {Sentinel})]
           /\ Len(queTask[x]) + 1 \in Nat
           /\ \A s \in Services, w \in Workers, i \in Nat :
                Queued(s, w, i)' <=>
                    Queued(s, w, i) \/ (s = e /\ w = x /\ i = Len(queTask[x]) + 1)
<1> DEFINE S == Services \union {Sentinel}
           n == Len(queTask[x]) + 1
<1>1. queTask \in [Workers -> Seq(S)] /\ queTask[x] \in Seq(S) BY DEF TaskTypes
<1>2. /\ queTask'[x] \in Seq(S) /\ n \in Nat /\ n \notin DOMAIN queTask[x]
      /\ DOMAIN queTask'[x] = DOMAIN queTask[x] \union {n}
      /\ \A i \in DOMAIN queTask[x] : queTask'[x][i] = queTask[x][i]
      /\ queTask'[x][n] = e
  BY <1>1, AppendEntries
<1>3. \A w \in Workers : w # x => queTask'[w] = queTask[w] BY <1>1
<1>4. queTask' \in [Workers -> Seq(S)] BY <1>1, <1>2
<1>5. ASSUME NEW s \in Services, NEW w \in Workers, NEW i \in Nat
      PROVE  Queued(s, w, i)' <=> Queued(s, w, i) \/ (s = e /\ w = x /\ i = n)
  <2>1. CASE w = x BY <1>2, <2>1 DEF Queued
  <2>2. CASE w # x BY <1>3, <2>2 DEF Queued
  <2> QED BY <2>1, <2>2
<1> QED BY <1>2, <1>4, <1>5

LEMMA QueueTail ==
    ASSUME TaskTypes, NEW x \in Workers, queTask[x] # << >>,
           queTask' = [queTask EXCEPT ![x] = Tail(@)]
    PROVE  /\ queTask' \in [Workers -> Seq(Services \union {Sentinel})]
           /\ Head(queTask[x]) \in Services \union {Sentinel}
           /\ \A s \in Services : Queued(s, x, 1) <=> s = Head(queTask[x])
           /\ \A s \in Services, w \in Workers, i \in Nat :
                Queued(s, w, i)' <=> IF w = x THEN i # 0 /\ Queued(s, x, i + 1)
                                             ELSE Queued(s, w, i)
           /\ \A s \in Services, i \in Nat :
                Queued(s, x, i) => i = 1 \/ (i - 1 \in Nat /\ Queued(s, x, i - 1)')
<1> DEFINE S == Services \union {Sentinel}
<1>1. queTask \in [Workers -> Seq(S)] /\ queTask[x] \in Seq(S) BY DEF TaskTypes
<1>2. /\ queTask'[x] \in Seq(S) /\ Head(queTask[x]) \in S
      /\ 1 \in DOMAIN queTask[x] /\ queTask[x][1] = Head(queTask[x])
      /\ \A i \in Nat : i \in DOMAIN queTask'[x] <=> (i # 0 /\ i + 1 \in DOMAIN queTask[x])
      /\ \A i \in DOMAIN queTask'[x] : i \in Nat /\ queTask'[x][i] = queTask[x][i + 1]
      /\ \A i \in DOMAIN queTask[x] : i \in Nat /\ (i # 1 => i - 1 \in Nat /\ i - 1 # 0)
  BY <1>1, TailEntries
<1>3. \A w \in Workers : w # x => queTask'[w] = queTask[w] BY <1>1
<1>4. queTask' \in [Workers -> Seq(S)] BY <1>1, <1>2
<1>5. ASSUME NEW s \in Services, NEW i \in Nat
      PROVE  Queued(s, x, i)' <=> i # 0 /\ Queued(s, x, i + 1)
  BY <1>2 DEF Queued
<1>6. ASSUME NEW s \in Services, NEW w \in Workers, w # x, NEW i \in Nat
      PROVE  Queued(s, w, i)' <=> Queued(s, w, i)
  BY <1>3, <1>6 DEF Queued
<1>7. ASSUME NEW s \in Services, NEW i \in Nat, Queued(s, x, i)
      PROVE  i = 1 \/ (i - 1 \in Nat /\ Queued(s, x, i - 1)')
  <2>1. i \in DOMAIN queTask[x] BY <1>7 DEF Queued
  <2>2. SUFFICES ASSUME i # 1 PROVE i - 1 \in Nat /\ Queued(s, x, i - 1)'
    OBVIOUS
  <2>3. i - 1 \in Nat /\ i - 1 # 0 /\ (i - 1) + 1 = i BY <1>2, <2>1, <2>2
  <2> QED BY <1>5, <1>7, <2>3
<1>8. \A s \in Services : Queued(s, x, 1) <=> s = Head(queTask[x]) BY <1>2 DEF Queued
<1> QED BY <1>2, <1>4, <1>5, <1>6, <1>7, <1>8

(* The steps as they are seen by the three predicates.                     *)
QueuedSame == \A s \in Services, w \in Workers, i \in Nat : Queued(s, w, i)' <=> Queued(s, w, i)
HeldSame == \A s \in Services, w \in Workers : Held(s, w)' <=> Held(s, w)
SentSame == \A s \in Services, p \in Senders : Sent(s, p)' <=> Sent(s, p)
HeldMore(x, v) ==
    \A s \in Services, w \in Workers : Held(s, w)' <=> Held(s, w) \/ (s = x /\ w = v)
HeldLess(v) ==
    \A s \in Services, w \in Workers : Held(s, w)' <=> Held(s, w) /\ w # v
SentMore(x, q) ==
    \A s \in Services, p \in Senders : Sent(s, p)' <=> Sent(s, p) \/ (s = x /\ p = q)
SentLess(q) ==
    \A s \in Services, p \in Senders : Sent(s, p)' <=> Sent(s, p) /\ p # q
QueuedMore(x, v, n) ==
    \A s \in Services, w \in Workers, i \in Nat :
        Queued(s, w, i)' <=> Queued(s, w, i) \/ (s = x /\ w = v /\ i = n)
QueuedTail(v) ==
    /\ \A s \in Services, w \in Workers, i \in Nat :
         Queued(s, w, i)' <=> IF w = v THEN i # 0 /\ Queued(s, v, i + 1) ELSE Queued(s, w, i)
    /\ \A s \in Services, i \in Nat :
         Queued(s, v, i) => i = 1 \/ (i - 1 \in Nat /\ Queued(s, v, i - 1)')

(* A task appears, with a sender or a worker. *)
LEMMA TaskAppears ==
    ASSUME TaskTypes, OnePlace, NEW x \in Services, ~onTask[x],
           onTask' = [onTask EXCEPT ![x] = TRUE], QueuedSame,
           \/ \E q \in Senders : SentMore(x, q) /\ HeldSame
           \/ \E v \in Workers : HeldMore(x, v) /\ SentSame
    PROVE  OnePlace'
<1>1. onTask'[x] = TRUE /\ \A s \in Services : s # x => onTask'[s] = onTask[s]
  BY DEF TaskTypes
<1>2. ~AtLeastOne(x) BY DEF OnePlace
<1>3. ASSUME NEW q \in Senders, SentMore(x, q), HeldSame PROVE OnePlace'
  <2>1. \A s \in Services : AtMostOne(s)'
    BY <1>2, <1>3 DEF OnePlace, AtMostOne, AtLeastOne, QueuedSame, SentMore, HeldSame
  <2>2. \A s \in Services : AtLeastOne(s)' <=> (s = x \/ AtLeastOne(s))
    BY <1>3 DEF AtLeastOne, QueuedSame, SentMore, HeldSame
  <2> QED BY <1>1, <2>1, <2>2 DEF OnePlace
<1>4. ASSUME NEW v \in Workers, HeldMore(x, v), SentSame PROVE OnePlace'
  <2>1. \A s \in Services : AtMostOne(s)'
    BY <1>2, <1>4 DEF OnePlace, AtMostOne, AtLeastOne, QueuedSame, SentSame, HeldMore
  <2>2. \A s \in Services : AtLeastOne(s)' <=> (s = x \/ AtLeastOne(s))
    BY <1>4 DEF AtLeastOne, QueuedSame, SentSame, HeldMore
  <2> QED BY <1>1, <2>1, <2>2 DEF OnePlace
<1> QED BY <1>3, <1>4

(* The worker that holds a task drops it. *)
LEMMA TaskEnds ==
    ASSUME TaskTypes, OnePlace, NEW x \in Services, NEW v \in Workers, Held(x, v),
           \A s \in Services : Held(s, v) => s = x,
           onTask' = [onTask EXCEPT ![x] = FALSE], QueuedSame, SentSame, HeldLess(v)
    PROVE  OnePlace'
<1>1. onTask'[x] = FALSE /\ \A s \in Services : s # x => onTask'[s] = onTask[s]
  BY DEF TaskTypes
<1>2. \A s \in Services : AtMostOne(s)'
  BY DEF OnePlace, AtMostOne, QueuedSame, SentSame, HeldLess
<1>3. ~AtLeastOne(x)'
  BY DEF OnePlace, AtMostOne, AtLeastOne, QueuedSame, SentSame, HeldLess
<1>4. \A s \in Services : s # x => (AtLeastOne(s)' <=> AtLeastOne(s))
  BY DEF AtLeastOne, QueuedSame, SentSame, HeldLess
<1> QED BY <1>1, <1>2, <1>3, <1>4 DEF OnePlace

(* A sender or a worker gives its task to a queue. *)
LEMMA TaskQueued ==
    ASSUME OnePlace, NEW x \in Services, NEW v \in Workers, NEW n \in Nat,
           onTask' = onTask, QueuedMore(x, v, n),
           \/ \E q \in Senders : /\ Sent(x, q) /\ (\A s \in Services : Sent(s, q) => s = x)
                                 /\ SentLess(q) /\ HeldSame
           \/ \E w \in Workers : /\ Held(x, w) /\ (\A s \in Services : Held(s, w) => s = x)
                                 /\ HeldLess(w) /\ SentSame
    PROVE  OnePlace'
<1>1. ASSUME NEW q \in Senders, Sent(x, q), \A s \in Services : Sent(s, q) => s = x,
             SentLess(q), HeldSame
      PROVE  OnePlace'
  BY <1>1 DEF OnePlace, AtMostOne, AtLeastOne, QueuedMore, SentLess, HeldSame
<1>2. ASSUME NEW w \in Workers, Held(x, w), \A s \in Services : Held(s, w) => s = x,
             HeldLess(w), SentSame
      PROVE  OnePlace'
  BY <1>2 DEF OnePlace, AtMostOne, AtLeastOne, QueuedMore, HeldLess, SentSame
<1> QED BY <1>1, <1>2

(* A worker takes the first task of a queue. *)
LEMMA TaskTaken ==
    ASSUME OnePlace, NEW x \in Services, NEW v \in Workers, NEW w \in Workers,
           onTask' = onTask, \A s \in Services : Queued(s, v, 1) <=> s = x,
           QueuedTail(v), HeldMore(x, w), SentSame
    PROVE  OnePlace'
<1>1. ASSUME NEW s \in Services PROVE AtMostOne(s)'
  <2>1. ASSUME NEW a \in Workers, NEW b \in Workers, NEW i \in Nat, NEW j \in Nat,
               Queued(s, a, i)', Queued(s, b, j)'
        PROVE  a = b /\ i = j
    <3>1. /\ Queued(s, a, IF a = v THEN i + 1 ELSE i)
          /\ Queued(s, b, IF b = v THEN j + 1 ELSE j)
      BY <2>1 DEF QueuedTail
    <3>2. a = b /\ (IF a = v THEN i + 1 ELSE i) = (IF b = v THEN j + 1 ELSE j)
      BY <3>1 DEF OnePlace, AtMostOne
    <3> QED BY <3>2
  <2>2. ASSUME s = x, NEW a \in Workers, NEW i \in Nat, Queued(s, a, i)' PROVE FALSE
    <3>1. Queued(s, v, 1) /\ 1 \in Nat BY <2>2
    <3>2. CASE a = v
      <4>1. i + 1 # 1 /\ i + 1 \in Nat /\ Queued(s, v, i + 1) BY <2>2, <3>2 DEF QueuedTail
      <4> QED BY <3>1, <4>1 DEF OnePlace, AtMostOne
    <3>3. CASE a # v
      <4>1. Queued(s, a, i) BY <2>2, <3>3 DEF QueuedTail
      <4> QED BY <3>1, <3>3, <4>1 DEF OnePlace, AtMostOne
    <3> QED BY <3>2, <3>3
  <2>3. \A a, b \in Workers, i \in Nat : ~(Queued(s, a, i)' /\ Held(s, b)')
    BY <2>2 DEF OnePlace, AtMostOne, QueuedTail, HeldMore
  <2>4. \A a \in Workers, i \in Nat, p \in Senders : ~(Queued(s, a, i)' /\ Sent(s, p)')
    BY DEF OnePlace, AtMostOne, QueuedTail, SentSame
  <2>5. /\ \A a, b \in Workers : Held(s, a)' /\ Held(s, b)' => a = b
        /\ \A p, q \in Senders : Sent(s, p)' /\ Sent(s, q)' => p = q
        /\ \A a \in Workers, p \in Senders : ~(Held(s, a)' /\ Sent(s, p)')
    BY DEF OnePlace, AtMostOne, HeldMore, SentSame
  <2> QED BY <2>1, <2>3, <2>4, <2>5 DEF AtMostOne
<1>2. ASSUME NEW s \in Services PROVE AtLeastOne(s)' <=> AtLeastOne(s)
  <2>1. AtLeastOne(x) /\ AtLeastOne(x)' BY DEF AtLeastOne, HeldMore
  <2>2. ASSUME s # x, NEW a \in Workers, NEW i \in Nat, Queued(s, a, i)'
        PROVE  AtLeastOne(s)
    BY <2>2 DEF AtLeastOne, QueuedTail
  <2>3. ASSUME s # x, NEW a \in Workers, NEW i \in Nat, Queued(s, a, i)
        PROVE  AtLeastOne(s)'
    <3>1. CASE a = v BY <2>3, <3>1 DEF AtLeastOne, QueuedTail
    <3>2. CASE a # v BY <2>3, <3>2 DEF AtLeastOne, QueuedTail
    <3> QED BY <3>1, <3>2
  <2> QED BY <2>1, <2>2, <2>3 DEF AtLeastOne, HeldMore, SentSame
<1> QED BY <1>1, <1>2 DEF OnePlace

(* The sentinel is taken off a queue. *)
LEMMA SentinelTaken ==
    ASSUME OnePlace, NEW v \in Workers, onTask' = onTask,
           \A s \in Services : ~Queued(s, v, 1), QueuedTail(v), HeldSame, SentSame
    PROVE  OnePlace'
<1>1. ASSUME NEW s \in Services PROVE AtMostOne(s)'
  BY DEF OnePlace, AtMostOne, QueuedTail, HeldSame, SentSame
<1>2. ASSUME NEW s \in Services PROVE AtLeastOne(s)' <=> AtLeastOne(s)
  <2>1. ASSUME NEW a \in Workers, NEW i \in Nat, Queued(s, a, i) PROVE AtLeastOne(s)'
    <3>1. CASE a = v BY <2>1, <3>1 DEF AtLeastOne, QueuedTail
    <3>2. CASE a # v BY <2>1, <3>2 DEF AtLeastOne, QueuedTail
    <3> QED BY <3>1, <3>2
  <2>2. ASSUME NEW a \in Workers, NEW i \in Nat, Queued(s, a, i)' PROVE AtLeastOne(s)
    BY <2>2 DEF AtLeastOne, QueuedTail
  <2> QED BY <2>1, <2>2 DEF AtLeastOne, HeldSame, SentSame
<1> QED BY <1>1, <1>2 DEF OnePlace

LEMMA TasksSender ==
    ASSUME TaskInv, NEW p \in Senders, SendCas(p) \/ SendEnqueue(p)
    PROVE  TaskInv'
<1> DEFINE x == dst[p]
<1>0. TaskTypes /\ OnePlace BY DEF TaskInv, OnePlace
<1>1. CASE SendCas(p)
  <2>1. /\ spc[p] = "cas" /\ x \in Services /\ onTask' = [onTask EXCEPT ![x] = TRUE]
        /\ spc' = [spc EXCEPT ![p] = IF onTask[x] THEN "end" ELSE "enqueue"]
        /\ UNCHANGED <<queTask, wpc, cur, dst, lastSteal, lastWorker, svcWorkerCnt, shut>>
    BY <1>0, <1>1 DEF TaskTypes, SendCas, SenderAt, SenderGoto,
       serviceVars, countVars, runVars, searchVars, workerVars, senderVars,
       processVars
  <2>2. CASE onTask[x]
    <3>1. onTask' = onTask BY <1>0, <2>1, <2>2 DEF TaskTypes
    <3>2. SenderMoves(p, "end") /\ dst' = dst BY <2>1, <2>2, <3>1 DEF SenderMoves
    <3>3. TaskTypes' /\ Steady
      BY <1>0, <2>1, <3>2, SenderFrame DEF SenderPlaces
    <3> QED BY <1>0, <3>3, SteadyOnePlace DEF TaskInv, OnePlace
  <2>3. CASE ~onTask[x]
    <3>1. TaskTypes' BY <1>0, <2>1, <2>3 DEF TaskTypes, SenderPlaces
    <3>2. SentMore(x, p) BY <1>0, <2>1, <2>3 DEF TaskTypes, SentMore, Sent
    <3>3. QueuedSame /\ HeldSame BY <2>1 DEF QueuedSame, HeldSame, Queued, Held
    <3>4. OnePlace' BY <1>0, <2>1, <2>3, <3>2, <3>3, TaskAppears
    <3> QED BY <3>1, <3>4 DEF TaskInv, OnePlace
  <2> QED BY <2>2, <2>3
<1>2. CASE SendEnqueue(p)
  <2> DEFINE v == IF lastWorker[x] < 0 THEN svcWorkerCnt % WorkerNum ELSE lastWorker[x]
  <2>1. /\ spc[p] = "enqueue" /\ x \in Services /\ queTask' = [queTask EXCEPT ![v] = Append(@, x)]
        /\ spc' = [spc EXCEPT ![p] = "count"] /\ lastWorker' = [lastWorker EXCEPT ![x] = v]
        /\ svcWorkerCnt' \in {svcWorkerCnt, svcWorkerCnt + 1}
        /\ UNCHANGED <<wpc, cur, onTask, dst, lastSteal, shut>>
    BY <1>0, <1>2 DEF TaskTypes, SendEnqueue, QueueFor, SenderAt, SenderGoto,
       serviceVars, countVars, runVars, searchVars, workerVars, senderVars,
       processVars
  <2>2. v \in Workers
    <3>1. svcWorkerCnt % WorkerNum \in Workers BY <1>0, ShareType DEF TaskTypes
    <3>2. lastWorker[x] \in Workers \/ lastWorker[x] = NoWorker BY <1>0, <2>1 DEF TaskTypes
    <3> QED BY <3>1, <3>2 DEF NoWorker
  <2> HIDE DEF v
  <2>3. /\ queTask' \in [Workers -> Seq(Services \union {Sentinel})]
        /\ Len(queTask[v]) + 1 \in Nat
        /\ QueuedMore(x, v, Len(queTask[v]) + 1)
    BY <1>0, <2>1, <2>2, QueueAppend DEF QueuedMore
  <2>4. TaskTypes' BY <1>0, <2>1, <2>2, <2>3 DEF TaskTypes, SenderPlaces
  <2>5. SentLess(p) /\ HeldSame /\ Sent(x, p) /\ \A s \in Services : Sent(s, p) => s = x
    BY <1>0, <2>1 DEF TaskTypes, SentLess, HeldSame, Sent, Held
  <2>6. OnePlace' BY <1>0, <2>1, <2>2, <2>3, <2>5, TaskQueued
  <2> QED BY <2>4, <2>6 DEF TaskInv, OnePlace
<1> QED BY <1>1, <1>2

LEMMA TasksTaken ==
    ASSUME TaskInv, NEW w \in Workers,
           PopTask(w) \/ StealTask(w) \/ PopSentinel(w) \/ StealSentinel(w)
    PROVE  TaskInv'
<1>0. TaskTypes /\ OnePlace BY DEF TaskInv, OnePlace
<1>1. ASSUME NEW v \in Workers, queTask[v] # << >>, Head(queTask[v]) # Sentinel,
             queTask' = [queTask EXCEPT ![v] = Tail(@)],
             wpc[w] \notin Holding, wpc' = [wpc EXCEPT ![w] = "proc"],
             cur' = [cur EXCEPT ![w] = Head(queTask[v])],
             lastSteal' \in [Workers -> Workers],
             lastWorker' \in [Services -> Workers \union {NoWorker}],
             UNCHANGED <<onTask, spc, dst, svcWorkerCnt, shut>>
      PROVE  TaskInv'
  <2> DEFINE x == Head(queTask[v])
  <2>1. /\ queTask' \in [Workers -> Seq(Services \union {Sentinel})] /\ x \in Services
        /\ \A s \in Services : Queued(s, v, 1) <=> s = x
        /\ QueuedTail(v)
    BY <1>0, <1>1, QueueTail DEF QueuedTail
  <2>2. TaskTypes' BY <1>0, <1>1, <2>1 DEF TaskTypes, Places
  <2>3. HeldMore(x, w) /\ SentSame
    BY <1>0, <1>1 DEF TaskTypes, HeldMore, SentSame, Held, Sent, Holding
  <2>4. OnePlace' BY <1>0, <1>1, <2>1, <2>3, TaskTaken
  <2> QED BY <2>2, <2>4 DEF TaskInv, OnePlace
<1>2. ASSUME NEW v \in Workers, queTask[v] # << >>, Head(queTask[v]) = Sentinel,
             queTask' = [queTask EXCEPT ![v] = Tail(@)],
             wpc[w] \notin Serving, wpc' \in {wpc, [wpc EXCEPT ![w] = "exited"]},
             UNCHANGED <<onTask, cur, spc, dst, lastSteal, lastWorker, svcWorkerCnt, shut>>
      PROVE  TaskInv'
  <2>1. /\ queTask' \in [Workers -> Seq(Services \union {Sentinel})]
        /\ \A s \in Services : ~Queued(s, v, 1)
        /\ QueuedTail(v)
    BY <1>0, <1>2, QueueTail, NamesAssumption DEF QueuedTail
  <2>2. TaskTypes' BY <1>0, <1>2, <2>1 DEF TaskTypes, Places, Serving, Holding
  <2>3. HeldSame /\ SentSame
    BY <1>0, <1>2 DEF TaskTypes, HeldSame, SentSame, Held, Sent, Holding, Serving
  <2>4. OnePlace' BY <1>0, <1>2, <2>1, <2>3, SentinelTaken
  <2> QED BY <2>2, <2>4 DEF TaskInv, OnePlace
<1>3. CASE PopTask(w)
  BY <1>0, <1>1, <1>3 DEF TaskTypes, PopTask, AtPop, WorkerAt, WorkerGoto, Holding,
     serviceVars, countVars, runVars, searchVars, workerVars, senderVars,
       processVars
<1>4. CASE StealTask(w)
  <2> DEFINE v == lastSteal[w]
             x == Head(queTask[v])
  <2>1. /\ v \in Workers /\ queTask[v] # << >> /\ x # Sentinel /\ wpc[w] = "steal"
        /\ queTask' = [queTask EXCEPT ![v] = Tail(@)]
        /\ wpc' = [wpc EXCEPT ![w] = "proc"] /\ cur' = [cur EXCEPT ![w] = x]
        /\ lastSteal' = [lastSteal EXCEPT ![w] = After(@)]
        /\ lastWorker' = [lastWorker EXCEPT ![x] = w]
        /\ UNCHANGED <<onTask, spc, dst, svcWorkerCnt, shut>>
    BY <1>0, <1>4 DEF TaskTypes, StealTask, CanSteal, NextSteal, WorkerAt, WorkerGoto,
       serviceVars, countVars, runVars, searchVars, workerVars, senderVars,
       processVars
  <2>2. lastSteal' \in [Workers -> Workers] BY <1>0, <2>1, AfterType DEF TaskTypes
  <2>3. lastWorker' \in [Services -> Workers \union {NoWorker}] BY <1>0, <2>1 DEF TaskTypes
  <2> QED BY <1>1, <2>1, <2>2, <2>3 DEF Holding
<1>5. CASE PopSentinel(w)
  BY <1>0, <1>2, <1>5 DEF TaskTypes, PopSentinel, AtPop, WorkerAt, WorkerGoto, Holding,
     Serving, serviceVars, countVars, runVars, searchVars, workerVars, senderVars,
       processVars
<1>6. CASE StealSentinel(w)
  BY <1>0, <1>2, <1>6 DEF TaskTypes, StealSentinel, CanSteal, WorkerAt, WorkerGoto,
     Holding, Serving, serviceVars, countVars, runVars, searchVars, workerVars, senderVars,
       processVars
<1> QED BY <1>3, <1>4, <1>5, <1>6

LEMMA TasksWorker ==
    ASSUME TaskInv, NEW w \in Workers, Requeue(w) \/ OffTask(w) \/ Retake(w)
    PROVE  TaskInv'
<1> DEFINE x == cur[w]
<1>0. TaskTypes /\ OnePlace BY DEF TaskInv, OnePlace
<1>1. CASE Requeue(w)
  <2> DEFINE n == Len(queTask[w]) + 1
  <2>1. /\ wpc[w] = "requeue" /\ x \in Services
        /\ queTask' = [queTask EXCEPT ![w] = Append(@, x)]
        /\ wpc' = [wpc EXCEPT ![w] = "top"] /\ cur' = [cur EXCEPT ![w] = None]
        /\ UNCHANGED <<onTask, spc, dst, svcWorkerCnt, lastSteal, lastWorker, shut>>
    BY <1>0, <1>1 DEF TaskTypes, Requeue, WorkerAt, WorkerGoto, Serving, Holding,
       serviceVars, countVars, runVars, searchVars, workerVars, senderVars,
       processVars
  <2>2. /\ queTask' \in [Workers -> Seq(Services \union {Sentinel})]
        /\ n \in Nat /\ QueuedMore(x, w, n)
    BY <1>0, <2>1, QueueAppend DEF QueuedMore
  <2>3. TaskTypes' BY <1>0, <2>1, <2>2 DEF TaskTypes, Places, Serving, Holding
  <2>4. HeldLess(w) /\ SentSame /\ Held(x, w) /\ \A s \in Services : Held(s, w) => s = x
    BY <1>0, <2>1 DEF TaskTypes, HeldLess, SentSame, Held, Sent, Holding
  <2>5. OnePlace' BY <1>0, <2>1, <2>2, <2>4, TaskQueued
  <2> QED BY <2>3, <2>5 DEF TaskInv, OnePlace
<1>2. CASE OffTask(w)
  <2>1. /\ wpc[w] = "off" /\ x \in Services /\ onTask' = [onTask EXCEPT ![x] = FALSE]
        /\ wpc' = [wpc EXCEPT ![w] = "recheck"]
        /\ UNCHANGED <<queTask, cur, spc, dst, svcWorkerCnt, lastSteal, lastWorker, shut>>
    BY <1>0, <1>2 DEF TaskTypes, OffTask, WorkerAt, WorkerGoto, Serving, Holding,
       serviceVars, countVars, runVars, searchVars, workerVars, senderVars,
       processVars
  <2>2. TaskTypes' BY <1>0, <2>1 DEF TaskTypes, Places, Serving, Holding
  <2>3. /\ QueuedSame /\ HeldLess(w) /\ SentSame
        /\ Held(x, w) /\ \A s \in Services : Held(s, w) => s = x
    BY <1>0, <2>1 DEF TaskTypes, QueuedSame, HeldLess, SentSame, Queued, Held, Sent, Holding
  <2>4. OnePlace' BY <1>0, <2>1, <2>3, TaskEnds
  <2> QED BY <2>2, <2>4 DEF TaskInv, OnePlace
<1>3. CASE Retake(w)
  <2>1. /\ wpc[w] = "retake" /\ x \in Services /\ onTask' = [onTask EXCEPT ![x] = TRUE]
        /\ UNCHANGED <<queTask, spc, dst, svcWorkerCnt, lastSteal, lastWorker, shut>>
    BY <1>0, <1>3 DEF TaskTypes, Retake, WorkerAt, Serving,
       serviceVars, countVars, runVars, searchVars, workerVars, senderVars,
       processVars
  <2>2. CASE onTask[x]
    <3>1. onTask' = onTask BY <1>0, <2>1, <2>2 DEF TaskTypes
    <3>2. WorkerMoves(w, "top")
      BY <1>3, <2>1, <2>2, <3>1 DEF Retake, WorkerMoves, WorkerGoto
    <3>3. TaskTypes' /\ Steady
      BY <1>0, <2>1, <3>2, WorkerFrame DEF TaskTypes, Places, Serving, Holding
    <3> QED BY <1>0, <3>3, SteadyOnePlace DEF TaskInv, OnePlace
  <2>3. CASE ~onTask[x]
    <3>1. cur' = cur /\ wpc' = [wpc EXCEPT ![w] = "requeue"]
      BY <1>3, <2>3 DEF Retake, WorkerGoto
    <3>2. TaskTypes' BY <1>0, <2>1, <3>1 DEF TaskTypes, Places, Serving, Holding
    <3>3. QueuedSame /\ HeldMore(x, w) /\ SentSame
      BY <1>0, <2>1, <3>1
      DEF TaskTypes, QueuedSame, HeldMore, SentSame, Queued, Held, Sent, Holding
    <3>4. OnePlace' BY <1>0, <2>1, <2>3, <3>3, TaskAppears
    <3> QED BY <3>2, <3>4 DEF TaskInv, OnePlace
  <2> QED BY <2>2, <2>3
<1> QED BY <1>1, <1>2, <1>3

LEMMA TasksShutdown == ASSUME TaskInv, ShutdownPush PROVE TaskInv'
<1>0. TaskTypes /\ OnePlace BY DEF TaskInv, OnePlace
<1>1. /\ shut \in Workers /\ shut' \in Nat
      /\ queTask' = [queTask EXCEPT ![shut] = Append(@, Sentinel)]
      /\ UNCHANGED <<wpc, cur, onTask, spc, dst, svcWorkerCnt, lastSteal, lastWorker>>
  BY <1>0, WorkerNumAssumption DEF TaskTypes, ShutdownPush, Workers,
     serviceVars, countVars, runVars, searchVars, workerVars, senderVars,
       processVars
<1>2. /\ queTask' \in [Workers -> Seq(Services \union {Sentinel})]
      /\ QueuedSame
  BY <1>0, <1>1, QueueAppend, NamesAssumption DEF QueuedSame
<1>3. TaskTypes' BY <1>0, <1>1, <1>2 DEF TaskTypes
<1>4. Steady BY <1>1, <1>2 DEF Steady, QueuedSame, Held, Sent
<1> QED BY <1>0, <1>3, <1>4, SteadyOnePlace DEF TaskInv, OnePlace

----------------------------------------------------------------------------
(* The invariant *)

LEMMA InitTaskInv == Init => TaskInv
<1> SUFFICES ASSUME Init PROVE TaskInv OBVIOUS
<1>1. TaskTypes
  BY WorkerNumAssumption DEF Init, TaskTypes, Workers, Places, SenderPlaces, Serving, Holding
<1>2. \A s \in Services :
        /\ \A w \in Workers, i \in Nat : ~Queued(s, w, i)
        /\ \A w \in Workers : ~Held(s, w)
        /\ \A p \in Senders : ~Sent(s, p)
        /\ ~onTask[s]
  BY DEF Init, Queued, Held, Sent, Holding
<1> QED BY <1>1, <1>2 DEF TaskInv, AtMostOne, AtLeastOne

LEMMA NextTaskInv == TaskInv /\ [Next]_vars => TaskInv'
<1> SUFFICES ASSUME TaskInv, [Next]_vars PROVE TaskInv' OBVIOUS
<1>1. TaskTypes /\ OnePlace BY DEF TaskInv, OnePlace
<1>2. ASSUME TaskTypes' /\ Steady PROVE TaskInv'
  BY <1>1, <1>2, SteadyOnePlace DEF TaskInv, OnePlace
<1>3. ASSUME NEW p \in Senders, NEW s \in Services, SendBegin(p, s) PROVE TaskInv'
  BY <1>1, <1>2, <1>3, SteadySender
<1>4. ASSUME NEW p \in Senders, SenderStep(p) PROVE TaskInv'
  <2>1. CASE SendCas(p) \/ SendEnqueue(p) BY <2>1, TasksSender
  <2>2. CASE ~(SendCas(p) \/ SendEnqueue(p))
    BY <1>1, <1>2, <1>4, <2>2, SteadySender DEF SenderStep
  <2> QED BY <2>1, <2>2
<1>5. ASSUME NEW w \in Workers, WorkerStep(w) PROVE TaskInv'
  <2>1. CASE PopTask(w) \/ StealTask(w) \/ PopSentinel(w) \/ StealSentinel(w)
    BY <2>1, TasksTaken
  <2>2. CASE Requeue(w) \/ OffTask(w) \/ Retake(w) BY <2>2, TasksWorker
  <2>3. CASE ~(\/ PopTask(w) \/ StealTask(w) \/ PopSentinel(w) \/ StealSentinel(w)
               \/ Requeue(w) \/ OffTask(w) \/ Retake(w))
    BY <1>1, <1>2, <1>5, <2>3, SteadyWorker DEF WorkerStep
  <2> QED BY <2>1, <2>2, <2>3
<1>6. ASSUME NEW w \in Workers, SpuriousWake(w) PROVE TaskInv'
  BY <1>1, <1>2, <1>6, SteadyWorker
<1>7. CASE ShutdownPush BY <1>7, TasksShutdown
<1>8. CASE ShutdownNotify \/ UNCHANGED vars BY <1>1, <1>2, <1>8, SteadyRest
<1> QED BY <1>3, <1>4, <1>5, <1>6, <1>7, <1>8 DEF Next

LEMMA TaskInvariant == Spec => []TaskInv
BY InitTaskInv, NextTaskInv, PTL DEF Spec

(* No two workers run callbacks of one service at the same time (proc_svc  *)
(* of pps_worker.cpp), however many there are and whatever they steal.     *)
THEOREM RunsOnOneWorker == Spec => []SingleRunner
<1>1. TaskInv => SingleRunner
  <2> SUFFICES ASSUME TaskInv, NEW v \in Workers, NEW w \in Workers, v # w,
                      wpc[v] \in Holding, wpc[w] \in Holding, cur[v] = cur[w]
               PROVE  FALSE
    BY DEF SingleRunner
  <2>1. cur[v] \in Services BY DEF TaskInv, TaskTypes, Serving
  <2>2. Held(cur[v], v) /\ Held(cur[v], w) BY DEF Held
  <2> QED BY <2>1, <2>2 DEF TaskInv, AtMostOne
<1> QED BY <1>1, TaskInvariant, PTL

LEMMA TaskInvOneTask == TaskInv => OneTask
<1> SUFFICES ASSUME TaskInv, NEW s \in Services
             PROVE  IF onTask[s] THEN \E t \in Tasks(s) : Tasks(s) = {t} ELSE Tasks(s) = {}
  BY DEF OneTask
<1>1. AtMostOne(s) /\ (onTask[s] <=> AtLeastOne(s)) BY DEF TaskInv
<1>2. \A w \in Workers : DOMAIN queTask[w] \subseteq Nat BY DEF TaskInv, TaskTypes
<1> DEFINE Is(t) ==
      \/ \E w \in Workers, i \in Nat : t = <<"queued", w, i>> /\ Queued(s, w, i)
      \/ \E w \in Workers : t = <<"held", w>> /\ Held(s, w)
      \/ \E p \in Senders : t = <<"sent", p>> /\ Sent(s, p)
<1>3. \A t : t \in Tasks(s) <=> Is(t)
  <2> DEFINE Q == UNION {{<<"queued", w, i>> : i \in {j \in DOMAIN queTask[w] : queTask[w][j] = s}}
                           : w \in Workers}
             H == {<<"held", w>> : w \in {v \in Workers : wpc[v] \in Holding /\ cur[v] = s}}
             E == {<<"sent", p>> : p \in {q \in Senders : spc[q] = "enqueue" /\ dst[q] = s}}
  <2>1. \A t : t \in Q <=>
                  \E w \in Workers, i \in Nat : t = <<"queued", w, i>> /\ Queued(s, w, i)
    BY <1>2 DEF Queued
  <2>2. \A t : t \in H <=> \E w \in Workers : t = <<"held", w>> /\ Held(s, w) BY DEF Held
  <2>3. \A t : t \in E <=> \E p \in Senders : t = <<"sent", p>> /\ Sent(s, p) BY DEF Sent
  <2>4. Tasks(s) = Q \union H \union E BY DEF Tasks
  <2> HIDE DEF Q, H, E
  <2> QED BY <2>1, <2>2, <2>3, <2>4
<1>4. ASSUME NEW t, NEW u, Is(t), Is(u) PROVE t = u
  <2>1. CASE \E w \in Workers, i \in Nat : t = <<"queued", w, i>> /\ Queued(s, w, i)
    <3>1. PICK w \in Workers, i \in Nat : t = <<"queued", w, i>> /\ Queued(s, w, i) BY <2>1
    <3>2. PICK v \in Workers, j \in Nat : u = <<"queued", v, j>> /\ Queued(s, v, j)
      BY <1>1, <1>4, <3>1 DEF AtMostOne
    <3> QED BY <1>1, <3>1, <3>2 DEF AtMostOne
  <2>2. CASE \E w \in Workers : t = <<"held", w>> /\ Held(s, w)
    <3>1. PICK w \in Workers : t = <<"held", w>> /\ Held(s, w) BY <2>2
    <3>2. PICK v \in Workers : u = <<"held", v>> /\ Held(s, v)
      BY <1>1, <1>4, <3>1 DEF AtMostOne
    <3> QED BY <1>1, <3>1, <3>2 DEF AtMostOne
  <2>3. CASE \E p \in Senders : t = <<"sent", p>> /\ Sent(s, p)
    <3>1. PICK p \in Senders : t = <<"sent", p>> /\ Sent(s, p) BY <2>3
    <3>2. PICK q \in Senders : u = <<"sent", q>> /\ Sent(s, q)
      BY <1>1, <1>4, <3>1 DEF AtMostOne
    <3> QED BY <1>1, <3>1, <3>2 DEF AtMostOne
  <2> QED BY <1>4, <2>1, <2>2, <2>3
<1>5. (\E t : Is(t)) <=> AtLeastOne(s)
  <2>1. ASSUME NEW t, Is(t) PROVE AtLeastOne(s) BY <2>1 DEF AtLeastOne
  <2>2. ASSUME NEW w \in Workers, NEW i \in Nat, Queued(s, w, i) PROVE \E t : Is(t)
    <3>1. Is(<<"queued", w, i>>) BY <2>2
    <3> QED BY <3>1
  <2>3. ASSUME NEW w \in Workers, Held(s, w) PROVE \E t : Is(t)
    <3>1. Is(<<"held", w>>) BY <2>3
    <3> QED BY <3>1
  <2>4. ASSUME NEW p \in Senders, Sent(s, p) PROVE \E t : Is(t)
    <3>1. Is(<<"sent", p>>) BY <2>4
    <3> QED BY <3>1
  <2> HIDE DEF Is
  <2> QED BY <2>1, <2>2, <2>3, <2>4 DEF AtLeastOne
<1> HIDE DEF Is
<1>6. CASE onTask[s]
  <2>1. PICK t : Is(t) BY <1>1, <1>5, <1>6
  <2> QED BY <1>3, <1>4, <1>6, <2>1
<1>7. CASE ~onTask[s] BY <1>1, <1>3, <1>5, <1>7
<1> QED BY <1>6, <1>7

(* onTask of a service tells exactly whether it has a task, and it never   *)
(* has two: in the workers' queues, with a worker, or with a sender that   *)
(* has won the compare-and-swap and not queued the service yet.            *)
THEOREM HasOneTask == Spec => []OneTask
BY TaskInvOneTask, TaskInvariant, PTL

----------------------------------------------------------------------------
(* Mail and the end of a service.  No mail is stranded because whoever     *)
(* leaves a task-less service with mail still has to look at onTask or at  *)
(* the mailbox (NoStrandedMail is inductive once TaskInv is known).  No    *)
(* service is freed under a sender because calledCnt counts the calls      *)
(* under way (Called), an exited service refuses new ones (Gone), and what *)
(* is reserved in a mailbox and not published belongs to such a call       *)
(* (Pending): with no call under way, everything in it can be dropped.     *)

(* The calls of svc_sendmsg to service s that are under way.               *)
Callers(s) == {p \in Senders : spc[p] # "idle" /\ dst[p] = s}

MailTypes ==
    /\ exitCalled \in [Services -> BOOLEAN]
    /\ cbSet \in [Services -> BOOLEAN]
    /\ svcCnt \in [Services -> Int]
    /\ calledCnt \in [Services -> Int]
    /\ mqIn \in [Services -> Seq(Senders \union {Ready})]
    /\ svcWaitFree \in [Workers -> [Services -> Nat]]

Called == \A s \in Services : calledCnt[s] = Cardinality(Callers(s))

Pending ==
    \A s \in Services : \A i \in DOMAIN mqIn[s] :
        mqIn[s][i] # Ready => spc[mqIn[s][i]] = "publish" /\ dst[mqIn[s][i]] = s

Gone ==
    /\ \A s \in Services : svcCnt[s] = (IF exitCalled[s] THEN 1 ELSE 0)
    /\ \A s \in Services : ~cbSet[s] => exitCalled[s]
    /\ \A w \in Workers, s \in Services : svcWaitFree[w][s] > 0 => exitCalled[s]
    /\ \A w \in Workers : wpc[w] = "free" => exitCalled[cur[w]]

Kept ==
    /\ \A w \in Workers : wpc[w] \notin Serving => cur[w] = None
    /\ \A s \in Services : exitCalled[s] /\ cbSet[s] /\ fault = None =>
          onTask[s] \/ \E w \in Workers : cur[w] = s \/ svcWaitFree[w][s] > 0

MailInv ==
    /\ TaskInv /\ MailTypes /\ Called /\ Pending /\ Gone /\ Kept
    /\ NotFreedUnderSender /\ FreedMailboxEmpty /\ NoStrandedMail

(* Steps that leave mailboxes, counts and callbacks alone.                 *)
MailSame == UNCHANGED <<mqIn, exitCalled, svcCnt, calledCnt, cbSet, svcWaitFree>>

(* Such a step of a sender, within its call.                               *)
QuietSender(p) ==
    /\ MailSame /\ dst' = dst /\ cur' = cur /\ fault = None
    /\ \A q \in Senders \ {p} : spc'[q] = spc[q]
    /\ spc[p] \notin {"idle", "publish"} /\ spc'[p] \notin {"idle", "publish"}
    /\ spc'[p] \in {"push", "cas", "enqueue"} =>
          \/ spc[p] = "check" /\ svcCnt[dst[p]] = 0
          \/ spc[p] = "cas"
    /\ \A s \in Services : onTask[s] => onTask'[s]
    /\ spc[p] = "cas" => onTask'[dst[p]]
    /\ \A w \in Workers : wpc'[w] = wpc[w] \/ {wpc[w], wpc'[w]} = {"sleep", "unidle"}

LEMMA QuietSenders ==
    ASSUME TaskTypes, NEW p \in Senders,
           \/ SendCheck(p) \/ SendFull(p) \/ SendCas(p) \/ SendEnqueue(p) \/ SendCount(p)
           \/ SendNotifyTest(p) \/ (\E w \in Workers : SendWake(p, w)) \/ SendWakeNobody(p)
    PROVE  QuietSender(p)
<1> USE DEF SenderAt, SenderGoto, WorkerGoto, serviceVars, countVars, runVars, searchVars,
            workerVars, senderVars, processVars, TaskTypes, QuietSender, MailSame
<1>1. CASE SendCheck(p) BY <1>1 DEF SendCheck
<1>2. CASE SendFull(p) BY <1>2 DEF SendFull
<1>3. CASE SendCas(p) BY <1>3 DEF SendCas
<1>4. CASE SendEnqueue(p) BY <1>4 DEF SendEnqueue
<1>5. CASE SendCount(p) BY <1>5 DEF SendCount
<1>6. CASE SendNotifyTest(p) BY <1>6 DEF SendNotifyTest
<1>7. ASSUME NEW w \in Workers, SendWake(p, w) PROVE QuietSender(p)
  BY <1>7 DEF SendWake, asleep
<1>8. CASE SendWakeNobody(p) BY <1>8 DEF SendWakeNobody
<1> QED BY <1>1, <1>2, <1>3, <1>4, <1>5, <1>6, <1>7, <1>8

(* Such a step of a worker.                                                *)
QuietWorker(w) ==
    /\ MailSame /\ UNCHANGED <<spc, dst>> /\ fault = None
    /\ \A v \in Workers \ {w} : wpc'[v] = wpc[v] /\ cur'[v] = cur[v]
    /\ \/ cur'[w] = cur[w]
       \/ wpc[w] \notin Serving
       \/ onTask'[cur[w]] \/ ~exitCalled[cur[w]]
    /\ wpc'[w] \notin Serving => cur'[w] = None \/ (cur'[w] = cur[w] /\ wpc[w] \notin Serving)
    /\ wpc'[w] = "free" => exitCalled[cur'[w]]
    /\ \A s \in Services : onTask[s] =>
          onTask'[s] \/ (wpc[w] \in Serving /\ wpc'[w] = "recheck" /\ cur'[w] = s)
    /\ wpc[w] \in {"recheck", "retake"} =>
          \/ wpc'[w] = "retake" /\ cur'[w] = cur[w]
          \/ onTask'[cur[w]] \/ exitCalled[cur[w]] \/ mqIn[cur[w]] = << >>

LEMMA QuietWorkers ==
    ASSUME TaskInv, NEW w \in Workers,
           \/ PopTask(w) \/ PopSentinel(w) \/ PopNothing(w)
           \/ StealNothing(w) \/ StealTask(w) \/ StealSentinel(w)
           \/ CountIdle(w) \/ CheckIdle(w) \/ Wait(w) \/ SpuriousWake(w) \/ Unidle(w) 
           \/ NoMsg(w) \/ (\E n \in 0 .. MaxParked : RetryWaitSend(w, n))
           \/ Requeue(w) \/ OffTask(w) \/ Recheck(w) \/ Retake(w) \/ Uncount(w)
    PROVE  QuietWorker(w)
<1>0. TaskTypes BY DEF TaskInv
<1> USE <1>0 DEF WorkerAt, WorkerGoto, serviceVars, countVars, runVars, searchVars,
            workerVars, senderVars, processVars, TaskTypes, QuietWorker, MailSame,
            Serving, Holding
<1>1. CASE PopTask(w) \/ PopSentinel(w) \/ PopNothing(w)
  BY <1>1 DEF PopTask, PopSentinel, PopNothing, AtPop
<1>2. CASE StealNothing(w) BY <1>2 DEF StealNothing, NextSteal
<1>3. CASE StealTask(w) BY <1>3 DEF StealTask, NextSteal
<1>4. CASE StealSentinel(w) BY <1>4 DEF StealSentinel
<1>5. CASE CountIdle(w) \/ CheckIdle(w) BY <1>5 DEF CountIdle, CheckIdle
<1>6. CASE Wait(w) \/ SpuriousWake(w) \/ Unidle(w) BY <1>6 DEF Wait, SpuriousWake, Unidle
<1>7. CASE NoMsg(w) BY <1>7 DEF NoMsg
<1>8. ASSUME NEW n \in 0 .. MaxParked, RetryWaitSend(w, n) PROVE QuietWorker(w)
  BY <1>8 DEF RetryWaitSend
<1>9. CASE Requeue(w)
  <2>1. wpc[w] = "requeue" /\ cur[w] \in Services BY <1>9 DEF Requeue
  <2>2. onTask[cur[w]] BY <2>1 DEF TaskInv, AtLeastOne, Held
  <2> QED BY <1>9, <2>2 DEF Requeue
<1>10. CASE OffTask(w) BY <1>10 DEF OffTask
<1>11. CASE Recheck(w) BY <1>11 DEF Recheck
<1>12. CASE Retake(w) BY <1>12 DEF Retake
<1>13. CASE Uncount(w) BY <1>13 DEF Uncount
<1> QED BY <1>1, <1>2, <1>3, <1>4, <1>5, <1>6, <1>7, <1>8, <1>9, <1>10, <1>11, <1>12, <1>13

LEMMA QuietSenderMail ==
    ASSUME MailInv, TaskInv', NEW p \in Senders, QuietSender(p)
    PROVE  MailInv'
<1> USE DEF MailInv, QuietSender, MailSame
<1>0. /\ spc \in [Senders -> SenderPlaces] /\ dst \in [Senders -> Services \union {None}]
      /\ wpc \in [Workers -> Places] /\ cur \in [Workers -> Services \union {None}]
      /\ \A q \in Senders : spc[q] # "idle" => dst[q] \in Services
  BY DEF TaskInv, TaskTypes
<1>1. MailTypes' BY DEF MailTypes
<1>2. Called'
  <2>1. \A s \in Services : Callers(s)' = Callers(s) BY DEF Callers
  <2> QED BY <2>1 DEF Called
<1>3. Pending'
  <2> SUFFICES ASSUME NEW s \in Services, NEW i \in DOMAIN mqIn[s], mqIn[s][i] # Ready
               PROVE  spc'[mqIn[s][i]] = "publish" /\ dst'[mqIn[s][i]] = s
    BY DEF Pending
  <2>1. mqIn[s][i] \in Senders BY DEF MailTypes
  <2>2. spc[mqIn[s][i]] = "publish" /\ dst[mqIn[s][i]] = s BY DEF Pending
  <2> QED BY <2>1, <2>2
<1>4. Gone' BY DEF Gone
<1>5. Kept' BY <1>0 DEF Kept, Serving, Holding
<1>6. NotFreedUnderSender' BY <1>0 DEF NotFreedUnderSender, Gone
<1>7. FreedMailboxEmpty' BY DEF FreedMailboxEmpty
<1>8. NoStrandedMail'
  <2> SUFFICES ASSUME NEW s \in Services, mqIn[s] # << >>, ~onTask'[s], ~exitCalled[s]
               PROVE  \/ \E q \in Senders : spc'[q] \in {"publish", "cas"} /\ dst[q] = s
                      \/ \E w \in Workers : wpc'[w] \in {"recheck", "retake"} /\ cur[w] = s
    BY DEF NoStrandedMail
  <2>1. ~onTask[s] OBVIOUS
  <2>2. CASE \E q \in Senders : spc[q] \in {"publish", "cas"} /\ dst[q] = s
    <3>1. PICK q \in Senders : spc[q] \in {"publish", "cas"} /\ dst[q] = s BY <2>2
    <3>2. q # p BY <3>1
    <3> QED BY <3>1, <3>2
  <2>3. CASE \E w \in Workers : wpc[w] \in {"recheck", "retake"} /\ cur[w] = s
    <3>1. PICK w \in Workers : wpc[w] \in {"recheck", "retake"} /\ cur[w] = s BY <2>3
    <3>2. wpc'[w] = wpc[w] BY <3>1
    <3> QED BY <3>1, <3>2
  <2> QED BY <2>1, <2>2, <2>3 DEF NoStrandedMail
<1> QED BY <1>1, <1>2, <1>3, <1>4, <1>5, <1>6, <1>7, <1>8

LEMMA QuietWorkerMail ==
    ASSUME MailInv, TaskInv', NEW w \in Workers, QuietWorker(w)
    PROVE  MailInv'
<1> USE DEF MailInv, QuietWorker, MailSame
<1>0. /\ wpc \in [Workers -> Places] /\ cur \in [Workers -> Services \union {None}]
      /\ \A v \in Workers : wpc[v] \in Serving => cur[v] \in Services
  BY DEF TaskInv, TaskTypes
<1>1. MailTypes' BY DEF MailTypes
<1>2. Called'
  <2>1. \A s \in Services : Callers(s)' = Callers(s) BY DEF Callers
  <2> QED BY <2>1 DEF Called
<1>3. Pending' BY DEF Pending
<1>4. Gone' BY DEF Gone
<1>5. Kept' BY <1>0, NoneApart DEF Kept, Serving, Holding
<1>6. NotFreedUnderSender' BY DEF NotFreedUnderSender
<1>7. FreedMailboxEmpty' BY DEF FreedMailboxEmpty
<1>8. NoStrandedMail'
  <2> SUFFICES ASSUME NEW s \in Services, mqIn[s] # << >>, ~onTask'[s], ~exitCalled[s]
               PROVE  \/ \E p \in Senders : spc[p] \in {"publish", "cas"} /\ dst[p] = s
                      \/ \E v \in Workers : wpc'[v] \in {"recheck", "retake"} /\ cur'[v] = s
    BY DEF NoStrandedMail
  <2>1. CASE onTask[s] BY <2>1
  <2>2. CASE \E v \in Workers : wpc[v] \in {"recheck", "retake"} /\ cur[v] = s
    <3>1. PICK v \in Workers : wpc[v] \in {"recheck", "retake"} /\ cur[v] = s BY <2>2
    <3>2. wpc'[v] \in {"recheck", "retake"} /\ cur'[v] = s BY <3>1
    <3> QED BY <3>2
  <2> QED BY <2>1, <2>2 DEF NoStrandedMail
<1> QED BY <1>1, <1>2, <1>3, <1>4, <1>5, <1>6, <1>7, <1>8
LEMMA QuietShutdownMail ==
    ASSUME MailInv, TaskInv', ShutdownPush \/ ShutdownNotify \/ UNCHANGED vars
    PROVE  MailInv'
<1> USE DEF MailInv
<1>0. /\ MailSame /\ UNCHANGED <<spc, dst, cur, onTask, fault>>
      /\ \A v \in Workers : wpc'[v] = wpc[v] \/ (wpc[v] = "sleep" /\ wpc'[v] = "unidle")
  BY DEF ShutdownPush, ShutdownNotify, asleep, vars, serviceVars, countVars, runVars,
     searchVars, workerVars, senderVars, processVars, MailSame
<1> USE <1>0 DEF MailSame
<1>1. MailTypes' BY DEF MailTypes
<1>2. Called'
  <2>1. \A s \in Services : Callers(s)' = Callers(s) BY DEF Callers
  <2> QED BY <2>1 DEF Called
<1>3. Pending' BY DEF Pending
<1>4. Gone' BY DEF Gone
<1>5. Kept' BY DEF Kept, Serving, Holding
<1>6. NotFreedUnderSender' BY DEF NotFreedUnderSender
<1>7. FreedMailboxEmpty' BY DEF FreedMailboxEmpty
<1>8. NoStrandedMail'
  <2> SUFFICES ASSUME NEW s \in Services, mqIn[s] # << >>, ~onTask[s], ~exitCalled[s],
                      NEW v \in Workers, wpc[v] \in {"recheck", "retake"}, cur[v] = s
               PROVE  wpc'[v] \in {"recheck", "retake"} /\ cur'[v] = s
    BY DEF NoStrandedMail
  <2> QED OBVIOUS
<1> QED BY <1>1, <1>2, <1>3, <1>4, <1>5, <1>6, <1>7, <1>8

----------------------------------------------------------------------------
(* The steps of a call that begin and end it, and fill the mailbox         *)

LEMMA CallersFinite == \A s \in Services : IsFiniteSet(Callers(s))
BY ThreadsAssumption, FS_Subset DEF Callers

LEMMA CallBegins ==
    ASSUME MailInv, TaskInv', NEW p \in Senders, NEW x \in Services, SendBegin(p, x)
    PROVE  MailInv'
<1> USE DEF MailInv
<1>0. TaskTypes BY DEF TaskInv
<1>1. /\ UNCHANGED <<mqIn, exitCalled, svcCnt, cbSet, svcWaitFree, cur, wpc, onTask, fault>>
      /\ spc[p] = "idle" /\ spc' = [spc EXCEPT ![p] = "check"]
      /\ dst' = [dst EXCEPT ![p] = x]
      /\ calledCnt' = [calledCnt EXCEPT ![x] = @ + 1]
  BY DEF SendBegin, SenderAt, SenderGoto, workerVars, runVars, searchVars, processVars
<1>2. \A q \in Senders \ {p} : spc'[q] = spc[q] /\ dst'[q] = dst[q]
  BY <1>0, <1>1 DEF TaskTypes
<1>3. spc'[p] = "check" /\ dst'[p] = x BY <1>0, <1>1 DEF TaskTypes
<1>4. MailTypes' BY <1>1 DEF MailTypes
<1>5. Called'
  <2>1. p \notin Callers(x) /\ Callers(x)' = Callers(x) \union {p}
    BY <1>1, <1>2, <1>3 DEF Callers
  <2>2. \A s \in Services \ {x} : Callers(s)' = Callers(s)
    BY <1>1, <1>2, <1>3 DEF Callers
  <2>3. Cardinality(Callers(x)') = Cardinality(Callers(x)) + 1
    BY <2>1, CallersFinite, FS_AddElement
  <2> QED BY <1>1, <2>2, <2>3 DEF Called, MailTypes
<1>6. Pending'
  <2> SUFFICES ASSUME NEW s \in Services, NEW i \in DOMAIN mqIn[s], mqIn[s][i] # Ready
               PROVE  spc'[mqIn[s][i]] = "publish" /\ dst'[mqIn[s][i]] = s
    BY <1>1 DEF Pending
  <2>1. mqIn[s][i] \in Senders BY DEF MailTypes
  <2>2. spc[mqIn[s][i]] = "publish" /\ dst[mqIn[s][i]] = s BY DEF Pending
  <2> QED BY <1>1, <1>2, <2>1, <2>2
<1>7. Gone' BY <1>1 DEF Gone
<1>8. Kept' BY <1>1 DEF Kept
<1>9. NotFreedUnderSender' BY <1>1, <1>2, <1>3 DEF NotFreedUnderSender
<1>10. FreedMailboxEmpty' BY <1>1 DEF FreedMailboxEmpty
<1>11. NoStrandedMail'
  <2> SUFFICES ASSUME NEW s \in Services,
                      NEW q \in Senders, spc[q] \in {"publish", "cas"}, dst[q] = s
               PROVE  spc'[q] \in {"publish", "cas"} /\ dst'[q] = s
    BY <1>1 DEF NoStrandedMail
  <2> QED BY <1>1, <1>2
<1> QED BY <1>4, <1>5, <1>6, <1>7, <1>8, <1>9, <1>10, <1>11

LEMMA CallEnds ==
    ASSUME MailInv, TaskInv', NEW p \in Senders, NEW x \in Services, dst[p] = x, SendEnd(p)
    PROVE  MailInv'
<1> USE DEF MailInv
<1>0. TaskTypes BY DEF TaskInv
<1>1. /\ UNCHANGED <<mqIn, exitCalled, svcCnt, cbSet, svcWaitFree, cur, wpc, onTask, fault>>
      /\ spc[p] = "end" /\ spc' = [spc EXCEPT ![p] = "idle"]
      /\ dst' = [dst EXCEPT ![p] = None]
      /\ calledCnt' = [calledCnt EXCEPT ![x] = @ - 1]
  BY DEF SendEnd, SenderAt, SenderGoto, workerVars, runVars, searchVars, processVars
<1>2. \A q \in Senders \ {p} : spc'[q] = spc[q] /\ dst'[q] = dst[q]
  BY <1>0, <1>1 DEF TaskTypes
<1>3. spc'[p] = "idle" BY <1>0, <1>1 DEF TaskTypes
<1>4. MailTypes' BY <1>1 DEF MailTypes
<1>5. Called'
  <2>1. p \in Callers(x) /\ Callers(x)' = Callers(x) \ {p}
    BY <1>1, <1>2, <1>3 DEF Callers
  <2>2. \A s \in Services \ {x} : Callers(s)' = Callers(s)
    BY <1>1, <1>2, <1>3 DEF Callers
  <2>3. Cardinality(Callers(x)') = Cardinality(Callers(x)) - 1
    BY <1>1, <2>1, CallersFinite, FS_RemoveElement
  <2> QED BY <1>1, <2>2, <2>3 DEF Called, MailTypes
<1>6. Pending'
  <2> SUFFICES ASSUME NEW s \in Services, NEW i \in DOMAIN mqIn[s], mqIn[s][i] # Ready
               PROVE  spc'[mqIn[s][i]] = "publish" /\ dst'[mqIn[s][i]] = s
    BY <1>1 DEF Pending
  <2>1. mqIn[s][i] \in Senders BY DEF MailTypes
  <2>2. spc[mqIn[s][i]] = "publish" /\ dst[mqIn[s][i]] = s BY DEF Pending
  <2> QED BY <1>1, <1>2, <2>1, <2>2
<1>7. Gone' BY <1>1 DEF Gone
<1>8. Kept' BY <1>1 DEF Kept
<1>9. NotFreedUnderSender' BY <1>1, <1>2, <1>3 DEF NotFreedUnderSender
<1>10. FreedMailboxEmpty' BY <1>1 DEF FreedMailboxEmpty
<1>11. NoStrandedMail'
  <2> SUFFICES ASSUME NEW s \in Services,
                      NEW q \in Senders, spc[q] \in {"publish", "cas"}, dst[q] = s
               PROVE  spc'[q] \in {"publish", "cas"} /\ dst'[q] = s
    BY <1>1 DEF NoStrandedMail
  <2> QED BY <1>1, <1>2
<1> QED BY <1>4, <1>5, <1>6, <1>7, <1>8, <1>9, <1>10, <1>11

(* A sender takes its place in the mailbox, or publishes it.               *)
LEMMA MailArrives ==
    ASSUME MailInv, TaskInv', NEW p \in Senders, SendPush(p) \/ SendPublish(p)
    PROVE  MailInv'
<1> DEFINE x == dst[p]
<1> USE DEF MailInv
<1>0. TaskTypes BY DEF TaskInv
<1>1. /\ UNCHANGED <<exitCalled, svcCnt, calledCnt, cbSet, svcWaitFree, cur, wpc, onTask,
                     fault, dst>>
      /\ spc[p] \in {"push", "publish"} /\ spc'[p] \in {"publish", "cas"}
      /\ spc' = [spc EXCEPT ![p] = spc'[p]]
      /\ x \in Services
      /\ \A s \in Services \ {x} : mqIn'[s] = mqIn[s]
  BY <1>0 DEF SendPush, SendPublish, SenderAt, SenderGoto, workerVars, runVars, searchVars,
     processVars, TaskTypes, MailTypes
<1>2. \A q \in Senders \ {p} : spc'[q] = spc[q] BY <1>0, <1>1 DEF TaskTypes
<1>3. cbSet[x] BY <1>1 DEF NotFreedUnderSender
<1>4. ASSUME SendPush(p)
      PROVE  /\ mqIn' \in [Services -> Seq(Senders \union {Ready})]
             /\ \A i \in DOMAIN mqIn'[x] : mqIn'[x][i] # Ready =>
                  \/ mqIn'[x][i] = p /\ spc'[p] = "publish"
                  \/ i \in DOMAIN mqIn[x] /\ mqIn'[x][i] = mqIn[x][i]
                        /\ mqIn[x][i] # p
  <2>1. spc[p] = "push" /\ spc'[p] = "publish" /\ mqIn' = [mqIn EXCEPT ![x] = Append(@, p)]
    BY <1>0, <1>4 DEF SendPush, SenderAt, SenderGoto, TaskTypes
  <2>2. mqIn[x] \in Seq(Senders \union {Ready}) BY <1>1 DEF MailTypes
  <2>3. mqIn'[x] = Append(mqIn[x], p) BY <1>1, <2>1 DEF MailTypes
  <2>4. mqIn'[x] \in Seq(Senders \union {Ready}) BY <2>2, <2>3, AppendEntries
  <2>5. \A i \in DOMAIN mqIn'[x] : mqIn'[x][i] = p \/
                                    (i \in DOMAIN mqIn[x] /\ mqIn'[x][i] = mqIn[x][i])
    BY <2>2, <2>3, AppendEntries
  <2> QED BY <1>1, <2>1, <2>4, <2>5 DEF MailTypes
<1>5. ASSUME SendPublish(p)
      PROVE  /\ mqIn' \in [Services -> Seq(Senders \union {Ready})]
             /\ \A i \in DOMAIN mqIn'[x] : mqIn'[x][i] # Ready =>
                  i \in DOMAIN mqIn[x] /\ mqIn'[x][i] = mqIn[x][i] /\ mqIn[x][i] # p
  <2> DEFINE q == mqIn[x]
             r == [i \in DOMAIN q |-> IF q[i] = p THEN Ready ELSE q[i]]
  <2>1. mqIn' = [mqIn EXCEPT ![x] = r] BY <1>5 DEF SendPublish
  <2>2. q \in Seq(Senders \union {Ready}) BY <1>1 DEF MailTypes
  <2>3. r \in Seq(Senders \union {Ready}) BY <2>2
  <2>4. mqIn'[x] = r BY <1>1, <2>1 DEF MailTypes
  <2> QED BY <1>1, <2>1, <2>3, <2>4 DEF MailTypes
<1>6. MailTypes' BY <1>1, <1>4, <1>5 DEF MailTypes
<1>7. Called'
  <2>1. \A s \in Services : Callers(s)' = Callers(s) BY <1>1, <1>2 DEF Callers
  <2> QED BY <1>1, <2>1 DEF Called
<1>8. Pending'
  <2> SUFFICES ASSUME NEW s \in Services, NEW i \in DOMAIN mqIn'[s], mqIn'[s][i] # Ready
               PROVE  spc'[mqIn'[s][i]] = "publish" /\ dst[mqIn'[s][i]] = s
    BY <1>1 DEF Pending
  <2>1. ASSUME i \in DOMAIN mqIn[s], mqIn'[s][i] = mqIn[s][i], mqIn[s][i] # p
        PROVE  spc'[mqIn'[s][i]] = "publish" /\ dst[mqIn'[s][i]] = s
    <3>1. mqIn[s][i] \in Senders BY <2>1 DEF MailTypes
    <3> QED BY <1>2, <2>1, <3>1 DEF Pending
  <2>2. CASE s = x BY <1>1, <1>4, <1>5, <2>1, <2>2
  <2>3. CASE s # x
    <3>1. mqIn'[s] = mqIn[s] BY <1>1, <2>3
    <3>2. mqIn[s][i] # p BY <1>1, <2>3, <3>1 DEF Pending
    <3> QED BY <2>1, <3>1, <3>2
  <2> QED BY <2>2, <2>3
<1>9. Gone' BY <1>1 DEF Gone
<1>10. Kept' BY <1>1 DEF Kept
<1>11. NotFreedUnderSender' BY <1>1, <1>2 DEF NotFreedUnderSender
<1>12. FreedMailboxEmpty' BY <1>1, <1>3 DEF FreedMailboxEmpty
<1>13. NoStrandedMail'
  <2> SUFFICES ASSUME NEW s \in Services, mqIn'[s] # << >>, ~onTask[s], ~exitCalled[s],
                      s # x
               PROVE  \/ \E q \in Senders : spc'[q] \in {"publish", "cas"} /\ dst[q] = s
                      \/ \E w \in Workers : wpc[w] \in {"recheck", "retake"} /\ cur[w] = s
    BY <1>1 DEF NoStrandedMail
  <2>1. mqIn[s] # << >> BY <1>1
  <2>2. ASSUME NEW q \in Senders, spc[q] \in {"publish", "cas"}, dst[q] = s
        PROVE  spc'[q] \in {"publish", "cas"} /\ dst[q] = s
    BY <1>2, <2>2
  <2> QED BY <2>1, <2>2 DEF NoStrandedMail
<1> QED BY <1>6, <1>7, <1>8, <1>9, <1>10, <1>11, <1>12, <1>13
----------------------------------------------------------------------------
(* The steps of a worker that read the mailbox or free the service         *)

LEMMA MailHandled ==
    ASSUME MailInv, TaskInv', NEW w \in Workers, NEW outcome \in Outcomes,
           NEW x \in Services, cur[w] = x, HandleMsg(w, outcome)
    PROVE  MailInv'
<1> USE DEF MailInv
<1>0. TaskTypes BY DEF TaskInv
<1>1. /\ UNCHANGED <<calledCnt, cbSet, svcWaitFree, cur, onTask, fault, spc, dst>>
      /\ wpc[w] = "proc" /\ wpc' = [wpc EXCEPT ![w] = wpc'[w]]
      /\ wpc'[w] \in {"tail", "proc"}
      /\ ~exitCalled[x] /\ mqIn[x] # << >>
      /\ mqIn' = [mqIn EXCEPT ![x] = Tail(@)]
      /\ exitCalled' = [exitCalled EXCEPT ![x] = (outcome = "exits")]
      /\ svcCnt' = [svcCnt EXCEPT ![x] = @ + (IF outcome = "exits" THEN 1 ELSE 0)]
  BY <1>0 DEF HandleMsg, WorkerAt, WorkerGoto, Readable, searchVars, senderVars, processVars,
     TaskTypes
<1>2. \A v \in Workers \ {w} : wpc'[v] = wpc[v] BY <1>0, <1>1 DEF TaskTypes
<1>3. /\ \A s \in Services \ {x} : /\ exitCalled'[s] = exitCalled[s]
                                  /\ svcCnt'[s] = svcCnt[s] /\ mqIn'[s] = mqIn[s]
      /\ exitCalled'[x] = (outcome = "exits")
      /\ svcCnt'[x] = (IF outcome = "exits" THEN 1 ELSE 0)
  BY <1>1 DEF MailTypes, Gone
<1>4. onTask[x] /\ cbSet[x]
  BY <1>1 DEF TaskInv, AtLeastOne, Held, Holding, Gone
<1>5. /\ mqIn'[x] \in Seq(Senders \union {Ready})
      /\ \A i \in DOMAIN mqIn'[x] : i + 1 \in DOMAIN mqIn[x] /\ mqIn'[x][i] = mqIn[x][i + 1]
  <2>1. mqIn[x] \in Seq(Senders \union {Ready}) /\ mqIn'[x] = Tail(mqIn[x])
    BY <1>1 DEF MailTypes
  <2> DEFINE q == mqIn[x]
  <2>2. /\ Tail(q) \in Seq(Senders \union {Ready})
        /\ \A i \in DOMAIN Tail(q) : i \in Nat /\ Tail(q)[i] = q[i + 1]
        /\ \A i \in Nat : i \in DOMAIN Tail(q) <=> (i # 0 /\ i + 1 \in DOMAIN q)
    BY <1>1, <2>1, TailEntries
  <2> QED BY <2>1, <2>2
<1>6. MailTypes' BY <1>1, <1>5 DEF MailTypes
<1>7. Called'
  <2>1. \A s \in Services : Callers(s)' = Callers(s) BY <1>1 DEF Callers
  <2> QED BY <1>1, <2>1 DEF Called
<1>8. Pending' BY <1>1, <1>3, <1>5 DEF Pending
<1>9. Gone'
  <2>1. \A s \in Services : svcCnt'[s] = (IF exitCalled'[s] THEN 1 ELSE 0)
    <3> SUFFICES ASSUME NEW s \in Services
                 PROVE  svcCnt'[s] = (IF exitCalled'[s] THEN 1 ELSE 0)
      OBVIOUS
    <3>1. CASE s = x BY <1>3, <3>1
    <3>2. CASE s # x
      <4>1. svcCnt'[s] = svcCnt[s] /\ exitCalled'[s] = exitCalled[s] BY <1>3, <3>2
      <4> QED BY <4>1 DEF Gone
    <3> QED BY <3>1, <3>2
  <2>2. \A s \in Services : ~cbSet'[s] => exitCalled'[s] BY <1>1, <1>3, <1>4 DEF Gone
  <2>3. \A s \in Services : exitCalled[s] => exitCalled'[s] BY <1>1, <1>3
  <2>4. \A v \in Workers, s \in Services : svcWaitFree'[v][s] > 0 => exitCalled'[s]
    BY <1>1, <2>3 DEF Gone
  <2>5. \A v \in Workers : wpc'[v] = "free" => exitCalled'[cur'[v]]
    <3> SUFFICES ASSUME NEW v \in Workers, wpc'[v] = "free" PROVE exitCalled'[cur[v]]
      BY <1>1
    <3>1. wpc[v] = "free" /\ cur[v] \in Services
      BY <1>0, <1>1, <1>2 DEF TaskTypes, Serving
    <3> QED BY <2>3, <3>1 DEF Gone
  <2> QED BY <2>1, <2>2, <2>4, <2>5 DEF Gone
<1>10. Kept' BY <1>1, <1>2, <1>3, <1>4 DEF Kept, Serving, Holding
<1>11. NotFreedUnderSender' BY <1>1 DEF NotFreedUnderSender
<1>12. FreedMailboxEmpty' BY <1>1, <1>3, <1>4 DEF FreedMailboxEmpty
<1>13. NoStrandedMail'
  <2> SUFFICES ASSUME NEW s \in Services \ {x}, mqIn[s] # << >>, ~onTask[s], ~exitCalled[s]
               PROVE  \/ \E p \in Senders : spc[p] \in {"publish", "cas"} /\ dst[p] = s
                      \/ \E v \in Workers : wpc'[v] \in {"recheck", "retake"} /\ cur[v] = s
    BY <1>1, <1>3, <1>4 DEF NoStrandedMail
  <2>1. ASSUME NEW v \in Workers, wpc[v] \in {"recheck", "retake"}, cur[v] = s
        PROVE  wpc'[v] \in {"recheck", "retake"} /\ cur[v] = s
    BY <1>1, <1>2, <2>1
  <2> QED BY <2>1 DEF NoStrandedMail
<1> QED BY <1>6, <1>7, <1>8, <1>9, <1>10, <1>11, <1>12, <1>13

(* mpsc_pop until it fails empties a mailbox in which all is published.    *)
LEMMA DropAll ==
    ASSUME NEW q, \A i \in DOMAIN q : q[i] = Ready
    PROVE  DropReadable(q) = << >>
BY DEF DropReadable

(* A service nobody calls has nothing unpublished in its mailbox.          *)
LEMMA NobodyCalls ==
    ASSUME MailInv, NEW s \in Services, calledCnt[s] = 0
    PROVE  /\ DropReadable(mqIn[s]) = << >>
           /\ \A p \in Senders : spc[p] # "idle" => dst[p] # s
<1>1. Callers(s) = {} BY CallersFinite, FS_EmptySet DEF MailInv, Called
<1>2. \A p \in Senders : spc[p] # "idle" => dst[p] # s BY <1>1 DEF Callers
<1>3. \A i \in DOMAIN mqIn[s] : mqIn[s][i] = Ready
  <2> SUFFICES ASSUME NEW i \in DOMAIN mqIn[s], mqIn[s][i] # Ready PROVE FALSE OBVIOUS
  <2>1. mqIn[s][i] \in Senders BY DEF MailInv, MailTypes
  <2>2. spc[mqIn[s][i]] = "publish" /\ dst[mqIn[s][i]] = s BY DEF MailInv, Pending
  <2> QED BY <1>2, <2>1, <2>2
<1> QED BY <1>2, <1>3, DropAll

(* The step of a worker that calls do_svc_free for the services in freed,  *)
(* each of which has exited and is called by nobody.                       *)
Frees(w, freed) ==
    /\ \A s \in Services : freed[s] # 0 => calledCnt[s] = 0 /\ exitCalled[s]
    /\ fault = None /\ DoSvcFree(freed)
    /\ UNCHANGED <<exitCalled, svcCnt, calledCnt, onTask, spc, dst>>
    /\ wpc[w] \notin {"recheck", "retake"} /\ wpc'[w] \notin Serving
    /\ \A v \in Workers \ {w} : wpc'[v] = wpc[v] /\ cur'[v] = cur[v]
    /\ cur'[w] = None /\ (cur[w] \in Services => freed[cur[w]] # 0)
    /\ svcWaitFree' \in [Workers -> [Services -> Nat]]
    /\ \A v \in Workers, s \in Services :
          \/ svcWaitFree'[v][s] = svcWaitFree[v][s]
          \/ v = w /\ freed[s] = svcWaitFree[v][s] /\ svcWaitFree'[v][s] = 0

LEMMA MailDropped ==
    ASSUME MailInv, NEW w \in Workers, NEW freed \in [Services -> Nat], Frees(w, freed)
    PROVE  /\ mqIn' \in [Services -> Seq(Senders \union {Ready})]
           /\ cbSet' \in [Services -> BOOLEAN]
           /\ \A s \in Services : mqIn'[s] = mqIn[s] \/ mqIn'[s] = << >>
           /\ \A s \in Services : cbSet'[s] => cbSet[s]
           /\ \A s \in Services : freed[s] = 0 => cbSet'[s] = cbSet[s]
           /\ \A s \in Services : freed[s] # 0 /\ fault' = None => ~cbSet'[s]
           /\ \A s \in Services : ~cbSet'[s] => mqIn'[s] = << >>
<1>1. \A s \in Services : freed[s] # 0 => DropReadable(mqIn[s]) = << >>
  BY NobodyCalls DEF Frees
<1>2. \A s \in Services : ~cbSet[s] => mqIn[s] = << >> BY DEF MailInv, FreedMailboxEmpty
<1>3. MailTypes BY DEF MailInv
<1>4. DoSvcFree(freed) BY DEF Frees
<1>5. CASE \A s \in Services : freed[s] <= (IF cbSet[s] THEN 1 ELSE 0)
  <2>1. /\ mqIn' = [s \in Services |->
                       IF freed[s] = 1 THEN DropReadable(mqIn[s]) ELSE mqIn[s]]
        /\ cbSet' = [s \in Services |-> cbSet[s] /\ freed[s] = 0]
    BY <1>4, <1>5 DEF DoSvcFree
  <2>2. \A s \in Services : freed[s] # 0 => freed[s] = 1 BY <1>5
  <2>3. \A s \in Services : mqIn'[s] = IF freed[s] = 0 THEN mqIn[s] ELSE << >>
    BY <1>1, <2>1, <2>2
  <2>4. ASSUME NEW s \in Services PROVE mqIn'[s] \in Seq(Senders \union {Ready})
    <3>1. mqIn[s] \in Seq(Senders \union {Ready}) BY <1>3 DEF MailTypes
    <3>2. << >> \in Seq(Senders \union {Ready}) OBVIOUS
    <3>3. CASE freed[s] = 0 BY <2>3, <3>1, <3>3
    <3>4. CASE freed[s] # 0 BY <2>3, <3>2, <3>4
    <3> QED BY <3>3, <3>4
  <2>5. mqIn' \in [Services -> Seq(Senders \union {Ready})] BY <2>1, <2>4
  <2>6. \A s \in Services : ~cbSet'[s] => mqIn'[s] = << >> BY <1>2, <2>1, <2>3
  <2> QED BY <1>3, <2>1, <2>3, <2>5, <2>6 DEF MailTypes
<1>6. CASE ~\A s \in Services : freed[s] <= (IF cbSet[s] THEN 1 ELSE 0)
  <2>1. UNCHANGED <<mqIn, cbSet>> /\ fault' = "null callback"
    BY <1>4, <1>6 DEF DoSvcFree
  <2>2. fault' # None BY <2>1 DEF None
  <2> QED BY <1>2, <1>3, <2>1, <2>2 DEF MailTypes
<1> QED BY <1>5, <1>6

LEMMA ServicesFreed ==
    ASSUME MailInv, TaskInv', NEW w \in Workers, NEW freed \in [Services -> Nat],
           Frees(w, freed)
    PROVE  MailInv'
<1>0. TaskTypes BY DEF MailInv, TaskInv
<1>1. /\ mqIn' \in [Services -> Seq(Senders \union {Ready})]
      /\ cbSet' \in [Services -> BOOLEAN]
      /\ \A s \in Services : mqIn'[s] = mqIn[s] \/ mqIn'[s] = << >>
      /\ \A s \in Services : cbSet'[s] => cbSet[s]
      /\ \A s \in Services : freed[s] = 0 => cbSet'[s] = cbSet[s]
      /\ \A s \in Services : freed[s] # 0 /\ fault' = None => ~cbSet'[s]
      /\ \A s \in Services : ~cbSet'[s] => mqIn'[s] = << >>
  BY MailDropped
<1>2. UNCHANGED <<exitCalled, svcCnt, calledCnt, onTask, spc, dst>> BY DEF Frees
<1>3. MailTypes' BY <1>1, <1>2 DEF Frees, MailInv, MailTypes
<1>4. Called'
  <2>1. \A s \in Services : Callers(s)' = Callers(s) BY <1>2 DEF Callers
  <2> QED BY <1>2, <2>1 DEF MailInv, Called
<1>5. Pending'
  <2> SUFFICES ASSUME NEW s \in Services, NEW i \in DOMAIN mqIn'[s], mqIn'[s][i] # Ready
               PROVE  spc[mqIn'[s][i]] = "publish" /\ dst[mqIn'[s][i]] = s
    BY <1>2 DEF Pending
  <2>1. mqIn'[s] = mqIn[s] BY <1>1
  <2> QED BY <2>1 DEF MailInv, Pending
<1>6. Gone'
  <2>1. \A s \in Services : ~cbSet'[s] => exitCalled[s]
    BY <1>1 DEF Frees, MailInv, Gone
  <2>2. \A v \in Workers, s \in Services : svcWaitFree'[v][s] > 0 => exitCalled[s]
    BY DEF Frees, MailInv, Gone
  <2>3. \A v \in Workers : wpc'[v] = "free" => exitCalled[cur'[v]]
    BY DEF Frees, MailInv, Gone, Serving
  <2> QED BY <1>2, <2>1, <2>2, <2>3 DEF MailInv, Gone
<1>7. Kept'
  <2>1. \A v \in Workers : wpc'[v] \notin Serving => cur'[v] = None
    BY DEF Frees, MailInv, Kept
  <2>2. ASSUME NEW s \in Services, exitCalled[s], cbSet'[s], fault' = None, ~onTask[s]
        PROVE  \E v \in Workers : cur'[v] = s \/ svcWaitFree'[v][s] > 0
    <3>1. freed[s] = 0 /\ cbSet[s] BY <1>1, <2>2
    <3>2. fault = None BY <2>2 DEF Frees
    <3>3. PICK v \in Workers : cur[v] = s \/ svcWaitFree[v][s] > 0
      BY <2>2, <3>1, <3>2 DEF MailInv, Kept
    <3>4. cur[v] = s => v # w BY <3>1 DEF Frees
    <3>5. cur[v] = s => cur'[v] = s BY <3>4 DEF Frees
    <3>6. svcWaitFree[v][s] > 0 => svcWaitFree'[v][s] = svcWaitFree[v][s]
      BY <3>1 DEF Frees
    <3> QED BY <3>3, <3>5, <3>6
  <2> QED BY <1>2, <2>1, <2>2 DEF Kept
<1>8. NotFreedUnderSender'
  <2> SUFFICES ASSUME NEW p \in Senders, spc[p] \in {"push", "publish", "cas", "enqueue"}
               PROVE  cbSet'[dst[p]]
    BY <1>2 DEF NotFreedUnderSender
  <2>1. dst[p] \in Services /\ cbSet[dst[p]]
    BY <1>0 DEF MailInv, NotFreedUnderSender, TaskTypes
  <2>2. calledCnt[dst[p]] # 0 BY <2>1, NobodyCalls
  <2>3. freed[dst[p]] = 0 BY <2>1, <2>2 DEF Frees
  <2> QED BY <1>1, <2>1, <2>3
<1>9. FreedMailboxEmpty' BY <1>1 DEF FreedMailboxEmpty
<1>10. NoStrandedMail'
  <2> SUFFICES ASSUME NEW s \in Services, mqIn'[s] # << >>, ~onTask[s], ~exitCalled[s]
               PROVE  \/ \E p \in Senders : spc[p] \in {"publish", "cas"} /\ dst[p] = s
                      \/ \E v \in Workers : wpc'[v] \in {"recheck", "retake"} /\ cur'[v] = s
    BY <1>2 DEF NoStrandedMail
  <2>1. mqIn[s] # << >> BY <1>1
  <2>2. ASSUME NEW v \in Workers, wpc[v] \in {"recheck", "retake"}, cur[v] = s
        PROVE  wpc'[v] \in {"recheck", "retake"} /\ cur'[v] = s
    BY <2>2 DEF Frees
  <2> QED BY <2>1, <2>2 DEF MailInv, NoStrandedMail
<1> QED BY <1>3, <1>4, <1>5, <1>6, <1>7, <1>8, <1>9, <1>10 DEF MailInv
LEMMA FreesExited ==
    ASSUME MailInv, TaskInv', NEW w \in Workers, ScanWaitFree(w) \/ FreeNow(w)
    PROVE  MailInv'
<1>0. TaskTypes /\ MailTypes /\ Gone BY DEF MailInv, TaskInv
<1>1. CASE ScanWaitFree(w)
  <2> DEFINE freed == [s \in Services |-> IF calledCnt[s] = 0 THEN svcWaitFree[w][s] ELSE 0]
  <2>1. /\ wpc[w] = "top" /\ wpc' = [wpc EXCEPT ![w] = "pop"] /\ fault = None
        /\ DoSvcFree(freed)
        /\ svcWaitFree' = [svcWaitFree EXCEPT ![w] =
                              [s \in Services |-> IF calledCnt[s] = 0 THEN 0 ELSE @[s]]]
        /\ UNCHANGED <<exitCalled, svcCnt, calledCnt, onTask, spc, dst, cur>>
    BY <1>1 DEF ScanWaitFree, WorkerAt, WorkerGoto, runVars, senderVars
  <2>2. freed \in [Services -> Nat] BY <1>0 DEF MailTypes
  <2>3. \A s \in Services : freed[s] # 0 => calledCnt[s] = 0 /\ exitCalled[s]
    BY <1>0 DEF Gone, MailTypes
  <2>4. /\ wpc[w] \notin Serving \union {"recheck", "retake"} /\ wpc'[w] \notin Serving
        /\ \A v \in Workers \ {w} : wpc'[v] = wpc[v] /\ cur'[v] = cur[v]
    BY <1>0, <2>1 DEF TaskTypes, Serving, Holding
  <2>5. cur[w] = None /\ cur'[w] = None BY <2>1, <2>4 DEF MailInv, Kept
  <2>6. svcWaitFree' \in [Workers -> [Services -> Nat]] BY <1>0, <2>1 DEF MailTypes
  <2>7. \A v \in Workers, s \in Services :
          \/ svcWaitFree'[v][s] = svcWaitFree[v][s]
          \/ v = w /\ freed[s] = svcWaitFree[v][s] /\ svcWaitFree'[v][s] = 0
    BY <1>0, <2>1 DEF MailTypes
  <2>8. Frees(w, freed)
    BY <2>1, <2>3, <2>4, <2>5, <2>6, <2>7, NoneApart DEF Frees
  <2> QED BY <2>2, <2>8, ServicesFreed
<1>2. CASE FreeNow(w)
  <2> DEFINE freed == [NoService EXCEPT ![cur[w]] = 1]
  <2>1. /\ wpc[w] = "free" /\ wpc' = [wpc EXCEPT ![w] = "top"] /\ fault = None
        /\ DoSvcFree(freed) /\ calledCnt[cur[w]] = 0
        /\ cur' = [cur EXCEPT ![w] = None]
        /\ UNCHANGED <<exitCalled, svcCnt, calledCnt, onTask, spc, dst, svcWaitFree>>
    BY <1>2 DEF FreeNow, WorkerAt, WorkerGoto, searchVars, senderVars
  <2>2. cur[w] \in Services BY <1>0, <2>1 DEF TaskTypes, Serving
  <2>3. freed \in [Services -> Nat] BY DEF NoService
  <2>4. \A s \in Services : freed[s] = (IF s = cur[w] THEN 1 ELSE 0) BY DEF NoService
  <2>5. exitCalled[cur[w]] BY <1>0, <2>1 DEF Gone
  <2>6. /\ wpc[w] \notin {"recheck", "retake"} /\ wpc'[w] \notin Serving
        /\ \A v \in Workers \ {w} : wpc'[v] = wpc[v] /\ cur'[v] = cur[v]
        /\ cur'[w] = None
    BY <1>0, <2>1 DEF TaskTypes, Serving, Holding
  <2> HIDE DEF freed
  <2>7. Frees(w, freed)
    BY <1>0, <2>1, <2>2, <2>4, <2>5, <2>6 DEF Frees, MailTypes
  <2> QED BY <2>3, <2>7, ServicesFreed
<1> QED BY <1>1, <1>2

LEMMA KeptForLater ==
    ASSUME MailInv, TaskInv', NEW w \in Workers, NEW x \in Services, cur[w] = x, FreeLater(w)
    PROVE  MailInv'
<1> USE DEF MailInv
<1>0. TaskTypes BY DEF TaskInv
<1>1. /\ UNCHANGED <<mqIn, exitCalled, svcCnt, calledCnt, cbSet, onTask, fault, spc, dst>>
      /\ wpc[w] = "free" /\ wpc' = [wpc EXCEPT ![w] = "top"]
      /\ cur' = [cur EXCEPT ![w] = None]
      /\ svcWaitFree' = [svcWaitFree EXCEPT ![w][x] = @ + 1]
  BY DEF FreeLater, WorkerAt, WorkerGoto, serviceVars, senderVars, processVars
<1>2. /\ wpc'[w] = "top" /\ cur'[w] = None
      /\ \A v \in Workers \ {w} : wpc'[v] = wpc[v] /\ cur'[v] = cur[v]
  BY <1>0, <1>1 DEF TaskTypes
<1>3. /\ svcWaitFree' \in [Workers -> [Services -> Nat]]
      /\ svcWaitFree'[w][x] = svcWaitFree[w][x] + 1
      /\ \A v \in Workers, s \in Services :
            v # w \/ s # x => svcWaitFree'[v][s] = svcWaitFree[v][s]
  BY <1>1 DEF MailTypes
<1>4. exitCalled[x] BY <1>1 DEF Gone
<1>5. MailTypes' BY <1>1, <1>3 DEF MailTypes
<1>6. Called'
  <2>1. \A s \in Services : Callers(s)' = Callers(s) BY <1>1 DEF Callers
  <2> QED BY <1>1, <2>1 DEF Called
<1>7. Pending' BY <1>1 DEF Pending
<1>8. Gone'
  <2>1. \A v \in Workers, s \in Services : svcWaitFree'[v][s] > 0 => exitCalled[s]
    BY <1>3, <1>4 DEF Gone
  <2>2. \A v \in Workers : wpc'[v] = "free" => exitCalled[cur'[v]] BY <1>2 DEF Gone
  <2> QED BY <1>1, <2>1, <2>2 DEF Gone
<1>9. Kept'
  <2>1. \A v \in Workers : wpc'[v] \notin Serving => cur'[v] = None BY <1>2 DEF Kept
  <2>2. ASSUME NEW s \in Services, exitCalled[s], cbSet[s], fault = None, ~onTask[s]
        PROVE  \E v \in Workers : cur'[v] = s \/ svcWaitFree'[v][s] > 0
    <3>1. CASE s = x
      <4>1. svcWaitFree'[w][s] > 0 BY <1>3, <3>1 DEF MailTypes
      <4> QED BY <4>1
    <3>2. CASE s # x
      <4>1. PICK v \in Workers : cur[v] = s \/ svcWaitFree[v][s] > 0 BY <2>2 DEF Kept
      <4>2. cur[v] = s => cur'[v] = s BY <1>2, <3>2
      <4>3. svcWaitFree'[v][s] = svcWaitFree[v][s] BY <1>3, <3>2
      <4> QED BY <4>1, <4>2, <4>3
    <3> QED BY <3>1, <3>2
  <2> QED BY <1>1, <2>1, <2>2 DEF Kept
<1>10. NotFreedUnderSender' BY <1>1 DEF NotFreedUnderSender
<1>11. FreedMailboxEmpty' BY <1>1 DEF FreedMailboxEmpty
<1>12. NoStrandedMail'
  <2> SUFFICES ASSUME NEW s \in Services,
                      NEW v \in Workers, wpc[v] \in {"recheck", "retake"}, cur[v] = s
               PROVE  wpc'[v] \in {"recheck", "retake"} /\ cur'[v] = s
    BY <1>1 DEF NoStrandedMail
  <2> QED BY <1>1, <1>2
<1> QED BY <1>5, <1>6, <1>7, <1>8, <1>9, <1>10, <1>11, <1>12

----------------------------------------------------------------------------
LEMMA InitMailInv == Init => MailInv
<1> SUFFICES ASSUME Init PROVE MailInv OBVIOUS
<1>1. TaskInv BY InitTaskInv
<1>2. MailTypes BY DEF Init, MailTypes, NoService
<1>3. Called
  <2>1. \A s \in Services : Callers(s) = {} BY DEF Init, Callers
  <2> QED BY <2>1, FS_EmptySet DEF Init, Called
<1>4. Pending BY DEF Init, Pending
<1>5. Gone BY DEF Init, Gone, NoService
<1>6. Kept BY DEF Init, Kept
<1>7. NotFreedUnderSender /\ FreedMailboxEmpty /\ NoStrandedMail
  BY DEF Init, NotFreedUnderSender, FreedMailboxEmpty, NoStrandedMail
<1> QED BY <1>1, <1>2, <1>3, <1>4, <1>5, <1>6, <1>7 DEF MailInv

LEMMA NextMailInv == MailInv /\ [Next]_vars => MailInv'
<1> SUFFICES ASSUME MailInv, [Next]_vars PROVE MailInv' OBVIOUS
<1>1. TaskInv /\ TaskTypes /\ TaskInv' BY NextTaskInv DEF MailInv, TaskInv
<1>2. ASSUME NEW p \in Senders, NEW s \in Services, SendBegin(p, s) PROVE MailInv'
  BY <1>1, <1>2, CallBegins
<1>3. ASSUME NEW p \in Senders, SenderStep(p) PROVE MailInv'
  <2>1. CASE SendPush(p) \/ SendPublish(p) BY <1>1, <2>1, MailArrives
  <2>2. CASE SendEnd(p)
    <3>1. dst[p] \in Services BY <1>1, <2>2 DEF SendEnd, SenderAt, TaskTypes
    <3> QED BY <1>1, <2>2, <3>1, CallEnds
  <2>3. CASE ~(SendPush(p) \/ SendPublish(p) \/ SendEnd(p))
    <3>1. QuietSender(p) BY <1>1, <1>3, <2>3, QuietSenders DEF SenderStep
    <3> QED BY <1>1, <3>1, QuietSenderMail
  <2> QED BY <2>1, <2>2, <2>3
<1>4. ASSUME NEW w \in Workers, WorkerStep(w) \/ SpuriousWake(w) PROVE MailInv'
  <2>1. CASE ScanWaitFree(w) \/ FreeNow(w) BY <1>1, <2>1, FreesExited
  <2>2. CASE FreeLater(w)
    <3>1. cur[w] \in Services BY <1>1, <2>2 DEF FreeLater, WorkerAt, TaskTypes, Serving
    <3> QED BY <1>1, <2>2, <3>1, KeptForLater
  <2>3. ASSUME NEW outcome \in Outcomes, HandleMsg(w, outcome) PROVE MailInv'
    <3>1. cur[w] \in Services
      BY <1>1, <2>3 DEF HandleMsg, WorkerAt, TaskTypes, Serving, Holding
    <3> QED BY <1>1, <2>3, <3>1, MailHandled
  <2>4. CASE ~(ScanWaitFree(w) \/ FreeNow(w) \/ FreeLater(w)
               \/ \E outcome \in Outcomes : HandleMsg(w, outcome))
    <3>1. QuietWorker(w) BY <1>1, <1>4, <2>4, QuietWorkers DEF WorkerStep
    <3> QED BY <1>1, <3>1, QuietWorkerMail
  <2> QED BY <2>1, <2>2, <2>3, <2>4
<1>5. CASE ShutdownPush \/ ShutdownNotify \/ UNCHANGED vars
  BY <1>1, <1>5, QuietShutdownMail
<1> QED BY <1>2, <1>3, <1>4, <1>5 DEF Next

LEMMA MailInvariant == Spec => []MailInv
BY InitMailInv, NextMailInv, PTL DEF Spec

(* Mail in the mailbox of a service without a task is always about to be   *)
(* noticed (worker_add_task and the second look of worker_thread at mqIn). *)
THEOREM NoMailIsStranded == Spec => []NoStrandedMail
<1>1. MailInv => NoStrandedMail BY DEF MailInv
<1> QED BY <1>1, MailInvariant, PTL

(* No service is freed under a sender that has found it alive, a freed     *)
(* slot has an empty mailbox, and an exited service is not forgotten       *)
(* (callsvc_begin, worker_thread and do_svc_free).                         *)
THEOREM FreesSafely == Spec => []FreedSafely
<1>1. MailInv => FreedSafely
  <2> SUFFICES ASSUME MailInv PROVE ExitedIsKept BY DEF MailInv, FreedSafely
  <2>1. OneTask BY TaskInvOneTask DEF MailInv
  <2>2. \A s \in Services : onTask[s] => Tasks(s) # {} BY <2>1 DEF OneTask
  <2> QED BY <2>2 DEF MailInv, Kept, ExitedIsKept
<1> QED BY <1>1, MailInvariant, PTL

----------------------------------------------------------------------------
(* The task count and sleep.  totalWorkerTask is at least the services on  *)
(* task and the workers that have yet to uncount one, less the senders     *)
(* that have yet to count theirs (a retake that loses leaves one counted   *)
(* for good), and at most the calls made (Counted).  So the last worker to *)
(* go idle, which sees that all are idle, finds a count of zero only when  *)
(* nothing is on task but what a sender is still to count, and that sender *)
(* will find all workers idle and notify one (Roused).  Beside a sentinel  *)
(* no worker sleeps, for each looks at its own queue first (Sentinels).    *)

(* The services on task, the workers that have taken one off task and not  *)
(* uncounted it, the senders that have won onTask and not counted the task *)
(* and all that still may, and the workers in idleWorkerNum.               *)
Tasked  == {s \in Services : onTask[s]}
Ending  == {w \in Workers : wpc[w] \in {"recheck", "retake", "uncount"}}
Adding  == {p \in Senders : spc[p] \in {"enqueue", "count"}}
Calling == {p \in Senders : spc[p] \in {"check", "push", "publish", "cas", "enqueue", "count"}}
Idle    == {w \in Workers : wpc[w] \in {"checkidle", "wait", "sleep", "unidle"}}

Counted ==
    /\ idleWorkerNum = Cardinality(Idle)
    /\ totalWorkerTask >= Cardinality(Tasked) + Cardinality(Ending) - Cardinality(Adding)
    /\ totalWorkerTask + Cardinality(Calling) <= sends /\ sends <= MaxSends

(* A sender that will notify a worker if all are idle when it looks.       *)
Rescuer(p) ==
    \/ spc[p] \in {"enqueue", "count", "wake"}
    \/ spc[p] = "notify" /\ (totalSeen[p] % CountMod) # 0

(* When all workers have gone idle, the last one has still to look at the  *)
(* count, or it has looked and nothing is on task, or someone will notify. *)
Resting == \A w \in Workers : wpc[w] \in {"checkidle", "wait", "sleep"}
Roused ==
    Resting =>
        \/ \E w \in Workers : wpc[w] = "checkidle" /\ idleSeen[w] = WorkerNum
        \/ /\ \E w \in Workers : wpc[w] \in {"wait", "sleep"}
           /\ Tasked = {} \/ lostNotify \/ \E p \in Senders : Rescuer(p)

(* Where the sentinels are, and who cannot be beside one.                  *)
CarriesSentinel(q) == \E i \in DOMAIN q : q[i] = Sentinel
HasSentinel(w) == CarriesSentinel(queTask[w])
Sentinels ==
    /\ shut = 0 => \A w \in Workers : ~HasSentinel(w)
    /\ \A w \in Workers : w < shut /\ fault = None => HasSentinel(w) \/ wpc[w] = "exited"
    /\ shut = WorkerNum + 1 /\ ~lostNotify /\ fault = None =>
          \A w \in Workers : wpc[w] \notin {"steal", "idle", "checkidle", "wait", "sleep"}
    /\ fault # None => \E w \in Workers : wpc[w] # "sleep"

CountTypes ==
    /\ totalWorkerTask \in Int /\ idleWorkerNum \in Int /\ sends \in Nat
    /\ idleSeen \in [Workers -> Int] /\ totalSeen \in [Senders -> Int]
    /\ lostNotify \in BOOLEAN

CountInv == TaskInv /\ CountTypes /\ Counted /\ Roused /\ Sentinels

----------------------------------------------------------------------------
LEMMA FiniteSets ==
    /\ IsFiniteSet(Workers) /\ Cardinality(Workers) = WorkerNum
    /\ IsFiniteSet(Tasked) /\ IsFiniteSet(Ending) /\ IsFiniteSet(Adding)
    /\ IsFiniteSet(Calling) /\ IsFiniteSet(Idle)
<1>1. IsFiniteSet(Workers) /\ Cardinality(Workers) = WorkerNum
  <2>1. 0 \in Int /\ WorkerNum - 1 \in Int BY WorkerNumAssumption
  <2> QED BY <2>1, FS_Interval, WorkerNumAssumption DEF Workers
<1>2. Tasked \subseteq Services /\ Ending \subseteq Workers /\ Adding \subseteq Senders
      /\ Calling \subseteq Senders /\ Idle \subseteq Workers
  BY DEF Tasked, Ending, Adding, Calling, Idle
<1> QED BY <1>1, <1>2, FS_Subset, ThreadsAssumption

LEMMA OneMore ==
    ASSUME NEW S, NEW T, IsFiniteSet(S), NEW x, x \notin S, T = S \union {x}
    PROVE  Cardinality(T) = Cardinality(S) + 1
BY FS_AddElement

LEMMA OneLess ==
    ASSUME NEW S, NEW T, IsFiniteSet(S), NEW x \in S, T = S \ {x}
    PROVE  Cardinality(T) = Cardinality(S) - 1
BY FS_RemoveElement

(* Steps by which no thread enters or leaves the places that are counted.  *)
CountSame ==
    /\ Idle' = Idle /\ Tasked' = Tasked /\ Ending' = Ending /\ Adding' = Adding
    /\ Calling' \subseteq Calling
    /\ UNCHANGED <<totalWorkerTask, idleWorkerNum, sends>>

LEMMA CountSameCounted ==
    ASSUME CountTypes, Counted, CountSame PROVE Counted'
<1>1. Cardinality(Calling') <= Cardinality(Calling)
  BY FiniteSets, FS_Subset DEF CountSame
<1>2. Cardinality(Calling) \in Nat /\ Cardinality(Calling') \in Nat
  BY FiniteSets, FS_Subset, FS_CardinalityType DEF CountSame
<1> QED BY <1>1, <1>2 DEF CountTypes, Counted, CountSame

LEMMA SendersCountSame ==
    ASSUME TaskTypes, NEW p \in Senders,
           \/ SendCheck(p) \/ SendPush(p) \/ SendFull(p) \/ SendPublish(p) \/ SendEnqueue(p)
           \/ SendNotifyTest(p) \/ (\E w \in Workers : SendWake(p, w)) \/ SendWakeNobody(p)
           \/ SendEnd(p) \/ (SendCas(p) /\ onTask[dst[p]])
    PROVE  CountSame
<1> USE DEF TaskTypes, SenderAt, SenderGoto, serviceVars, countVars, runVars,
     searchVars, workerVars, senderVars, processVars
<1>1. /\ UNCHANGED <<totalWorkerTask, idleWorkerNum, sends>>
      /\ \A s \in Services : onTask'[s] = onTask[s]
      /\ \A w \in Workers : wpc'[w] = wpc[w] \/ (wpc[w] = "sleep" /\ wpc'[w] = "unidle")
  BY DEF SendCheck, SendPush, SendFull, SendPublish, SendEnqueue, SendNotifyTest, SendWake,
     SendWakeNobody, SendEnd, SendCas, WorkerGoto, asleep
<1>2. /\ \A q \in Senders \ {p} : spc'[q] = spc[q]
      /\ spc[p] \in {"enqueue", "count"} <=> spc'[p] \in {"enqueue", "count"}
      /\ spc'[p] \in {"check", "push", "publish", "cas", "enqueue", "count"} =>
          spc[p] \in {"check", "push", "publish", "cas", "enqueue", "count"}
  BY DEF SendCheck, SendPush, SendFull, SendPublish, SendEnqueue, SendNotifyTest, SendWake,
     SendWakeNobody, SendEnd, SendCas
<1>3. Idle' = Idle /\ Ending' = Ending BY <1>1 DEF Idle, Ending
<1>4. Tasked' = Tasked BY <1>1 DEF Tasked
<1>5. Adding' = Adding /\ Calling' \subseteq Calling BY <1>2 DEF Adding, Calling
<1> QED BY <1>1, <1>3, <1>4, <1>5 DEF CountSame

LEMMA WorkersCountSame ==
    ASSUME TaskTypes, NEW w \in Workers,
           \/ ScanWaitFree(w) \/ PopTask(w) \/ PopSentinel(w) \/ PopNothing(w)
           \/ StealNothing(w) \/ StealTask(w) \/ StealSentinel(w)
           \/ CheckIdle(w) \/ Wait(w) \/ SpuriousWake(w)
           \/ (\E outcome \in Outcomes : HandleMsg(w, outcome)) \/ NoMsg(w)
           \/ (\E n \in 0 .. MaxParked : RetryWaitSend(w, n))
           \/ Requeue(w) \/ Recheck(w) \/ FreeNow(w) \/ FreeLater(w)
    PROVE  CountSame
<1> USE DEF TaskTypes, WorkerAt, WorkerGoto, serviceVars, countVars, runVars,
     searchVars, workerVars, senderVars, processVars
<1> DEFINE G ==
      /\ UNCHANGED <<totalWorkerTask, idleWorkerNum, sends, spc, onTask>>
      /\ \A v \in Workers \ {w} : wpc'[v] = wpc[v]
      /\ (wpc[w] \in {"checkidle", "wait", "sleep", "unidle"}
             <=> wpc'[w] \in {"checkidle", "wait", "sleep", "unidle"})
      /\ (wpc[w] \in {"recheck", "retake", "uncount"}
             <=> wpc'[w] \in {"recheck", "retake", "uncount"})
<1>1. G
  <2>1. CASE ScanWaitFree(w) BY <2>1 DEF ScanWaitFree
  <2>2. CASE PopTask(w) \/ PopSentinel(w) \/ PopNothing(w)
    BY <2>2 DEF PopTask, PopSentinel, PopNothing, AtPop
  <2>3. CASE StealNothing(w) BY <2>3 DEF StealNothing
  <2>4. CASE StealTask(w) BY <2>4 DEF StealTask
  <2>5. CASE StealSentinel(w) BY <2>5 DEF StealSentinel
  <2>6. CASE CheckIdle(w) \/ Wait(w) \/ SpuriousWake(w)
    BY <2>6 DEF CheckIdle, Wait, SpuriousWake
  <2>7. ASSUME NEW outcome \in Outcomes, HandleMsg(w, outcome) PROVE G
    BY <2>7 DEF HandleMsg
  <2>8. CASE NoMsg(w) BY <2>8 DEF NoMsg
  <2>9. ASSUME NEW n \in 0 .. MaxParked, RetryWaitSend(w, n) PROVE G
    BY <2>9 DEF RetryWaitSend
  <2>10. CASE Requeue(w) \/ Recheck(w) BY <2>10 DEF Requeue, Recheck
  <2>11. CASE FreeNow(w) BY <2>11 DEF FreeNow
  <2>12. CASE FreeLater(w) BY <2>12 DEF FreeLater
  <2> QED BY <2>1, <2>2, <2>3, <2>4, <2>5, <2>6, <2>7, <2>8, <2>9, <2>10, <2>11, <2>12
<1>2. Idle' = Idle /\ Ending' = Ending BY <1>1 DEF Idle, Ending
<1>3. Tasked' = Tasked /\ Adding' = Adding /\ Calling' = Calling
  BY <1>1 DEF Tasked, Adding, Calling
<1> QED BY <1>1, <1>2, <1>3 DEF CountSame

LEMMA ShutdownCountSame ==
    ASSUME ShutdownPush \/ ShutdownNotify \/ UNCHANGED vars PROVE CountSame
<1>1. /\ UNCHANGED <<totalWorkerTask, idleWorkerNum, sends, spc, onTask>>
      /\ \A w \in Workers : wpc'[w] = wpc[w] \/ (wpc[w] = "sleep" /\ wpc'[w] = "unidle")
  BY DEF ShutdownPush, ShutdownNotify, asleep, vars, serviceVars, countVars, runVars,
     searchVars, workerVars, senderVars, processVars
<1>2. Idle' = Idle /\ Ending' = Ending BY <1>1 DEF Idle, Ending
<1>3. Tasked' = Tasked /\ Adding' = Adding /\ Calling' = Calling
  BY <1>1 DEF Tasked, Adding, Calling
<1> QED BY <1>1, <1>2, <1>3 DEF CountSame
----------------------------------------------------------------------------
(* Steps that enter or leave them *)

LEMMA CardTypes ==
    /\ Cardinality(Idle) \in Nat /\ Cardinality(Tasked) \in Nat /\ Cardinality(Ending) \in Nat
    /\ Cardinality(Adding) \in Nat /\ Cardinality(Calling) \in Nat
BY FiniteSets, FS_CardinalityType

LEMMA CountsCall ==
    ASSUME TaskTypes, CountTypes, Counted, NEW p \in Senders, NEW x \in Services,
           \/ SendBegin(p, x)
           \/ dst[p] = x /\ SendCas(p) /\ ~onTask[x]
           \/ SendCount(p)
    PROVE  Counted'
<1> USE DEF TaskTypes, SenderAt, SenderGoto, serviceVars, countVars, runVars,
     searchVars, workerVars, senderVars, processVars
<1>1. CASE SendBegin(p, x)
  <2>1. /\ UNCHANGED <<totalWorkerTask, idleWorkerNum, wpc, onTask>>
        /\ sends' = sends + 1 /\ sends < MaxSends
        /\ spc[p] = "idle" /\ spc'[p] = "check" /\ \A q \in Senders \ {p} : spc'[q] = spc[q]
    BY <1>1 DEF SendBegin
  <2>2. Idle' = Idle /\ Ending' = Ending /\ Tasked' = Tasked /\ Adding' = Adding
    BY <2>1 DEF Idle, Ending, Tasked, Adding
  <2>3. p \notin Calling /\ Calling' = Calling \union {p} BY <2>1 DEF Calling
  <2>4. Cardinality(Calling') = Cardinality(Calling) + 1 BY <2>3, OneMore, FiniteSets
  <2> QED
    BY <2>1, <2>2, <2>4, CardTypes, BoundsAssumption DEF Counted, CountTypes
<1>2. CASE dst[p] = x /\ SendCas(p) /\ ~onTask[x]
  <2>1. /\ UNCHANGED <<totalWorkerTask, idleWorkerNum, sends, wpc>>
        /\ onTask' = [onTask EXCEPT ![x] = TRUE]
        /\ spc[p] = "cas" /\ spc'[p] = "enqueue" /\ \A q \in Senders \ {p} : spc'[q] = spc[q]
    BY <1>2 DEF SendCas
  <2>2. Idle' = Idle /\ Ending' = Ending /\ Calling' = Calling
    BY <2>1 DEF Idle, Ending, Calling
  <2>3. p \notin Adding /\ Adding' = Adding \union {p} BY <2>1 DEF Adding
  <2>4. x \notin Tasked /\ Tasked' = Tasked \union {x} BY <1>2, <2>1 DEF Tasked
  <2>5. Cardinality(Adding') = Cardinality(Adding) + 1 BY <2>3, OneMore, FiniteSets
  <2>6. Cardinality(Tasked') = Cardinality(Tasked) + 1 BY <2>4, OneMore, FiniteSets
  <2> QED BY <2>1, <2>2, <2>5, <2>6, CardTypes DEF Counted, CountTypes
<1>3. CASE SendCount(p)
  <2>1. /\ UNCHANGED <<idleWorkerNum, sends, wpc, onTask>>
        /\ totalWorkerTask' = totalWorkerTask + 1
        /\ spc[p] = "count" /\ spc'[p] = "notify" /\ \A q \in Senders \ {p} : spc'[q] = spc[q]
    BY <1>3 DEF SendCount
  <2>2. Idle' = Idle /\ Ending' = Ending /\ Tasked' = Tasked
    BY <2>1 DEF Idle, Ending, Tasked
  <2>3. p \in Adding /\ Adding' = Adding \ {p} BY <2>1 DEF Adding
  <2>4. p \in Calling /\ Calling' = Calling \ {p} BY <2>1 DEF Calling
  <2>5. Cardinality(Adding') = Cardinality(Adding) - 1 BY <2>3, OneLess, FiniteSets
  <2>6. Cardinality(Calling') = Cardinality(Calling) - 1 BY <2>4, OneLess, FiniteSets
  <2> QED BY <2>1, <2>2, <2>5, <2>6, CardTypes DEF Counted, CountTypes
<1> QED BY <1>1, <1>2, <1>3

LEMMA CountsTask ==
    ASSUME TaskInv, CountTypes, Counted, NEW w \in Workers, NEW x \in Services, cur[w] = x,
           OffTask(w) \/ Retake(w) \/ Uncount(w)
    PROVE  Counted'
<1>0. TaskTypes BY DEF TaskInv
<1> USE <1>0 DEF TaskTypes, WorkerAt, WorkerGoto, serviceVars, countVars, runVars,
     searchVars, workerVars, senderVars, processVars
<1>1. CASE OffTask(w)
  <2>1. /\ UNCHANGED <<totalWorkerTask, idleWorkerNum, sends, spc>>
        /\ onTask' = [onTask EXCEPT ![x] = FALSE]
        /\ wpc[w] = "off" /\ wpc'[w] = "recheck" /\ \A v \in Workers \ {w} : wpc'[v] = wpc[v]
    BY <1>1 DEF OffTask
  <2>2. onTask[x] BY <2>1 DEF TaskInv, AtLeastOne, Held, Holding
  <2>3. Idle' = Idle /\ Adding' = Adding /\ Calling' = Calling
    BY <2>1 DEF Idle, Adding, Calling
  <2>4. w \notin Ending /\ Ending' = Ending \union {w} BY <2>1 DEF Ending
  <2>5. x \in Tasked /\ Tasked' = Tasked \ {x} BY <2>1, <2>2 DEF Tasked
  <2>6. Cardinality(Ending') = Cardinality(Ending) + 1 BY <2>4, OneMore, FiniteSets
  <2>7. Cardinality(Tasked') = Cardinality(Tasked) - 1 BY <2>5, OneLess, FiniteSets
  <2> QED BY <2>1, <2>3, <2>6, <2>7, CardTypes DEF Counted, CountTypes
<1>2. CASE Retake(w)
  <2>1. /\ UNCHANGED <<totalWorkerTask, idleWorkerNum, sends, spc>>
        /\ onTask' = [onTask EXCEPT ![x] = TRUE]
        /\ wpc[w] = "retake" /\ wpc'[w] \in {"requeue", "top"}
        /\ \A v \in Workers \ {w} : wpc'[v] = wpc[v]
    BY <1>2 DEF Retake
  <2>2. Idle' = Idle /\ Adding' = Adding /\ Calling' = Calling
    BY <2>1 DEF Idle, Adding, Calling
  <2>3. w \in Ending /\ Ending' = Ending \ {w} BY <2>1 DEF Ending
  <2>4. Cardinality(Ending') = Cardinality(Ending) - 1 BY <2>3, OneLess, FiniteSets
  <2>5. Cardinality(Tasked') <= Cardinality(Tasked) + 1 /\ Cardinality(Tasked') \in Int
    <3>1. CASE onTask[x]
      <4>1. Tasked' = Tasked BY <2>1, <3>1 DEF Tasked
      <4> QED BY <4>1, CardTypes
    <3>2. CASE ~onTask[x]
      <4>1. x \notin Tasked /\ Tasked' = Tasked \union {x} BY <2>1, <3>2 DEF Tasked
      <4>2. Cardinality(Tasked') = Cardinality(Tasked) + 1 BY <4>1, OneMore, FiniteSets
      <4> QED BY <4>2, CardTypes
    <3> QED BY <3>1, <3>2
  <2> QED BY <2>1, <2>2, <2>4, <2>5, CardTypes DEF Counted, CountTypes
<1>3. CASE Uncount(w)
  <2>1. /\ UNCHANGED <<idleWorkerNum, sends, spc, onTask>>
        /\ totalWorkerTask' = totalWorkerTask - 1
        /\ wpc[w] = "uncount" /\ wpc'[w] \in {"free", "top"}
        /\ \A v \in Workers \ {w} : wpc'[v] = wpc[v]
    BY <1>3 DEF Uncount
  <2>2. Idle' = Idle /\ Adding' = Adding /\ Calling' = Calling /\ Tasked' = Tasked
    BY <2>1 DEF Idle, Adding, Calling, Tasked
  <2>3. w \in Ending /\ Ending' = Ending \ {w} BY <2>1 DEF Ending
  <2>4. Cardinality(Ending') = Cardinality(Ending) - 1 BY <2>3, OneLess, FiniteSets
  <2> QED BY <2>1, <2>2, <2>4, CardTypes DEF Counted, CountTypes
<1> QED BY <1>1, <1>2, <1>3

LEMMA CountsIdle ==
    ASSUME TaskTypes, CountTypes, Counted, NEW w \in Workers, CountIdle(w) \/ Unidle(w)
    PROVE  Counted'
<1> USE DEF TaskTypes, WorkerAt, WorkerGoto, serviceVars, countVars, runVars,
     searchVars, workerVars, senderVars, processVars
<1>1. CASE CountIdle(w)
  <2>1. /\ UNCHANGED <<totalWorkerTask, sends, spc, onTask>>
        /\ idleWorkerNum' = idleWorkerNum + 1
        /\ wpc[w] = "idle" /\ wpc'[w] = "checkidle"
        /\ \A v \in Workers \ {w} : wpc'[v] = wpc[v]
    BY <1>1 DEF CountIdle
  <2>2. Ending' = Ending /\ Adding' = Adding /\ Calling' = Calling /\ Tasked' = Tasked
    BY <2>1 DEF Ending, Adding, Calling, Tasked
  <2>3. w \notin Idle /\ Idle' = Idle \union {w} BY <2>1 DEF Idle
  <2>4. Cardinality(Idle') = Cardinality(Idle) + 1 BY <2>3, OneMore, FiniteSets
  <2> QED BY <2>1, <2>2, <2>4, CardTypes DEF Counted, CountTypes
<1>2. CASE Unidle(w)
  <2>1. /\ UNCHANGED <<totalWorkerTask, sends, spc, onTask>>
        /\ idleWorkerNum' = idleWorkerNum - 1
        /\ wpc[w] = "unidle" /\ wpc'[w] = "top"
        /\ \A v \in Workers \ {w} : wpc'[v] = wpc[v]
    BY <1>2 DEF Unidle
  <2>2. Ending' = Ending /\ Adding' = Adding /\ Calling' = Calling /\ Tasked' = Tasked
    BY <2>1 DEF Ending, Adding, Calling, Tasked
  <2>3. w \in Idle /\ Idle' = Idle \ {w} BY <2>1 DEF Idle
  <2>4. Cardinality(Idle') = Cardinality(Idle) - 1 BY <2>3, OneLess, FiniteSets
  <2> QED BY <2>1, <2>2, <2>4, CardTypes DEF Counted, CountTypes
<1> QED BY <1>1, <1>2

(* The invariant of the counts, over all steps.                            *)
LEMMA NextCounted ==
    ASSUME TaskInv, CountTypes, Counted, [Next]_vars PROVE Counted'
<1>0. TaskTypes BY DEF TaskInv
<1>1. ASSUME CountSame PROVE Counted' BY <1>1, CountSameCounted
<1>2. ASSUME NEW p \in Senders, NEW s \in Services, SendBegin(p, s) PROVE Counted'
  BY <1>0, <1>2, CountsCall
<1>3. ASSUME NEW p \in Senders, SenderStep(p) PROVE Counted'
  <2>1. CASE spc[p] = "idle"
    BY <1>3, <2>1 DEF SenderStep, SenderAt, SendCheck, SendPush, SendFull, SendPublish,
       SendCas, SendEnqueue, SendCount, SendNotifyTest, SendWake, SendWakeNobody, SendEnd
  <2>2. CASE spc[p] # "idle"
    <3>1. dst[p] \in Services BY <1>0, <2>2 DEF TaskTypes
    <3>2. CASE SendCount(p) \/ (SendCas(p) /\ ~onTask[dst[p]])
      BY <1>0, <3>1, <3>2, CountsCall
    <3>3. CASE ~(SendCount(p) \/ (SendCas(p) /\ ~onTask[dst[p]]))
      BY <1>0, <1>1, <1>3, <3>3, SendersCountSame DEF SenderStep
    <3> QED BY <3>2, <3>3
  <2> QED BY <2>1, <2>2
<1>4. ASSUME NEW w \in Workers, WorkerStep(w) \/ SpuriousWake(w) PROVE Counted'
  <2>1. CASE OffTask(w) \/ Retake(w) \/ Uncount(w)
    <3>1. cur[w] \in Services
      BY <1>0, <2>1 DEF OffTask, Retake, Uncount, WorkerAt, TaskTypes, Serving, Holding
    <3> QED BY <2>1, <3>1, CountsTask
  <2>2. CASE CountIdle(w) \/ Unidle(w) BY <1>0, <2>2, CountsIdle
  <2>3. CASE ~(OffTask(w) \/ Retake(w) \/ Uncount(w) \/ CountIdle(w) \/ Unidle(w))
    BY <1>0, <1>1, <1>4, <2>3, WorkersCountSame DEF WorkerStep
  <2> QED BY <2>1, <2>2, <2>3
<1>5. CASE ShutdownPush \/ ShutdownNotify \/ UNCHANGED vars
  BY <1>1, <1>5, ShutdownCountSame
<1> QED BY <1>2, <1>3, <1>4, <1>5 DEF Next
LEMMA NextCountTypes ==
    ASSUME TaskTypes, CountTypes, [Next]_vars PROVE CountTypes'
<1> USE DEF TaskTypes, CountTypes, SenderAt, SenderGoto, WorkerAt, WorkerGoto, serviceVars,
     countVars, runVars, searchVars, workerVars, senderVars, processVars
<1>1. ASSUME NEW p \in Senders, NEW s \in Services, SendBegin(p, s) PROVE CountTypes'
  BY <1>1 DEF SendBegin
<1>2. ASSUME NEW p \in Senders, SenderStep(p) PROVE CountTypes'
  <2>1. CASE SendCheck(p) \/ SendPush(p) \/ SendFull(p) \/ SendPublish(p) \/ SendCas(p)
             \/ SendEnqueue(p) \/ SendEnd(p)
    BY <2>1 DEF SendCheck, SendPush, SendFull, SendPublish, SendCas, SendEnqueue, SendEnd
  <2>2. CASE SendCount(p) BY <2>2 DEF SendCount
  <2>3. CASE SendNotifyTest(p) BY <2>3 DEF SendNotifyTest
  <2>4. CASE (\E w \in Workers : SendWake(p, w)) \/ SendWakeNobody(p)
    BY <2>4 DEF SendWake, SendWakeNobody
  <2> QED BY <1>2, <2>1, <2>2, <2>3, <2>4 DEF SenderStep
<1>3. ASSUME NEW w \in Workers, WorkerStep(w) \/ SpuriousWake(w) PROVE CountTypes'
  <2>1. CASE ScanWaitFree(w) \/ PopTask(w) \/ PopSentinel(w) \/ PopNothing(w)
    BY <2>1 DEF ScanWaitFree, PopTask, PopSentinel, PopNothing, AtPop
  <2>2. CASE StealNothing(w) \/ StealTask(w) \/ StealSentinel(w)
    BY <2>2 DEF StealNothing, StealTask, StealSentinel, NextSteal
  <2>3. CASE CountIdle(w) \/ CheckIdle(w) \/ Wait(w) \/ Unidle(w) \/ SpuriousWake(w)
    BY <2>3 DEF CountIdle, CheckIdle, Wait, Unidle, SpuriousWake
  <2>4. ASSUME NEW outcome \in Outcomes, HandleMsg(w, outcome) PROVE CountTypes'
    BY <2>4 DEF HandleMsg
  <2>5. ASSUME NEW n \in 0 .. MaxParked, RetryWaitSend(w, n) PROVE CountTypes'
    BY <2>5 DEF RetryWaitSend
  <2>6. CASE NoMsg(w) \/ Requeue(w) \/ OffTask(w) \/ Recheck(w)
    BY <2>6 DEF NoMsg, Requeue, OffTask, Recheck
  <2>7. CASE Retake(w) \/ FreeNow(w) \/ FreeLater(w)
    BY <2>7 DEF Retake, FreeNow, FreeLater
  <2>8. CASE Uncount(w) BY <2>8 DEF Uncount
  <2> QED BY <1>3, <2>1, <2>2, <2>3, <2>4, <2>5, <2>6, <2>7, <2>8 DEF WorkerStep
<1>4. CASE ShutdownPush \/ ShutdownNotify \/ UNCHANGED vars
  BY <1>4 DEF ShutdownPush, ShutdownNotify, vars
<1> QED BY <1>1, <1>2, <1>3, <1>4 DEF Next

----------------------------------------------------------------------------
(* Nobody rests beside a task *)

LEMMA Remainders ==
    /\ \A n \in Int : (n % CountMod) \in Nat
    /\ \A n \in Int : 0 <= n /\ n < CountMod => (n % CountMod) = n
BY CountModAssumption, WorkerNumAssumption

LEMMA RestingIdle ==
    ASSUME TaskTypes, Counted, Resting PROVE idleWorkerNum = WorkerNum
<1>1. Idle = Workers BY DEF Idle, Resting
<1> QED BY <1>1, FiniteSets DEF Counted

(* With no task being added, a count that is zero modulo CountMod is zero, *)
(* and then no service is on task.                                         *)
LEMMA NothingToDo ==
    ASSUME CountTypes, Counted, MaxSends < CountMod, Adding = {},
           (totalWorkerTask % CountMod) = 0
    PROVE  Tasked = {}
<1>1. Cardinality(Adding) = 0 BY FS_EmptySet
<1>2. 0 <= totalWorkerTask /\ totalWorkerTask < CountMod
  BY <1>1, CardTypes, BoundsAssumption, CountModAssumption DEF CountTypes, Counted
<1>3. totalWorkerTask = 0 BY <1>2, Remainders DEF CountTypes
<1>4. 0 >= Cardinality(Tasked) + Cardinality(Ending) - 0 BY <1>1, <1>3 DEF Counted
<1>5. Cardinality(Tasked) = 0 BY <1>4, CardTypes
<1> QED BY <1>5, FiniteSets, FS_EmptySet

(* The last sender to count its task counts more than none.                *)
LEMMA CountsSomething ==
    ASSUME CountTypes, Counted, MaxSends < CountMod, NEW p \in Senders, spc[p] = "count",
           \A q \in Senders \ {p} : spc[q] \notin {"enqueue", "count"}, Tasked # {}
    PROVE  ((totalWorkerTask + 1) % CountMod) # 0
<1>1. Cardinality(Adding) = 1
  <2>1. Adding = {p} BY DEF Adding
  <2> QED BY <2>1, FS_Singleton
<1>2. Cardinality(Tasked) >= 1 BY CardTypes, FiniteSets, FS_EmptySet
<1>3. Cardinality(Calling) >= 1
  <2>1. p \in Calling BY DEF Calling
  <2> QED BY <2>1, CardTypes, FiniteSets, FS_EmptySet
<1>4. 0 < totalWorkerTask + 1 /\ totalWorkerTask + 1 < CountMod
  BY <1>1, <1>2, <1>3, CardTypes, BoundsAssumption, CountModAssumption DEF CountTypes, Counted
<1>5. totalWorkerTask + 1 \in Int BY DEF CountTypes
<1> QED BY <1>4, <1>5, Remainders

LEMMA SenderRouses ==
    ASSUME TaskTypes, CountTypes, Counted, Roused, MaxSends < CountMod, NEW p \in Senders,
           SenderStep(p) \/ \E s \in Services : SendBegin(p, s)
    PROVE  Roused'
<1> SUFFICES ASSUME Resting'
             PROVE  \/ \E w \in Workers : wpc'[w] = "checkidle" /\ idleSeen'[w] = WorkerNum
                    \/ /\ \E w \in Workers : wpc'[w] \in {"wait", "sleep"}
                       /\ Tasked' = {} \/ lostNotify' \/ \E q \in Senders : Rescuer(q)'
  BY DEF Roused
<1> USE DEF SenderAt, SenderGoto, WorkerGoto, serviceVars, countVars, runVars, searchVars,
     workerVars, senderVars, processVars
<1>1. /\ \A w \in Workers : ~SendWake(p, w)
      /\ wpc' = wpc /\ idleSeen' = idleSeen
  <2>1. ASSUME NEW w \in Workers, SendWake(p, w) PROVE FALSE
    BY <2>1 DEF TaskTypes, SendWake, Resting
  <2> QED
    BY <2>1 DEF SendBegin, SenderStep, SendCheck, SendPush, SendFull, SendPublish, SendCas,
       SendEnqueue, SendCount, SendNotifyTest, SendWakeNobody, SendEnd
<1>2. Resting BY <1>1 DEF Resting
<1>3. \A q \in Senders \ {p} : Rescuer(q) => Rescuer(q)'
  BY DEF TaskTypes, CountTypes, Rescuer, SendBegin, SenderStep, SendCheck, SendPush, SendFull,
     SendPublish, SendCas, SendEnqueue, SendCount, SendNotifyTest, SendWake, SendWakeNobody,
     SendEnd
<1>4. lostNotify => lostNotify'
  BY DEF SendBegin, SenderStep, SendCheck, SendPush, SendFull,
     SendPublish, SendCas, SendEnqueue, SendCount, SendNotifyTest, SendWake, SendWakeNobody,
     SendEnd
<1>5. Tasked' = Tasked \/ Rescuer(p)'
  <2>1. CASE SendCas(p) BY <2>1 DEF TaskTypes, SendCas, Rescuer, Tasked
  <2>2. CASE ~SendCas(p)
    <3>1. onTask' = onTask
      BY <2>2 DEF SendBegin, SenderStep, SendCheck, SendPush, SendFull,
         SendPublish, SendEnqueue, SendCount, SendNotifyTest, SendWake, SendWakeNobody,
         SendEnd
    <3> QED BY <3>1 DEF Tasked
  <2> QED BY <2>1, <2>2
<1>6. CASE \E w \in Workers : wpc[w] = "checkidle" /\ idleSeen[w] = WorkerNum
  BY <1>1, <1>6
<1>7. CASE /\ \E w \in Workers : wpc[w] \in {"wait", "sleep"}
           /\ Rescuer(p) /\ Tasked # {} /\ \A q \in Senders \ {p} : ~Rescuer(q)
  <2>1. lostNotify' \/ Rescuer(p)'
    <3>1. CASE spc[p] = "enqueue"
      <4>1. SendEnqueue(p)
        BY <3>1 DEF SendBegin, SenderStep, SendCheck, SendPush, SendFull, SendPublish,
           SendCas, SendCount, SendNotifyTest, SendWake, SendWakeNobody, SendEnd
      <4> QED BY <4>1 DEF TaskTypes, SendEnqueue, Rescuer
    <3>2. CASE spc[p] = "count"
      <4>1. SendCount(p)
        BY <3>2 DEF SendBegin, SenderStep, SendCheck, SendPush, SendFull, SendPublish,
           SendCas, SendEnqueue, SendNotifyTest, SendWake, SendWakeNobody, SendEnd
      <4>2. \A q \in Senders \ {p} : spc[q] \notin {"enqueue", "count"}
        BY <1>7 DEF Rescuer
      <4>3. ((totalWorkerTask + 1) % CountMod) # 0 BY <1>7, <3>2, <4>2, CountsSomething
      <4> QED BY <4>1, <4>3 DEF TaskTypes, CountTypes, SendCount, Rescuer
    <3>3. CASE spc[p] = "notify" /\ (totalSeen[p] % CountMod) # 0
      <4>1. SendNotifyTest(p)
        BY <3>3 DEF SendBegin, SenderStep, SendCheck, SendPush, SendFull, SendPublish,
           SendCas, SendEnqueue, SendCount, SendWake, SendWakeNobody, SendEnd
      <4>2. idleWorkerNum = WorkerNum BY <1>2, RestingIdle
      <4>3. (totalSeen[p] % CountMod) \in Nat BY Remainders DEF CountTypes
      <4>4. MoreTasksThanBusy(totalSeen[p], idleWorkerNum)
        BY <3>3, <4>2, <4>3, WorkerNumAssumption DEF MoreTasksThanBusy
      <4>5. idleWorkerNum > 0 BY <4>2, WorkerNumAssumption
      <4> QED BY <4>1, <4>4, <4>5 DEF TaskTypes, SendNotifyTest, Rescuer
    <3>4. CASE spc[p] = "wake"
      <4>1. SendWakeNobody(p)
        BY <1>1, <3>4 DEF SendBegin, SenderStep, SendCheck, SendPush, SendFull, SendPublish,
           SendCas, SendEnqueue, SendCount, SendNotifyTest, SendEnd
      <4>2. \E w \in Workers : wpc[w] = "wait" BY <1>7, <4>1 DEF SendWakeNobody, asleep
      <4> QED BY <4>1, <4>2 DEF SendWakeNobody
    <3> QED BY <1>7, <3>1, <3>2, <3>3, <3>4 DEF Rescuer
  <2> QED BY <1>1, <1>7, <2>1
<1> QED BY <1>1, <1>2, <1>3, <1>4, <1>5, <1>6, <1>7 DEF Roused

LEMMA WorkerRouses ==
    ASSUME TaskTypes, CountTypes, Counted, Counted', Roused, MaxSends < CountMod,
           NEW w \in Workers, WorkerStep(w) \/ SpuriousWake(w)
    PROVE  Roused'
<1> USE DEF WorkerAt, WorkerGoto, serviceVars, countVars, runVars, searchVars, workerVars,
     senderVars, processVars
<1>0. TaskTypes /\ CountTypes OBVIOUS
<1>1. CASE CountIdle(w)
  <2> SUFFICES ASSUME Resting' PROVE wpc'[w] = "checkidle" /\ idleSeen'[w] = WorkerNum
    BY DEF Roused
  <2>1. Idle' = Workers BY DEF Idle, Resting
  <2>2. idleWorkerNum' = WorkerNum BY <2>1, FiniteSets DEF Counted
  <2> QED BY <1>1, <2>2 DEF TaskTypes, CountTypes, CountIdle
<1>2. CASE CheckIdle(w)
  <2>1. /\ wpc[w] = "checkidle" /\ UNCHANGED <<onTask, spc, totalSeen, lostNotify>>
        /\ \A v \in Workers \ {w} : wpc'[v] = wpc[v] /\ idleSeen'[v] = idleSeen[v]
        /\ wpc'[w] = (IF MoreTasksThanBusy(totalWorkerTask, idleSeen[w])
                       THEN "unidle" ELSE "wait")
    BY <1>0, <1>2 DEF TaskTypes, CountTypes, CheckIdle
  <2> SUFFICES ASSUME Resting'
               PROVE  \/ \E v \in Workers : wpc'[v] = "checkidle" /\ idleSeen'[v] = WorkerNum
                      \/ /\ \E v \in Workers : wpc'[v] \in {"wait", "sleep"}
                         /\ Tasked' = {} \/ lostNotify' \/ \E q \in Senders : Rescuer(q)'
    BY DEF Roused
  <2>2. wpc'[w] = "wait" /\ ~MoreTasksThanBusy(totalWorkerTask, idleSeen[w])
    BY <2>1 DEF Resting
  <2>3. Resting BY <2>1 DEF Resting
  <2>4. Tasked' = Tasked /\ \A q \in Senders : Rescuer(q)' <=> Rescuer(q)
    BY <2>1 DEF Tasked, Rescuer
  <2>5. CASE idleSeen[w] = WorkerNum
    <3>1. (totalWorkerTask % CountMod) = 0
      <4>1. (totalWorkerTask % CountMod) \in Nat BY <1>0, Remainders DEF CountTypes
      <4> QED BY <2>2, <2>5, <4>1, WorkerNumAssumption DEF MoreTasksThanBusy
    <3>2. CASE Adding = {} BY <1>0, <2>2, <2>4, <3>1, <3>2, NothingToDo
    <3>3. CASE Adding # {}
      <4>1. \E q \in Senders : Rescuer(q) BY <3>3 DEF Adding, Rescuer
      <4> QED BY <2>2, <2>4, <4>1
    <3> QED BY <3>2, <3>3
  <2>6. CASE idleSeen[w] # WorkerNum BY <2>1, <2>2, <2>3, <2>4, <2>6 DEF Roused
  <2> QED BY <2>5, <2>6
<1>3. CASE Wait(w)
  <2>1. /\ wpc[w] = "wait" /\ wpc'[w] = "sleep"
        /\ UNCHANGED <<onTask, spc, totalSeen, lostNotify, idleSeen>>
        /\ \A v \in Workers \ {w} : wpc'[v] = wpc[v]
    BY <1>0, <1>3 DEF TaskTypes, Wait
  <2>2. Resting' => Resting BY <2>1 DEF Resting
  <2>3. Tasked' = Tasked /\ \A q \in Senders : Rescuer(q)' <=> Rescuer(q)
    BY <2>1 DEF Tasked, Rescuer
  <2>4. \A v \in Workers : wpc[v] = "checkidle" => wpc'[v] = "checkidle" BY <2>1
  <2>5. wpc'[w] \in {"wait", "sleep"} BY <2>1
  <2> QED BY <2>1, <2>2, <2>3, <2>4, <2>5 DEF Roused
<1>4. CASE ~(CountIdle(w) \/ CheckIdle(w) \/ Wait(w))
  <2>1. wpc'[w] \notin {"checkidle", "wait", "sleep"}
    <3>1. CASE ScanWaitFree(w) \/ PopTask(w) \/ PopSentinel(w) \/ PopNothing(w)
      BY <1>0, <3>1 DEF TaskTypes, ScanWaitFree, PopTask, PopSentinel, PopNothing
    <3>2. CASE StealNothing(w) \/ StealTask(w) \/ StealSentinel(w)
      BY <1>0, <3>2 DEF TaskTypes, StealNothing, StealTask, StealSentinel
    <3>3. CASE Unidle(w) \/ SpuriousWake(w) BY <1>0, <3>3 DEF TaskTypes, Unidle, SpuriousWake
    <3>4. ASSUME NEW outcome \in Outcomes, HandleMsg(w, outcome)
          PROVE  wpc'[w] \notin {"checkidle", "wait", "sleep"}
      BY <1>0, <3>4 DEF TaskTypes, HandleMsg
    <3>5. ASSUME NEW n \in 0 .. MaxParked, RetryWaitSend(w, n)
          PROVE  wpc'[w] \notin {"checkidle", "wait", "sleep"}
      BY <1>0, <3>5 DEF TaskTypes, RetryWaitSend
    <3>6. CASE NoMsg(w) \/ Requeue(w) \/ OffTask(w) \/ Recheck(w) \/ Retake(w) \/ Uncount(w)
      BY <1>0, <3>6 DEF TaskTypes, NoMsg, Requeue, OffTask, Recheck, Retake, Uncount
    <3>7. CASE FreeNow(w) \/ FreeLater(w) BY <1>0, <3>7 DEF TaskTypes, FreeNow, FreeLater
    <3> QED BY <1>4, <3>1, <3>2, <3>3, <3>4, <3>5, <3>6, <3>7 DEF WorkerStep
  <2> QED BY <2>1 DEF Roused, Resting
<1> QED BY <1>1, <1>2, <1>3, <1>4

LEMMA ShutdownRouses ==
    ASSUME TaskTypes, Roused, ShutdownPush \/ ShutdownNotify \/ UNCHANGED vars
    PROVE  Roused'
<1>1. /\ UNCHANGED <<onTask, spc, totalSeen, idleSeen>>
      /\ \/ wpc' = wpc /\ lostNotify' = lostNotify
         \/ /\ wpc' = [w \in Workers |-> IF wpc[w] = "sleep" THEN "unidle" ELSE wpc[w]]
            /\ lostNotify \/ (\E w \in Workers : wpc[w] = "wait") => lostNotify'
  BY DEF ShutdownPush, ShutdownNotify, asleep, LookedAtQueue, vars, serviceVars, countVars,
     runVars, searchVars, workerVars, senderVars, processVars
<1>2. Tasked' = Tasked /\ \A q \in Senders : Rescuer(q)' <=> Rescuer(q)
  BY <1>1 DEF Tasked, Rescuer
<1>3. CASE wpc' = wpc /\ lostNotify' = lostNotify
  BY <1>1, <1>2, <1>3 DEF Roused, Resting
<1>4. CASE /\ wpc' = [w \in Workers |-> IF wpc[w] = "sleep" THEN "unidle" ELSE wpc[w]]
           /\ lostNotify \/ (\E w \in Workers : wpc[w] = "wait") => lostNotify'
  <2> SUFFICES ASSUME Resting' PROVE Roused' BY DEF Roused
  <2>1. \A w \in Workers : wpc'[w] = wpc[w] /\ wpc[w] # "sleep" BY <1>4 DEF Resting
  <2>2. Resting BY <2>1 DEF Resting
  <2> QED BY <1>1, <1>2, <1>4, <2>1, <2>2 DEF Roused
<1> QED BY <1>1, <1>3, <1>4
----------------------------------------------------------------------------
(* The sentinels of worker_shutdown *)

LEMMA QueueSentinels ==
    ASSUME NEW q \in Seq(Services \union {Sentinel})
    PROVE  /\ \A s \in Services : CarriesSentinel(Append(q, s)) <=> CarriesSentinel(q)
           /\ CarriesSentinel(Append(q, Sentinel))
           /\ q # << >> /\ Head(q) # Sentinel => (CarriesSentinel(Tail(q)) <=> CarriesSentinel(q))
           /\ q # << >> /\ CarriesSentinel(Tail(q)) => CarriesSentinel(q)
<1>1. ASSUME NEW s \in Services PROVE CarriesSentinel(Append(q, s)) <=> CarriesSentinel(q)
  <2>1. s # Sentinel BY NamesAssumption
  <2>2. s \in Services \union {Sentinel} OBVIOUS
  <2> QED BY <2>1, <2>2, AppendEntries DEF CarriesSentinel
<1>2. CarriesSentinel(Append(q, Sentinel))
  <2>1. Sentinel \in Services \union {Sentinel} OBVIOUS
  <2> QED BY <2>1, AppendEntries DEF CarriesSentinel
<1>3. q # << >> /\ CarriesSentinel(Tail(q)) => CarriesSentinel(q)
  BY TailEntries DEF CarriesSentinel
<1>4. ASSUME q # << >>, Head(q) # Sentinel, NEW i \in DOMAIN q, q[i] = Sentinel
      PROVE  CarriesSentinel(Tail(q))
  <2>1. i # 1 /\ i \in Nat /\ i - 1 \in Nat /\ i - 1 # 0 BY <1>4, TailEntries
  <2>2. PICK j \in Nat : j # 0 /\ j + 1 = i
    <3>1. (i - 1) + 1 = i BY <2>1
    <3> QED BY <2>1, <3>1
  <2>3. j \in DOMAIN Tail(q) BY <1>4, <2>2, TailEntries
  <2>4. Tail(q)[j] = q[i] BY <1>4, <2>2, <2>3, TailEntries
  <2> QED BY <1>4, <2>3, <2>4 DEF CarriesSentinel
<1>5. q # << >> /\ Head(q) # Sentinel /\ CarriesSentinel(q) => CarriesSentinel(Tail(q))
  BY <1>4 DEF CarriesSentinel
<1> QED BY <1>1, <1>2, <1>3, <1>5

Looking == {"steal", "idle", "checkidle", "wait", "sleep"}

(* A step that leaves the sentinels where they are and lets no worker end  *)
(* its look for a task without one.                                        *)
SentinelsStay ==
    /\ shut' = shut /\ fault = None /\ (lostNotify => lostNotify')
    /\ \A w \in Workers : HasSentinel(w)' <=> HasSentinel(w)
    /\ \A w \in Workers : wpc[w] = "exited" => wpc'[w] = "exited"
    /\ \A w \in Workers : wpc'[w] \in Looking => wpc[w] \in Looking
    /\ fault' # None => \E w \in Workers : wpc'[w] # "sleep"

LEMMA SentinelsFrame == ASSUME Sentinels, SentinelsStay PROVE Sentinels'
BY DEF Sentinels, SentinelsStay, Looking

LEMMA SenderSentinels ==
    ASSUME TaskTypes, NEW p \in Senders,
           SenderStep(p) \/ \E s \in Services : SendBegin(p, s)
    PROVE  SentinelsStay
<1> USE DEF SenderAt, SenderGoto, WorkerGoto, serviceVars, countVars, runVars, searchVars,
     workerVars, senderVars, processVars
<1>1. /\ shut' = shut /\ fault = None /\ fault' = None /\ (lostNotify => lostNotify')
      /\ \A w \in Workers : wpc'[w] = wpc[w] \/ (wpc[w] = "sleep" /\ wpc'[w] = "unidle")
  <2>1. ASSUME NEW w \in Workers, SendWake(p, w) PROVE /\ shut' = shut /\ fault = None /\ fault' = None
              /\ (lostNotify => lostNotify')
              /\ \A v \in Workers : wpc'[v] = wpc[v] \/ (wpc[v] = "sleep" /\ wpc'[v] = "unidle")
    BY <2>1 DEF TaskTypes, SendWake, asleep
  <2>2. CASE SendCheck(p) \/ SendPush(p) \/ SendFull(p) \/ SendPublish(p) \/ SendCas(p)
    BY <2>2 DEF SendCheck, SendPush, SendFull, SendPublish, SendCas
  <2>3. CASE SendEnqueue(p) \/ SendCount(p) \/ SendNotifyTest(p) \/ SendEnd(p)
    BY <2>3 DEF SendEnqueue, SendCount, SendNotifyTest, SendEnd
  <2>4. CASE SendWakeNobody(p) BY <2>4 DEF SendWakeNobody
  <2>5. CASE \E s \in Services : SendBegin(p, s) BY <2>5 DEF SendBegin
  <2> QED BY <2>1, <2>2, <2>3, <2>4, <2>5 DEF SenderStep
<1>2. \A w \in Workers : HasSentinel(w)' <=> HasSentinel(w)
  <2>1. CASE SendEnqueue(p)
    <3>1. dst[p] \in Services BY <2>1 DEF SendEnqueue, TaskTypes
    <3>2. \A w \in Workers : queTask'[w] = queTask[w] \/ queTask'[w] = Append(queTask[w], dst[p])
      BY <2>1 DEF TaskTypes, SendEnqueue
    <3>3. \A w \in Workers : queTask[w] \in Seq(Services \union {Sentinel}) BY DEF TaskTypes
    <3>4. ASSUME NEW w \in Workers PROVE CarriesSentinel(queTask'[w]) <=> CarriesSentinel(queTask[w])
      <4>1. CASE queTask'[w] = queTask[w] BY <4>1
      <4>2. CASE queTask'[w] = Append(queTask[w], dst[p])
        BY <3>1, <3>3, <4>2, QueueSentinels
      <4> QED BY <3>2, <4>1, <4>2
    <3> QED BY <3>4 DEF HasSentinel
  <2>2. CASE ~SendEnqueue(p)
    <3>1. queTask' = queTask
      BY <2>2 DEF SendBegin, SenderStep, SendCheck, SendPush, SendFull,
         SendPublish, SendCas, SendCount, SendNotifyTest, SendWake, SendWakeNobody, SendEnd
    <3> QED BY <3>1 DEF HasSentinel
  <2> QED BY <2>1, <2>2
<1> QED BY <1>1, <1>2 DEF SentinelsStay, Looking

LEMMA WorkerSentinels ==
    ASSUME TaskTypes, NEW w \in Workers, WorkerStep(w) \/ SpuriousWake(w),
           ~(PopSentinel(w) \/ PopNothing(w) \/ StealSentinel(w))
    PROVE  SentinelsStay
<1> USE DEF TaskTypes, WorkerAt, WorkerGoto, serviceVars, countVars, runVars, searchVars,
     workerVars, senderVars, processVars, Looking
<1>1. CASE PopTask(w) \/ StealTask(w)
  <2>1. PICK u \in Workers : /\ queTask[u] # << >> /\ Head(queTask[u]) # Sentinel
                            /\ queTask' = [queTask EXCEPT ![u] = Tail(@)]
    BY <1>1 DEF PopTask, AtPop, StealTask, CanSteal
  <2>2. \A v \in Workers : HasSentinel(v)' <=> HasSentinel(v)
    BY <2>1, QueueSentinels DEF HasSentinel
  <2>3. /\ shut' = shut /\ fault = None /\ fault' = None /\ lostNotify' = lostNotify
        /\ \A v \in Workers \ {w} : wpc'[v] = wpc[v]
        /\ wpc[w] # "exited" /\ wpc'[w] = "proc"
    BY <1>1 DEF PopTask, AtPop, StealTask
  <2> QED BY <2>2, <2>3 DEF SentinelsStay
<1>2. CASE Requeue(w)
  <2>1. cur[w] \in Services BY <1>2 DEF Requeue, Serving, Holding
  <2>2. queTask' = [queTask EXCEPT ![w] = Append(@, cur[w])] BY <1>2 DEF Requeue
  <2>3. \A v \in Workers : HasSentinel(v)' <=> HasSentinel(v)
    BY <2>1, <2>2, QueueSentinels DEF HasSentinel
  <2>4. /\ shut' = shut /\ fault = None /\ fault' = None /\ lostNotify' = lostNotify
        /\ \A v \in Workers \ {w} : wpc'[v] = wpc[v]
        /\ wpc[w] # "exited" /\ wpc'[w] = "top"
    BY <1>2 DEF Requeue
  <2> QED BY <2>3, <2>4 DEF SentinelsStay
<1>3. CASE ~(PopTask(w) \/ StealTask(w) \/ Requeue(w))
  <2> DEFINE H == /\ shut' = shut /\ fault = None /\ lostNotify' = lostNotify
                  /\ queTask' = queTask
                  /\ \A v \in Workers \ {w} : wpc'[v] = wpc[v]
                  /\ wpc[w] # "exited"
                  /\ wpc'[w] \in Looking => wpc[w] \in Looking
                  /\ fault' = None \/ wpc'[w] # "sleep"
  <2>1. H
    <3>1. CASE ScanWaitFree(w) BY <3>1 DEF ScanWaitFree
    <3>2. CASE StealNothing(w) BY <3>2 DEF StealNothing
    <3>3. CASE CountIdle(w) \/ CheckIdle(w) \/ Wait(w) \/ Unidle(w) \/ SpuriousWake(w)
      BY <3>3 DEF CountIdle, CheckIdle, Wait, Unidle, SpuriousWake
    <3>4. ASSUME NEW outcome \in Outcomes, HandleMsg(w, outcome) PROVE H
      BY <3>4 DEF HandleMsg
    <3>5. ASSUME NEW n \in 0 .. MaxParked, RetryWaitSend(w, n) PROVE H
      BY <3>5 DEF RetryWaitSend
    <3>6. CASE NoMsg(w) \/ OffTask(w) \/ Recheck(w) \/ Uncount(w)
      BY <3>6 DEF NoMsg, OffTask, Recheck, Uncount
    <3>7. CASE Retake(w) \/ FreeNow(w) \/ FreeLater(w)
      BY <3>7 DEF Retake, FreeNow, FreeLater
    <3> QED BY <1>3, <3>1, <3>2, <3>3, <3>4, <3>5, <3>6, <3>7 DEF WorkerStep
  <2>2. \A v \in Workers : HasSentinel(v)' <=> HasSentinel(v) BY <2>1 DEF HasSentinel
  <2> QED BY <2>1, <2>2 DEF SentinelsStay
<1> QED BY <1>1, <1>2, <1>3

LEMMA SentinelSteps ==
    ASSUME TaskTypes, Sentinels, NEW w \in Workers,
           PopSentinel(w) \/ PopNothing(w) \/ StealSentinel(w)
    PROVE  Sentinels'
<1> USE DEF TaskTypes, WorkerAt, WorkerGoto, serviceVars, countVars, runVars, searchVars,
     workerVars, senderVars, processVars, Looking
<1>1. CASE PopSentinel(w)
  <2>1. /\ UNCHANGED <<shut, fault, lostNotify>> /\ fault = None
        /\ queTask[w] # << >> /\ queTask' = [queTask EXCEPT ![w] = Tail(@)]
        /\ wpc'[w] = "exited" /\ \A v \in Workers \ {w} : wpc'[v] = wpc[v]
    BY <1>1 DEF PopSentinel, AtPop
  <2>2. HasSentinel(w)' => HasSentinel(w) BY <2>1, QueueSentinels DEF HasSentinel
  <2>3. \A v \in Workers \ {w} : HasSentinel(v)' <=> HasSentinel(v) BY <2>1 DEF HasSentinel
  <2> QED BY <2>1, <2>2, <2>3 DEF Sentinels
<1>2. CASE PopNothing(w)
  <2>1. /\ UNCHANGED <<shut, fault, queTask>> /\ fault = None
        /\ lostNotify' = (lostNotify \/ HasSentinel(w))
        /\ wpc[w] \in {"pop", "top"}
        /\ wpc'[w] = "steal" /\ \A v \in Workers \ {w} : wpc'[v] = wpc[v]
    BY <1>2 DEF PopNothing, AtPop, HasSentinel, CarriesSentinel
  <2>2. \A v \in Workers : HasSentinel(v)' <=> HasSentinel(v) BY <2>1 DEF HasSentinel
  <2>3. shut = WorkerNum + 1 => lostNotify'
    <3>1. w < WorkerNum + 1 BY WorkerNumAssumption DEF Workers
    <3> QED BY <2>1, <3>1 DEF Sentinels
  <2> QED BY <2>1, <2>2, <2>3 DEF Sentinels
<1>3. CASE StealSentinel(w)
  <2>1. /\ UNCHANGED <<shut, wpc>> /\ fault' = "no service" /\ wpc[w] = "steal"
        /\ lastSteal[w] \in Workers /\ queTask[lastSteal[w]] # << >>
        /\ queTask' = [queTask EXCEPT ![lastSteal[w]] = Tail(@)]
    BY <1>3 DEF StealSentinel, CanSteal
  <2>2. fault' # None /\ wpc'[w] # "sleep" BY <2>1 DEF None
  <2>3. \A v \in Workers : HasSentinel(v)' => HasSentinel(v)
    BY <2>1, QueueSentinels DEF HasSentinel
  <2> QED BY <2>1, <2>2, <2>3 DEF Sentinels
<1> QED BY <1>1, <1>2, <1>3

LEMMA ShutdownSentinels ==
    ASSUME TaskTypes, Sentinels, ShutdownPush \/ ShutdownNotify \/ UNCHANGED vars
    PROVE  Sentinels'
<1> USE DEF TaskTypes, serviceVars, countVars, runVars, searchVars, workerVars, senderVars,
     processVars
<1>1. CASE ShutdownPush
  <2>1. /\ UNCHANGED <<wpc, fault, lostNotify>> /\ fault = None
        /\ shut \in Workers /\ shut < WorkerNum /\ shut' = shut + 1
        /\ queTask' = [queTask EXCEPT ![shut] = Append(@, Sentinel)]
    BY <1>1, WorkerNumAssumption DEF ShutdownPush, Workers
  <2>2. \A v \in Workers \ {shut} : HasSentinel(v)' <=> HasSentinel(v)
    BY <2>1 DEF HasSentinel
  <2>3. CarriesSentinel(queTask'[shut]) BY <2>1, QueueSentinels
  <2>4. \A v \in Workers : v < shut' => v < shut \/ v = shut
    BY <2>1, WorkerNumAssumption DEF Workers
  <2>5. \A v \in Workers : v < shut' => HasSentinel(v)' \/ wpc'[v] = "exited"
    BY <2>1, <2>2, <2>3, <2>4 DEF Sentinels, HasSentinel
  <2>6. shut' # 0 /\ shut' # WorkerNum + 1
    <3>1. shut \in Nat /\ shut < WorkerNum /\ shut' = shut + 1 /\ WorkerNum \in Nat
      BY <2>1, WorkerNumAssumption, WorkersNat
    <3> QED BY <3>1
  <2> QED BY <2>1, <2>5, <2>6 DEF Sentinels
<1>2. CASE ShutdownNotify
  <2>1. /\ UNCHANGED <<queTask, fault>> /\ fault = None
        /\ shut = WorkerNum /\ shut' = WorkerNum + 1
        /\ \A v \in Workers : wpc'[v] = IF wpc[v] = "sleep" THEN "unidle" ELSE wpc[v]
        /\ lostNotify' = (lostNotify \/ \E v \in Workers : LookedAtQueue(v))
    BY <1>2 DEF ShutdownNotify, asleep
  <2>2. \A v \in Workers : HasSentinel(v)' <=> HasSentinel(v) BY <2>1 DEF HasSentinel
  <2>3. \A v \in Workers : v < WorkerNum BY WorkerNumAssumption DEF Workers
  <2>4. ~lostNotify' => \A v \in Workers :
          wpc'[v] \notin {"steal", "idle", "checkidle", "wait", "sleep"}
    BY <2>1 DEF LookedAtQueue
  <2>5. \A v \in Workers : HasSentinel(v)' \/ wpc'[v] = "exited"
    BY <2>1, <2>2, <2>3 DEF Sentinels
  <2>6. WorkerNum + 1 # 0 BY WorkerNumAssumption
  <2> QED BY <2>1, <2>4, <2>5, <2>6 DEF Sentinels
<1>3. CASE UNCHANGED vars BY <1>3 DEF vars, Sentinels, HasSentinel
<1> QED BY <1>1, <1>2, <1>3

----------------------------------------------------------------------------
LEMMA InitCountInv == Init => CountInv
<1> SUFFICES ASSUME Init PROVE CountInv OBVIOUS
<1>1. TaskInv BY InitTaskInv
<1>2. CountTypes
  <2>1. totalWorkerTask \in Int /\ idleWorkerNum \in Int /\ sends \in Nat BY DEF Init
  <2>2. idleSeen \in [Workers -> Int] BY DEF Init
  <2>3. totalSeen \in [Senders -> Int] BY DEF Init
  <2>4. lostNotify \in BOOLEAN BY DEF Init
  <2> QED BY <2>1, <2>2, <2>3, <2>4 DEF CountTypes
<1>3. Counted
  <2>1. Idle = {} /\ Tasked = {} /\ Ending = {} /\ Adding = {} /\ Calling = {}
    BY DEF Init, Idle, Tasked, Ending, Adding, Calling
  <2>2. Cardinality({}) = 0 BY FS_EmptySet
  <2> QED BY <2>1, <2>2, BoundsAssumption DEF Init, Counted
<1>4. 0 \in Workers BY WorkerNumAssumption DEF Workers
<1>5. Roused BY <1>4 DEF Init, Roused, Resting
<1>6. Sentinels
  BY WorkerNumAssumption DEF Init, Sentinels, HasSentinel, CarriesSentinel, Workers
<1> QED BY <1>1, <1>2, <1>3, <1>5, <1>6 DEF CountInv

LEMMA NextCountInv == MaxSends < CountMod => (CountInv /\ [Next]_vars => CountInv')
<1> SUFFICES ASSUME MaxSends < CountMod, CountInv, [Next]_vars PROVE CountInv' OBVIOUS
<1> USE DEF CountInv
<1>1. TaskTypes /\ TaskInv' BY NextTaskInv DEF TaskInv
<1>2. CountTypes' /\ Counted' BY <1>1, NextCountTypes, NextCounted
<1>3. ASSUME NEW p \in Senders, SenderStep(p) \/ \E s \in Services : SendBegin(p, s)
      PROVE  Roused' /\ Sentinels'
  BY <1>1, <1>3, SenderRouses, SenderSentinels, SentinelsFrame
<1>4. ASSUME NEW w \in Workers, WorkerStep(w) \/ SpuriousWake(w) PROVE Roused' /\ Sentinels'
  <2>1. Roused' BY <1>1, <1>2, <1>4, WorkerRouses
  <2>2. CASE PopSentinel(w) \/ PopNothing(w) \/ StealSentinel(w)
    BY <1>1, <2>1, <2>2, SentinelSteps
  <2>3. CASE ~(PopSentinel(w) \/ PopNothing(w) \/ StealSentinel(w))
    BY <1>1, <1>4, <2>1, <2>3, WorkerSentinels, SentinelsFrame
  <2> QED BY <2>2, <2>3
<1>5. CASE ShutdownPush \/ ShutdownNotify \/ UNCHANGED vars
  BY <1>1, <1>2, <1>5, ShutdownRouses, ShutdownSentinels
<1>6. Roused' /\ Sentinels' BY <1>3, <1>4, <1>5 DEF Next
<1> QED BY <1>1, <1>2, <1>6

(* While fewer than 2^32 messages were sent, so that totalWorkerTask has   *)
(* not wrapped round, all workers sleep beside a queued task only after a  *)
(* notify that fell between a worker's last look and its wait: the counts  *)
(* of worker_add_task and worker_thread never mislead.                     *)
THEOREM StrandsOnlyByLostNotify ==
    ASSUME MaxSends < CountMod PROVE Spec => []StrandedOnlyByLostNotify
<1>1. CountInv => StrandedOnlyByLostNotify
  <2> SUFFICES ASSUME CountInv, AllAsleepBesideTask PROVE lostNotify
    BY DEF StrandedOnlyByLostNotify
  <2>0. TaskTypes BY DEF CountInv, TaskInv
  <2>1. 0 \in Workers BY WorkerNumAssumption DEF Workers
  <2>2. \A w \in Workers : wpc[w] = "sleep" BY DEF AllAsleepBesideTask, asleep
  <2>3. fault = None BY <2>2 DEF CountInv, Sentinels
  <2>4. CASE shut = WorkerNum + 1 BY <2>1, <2>2, <2>3, <2>4 DEF CountInv, Sentinels
  <2>5. CASE shut = 0
    <3>1. PICK w \in Workers : queTask[w] # << >> BY DEF AllAsleepBesideTask
    <3>2. 1 \in DOMAIN queTask[w] /\ queTask[w][1] \in Services \union {Sentinel}
      BY <2>0, <3>1 DEF TaskTypes
    <3>3. queTask[w][1] \in Services BY <2>5, <3>2 DEF CountInv, Sentinels, HasSentinel, CarriesSentinel
    <3>4. Queued(queTask[w][1], w, 1) BY <3>2 DEF Queued
    <3>5. onTask[queTask[w][1]] BY <3>3, <3>4 DEF CountInv, TaskInv, AtLeastOne
    <3>6. Tasked # {} BY <3>3, <3>5 DEF Tasked
    <3>7. \A p \in Senders : ~Rescuer(p) BY DEF AllAsleepBesideTask, Rescuer
    <3> QED BY <2>2, <3>6, <3>7 DEF CountInv, Roused, Resting
  <2> QED BY <2>4, <2>5 DEF AllAsleepBesideTask
<1> QED BY <1>1, InitCountInv, NextCountInv, PTL DEF Spec
=============================================================================
