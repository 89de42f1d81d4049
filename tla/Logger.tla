------------------------------- MODULE Logger -------------------------------
(***************************************************************************)
(* The logger (pps_logger.cpp): any thread takes the next id, fills a      *)
(* record and queues it, in a backup list when the queue is full; the      *)
(* logger thread prints the records in the order of their ids and keeps    *)
(* those that came too early.  When there is nothing it sleeps.  Its start *)
(* and its end, and shutdown, are in module Shutdown.  A record is here    *)
(* the id it carries; the pool of records is left out.                     *)
(***************************************************************************)
EXTENDS Integers, Sequences, FiniteSets, SequencesExt

CONSTANTS Senders,  \* threads that log
          MqCap,    \* capacity of mqMsg
          MaxMsgs   \* bound: messages

ASSUME LoggerAssumption == MqCap \in Nat \ {0} /\ MaxMsgs \in Nat /\ IsFiniteSet(Senders)

VARIABLES
  lpc,         \* where the logger thread is
  loop, idle, unAddMsgNum,
  mqMsg, plkMsgBak,
  plkWaitLog,  \* records printed too early if printed now
  it,          \* where the pass over them is
  idCnt,       \* the next id to print
  addCnt,
  msgIdCnt,    \* the next id to give
  spc, sid,    \* where a sender is and the id it has taken
  missed       \* a notification came between the test and the sleep

queueVars  == <<mqMsg, plkMsgBak, plkWaitLog, it, idCnt, addCnt>>
senderVars == <<msgIdCnt, spc, sid>>
sleepVars  == <<idle, unAddMsgNum, missed>>
loggerVars == <<lpc, loop, sleepVars, queueVars, senderVars>>

LoggerInit ==
    /\ lpc = "start" /\ loop = FALSE /\ idle = FALSE /\ unAddMsgNum = 0
    /\ mqMsg = << >> /\ plkMsgBak = << >> /\ plkWaitLog = << >>
    /\ it = 1 /\ idCnt = 0 /\ addCnt = 0 /\ msgIdCnt = 0
    /\ spc = [s \in Senders |-> "out"] /\ sid = [s \in Senders |-> 0] /\ missed = FALSE

SenderGoto(s, place) == spc' = [spc EXCEPT ![s] = place]
-----------------------------------------------------------------------------
(* logger_send_begin                                                       *)
SendBegin(s) ==
    /\ spc[s] = "out" /\ msgIdCnt < MaxMsgs
    /\ sid' = [sid EXCEPT ![s] = msgIdCnt] /\ msgIdCnt' = msgIdCnt + 1
    /\ SenderGoto(s, "push")
    /\ UNCHANGED <<lpc, loop, sleepVars, queueVars>>

(* logger_send_end: the record is queued, then counted, and only then is   *)
(* idle looked at.                                                         *)
SendPush(s) ==
    /\ spc[s] = "push"
    /\ IF Len(mqMsg) < MqCap
       THEN mqMsg' = Append(mqMsg, sid[s]) /\ UNCHANGED plkMsgBak
       ELSE plkMsgBak' = Append(plkMsgBak, sid[s]) /\ UNCHANGED mqMsg
    /\ SenderGoto(s, "count") /\ sid' = [sid EXCEPT ![s] = 0]
    /\ UNCHANGED <<lpc, loop, sleepVars, plkWaitLog, it, idCnt, addCnt, msgIdCnt>>

SendCount(s) ==
    /\ spc[s] = "count"
    /\ unAddMsgNum' = unAddMsgNum + 1 /\ SenderGoto(s, "look")
    /\ UNCHANGED <<lpc, loop, idle, missed, queueVars, msgIdCnt, sid>>

SendLook(s) ==
    /\ spc[s] = "look" /\ SenderGoto(s, IF idle THEN "notify" ELSE "out")
    /\ UNCHANGED <<lpc, loop, sleepVars, queueVars, msgIdCnt, sid>>

WakeLogger == lpc' = IF lpc = "asleep" THEN "awake" ELSE lpc

SendNotify(s) ==
    /\ spc[s] = "notify" /\ SenderGoto(s, "out") /\ WakeLogger
    /\ missed' = (missed \/ lpc \in {"test", "lock"})
    /\ UNCHANGED <<loop, idle, unAddMsgNum, queueVars, msgIdCnt, sid>>
-----------------------------------------------------------------------------
(* logger_thread.                                                          *)
Top ==
    /\ lpc = "top" /\ lpc' = IF loop THEN "mq" ELSE "left"
    /\ UNCHANGED <<loop, sleepVars, queueVars, senderVars>>

Due(id) == id = idCnt
PopMsg ==
    /\ lpc = "mq" /\ mqMsg # << >>
    /\ mqMsg' = Tail(mqMsg) /\ addCnt' = addCnt + 1
    /\ IF Due(Head(mqMsg)) THEN idCnt' = idCnt + 1 /\ UNCHANGED plkWaitLog
       ELSE plkWaitLog' = Append(plkWaitLog, Head(mqMsg)) /\ UNCHANGED idCnt
    /\ UNCHANGED <<lpc, loop, sleepVars, plkMsgBak, it, senderVars>>

PopBak ==
    /\ lpc = "mq" /\ mqMsg = << >>
    /\ plkWaitLog' = plkWaitLog \o plkMsgBak /\ plkMsgBak' = << >>
    /\ addCnt' = addCnt + Len(plkMsgBak)
    /\ lpc' = "wait"
    /\ UNCHANGED <<loop, sleepVars, mqMsg, it, idCnt, senderVars>>

(* The records kept are tried one by one, in the order they were kept.     *)
LogWaiting ==
    /\ lpc = "wait" /\ it <= Len(plkWaitLog)
    /\ IF Due(plkWaitLog[it])
       THEN plkWaitLog' = RemoveAt(plkWaitLog, it) /\ idCnt' = idCnt + 1 /\ UNCHANGED it
       ELSE it' = it + 1 /\ UNCHANGED <<plkWaitLog, idCnt>>
    /\ UNCHANGED <<lpc, loop, sleepVars, mqMsg, plkMsgBak, addCnt, senderVars>>

LogWaited ==
    /\ lpc = "wait" /\ it > Len(plkWaitLog)
    /\ it' = 1
    /\ unAddMsgNum' = unAddMsgNum - addCnt /\ addCnt' = 0
    /\ lpc' = IF plkWaitLog = << >> THEN "idle" ELSE "top"
    /\ UNCHANGED <<loop, idle, missed, mqMsg, plkMsgBak, plkWaitLog, idCnt, senderVars>>

GoIdle ==
    /\ lpc = "idle" /\ idle' = TRUE /\ lpc' = "test"
    /\ UNCHANGED <<loop, unAddMsgNum, missed, queueVars, senderVars>>

(* A record may be popped before it is counted: the count, a uint32_t,     *)
(* goes below zero for a while and is not less than 1 then.                *)
MayIdleAlways == TRUE
MayIdle == unAddMsgNum = 0
TestIdle ==
    /\ lpc = "test" /\ lpc' = IF MayIdle THEN "lock" ELSE "busy"
    /\ UNCHANGED <<loop, sleepVars, queueVars, senderVars>>

LockIdle ==
    /\ lpc = "lock" /\ lpc' = IF loop THEN "asleep" ELSE "busy"
    /\ UNCHANGED <<loop, sleepVars, queueVars, senderVars>>

(* wait_for gives up after 20 seconds.                                     *)
WaitTimeout ==
    /\ lpc = "asleep" /\ lpc' = "awake"
    /\ UNCHANGED <<loop, sleepVars, queueVars, senderVars>>

GoBusy ==
    /\ lpc \in {"awake", "busy"} /\ idle' = FALSE /\ lpc' = "top" /\ missed' = FALSE
    /\ UNCHANGED <<loop, unAddMsgNum, queueVars, senderVars>>

LogStep ==
    \/ Top \/ PopMsg \/ PopBak \/ LogWaiting \/ LogWaited \/ GoIdle \/ TestIdle
    \/ LockIdle \/ WaitTimeout \/ GoBusy
SendStep(s) ==
    SendBegin(s) \/ SendPush(s) \/ SendCount(s) \/ SendLook(s) \/ SendNotify(s)
-----------------------------------------------------------------------------
(* Whatever overtakes what on the way, a message that has been given an id *)
(* is in one place: with its sender, in the queue, in the backup, among    *)
(* those that came early, or printed; and none is printed before the ids   *)
(* ahead of it.                                                            *)
MsgPlaces(i) ==
    Cardinality({s \in Senders : spc[s] = "push" /\ sid[s] = i})
    + Cardinality({n \in 1..Len(mqMsg) : mqMsg[n] = i})
    + Cardinality({n \in 1..Len(plkMsgBak) : plkMsgBak[n] = i})
    + Cardinality({n \in 1..Len(plkWaitLog) : plkWaitLog[n] = i})
    + (IF i < idCnt THEN 1 ELSE 0)
MsgInOnePlace == \A i \in 0..MaxMsgs - 1 : MsgPlaces(i) = (IF i < msgIdCnt THEN 1 ELSE 0)

(* The logger sleeps on a queued message only when a sender is about to    *)
(* wake it, or when a wakeup came between its test and its sleep: then it  *)
(* sleeps for 20 seconds.                                                  *)
LoggerSleepsOnlyByMissedNotify ==
    lpc = "asleep" /\ (mqMsg # << >> \/ plkMsgBak # << >>) /\ ~missed /\ loop
        => \E s \in Senders : spc[s] \in {"count", "look", "notify"}

(* Messages are printed, once each and in turn, and soon. *)
LogsAll == MsgInOnePlace /\ LoggerSleepsOnlyByMissedNotify

=============================================================================
