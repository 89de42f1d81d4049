------------------------------ MODULE Shutdown ------------------------------
(***************************************************************************)
(* The life of the process (pipes.cpp, pps_logger.cpp and the beginning    *)
(* and the end of worker_thread, timer_thread, net_thread): every loop     *)
(* thread waits until all have started; pps_shutdown, called by a service, *)
(* asks all to stop; each waits for the external threads and for the       *)
(* exclusive services, then for all others, and when all are joined the    *)
(* main thread destroys everything.  The logger is module Logger.          *)
(*                                                                         *)
(* How a loop thread and an exclusive thread come to see the request is in *)
(* modules Scheduler, Timer, Net and Exclusive: here they see it at some   *)
(* time.  The threads that run services, the workers and those of the      *)
(* exclusive services, of which one stands here, log (Senders of Logger)   *)
(* and start external threads.                                             *)
(***************************************************************************)
EXTENDS Logger

CONSTANTS Workers,  \* loop threads that run services
          Others,   \* loop threads that do not: timers and nets
          ExThread, \* the thread of an exclusive service
          Ext       \* bound: external threads at a time (conn_ctrl_thread)

ASSUME ShutdownAssumption ==
    /\ IsFiniteSet(Ext) /\ Workers # {} /\ ExThread \notin Workers
    /\ Senders = Workers \union {ExThread}

Loops == Workers \union Others
TotalLoop == Cardinality(Loops) + 1

VARIABLES
  tpc,            \* a loop thread: "new", "barrier", "loop", "ext", "excl", "exit", "end"
  loopStartedNum, loopExitedNum,
  asked,          \* loop threads that have been asked to stop
  shutdown,       \* pps_shutdown: the next call it makes, "not" or "done"
  exclusive,      \* an exclusive service: "runs" or "ended"
  ext,            \* external threads: "none", "new" or "runs"
  extThreadNum,
  late,           \* external threads counted when somebody had looked
  freed,          \* l_deinit
  cutOff          \* loop was FALSE for shutdown before the logger set it

threadVars == <<tpc, loopStartedNum, loopExitedNum, asked>>
extVars == <<ext, extThreadNum, late>>
vars == <<loggerVars, threadVars, shutdown, exclusive, extVars, freed, cutOff>>

Init ==
    /\ LoggerInit
    /\ tpc = [t \in Loops |-> "new"] /\ loopStartedNum = 0 /\ loopExitedNum = 0
    /\ asked = {} /\ shutdown = "not" /\ exclusive = "runs"
    /\ ext = [e \in Ext |-> "none"] /\ extThreadNum = 0 /\ late = {} /\ freed = FALSE
    /\ cutOff = FALSE

Caller == CHOOSE t \in Workers : TRUE  \* its service calls pps_shutdown
Goto(t, from, to) == tpc[t] = from /\ tpc' = [tpc EXCEPT ![t] = to]

(* A service that t runs may call: it is not in another call.  Exclusive   *)
(* services are made by the services of workers, so after the start.       *)
RunsService(t) ==
    IF t = ExThread
    THEN exclusive = "runs" /\ \E w \in Workers : tpc[w] \notin {"new", "barrier"}
    ELSE tpc[t] = "loop" /\ (t = Caller => shutdown \in {"not", "done"})
MayCall(t) == RunsService(t) /\ spc[t] = "out"
-----------------------------------------------------------------------------
(* The start barrier.                                                      *)
Start(t) ==
    /\ Goto(t, "new", "barrier") /\ loopStartedNum' = loopStartedNum + 1
    /\ UNCHANGED <<loggerVars, loopExitedNum, asked, shutdown, exclusive, extVars,
                   freed, cutOff>>

AllStarted == loopStartedNum >= TotalLoop
Begin(t) ==
    /\ AllStarted /\ Goto(t, "barrier", "loop")
    /\ UNCHANGED <<loggerVars, loopStartedNum, loopExitedNum, asked, shutdown, exclusive, extVars,
                   freed, cutOff>>

LoggerStart ==
    /\ lpc = "start" /\ lpc' = "barrier" /\ loopStartedNum' = loopStartedNum + 1
    /\ UNCHANGED <<loop, sleepVars, queueVars, senderVars, tpc, loopExitedNum, asked,
                   shutdown, exclusive, extVars, freed, cutOff>>

(* The logger sets loop once it is past the barrier, whatever it was.      *)
LoggerBegin ==
    /\ lpc = "barrier" /\ AllStarted /\ lpc' = "top" /\ loop' = TRUE
    /\ cutOff' = (shutdown \in {"notify", "done"})
    /\ UNCHANGED <<sleepVars, queueVars, senderVars, threadVars, shutdown, exclusive,
                   extVars, freed>>
-----------------------------------------------------------------------------
(* pps_shutdown, called by a service of a running worker: at once the      *)
(* exclusive services are asked, then workers and timers and nets.         *)
CallShutdown ==
    /\ shutdown = "not" /\ MayCall(Caller) /\ shutdown' = "loops"
    /\ UNCHANGED <<loggerVars, threadVars, exclusive, extVars, freed, cutOff>>

AskLoop(t) ==
    /\ shutdown = "loops" /\ t \notin asked /\ asked' = asked \union {t}
    /\ t \in Others => Workers \subseteq asked
    /\ shutdown' = IF asked' = Loops THEN "logger" ELSE "loops"
    /\ UNCHANGED <<loggerVars, tpc, loopStartedNum, loopExitedNum, exclusive, extVars,
                   freed, cutOff>>

(* logger_shutdown clears loop first and notifies afterwards.              *)
ClearLoop ==
    /\ shutdown = "logger" /\ loop' = FALSE /\ shutdown' = "notify"
    /\ UNCHANGED <<lpc, sleepVars, queueVars, senderVars, threadVars, exclusive, extVars,
                   freed, cutOff>>

NotifyLogger ==
    /\ shutdown = "notify" /\ WakeLogger /\ shutdown' = "done"
    /\ UNCHANGED <<loop, sleepVars, queueVars, senderVars, threadVars, exclusive, extVars,
                   freed, cutOff>>
-----------------------------------------------------------------------------
(* The end of a loop thread.  A worker goes on only when the call that its *)
(* service makes, pps_shutdown perhaps, has returned.                      *)
Stop(t) ==
    /\ t \in asked /\ (t \in Workers => MayCall(t)) /\ Goto(t, "loop", "ext")
    /\ UNCHANGED <<loggerVars, loopStartedNum, loopExitedNum, asked, shutdown, exclusive, extVars,
                   freed, cutOff>>

ExtThreadsDoneUnasked == TRUE
ExtThreadsDone == extThreadNum = 0
WaitExt(t) ==
    /\ ExtThreadsDone /\ Goto(t, "ext", "excl")
    /\ UNCHANGED <<loggerVars, loopStartedNum, loopExitedNum, asked, shutdown, exclusive, extVars,
                   freed, cutOff>>

ExclusiveDone == exclusive = "ended"
WaitExclusive(t) ==
    /\ ExclusiveDone /\ Goto(t, "excl", "exit") /\ loopExitedNum' = loopExitedNum + 1
    /\ UNCHANGED <<loggerVars, loopStartedNum, asked, shutdown, exclusive, extVars,
                   freed, cutOff>>

AllExitedOneMore == loopExitedNum > TotalLoop
AllExited == loopExitedNum >= TotalLoop
End(t) ==
    /\ AllExited /\ Goto(t, "exit", "end")
    /\ UNCHANGED <<loggerVars, loopStartedNum, loopExitedNum, asked, shutdown, exclusive, extVars,
                   freed, cutOff>>

LoggerExit ==
    /\ lpc = "left" /\ lpc' = "exit" /\ loopExitedNum' = loopExitedNum + 1
    /\ UNCHANGED <<loop, sleepVars, queueVars, senderVars, tpc, loopStartedNum, asked,
                   shutdown, exclusive, extVars, freed, cutOff>>

LoggerEnd ==
    /\ lpc = "exit" /\ AllExited /\ lpc' = "end"
    /\ UNCHANGED <<loop, sleepVars, queueVars, senderVars, threadVars, shutdown, exclusive, extVars,
                   freed, cutOff>>

(* pipes_run has joined all, and l_deinit destroys what they used.         *)
Deinit ==
    /\ ~freed /\ lpc = "end" /\ \A t \in Loops : tpc[t] = "end"
    /\ freed' = TRUE
    /\ UNCHANGED <<loggerVars, threadVars, shutdown, exclusive, extVars, cutOff>>
-----------------------------------------------------------------------------
ExclusiveEnds ==
    /\ MayCall(ExThread) /\ shutdown # "not" /\ exclusive' = "ended"
    /\ UNCHANGED <<loggerVars, threadVars, shutdown, extVars, freed, cutOff>>

(* pps_ext_thread makes a thread, and that thread counts itself.           *)
ExtCreate(e) ==
    /\ ext[e] = "none" /\ \E t \in Senders : MayCall(t)
    /\ ext' = [ext EXCEPT ![e] = "new"]
    /\ UNCHANGED <<loggerVars, threadVars, shutdown, exclusive, extThreadNum,
                   late, freed, cutOff>>

ExtBegin(e) ==
    /\ ext[e] = "new" /\ ext' = [ext EXCEPT ![e] = "runs"]
    /\ extThreadNum' = extThreadNum + 1
    /\ late' = IF \A t \in Loops : tpc[t] \in {"excl", "exit", "end"} THEN late \union {e} ELSE late
    /\ UNCHANGED <<loggerVars, threadVars, shutdown, exclusive, freed, cutOff>>

ExtEnd(e) ==
    /\ ext[e] = "runs" /\ ext' = [ext EXCEPT ![e] = "none"]
    /\ extThreadNum' = extThreadNum - 1 /\ late' = late \ {e}
    /\ UNCHANGED <<loggerVars, threadVars, shutdown, exclusive, freed, cutOff>>
-----------------------------------------------------------------------------
LoggerRuns ==
    /\ LogStep
    /\ UNCHANGED <<threadVars, shutdown, exclusive, extVars, freed, cutOff>>

(* Whoever logs is a service.                                              *)
Sends(s) ==
    /\ SendStep(s) /\ RunsService(s)
    /\ UNCHANGED <<threadVars, shutdown, exclusive, extVars, freed, cutOff>>

ThreadStep(t) ==
    Start(t) \/ Begin(t) \/ Stop(t) \/ WaitExt(t) \/ WaitExclusive(t) \/ End(t)
LoggerThread == LoggerStart \/ LoggerBegin \/ LoggerExit \/ LoggerEnd
ShutdownStep ==
    (\E t \in Loops : AskLoop(t)) \/ ClearLoop \/ NotifyLogger

Next ==
    \/ \E t \in Loops : ThreadStep(t)
    \/ LoggerThread \/ CallShutdown \/ ShutdownStep \/ Deinit \/ ExclusiveEnds
    \/ \E e \in Ext : ExtCreate(e) \/ ExtBegin(e) \/ ExtEnd(e)
    \/ LoggerRuns \/ \E s \in Senders : Sends(s)

Spec == Init /\ [][Next]_vars
(* Every thread runs on, the service's calls end, and so do the external   *)
(* threads: conn_ctrl_thread looks at hasShutdown every 100 ms.            *)
FairSpec ==
    /\ Spec /\ WF_vars(LoggerThread \/ LoggerRuns) /\ WF_vars(ShutdownStep)
    /\ WF_vars(ExclusiveEnds) /\ WF_vars(Deinit)
    /\ \A t \in Loops : WF_vars(ThreadStep(t))
    /\ \A e \in Ext : WF_vars(ExtBegin(e)) /\ WF_vars(ExtEnd(e))
    /\ \A s \in Senders : WF_vars(spc[s] # "out" /\ Sends(s))
-----------------------------------------------------------------------------
(* l_deinit comes when nobody uses what it destroys: no service is in the  *)
(* middle of a record, no exclusive service runs, though nothing joins it, *)
(* and no external thread does that had counted itself when the last loop  *)
(* thread looked.                                                          *)
NotFreedInUse ==
    freed => /\ \A s \in Senders : spc[s] = "out"
             /\ exclusive = "ended"
             /\ \A e \in Ext : ext[e] = "runs" => e \in late

(* pps_worker.cpp:178, "wait all extthread done": when all have waited, no *)
(* external thread is there, counted or not.                               *)
AllExtThreadsDone == freed => \A e \in Ext : ext[e] = "none"

(* A shutdown ends with everything destroyed, unless it cleared the        *)
(* logger's loop before the logger set it.                                 *)
ShutdownEnds == shutdown # "not" ~> (freed \/ cutOff)

=============================================================================
