------------------------------ MODULE Connect ------------------------------
(***************************************************************************)
(* Outgoing connections (pps_net_api.cpp, pps_net.cpp): a connect runs in  *)
(* a job thread, conn_ctrl_thread waits for it or for the timeout, and a   *)
(* connect still in progress is handed to the net thread, which waits for  *)
(* the socket or for the same timeout.  A connect is one call of           *)
(* netapi_tcp_connect; the pool of sockets may be full at any time, for    *)
(* other connections take their places from it too.                        *)
(*                                                                         *)
(* A heap entry is put in its place before its expiration is written       *)
(* (minheap_add in do_tcp_conn), so where it lands is not determined.      *)
(* The job thread frees its record ten seconds after it is done; that the  *)
(* control thread, which looks every 100 ms, has looked by then is assumed.*)
(***************************************************************************)
EXTENDS Integers, Sequences, FiniteSets, SequencesExt, FiniteSetsExt

CONSTANTS Conns,   \* calls of netapi_tcp_connect
          Timeout, \* Timeout[c]: cfg->timeout, if it has one
          MaxTime  \* the clock stops here, and no timeout is later

ASSUME ConnectAssumption ==
    /\ Timeout \in [Conns -> Nat \ {0}] /\ MaxTime \in Nat

NoTime == -1

VARIABLES
  now,
  expiration,     \* arg->tmStart + timeout, NoTime without one
  ctrl,           \* conn_ctrl_thread: "none", "wait" or "end"
  job,            \* conn_job: "none", "run", its result, or "freed"
  retGotByCtrl,
  queTaskReq,     \* requests [conn, inProgress] to the net thread
  npc, pollWait, sleepLeft,
  holding,        \* connects that hold a place in the pool
  waitInfo,       \* conn_wait_info: "none", "open", "succ" or "failed"
  queConnTimeout, \* the heap, its least entry first
  fd,             \* "none", "open" or "closed"
  answers,        \* what the service has been told
  alive,          \* the service
  fault           \* "none", "fd", "slot" or "nullptr"

callVars == <<expiration, ctrl, job, retGotByCtrl>>
netVars  == <<npc, pollWait, sleepLeft, waitInfo, queConnTimeout>>
vars == <<now, callVars, queTaskReq, netVars, holding, fd, answers, alive, fault>>

Failures == {"failed", "timeout", "full"}
JobDone == {"failed", "connected", "progress"}

Init ==
    /\ now = 0 /\ expiration = [c \in Conns |-> NoTime]
    /\ ctrl = [c \in Conns |-> "none"] /\ job = [c \in Conns |-> "none"]
    /\ retGotByCtrl = [c \in Conns |-> FALSE]
    /\ queTaskReq = << >> /\ npc = "tasks" /\ pollWait = NoTime /\ sleepLeft = NoTime
    /\ holding = {} /\ waitInfo = [c \in Conns |-> "none"] /\ queConnTimeout = << >>
    /\ fd = [c \in Conns |-> "none"] /\ answers = [c \in Conns |-> << >>]
    /\ alive = TRUE /\ fault = "none"

(* net_send_to_svc: nothing is said to a service that has gone.            *)
Answer(c, ret) ==
    answers' = IF alive THEN [answers EXCEPT ![c] = Append(@, ret)] ELSE answers

(* What is to be closed or given back must be there to be.                 *)
Release(toClose, toRecycle) ==
    /\ fd' = [c \in Conns |-> IF c \in toClose THEN "closed" ELSE fd[c]]
    /\ holding' = holding \ toRecycle
    /\ fault' = IF \E c \in toClose : fd[c] # "open" THEN "fd"
                ELSE IF ~(toRecycle \subseteq holding) THEN "slot" ELSE fault

Timed(c) == expiration[c] # NoTime
Expired(c) == Timed(c) /\ expiration[c] <= now
-----------------------------------------------------------------------------
(* netapi_tcp_connect and the start of both threads.                       *)
Call(c) ==
    /\ ctrl[c] = "none" /\ alive
    /\ ctrl' = [ctrl EXCEPT ![c] = "wait"] /\ job' = [job EXCEPT ![c] = "run"]
    /\ \/ UNCHANGED expiration
       \/ /\ now + Timeout[c] <= MaxTime
          /\ expiration' = [expiration EXCEPT ![c] = now + Timeout[c]]
    /\ UNCHANGED <<now, retGotByCtrl, queTaskReq, netVars, holding, fd, answers, alive,
                   fault>>

JobEnds(c) ==
    /\ job[c] = "run"
    /\ \E ret \in JobDone :
          /\ job' = [job EXCEPT ![c] = ret]
          /\ fd' = [fd EXCEPT ![c] = IF ret = "failed" THEN @ ELSE "open"]
    /\ UNCHANGED <<now, expiration, ctrl, retGotByCtrl, queTaskReq, netVars, holding,
                   answers, alive, fault>>

(* Ten seconds later: a socket nobody has taken is closed.                 *)
TakenAlways(c) == TRUE
Taken(c) == retGotByCtrl[c]
JobFinalize(c) ==
    /\ job[c] \in JobDone /\ ctrl[c] = "end"
    /\ job' = [job EXCEPT ![c] = "freed"]
    /\ Release(IF job[c] # "failed" /\ ~Taken(c) THEN {c} ELSE {}, {})
    /\ UNCHANGED <<now, expiration, ctrl, retGotByCtrl, queTaskReq, netVars, answers,
                   alive>>

CtrlGets(c) ==
    /\ ctrl[c] = "wait" /\ job[c] \in JobDone
    /\ ctrl' = [ctrl EXCEPT ![c] = "end"]
    /\ retGotByCtrl' = [retGotByCtrl EXCEPT ![c] = TRUE]
    /\ IF job[c] = "failed"
       THEN Answer(c, "failed") /\ UNCHANGED queTaskReq
       ELSE /\ queTaskReq' = Append(queTaskReq, [conn |-> c, inProgress |-> job[c] = "progress"])
            /\ UNCHANGED answers
    /\ UNCHANGED <<now, expiration, job, netVars, holding, fd, alive, fault>>

(* The clock is looked at after the job, which may end in between.         *)
CtrlTimesOut(c) ==
    /\ ctrl[c] = "wait" /\ Expired(c)
    /\ ctrl' = [ctrl EXCEPT ![c] = "end"] /\ Answer(c, "timeout")
    /\ UNCHANGED <<now, expiration, job, retGotByCtrl, queTaskReq, netVars, holding, fd,
                   alive, fault>>
-----------------------------------------------------------------------------
Request == Head(queTaskReq)
Takes(inProgress) ==
    /\ npc = "tasks" /\ queTaskReq # << >> /\ Request.inProgress = inProgress
    /\ queTaskReq' = Tail(queTaskReq)

(* do_tcp_conn without a place: the socket is closed; for a service that   *)
(* has gone, recycle_ctx is called all the same, with no context.          *)
ConnFull ==
    /\ \E p \in BOOLEAN : Takes(p)
    /\ Answer(Request.conn, "full")
    /\ fd' = [fd EXCEPT ![Request.conn] = "closed"]
    /\ fault' = IF alive THEN fault ELSE "nullptr"
    /\ UNCHANGED <<now, callVars, netVars, holding, alive>>

ConnDone ==
    /\ Takes(FALSE)
    /\ Answer(Request.conn, "ok")
    /\ IF alive THEN holding' = holding \union {Request.conn} /\ UNCHANGED <<fd, fault>>
       ELSE Release({Request.conn}, {})
    /\ UNCHANGED <<now, callVars, netVars, alive>>

Sooner(a, b) == IF a = NoTime \/ b < a THEN b ELSE a

ConnWait ==
    /\ Takes(TRUE)
    /\ LET c == Request.conn
       IN /\ holding' = holding \union {c}
          /\ waitInfo' = [waitInfo EXCEPT ![c] = "open"]
          /\ IF Timed(c)
             THEN /\ \E i \in 1..Len(queConnTimeout) + 1 :
                        queConnTimeout' = InsertAt(queConnTimeout, i, c)
                  /\ pollWait' = Sooner(pollWait, Max({0, expiration[c] - now}))
             ELSE UNCHANGED <<queConnTimeout, pollWait>>
    /\ UNCHANGED <<now, callVars, npc, sleepLeft, fd, answers, alive, fault>>

(* sock_poll waits for a request, a socket or at most pollWait.            *)
StartPoll ==
    /\ npc = "tasks" /\ queTaskReq = << >>
    /\ npc' = "poll" /\ sleepLeft' = pollWait
    /\ UNCHANGED <<now, callVars, queTaskReq, pollWait, waitInfo, queConnTimeout, holding,
                   fd, answers, alive, fault>>

Waiting(c) == waitInfo[c] = "open" /\ fd[c] = "open"

(* on_tcp_conn_done.  The wait of a connect with a timeout stays in the    *)
(* heap, and its place, if it failed, is given back from there.            *)
OnTcpConnDone(c, ok) ==
    /\ npc = "poll" /\ Waiting(c)
    /\ Answer(c, IF ok THEN "ok" ELSE "failed")
    /\ LET keep == ok /\ alive
       IN /\ waitInfo' = [waitInfo EXCEPT ![c] =
                 IF ~Timed(c) THEN "none" ELSE IF keep THEN "succ" ELSE "failed"]
          /\ Release(IF keep THEN {} ELSE {c}, IF keep \/ Timed(c) THEN {} ELSE {c})
    /\ npc' = "timeout" /\ sleepLeft' = NoTime
    /\ UNCHANGED <<now, callVars, queTaskReq, pollWait, queConnTimeout, alive>>

PollEnds ==
    /\ npc = "poll" /\ (queTaskReq # << >> \/ sleepLeft = 0)
    /\ npc' = "timeout" /\ sleepLeft' = NoTime
    /\ UNCHANGED <<now, callVars, queTaskReq, pollWait, waitInfo, queConnTimeout, holding,
                   fd, answers, alive, fault>>

(* The timeouts, as far as the least entry is done or expired.             *)
IsDone(c) == waitInfo[c] # "open"
GivesBackDone(c) == IsDone(c)
GivesBack(c) == waitInfo[c] = "failed"

PopTimeout ==
    /\ npc = "timeout" /\ queConnTimeout # << >>
    /\ LET c == Head(queConnTimeout)
       IN /\ IsDone(c) \/ Expired(c)
          /\ IF IsDone(c)
             THEN Release({}, IF GivesBack(c) THEN {c} ELSE {}) /\ UNCHANGED answers
             ELSE Answer(c, "timeout") /\ Release({c}, {c})
          /\ waitInfo' = [waitInfo EXCEPT ![c] = "none"]
    /\ queConnTimeout' = Tail(queConnTimeout)
    /\ UNCHANGED <<now, callVars, queTaskReq, npc, pollWait, sleepLeft, alive>>

NextPollWaitNone(c) == NoTime
NextPollWait(c) == Sooner(pollWait, expiration[c] - now)

TimeoutsEnd ==
    /\ npc = "timeout"
    /\ IF queConnTimeout = << >> THEN pollWait' = NoTime
       ELSE LET c == Head(queConnTimeout)
            IN ~IsDone(c) /\ ~Expired(c) /\ pollWait' = NextPollWait(c)
    /\ npc' = "tasks"
    /\ UNCHANGED <<now, callVars, queTaskReq, sleepLeft, waitInfo, queConnTimeout, holding,
                   fd, answers, alive, fault>>
-----------------------------------------------------------------------------
(* The service closes what it was given, or goes; module Net has the rest. *)
Owned(c) == answers[c] = <<"ok">> /\ c \in holding /\ fd[c] = "open"

SvcClose(c) ==
    /\ Owned(c) /\ Release({c}, {c})
    /\ UNCHANGED <<now, callVars, queTaskReq, netVars, answers, alive>>

SvcGone ==
    /\ alive /\ alive' = FALSE
    /\ UNCHANGED <<now, callVars, queTaskReq, netVars, holding, fd, answers, fault>>

Tick ==
    /\ now < MaxTime \/ sleepLeft > 0
    /\ now' = Min({now + 1, MaxTime})
    /\ sleepLeft' = IF sleepLeft > 0 THEN sleepLeft - 1 ELSE sleepLeft
    /\ UNCHANGED <<callVars, queTaskReq, npc, pollWait, waitInfo, queConnTimeout, holding,
                   fd, answers, alive, fault>>

CtrlStep == \E c \in Conns : CtrlGets(c) \/ CtrlTimesOut(c)
NetStep ==
    \/ ConnFull \/ ConnDone \/ ConnWait \/ StartPoll \/ PollEnds
    \/ PopTimeout \/ TimeoutsEnd
Next ==
    /\ fault = "none"
    /\ \/ \E c \in Conns : Call(c) \/ JobEnds(c) \/ JobFinalize(c) \/ SvcClose(c)
       \/ CtrlStep \/ NetStep
       \/ \E c \in Conns, ok \in BOOLEAN : OnTcpConnDone(c, ok)
       \/ SvcGone \/ Tick

Spec == Init /\ [][Next]_vars
FairSpec ==
    /\ Spec /\ WF_vars(fault = "none" /\ NetStep) /\ WF_vars(fault = "none" /\ Tick)
    /\ \A c \in Conns : WF_vars(fault = "none" /\ (CtrlGets(c) \/ CtrlTimesOut(c)))
-----------------------------------------------------------------------------
(* A descriptor is open for exactly one holder: the job thread that made   *)
(* it and whose result nobody took, a request in the queue, or a place in  *)
(* the pool; and it is never closed twice.                                 *)
Holders(c) ==
    {h \in {"job", "request", "slot"} :
        \/ h = "job" /\ job[c] \in {"connected", "progress"} /\ ~retGotByCtrl[c]
        \/ h = "request" /\ \E i \in 1..Len(queTaskReq) : queTaskReq[i].conn = c
        \/ h = "slot" /\ c \in holding /\ waitInfo[c] # "failed"}
FdOfOneHolder ==
    /\ fault # "fd"
    /\ \A c \in Conns : Cardinality(Holders(c)) = (IF fd[c] = "open" THEN 1 ELSE 0)

(* A service is told once how its connect ended, and no timeout comes      *)
(* after: what it was told is its own until it closes it.                  *)
ToldOnce ==
    /\ fault # "slot"
    /\ \A c \in Conns : /\ Len(answers[c]) <= 1
                        /\ answers[c] # << >> /\ Head(answers[c]) \in Failures
                              => fd[c] # "open" \/ (ctrl[c] = "end" /\ job[c] # "freed")

(* A connect with a timeout is answered, whatever the network does.        *)
TimedIsAnswered ==
    \A c \in Conns : Timed(c) ~> (answers[c] # << >> \/ ~alive \/ fault # "none")

=============================================================================
