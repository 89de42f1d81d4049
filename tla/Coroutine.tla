----------------------------- MODULE Coroutine -----------------------------
(***************************************************************************)
(* The coroutines of a Lua service (lualib/pipes.lua).  Every message and  *)
(* every timer runs a function in a coroutine, taken from the free ones or *)
(* created; it may sleep, wait, yield, fork, arm timers, and wake another  *)
(* coroutine, which then runs nested inside it.  Only the coroutine at the *)
(* end of chain runs, and between two of its calls nothing else does.      *)
(* Calls between services, and pps.exit, are in module Calls.              *)
(***************************************************************************)
EXTENDS Integers, Sequences, FiniteSets, SequencesExt

CONSTANTS Co,         \* bound: coroutines that exist at a time
          MaxCnt,     \* _coMaxCnt: runs of one coroutine, and one more
          MaxTmId,    \* _maxTmId, after which timer ids start again
          Firings,    \* firings of a schedule before it is armed again
          MaxPending, \* bound: timers and messages to itself under way
          MaxKept,    \* bound: ids in _scheds and in _tmouts, which only grows
          None        \* no coroutine

Fork == "fork"

ASSUME CoroutineAssumption ==
    /\ MaxCnt \in Nat \ {0} /\ MaxTmId \in Nat \ {0} /\ Firings \in Nat \ {0}
    /\ MaxPending \in Nat /\ MaxKept \in Nat
    /\ None \notin Co /\ Fork \notin Co \union {None}

Id == 1..MaxTmId
NoWait == 0
UsrWait == -1    \* _usrwait is 'wait'

VARIABLES
  chain,      \* the coroutines that resumed one another, as Lua sees it
  cosStack,   \* _cosStack, its top last: _curCo
  status,     \* "none", "busy", "free" or "dead"
  cnt,        \* coCtx._cnt
  usrwait,    \* coCtx._usrwait: NoWait, UsrWait or the id of a sleep
  rsp,        \* it runs for a call that has not been answered
  cosFree, cosYield, sleepBreak, tmouts, scheds, tmIdCnt,
  handle,     \* what pps.corunning returned to someone: [co, cnt]
  timers,     \* armed timers [id, left]
  selfmsgs,   \* messages to itself [id, kind], in order
  procError,  \* _procError: "none", "next", or "runs" its callback
  reason,     \* what a suspended coroutine waits for
  misfire     \* a coroutine was resumed for something else

coVars   == <<chain, cosStack, status, cnt, usrwait, rsp, cosFree>>
idVars   == <<cosYield, sleepBreak, tmouts, scheds, tmIdCnt>>
outVars  == <<handle, timers, selfmsgs, procError>>
allVars == <<coVars, idVars, outVars, reason, misfire>>

CoInit ==
    /\ chain = << >> /\ cosStack = << >> /\ status = [c \in Co |-> "none"]
    /\ cnt = [c \in Co |-> 0] /\ usrwait = [c \in Co |-> NoWait]
    /\ rsp = [c \in Co |-> FALSE] /\ cosFree = << >>
    /\ cosYield = [i \in Id |-> None] /\ sleepBreak = {} /\ tmouts = {}
    /\ scheds = [i \in Id |-> "none"] /\ tmIdCnt = 1
    /\ handle = [co |-> None, cnt |-> 0] /\ timers = << >> /\ selfmsgs = << >>
    /\ procError = "none" /\ reason = [c \in Co |-> <<"none">>]
    /\ misfire = FALSE

Cur == Last(cosStack)  \* _curCo, the one whose API call it is
-----------------------------------------------------------------------------
Referred(c) == handle.co = c \/ \E i \in Id : cosYield[i] = c

(* What is dead and nobody refers to is as if it had never been.           *)
Dies(c, n) ==
    /\ status' = [status EXCEPT ![c] = IF Referred(c) THEN "dead" ELSE "none"]
    /\ cnt' = [cnt EXCEPT ![c] = IF Referred(c) THEN n ELSE 0]

(* _exec: a coroutine from _cosFree, or a new one, runs a function.        *)
Unused(c) == status[c] = "none" \/ (status[c] = "dead" /\ ~Referred(c))

Exec(call) ==
    \E c \in Co :
        /\ IF cosFree # << >> THEN c = Head(cosFree) ELSE Unused(c)
        /\ cosFree' = IF cosFree # << >> THEN Tail(cosFree) ELSE << >>
        /\ cnt' = [cnt EXCEPT ![c] = IF status[c] = "free" THEN @ + 1 ELSE 1]
        /\ status' = [status EXCEPT ![c] = "busy"] /\ usrwait' = [usrwait EXCEPT ![c] = NoWait]
        /\ rsp' = [rsp EXCEPT ![c] = call]
        /\ chain' = Append(chain, c) /\ cosStack' = Append(cosStack, c)

(* coroutine.resume of one that should wait for w.                         *)
Resume(c, w) ==
    /\ chain' = Append(chain, c) /\ cosStack' = Append(cosStack, c)
    /\ misfire' = (misfire \/ reason[c] # w)
    /\ reason' = [reason EXCEPT ![c] = <<"none">>]

(* Once nothing runs any more, a callback of _procError is over; what it   *)
(* returned is not looked at.                                              *)
CallbackEnds(next) ==
    procError' = IF Len(chain) > 1 THEN procError
                 ELSE IF procError = "runs" THEN "none" ELSE next

(* _coYield: back to whoever resumed this coroutine, which waits for w.    *)
Suspend(w) ==
    /\ chain' = Front(chain) /\ cosStack' = Front(cosStack) /\ CallbackEnds("none")
    /\ reason' = [reason EXCEPT ![Last(chain)] = w]

(* _genTmId: the next id is the next one in use neither by a coroutine nor *)
(* by a schedule; _tmouts is not looked at.  Not all ids are ever in use.  *)
Following(n) == ((tmIdCnt - 1 + n) % MaxTmId) + 1
InUseSchedsAlone(i) == scheds[i] # "none"
InUse(i) == cosYield[i] # None \/ scheds[i] # "none"
GenTmId ==
    \E n \in 1..MaxTmId - 1 :
        /\ ~InUse(Following(n)) /\ \A k \in 1..n - 1 : InUse(Following(k))
        /\ tmIdCnt' = Following(n)

Runs == chain # << >>
Idle == chain = << >> /\ procError = "none"
Kept == {i \in Id : i \in tmouts \/ scheds[i] # "none"}
Room == Len(timers) + Len(selfmsgs) < MaxPending
ArmUnlessBusy(n) ==
    timers' = IF timers # << >> THEN timers ELSE Append(timers, [id |-> tmIdCnt, left |-> n])
Arm(n) == timers' = Append(timers, [id |-> tmIdCnt, left |-> n])
-----------------------------------------------------------------------------
(* A message: a send, or a call that is to be answered.                    *)
Dispatch ==
    /\ Idle /\ \E call \in BOOLEAN : Exec(call)
    /\ UNCHANGED <<idVars, outVars, reason, misfire>>

Sleep ==
    /\ Runs /\ Room /\ GenTmId /\ Arm(0)
    /\ usrwait' = [usrwait EXCEPT ![Cur] = tmIdCnt]
    /\ cosYield' = [cosYield EXCEPT ![tmIdCnt] = Cur]
    /\ Suspend(<<"sleep", tmIdCnt>>)
    /\ UNCHANGED <<status, cnt, rsp, cosFree, sleepBreak, tmouts, scheds, handle, selfmsgs,
                   misfire>>

SetTimeout ==
    /\ Runs /\ Room /\ GenTmId /\ Arm(0)
    /\ Cardinality(Kept) < MaxKept /\ tmouts' = tmouts \union {tmIdCnt}
    /\ UNCHANGED <<coVars, cosYield, sleepBreak, scheds, handle, selfmsgs, procError,
                   reason, misfire>>

Schedule ==
    /\ Runs /\ Room /\ GenTmId /\ Arm(Firings - 1)
    /\ Cardinality(Kept) < MaxKept /\ scheds' = [scheds EXCEPT ![tmIdCnt] = "active"]
    /\ UNCHANGED <<coVars, cosYield, sleepBreak, tmouts, handle, selfmsgs, procError,
                   reason, misfire>>

Unschedule ==
    /\ Runs
    /\ \E i \in Id : scheds[i] = "active" /\ scheds' = [scheds EXCEPT ![i] = "stopped"]
    /\ UNCHANGED <<coVars, cosYield, sleepBreak, tmouts, tmIdCnt, outVars, reason, misfire>>

Yield ==
    /\ Runs /\ Room /\ GenTmId
    /\ selfmsgs' = Append(selfmsgs, [id |-> tmIdCnt, kind |-> "yield"])
    /\ cosYield' = [cosYield EXCEPT ![tmIdCnt] = Cur]
    /\ Suspend(<<"yield", tmIdCnt>>)
    /\ UNCHANGED <<status, cnt, usrwait, rsp, cosFree, sleepBreak, tmouts, scheds, handle,
                   timers, misfire>>

ForkCo ==
    /\ Runs /\ Room /\ GenTmId
    /\ selfmsgs' = Append(selfmsgs, [id |-> tmIdCnt, kind |-> Fork])
    /\ cosYield' = [cosYield EXCEPT ![tmIdCnt] = Fork]
    /\ UNCHANGED <<coVars, sleepBreak, tmouts, scheds, handle, timers, procError, reason,
                   misfire>>

Corunning ==
    /\ Runs /\ handle' = [co |-> Cur, cnt |-> cnt[Cur]]
    /\ UNCHANGED <<coVars, idVars, timers, selfmsgs, procError, reason, misfire>>

Wait ==
    /\ Runs /\ usrwait[Cur] = NoWait
    /\ usrwait' = [usrwait EXCEPT ![Cur] = UsrWait]
    /\ Suspend(<<"wait">>)
    /\ UNCHANGED <<status, cnt, rsp, cosFree, idVars, handle, timers, selfmsgs, misfire>>

(* pps.wakeup: the coroutine goes on inside the one that wakes it.  The    *)
(* timer of a sleep broken off is still to come.                           *)
SameRun(h) == h.cnt = cnt[h.co]
Wakeup ==
    /\ Runs /\ handle.co # None /\ SameRun(handle)
    /\ LET c == handle.co
       IN /\ usrwait[c] # NoWait
          /\ usrwait' = [usrwait EXCEPT ![c] = NoWait]
          /\ IF usrwait[c] = UsrWait
             THEN Resume(c, <<"wait">>) /\ UNCHANGED sleepBreak
             ELSE /\ Resume(c, <<"sleep", usrwait[c]>>)
                  /\ sleepBreak' = sleepBreak \union {usrwait[c]}
    /\ UNCHANGED <<status, cnt, rsp, cosFree, cosYield, tmouts, scheds, tmIdCnt, outVars>>

Ret ==
    /\ Runs /\ rsp[Cur]
    /\ rsp' = [rsp EXCEPT ![Cur] = FALSE]
    /\ UNCHANGED <<chain, cosStack, status, cnt, usrwait, cosFree, idVars, outVars, reason,
                   misfire>>

(* _onForkEnd: a call not answered is answered NO_RET.                     *)
OnForkEnd == rsp' = [rsp EXCEPT ![Cur] = FALSE]

(* The function returns; the coroutine is free, or has run often enough.   *)
End ==
    /\ Runs /\ OnForkEnd
    /\ LET c == Last(chain)
       IN IF cnt[c] + 1 < MaxCnt
          THEN /\ status' = [status EXCEPT ![c] = "free"] /\ cosFree' = Append(cosFree, c)
               /\ UNCHANGED cnt
          ELSE Dies(c, cnt[c] + 1) /\ UNCHANGED cosFree
    /\ chain' = Front(chain) /\ cosStack' = Front(cosStack) /\ CallbackEnds("none")
    /\ UNCHANGED <<usrwait, idVars, handle, timers, selfmsgs, reason, misfire>>

(* The function fails: whoever resumed it pops it; in a wakeup its caller  *)
(* is told, else _procError follows.                                       *)
ErrorKeepsStack == cosStack
ErrorPops == Front(cosStack)
Error ==
    /\ Runs /\ OnForkEnd
    /\ Dies(Last(chain), cnt[Last(chain)])
    /\ chain' = Front(chain) /\ cosStack' = ErrorPops
    /\ CallbackEnds("next")
    /\ UNCHANGED <<usrwait, cosFree, idVars, handle, timers, selfmsgs, reason, misfire>>

(* The error callback, if there is one.                                    *)
ProcError ==
    /\ procError = "next"
    /\ \/ Exec(FALSE) /\ procError' = "runs"
       \/ UNCHANGED coVars /\ procError' = "none"
    /\ UNCHANGED <<idVars, handle, timers, selfmsgs, reason, misfire>>

-----------------------------------------------------------------------------
(* The answer of a timer (the second dispatch callback).                   *)
Late(i) == i \in sleepBreak

FireSchedule(t, rest) ==
    /\ scheds[t.id] # "none"
    /\ IF scheds[t.id] = "active"
       THEN /\ Exec(FALSE) /\ UNCHANGED scheds
            /\ timers' = Append(rest,
                   [t EXCEPT !.left = IF t.left = 0 THEN Firings - 1 ELSE @ - 1])
       ELSE /\ scheds' = IF t.left = 0 THEN [scheds EXCEPT ![t.id] = "none"] ELSE scheds
            /\ timers' = IF t.left = 0 THEN rest ELSE Append(rest, [t EXCEPT !.left = @ - 1])
            /\ UNCHANGED coVars
    /\ UNCHANGED <<cosYield, sleepBreak, reason, misfire>>

FireTimeout(t, rest) ==
    /\ scheds[t.id] = "none" /\ t.id \in tmouts /\ timers' = rest /\ Exec(FALSE)
    /\ UNCHANGED <<cosYield, sleepBreak, scheds, reason, misfire>>

FireSleep(t, rest) ==
    /\ scheds[t.id] = "none" /\ t.id \notin tmouts /\ timers' = rest
    /\ cosYield' = [cosYield EXCEPT ![t.id] = None]
    /\ LET c == cosYield[t.id]
       IN IF Late(t.id)
          THEN sleepBreak' = sleepBreak \ {t.id} /\ UNCHANGED <<coVars, reason, misfire>>
          ELSE /\ usrwait' = [usrwait EXCEPT ![c] = NoWait]
               /\ Resume(c, <<"sleep", t.id>>)
               /\ UNCHANGED <<status, cnt, rsp, cosFree, sleepBreak>>
    /\ UNCHANGED scheds

Fire(i) ==
    /\ Idle
    /\ \E n \in 1..Len(timers) :
          LET t == timers[n]
              rest == RemoveAt(timers, n)
          IN /\ t.id = i
             /\ FireSchedule(t, rest) \/ FireTimeout(t, rest) \/ FireSleep(t, rest)
    /\ UNCHANGED <<tmouts, tmIdCnt, handle, selfmsgs, procError>>

(* A message to itself: a fork or the end of a yield.                      *)
Selfmsg ==
    /\ Idle /\ selfmsgs # << >> /\ selfmsgs' = Tail(selfmsgs)
    /\ LET m == Head(selfmsgs)
       IN /\ cosYield' = [cosYield EXCEPT ![m.id] = None]
          /\ IF m.kind = Fork THEN Exec(FALSE) /\ UNCHANGED <<reason, misfire>>
             ELSE /\ Resume(cosYield[m.id], <<"yield", m.id>>)
                  /\ UNCHANGED <<status, cnt, usrwait, rsp, cosFree>>
    /\ UNCHANGED <<sleepBreak, tmouts, scheds, tmIdCnt, handle, timers, procError>>

ApiCall ==
    \/ Sleep \/ SetTimeout \/ Schedule \/ Unschedule \/ Yield \/ ForkCo \/ Corunning
    \/ Wait \/ Wakeup \/ Ret
CoNext ==
    \/ Dispatch \/ ApiCall \/ End \/ Error \/ ProcError \/ Selfmsg
    \/ \E i \in Id : Fire(i)

CoSpec == CoInit /\ [][CoNext]_allVars
CoFairSpec ==
    /\ CoSpec /\ WF_allVars(End) /\ WF_allVars(ProcError) /\ SF_allVars(Selfmsg)
    /\ \A i \in Id : SF_allVars(Fire(i))
-----------------------------------------------------------------------------
(* _curCo is the coroutine that really runs, however deep the wakeups are  *)
(* nested and wherever one fails; and none that runs can be woken.         *)
CurCoIsRunning ==
    /\ cosStack = chain
    /\ \A c \in ToSet(chain) : status[c] = "busy" /\ usrwait[c] = NoWait

(* A coroutine goes on for what it waits for, and never for the late timer *)
(* of a sleep that was broken off, perhaps in an earlier run.              *)
ResumedForItsReason == ~misfire

(* Of the messages under way no two have one id, and each finds what it is *)
(* for: ids come round, but those of _tmouts alone are given away again.   *)
UnderWay == [n \in 1..Len(timers) + Len(selfmsgs) |->
    IF n <= Len(timers) THEN timers[n].id ELSE selfmsgs[n - Len(timers)].id]
IdsOfOneUse ==
    \A n \in DOMAIN UnderWay :
        UnderWay[n] \notin tmouts =>
            /\ \A m \in DOMAIN UnderWay : UnderWay[m] = UnderWay[n] => m = n
            /\ (cosYield[UnderWay[n]] # None) # (scheds[UnderWay[n]] # "none")

(* A message that comes back meets the coroutine or schedule it was for.   *)
MeetsItsWaiter == ResumedForItsReason /\ IdsOfOneUse

(* A sleep ends, if its id has not been that of a timeout before.  No      *)
(* action tells one coroutine from another: what holds of one holds of all.*)
Sleeping(c) == reason[c][1] = "sleep" /\ usrwait[c] \notin tmouts
AnyCo == CHOOSE c \in Co : TRUE
SleepReturns == Sleeping(AnyCo) ~> ~Sleeping(AnyCo)

=============================================================================
