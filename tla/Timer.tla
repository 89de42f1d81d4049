------------------------------- MODULE Timer -------------------------------
(***************************************************************************)
(* One timer thread (pps_timer.cpp): timer_add_task called by the service  *)
(* threads, thread_work, on_timeout and timer_shutdown.                    *)
(*                                                                         *)
(* Time is relative: left[t] is what the clock still has to go before the  *)
(* expiration of timer t, and Tick moves every such count at once, so a    *)
(* behaviour may run for ever.  The timing wheel is what module            *)
(* TimingWheel shows it to be, a set of tasks whose advance fires exactly  *)
(* those that are due, with the tick as the unit of time.                  *)
(* A count that a round is done with is set to 0 when the round ends.      *)
(* svc_send_timermsg never answers 0, because mq_spsc grows, so the list   *)
(* plkUnRspTask stays empty and its retry is left out.                     *)
(***************************************************************************)
EXTENDS Integers, Sequences, FiniteSets, FiniteSetsExt

CONSTANTS Timers,     \* calls of pps.timeout, sleep and schedule
          Leaving,    \* those whose service may go before they end
          Idx,        \* indices of taskSlots in freeTaskPool (TIMER_MAX_TASK)
          QueCap,     \* capacity of queTask (TIMER_TASK_SLOT_NUM)
          Delay,      \* Delay[t]: m.delay, in ticks
          Repeat,     \* Repeat[t]: m.repeat, the firings that follow the first
          StepMsgMax, \* tasks taken in one round (2000, twice that for the backup)
          MaxWait,    \* the longest wait, in ticks (10000 ms)
          MayShutdown \* whether timer_shutdown may be called

Sentinel == "-1"   \* what timer_shutdown pushes
NoTimer == "none"
NoTime == -1       \* left of a timer that is not running

(* queTask has room for every index of the pool and for the sentinel; the  *)
(* marks are neither timers nor indices.                                   *)
ASSUME PoolAssumption == /\ IsFiniteSet(Idx) /\ QueCap \in Nat /\ Cardinality(Idx) < QueCap
                         /\ Idx \intersect Timers = {} /\ Sentinel \notin Idx
ASSUME TimersAssumption == /\ IsFiniteSet(Timers) /\ NoTimer \notin Idx \union Timers
                           /\ Leaving \subseteq Timers
ASSUME TimesAssumption == /\ Delay \in [Timers -> Nat] /\ Repeat \in [Timers -> Nat]
                          /\ MaxWait \in Nat \ {0} /\ StepMsgMax \in Nat \ {0}

VARIABLES
  (* the task slots and the ways to the thread *)
  slots,         \* taskSlots: the timer in each
  freeTaskPool, queTask, plkTaskBak, taskBakNum,
  unAddTask, idle,
  apc,           \* where the thread that adds each timer is in timer_add_task
  (* the thread's locals, its wheel and plkReAddTask *)
  pc, addCnt, bakTaken, wheel, plkReAddTask,
  asleep, waitLeft, \* in cond_waitfor, and how long at most
  missed,           \* a notify since it found queTask empty came before its wait
  (* the timers *)
  left, repeat, alive,
  got,              \* how many messages of it its service has been sent
  stop              \* timer_shutdown: "none", "pushed" or "done"

queueVars  == <<slots, freeTaskPool, queTask, plkTaskBak, taskBakNum, unAddTask>>
sleepVars  == <<idle, asleep, waitLeft, missed>>
threadVars == <<pc, addCnt, bakTaken, wheel, plkReAddTask>>
timerVars  == <<left, repeat, alive, got>>
vars == <<queueVars, apc, sleepVars, threadVars, timerVars, stop>>

(* A task is an index of taskSlots or, for one on the heap, its timer.     *)
TimerOf(task) == IF task \in Idx THEN slots[task] ELSE task

Requested == {t \in Timers : left[t] # NoTime \/ repeat[t] < Repeat[t]}
Pending == wheel \union plkReAddTask

AdderAt(t, label) == apc[t] = label
ThreadAt(label) == pc = label
Goto(label) == pc' = label

Init ==
    /\ slots = [i \in Idx |-> NoTimer] /\ freeTaskPool = Idx
    /\ queTask = << >> /\ plkTaskBak = << >>
    /\ taskBakNum = 0 /\ unAddTask = 0 /\ idle = FALSE
    /\ apc = [t \in Timers |-> "ready"]
    /\ pc = "top" /\ addCnt = 0 /\ bakTaken = 0
    /\ wheel = {} /\ plkReAddTask = {}
    /\ asleep = FALSE /\ waitLeft = 0 /\ missed = FALSE
    /\ left = [t \in Timers |-> NoTime] /\ repeat = Repeat
    /\ alive = [t \in Timers |-> TRUE] /\ got = [t \in Timers |-> 0]
    /\ stop = "none"
-----------------------------------------------------------------------------
(* l_timeout: the expiration is fixed before the task is handed over.      *)
Request(t) ==
    /\ AdderAt(t, "ready") /\ t \notin Requested /\ alive[t]
    /\ left' = [left EXCEPT ![t] = Delay[t]]
    /\ apc' = [apc EXCEPT ![t] = "add"]
    /\ UNCHANGED <<queueVars, sleepVars, threadVars, repeat, alive, got, stop>>

QueueFull == Len(queTask) >= QueCap

(* A free slot: the task goes through queTask, whose answer is not read.   *)
AddInSlot(t) ==
    /\ AdderAt(t, "add")
    /\ \E i \in freeTaskPool :
          /\ freeTaskPool' = freeTaskPool \ {i}
          /\ slots' = [slots EXCEPT ![i] = t]
          /\ queTask' = IF QueueFull THEN queTask ELSE Append(queTask, i)
    /\ apc' = [apc EXCEPT ![t] = "count"]
    /\ UNCHANGED <<plkTaskBak, taskBakNum, unAddTask, sleepVars, threadVars,
                   timerVars, stop>>

(* mpmc_pop failed, because the pool is empty or another thread is in it.  *)
AddOnHeap(t) ==
    /\ AdderAt(t, "add") /\ (freeTaskPool = {} \/ Cardinality(Timers) > 1)
    /\ plkTaskBak' = Append(plkTaskBak, t)
    /\ apc' = [apc EXCEPT ![t] = "bakcount"]
    /\ UNCHANGED <<slots, freeTaskPool, queTask, taskBakNum, unAddTask, sleepVars,
                   threadVars, timerVars, stop>>

CountBackup(t) ==
    /\ AdderAt(t, "bakcount")
    /\ taskBakNum' = taskBakNum + 1 /\ apc' = [apc EXCEPT ![t] = "count"]
    /\ UNCHANGED <<slots, freeTaskPool, queTask, plkTaskBak, unAddTask, sleepVars,
                   threadVars, timerVars, stop>>

CountAdded(t) ==
    /\ AdderAt(t, "count")
    /\ unAddTask' = unAddTask + 1 /\ apc' = [apc EXCEPT ![t] = "look"]
    /\ UNCHANGED <<slots, freeTaskPool, queTask, plkTaskBak, taskBakNum, sleepVars,
                   threadVars, timerVars, stop>>

LookIdle(t) ==
    /\ AdderAt(t, "look")
    /\ apc' = [apc EXCEPT ![t] = IF idle THEN "notify" ELSE "ready"]
    /\ UNCHANGED <<queueVars, sleepVars, threadVars, timerVars, stop>>

(* cond_notify wakes the thread only if it waits already.                  *)
CondNotify ==
    /\ asleep' = FALSE
    /\ missed' = (missed \/ pc \in {"baknum", "bak", "advance", "test", "wait"})
    /\ pc' = IF asleep THEN "woken" ELSE pc

NotifyIdle(t) ==
    /\ AdderAt(t, "notify") /\ CondNotify
    /\ apc' = [apc EXCEPT ![t] = "ready"]
    /\ UNCHANGED <<queueVars, idle, waitLeft, addCnt, bakTaken, wheel, plkReAddTask,
                   timerVars, stop>>
-----------------------------------------------------------------------------
(* on_timeout for each task of due: the message goes to the service, or    *)
(* finds it gone; a schedule with firings to come is to be added again,    *)
(* and the slot of any other task is given back.                           *)
AgainOnceTooOften(t) == repeat[t] >= 0 /\ alive[t]
Again(t) == repeat[t] - 1 >= 0 /\ alive[t]

OnTimeout(due, kept) ==
    LET fired == {TimerOf(k) : k \in due}
        done  == {k \in due : ~Again(TimerOf(k))}
    IN /\ got' = [t \in Timers |-> IF t \in fired /\ alive[t] THEN got[t] + 1 ELSE got[t]]
       /\ left' = [t \in Timers |-> IF t \notin fired THEN left[t]
                                    ELSE IF Again(t) THEN Delay[t] ELSE NoTime]
       /\ repeat' = [t \in Timers |-> IF t \in fired THEN repeat[t] - 1 ELSE repeat[t]]
       /\ plkReAddTask' = kept \union (due \ done)
       /\ freeTaskPool' = freeTaskPool \union (done \intersect Idx)
       /\ slots' = [i \in Idx |-> IF i \in done THEN NoTimer ELSE slots[i]]

(* tmwheel_add: a task whose time has come fires at once when the wheel's  *)
(* own clock has reached it too.                                           *)
Due(task) == left[TimerOf(task)] = 0

WheelAdd(task, kept) ==
    \/ /\ wheel' = wheel \union {task}
       /\ OnTimeout({}, kept)
    \/ /\ Due(task) /\ wheel' = wheel
       /\ OnTimeout({task}, kept)

(* The head of a round: the tasks that on_timeout kept are added again.    *)
ReAdd ==
    /\ ThreadAt("top")
    /\ \E k \in plkReAddTask : WheelAdd(k, plkReAddTask \ {k})
    /\ UNCHANGED <<pc, addCnt, bakTaken, queTask, plkTaskBak, taskBakNum, unAddTask, apc,
                   sleepVars, alive, stop>>

StartRound ==
    /\ ThreadAt("top") /\ plkReAddTask = {}
    /\ Goto("pop")
    /\ UNCHANGED <<queueVars, apc, sleepVars, addCnt, bakTaken, wheel, plkReAddTask,
                   timerVars, stop>>

(* mpsc_pop until the queue is empty or the round has its fill.            *)
PopTask ==
    /\ ThreadAt("pop") /\ queTask # << >> /\ Head(queTask) # Sentinel
    /\ queTask' = Tail(queTask) /\ addCnt' = addCnt + 1
    /\ WheelAdd(Head(queTask), plkReAddTask)
    /\ pc' = IF addCnt' >= StepMsgMax THEN "baknum" ELSE "pop"
    /\ UNCHANGED <<bakTaken, plkTaskBak, taskBakNum, unAddTask, apc, sleepVars, alive, stop>>

PopNothing ==
    /\ ThreadAt("pop") /\ queTask = << >> /\ Goto("baknum") /\ missed' = FALSE
    /\ UNCHANGED <<queueVars, apc, idle, asleep, waitLeft, addCnt, bakTaken, wheel, plkReAddTask,
                   timerVars, stop>>

PopSentinel ==
    /\ ThreadAt("pop") /\ queTask # << >> /\ Head(queTask) = Sentinel
    /\ queTask' = Tail(queTask) /\ Goto("stopped")
    /\ UNCHANGED <<slots, freeTaskPool, plkTaskBak, taskBakNum, unAddTask, apc,
                   sleepVars, addCnt, bakTaken, wheel, plkReAddTask, timerVars, stop>>

(* taskBakNum is unsigned: a count below zero reads as a large one.        *)
LookBackupForTwo ==
    /\ ThreadAt("baknum")
    /\ pc' = IF taskBakNum # 0 /\ taskBakNum # 1 THEN "bak" ELSE "advance"
    /\ UNCHANGED <<queueVars, apc, sleepVars, addCnt, bakTaken, wheel, plkReAddTask,
                   timerVars, stop>>
LookBackup ==
    /\ ThreadAt("baknum")
    /\ pc' = IF taskBakNum # 0 THEN "bak" ELSE "advance"
    /\ UNCHANGED <<queueVars, apc, sleepVars, addCnt, bakTaken, wheel, plkReAddTask,
                   timerVars, stop>>

(* The loop over plkTaskBak ends with it, or with the round's fill, and    *)
(* then lowers taskBakNum, which nobody else tests.                        *)
EndBackup(taken) == taskBakNum' = taskBakNum - taken /\ bakTaken' = 0 /\ Goto("advance")

PopBackup ==
    /\ ThreadAt("bak") /\ plkTaskBak # << >>
    /\ plkTaskBak' = Tail(plkTaskBak) /\ addCnt' = addCnt + 1
    /\ WheelAdd(Head(plkTaskBak), plkReAddTask)
    /\ IF addCnt' >= 2 * StepMsgMax
       THEN EndBackup(bakTaken + 1)
       ELSE bakTaken' = bakTaken + 1 /\ UNCHANGED <<pc, taskBakNum>>
    /\ UNCHANGED <<queTask, unAddTask, apc, sleepVars, alive, stop>>

NoBackup ==
    /\ ThreadAt("bak") /\ plkTaskBak = << >> /\ EndBackup(bakTaken)
    /\ UNCHANGED <<slots, freeTaskPool, queTask, plkTaskBak, unAddTask, apc, sleepVars,
                   addCnt, wheel, plkReAddTask, timerVars, stop>>

(* unAddTask, which nobody else tests, is lowered by what the round added, *)
(* and tmwheel_advance_clock fires what is due and tells the time to the   *)
(* next; a round that added nothing and fired no schedule tests for        *)
(* idleness.                                                               *)
NextWait(rest) ==
    LET d == IF rest = {} THEN 0 ELSE Min({left[TimerOf(k)] : k \in rest})
    IN IF d <= 0 \/ d >= MaxWait THEN MaxWait ELSE d

Advance ==
    /\ ThreadAt("advance")
    /\ unAddTask' = unAddTask - addCnt
    /\ LET due == {k \in wheel : Due(k)}
       IN /\ wheel' = wheel \ due
          /\ OnTimeout(due, plkReAddTask)
          /\ IF addCnt < 1 /\ plkReAddTask' = {}
             THEN Goto("test") /\ idle' = TRUE /\ waitLeft' = NextWait(wheel \ due)
             ELSE Goto("top") /\ UNCHANGED <<idle, waitLeft>>
    /\ addCnt' = 0
    /\ UNCHANGED <<queTask, plkTaskBak, taskBakNum, apc, asleep, missed, bakTaken, alive,
                   stop>>

TestIdleNever ==
    /\ ThreadAt("test") /\ Goto("wait")
    /\ UNCHANGED <<queueVars, apc, sleepVars, addCnt, bakTaken, wheel, plkReAddTask,
                   timerVars, stop>>
TestIdle ==
    /\ ThreadAt("test")
    /\ pc' = IF unAddTask = 0 THEN "wait" ELSE "woken"
    /\ UNCHANGED <<queueVars, apc, sleepVars, addCnt, bakTaken, wheel, plkReAddTask,
                   timerVars, stop>>

(* cond_waitfor: the wait ends with a notify or when its time is over.     *)
StartWait ==
    /\ ThreadAt("wait") /\ Goto("waiting") /\ asleep' = TRUE
    /\ UNCHANGED <<queueVars, apc, idle, waitLeft, missed, addCnt, bakTaken, wheel,
                   plkReAddTask, timerVars, stop>>

WaitOver ==
    /\ ThreadAt("waiting") /\ waitLeft = 0
    /\ Goto("woken") /\ asleep' = FALSE
    /\ UNCHANGED <<queueVars, apc, idle, waitLeft, missed, addCnt, bakTaken, wheel,
                   plkReAddTask, timerVars, stop>>

Woken ==
    /\ ThreadAt("woken") /\ Goto("top") /\ idle' = FALSE /\ waitLeft' = 0
    /\ UNCHANGED <<queueVars, apc, asleep, missed, addCnt, bakTaken, wheel,
                   plkReAddTask, timerVars, stop>>
-----------------------------------------------------------------------------
(* timer_shutdown, in the thread that shuts the process down.              *)
ShutdownPush ==
    /\ MayShutdown /\ stop = "none" /\ ~QueueFull
    /\ stop' = "pushed" /\ queTask' = Append(queTask, Sentinel)
    /\ UNCHANGED <<slots, freeTaskPool, plkTaskBak, taskBakNum, unAddTask, apc,
                   sleepVars, threadVars, timerVars>>

ShutdownNotify ==
    /\ stop = "pushed" /\ stop' = "done" /\ CondNotify
    /\ UNCHANGED <<queueVars, apc, idle, waitLeft, addCnt, bakTaken, wheel,
                   plkReAddTask, timerVars>>

(* The service of a timer goes: its svcCnt no longer matches the task's.   *)
ServiceGone(t) ==
    /\ t \in Leaving /\ alive[t] /\ t \in Requested /\ alive' = [alive EXCEPT ![t] = FALSE]
    /\ UNCHANGED <<queueVars, apc, sleepVars, threadVars, left, repeat, got, stop>>

(* A tick of the clock.                                                    *)
Tick ==
    /\ waitLeft > 0 \/ \E t \in Timers : left[t] > 0
    /\ left' = [t \in Timers |-> IF left[t] > 0 THEN left[t] - 1 ELSE left[t]]
    /\ waitLeft' = IF waitLeft > 0 THEN waitLeft - 1 ELSE 0
    /\ UNCHANGED <<queueVars, apc, idle, asleep, missed, threadVars, repeat, alive,
                   got, stop>>

AdderStep(t) ==
    \/ AddInSlot(t) \/ AddOnHeap(t) \/ CountBackup(t) \/ CountAdded(t)
    \/ LookIdle(t) \/ NotifyIdle(t)
ThreadStep ==
    \/ ReAdd \/ StartRound \/ PopTask \/ PopNothing \/ PopSentinel
    \/ LookBackup \/ PopBackup \/ NoBackup
    \/ Advance \/ TestIdle \/ StartWait \/ WaitOver \/ Woken

Next ==
    \/ \E t \in Timers : Request(t) \/ AdderStep(t)
    \/ ThreadStep
    \/ ShutdownPush \/ ShutdownNotify
    \/ \E t \in Timers : ServiceGone(t)
    \/ Tick

Spec == Init /\ [][Next]_vars

(* Threads that can go on do, a shutdown once begun notifies, and time     *)
(* passes.  Services need not call anything.                               *)
FairSpec ==
    /\ Spec
    /\ \A t \in Timers : WF_vars(AdderStep(t))
    /\ WF_vars(ThreadStep) /\ WF_vars(ShutdownNotify) /\ WF_vars(Tick)
-----------------------------------------------------------------------------
TypeOK ==
    /\ slots \in [Idx -> Timers \union {NoTimer}] /\ freeTaskPool \subseteq Idx
    /\ queTask \in Seq(Idx \union {Sentinel}) /\ plkTaskBak \in Seq(Timers)
    /\ taskBakNum \in Int /\ unAddTask \in Int /\ idle \in BOOLEAN
    /\ apc \in [Timers -> {"ready", "add", "bakcount", "count", "look", "notify"}]
    /\ pc \in {"top", "pop", "baknum", "bak", "advance", "test", "wait",
               "waiting", "woken", "stopped"}
    /\ addCnt \in 0 .. 2 * StepMsgMax /\ bakTaken \in 0 .. addCnt
    /\ wheel \subseteq Idx \union Timers /\ plkReAddTask \subseteq Idx \union Timers
    /\ asleep \in BOOLEAN /\ waitLeft \in 0 .. MaxWait /\ missed \in BOOLEAN
    /\ left \in [Timers -> Nat \union {NoTime}] /\ repeat \in [Timers -> Int]
    /\ alive \in [Timers -> BOOLEAN] /\ got \in [Timers -> Nat]
    /\ stop \in {"none", "pushed", "done"}

(* Every timer that still runs is in exactly one place: with its adder,    *)
(* in one of the two ways to the thread, in the wheel or waiting to be     *)
(* added again; and every index of the pool is free or holds one such      *)
(* timer.  Neither the unread answer of mpsc_push nor the reuse of a slot  *)
(* by on_timeout loses or doubles a task (pps_timer.cpp:187-247).          *)
Places(t) ==
    (IF apc[t] = "add" THEN {<<"adder", t>>} ELSE {})
    \union {<<"queue", n>> : n \in {m \in DOMAIN queTask :
                                     queTask[m] \in Idx /\ slots[queTask[m]] = t}}
    \union {<<"backup", n>> : n \in {m \in DOMAIN plkTaskBak : plkTaskBak[m] = t}}
    \union {<<"wheel", k>> : k \in {m \in wheel : TimerOf(m) = t}}
    \union {<<"readd", k>> : k \in {m \in plkReAddTask : TimerOf(m) = t}}
TimerInOnePlace ==
    /\ \A t \in Timers : Cardinality(Places(t)) = IF left[t] = NoTime THEN 0 ELSE 1
    /\ \A i \in freeTaskPool : i \notin Pending /\ \A n \in DOMAIN queTask : queTask[n] # i

(* A timer fires as often as it was asked for: no firing is doubled by a   *)
(* task that is added again or whose slot is reused, and none is missing   *)
(* when it ends, unless its service went (on_timeout).                     *)
FiresItsNumber ==
    \A t \in Requested :
       IF left[t] = NoTime THEN got[t] = Repeat[t] + 1 \/ (~alive[t] /\ got[t] <= Repeat[t])
                           ELSE got[t] <= Repeat[t]

(* No timer is lost or doubled on its way, and none fires out of number.   *)
TimersKept == TimerInOnePlace /\ FiresItsNumber

(* While the thread sleeps nothing waits for it: each task on its way has  *)
(* an adder that has still to notify it, unless a notify came after its    *)
(* look at queTask and before its wait (cond_waitfor has no predicate).    *)
OnTheWay == queTask # << >> \/ plkTaskBak # << >>
SleepsOnlyByMissedNotify ==
    asleep /\ OnTheWay =>
       \/ missed \/ stop = "pushed"
       \/ \E t \in Timers : apc[t] \in {"bakcount", "count", "look", "notify"}

(* It never sleeps past the expiration of a task in the wheel, and has no  *)
(* firing to repeat.                                                       *)
NeverOversleeps ==
    asleep => plkReAddTask = {} /\ \A k \in wheel : waitLeft <= left[TimerOf(k)]

(* What the thread sleeps beside, it may sleep beside.                     *)
SleepsSoundly == SleepsOnlyByMissedNotify /\ NeverOversleeps

(* Every timer requested fires, again and again to its last firing, unless *)
(* its service goes or the thread is told to stop: a missed notify costs   *)
(* the length of one wait, never the timer.                                *)
EveryTimerEnds ==
    \A t \in Timers : (left[t] # NoTime) ~> (left[t] = NoTime \/ stop # "none")
=============================================================================
