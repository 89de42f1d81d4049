---------------------------- MODULE TimingWheel ----------------------------
(***************************************************************************)
(* The hierarchical timing wheel of timing_wheel.h.  A wheel has WheelSize *)
(* slots of tick time units; what lies further off goes to the wheel       *)
(* above, created when it is first needed, whose tick is the interval of   *)
(* the one below.  The slots that hold tasks are in delay_queue, a heap    *)
(* by expiration (module MinHeap), and an advance pops them as long as     *)
(* they have expired.  One thread does all this; each round of one of its  *)
(* loops is a step, as is each call of the recursive functions.            *)
(***************************************************************************)
EXTENDS MinHeap, FiniteSets

CONSTANTS Tasks,     \* calls of tmwheel_add
          TickDur,   \* tickDur of the first wheel (2)
          WheelSize, \* slots of every wheel (500)
          Times      \* bound: the points of time of clock and expirations

ASSUME WheelAssumption == /\ TickDur \in Nat \ {0} /\ WheelSize \in Nat \ {0, 1}
                          /\ Times \subseteq Nat /\ 0 \in Times

VARIABLES now,         \* tmNow of the caller
          expiration,  \* of the tasks added
          wheels,      \* timer->root and the chain of its up_wheel
          delay_queue, \* <<level, slot>> by slot expiration
          fired,       \* the tasks given to fn_callback
          advancing,   \* in tmwheel_advance_clock
          delay,       \* what it answered last
          (* where the thread is: "ready" for the next call or the next slot *)
          wpc,         \* ..., "add", "up", "down", "clock" or "flush"
          adding,      \* the task of add_task
          level,       \* the wheel of add_task_to_wheel or of advance_clock
          id,          \* the node of shift_up or of shift_down
          popped       \* the slot of tmwheel_advance_clock

locals == <<wpc, adding, level, id, popped>>
wheelVars == <<now, expiration, wheels, delay_queue, fired, advancing, delay, locals>>

Unset == -1   \* expiration of a slot with no task and of a task not added yet
NoTask == Unset
NoSlot == <<1, 0>>
Floor(time, tick) == time - (time % tick)
Interval(wheel) == wheel.tick * WheelSize
EmptySlot == [expiration |-> Unset, tasks |-> << >>]

CreateWheel(tick, start) ==
    [tick |-> tick, cur_time |-> Floor(start, tick),
     slots |-> [i \in 0 .. WheelSize - 1 |-> EmptySlot]]

SlotAt(s) == wheels[s[1]].slots[s[2]]
Slots == (1 .. Len(wheels)) \X (0 .. WheelSize - 1)
SlotKey == [s \in Slots |-> SlotAt(s).expiration]

WheelInit ==
    /\ now = 0 /\ expiration = [t \in Tasks |-> Unset]
    /\ wheels = <<CreateWheel(TickDur, 0)>> /\ delay_queue = << >>
    /\ fired = {} /\ advancing = FALSE /\ delay = 0
    /\ wpc = "ready" /\ adding = NoTask /\ level = 1 /\ id = 1 /\ popped = NoSlot

Calling == wpc = "ready" /\ ~advancing  \* the caller has the wheel

Elapse ==
    /\ Calling /\ now' \in {n \in Times : n > now}
    /\ UNCHANGED <<expiration, wheels, delay_queue, fired, advancing, delay, locals>>
-----------------------------------------------------------------------------
(* tmwheel_add.  The caller read its clock before: e may lie in the past.  *)
AddTask(t, e) ==
    /\ Calling /\ expiration[t] = Unset
    /\ expiration' = [expiration EXCEPT ![t] = e]
    /\ wpc' = "add" /\ adding' = t
    /\ UNCHANGED <<now, wheels, delay_queue, fired, advancing, delay, level, id, popped>>

(* The end of add_task, called by tmwheel_add or in flush_slot.            *)
Added == /\ wpc' = (IF advancing THEN "flush" ELSE "ready")
         /\ adding' = NoTask /\ level' = 1 /\ id' = 1

Wheel == wheels[level]
Passed == expiration[adding] < Wheel.cur_time + Wheel.tick
Reached == expiration[adding] < Wheel.cur_time + Interval(Wheel)

FireTask ==
    /\ wpc = "add" /\ Passed
    /\ fired' = fired \union {adding} /\ Added
    /\ UNCHANGED <<now, expiration, wheels, delay_queue, advancing, delay, popped>>

SlotOfDistance(wheel, e) == ((e - wheel.cur_time) \div wheel.tick) % WheelSize
SlotOfTime(wheel, e) == (e \div wheel.tick) % WheelSize

(* The slot of the tick the expiration lies in; it joins the queue, at the *)
(* end first, when its own expiration changes.                             *)
PutInSlot ==
    /\ wpc = "add" /\ ~Passed /\ Reached
    /\ LET i     == SlotOfTime(Wheel, expiration[adding])
           start == Floor(expiration[adding], Wheel.tick)
       IN /\ wheels' = [wheels EXCEPT ![level].slots[i] =
                            [expiration |-> start, tasks |-> Append(@.tasks, adding)]]
          /\ IF Wheel.slots[i].expiration = start
             THEN Added /\ UNCHANGED delay_queue
             ELSE /\ delay_queue' = Append(delay_queue, <<level, i>>)
                  /\ wpc' = "up" /\ id' = Len(delay_queue) + 1 /\ adding' = NoTask /\ level' = 1
    /\ UNCHANGED <<now, expiration, fired, advancing, delay, popped>>

GoToWheelAbove ==
    /\ wpc = "add" /\ ~Passed /\ ~Reached
    /\ level' = level + 1
    /\ wheels' = IF level < Len(wheels) THEN wheels
                 ELSE Append(wheels, CreateWheel(Interval(Wheel), Wheel.cur_time))
    /\ UNCHANGED <<now, expiration, delay_queue, fired, advancing, delay, wpc, adding, id, popped>>

ShiftUp ==
    /\ wpc = "up"
    /\ IF Rises(delay_queue, id, SlotKey)
       THEN /\ delay_queue' = SwapNodes(delay_queue, id, Parent(id)) /\ id' = Parent(id)
            /\ UNCHANGED <<wpc, adding, level>>
       ELSE Added /\ UNCHANGED delay_queue
    /\ UNCHANGED <<now, expiration, wheels, fired, advancing, delay, popped>>
-----------------------------------------------------------------------------
(* tmwheel_advance_clock                                                   *)
Begin ==
    /\ Calling /\ advancing' = TRUE /\ delay' = 0
    /\ UNCHANGED <<now, expiration, wheels, delay_queue, fired, locals>>

First == Head(delay_queue)
Expired == delay_queue # << >> /\ SlotAt(First).expiration <= now

PopSlot ==
    /\ wpc = "ready" /\ advancing /\ Expired
    /\ popped' = First /\ delay_queue' = WithoutRoot(delay_queue)
    /\ wpc' = (IF Len(delay_queue) > 1 THEN "down" ELSE "clock")
    /\ UNCHANGED <<now, expiration, wheels, fired, advancing, delay, adding, level, id>>

ShiftDown ==
    /\ wpc = "down"
    /\ IF Sinks(delay_queue, id, SlotKey)
       THEN LET child == SmallerChild(delay_queue, id, SlotKey)
            IN delay_queue' = SwapNodes(delay_queue, child, id) /\ id' = child /\ wpc' = wpc
       ELSE wpc' = "clock" /\ id' = 1 /\ UNCHANGED delay_queue
    /\ UNCHANGED <<now, expiration, wheels, fired, advancing, delay, adding, level, popped>>

(* advance_clock: a wheel that moves takes the wheels above along.         *)
ClockTime == IF level = 1 THEN SlotAt(popped).expiration ELSE wheels[level - 1].cur_time
CanTickNever == FALSE
CanTick == level <= Len(wheels) /\ ClockTime >= Wheel.cur_time + Wheel.tick

MoveWheel ==
    /\ wpc = "clock" /\ CanTick
    /\ wheels' = [wheels EXCEPT ![level].cur_time = Floor(ClockTime, Wheel.tick)]
    /\ level' = level + 1
    /\ UNCHANGED <<now, expiration, delay_queue, fired, advancing, delay, wpc, adding, id, popped>>

(* flush_slot: the slot has no expiration any more, and its tasks, taken   *)
(* out, are added once more: they fire or go to a wheel below.             *)
FlushSlot ==
    /\ wpc = "clock" /\ ~CanTick
    /\ wheels' = [wheels EXCEPT ![popped[1]].slots[popped[2]].expiration = Unset]
    /\ wpc' = "flush" /\ level' = 1
    /\ UNCHANGED <<now, expiration, delay_queue, fired, advancing, delay, adding, id, popped>>

AddAgain ==
    /\ wpc = "flush" /\ SlotAt(popped).tasks # << >>
    /\ adding' = Head(SlotAt(popped).tasks) /\ wpc' = "add"
    /\ wheels' = [wheels EXCEPT ![popped[1]].slots[popped[2]].tasks = Tail(@)]
    /\ UNCHANGED <<now, expiration, delay_queue, fired, advancing, delay, level, id, popped>>

Flushed ==
    /\ wpc = "flush" /\ SlotAt(popped).tasks = << >>
    /\ wpc' = "ready" /\ popped' = NoSlot
    /\ UNCHANGED <<now, expiration, wheels, delay_queue, fired, advancing, delay, adding,
                   level, id>>

Return ==
    /\ wpc = "ready" /\ advancing /\ ~Expired /\ advancing' = FALSE
    /\ delay' = IF delay_queue = << >> THEN 0 ELSE SlotAt(First).expiration - now
    /\ UNCHANGED <<now, expiration, wheels, delay_queue, fired, locals>>

WheelNext ==
    \/ \E t \in Tasks : \E e \in Times : AddTask(t, e)
    \/ FireTask \/ PutInSlot \/ GoToWheelAbove \/ ShiftUp
    \/ Elapse \/ Begin \/ PopSlot \/ ShiftDown \/ MoveWheel \/ FlushSlot \/ AddAgain
    \/ Flushed \/ Return

WheelSpec == WheelInit /\ [][WheelNext]_wheelVars
-----------------------------------------------------------------------------
TasksAt(s) == {SlotAt(s).tasks[n] : n \in DOMAIN SlotAt(s).tasks}

SlotStates == [expiration : Nat \union {Unset}, tasks : Seq(Tasks)]
WheelStates ==
    [tick : Nat \ {0}, cur_time : Nat, slots : [0 .. WheelSize - 1 -> SlotStates]]

WheelTypeOK ==
    /\ now \in Times /\ expiration \in [Tasks -> Times \union {Unset}]
    /\ wheels \in Seq(WheelStates) /\ delay_queue \in Seq(Slots) /\ fired \subseteq Tasks
    /\ advancing \in BOOLEAN /\ delay \in Nat
    /\ wpc \in {"ready", "add", "up", "down", "clock", "flush"}
    /\ adding \in Tasks \union {NoTask} /\ level \in Nat \ {0} /\ id \in Nat \ {0}
    /\ popped \in Slots

(* The wheel is the queue of deadlines the timer threads take it for:      *)
(* every advance fires the tasks that are due, no other, and answers a     *)
(* sleep that ends before the next is due.  This holds although the heap   *)
(* of slots keeps no keys and an upper wheel starts at a lagging clock.    *)
(* A task that tmwheel_add has not found a place for is not added yet.     *)
InWheel == IF wpc = "add" /\ ~advancing THEN [expiration EXCEPT ![adding] = Unset] ELSE expiration
Deadlines ==
    INSTANCE DeadlineQueue WITH
        expiration <- InWheel,
        pending <- {t \in Tasks : InWheel[t] # Unset /\ t \notin fired}
ImplementsDeadlines == Deadlines!Spec

(* An advance comes to its end: there is a task in every slot it pops, and *)
(* a flushed slot never takes its own tasks back, each fires or goes to a  *)
(* wheel further down.                                                     *)
FlushMovesDown ==
    [][/\ wpc = "add" /\ advancing =>
            \A s \in Slots' : adding \in TasksAt(s)' => s[1] < popped[1]
       /\ popped' # popped /\ wpc = "ready" => TasksAt(First) # {}]_wheelVars
=============================================================================
