------------------------ MODULE TimersProofs ----------------------------
(***************************************************************************)
(* Proofs about the three modules that deal with timers: Timer, the        *)
(* threads that keep them, Coroutine, whose timers they are, and           *)
(* TimingWheel, in which the threads keep them.                            *)
(*                                                                         *)
(* Proofs about Timer for any timers, delays and repeats, any pool smaller *)
(* than queTask, and any bounds on a round and on a wait.                  *)
(*                                                                         *)
(* The argument for TimersKept.  The indices of the pool are shared out    *)
(* between freeTaskPool, queTask, the wheel and plkReAddTask, and the      *)
(* timers that run between their adders, the slots of the indices that are *)
(* not free, plkTaskBak and, without a slot, the wheel and plkReAddTask;   *)
(* each step moves one task from one of these to another (Placed).  So     *)
(* queTask is never full while an index is free, and what a timer has had  *)
(* of firings and what it has to come make up its number (KeptInv).        *)
(*                                                                         *)
(* The argument for SleepsSoundly.  unAddTask counts the tasks on the way  *)
(* and those of this round, less those whose adders have not counted them; *)
(* so a thread that reads 0 leaves behind only tasks whose adders have     *)
(* still to look at idle, which is set.  The wait ends by the first        *)
(* expiration in the wheel, for nothing is added to it meanwhile           *)
(* (SoundInv).                                                             *)
(*                                                                         *)
(* Proofs about Coroutine, the second part, for any coroutines and ids,    *)
(* any firings of a schedule and any bounds.  StackInv says who may be on  *)
(* the stack, among the free ones, or waiting; IdInv that a message under  *)
(* way finds under its id what it was sent for, and that an id in use is   *)
(* not handed out again.  A sleep broken off keeps its id in use until its *)
(* timer has come.                                                         *)
(*                                                                         *)
(* Proofs about TimingWheel, the third part, for any tasks, any points of  *)
(* time, any tick and wheels of any size above one.  WheelInv says that    *)
(* the ticks divide each other and the clocks are in step but for the      *)
(* wheels that an advance has still to take along (ClockOK), that a slot   *)
(* stands for one tick of the turn its wheel is in, not yet passed         *)
(* (SlotOK), that every task added and not fired is in one slot, that of   *)
(* its own tick (PlaceOK), and that the heap has the slots with tasks,     *)
(* each once, and none before its parent but the one that is moving        *)
(* (QueueOK, HeapOK).  So the root is the slot that expires first, which   *)
(* is why an advance misses no task and answers no sleep that is too long, *)
(* and the slots of an upper wheel reach a whole tick of it beyond the     *)
(* clock, which is why a flushed task never comes back to its slot.        *)
(***************************************************************************)
EXTENDS Timer, Coroutine, TimingWheel, FiniteSetTheorems, SequenceTheorems, WellFoundedInduction, TLAPS

Has(q, x) == \E n \in 1 .. Len(q) : q[n] = x
OnceIn(q) == \A m, n \in 1 .. Len(q) : q[m] = q[n] => m = n
On(q, S) == {x \in S : Has(q, x)}

TaskRefs == Idx \union Timers
Adding == {t \in Timers : apc[t] = "add"}
Running == {t \in Timers : left[t] # NoTime}
HeldBy(sl, k) == IF k \in Idx THEN sl[k] ELSE k

(* The pool, the slots, the indices in queTask, the timers in plkTaskBak,  *)
(* the wheel, plkReAddTask, the timers with their adders and those that    *)
(* run: an index is in one place, a timer that runs is in one place, and   *)
(* a slot holds a timer unless it is free.                                 *)
PlacedIdx(free, sl, qu, wh, re) ==
    /\ free \subseteq Idx /\ qu \subseteq Idx /\ sl \in [Idx -> Timers \union {NoTimer}]
    /\ wh \subseteq TaskRefs /\ re \subseteq TaskRefs
    /\ \A i \in Idx : i \in free \/ i \in qu \/ i \in wh \/ i \in re
    /\ \A i \in free : i \notin qu /\ i \notin wh /\ i \notin re
    /\ \A i \in qu : i \notin wh /\ i \notin re
    /\ \A k \in wh : k \notin re
    /\ \A i \in Idx : sl[i] = NoTimer <=> i \in free
    /\ \A i, j \in Idx : sl[i] = sl[j] /\ sl[i] # NoTimer => i = j
PlacedTimers(sl, ba, wh, re, ad, run) ==
    /\ ba \subseteq Timers /\ ad \subseteq Timers /\ run \subseteq Timers
    /\ \A t \in ba : t \notin wh /\ t \notin re
    /\ \A t \in ad : t \notin ba /\ t \notin wh /\ t \notin re
    /\ \A i \in Idx : sl[i] \notin ba /\ sl[i] \notin wh /\ sl[i] \notin re /\ sl[i] \notin ad
    /\ \A t \in Timers : t \in run <=> \/ t \in ad \/ t \in ba \/ t \in wh \/ t \in re
                                      \/ \E i \in Idx : sl[i] = t
Placed(free, sl, qu, ba, wh, re, ad, run) ==
    PlacedIdx(free, sl, qu, wh, re) /\ PlacedTimers(sl, ba, wh, re, ad, run)

(* The firings a timer has had and those it still has to have.             *)
FiringsOk(t) ==
    /\ t \in Running => /\ repeat[t] >= 0 /\ got[t] + repeat[t] <= Repeat[t]
                        /\ alive[t] => got[t] + repeat[t] = Repeat[t]
    /\ t \notin Running /\ repeat[t] < Repeat[t] =>
          got[t] = Repeat[t] + 1 \/ (~alive[t] /\ got[t] <= Repeat[t])
    /\ repeat[t] = Repeat[t] => got[t] = 0
    /\ repeat[t] <= Repeat[t]

KeptTypes ==
    /\ queTask \in Seq(Idx \union {Sentinel}) /\ plkTaskBak \in Seq(Timers)
    /\ OnceIn(queTask) /\ OnceIn(plkTaskBak)
    /\ Has(queTask, Sentinel) => stop # "none"
    /\ apc \in [Timers -> {"ready", "add", "bakcount", "count", "look", "notify"}]
    /\ left \in [Timers -> Nat \union {NoTime}] /\ repeat \in [Timers -> Int]
    /\ alive \in [Timers -> BOOLEAN] /\ got \in [Timers -> Nat]

KeptInv ==
    /\ KeptTypes /\ \A t \in Timers : FiringsOk(t)
    /\ Placed(freeTaskPool, slots, On(queTask, Idx), On(plkTaskBak, Timers),
              wheel, plkReAddTask, Adding, Running)

-----------------------------------------------------------------------------
LEMMA Popped ==
    ASSUME NEW S, NEW q \in Seq(S), q # << >>, OnceIn(q)
    PROVE  /\ Tail(q) \in Seq(S) /\ OnceIn(Tail(q)) /\ Head(q) \in S
           /\ Has(q, Head(q)) /\ Len(Tail(q)) = Len(q) - 1
           /\ \A c : Has(Tail(q), c) <=> Has(q, c) /\ c # Head(q)
<1>1. /\ Tail(q) \in Seq(S) /\ Len(Tail(q)) = Len(q) - 1 /\ Len(q) \in Nat \ {0}
      /\ \A i \in 1 .. Len(q) - 1 : Tail(q)[i] = q[i + 1]
      /\ Head(q) = q[1] /\ Head(q) \in S
  OBVIOUS
<1> DEFINE p == Tail(q)
           h == Head(q)
<1> HIDE DEF p, h
<1>2. /\ p \in Seq(S) /\ Len(p) = Len(q) - 1 /\ \A i \in 1 .. Len(q) - 1 : p[i] = q[i + 1]
      /\ h = q[1] /\ h \in S
  BY <1>1 DEF p, h
<1>3. OnceIn(p)
  BY <1>1, <1>2 DEF OnceIn
<1>4. Has(q, h)
  BY <1>1, <1>2 DEF Has
<1>5. ASSUME NEW c PROVE Has(p, c) <=> Has(q, c) /\ c # h
  <2>1. ASSUME Has(p, c) PROVE Has(q, c) /\ c # h
    <3>1. PICK i \in 1 .. Len(q) - 1 : q[i + 1] = c
      BY <1>1, <1>2, <2>1 DEF Has
    <3>2. i + 1 \in 1 .. Len(q) /\ i + 1 # 1 /\ 1 \in 1 .. Len(q)
      BY <1>1
    <3> QED BY <1>2, <3>1, <3>2 DEF Has, OnceIn
  <2>2. ASSUME Has(q, c), c # h PROVE Has(p, c)
    <3>1. PICK i \in 1 .. Len(q) : q[i] = c
      BY <2>2 DEF Has
    <3>2. i # 1
      BY <3>1, <1>2, <2>2
    <3>3. i - 1 \in 1 .. Len(q) - 1 /\ (i - 1) + 1 = i
      BY <3>2, <1>1
    <3>4. p[i - 1] = q[i]
      BY <3>3, <1>2
    <3> QED BY <3>1, <3>3, <3>4, <1>2 DEF Has
  <2> QED BY <2>1, <2>2
<1> QED BY <1>1, <1>2, <1>3, <1>4, <1>5 DEF p, h

LEMMA Pushed ==
    ASSUME NEW S, NEW q \in Seq(S), NEW e \in S, OnceIn(q), ~Has(q, e)
    PROVE  /\ Append(q, e) \in Seq(S) /\ Len(Append(q, e)) = Len(q) + 1
           /\ \A d : Has(Append(q, e), d) <=> Has(q, d) \/ d = e
           /\ OnceIn(Append(q, e))
<1>1. /\ Append(q, e) \in Seq(S) /\ Len(Append(q, e)) = Len(q) + 1
      /\ \A i \in 1 .. Len(q) : Append(q, e)[i] = q[i]
      /\ Append(q, e)[Len(q) + 1] = e /\ Len(q) \in Nat
  OBVIOUS
<1> DEFINE p == Append(q, e)
<1> HIDE DEF p
<1>2. /\ p \in Seq(S) /\ Len(p) = Len(q) + 1 /\ \A i \in 1 .. Len(q) : p[i] = q[i]
      /\ p[Len(q) + 1] = e
  BY <1>1 DEF p
<1>3. OnceIn(p)
  BY <1>1, <1>2 DEF OnceIn, Has
<1>4. \A d : Has(p, d) <=> Has(q, d) \/ d = e
  BY <1>1, <1>2 DEF Has
<1> QED BY <1>2, <1>3, <1>4 DEF p

(* A queue without repetitions is no longer than the set of what it holds. *)
LEMMA LengthBound ==
    ASSUME NEW S, IsFiniteSet(S), NEW q \in Seq(S), OnceIn(q)
    PROVE  Len(q) <= Cardinality(S)
<1>1. Len(q) \in Nat /\ q \in [1 .. Len(q) -> S] /\ Cardinality(S) \in Nat
  BY FS_CardinalityType
<1>2. IsFiniteSet(1 .. Len(q)) /\ Cardinality(1 .. Len(q)) = Len(q)
  <2>1. PICK n \in Nat : n = Len(q)
    BY <1>1
  <2>2. IsFiniteSet(1 .. n) /\ Cardinality(1 .. n) = n
    <3>1. 1 \in Int /\ n \in Int
      OBVIOUS
    <3>2. IsFiniteSet(1 .. n) /\ Cardinality(1 .. n) = IF 1 > n THEN 0 ELSE n - 1 + 1
      BY <3>1, FS_Interval
    <3> QED BY <3>2
  <2> QED BY <2>1, <2>2
<1>3. ASSUME Cardinality(S) < Len(q) PROVE FALSE
  <2>1. \E m, n \in 1 .. Len(q) : m # n /\ q[m] = q[n]
    <3>1. Cardinality(S) < Cardinality(1 .. Len(q))
      BY <1>2, <1>3
    <3> QED BY <1>1, <1>2, <3>1, FS_PigeonHole
  <2> QED BY <2>1 DEF OnceIn
<1> QED BY <1>1, <1>3
-----------------------------------------------------------------------------
(* The moves of a task from one place to the next.                         *)
LEMMA Asked ==
    ASSUME NEW free, NEW sl, NEW qu, NEW ba, NEW wh, NEW re, NEW ad, NEW run,
           Placed(free, sl, qu, ba, wh, re, ad, run), NEW t \in Timers, t \notin run
    PROVE  Placed(free, sl, qu, ba, wh, re, ad \union {t}, run \union {t})
<1>1. PlacedIdx(free, sl, qu, wh, re)
  BY DEF Placed
<1>2. PlacedTimers(sl, ba, wh, re, ad \union {t}, run \union {t})
  BY DEF Placed, PlacedTimers
<1> QED BY <1>1, <1>2 DEF Placed

LEMMA ToQueue ==
    ASSUME NEW free, NEW sl, NEW qu, NEW ba, NEW wh, NEW re, NEW ad, NEW run,
           Placed(free, sl, qu, ba, wh, re, ad, run), NEW t \in ad, NEW i \in free
    PROVE  Placed(free \ {i}, [sl EXCEPT ![i] = t], qu \union {i}, ba, wh, re, ad \ {t}, run)
<1> DEFINE s == [sl EXCEPT ![i] = t]
<1>1. i \in Idx /\ t \in Timers /\ sl \in [Idx -> Timers \union {NoTimer}] /\ sl[i] = NoTimer
  BY DEF Placed, PlacedIdx, PlacedTimers
<1>2. s \in [Idx -> Timers \union {NoTimer}] /\ s[i] = t /\ \A j \in Idx : j # i => s[j] = sl[j]
  BY <1>1
<1> HIDE DEF s
<1>3. t # NoTimer /\ NoTimer \notin Timers
  BY <1>1, TimersAssumption
<1>4. PlacedIdx(free \ {i}, s, qu \union {i}, wh, re)
  <2>1. \A j, k \in Idx : s[j] = s[k] /\ s[j] # NoTimer => j = k
    BY <1>1, <1>2, <1>3 DEF Placed, PlacedIdx, PlacedTimers
  <2>2. \A j \in Idx : s[j] = NoTimer <=> j \in free \ {i}
    BY <1>1, <1>2, <1>3 DEF Placed, PlacedIdx
  <2> QED BY <1>1, <1>2, <2>1, <2>2 DEF Placed, PlacedIdx
<1>5. PlacedTimers(s, ba, wh, re, ad \ {t}, run)
  <2>1. \A u \in Timers : (\E j \in Idx : s[j] = u) <=> (\E j \in Idx : sl[j] = u) \/ u = t
    BY <1>1, <1>2, <1>3
  <2> QED BY <1>1, <1>2, <2>1 DEF Placed, PlacedTimers
<1> QED BY <1>4, <1>5 DEF Placed, s

LEMMA ToBackup ==
    ASSUME NEW free, NEW sl, NEW qu, NEW ba, NEW wh, NEW re, NEW ad, NEW run,
           Placed(free, sl, qu, ba, wh, re, ad, run), NEW t \in ad
    PROVE  Placed(free, sl, qu, ba \union {t}, wh, re, ad \ {t}, run)
<1>1. PlacedIdx(free, sl, qu, wh, re)
  BY DEF Placed
<1>2. PlacedTimers(sl, ba \union {t}, wh, re, ad \ {t}, run)
  BY DEF Placed, PlacedTimers
<1> QED BY <1>1, <1>2 DEF Placed

LEMMA QueueToWheel ==
    ASSUME NEW free, NEW sl, NEW qu, NEW ba, NEW wh, NEW re, NEW ad, NEW run,
           Placed(free, sl, qu, ba, wh, re, ad, run), NEW i \in qu
    PROVE  Placed(free, sl, qu \ {i}, ba, wh \union {i}, re, ad, run) /\ i \in TaskRefs /\ i \notin wh
<1>1. i \in Idx /\ i \notin Timers /\ i # NoTimer
  BY PoolAssumption, TimersAssumption DEF Placed, PlacedIdx
<1>2. PlacedIdx(free, sl, qu \ {i}, wh \union {i}, re) /\ i \notin wh
  BY <1>1 DEF Placed, PlacedIdx, TaskRefs
<1>3. PlacedTimers(sl, ba, wh \union {i}, re, ad, run)
  <2>1. \A j \in Idx : sl[j] # i
    BY <1>1 DEF Placed, PlacedIdx
  <2> QED BY <1>1, <2>1 DEF Placed, PlacedTimers
<1> QED BY <1>1, <1>2, <1>3 DEF Placed, TaskRefs

LEMMA BackupToWheel ==
    ASSUME NEW free, NEW sl, NEW qu, NEW ba, NEW wh, NEW re, NEW ad, NEW run,
           Placed(free, sl, qu, ba, wh, re, ad, run), NEW t \in ba
    PROVE  Placed(free, sl, qu, ba \ {t}, wh \union {t}, re, ad, run) /\ t \in TaskRefs /\ t \notin wh
<1>1. t \in Timers /\ t \notin Idx
  BY PoolAssumption DEF Placed, PlacedTimers
<1>2. PlacedIdx(free, sl, qu, wh \union {t}, re) /\ t \notin wh
  BY <1>1 DEF Placed, PlacedIdx, PlacedTimers, TaskRefs
<1>3. PlacedTimers(sl, ba \ {t}, wh \union {t}, re, ad, run)
  BY <1>1 DEF Placed, PlacedTimers
<1> QED BY <1>1, <1>2, <1>3 DEF Placed, TaskRefs

LEMMA ReAddToWheel ==
    ASSUME NEW free, NEW sl, NEW qu, NEW ba, NEW wh, NEW re, NEW ad, NEW run,
           Placed(free, sl, qu, ba, wh, re, ad, run), NEW k \in re
    PROVE  Placed(free, sl, qu, ba, wh \union {k}, re \ {k}, ad, run) /\ k \in TaskRefs /\ k \notin wh
<1>1. k \in TaskRefs /\ k \notin wh
  BY DEF Placed, PlacedIdx
<1>2. PlacedIdx(free, sl, qu, wh \union {k}, re \ {k})
  BY <1>1 DEF Placed, PlacedIdx
<1>3. PlacedTimers(sl, ba, wh \union {k}, re \ {k}, ad, run)
  BY <1>1 DEF Placed, PlacedTimers
<1> QED BY <1>1, <1>2, <1>3 DEF Placed

(* What runs in the wheel or beside it, and that two tasks there are of    *)
(* two timers.                                                             *)
LEMMA TimersOfTasks ==
    ASSUME NEW free, NEW sl, NEW qu, NEW ba, NEW wh, NEW re, NEW ad, NEW run,
           Placed(free, sl, qu, ba, wh, re, ad, run)
    PROVE  /\ \A k \in wh \union re : HeldBy(sl, k) \in run /\ HeldBy(sl, k) \in Timers
           /\ \A j, k \in wh \union re : HeldBy(sl, j) = HeldBy(sl, k) => j = k
<1>1. ASSUME NEW k \in wh \union re
      PROVE  /\ HeldBy(sl, k) \in Timers /\ HeldBy(sl, k) \in run
             /\ k \in Idx => k \notin Timers /\ sl[k] \in Timers /\ sl[k] # NoTimer
             /\ k \notin Idx => k \in Timers
  <2>1. CASE k \in Idx
    <3>1. sl[k] \in Timers /\ sl[k] # NoTimer
      BY <2>1 DEF Placed, PlacedIdx
    <3> QED BY <2>1, <3>1, PoolAssumption DEF Placed, PlacedTimers, HeldBy
  <2>2. CASE k \notin Idx
    <3>1. k \in Timers
      BY <2>2 DEF Placed, PlacedIdx, TaskRefs
    <3> QED BY <2>2, <3>1 DEF Placed, PlacedTimers, HeldBy
  <2> QED BY <2>1, <2>2
<1>2. ASSUME NEW j \in wh \union re, NEW k \in wh \union re, HeldBy(sl, j) = HeldBy(sl, k)
      PROVE  j = k
  <2>1. CASE j \in Idx /\ k \in Idx
    BY <1>1, <1>2, <2>1 DEF Placed, PlacedIdx, HeldBy
  <2>2. CASE j \in Idx /\ k \notin Idx
    <3>1. sl[j] = k
      BY <1>2, <2>2 DEF HeldBy
    <3> QED BY <2>2, <3>1 DEF Placed, PlacedTimers
  <2>3. CASE j \notin Idx /\ k \in Idx
    <3>1. sl[k] = j
      BY <1>2, <2>3 DEF HeldBy
    <3> QED BY <2>3, <3>1 DEF Placed, PlacedTimers
  <2>4. CASE j \notin Idx /\ k \notin Idx
    BY <1>2, <2>4 DEF HeldBy
  <2> QED BY <2>1, <2>2, <2>3, <2>4
<1> QED BY <1>1, <1>2

(* on_timeout for some tasks of the wheel, of which done are done with.    *)
LEMMA FiredTasks ==
    ASSUME NEW free, NEW sl, NEW qu, NEW ba, NEW wh, NEW re, NEW ad, NEW run,
           Placed(free, sl, qu, ba, wh, re, ad, run),
           NEW due, due \subseteq wh, NEW done, done \subseteq due,
           NEW sm, sm = [i \in Idx |-> IF i \in done THEN NoTimer ELSE sl[i]],
           NEW rum, rum = {t \in run : \A k \in done : HeldBy(sl, k) # t}
    PROVE  Placed(free \union (done \intersect Idx), sm, qu, ba, wh \ due,
                  re \union (due \ done), ad, rum)
<1>1. NoTimer \notin Idx /\ NoTimer \notin Timers /\ Idx \intersect Timers = {}
  BY PoolAssumption, TimersAssumption
<1>2. /\ sl \in [Idx -> Timers \union {NoTimer}]
      /\ \A i \in Idx : (i \in done => sm[i] = NoTimer) /\ (i \notin done => sm[i] = sl[i])
      /\ sm \in [Idx -> Timers \union {NoTimer}]
  BY DEF Placed, PlacedIdx
<1>3. /\ \A k \in wh \union re : HeldBy(sl, k) \in run /\ HeldBy(sl, k) \in Timers
      /\ \A j, k \in wh \union re : HeldBy(sl, j) = HeldBy(sl, k) => j = k
  BY TimersOfTasks
<1>4. PlacedIdx(free \union (done \intersect Idx), sm, qu, wh \ due, re \union (due \ done))
  <2>1. \A i \in Idx : sm[i] = NoTimer <=> i \in free \union (done \intersect Idx)
    BY <1>2 DEF Placed, PlacedIdx
  <2>2. \A i, j \in Idx : sm[i] = sm[j] /\ sm[i] # NoTimer => i = j
    BY <1>2 DEF Placed, PlacedIdx
  <2> QED BY <1>2, <2>1, <2>2 DEF Placed, PlacedIdx
<1>5. PlacedTimers(sm, ba, wh \ due, re \union (due \ done), ad, rum)
  <2>1. \A i \in Idx : sm[i] \notin ba /\ sm[i] \notin wh /\ sm[i] \notin re /\ sm[i] \notin ad
    BY <1>1, <1>2 DEF Placed, PlacedTimers, PlacedIdx, TaskRefs
  <2>2. ASSUME NEW t \in Timers
        PROVE  t \in rum <=> \/ t \in ad \/ t \in ba \/ t \in wh \ due
                             \/ t \in re \union (due \ done) \/ \E i \in Idx : sm[i] = t
    <3>1. t \in ad \/ t \in ba => t \in rum
      <4>1. t \in ad \/ t \in ba => t \in run /\ t \notin wh /\ \A i \in Idx : sl[i] # t
        BY DEF Placed, PlacedTimers
      <4> QED BY <4>1 DEF HeldBy
    <3>2. ASSUME t \in wh \union re, t \notin done PROVE t \in rum
      <4>1. t \notin Idx /\ HeldBy(sl, t) = t
        BY <1>1 DEF HeldBy
      <4> QED BY <3>2, <4>1, <1>3
    <3>3. ASSUME NEW i \in Idx, sm[i] = t PROVE t \in rum
      <4>1. i \notin done /\ sl[i] = t /\ t # NoTimer
        BY <1>1, <1>2, <3>3
      <4>2. t \in run /\ t \notin wh
        BY <4>1 DEF Placed, PlacedTimers
      <4>3. \A k \in done : HeldBy(sl, k) # t
        BY <4>1, <4>2 DEF HeldBy, Placed, PlacedIdx
      <4> QED BY <4>2, <4>3
    <3>4. ASSUME t \in rum
          PROVE  \/ t \in ad \/ t \in ba \/ t \in wh \ due
                 \/ t \in re \union (due \ done) \/ \E i \in Idx : sm[i] = t
      <4>1. t \in run /\ \A k \in done : HeldBy(sl, k) # t
        BY <3>4
      <4>2. t \notin done
        BY <4>1, <1>1 DEF HeldBy
      <4>3. \A i \in Idx : sl[i] = t => sm[i] = t
        BY <4>1, <1>2 DEF HeldBy
      <4> QED BY <4>1, <4>2, <4>3 DEF Placed, PlacedTimers
    <3>5. t \in re => t \notin done
      BY DEF Placed, PlacedIdx
    <3>6. t \in wh \ due \/ t \in re \union (due \ done) => t \in rum
      BY <3>2, <3>5
    <3> QED BY <3>1, <3>3, <3>4, <3>6
  <2>3. rum \subseteq Timers /\ ba \subseteq Timers /\ ad \subseteq Timers
    BY DEF Placed, PlacedTimers
  <2> QED BY <2>1, <2>2, <2>3 DEF Placed, PlacedTimers
<1> QED BY <1>4, <1>5 DEF Placed
-----------------------------------------------------------------------------
FiringTypes ==
    /\ left \in [Timers -> Nat \union {NoTime}] /\ repeat \in [Timers -> Int]
    /\ alive \in [Timers -> BOOLEAN] /\ got \in [Timers -> Nat]

LEMMA Timeouts ==
    ASSUME FiringTypes, \A t \in Timers : FiringsOk(t),
           NEW qu, NEW ba, NEW wh, NEW re, NEW ad,
           Placed(freeTaskPool, slots, qu, ba, wh, re, ad, Running),
           NEW due, due \subseteq wh, OnTimeout(due, re), alive' = alive
    PROVE  /\ FiringTypes' /\ \A t \in Timers : FiringsOk(t)'
           /\ Placed(freeTaskPool', slots', qu, ba, wh \ due, plkReAddTask', ad, Running')
<1>1. PICK f, sl, run : f = freeTaskPool /\ sl = slots /\ run = Running
  OBVIOUS
<1>2. PICK done : done = {k \in due : ~Again(TimerOf(k))}
  OBVIOUS
<1>3. \A k : TimerOf(k) = HeldBy(sl, k)
  BY <1>1 DEF TimerOf, HeldBy
<1>4. Placed(f, sl, qu, ba, wh, re, ad, run)
  BY <1>1
<1>5. /\ \A k \in wh \union re : HeldBy(sl, k) \in run /\ HeldBy(sl, k) \in Timers
      /\ \A j, k \in wh \union re : HeldBy(sl, j) = HeldBy(sl, k) => j = k
  BY <1>4, TimersOfTasks
<1>6. PICK fires : fires = {TimerOf(k) : k \in due}
  OBVIOUS
<1>7. /\ got' = [t \in Timers |-> IF t \in fires /\ alive[t] THEN got[t] + 1 ELSE got[t]]
      /\ left' = [t \in Timers |-> IF t \notin fires THEN left[t]
                                   ELSE IF Again(t) THEN Delay[t] ELSE NoTime]
      /\ repeat' = [t \in Timers |-> IF t \in fires THEN repeat[t] - 1 ELSE repeat[t]]
      /\ plkReAddTask' = re \union (due \ done)
      /\ freeTaskPool' = f \union (done \intersect Idx)
      /\ slots' = [i \in Idx |-> IF i \in done THEN NoTimer ELSE sl[i]]
  BY <1>1, <1>2, <1>6 DEF OnTimeout
<1>8. Delay \in [Timers -> Nat] /\ Repeat \in [Timers -> Nat] /\ NoTime \notin Nat
  BY TimesAssumption DEF NoTime
<1>9. \A t \in Timers : t \in fires => t \in run /\ (Again(t) <=> \A k \in done : HeldBy(sl, k) # t)
  <2> SUFFICES ASSUME NEW t \in Timers, t \in fires
               PROVE  t \in run /\ (Again(t) <=> \A k \in done : HeldBy(sl, k) # t)
    OBVIOUS
  <2>1. PICK k \in due : t = HeldBy(sl, k)
    BY <1>3, <1>6
  <2>2. k \in done <=> ~Again(t)
    BY <1>2, <1>3, <2>1
  <2>3. \A j \in done : HeldBy(sl, j) = t => j = k
    BY <2>1, <1>2, <1>5
  <2> QED BY <2>1, <2>2, <2>3, <1>5
<1>10. \A t \in Timers : t \notin fires => \A k \in done : HeldBy(sl, k) # t
  BY <1>2, <1>3, <1>6
<1>11. run = {t \in Timers : left[t] # NoTime} /\ Running' = {t \in Timers : left'[t] # NoTime}
  BY <1>1 DEF Running
<1>12. Running' = {t \in run : \A k \in done : HeldBy(sl, k) # t}
  <2>1. ASSUME NEW t \in Timers
        PROVE  left'[t] # NoTime <=> t \in run /\ \A k \in done : HeldBy(sl, k) # t
    <3>1. CASE t \in fires
      <4>1. left'[t] = IF Again(t) THEN Delay[t] ELSE NoTime
        BY <1>7, <3>1
      <4>2. Delay[t] # NoTime
        BY <1>8
      <4> QED BY <4>1, <4>2, <3>1, <1>9
    <3>2. CASE t \notin fires
      <4>1. left'[t] = left[t]
        BY <1>7, <3>2
      <4> QED BY <4>1, <3>2, <1>10, <1>11
    <3> QED BY <3>1, <3>2
  <2> QED BY <2>1, <1>11
<1>13. Placed(freeTaskPool', slots', qu, ba, wh \ due, plkReAddTask', ad, Running')
  <2>1. done \subseteq due
    BY <1>2
  <2>2. PICK sm : sm = [i \in Idx |-> IF i \in done THEN NoTimer ELSE sl[i]]
    OBVIOUS
  <2>3. PICK rum : rum = {t \in run : \A k \in done : HeldBy(sl, k) # t}
    OBVIOUS
  <2>4. Placed(f \union (done \intersect Idx), sm, qu, ba, wh \ due,
               re \union (due \ done), ad, rum)
    BY <1>4, <2>1, <2>2, <2>3, FiredTasks
  <2> QED BY <2>4, <2>2, <2>3, <1>7, <1>12
<1>14. FiringTypes'
  <2>1. \A t \in Timers : got[t] \in Nat /\ repeat[t] \in Int /\ left[t] \in Nat \union {NoTime}
    BY DEF FiringTypes
  <2>2. \A n \in Nat : n + 1 \in Nat
    OBVIOUS
  <2>3. \A n \in Int : n - 1 \in Int
    OBVIOUS
  <2>4. got' \in [Timers -> Nat]
    BY <1>7, <2>1, <2>2
  <2>5. repeat' \in [Timers -> Int]
    BY <1>7, <2>1, <2>3
  <2>6. left' \in [Timers -> Nat \union {NoTime}]
    BY <1>7, <2>1, <1>8
  <2> QED BY <2>4, <2>5, <2>6 DEF FiringTypes
<1>15. ASSUME NEW t \in Timers PROVE FiringsOk(t)'
  <2>1. FiringsOk(t)
    OBVIOUS
  <2>2. PICK r \in Int, g \in Nat, n \in Nat : r = repeat[t] /\ g = got[t] /\ n = Repeat[t]
    BY <1>8 DEF FiringTypes
  <2>3. t \in Running <=> t \in run
    BY <1>1
  <2>4. CASE t \notin fires
    <3>1. got'[t] = got[t] /\ repeat'[t] = repeat[t] /\ left'[t] = left[t]
      BY <1>7, <2>4
    <3>2. t \in Running' <=> t \in Running
      BY <3>1 DEF Running
    <3> QED BY <3>1, <3>2, <2>1 DEF FiringsOk
  <2>5. CASE t \in fires /\ Again(t)
    <3>1. alive[t] /\ r - 1 >= 0
      BY <2>5, <2>2 DEF Again
    <3>2. got'[t] = g + 1 /\ repeat'[t] = r - 1 /\ t \in run
      BY <1>7, <1>9, <2>5, <2>2, <3>1
    <3>3. t \in Running'
      BY <1>9, <1>12, <2>5
    <3>4. g + r = n /\ g + r <= n
      BY <2>1, <2>2, <2>3, <3>1, <3>2 DEF FiringsOk
    <3>5. (g + 1) + (r - 1) = n /\ r - 1 >= 0 /\ r - 1 # n /\ (g + 1) + (r - 1) <= n /\ r - 1 <= n
      BY <3>1, <3>4
    <3> QED BY <3>2, <3>3, <3>5, <2>2 DEF FiringsOk
  <2>6. CASE t \in fires /\ ~Again(t)
    <3>1. ~(r - 1 >= 0 /\ alive[t])
      BY <2>6, <2>2 DEF Again
    <3>2. /\ t \in run /\ repeat'[t] = r - 1
          /\ alive[t] => got'[t] = g + 1
          /\ ~alive[t] => got'[t] = g
      BY <1>7, <1>9, <2>6, <2>2
    <3>3. t \notin Running'
      BY <1>9, <1>12, <2>6
    <3>4. /\ g + r <= n /\ r >= 0
          /\ alive[t] => g + r = n
      BY <2>1, <2>2, <2>3, <3>2 DEF FiringsOk
    <3>5. r - 1 < n /\ r - 1 # n /\ g <= n /\ r - 1 <= n
      BY <3>4
    <3>6. alive[t] => g + 1 = n + 1
      <4>1. alive[t] => r = 0
        BY <3>1, <3>4
      <4> QED BY <4>1, <3>4
    <3>7. alive'[t] = alive[t]
      OBVIOUS
    <3> QED BY <3>2, <3>3, <3>5, <3>6, <3>7, <2>2 DEF FiringsOk
  <2> QED BY <2>4, <2>5, <2>6
<1> QED BY <1>13, <1>14, <1>15

(* tmwheel_add of a task that was elsewhere: it ends in the wheel, or has  *)
(* fired.                                                                  *)
LEMMA AddedOnce ==
    ASSUME FiringTypes, \A t \in Timers : FiringsOk(t),
           NEW qu, NEW ba, NEW wh, NEW re, NEW ad, NEW k, wheel = wh, k \notin wh,
           Placed(freeTaskPool, slots, qu, ba, wh \union {k}, re, ad, Running),
           WheelAdd(k, re), alive' = alive
    PROVE  /\ FiringTypes' /\ \A t \in Timers : FiringsOk(t)'
           /\ Placed(freeTaskPool', slots', qu, ba, wheel', plkReAddTask', ad, Running')
<1>1. CASE wheel' = wheel \union {k} /\ OnTimeout({}, re)
  <2>1. PICK w, d : w = wh \union {k} /\ d = {}
    OBVIOUS
  <2>2. d \subseteq w /\ w \ d = wheel' /\ OnTimeout(d, re)
    BY <1>1, <2>1
  <2>3. Placed(freeTaskPool, slots, qu, ba, w, re, ad, Running)
    BY <2>1
  <2>4. /\ FiringTypes' /\ \A t \in Timers : FiringsOk(t)'
        /\ Placed(freeTaskPool', slots', qu, ba, w \ d, plkReAddTask', ad, Running')
    BY <2>2, <2>3, Timeouts
  <2> QED BY <2>2, <2>4
<1>2. CASE wheel' = wheel /\ OnTimeout({k}, re)
  <2>1. PICK w, d : w = wh \union {k} /\ d = {k}
    OBVIOUS
  <2>2. d \subseteq w /\ w \ d = wheel' /\ OnTimeout(d, re)
    BY <1>2, <2>1
  <2>3. Placed(freeTaskPool, slots, qu, ba, w, re, ad, Running)
    BY <2>1
  <2>4. /\ FiringTypes' /\ \A t \in Timers : FiringsOk(t)'
        /\ Placed(freeTaskPool', slots', qu, ba, w \ d, plkReAddTask', ad, Running')
    BY <2>2, <2>3, Timeouts
  <2> QED BY <2>2, <2>4
<1> QED BY <1>1, <1>2 DEF WheelAdd
-----------------------------------------------------------------------------
LEMMA NoTimerMarks == Sentinel \notin Idx /\ NoTimer \notin Idx /\ NoTimer \notin Timers
                      /\ Idx \intersect Timers = {}
BY PoolAssumption, TimersAssumption

LEMMA KeptInit == Init => KeptInv
<1> SUFFICES ASSUME Init PROVE KeptInv
  OBVIOUS
<1>1. /\ slots = [i \in Idx |-> NoTimer] /\ freeTaskPool = Idx /\ queTask = << >>
      /\ plkTaskBak = << >> /\ wheel = {} /\ plkReAddTask = {}
      /\ apc = [t \in Timers |-> "ready"] /\ left = [t \in Timers |-> NoTime] /\ repeat = Repeat
      /\ alive = [t \in Timers |-> TRUE] /\ got = [t \in Timers |-> 0]
  BY DEF Init
<1>2. Repeat \in [Timers -> Nat]
  BY TimesAssumption
<1>3. \A x : ~Has(<< >>, x)
  BY DEF Has
<1>4. KeptTypes
  <2>1. << >> \in Seq(Idx \union {Sentinel}) /\ << >> \in Seq(Timers) /\ OnceIn(<< >>)
    BY DEF OnceIn
  <2>2. repeat \in [Timers -> Int]
    BY <1>1, <1>2
  <2>3. got \in [Timers -> Nat] /\ alive \in [Timers -> BOOLEAN]
        /\ left \in [Timers -> Nat \union {NoTime}]
    BY <1>1
  <2> QED BY <1>1, <1>3, <2>1, <2>2, <2>3 DEF KeptTypes
<1>5. Running = {} /\ Adding = {} /\ On(queTask, Idx) = {} /\ On(plkTaskBak, Timers) = {}
  BY <1>1, <1>3 DEF Running, Adding, On
<1>6. \A t \in Timers : FiringsOk(t)
  <2>1. \A t \in Timers : repeat[t] = Repeat[t] /\ got[t] = 0 /\ Repeat[t] \in Nat
    BY <1>1, <1>2
  <2> QED BY <1>5, <2>1 DEF FiringsOk
<1>7. Placed(Idx, [i \in Idx |-> NoTimer], {}, {}, {}, {}, {}, {})
  BY NoTimerMarks DEF Placed, PlacedIdx, PlacedTimers
<1> QED BY <1>1, <1>4, <1>5, <1>6, <1>7 DEF KeptInv

(* Steps that move no task.                                                *)
LEMMA KeptQuiet ==
    ASSUME KeptInv, UNCHANGED <<slots, freeTaskPool, queTask, plkTaskBak, wheel, plkReAddTask>>,
           UNCHANGED <<left, repeat, alive, got>>,
           apc' \in [Timers -> {"ready", "add", "bakcount", "count", "look", "notify"}],
           \A t \in Timers : apc'[t] = "add" <=> apc[t] = "add",
           stop # "none" => stop' # "none"
    PROVE  KeptInv'
<1>1. Running' = Running /\ Adding' = Adding
  BY DEF Running, Adding
<1>2. On(queTask, Idx)' = On(queTask, Idx) /\ On(plkTaskBak, Timers)' = On(plkTaskBak, Timers)
  OBVIOUS
<1>3. KeptTypes'
  BY DEF KeptInv, KeptTypes
<1>4. \A t \in Timers : FiringsOk(t)'
  BY <1>1 DEF KeptInv, FiringsOk
<1> QED BY <1>1, <1>2, <1>3, <1>4 DEF KeptInv

LEMMA KeptRequest == ASSUME KeptInv, NEW t \in Timers, Request(t) PROVE KeptInv'
<1>1. /\ left' = [left EXCEPT ![t] = Delay[t]] /\ apc' = [apc EXCEPT ![t] = "add"]
      /\ t \notin Requested /\ alive[t] /\ apc[t] = "ready"
      /\ UNCHANGED <<slots, freeTaskPool, queTask, plkTaskBak, wheel, plkReAddTask>>
      /\ UNCHANGED <<repeat, alive, got, stop>>
  BY DEF Request, queueVars, threadVars, AdderAt
<1>2. KeptTypes /\ Delay[t] \in Nat /\ Delay[t] # NoTime
  BY TimesAssumption DEF KeptInv, NoTime
<1>3. KeptTypes'
  <2>1. apc' \in [Timers -> {"ready", "add", "bakcount", "count", "look", "notify"}]
        /\ left' \in [Timers -> Nat \union {NoTime}]
    BY <1>1, <1>2 DEF KeptTypes
  <2> QED BY <1>1, <1>2, <2>1 DEF KeptTypes
<1>4. t \notin Running /\ ~(repeat[t] < Repeat[t])
  BY <1>1 DEF Requested, Running
<1>5. Running' = Running \union {t} /\ Adding' = Adding \union {t}
  <2>1. \A u \in Timers : (left'[u] # NoTime <=> left[u] # NoTime \/ u = t)
                          /\ (apc'[u] = "add" <=> apc[u] = "add" \/ u = t)
    BY <1>1, <1>2 DEF KeptTypes
  <2> QED BY <2>1 DEF Running, Adding
<1>6. ASSUME NEW u \in Timers PROVE FiringsOk(u)'
  <2>1. FiringsOk(u)
    BY DEF KeptInv
  <2>2. CASE u = t
    <3>1. PICK r \in Int, g \in Nat, n \in Nat : r = repeat[t] /\ g = got[t] /\ n = Repeat[t]
      BY <1>2, TimesAssumption DEF KeptTypes
    <3>2. r = n /\ g = 0
      BY <3>1, <1>4, <2>1, <2>2 DEF FiringsOk
    <3>3. repeat'[t] = n /\ got'[t] = 0 /\ t \in Running'
      BY <3>1, <3>2, <1>1, <1>5
    <3> QED BY <3>1, <3>3, <2>2 DEF FiringsOk
  <2>3. CASE u # t
    <3>1. u \in Running' <=> u \in Running
      BY <1>5, <2>3
    <3> QED BY <2>1, <3>1, <1>1 DEF FiringsOk
  <2> QED BY <2>2, <2>3
<1>7. Placed(freeTaskPool, slots, On(queTask, Idx), On(plkTaskBak, Timers),
             wheel, plkReAddTask, Adding \union {t}, Running \union {t})
  BY <1>4, Asked DEF KeptInv
<1> QED BY <1>1, <1>3, <1>5, <1>6, <1>7 DEF KeptInv

(* While an index is free queTask has room.                                *)
LEMMA RoomForAll ==
    ASSUME KeptInv, NEW i \in freeTaskPool
    PROVE  ~QueueFull
<1>1. KeptTypes /\ i \in Idx /\ i # Sentinel /\ ~Has(queTask, i)
  <2>1. i \in Idx /\ i \notin On(queTask, Idx)
    BY DEF KeptInv, Placed, PlacedIdx
  <2> QED BY <2>1, NoTimerMarks DEF KeptInv, On
<1>2. PICK q, S : q = queTask /\ S = (Idx \ {i}) \union {Sentinel}
  OBVIOUS
<1>3. q \in Seq(S) /\ OnceIn(q)
  <2>1. q \in Seq(Idx \union {Sentinel}) /\ \A n \in 1 .. Len(q) : q[n] # i
    BY <1>1, <1>2 DEF KeptTypes, Has
  <2>2. \A n \in 1 .. Len(q) : q[n] \in S
    BY <2>1, <1>2
  <2>3. Len(q) \in Nat /\ q \in [1 .. Len(q) -> Idx \union {Sentinel}]
    BY <2>1
  <2>4. q \in [1 .. Len(q) -> S]
    BY <2>2, <2>3
  <2>5. q \in Seq(S)
    <3>1. PICK n \in Nat : n = Len(q)
      BY <2>3
    <3>2. q \in [1 .. n -> S]
      BY <2>4, <3>1
    <3> QED BY <3>2, SeqDef
  <2> QED BY <2>5, <1>1, <1>2 DEF KeptTypes
<1>4. IsFiniteSet(S) /\ Cardinality(S) = Cardinality(Idx)
  <2>1. IsFiniteSet(Idx) /\ Sentinel \notin Idx
    BY PoolAssumption
  <2>2. IsFiniteSet(Idx \ {i}) /\ Cardinality(Idx \ {i}) = Cardinality(Idx) - 1
    BY <1>1, <2>1, FS_RemoveElement
  <2>3. IsFiniteSet(S) /\ Cardinality(S) = Cardinality(Idx \ {i}) + 1
    BY <1>2, <2>1, <2>2, FS_AddElement
  <2> QED BY <2>1, <2>2, <2>3, FS_CardinalityType
<1>5. Len(q) <= Cardinality(S)
  BY <1>3, <1>4, LengthBound
<1>6. Len(q) \in Nat /\ Cardinality(Idx) \in Nat /\ QueCap \in Nat /\ Cardinality(Idx) < QueCap
  BY <1>3, PoolAssumption, FS_CardinalityType
<1> QED BY <1>2, <1>4, <1>5, <1>6 DEF QueueFull

LEMMA KeptAddInSlot == ASSUME KeptInv, NEW t \in Timers, AddInSlot(t) PROVE KeptInv'
<1>1. PICK i \in freeTaskPool :
         /\ freeTaskPool' = freeTaskPool \ {i} /\ slots' = [slots EXCEPT ![i] = t]
         /\ queTask' = IF QueueFull THEN queTask ELSE Append(queTask, i)
  BY DEF AddInSlot
<1>2. /\ apc[t] = "add" /\ apc' = [apc EXCEPT ![t] = "count"]
      /\ UNCHANGED <<plkTaskBak, wheel, plkReAddTask, left, repeat, alive, got, stop>>
  BY DEF AddInSlot, AdderAt, threadVars, timerVars
<1>3. queTask' = Append(queTask, i)
  BY <1>1, RoomForAll
<1>4. KeptTypes /\ i \in Idx /\ i # Sentinel /\ ~Has(queTask, i)
  <2>1. i \in Idx /\ i \notin On(queTask, Idx)
    BY DEF KeptInv, Placed, PlacedIdx
  <2> QED BY <2>1, NoTimerMarks DEF KeptInv, On
<1>5. /\ queTask' \in Seq(Idx \union {Sentinel}) /\ OnceIn(queTask')
      /\ \A d : Has(queTask', d) <=> Has(queTask, d) \/ d = i
  BY <1>3, <1>4, Pushed DEF KeptTypes
<1>6. KeptTypes'
  <2>1. apc' \in [Timers -> {"ready", "add", "bakcount", "count", "look", "notify"}]
    BY <1>2, <1>4 DEF KeptTypes
  <2> QED BY <1>2, <1>4, <1>5, <2>1 DEF KeptTypes
<1>7. On(queTask', Idx) = On(queTask, Idx) \union {i} /\ Running' = Running
      /\ t \in Adding /\ Adding' = Adding \ {t}
  <2>1. \A u \in Timers : apc'[u] = "add" <=> apc[u] = "add" /\ u # t
    BY <1>2, <1>4 DEF KeptTypes
  <2> QED BY <1>2, <1>4, <1>5, <2>1 DEF On, Running, Adding
<1>8. Placed(freeTaskPool \ {i}, [slots EXCEPT ![i] = t], On(queTask, Idx) \union {i},
             On(plkTaskBak, Timers), wheel, plkReAddTask, Adding \ {t}, Running)
  BY <1>7, ToQueue DEF KeptInv
<1>9. \A u \in Timers : FiringsOk(u)'
  BY <1>2, <1>7 DEF KeptInv, FiringsOk
<1> QED BY <1>1, <1>2, <1>6, <1>7, <1>8, <1>9 DEF KeptInv

LEMMA KeptAddOnHeap == ASSUME KeptInv, NEW t \in Timers, AddOnHeap(t) PROVE KeptInv'
<1>1. /\ apc[t] = "add" /\ apc' = [apc EXCEPT ![t] = "bakcount"]
      /\ plkTaskBak' = Append(plkTaskBak, t)
      /\ UNCHANGED <<slots, freeTaskPool, queTask, wheel, plkReAddTask>>
      /\ UNCHANGED <<left, repeat, alive, got, stop>>
  BY DEF AddOnHeap, AdderAt, threadVars, timerVars
<1>2. KeptTypes /\ ~Has(plkTaskBak, t) /\ t \in Adding
  <2>1. t \in Adding /\ t \notin On(plkTaskBak, Timers)
    BY <1>1 DEF KeptInv, Placed, PlacedTimers, Adding
  <2> QED BY <2>1 DEF KeptInv, On
<1>3. /\ plkTaskBak' \in Seq(Timers) /\ OnceIn(plkTaskBak')
      /\ \A d : Has(plkTaskBak', d) <=> Has(plkTaskBak, d) \/ d = t
  BY <1>1, <1>2, Pushed DEF KeptTypes
<1>4. KeptTypes'
  <2>1. apc' \in [Timers -> {"ready", "add", "bakcount", "count", "look", "notify"}]
    BY <1>1, <1>2 DEF KeptTypes
  <2> QED BY <1>1, <1>2, <1>3, <2>1 DEF KeptTypes
<1>5. On(plkTaskBak', Timers) = On(plkTaskBak, Timers) \union {t} /\ Running' = Running
      /\ Adding' = Adding \ {t}
  <2>1. \A u \in Timers : apc'[u] = "add" <=> apc[u] = "add" /\ u # t
    BY <1>1, <1>2 DEF KeptTypes
  <2> QED BY <1>1, <1>3, <2>1 DEF On, Running, Adding
<1>6. Placed(freeTaskPool, slots, On(queTask, Idx), On(plkTaskBak, Timers) \union {t},
             wheel, plkReAddTask, Adding \ {t}, Running)
  BY <1>2, ToBackup DEF KeptInv
<1>7. \A u \in Timers : FiringsOk(u)'
  BY <1>1, <1>5 DEF KeptInv, FiringsOk
<1> QED BY <1>1, <1>4, <1>5, <1>6, <1>7 DEF KeptInv

LEMMA KeptReAdd == ASSUME KeptInv, ReAdd PROVE KeptInv'
<1>1. PICK k \in plkReAddTask : WheelAdd(k, plkReAddTask \ {k})
  BY DEF ReAdd
<1>2. UNCHANGED <<queTask, plkTaskBak, apc, alive, stop>>
  BY DEF ReAdd
<1>3. PICK qu, ba, wh, re, ad :
         /\ qu = On(queTask, Idx) /\ ba = On(plkTaskBak, Timers) /\ wh = wheel
         /\ re = plkReAddTask \ {k} /\ ad = Adding
  OBVIOUS
<1>4. Placed(freeTaskPool, slots, qu, ba, wh \union {k}, re, ad, Running) /\ k \notin wh
  BY <1>3, ReAddToWheel DEF KeptInv
<1>5. FiringTypes /\ (\A t \in Timers : FiringsOk(t)) /\ WheelAdd(k, re) /\ alive' = alive
  BY <1>1, <1>2, <1>3 DEF KeptInv, KeptTypes, FiringTypes
<1>6. /\ FiringTypes' /\ \A t \in Timers : FiringsOk(t)'
      /\ Placed(freeTaskPool', slots', qu, ba, wheel', plkReAddTask', ad, Running')
  BY <1>3, <1>4, <1>5, AddedOnce
<1>7. On(queTask', Idx) = qu /\ On(plkTaskBak', Timers) = ba /\ Adding' = ad
  BY <1>2, <1>3 DEF Adding
<1>8. KeptTypes'
  BY <1>2, <1>6 DEF KeptInv, KeptTypes, FiringTypes
<1> QED BY <1>6, <1>7, <1>8 DEF KeptInv

LEMMA KeptPopTask == ASSUME KeptInv, PopTask PROVE KeptInv'
<1>1. PICK k : k = Head(queTask)
  OBVIOUS
<1>2. /\ queTask # << >> /\ k # Sentinel /\ queTask' = Tail(queTask)
      /\ WheelAdd(k, plkReAddTask) /\ UNCHANGED <<plkTaskBak, apc, alive, stop>>
  BY <1>1 DEF PopTask
<1>3. /\ queTask' \in Seq(Idx \union {Sentinel}) /\ OnceIn(queTask') /\ k \in Idx
      /\ Has(queTask, k)
      /\ \A c : Has(queTask', c) <=> Has(queTask, c) /\ c # k
  BY <1>1, <1>2, Popped DEF KeptInv, KeptTypes
<1>4. PICK qu, ba, wh, re, ad :
         /\ qu = On(queTask, Idx) /\ ba = On(plkTaskBak, Timers) /\ wh = wheel
         /\ re = plkReAddTask /\ ad = Adding
  OBVIOUS
<1>5. k \in qu
  BY <1>3, <1>4 DEF On
<1>6. Placed(freeTaskPool, slots, qu \ {k}, ba, wh \union {k}, re, ad, Running) /\ k \notin wh
  BY <1>4, <1>5, QueueToWheel DEF KeptInv
<1>7. FiringTypes /\ (\A t \in Timers : FiringsOk(t)) /\ WheelAdd(k, re) /\ alive' = alive
  BY <1>2, <1>4 DEF KeptInv, KeptTypes, FiringTypes
<1>8. PICK qm : qm = qu \ {k}
  OBVIOUS
<1>9. Placed(freeTaskPool, slots, qm, ba, wh \union {k}, re, ad, Running)
  BY <1>6, <1>8
<1>10. /\ FiringTypes' /\ \A t \in Timers : FiringsOk(t)'
       /\ Placed(freeTaskPool', slots', qm, ba, wheel', plkReAddTask', ad, Running')
  BY <1>4, <1>6, <1>7, <1>9, AddedOnce
<1>11. On(queTask', Idx) = qm /\ On(plkTaskBak', Timers) = ba /\ Adding' = ad
  BY <1>2, <1>3, <1>4, <1>8 DEF Adding, On
<1>12. KeptTypes'
  BY <1>2, <1>3, <1>10 DEF KeptInv, KeptTypes, FiringTypes
<1> QED BY <1>10, <1>11, <1>12 DEF KeptInv

LEMMA KeptPopBackup == ASSUME KeptInv, PopBackup PROVE KeptInv'
<1>1. PICK k : k = Head(plkTaskBak)
  OBVIOUS
<1>2. /\ plkTaskBak # << >> /\ plkTaskBak' = Tail(plkTaskBak)
      /\ WheelAdd(k, plkReAddTask) /\ UNCHANGED <<queTask, apc, alive, stop>>
  BY <1>1 DEF PopBackup
<1>3. /\ plkTaskBak' \in Seq(Timers) /\ OnceIn(plkTaskBak') /\ k \in Timers
      /\ Has(plkTaskBak, k)
      /\ \A c : Has(plkTaskBak', c) <=> Has(plkTaskBak, c) /\ c # k
  BY <1>1, <1>2, Popped DEF KeptInv, KeptTypes
<1>4. PICK qu, ba, wh, re, ad :
         /\ qu = On(queTask, Idx) /\ ba = On(plkTaskBak, Timers) /\ wh = wheel
         /\ re = plkReAddTask /\ ad = Adding
  OBVIOUS
<1>5. k \in ba
  BY <1>3, <1>4 DEF On
<1>6. Placed(freeTaskPool, slots, qu, ba \ {k}, wh \union {k}, re, ad, Running) /\ k \notin wh
  BY <1>4, <1>5, BackupToWheel DEF KeptInv
<1>7. FiringTypes /\ (\A t \in Timers : FiringsOk(t)) /\ WheelAdd(k, re) /\ alive' = alive
  BY <1>2, <1>4 DEF KeptInv, KeptTypes, FiringTypes
<1>8. PICK bm : bm = ba \ {k}
  OBVIOUS
<1>9. Placed(freeTaskPool, slots, qu, bm, wh \union {k}, re, ad, Running)
  BY <1>6, <1>8
<1>10. /\ FiringTypes' /\ \A t \in Timers : FiringsOk(t)'
       /\ Placed(freeTaskPool', slots', qu, bm, wheel', plkReAddTask', ad, Running')
  BY <1>4, <1>6, <1>7, <1>9, AddedOnce
<1>11. On(queTask', Idx) = qu /\ On(plkTaskBak', Timers) = bm /\ Adding' = ad
  BY <1>2, <1>3, <1>4, <1>8 DEF Adding, On
<1>12. KeptTypes'
  BY <1>2, <1>3, <1>10 DEF KeptInv, KeptTypes, FiringTypes
<1> QED BY <1>10, <1>11, <1>12 DEF KeptInv

LEMMA KeptPopSentinel == ASSUME KeptInv, PopSentinel PROVE KeptInv'
<1>1. /\ queTask # << >> /\ Head(queTask) = Sentinel /\ queTask' = Tail(queTask)
      /\ UNCHANGED <<slots, freeTaskPool, plkTaskBak, wheel, plkReAddTask, apc, stop>>
      /\ UNCHANGED <<left, repeat, alive, got>>
  BY DEF PopSentinel, timerVars
<1>2. /\ queTask' \in Seq(Idx \union {Sentinel}) /\ OnceIn(queTask')
      /\ \A c : Has(queTask', c) <=> Has(queTask, c) /\ c # Sentinel
  BY <1>1, Popped DEF KeptInv, KeptTypes
<1>3. On(queTask', Idx) = On(queTask, Idx) /\ Running' = Running /\ Adding' = Adding
  BY <1>1, <1>2, NoTimerMarks DEF On, Running, Adding
<1>4. KeptTypes'
  BY <1>1, <1>2 DEF KeptInv, KeptTypes
<1>5. \A t \in Timers : FiringsOk(t)'
  BY <1>1, <1>3 DEF KeptInv, FiringsOk
<1> QED BY <1>1, <1>3, <1>4, <1>5 DEF KeptInv

LEMMA KeptShutdownPush == ASSUME KeptInv, ShutdownPush PROVE KeptInv'
<1>1. /\ stop = "none" /\ stop' = "pushed" /\ queTask' = Append(queTask, Sentinel)
      /\ UNCHANGED <<slots, freeTaskPool, plkTaskBak, wheel, plkReAddTask, apc>>
      /\ UNCHANGED <<left, repeat, alive, got>>
  BY DEF ShutdownPush, threadVars, timerVars
<1>2. /\ queTask' \in Seq(Idx \union {Sentinel}) /\ OnceIn(queTask')
      /\ \A c : Has(queTask', c) <=> Has(queTask, c) \/ c = Sentinel
  <2>1. queTask \in Seq(Idx \union {Sentinel}) /\ OnceIn(queTask) /\ ~Has(queTask, Sentinel)
    BY <1>1 DEF KeptInv, KeptTypes
  <2> QED BY <1>1, <2>1, Pushed
<1>3. On(queTask', Idx) = On(queTask, Idx) /\ Running' = Running /\ Adding' = Adding
  BY <1>1, <1>2, NoTimerMarks DEF On, Running, Adding
<1>4. KeptTypes'
  BY <1>1, <1>2 DEF KeptInv, KeptTypes
<1>5. \A t \in Timers : FiringsOk(t)'
  BY <1>1, <1>3 DEF KeptInv, FiringsOk
<1> QED BY <1>1, <1>3, <1>4, <1>5 DEF KeptInv

LEMMA KeptAdvance == ASSUME KeptInv, Advance PROVE KeptInv'
<1>1. PICK due : due = {k \in wheel : Due(k)}
  OBVIOUS
<1>2. /\ wheel' = wheel \ due /\ OnTimeout(due, plkReAddTask)
      /\ UNCHANGED <<queTask, plkTaskBak, apc, alive, stop>>
  BY <1>1 DEF Advance
<1>3. PICK qu, ba, wh, re, ad :
         /\ qu = On(queTask, Idx) /\ ba = On(plkTaskBak, Timers) /\ wh = wheel
         /\ re = plkReAddTask /\ ad = Adding
  OBVIOUS
<1>4. /\ FiringTypes /\ \A t \in Timers : FiringsOk(t)
      /\ Placed(freeTaskPool, slots, qu, ba, wh, re, ad, Running)
      /\ due \subseteq wh /\ OnTimeout(due, re) /\ alive' = alive
  BY <1>1, <1>2, <1>3 DEF KeptInv, KeptTypes, FiringTypes
<1>5. /\ FiringTypes' /\ \A t \in Timers : FiringsOk(t)'
      /\ Placed(freeTaskPool', slots', qu, ba, wh \ due, plkReAddTask', ad, Running')
  BY <1>4, Timeouts
<1>6. On(queTask', Idx) = qu /\ On(plkTaskBak', Timers) = ba /\ Adding' = ad /\ wheel' = wh \ due
  BY <1>2, <1>3 DEF Adding
<1>7. KeptTypes'
  BY <1>2, <1>5 DEF KeptInv, KeptTypes, FiringTypes
<1> QED BY <1>5, <1>6, <1>7 DEF KeptInv

LEMMA KeptServiceGone == ASSUME KeptInv, NEW t \in Timers, ServiceGone(t) PROVE KeptInv'
<1>1. /\ t \in Requested /\ alive[t] /\ alive' = [alive EXCEPT ![t] = FALSE]
      /\ UNCHANGED <<slots, freeTaskPool, queTask, plkTaskBak, wheel, plkReAddTask, apc, stop>>
      /\ UNCHANGED <<left, repeat, got>>
  BY DEF ServiceGone, queueVars, threadVars
<1>2. Running' = Running /\ Adding' = Adding /\ On(queTask', Idx) = On(queTask, Idx)
      /\ On(plkTaskBak', Timers) = On(plkTaskBak, Timers)
  BY <1>1 DEF Running, Adding
<1>3. KeptTypes'
  BY <1>1 DEF KeptInv, KeptTypes
<1>4. ASSUME NEW u \in Timers PROVE FiringsOk(u)'
  <2>1. FiringsOk(u)
    BY DEF KeptInv
  <2>2. CASE u = t
    <3>1. alive[t] /\ ~alive'[t]
      BY <1>1 DEF KeptInv, KeptTypes
    <3> QED BY <1>1, <1>2, <2>1, <2>2, <3>1 DEF FiringsOk
  <2>3. CASE u # t
    <3>1. alive'[u] = alive[u]
      BY <1>1, <2>3 DEF KeptInv, KeptTypes
    <3> QED BY <1>1, <1>2, <2>1, <3>1 DEF FiringsOk
  <2> QED BY <2>2, <2>3
<1> QED BY <1>1, <1>2, <1>3, <1>4 DEF KeptInv

LEMMA KeptTick == ASSUME KeptInv, Tick PROVE KeptInv'
<1>1. /\ left' = [t \in Timers |-> IF left[t] > 0 THEN left[t] - 1 ELSE left[t]]
      /\ UNCHANGED <<slots, freeTaskPool, queTask, plkTaskBak, wheel, plkReAddTask, apc, stop>>
      /\ UNCHANGED <<repeat, alive, got>>
  BY DEF Tick, queueVars, threadVars
<1>2. \A t \in Timers : left'[t] \in Nat \union {NoTime} /\ (left'[t] # NoTime <=> left[t] # NoTime)
  <2> SUFFICES ASSUME NEW t \in Timers
               PROVE  left'[t] \in Nat \union {NoTime} /\ (left'[t] # NoTime <=> left[t] # NoTime)
    OBVIOUS
  <2>1. PICK n : n = left[t]
    OBVIOUS
  <2>2. n \in Nat \union {NoTime} /\ left'[t] = IF n > 0 THEN n - 1 ELSE n
    BY <1>1, <2>1 DEF KeptInv, KeptTypes
  <2> QED BY <2>1, <2>2 DEF NoTime
<1>3. Running' = Running /\ Adding' = Adding /\ On(queTask', Idx) = On(queTask, Idx)
      /\ On(plkTaskBak', Timers) = On(plkTaskBak, Timers)
  BY <1>1, <1>2 DEF Running, Adding
<1>4. KeptTypes'
  <2>1. left' \in [Timers -> Nat \union {NoTime}]
    BY <1>1, <1>2
  <2> QED BY <1>1, <2>1 DEF KeptInv, KeptTypes
<1>5. \A t \in Timers : FiringsOk(t)'
  BY <1>1, <1>3 DEF KeptInv, FiringsOk
<1> QED BY <1>1, <1>3, <1>4, <1>5 DEF KeptInv

(* The steps of an adder that move no task, and those of the thread.       *)
LEMMA KeptCounting ==
    ASSUME KeptInv, NEW t \in Timers,
           CountBackup(t) \/ CountAdded(t) \/ LookIdle(t) \/ NotifyIdle(t)
    PROVE  KeptInv'
<1>1. \E a \in {"ready", "count", "look", "notify"} :
         apc' = [apc EXCEPT ![t] = a] /\ apc[t] # "add"
  BY DEF CountBackup, CountAdded, LookIdle, NotifyIdle, AdderAt
<1>2. apc \in [Timers -> {"ready", "add", "bakcount", "count", "look", "notify"}]
  BY DEF KeptInv, KeptTypes
<1>3. /\ apc' \in [Timers -> {"ready", "add", "bakcount", "count", "look", "notify"}]
      /\ \A u \in Timers : apc'[u] = "add" <=> apc[u] = "add"
  BY <1>1, <1>2
<1>4. /\ UNCHANGED <<slots, freeTaskPool, queTask, plkTaskBak, wheel, plkReAddTask>>
      /\ UNCHANGED <<left, repeat, alive, got>>
      /\ UNCHANGED stop
  BY DEF CountBackup, CountAdded, LookIdle, NotifyIdle, queueVars, threadVars, timerVars
<1> QED BY <1>3, <1>4, KeptQuiet

LEMMA KeptThread ==
    ASSUME KeptInv, \/ StartRound \/ PopNothing \/ LookBackup \/ NoBackup \/ TestIdle
                    \/ StartWait \/ WaitOver \/ Woken
    PROVE  KeptInv'
<1>1. /\ UNCHANGED <<slots, freeTaskPool, queTask, plkTaskBak, wheel, plkReAddTask>>
      /\ UNCHANGED <<left, repeat, alive, got>>
      /\ UNCHANGED <<apc, stop>>
  BY DEF StartRound, PopNothing, LookBackup, NoBackup, TestIdle, StartWait, WaitOver, Woken,
         queueVars, timerVars
<1>2. apc \in [Timers -> {"ready", "add", "bakcount", "count", "look", "notify"}]
  BY DEF KeptInv, KeptTypes
<1> QED BY <1>1, <1>2, KeptQuiet

LEMMA KeptNext == KeptInv /\ [Next]_vars => KeptInv'
<1> SUFFICES ASSUME KeptInv, [Next]_vars PROVE KeptInv'
  OBVIOUS
<1>1. CASE \E t \in Timers : Request(t) \/ AdderStep(t)
  BY <1>1, KeptRequest, KeptAddInSlot, KeptAddOnHeap, KeptCounting DEF AdderStep
<1>2. CASE ThreadStep
  BY <1>2, KeptReAdd, KeptPopTask, KeptPopSentinel, KeptPopBackup, KeptAdvance, KeptThread
     DEF ThreadStep
<1>3. CASE ShutdownPush
  BY <1>3, KeptShutdownPush
<1>4. CASE ShutdownNotify
  <2>1. /\ UNCHANGED <<slots, freeTaskPool, queTask, plkTaskBak, wheel, plkReAddTask>>
        /\ UNCHANGED <<left, repeat, alive, got>>
        /\ UNCHANGED apc /\ stop' = "done"
    BY <1>4 DEF ShutdownNotify, queueVars, timerVars
  <2>2. apc \in [Timers -> {"ready", "add", "bakcount", "count", "look", "notify"}]
    BY DEF KeptInv, KeptTypes
  <2> QED BY <2>1, <2>2, KeptQuiet
<1>5. CASE \E t \in Timers : ServiceGone(t)
  BY <1>5, KeptServiceGone
<1>6. CASE Tick
  BY <1>6, KeptTick
<1>7. CASE UNCHANGED vars
  <2>1. /\ UNCHANGED <<slots, freeTaskPool, queTask, plkTaskBak, wheel, plkReAddTask>>
        /\ UNCHANGED <<left, repeat, alive, got>>
        /\ UNCHANGED <<apc, stop>>
    BY <1>7 DEF vars, queueVars, threadVars, timerVars
  <2>2. apc \in [Timers -> {"ready", "add", "bakcount", "count", "look", "notify"}]
    BY DEF KeptInv, KeptTypes
  <2> QED BY <2>1, <2>2, KeptQuiet
<1> QED BY <1>1, <1>2, <1>3, <1>4, <1>5, <1>6, <1>7 DEF Next

(* A timer that runs has one place, and one that does not has none.        *)
LEMMA OnePlace == ASSUME KeptInv, NEW t \in Timers
                  PROVE  Cardinality(Places(t)) = IF left[t] = NoTime THEN 0 ELSE 1
<1>1. PICK f, sl, q, b, qu, ba, wh, re, ad, run :
         /\ f = freeTaskPool /\ sl = slots /\ q = queTask /\ b = plkTaskBak
         /\ qu = On(q, Idx) /\ ba = On(b, Timers) /\ wh = wheel /\ re = plkReAddTask
         /\ ad = Adding /\ run = Running
  OBVIOUS
<1>2. /\ Placed(f, sl, qu, ba, wh, re, ad, run)
      /\ q \in Seq(Idx \union {Sentinel}) /\ b \in Seq(Timers) /\ OnceIn(q) /\ OnceIn(b)
  BY <1>1 DEF KeptInv, KeptTypes
<1>3. PICK A, QS, BS, WS, RS :
         /\ A = IF apc[t] = "add" THEN {<<"adder", t>>} ELSE {}
         /\ QS = {m \in DOMAIN q : q[m] \in Idx /\ sl[q[m]] = t}
         /\ BS = {m \in DOMAIN b : b[m] = t}
         /\ WS = {m \in wh : TimerOf(m) = t} /\ RS = {m \in re : TimerOf(m) = t}
  OBVIOUS
<1>4. Places(t) = A \union {<<"queue", n>> : n \in QS} \union {<<"backup", n>> : n \in BS}
                    \union {<<"wheel", k>> : k \in WS} \union {<<"readd", k>> : k \in RS}
  BY <1>1, <1>3 DEF Places
<1>16. PICK PQ, PB, PW, PR :
          /\ PQ = {<<"queue", n>> : n \in QS} /\ PB = {<<"backup", n>> : n \in BS}
          /\ PW = {<<"wheel", k>> : k \in WS} /\ PR = {<<"readd", k>> : k \in RS}
  OBVIOUS
<1>17. /\ QS = {} => PQ = {}
       /\ BS = {} => PB = {}
       /\ WS = {} => PW = {}
       /\ RS = {} => PR = {}
  BY <1>16
<1>18. /\ \A n : QS = {n} => PQ = {<<"queue", n>>}
       /\ \A n : BS = {n} => PB = {<<"backup", n>>}
       /\ \A n : WS = {n} => PW = {<<"wheel", n>>}
       /\ \A n : RS = {n} => PR = {<<"readd", n>>}
  BY <1>16
<1>19. Places(t) = A \union PQ \union PB \union PW \union PR
  BY <1>4, <1>16
<1>21. /\ A = {} /\ (\E n : QS = {n}) /\ BS = {} /\ WS = {} /\ RS = {} => \E x : Places(t) = {x}
       /\ A = {} /\ QS = {} /\ (\E n : BS = {n}) /\ WS = {} /\ RS = {} => \E x : Places(t) = {x}
  <2>1. ASSUME NEW n, A = {}, QS = {n}, BS = {}, WS = {}, RS = {} PROVE \E x : Places(t) = {x}
    <3>1. PICK p : p = <<"queue", n>>
      OBVIOUS
    <3>2. PQ = {p} /\ PB = {} /\ PW = {} /\ PR = {}
      BY <1>17, <1>18, <2>1, <3>1
    <3>3. Places(t) = {p}
      BY <1>19, <2>1, <3>2
    <3> QED BY <3>3
  <2>2. ASSUME NEW n, A = {}, QS = {}, BS = {n}, WS = {}, RS = {} PROVE \E x : Places(t) = {x}
    <3>1. PICK p : p = <<"backup", n>>
      OBVIOUS
    <3>2. PQ = {} /\ PB = {p} /\ PW = {} /\ PR = {}
      BY <1>17, <1>18, <2>2, <3>1
    <3>3. Places(t) = {p}
      BY <1>19, <2>2, <3>2
    <3> QED BY <3>3
  <2> QED BY <2>1, <2>2
<1>22. ASSUME NEW k, A = {}, QS = {}, BS = {}, WS = {k}, RS = {} PROVE \E x : Places(t) = {x}
  <2>1. PICK p : p = <<"wheel", k>>
    OBVIOUS
  <2>2. PQ = {} /\ PB = {} /\ PW = {p} /\ PR = {}
    BY <1>17, <1>18, <1>22, <2>1
  <2>3. Places(t) = {p}
    BY <1>19, <1>22, <2>2
  <2> QED BY <2>3
<1>23. ASSUME NEW k, A = {}, QS = {}, BS = {}, WS = {}, RS = {k} PROVE \E x : Places(t) = {x}
  <2>1. PICK p : p = <<"readd", k>>
    OBVIOUS
  <2>2. PQ = {} /\ PB = {} /\ PW = {} /\ PR = {p}
    BY <1>17, <1>18, <1>23, <2>1
  <2>3. Places(t) = {p}
    BY <1>19, <1>23, <2>2
  <2> QED BY <2>3
<1>5. /\ t \in ad <=> apc[t] = "add"
      /\ t \in run <=> left[t] # NoTime
      /\ \A m : TimerOf(m) = IF m \in Idx THEN sl[m] ELSE m
  BY <1>1 DEF Adding, Running, TimerOf
<1>6. /\ WS = {m \in wh : (m \in Idx /\ sl[m] = t) \/ m = t}
      /\ RS = {m \in re : (m \in Idx /\ sl[m] = t) \/ m = t}
  <2>1. t \notin Idx
    BY NoTimerMarks
  <2> QED BY <1>3, <1>5, <2>1
<1>7. t \notin ad => A = {}
  BY <1>3, <1>5
<1>8. t \in ba => \E n : BS = {n}
  <2> SUFFICES ASSUME t \in ba PROVE \E n : BS = {n}
    OBVIOUS
  <2>1. PICK n \in 1 .. Len(b) : b[n] = t
    BY <1>1 DEF On, Has
  <2>2. DOMAIN b = 1 .. Len(b)
    BY <1>2
  <2>3. BS = {n}
    BY <1>2, <1>3, <2>1, <2>2 DEF OnceIn
  <2> QED BY <2>3
<1>9. t \notin ba => BS = {}
  <2>1. DOMAIN b = 1 .. Len(b)
    BY <1>2
  <2> QED BY <1>1, <1>3, <2>1 DEF On, Has
<1>10. ASSUME NEW i \in qu, sl[i] = t PROVE \E n : QS = {n}
  <2>1. PICK n \in 1 .. Len(q) : q[n] = i
    BY <1>1 DEF On, Has
  <2>2. DOMAIN q = 1 .. Len(q) /\ i \in Idx
    BY <1>1, <1>2 DEF On
  <2>3. t # NoTimer
    BY NoTimerMarks
  <2>4. \A m \in DOMAIN q : q[m] \in Idx /\ sl[q[m]] = t => m = n
    BY <1>2, <1>10, <2>1, <2>2, <2>3 DEF OnceIn, Placed, PlacedIdx
  <2>5. QS = {n}
    BY <1>3, <1>10, <2>1, <2>2, <2>4
  <2> QED BY <2>5
<1>11. (\A i \in qu : sl[i] # t) => QS = {}
  <2>1. DOMAIN q = 1 .. Len(q)
    BY <1>2
  <2> QED BY <1>1, <1>3, <2>1 DEF On, Has
<1>12. t # NoTimer /\ t \notin Idx
  BY NoTimerMarks
<1>13. \A i \in qu : i \in Idx
  BY <1>1 DEF On
<1>14. CASE t \notin run
  <2>1. /\ t \notin ad /\ t \notin ba /\ t \notin wh /\ t \notin re /\ \A i \in Idx : sl[i] # t
    BY <1>2, <1>14 DEF Placed, PlacedTimers
  <2>2. A = {} /\ BS = {} /\ QS = {} /\ WS = {} /\ RS = {}
    BY <1>6, <1>7, <1>9, <1>11, <1>13, <2>1
  <2>3. Places(t) = {}
    BY <1>4, <2>2
  <2> QED BY <1>5, <1>14, <2>3, FS_EmptySet
<1>15. CASE t \in run
  <2>1. \E p : Places(t) = {p}
    <3>1. CASE t \in ad
      <4>1. /\ t \notin ba /\ t \notin wh /\ t \notin re /\ \A i \in Idx : sl[i] # t
        BY <1>2, <3>1 DEF Placed, PlacedTimers
      <4>2. A = {<<"adder", t>>} /\ BS = {} /\ QS = {} /\ WS = {} /\ RS = {}
        BY <1>3, <1>5, <1>6, <1>9, <1>11, <1>13, <3>1, <4>1
      <4> QED BY <1>17, <1>19, <4>2
    <3>2. CASE t \in ba
      <4>1. /\ t \notin ad /\ t \notin wh /\ t \notin re /\ \A i \in Idx : sl[i] # t
        BY <1>2, <3>2 DEF Placed, PlacedTimers
      <4>2. A = {} /\ (\E n : BS = {n}) /\ QS = {} /\ WS = {} /\ RS = {}
        BY <1>6, <1>7, <1>8, <1>11, <1>13, <3>2, <4>1
      <4> QED BY <1>21, <4>2, Zenon
    <3>3. CASE t \in wh
      <4>1. /\ t \notin ad /\ t \notin ba /\ t \notin re /\ \A i \in Idx : sl[i] # t
        BY <1>2, <3>3 DEF Placed, PlacedTimers, PlacedIdx
      <4>2. A = {} /\ BS = {} /\ QS = {} /\ WS = {t} /\ RS = {}
        BY <1>6, <1>7, <1>9, <1>11, <1>13, <3>3, <4>1
      <4> QED BY <1>22, <4>2, Zenon
    <3>4. CASE t \in re
      <4>1. /\ t \notin ad /\ t \notin ba /\ t \notin wh /\ \A i \in Idx : sl[i] # t
        BY <1>2, <3>4 DEF Placed, PlacedTimers, PlacedIdx
      <4>2. A = {} /\ BS = {} /\ QS = {} /\ WS = {} /\ RS = {t}
        BY <1>6, <1>7, <1>9, <1>11, <1>13, <3>4, <4>1
      <4> QED BY <1>23, <4>2, Zenon
    <3>5. CASE \E i \in Idx : sl[i] = t
      <4>1. PICK i \in Idx : sl[i] = t
        BY <3>5
      <4>2. t \notin ad /\ t \notin ba /\ t \notin wh /\ t \notin re
        BY <1>2, <4>1 DEF Placed, PlacedTimers
      <4>3. (\A j \in Idx : sl[j] = t => j = i) /\ i \notin f
        BY <1>2, <1>12, <4>1 DEF Placed, PlacedIdx
      <4>4. A = {} /\ BS = {}
        BY <1>7, <1>9, <4>2
      <4>5. CASE i \in qu
        <5>1. i \notin wh /\ i \notin re
          BY <1>2, <4>5 DEF Placed, PlacedIdx
        <5>2. WS = {} /\ RS = {} /\ \E n : QS = {n}
          BY <1>6, <1>10, <4>1, <4>2, <4>3, <4>5, <5>1
        <5> QED BY <1>21, <4>4, <5>2, Zenon
      <4>6. CASE i \in wh
        <5>1. i \notin qu /\ i \notin re
          BY <1>2, <4>6 DEF Placed, PlacedIdx
        <5>2. WS = {i} /\ RS = {} /\ QS = {}
          BY <1>6, <1>11, <1>13, <4>1, <4>2, <4>3, <4>6, <5>1
        <5> QED BY <1>22, <4>4, <5>2, Zenon
      <4>7. CASE i \in re
        <5>1. i \notin qu /\ i \notin wh
          BY <1>2, <4>7 DEF Placed, PlacedIdx
        <5>2. WS = {} /\ RS = {i} /\ QS = {}
          BY <1>6, <1>11, <1>13, <4>1, <4>2, <4>3, <4>7, <5>1
        <5> QED BY <1>23, <4>4, <5>2, Zenon
      <4> QED BY <1>2, <4>3, <4>5, <4>6, <4>7 DEF Placed, PlacedIdx
    <3> QED BY <1>2, <1>15, <3>1, <3>2, <3>3, <3>4, <3>5 DEF Placed, PlacedTimers
  <2> QED BY <1>5, <1>15, <2>1, FS_Singleton
<1> QED BY <1>14, <1>15

LEMMA KeptIsEnough == KeptInv => TimersKept
<1> SUFFICES ASSUME KeptInv PROVE TimersKept
  OBVIOUS
<1>1. TimerInOnePlace
  <2>1. ASSUME NEW i \in freeTaskPool
        PROVE  i \notin Pending /\ \A n \in DOMAIN queTask : queTask[n] # i
    <3>1. i \in Idx /\ i \notin On(queTask, Idx) /\ i \notin wheel /\ i \notin plkReAddTask
      BY DEF KeptInv, Placed, PlacedIdx
    <3>2. DOMAIN queTask = 1 .. Len(queTask)
      BY DEF KeptInv, KeptTypes
    <3> QED BY <3>1, <3>2 DEF On, Has, Pending
  <2> QED BY <2>1, OnePlace DEF TimerInOnePlace
<1>2. FiresItsNumber
  <2> SUFFICES ASSUME NEW t \in Requested
               PROVE  IF left[t] = NoTime
                      THEN got[t] = Repeat[t] + 1 \/ (~alive[t] /\ got[t] <= Repeat[t])
                      ELSE got[t] <= Repeat[t]
    BY DEF FiresItsNumber
  <2>1. /\ t \in Timers /\ FiringsOk(t) /\ (left[t] # NoTime \/ repeat[t] < Repeat[t])
    BY DEF Requested, KeptInv
  <2>2. PICK r \in Int, g \in Nat, n \in Nat : r = repeat[t] /\ g = got[t] /\ n = Repeat[t]
    BY <2>1, TimesAssumption DEF KeptInv, KeptTypes
  <2>3. CASE left[t] = NoTime
    BY <2>1, <2>3 DEF FiringsOk, Running
  <2>4. CASE left[t] # NoTime
    <3>1. r >= 0 /\ g + r <= n
      BY <2>1, <2>2, <2>4 DEF FiringsOk, Running
    <3>2. g <= n
      BY <3>1
    <3> QED BY <3>2, <2>2, <2>4
  <2> QED BY <2>3, <2>4
<1> QED BY <1>1, <1>2 DEF TimersKept

(* Every timer that runs is in one place, and each fires as often as it    *)
(* was asked to (timer_add_task, thread_work, on_timeout): for any timers, *)
(* any pool and any bound on a round.                                      *)
THEOREM KeepsTimers == Spec => []TimersKept
<1>1. Spec => []KeptInv
  BY KeptInit, KeptNext, PTL DEF Spec
<1> QED BY <1>1, KeptIsEnough, PTL
-----------------------------------------------------------------------------
Counting == {"bakcount", "count"}
ToNotify == {"bakcount", "count", "look", "notify"}
Uncounted == {t \in Timers : apc[t] \in Counting}
Notifying == \E t \in Timers : apc[t] \in ToNotify
Resting == {"test", "wait", "waiting"}

SoundTypes ==
    /\ pc \in {"top", "pop", "baknum", "bak", "advance", "test", "wait",
               "waiting", "woken", "stopped"}
    /\ addCnt \in Nat /\ unAddTask \in Int /\ waitLeft \in Nat /\ missed \in BOOLEAN
    /\ idle \in BOOLEAN /\ asleep \in BOOLEAN /\ stop \in {"none", "pushed", "done"}
    /\ idle <=> pc \in Resting \union {"woken"}
    /\ asleep <=> pc = "waiting"
    /\ unAddTask = Cardinality(On(queTask, Idx)) + Len(plkTaskBak) + addCnt
                   - Cardinality(Uncounted)

NotifyComes ==
    pc \in {"wait", "waiting"} /\ (On(queTask, Idx) # {} \/ plkTaskBak # << >>)
        => missed \/ Notifying

(* A round that began before the sentinel came has found a task, or the    *)
(* notify that follows the sentinel is missed.                             *)
StopComes ==
    Has(queTask, Sentinel) /\ stop = "done" =>
        /\ pc \in {"baknum", "bak", "advance"} => missed \/ addCnt >= 1
        /\ pc \in Resting => missed

InTime ==
    pc \in Resting => plkReAddTask = {} /\ \A k \in wheel : waitLeft <= left[TimerOf(k)]

SoundInv == SoundTypes /\ NotifyComes /\ StopComes /\ InTime

LEMMA Finite ==
    ASSUME KeptInv
    PROVE  /\ IsFiniteSet(On(queTask, Idx)) /\ IsFiniteSet(Uncounted)
           /\ Cardinality(On(queTask, Idx)) \in Nat /\ Cardinality(Uncounted) \in Nat
           /\ Len(plkTaskBak) \in Nat /\ (Len(plkTaskBak) = 0 <=> plkTaskBak = << >>)
<1>1. On(queTask, Idx) \in SUBSET Idx /\ Uncounted \in SUBSET Timers
  BY DEF On, Uncounted
<1>2. IsFiniteSet(Idx) /\ IsFiniteSet(Timers)
  BY PoolAssumption, TimersAssumption
<1>3. IsFiniteSet(On(queTask, Idx)) /\ IsFiniteSet(Uncounted)
  BY <1>1, <1>2, FS_Subset
<1>4. plkTaskBak \in Seq(Timers)
  BY DEF KeptInv, KeptTypes
<1> QED BY <1>3, <1>4, FS_CardinalityType

(* The timers of the wheel run, and keep their slots when one is taken.    *)
LEMMA WheelTimers ==
    ASSUME KeptInv
    PROVE  \A k \in wheel : TimerOf(k) \in Running /\ TimerOf(k) \in Timers /\ k \notin freeTaskPool
<1>1. PICK sl, wh : sl = slots /\ wh = wheel
  OBVIOUS
<1>2. \A k : TimerOf(k) = HeldBy(sl, k)
  BY <1>1 DEF TimerOf, HeldBy
<1>3. \A k \in wh : HeldBy(sl, k) \in Running /\ HeldBy(sl, k) \in Timers
  BY <1>1, TimersOfTasks DEF KeptInv
<1>4. \A k \in wh : k \notin freeTaskPool
  BY <1>1 DEF KeptInv, Placed, PlacedIdx
<1> QED BY <1>1, <1>2, <1>3, <1>4

LEMMA SoundInit == Init => SoundInv
<1> SUFFICES ASSUME Init PROVE SoundInv
  OBVIOUS
<1>1. KeptInv
  BY KeptInit
<1>2. /\ queTask = << >> /\ plkTaskBak = << >> /\ pc = "top" /\ addCnt = 0 /\ unAddTask = 0
      /\ waitLeft = 0 /\ missed = FALSE /\ idle = FALSE /\ asleep = FALSE /\ stop = "none"
      /\ apc = [t \in Timers |-> "ready"]
  BY DEF Init
<1>3. On(queTask, Idx) = {} /\ Uncounted = {} /\ Len(plkTaskBak) = 0
  BY <1>2 DEF On, Has, Uncounted, Counting
<1>4. Cardinality(On(queTask, Idx)) = 0 /\ Cardinality(Uncounted) = 0
  BY <1>3, FS_EmptySet
<1>5. SoundTypes
  <2>1. unAddTask = Cardinality(On(queTask, Idx)) + Len(plkTaskBak) + addCnt
                    - Cardinality(Uncounted)
    BY <1>2, <1>3, <1>4
  <2>2. /\ pc \in {"top", "pop", "baknum", "bak", "advance", "test", "wait",
                   "waiting", "woken", "stopped"}
        /\ idle <=> pc \in Resting \union {"woken"}
        /\ asleep <=> pc = "waiting"
    BY <1>2 DEF Resting
  <2>3. addCnt \in Nat /\ unAddTask \in Int /\ waitLeft \in Nat
        /\ stop \in {"none", "pushed", "done"}
    BY <1>2
  <2>4. missed \in BOOLEAN /\ idle \in BOOLEAN /\ asleep \in BOOLEAN
    BY <1>2, Zenon
  <2> QED BY <2>1, <2>2, <2>3, <2>4 DEF SoundTypes
<1> QED BY <1>2, <1>5 DEF SoundInv, NotifyComes, StopComes, InTime, Resting

(* The steps that leave the queues and their counts alone.                 *)
LEMMA SumSame ==
    ASSUME SoundTypes, UNCHANGED <<queTask, plkTaskBak, addCnt, unAddTask>>, Uncounted' = Uncounted
    PROVE  /\ addCnt' \in Nat /\ unAddTask' \in Int
           /\ unAddTask' = Cardinality(On(queTask', Idx)) + Len(plkTaskBak') + addCnt'
                           - Cardinality(Uncounted')
BY DEF SoundTypes

LEMMA TimeSame ==
    ASSUME KeptInv, InTime, UNCHANGED <<wheel, plkReAddTask, waitLeft>>,
           pc' \in Resting => pc \in Resting,
           \A k \in wheel : k \in Idx => slots'[k] = slots[k],
           \A t \in Running : left'[t] = left[t]
    PROVE  InTime'
<1>1. ASSUME pc' \in Resting
      PROVE  plkReAddTask' = {} /\ \A k \in wheel' : waitLeft' <= left'[TimerOf(k)']
  <2>1. pc \in Resting
    BY <1>1
  <2>2. plkReAddTask = {} /\ \A k \in wheel : waitLeft <= left[TimerOf(k)]
    BY <2>1 DEF InTime
  <2>3. ASSUME NEW k \in wheel PROVE left'[TimerOf(k)'] = left[TimerOf(k)]
    <3>1. TimerOf(k)' = TimerOf(k)
      BY DEF TimerOf
    <3> QED BY <3>1, WheelTimers
  <2> QED BY <2>2, <2>3
<1> QED BY <1>1 DEF InTime

LEMMA SoundRequest == ASSUME KeptInv, SoundInv, NEW t \in Timers, Request(t) PROVE SoundInv'
<1>1. /\ left' = [left EXCEPT ![t] = Delay[t]] /\ apc' = [apc EXCEPT ![t] = "add"]
      /\ t \notin Requested /\ apc[t] = "ready"
      /\ UNCHANGED <<slots, queTask, plkTaskBak, wheel, plkReAddTask, addCnt, unAddTask>>
      /\ UNCHANGED <<pc, idle, asleep, waitLeft, missed, stop>>
  BY DEF Request, queueVars, sleepVars, threadVars, AdderAt
<1>2. KeptTypes /\ t \notin Running
  BY <1>1 DEF KeptInv, Requested, Running
<1>3. \A u \in Timers : u # t => apc'[u] = apc[u] /\ left'[u] = left[u]
  BY <1>1, <1>2 DEF KeptTypes
<1>4. apc'[t] = "add"
  BY <1>1, <1>2 DEF KeptTypes
<1>5. Uncounted' = Uncounted /\ (Notifying' <=> Notifying)
  BY <1>1, <1>3, <1>4 DEF Uncounted, Counting, Notifying, ToNotify
<1>6. SoundTypes'
  BY <1>1, <1>5, SumSame DEF SoundInv, SoundTypes
<1>7. \A u \in Running : left'[u] = left[u]
  BY <1>2, <1>3 DEF Running
<1>8. InTime'
  BY <1>1, <1>7, TimeSame DEF SoundInv
<1>9. NotifyComes' /\ StopComes'
  BY <1>1, <1>5 DEF SoundInv, NotifyComes, StopComes
<1> QED BY <1>6, <1>8, <1>9 DEF SoundInv

LEMMA SoundAddInSlot == ASSUME KeptInv, SoundInv, NEW t \in Timers, AddInSlot(t) PROVE SoundInv'
<1>1. PICK i \in freeTaskPool :
         /\ freeTaskPool' = freeTaskPool \ {i} /\ slots' = [slots EXCEPT ![i] = t]
         /\ queTask' = IF QueueFull THEN queTask ELSE Append(queTask, i)
  BY DEF AddInSlot
<1>2. /\ apc[t] = "add" /\ apc' = [apc EXCEPT ![t] = "count"] /\ UNCHANGED left
      /\ UNCHANGED <<plkTaskBak, wheel, plkReAddTask, addCnt, unAddTask>>
      /\ UNCHANGED <<pc, idle, asleep, waitLeft, missed, stop>>
  BY DEF AddInSlot, AdderAt, sleepVars, threadVars, timerVars
<1>3. queTask' = Append(queTask, i)
  BY <1>1, RoomForAll
<1>4. KeptTypes /\ i \in Idx /\ i # Sentinel /\ ~Has(queTask, i)
      /\ slots \in [Idx -> Timers \union {NoTimer}]
  <2>1. i \in Idx /\ i \notin On(queTask, Idx) /\ slots \in [Idx -> Timers \union {NoTimer}]
    BY DEF KeptInv, Placed, PlacedIdx
  <2> QED BY <2>1, NoTimerMarks DEF KeptInv, On
<1>5. /\ queTask' \in Seq(Idx \union {Sentinel}) /\ OnceIn(queTask')
      /\ \A d : Has(queTask', d) <=> Has(queTask, d) \/ d = i
  BY <1>3, <1>4, Pushed DEF KeptTypes
<1>6. /\ On(queTask', Idx) = On(queTask, Idx) \union {i} /\ i \notin On(queTask, Idx)
      /\ Has(queTask', Sentinel) <=> Has(queTask, Sentinel)
  BY <1>4, <1>5 DEF On
<1>7. /\ Uncounted' = Uncounted \union {t} /\ t \notin Uncounted /\ Notifying'
  <2>1. apc'[t] = "count" /\ \A u \in Timers : u # t => apc'[u] = apc[u]
    BY <1>2, <1>4 DEF KeptTypes
  <2> QED BY <1>2, <2>1 DEF Uncounted, Counting, Notifying, ToNotify
<1>8. SoundTypes'
  <2>1. /\ Cardinality(On(queTask', Idx)) = Cardinality(On(queTask, Idx)) + 1
        /\ Cardinality(Uncounted') = Cardinality(Uncounted) + 1
    BY <1>6, <1>7, Finite, FS_AddElement
  <2>2. PICK n, u \in Nat : n = Cardinality(On(queTask, Idx)) /\ u = Cardinality(Uncounted)
    BY Finite
  <2>3. unAddTask = n + Len(plkTaskBak) + addCnt - u /\ addCnt \in Nat /\ Len(plkTaskBak) \in Nat
    BY <2>2, Finite DEF SoundInv, SoundTypes
  <2>4. unAddTask = (n + 1) + Len(plkTaskBak) + addCnt - (u + 1)
    BY <2>2, <2>3
  <2>5. unAddTask' = Cardinality(On(queTask', Idx)) + Len(plkTaskBak') + addCnt'
                     - Cardinality(Uncounted')
    BY <2>1, <2>2, <2>4, <1>2
  <2> QED BY <1>2, <2>5 DEF SoundInv, SoundTypes
<1>9. InTime'
  <2>1. \A k \in wheel : k \in Idx => slots'[k] = slots[k]
    BY <1>1, <1>4, WheelTimers
  <2> QED BY <1>2, <2>1, TimeSame DEF SoundInv
<1>10. NotifyComes' /\ StopComes'
  BY <1>2, <1>6, <1>7 DEF SoundInv, NotifyComes, StopComes
<1> QED BY <1>8, <1>9, <1>10 DEF SoundInv

LEMMA SoundAddOnHeap == ASSUME KeptInv, SoundInv, NEW t \in Timers, AddOnHeap(t) PROVE SoundInv'
<1>1. /\ apc[t] = "add" /\ apc' = [apc EXCEPT ![t] = "bakcount"]
      /\ plkTaskBak' = Append(plkTaskBak, t)
      /\ UNCHANGED <<slots, left, queTask, wheel, plkReAddTask, addCnt, unAddTask>>
      /\ UNCHANGED <<pc, idle, asleep, waitLeft, missed, stop>>
  BY DEF AddOnHeap, AdderAt, sleepVars, threadVars, timerVars
<1>2. KeptTypes /\ Len(plkTaskBak') = Len(plkTaskBak) + 1
  BY <1>1 DEF KeptInv, KeptTypes
<1>3. /\ Uncounted' = Uncounted \union {t} /\ t \notin Uncounted /\ Notifying'
  <2>1. apc'[t] = "bakcount" /\ \A u \in Timers : u # t => apc'[u] = apc[u]
    BY <1>1, <1>2 DEF KeptTypes
  <2> QED BY <1>1, <2>1 DEF Uncounted, Counting, Notifying, ToNotify
<1>4. SoundTypes'
  <2>1. Cardinality(Uncounted') = Cardinality(Uncounted) + 1
    BY <1>3, Finite, FS_AddElement
  <2>2. PICK n, u \in Nat : n = Cardinality(On(queTask, Idx)) /\ u = Cardinality(Uncounted)
    BY Finite
  <2>3. unAddTask = n + Len(plkTaskBak) + addCnt - u /\ addCnt \in Nat /\ Len(plkTaskBak) \in Nat
    BY <2>2, Finite DEF SoundInv, SoundTypes
  <2>4. unAddTask = n + (Len(plkTaskBak) + 1) + addCnt - (u + 1)
    BY <2>2, <2>3
  <2>5. unAddTask' = Cardinality(On(queTask', Idx)) + Len(plkTaskBak') + addCnt'
                     - Cardinality(Uncounted')
    BY <2>1, <2>2, <2>4, <1>1, <1>2
  <2> QED BY <1>1, <2>5 DEF SoundInv, SoundTypes
<1>5. InTime'
  BY <1>1, TimeSame DEF SoundInv
<1>6. NotifyComes' /\ StopComes'
  BY <1>1, <1>3 DEF SoundInv, NotifyComes, StopComes
<1> QED BY <1>4, <1>5, <1>6 DEF SoundInv

LEMMA SoundCountBackup == ASSUME KeptInv, SoundInv, NEW t \in Timers, CountBackup(t) PROVE SoundInv'
<1>1. /\ apc[t] = "bakcount" /\ apc' = [apc EXCEPT ![t] = "count"]
      /\ UNCHANGED <<slots, left, queTask, plkTaskBak, wheel, plkReAddTask, addCnt, unAddTask>>
      /\ UNCHANGED <<pc, idle, asleep, waitLeft, missed, stop>>
  BY DEF CountBackup, AdderAt, sleepVars, threadVars, timerVars
<1>2. /\ Uncounted' = Uncounted /\ Notifying'
  <2>1. apc'[t] = "count" /\ \A u \in Timers : u # t => apc'[u] = apc[u]
    BY <1>1 DEF KeptInv, KeptTypes
  <2> QED BY <1>1, <2>1 DEF Uncounted, Counting, Notifying, ToNotify
<1>3. SoundTypes'
  BY <1>1, <1>2, SumSame DEF SoundInv, SoundTypes
<1>4. InTime'
  BY <1>1, TimeSame DEF SoundInv
<1>5. NotifyComes' /\ StopComes'
  BY <1>1, <1>2 DEF SoundInv, NotifyComes, StopComes
<1> QED BY <1>3, <1>4, <1>5 DEF SoundInv

LEMMA SoundCountAdded == ASSUME KeptInv, SoundInv, NEW t \in Timers, CountAdded(t) PROVE SoundInv'
<1>1. /\ apc[t] = "count" /\ apc' = [apc EXCEPT ![t] = "look"] /\ unAddTask' = unAddTask + 1
      /\ UNCHANGED <<slots, left, queTask, plkTaskBak, wheel, plkReAddTask, addCnt>>
      /\ UNCHANGED <<pc, idle, asleep, waitLeft, missed, stop>>
  BY DEF CountAdded, AdderAt, sleepVars, threadVars, timerVars
<1>2. /\ Uncounted' = Uncounted \ {t} /\ t \in Uncounted /\ Notifying'
  <2>1. apc'[t] = "look" /\ \A u \in Timers : u # t => apc'[u] = apc[u]
    BY <1>1 DEF KeptInv, KeptTypes
  <2> QED BY <1>1, <2>1 DEF Uncounted, Counting, Notifying, ToNotify
<1>3. SoundTypes'
  <2>1. Cardinality(Uncounted') = Cardinality(Uncounted) - 1
    BY <1>2, Finite, FS_RemoveElement
  <2>2. PICK n, u \in Nat : n = Cardinality(On(queTask, Idx)) /\ u = Cardinality(Uncounted)
    BY Finite
  <2>3. PICK l, a \in Nat : l = Len(plkTaskBak) /\ a = addCnt
    BY Finite DEF SoundInv, SoundTypes
  <2>4. unAddTask = n + l + a - u
    BY <2>2, <2>3 DEF SoundInv, SoundTypes
  <2>5. unAddTask' = n + l + a - (u - 1) /\ unAddTask' \in Int
    BY <2>4, <1>1
  <2>6. unAddTask' = Cardinality(On(queTask', Idx)) + Len(plkTaskBak') + addCnt'
                     - Cardinality(Uncounted')
    BY <2>1, <2>2, <2>3, <2>5, <1>1
  <2> QED BY <1>1, <2>5, <2>6 DEF SoundInv, SoundTypes
<1>4. InTime'
  BY <1>1, TimeSame DEF SoundInv
<1>5. NotifyComes' /\ StopComes'
  BY <1>1, <1>2 DEF SoundInv, NotifyComes, StopComes
<1> QED BY <1>3, <1>4, <1>5 DEF SoundInv

LEMMA SoundLookIdle == ASSUME KeptInv, SoundInv, NEW t \in Timers, LookIdle(t) PROVE SoundInv'
<1>1. /\ apc[t] = "look" /\ apc' = [apc EXCEPT ![t] = IF idle THEN "notify" ELSE "ready"]
      /\ UNCHANGED <<slots, left, queTask, plkTaskBak, wheel, plkReAddTask, addCnt, unAddTask>>
      /\ UNCHANGED <<pc, idle, asleep, waitLeft, missed, stop>>
  BY DEF LookIdle, AdderAt, queueVars, sleepVars, threadVars, timerVars
<1>2. apc'[t] = (IF idle THEN "notify" ELSE "ready") /\ \A u \in Timers : u # t => apc'[u] = apc[u]
  BY <1>1 DEF KeptInv, KeptTypes
<1>3. Uncounted' = Uncounted /\ (idle => Notifying')
  BY <1>1, <1>2 DEF Uncounted, Counting, Notifying, ToNotify
<1>4. SoundTypes'
  BY <1>1, <1>3, SumSame DEF SoundInv, SoundTypes
<1>5. InTime'
  BY <1>1, TimeSame DEF SoundInv
<1>6. NotifyComes' /\ StopComes'
  <2>1. pc \in {"wait", "waiting"} => idle
    BY DEF SoundInv, SoundTypes, Resting
  <2> QED BY <1>1, <1>3, <2>1 DEF SoundInv, NotifyComes, StopComes
<1> QED BY <1>4, <1>5, <1>6 DEF SoundInv

(* What cond_notify does to the thread.                                    *)
LEMMA SoundNotify ==
    ASSUME KeptInv, SoundInv, CondNotify,
           UNCHANGED <<slots, left, queTask, plkTaskBak, wheel, plkReAddTask, addCnt, unAddTask>>,
           UNCHANGED <<idle, waitLeft>>, Uncounted' = Uncounted,
           stop' \in {"none", "pushed", "done"}, stop # "none" => stop' # "none"
    PROVE  SoundInv'
<1>1. /\ asleep' = FALSE /\ pc' = IF asleep THEN "woken" ELSE pc
      /\ missed' = (missed \/ pc \in {"baknum", "bak", "advance", "test", "wait"})
  BY DEF CondNotify
<1>2. asleep <=> pc = "waiting"
  BY DEF SoundInv, SoundTypes
<1>3. SoundTypes'
  <2>1. missed' \in BOOLEAN
    BY <1>1 DEF SoundInv, SoundTypes
  <2>2. /\ pc' \in {"top", "pop", "baknum", "bak", "advance", "test", "wait",
                    "waiting", "woken", "stopped"}
        /\ idle' <=> pc' \in Resting \union {"woken"}
        /\ asleep' <=> pc' = "waiting"
        /\ asleep' \in BOOLEAN
    BY <1>1, <1>2 DEF SoundInv, SoundTypes, Resting
  <2> QED BY <2>1, <2>2, SumSame DEF SoundInv, SoundTypes
<1>4. NotifyComes' /\ StopComes'
  <2>1. pc' \in {"wait", "waiting"} => missed'
    BY <1>1, <1>2
  <2>2. pc' \in {"baknum", "bak", "advance"} \union Resting => missed'
    BY <1>1, <1>2 DEF Resting
  <2> QED BY <2>1, <2>2 DEF NotifyComes, StopComes
<1>5. InTime'
  <2>1. pc' \in Resting => pc \in Resting
    BY <1>1, <1>2 DEF Resting
  <2> QED BY <2>1, TimeSame DEF SoundInv
<1> QED BY <1>3, <1>4, <1>5 DEF SoundInv

LEMMA SoundNotifyIdle == ASSUME KeptInv, SoundInv, NEW t \in Timers, NotifyIdle(t) PROVE SoundInv'
<1>1. /\ apc[t] = "notify" /\ apc' = [apc EXCEPT ![t] = "ready"] /\ CondNotify
      /\ UNCHANGED <<slots, left, queTask, plkTaskBak, wheel, plkReAddTask, addCnt, unAddTask>>
      /\ UNCHANGED <<idle, waitLeft>> /\ UNCHANGED stop
  BY DEF NotifyIdle, AdderAt, queueVars, timerVars
<1>2. apc'[t] = "ready" /\ \A u \in Timers : u # t => apc'[u] = apc[u]
  BY <1>1 DEF KeptInv, KeptTypes
<1>3. Uncounted' = Uncounted
  BY <1>1, <1>2 DEF Uncounted, Counting
<1>4. stop' \in {"none", "pushed", "done"} /\ (stop # "none" => stop' # "none")
  BY <1>1 DEF SoundInv, SoundTypes
<1> QED BY <1>1, <1>3, <1>4, SoundNotify

LEMMA SoundShutdownNotify == ASSUME KeptInv, SoundInv, ShutdownNotify PROVE SoundInv'
<1>1. /\ stop = "pushed" /\ stop' = "done" /\ CondNotify /\ UNCHANGED apc
      /\ UNCHANGED <<slots, left, queTask, plkTaskBak, wheel, plkReAddTask, addCnt, unAddTask>>
      /\ UNCHANGED <<idle, waitLeft>>
  BY DEF ShutdownNotify, queueVars, timerVars
<1>2. Uncounted' = Uncounted
  BY <1>1 DEF Uncounted
<1>3. stop' \in {"none", "pushed", "done"} /\ (stop # "none" => stop' # "none")
  BY <1>1
<1> QED BY <1>1, <1>2, <1>3, SoundNotify

LEMMA SoundShutdownPush == ASSUME KeptInv, SoundInv, ShutdownPush PROVE SoundInv'
<1>1. /\ stop = "none" /\ stop' = "pushed" /\ queTask' = Append(queTask, Sentinel)
      /\ UNCHANGED <<slots, left, plkTaskBak, wheel, plkReAddTask, addCnt, unAddTask, apc>>
      /\ UNCHANGED <<pc, idle, asleep, waitLeft, missed>>
  BY DEF ShutdownPush, sleepVars, threadVars, timerVars
<1>2. /\ queTask' \in Seq(Idx \union {Sentinel}) /\ OnceIn(queTask')
      /\ \A c : Has(queTask', c) <=> Has(queTask, c) \/ c = Sentinel
  <2>1. queTask \in Seq(Idx \union {Sentinel}) /\ OnceIn(queTask) /\ ~Has(queTask, Sentinel)
    BY <1>1 DEF KeptInv, KeptTypes
  <2> QED BY <1>1, <2>1, Pushed
<1>3. On(queTask', Idx) = On(queTask, Idx) /\ Uncounted' = Uncounted /\ (Notifying' <=> Notifying)
  BY <1>1, <1>2, NoTimerMarks DEF On, Uncounted, Notifying
<1>4. SoundTypes'
  <2>1. unAddTask' = Cardinality(On(queTask', Idx)) + Len(plkTaskBak') + addCnt'
                     - Cardinality(Uncounted')
    BY <1>1, <1>3 DEF SoundInv, SoundTypes
  <2> QED BY <1>1, <2>1 DEF SoundInv, SoundTypes
<1>5. InTime'
  BY <1>1, TimeSame DEF SoundInv
<1>6. NotifyComes' /\ StopComes'
  BY <1>1, <1>3 DEF SoundInv, NotifyComes, StopComes
<1> QED BY <1>4, <1>5, <1>6 DEF SoundInv

LEMMA SoundServiceGone ==
    ASSUME KeptInv, SoundInv, (\E t \in Timers : ServiceGone(t)) \/ UNCHANGED vars PROVE SoundInv'
<1>1. /\ UNCHANGED <<slots, left, queTask, plkTaskBak, wheel, plkReAddTask, addCnt, unAddTask>>
      /\ UNCHANGED <<apc, pc, idle, asleep, waitLeft, missed, stop>>
  BY DEF ServiceGone, vars, queueVars, sleepVars, threadVars, timerVars
<1>2. Uncounted' = Uncounted /\ (Notifying' <=> Notifying)
  BY <1>1 DEF Uncounted, Notifying
<1>3. SoundTypes'
  BY <1>1, <1>2, SumSame DEF SoundInv, SoundTypes
<1>4. InTime'
  BY <1>1, TimeSame DEF SoundInv
<1>5. NotifyComes' /\ StopComes'
  BY <1>1, <1>2 DEF SoundInv, NotifyComes, StopComes
<1> QED BY <1>3, <1>4, <1>5 DEF SoundInv

LEMMA SoundTick == ASSUME KeptInv, SoundInv, Tick PROVE SoundInv'
<1>1. /\ left' = [t \in Timers |-> IF left[t] > 0 THEN left[t] - 1 ELSE left[t]]
      /\ waitLeft' = IF waitLeft > 0 THEN waitLeft - 1 ELSE 0
      /\ UNCHANGED <<slots, queTask, plkTaskBak, wheel, plkReAddTask, addCnt, unAddTask>>
      /\ UNCHANGED <<apc, pc, idle, asleep, missed, stop>>
  BY DEF Tick, queueVars, threadVars
<1>2. Uncounted' = Uncounted /\ (Notifying' <=> Notifying)
  BY <1>1 DEF Uncounted, Notifying
<1>3. waitLeft \in Nat /\ waitLeft' \in Nat
  BY <1>1 DEF SoundInv, SoundTypes
<1>4. SoundTypes'
  BY <1>1, <1>2, <1>3, SumSame DEF SoundInv, SoundTypes
<1>5. NotifyComes' /\ StopComes'
  BY <1>1, <1>2 DEF SoundInv, NotifyComes, StopComes
<1>6. InTime'
  <2>1. ASSUME pc \in Resting, NEW k \in wheel PROVE waitLeft' <= left'[TimerOf(k)']
    <3>1. TimerOf(k)' = TimerOf(k) /\ TimerOf(k) \in Timers /\ left[TimerOf(k)] # NoTime
      BY <1>1, WheelTimers DEF TimerOf, Running
    <3>2. PICK n \in Nat : n = left[TimerOf(k)]
      BY <3>1 DEF KeptInv, KeptTypes
    <3>3. left'[TimerOf(k)'] = IF n > 0 THEN n - 1 ELSE n
      BY <1>1, <3>1, <3>2
    <3>4. waitLeft <= n
      BY <2>1, <3>2 DEF SoundInv, InTime
    <3> QED BY <1>1, <1>3, <3>3, <3>4
  <2> QED BY <1>1, <2>1 DEF SoundInv, InTime
<1> QED BY <1>4, <1>5, <1>6 DEF SoundInv
-----------------------------------------------------------------------------
(* The thread's own steps.                                                 *)
LEMMA SoundReAdd == ASSUME KeptInv, SoundInv, ReAdd PROVE SoundInv'
<1>1. /\ pc = "top" /\ UNCHANGED <<pc, addCnt, queTask, plkTaskBak, unAddTask, apc, stop>>
      /\ UNCHANGED <<idle, asleep, waitLeft, missed>>
  BY DEF ReAdd, ThreadAt, sleepVars
<1>2. Uncounted' = Uncounted
  BY <1>1 DEF Uncounted
<1>3. SoundTypes'
  BY <1>1, <1>2, SumSame DEF SoundInv, SoundTypes
<1> QED BY <1>1, <1>3 DEF SoundInv, NotifyComes, StopComes, InTime, Resting

LEMMA SoundPopTask == ASSUME KeptInv, SoundInv, PopTask PROVE SoundInv'
<1>1. PICK k : k = Head(queTask)
  OBVIOUS
<1>2. /\ pc = "pop" /\ queTask # << >> /\ k # Sentinel /\ queTask' = Tail(queTask)
      /\ addCnt' = addCnt + 1 /\ pc' \in {"pop", "baknum"}
      /\ UNCHANGED <<plkTaskBak, unAddTask, apc, stop>>
      /\ UNCHANGED <<idle, asleep, waitLeft, missed>>
  BY <1>1 DEF PopTask, ThreadAt, sleepVars
<1>3. /\ queTask' \in Seq(Idx \union {Sentinel}) /\ OnceIn(queTask') /\ k \in Idx
      /\ Has(queTask, k)
      /\ \A c : Has(queTask', c) <=> Has(queTask, c) /\ c # k
  BY <1>1, <1>2, Popped DEF KeptInv, KeptTypes
<1>4. /\ On(queTask', Idx) = On(queTask, Idx) \ {k} /\ k \in On(queTask, Idx)
      /\ Uncounted' = Uncounted
  BY <1>2, <1>3 DEF On, Uncounted
<1>5. SoundTypes'
  <2>1. Cardinality(On(queTask', Idx)) = Cardinality(On(queTask, Idx)) - 1
    BY <1>4, Finite, FS_RemoveElement
  <2>2. PICK n, u, l, a \in Nat : /\ n = Cardinality(On(queTask, Idx)) /\ a = addCnt
                                  /\ u = Cardinality(Uncounted) /\ l = Len(plkTaskBak)
    BY Finite DEF SoundInv, SoundTypes
  <2>3. unAddTask = n + l + a - u
    BY <2>2 DEF SoundInv, SoundTypes
  <2>4. unAddTask = (n - 1) + l + (a + 1) - u /\ a + 1 \in Nat
    BY <2>3
  <2>5. addCnt' \in Nat /\ unAddTask' = Cardinality(On(queTask', Idx)) + Len(plkTaskBak') + addCnt'
                     - Cardinality(Uncounted')
    BY <2>1, <2>2, <2>4, <1>2, <1>4
  <2> QED BY <1>2, <2>5 DEF SoundInv, SoundTypes, Resting
<1>6. addCnt' >= 1
  BY <1>2 DEF SoundInv, SoundTypes
<1> QED BY <1>2, <1>5, <1>6 DEF SoundInv, NotifyComes, StopComes, InTime, Resting

LEMMA SoundPopBackup == ASSUME KeptInv, SoundInv, PopBackup PROVE SoundInv'
<1>1. /\ pc = "bak" /\ plkTaskBak # << >> /\ plkTaskBak' = Tail(plkTaskBak)
      /\ addCnt' = addCnt + 1 /\ pc' \in {"bak", "advance"}
      /\ UNCHANGED <<queTask, unAddTask, apc, stop>>
      /\ UNCHANGED <<idle, asleep, waitLeft, missed>>
  BY DEF PopBackup, EndBackup, ThreadAt, Goto, sleepVars
<1>2. Len(plkTaskBak') = Len(plkTaskBak) - 1 /\ Uncounted' = Uncounted
  BY <1>1, Popped DEF KeptInv, KeptTypes, Uncounted
<1>3. SoundTypes'
  <2>1. PICK n, u, l, a \in Nat : /\ n = Cardinality(On(queTask, Idx)) /\ a = addCnt
                                  /\ u = Cardinality(Uncounted) /\ l = Len(plkTaskBak)
    BY Finite DEF SoundInv, SoundTypes
  <2>2. unAddTask = n + l + a - u
    BY <2>1 DEF SoundInv, SoundTypes
  <2>3. unAddTask = n + (l - 1) + (a + 1) - u /\ a + 1 \in Nat
    BY <2>2
  <2>4. addCnt' \in Nat /\ unAddTask' = Cardinality(On(queTask', Idx)) + Len(plkTaskBak') + addCnt'
                     - Cardinality(Uncounted')
    BY <2>1, <2>3, <1>1, <1>2
  <2> QED BY <1>1, <2>4 DEF SoundInv, SoundTypes, Resting
<1>4. addCnt' >= 1
  BY <1>1 DEF SoundInv, SoundTypes
<1> QED BY <1>1, <1>3, <1>4 DEF SoundInv, NotifyComes, StopComes, InTime, Resting

LEMMA SoundPopSentinel == ASSUME KeptInv, SoundInv, PopSentinel PROVE SoundInv'
<1>1. /\ pc = "pop" /\ pc' = "stopped" /\ queTask # << >> /\ Head(queTask) = Sentinel
      /\ queTask' = Tail(queTask) /\ UNCHANGED <<plkTaskBak, unAddTask, addCnt, apc, stop>>
      /\ UNCHANGED <<idle, asleep, waitLeft, missed>>
  BY DEF PopSentinel, ThreadAt, Goto, sleepVars
<1>2. /\ queTask' \in Seq(Idx \union {Sentinel}) /\ OnceIn(queTask')
      /\ \A c : Has(queTask', c) <=> Has(queTask, c) /\ c # Sentinel
  BY <1>1, Popped DEF KeptInv, KeptTypes
<1>3. On(queTask', Idx) = On(queTask, Idx) /\ Uncounted' = Uncounted
  BY <1>1, <1>2, NoTimerMarks DEF On, Uncounted
<1>4. SoundTypes'
  <2>1. unAddTask' = Cardinality(On(queTask', Idx)) + Len(plkTaskBak') + addCnt'
                     - Cardinality(Uncounted')
    BY <1>1, <1>3 DEF SoundInv, SoundTypes
  <2> QED BY <1>1, <2>1 DEF SoundInv, SoundTypes, Resting
<1> QED BY <1>1, <1>4 DEF SoundInv, NotifyComes, StopComes, InTime, Resting

(* The steps between two rounds and those that look at the backup.         *)
LEMMA SoundLooks ==
    ASSUME KeptInv, SoundInv, StartRound \/ PopNothing \/ LookBackup \/ NoBackup \/ Woken
    PROVE  SoundInv'
<1>1. /\ UNCHANGED <<queTask, plkTaskBak, unAddTask, addCnt, apc, stop, asleep>>
      /\ \/ pc = "top" /\ pc' = "pop" /\ UNCHANGED <<idle, missed>>
         \/ pc = "pop" /\ pc' = "baknum" /\ missed' = FALSE /\ queTask = << >> /\ UNCHANGED idle
         \/ pc = "baknum" /\ pc' \in {"bak", "advance"} /\ UNCHANGED <<idle, missed>>
         \/ pc = "bak" /\ pc' = "advance" /\ UNCHANGED <<idle, missed>>
         \/ pc = "woken" /\ pc' = "top" /\ idle' = FALSE /\ UNCHANGED missed
      /\ UNCHANGED waitLeft \/ waitLeft' = 0
  BY DEF StartRound, PopNothing, LookBackup, NoBackup, Woken, EndBackup, ThreadAt, Goto,
         queueVars, sleepVars, threadVars
<1>2. Uncounted' = Uncounted
  BY <1>1 DEF Uncounted
<1>3. SoundTypes'
  <2>1. /\ pc' \in {"top", "pop", "baknum", "bak", "advance", "test", "wait",
                    "waiting", "woken", "stopped"}
        /\ idle' <=> pc' \in Resting \union {"woken"}
        /\ asleep' <=> pc' = "waiting"
        /\ idle' \in BOOLEAN /\ asleep' \in BOOLEAN /\ missed' \in BOOLEAN /\ waitLeft' \in Nat
    <3>1. /\ pc \in {"top", "pop", "baknum", "bak", "advance", "test", "wait",
                     "waiting", "woken", "stopped"}
          /\ idle <=> pc \in {"test", "wait", "waiting", "woken"}
          /\ asleep <=> pc = "waiting"
      BY DEF SoundInv, SoundTypes, Resting
    <3>2. pc' \in {"top", "pop", "baknum", "bak", "advance", "test", "wait",
                   "waiting", "woken", "stopped"}
      BY <1>1, <3>1
    <3>3. idle' <=> pc' \in Resting \union {"woken"}
      BY <1>1, <3>1 DEF Resting
    <3>4. asleep' <=> pc' = "waiting"
      BY <1>1, <3>1
    <3>5. idle' \in BOOLEAN /\ asleep' \in BOOLEAN /\ missed' \in BOOLEAN
      BY <1>1, Zenon DEF SoundInv, SoundTypes
    <3>6. waitLeft' \in Nat
      BY <1>1 DEF SoundInv, SoundTypes
    <3> QED BY <3>2, <3>3, <3>4, <3>5, <3>6
  <2> QED BY <1>1, <1>2, <2>1, SumSame DEF SoundInv, SoundTypes
<1>4. queTask = << >> => ~Has(queTask, Sentinel)
  BY DEF Has
<1>5. StopComes'
  BY <1>1, <1>4 DEF SoundInv, StopComes, Resting
<1> QED BY <1>1, <1>3, <1>5 DEF SoundInv, NotifyComes, InTime, Resting

LEMMA SoundWaits ==
    ASSUME KeptInv, SoundInv, TestIdle \/ StartWait \/ WaitOver
    PROVE  SoundInv'
<1>1. /\ UNCHANGED <<slots, left, queTask, plkTaskBak, wheel, plkReAddTask, addCnt, unAddTask>>
      /\ UNCHANGED <<apc, idle, waitLeft, missed, stop>>
      /\ \/ pc = "test" /\ pc' = (IF unAddTask = 0 THEN "wait" ELSE "woken") /\ UNCHANGED asleep
         \/ pc = "wait" /\ pc' = "waiting" /\ asleep' = TRUE
         \/ pc = "waiting" /\ pc' = "woken" /\ asleep' = FALSE
  BY DEF TestIdle, StartWait, WaitOver, ThreadAt, Goto, queueVars, sleepVars, timerVars
<1>2. Uncounted' = Uncounted /\ (Notifying' <=> Notifying)
  BY <1>1 DEF Uncounted, Notifying
<1>3. SoundTypes'
  <2>1. /\ pc' \in {"top", "pop", "baknum", "bak", "advance", "test", "wait",
                    "waiting", "woken", "stopped"}
        /\ idle' <=> pc' \in Resting \union {"woken"}
        /\ asleep' <=> pc' = "waiting"
        /\ idle' \in BOOLEAN /\ asleep' \in BOOLEAN /\ missed' \in BOOLEAN /\ waitLeft' \in Nat
    <3>1. /\ pc \in {"top", "pop", "baknum", "bak", "advance", "test", "wait",
                     "waiting", "woken", "stopped"}
          /\ idle <=> pc \in {"test", "wait", "waiting", "woken"}
          /\ asleep <=> pc = "waiting"
      BY DEF SoundInv, SoundTypes, Resting
    <3>2. pc' \in {"top", "pop", "baknum", "bak", "advance", "test", "wait",
                   "waiting", "woken", "stopped"}
      BY <1>1, <3>1
    <3>3. idle' <=> pc' \in Resting \union {"woken"}
      BY <1>1, <3>1 DEF Resting
    <3>4. asleep' <=> pc' = "waiting"
      BY <1>1, <3>1
    <3>5. idle' \in BOOLEAN /\ asleep' \in BOOLEAN /\ missed' \in BOOLEAN
      BY <1>1, Zenon DEF SoundInv, SoundTypes
    <3>6. waitLeft' \in Nat
      BY <1>1 DEF SoundInv, SoundTypes
    <3> QED BY <3>2, <3>3, <3>4, <3>5, <3>6
  <2> QED BY <1>1, <1>2, <2>1, SumSame DEF SoundInv, SoundTypes
<1>4. pc' \in Resting => pc \in Resting
  BY <1>1 DEF Resting
<1>5. InTime'
  BY <1>1, <1>4, TimeSame DEF SoundInv
<1>6. StopComes'
  BY <1>1, <1>4 DEF SoundInv, StopComes, Resting
<1>7. NotifyComes'
  <2>1. CASE pc = "test"
    <3>1. ASSUME unAddTask = 0, ~Notifying PROVE On(queTask, Idx) = {} /\ plkTaskBak = << >>
      <4>1. Uncounted = {}
        BY <3>1 DEF Notifying, ToNotify, Uncounted, Counting
      <4>2. Cardinality(Uncounted) = 0
        BY <4>1, FS_EmptySet
      <4>3. PICK n, l, a \in Nat : /\ n = Cardinality(On(queTask, Idx)) /\ a = addCnt
                                   /\ l = Len(plkTaskBak)
        BY Finite DEF SoundInv, SoundTypes
      <4>4. 0 = n + l + a - 0
        BY <3>1, <4>2, <4>3 DEF SoundInv, SoundTypes
      <4>5. n = 0 /\ l = 0
        BY <4>4
      <4> QED BY <4>3, <4>5, Finite, FS_EmptySet
    <3> QED BY <1>1, <1>2, <2>1, <3>1 DEF NotifyComes
  <2>2. CASE pc # "test"
    BY <1>1, <1>2, <2>2 DEF SoundInv, NotifyComes
  <2> QED BY <2>1, <2>2
<1> QED BY <1>3, <1>5, <1>6, <1>7 DEF SoundInv

(* What tmwheel_advance_clock answers is no later than any task it keeps.  *)
LEMMA MinOfTimes ==
    ASSUME NEW S, S \subseteq Nat, S # {}
    PROVE  Min(S) \in S /\ \A s \in S : Min(S) <= s
<1>1. \E m \in S : \A s \in S : m <= s
  <2>1. PICK m \in S : \A s \in S : ~(<<s, m>> \in OpToRel(<, Nat))
    BY NatLessThanWellFounded, WFMin
  <2>2. ASSUME NEW s \in S PROVE m <= s
    <3>1. s \in Nat /\ m \in Nat /\ ~(<<s, m>> \in OpToRel(<, Nat))
      BY <2>1
    <3>2. ~(s < m)
      BY <3>1 DEF OpToRel
    <3>3. s \in Nat /\ m \in Nat
      OBVIOUS
    <3> QED BY <3>2, <3>3
  <2> QED BY <2>2
<1> QED BY <1>1 DEF Min

LEMMA SoundAdvance == ASSUME KeptInv, SoundInv, Advance PROVE SoundInv'
<1>1. PICK due, rest : due = {k \in wheel : Due(k)} /\ rest = wheel \ due
  OBVIOUS
<1>2. /\ pc = "advance" /\ unAddTask' = unAddTask - addCnt /\ addCnt' = 0
      /\ wheel' = rest /\ OnTimeout(due, plkReAddTask)
      /\ UNCHANGED <<queTask, plkTaskBak, apc, asleep, missed, stop>>
      /\ \/ /\ addCnt < 1 /\ plkReAddTask' = {} /\ pc' = "test" /\ idle' = TRUE
            /\ waitLeft' = NextWait(rest)
         \/ pc' = "top" /\ UNCHANGED <<idle, waitLeft>>
  BY <1>1 DEF Advance, ThreadAt, Goto
<1>3. ASSUME NEW k \in rest
      PROVE  /\ TimerOf(k) \in Timers /\ left[TimerOf(k)] \in Nat \ {0}
             /\ left'[TimerOf(k)'] = left[TimerOf(k)]
  <2>1. TimerOf(k) \in Timers /\ left[TimerOf(k)] # NoTime /\ k \in wheel /\ k \notin due
    BY <1>1, WheelTimers DEF Running
  <2>2. left[TimerOf(k)] \in Nat /\ left[TimerOf(k)] # 0
    BY <1>1, <2>1 DEF KeptInv, KeptTypes, Due
  <2>3. ASSUME NEW j \in due PROVE TimerOf(j) # TimerOf(k)
    <3>1. PICK sl, wh : sl = slots /\ wh = wheel
      OBVIOUS
    <3>2. \A m : TimerOf(m) = HeldBy(sl, m)
      BY <3>1 DEF TimerOf, HeldBy
    <3>3. \A m, n \in wh : HeldBy(sl, m) = HeldBy(sl, n) => m = n
      BY <3>1, TimersOfTasks DEF KeptInv
    <3> QED BY <1>1, <2>1, <3>1, <3>2, <3>3
  <2>4. left'[TimerOf(k)] = left[TimerOf(k)]
    <3>1. left' = [t \in Timers |-> IF t \notin {TimerOf(j) : j \in due} THEN left[t]
                                    ELSE IF Again(t) THEN Delay[t] ELSE NoTime]
      BY <1>2 DEF OnTimeout
    <3> QED BY <2>1, <2>3, <3>1
  <2>5. TimerOf(k)' = TimerOf(k)
    <3>1. slots' = [i \in Idx |-> IF i \in {j \in due : ~Again(TimerOf(j))} THEN NoTimer
                                  ELSE slots[i]]
      BY <1>2 DEF OnTimeout
    <3>2. k \in Idx => slots'[k] = slots[k]
      BY <2>1, <3>1
    <3> QED BY <3>2 DEF TimerOf
  <2> QED BY <2>1, <2>2, <2>4, <2>5
<1>4. PICK S : S = {left[TimerOf(k)] : k \in rest}
  OBVIOUS
<1>5. S \subseteq Nat \ {0}
  BY <1>3, <1>4
<1>6. NextWait(rest) \in Nat /\ \A k \in rest : NextWait(rest) <= left[TimerOf(k)]
  <2>1. MaxWait \in Nat
    BY TimesAssumption
  <2>2. CASE rest = {}
    <3>1. NextWait(rest) = MaxWait
      BY <2>2 DEF NextWait
    <3> QED BY <2>1, <2>2, <3>1
  <2>3. CASE rest # {}
    <3>1. S # {}
      BY <1>4, <2>3
    <3>2. Min(S) \in S /\ \A s \in S : Min(S) <= s
      BY <1>5, <3>1, MinOfTimes
    <3>3. PICK d : d = Min(S)
      OBVIOUS
    <3>4. d \in Nat \ {0} /\ \A k \in rest : d <= left[TimerOf(k)] /\ left[TimerOf(k)] \in Nat
      BY <1>3, <1>4, <1>5, <3>2, <3>3
    <3>5. NextWait(rest) = IF d <= 0 \/ d >= MaxWait THEN MaxWait ELSE d
      BY <1>4, <2>3, <3>3 DEF NextWait
    <3>6. NextWait(rest) \in Nat /\ NextWait(rest) <= d
      BY <2>1, <3>4, <3>5
    <3> QED BY <3>4, <3>6
  <2> QED BY <2>2, <2>3
<1>7. SoundTypes'
  <2>1. PICK n, u, l, a \in Nat : /\ n = Cardinality(On(queTask, Idx)) /\ a = addCnt
                                  /\ u = Cardinality(Uncounted) /\ l = Len(plkTaskBak)
    BY Finite DEF SoundInv, SoundTypes
  <2>2. unAddTask = n + l + a - u
    BY <2>1 DEF SoundInv, SoundTypes
  <2>3. unAddTask' = n + l + 0 - u /\ unAddTask' \in Int
    <3>1. unAddTask' = (n + l + a - u) - a
      BY <2>1, <2>2, <1>2
    <3>2. (n + l + a - u) - a = n + l + 0 - u /\ n + l + 0 - u \in Int
      OBVIOUS
    <3> QED BY <3>1, <3>2
  <2>4. Uncounted' = Uncounted
    BY <1>2 DEF Uncounted
  <2>5. unAddTask' = Cardinality(On(queTask', Idx)) + Len(plkTaskBak') + addCnt'
                     - Cardinality(Uncounted')
    BY <2>1, <2>3, <2>4, <1>2
  <2>6. /\ pc' \in {"top", "pop", "baknum", "bak", "advance", "test", "wait",
                    "waiting", "woken", "stopped"}
        /\ idle' <=> pc' \in Resting \union {"woken"}
        /\ asleep' <=> pc' = "waiting"
        /\ idle' \in BOOLEAN /\ asleep' \in BOOLEAN /\ missed' \in BOOLEAN /\ waitLeft' \in Nat
    <3>1. /\ pc \in {"top", "pop", "baknum", "bak", "advance", "test", "wait",
                     "waiting", "woken", "stopped"}
          /\ idle <=> pc \in {"test", "wait", "waiting", "woken"}
          /\ asleep <=> pc = "waiting"
      BY DEF SoundInv, SoundTypes, Resting
    <3>2. pc' \in {"top", "pop", "baknum", "bak", "advance", "test", "wait",
                   "waiting", "woken", "stopped"}
      BY <1>2, <1>6, <3>1
    <3>3. idle' <=> pc' \in Resting \union {"woken"}
      BY <1>2, <1>6, <3>1 DEF Resting
    <3>4. asleep' <=> pc' = "waiting"
      BY <1>2, <1>6, <3>1
    <3>5. idle' \in BOOLEAN /\ asleep' \in BOOLEAN /\ missed' \in BOOLEAN
      BY <1>2, <1>6, Zenon DEF SoundInv, SoundTypes
    <3>6. waitLeft' \in Nat
      BY <1>2, <1>6 DEF SoundInv, SoundTypes
    <3> QED BY <3>2, <3>3, <3>4, <3>5, <3>6
  <2> QED BY <1>2, <2>3, <2>5, <2>6 DEF SoundInv, SoundTypes
<1>8. NotifyComes'
  BY <1>2 DEF NotifyComes
<1>9. StopComes'
  <2>1. addCnt < 1 => ~(addCnt >= 1)
    BY DEF SoundInv, SoundTypes
  <2> QED BY <1>2, <2>1 DEF SoundInv, StopComes, Resting
<1>10. InTime'
  BY <1>2, <1>3, <1>6 DEF InTime, Resting
<1> QED BY <1>7, <1>8, <1>9, <1>10 DEF SoundInv

LEMMA SoundNext == KeptInv /\ SoundInv /\ [Next]_vars => SoundInv'
<1> SUFFICES ASSUME KeptInv, SoundInv, [Next]_vars PROVE SoundInv'
  OBVIOUS
<1>1. CASE \E t \in Timers : Request(t) \/ AdderStep(t)
  BY <1>1, SoundRequest, SoundAddInSlot, SoundAddOnHeap, SoundCountBackup, SoundCountAdded,
     SoundLookIdle, SoundNotifyIdle DEF AdderStep
<1>2. CASE ThreadStep
  BY <1>2, SoundReAdd, SoundPopTask, SoundPopBackup, SoundPopSentinel, SoundLooks, SoundWaits,
     SoundAdvance DEF ThreadStep
<1>3. CASE ShutdownPush \/ ShutdownNotify
  BY <1>3, SoundShutdownPush, SoundShutdownNotify
<1>4. CASE (\E t \in Timers : ServiceGone(t)) \/ UNCHANGED vars
  BY <1>4, SoundServiceGone
<1>5. CASE Tick
  BY <1>5, SoundTick
<1> QED BY <1>1, <1>2, <1>3, <1>4, <1>5 DEF Next

LEMMA SoundIsEnough == KeptInv /\ SoundInv => SleepsSoundly
<1> SUFFICES ASSUME KeptInv, SoundInv PROVE SleepsSoundly
  OBVIOUS
<1>1. asleep => pc = "waiting"
  BY DEF SoundInv, SoundTypes
<1>2. SleepsOnlyByMissedNotify
  <2> SUFFICES ASSUME asleep, OnTheWay, ~missed, stop # "pushed", ~Notifying PROVE FALSE
    BY DEF SleepsOnlyByMissedNotify, Notifying, ToNotify
  <2>1. On(queTask, Idx) = {} /\ plkTaskBak = << >>
    BY <1>1 DEF SoundInv, NotifyComes
  <2>2. ~Has(queTask, Sentinel)
    <3>1. Has(queTask, Sentinel) => stop = "done"
      BY DEF KeptInv, KeptTypes, SoundInv, SoundTypes
    <3> QED BY <1>1, <3>1 DEF SoundInv, StopComes, Resting
  <2>3. queTask # << >>
    BY <2>1 DEF OnTheWay
  <2>4. queTask \in Seq(Idx \union {Sentinel}) /\ OnceIn(queTask)
    BY DEF KeptInv, KeptTypes
  <2>5. Head(queTask) \in Idx \union {Sentinel} /\ Has(queTask, Head(queTask))
    BY <2>3, <2>4, Popped
  <2> QED BY <2>1, <2>2, <2>5 DEF On
<1>3. NeverOversleeps
  BY <1>1 DEF NeverOversleeps, SoundInv, InTime, Resting
<1> QED BY <1>2, <1>3 DEF SleepsSoundly

(* The timer thread sleeps beside a new task only if a notify came between *)
(* its look at the queue and its wait (pps_timer.cpp:160,325), and never   *)
(* past the expiration of a task in its wheel.                             *)
THEOREM ThreadSleepsSoundly == Spec => []SleepsSoundly
<1>1. Init => KeptInv /\ SoundInv
  BY KeptInit, SoundInit
<1>2. (KeptInv /\ SoundInv) /\ [Next]_vars => (KeptInv /\ SoundInv)'
  BY KeptNext, SoundNext
<1>3. Spec => [](KeptInv /\ SoundInv)
  BY <1>1, <1>2, PTL DEF Spec
<1> QED BY <1>3, SoundIsEnough, PTL

-----------------------------------------------------------------------------
(* Coroutine.  The stacks and what each coroutine waits for.               *)
Reasons == {<<"none">>, <<"wait">>} \union {<<"sleep", i>> : i \in Id}
                                    \union {<<"yield", i>> : i \in Id}
Waits(c) == IF usrwait[c] = UsrWait THEN <<"wait">> ELSE <<"sleep", usrwait[c]>>

StackTypes ==
    /\ chain \in Seq(Co) /\ cosFree \in Seq(Co)
    /\ status \in [Co -> {"none", "busy", "free", "dead"}]
    /\ usrwait \in [Co -> {NoWait, UsrWait} \union Id] /\ reason \in [Co -> Reasons]

StackInv ==
    /\ StackTypes /\ cosStack = chain /\ OnceIn(chain) /\ OnceIn(cosFree)
    /\ \A c \in Co : Has(chain, c) => /\ status[c] = "busy" /\ usrwait[c] = NoWait
                                      /\ reason[c] = <<"none">>
    /\ \A c \in Co : Has(cosFree, c) => status[c] = "free"
    /\ \A c \in Co : reason[c] # <<"none">> => status[c] = "busy"
    /\ \A c \in Co : usrwait[c] # NoWait => reason[c] = Waits(c)

(* The ids.  An id is in use for one thing at a time; a message to itself  *)
(* finds what it is for under its id, and a timer whose id is not one of   *)
(* _tmouts a schedule, or a sleep that still lasts or was broken off.      *)
TimerMsg == [id : Id, left : Int]
SelfMsg == [id : Id, kind : {"yield", Fork}]
IdIn(q, i) == \E n \in 1 .. Len(q) : q[n].id = i
OneUse(q, S) == \A m, n \in 1 .. Len(q) : q[m].id = q[n].id /\ q[m].id \notin S => m = n

IdTypes ==
    /\ cosYield \in [Id -> Co \union {None, Fork}] /\ sleepBreak \subseteq Id
    /\ tmouts \subseteq Id /\ scheds \in [Id -> {"none", "active", "stopped"}]
    /\ tmIdCnt \in Id /\ timers \in Seq(TimerMsg) /\ selfmsgs \in Seq(SelfMsg)

SelfmsgFinds(m) ==
    /\ scheds[m.id] = "none" /\ m.id \notin sleepBreak
    /\ IF m.kind = Fork THEN cosYield[m.id] = Fork
       ELSE cosYield[m.id] \in Co /\ reason[cosYield[m.id]] = <<"yield", m.id>>
TimerFinds(i) ==
    /\ \A m \in SelfMsg : Has(selfmsgs, m) => m.id # i
    /\ \/ scheds[i] # "none"
       \/ cosYield[i] \in Co /\ (i \in sleepBreak \/ usrwait[cosYield[i]] = i)

IdInv ==
    /\ IdTypes /\ ~InUse(tmIdCnt)
    /\ \A i \in Id : cosYield[i] = None \/ scheds[i] = "none"
    /\ \A i \in sleepBreak : cosYield[i] \in Co
    /\ \A c \in Co : usrwait[c] \in Id => /\ cosYield[usrwait[c]] = c
                                          /\ usrwait[c] \notin sleepBreak
    /\ OnceIn(selfmsgs)
    /\ \A m, k \in SelfMsg : Has(selfmsgs, m) /\ Has(selfmsgs, k) /\ m.id = k.id => m = k
    /\ \A m \in SelfMsg : Has(selfmsgs, m) => SelfmsgFinds(m)
    /\ OneUse(timers, tmouts)
    /\ \A i \in Id : IdIn(timers, i) /\ i \notin tmouts => TimerFinds(i)

CoInv == StackInv /\ IdInv /\ handle.co \in Co \union {None} /\ ~misfire
-----------------------------------------------------------------------------
LEMMA Fronted ==
    ASSUME NEW S, NEW q \in Seq(S), q # << >>, OnceIn(q)
    PROVE  /\ Front(q) \in Seq(S) /\ OnceIn(Front(q)) /\ Last(q) \in S /\ Has(q, Last(q))
           /\ \A c : Has(Front(q), c) <=> Has(q, c) /\ c # Last(q)
<1> PICK n \in Nat \ {0} : n = Len(q)
  OBVIOUS
<1> DEFINE p == Front(q)
<1>1. /\ p \in Seq(S) /\ Len(p) = n - 1 /\ \A i \in 1 .. n - 1 : p[i] = q[i]
  BY DEF Front
<1>2. Last(q) = q[n] /\ n \in 1 .. n /\ q[n] \in S
  BY DEF Last
<1> HIDE DEF p
<1>3. OnceIn(p) /\ Has(q, Last(q))
  BY <1>1, <1>2 DEF OnceIn, Has
<1>4. ASSUME NEW c PROVE Has(p, c) <=> Has(q, c) /\ c # q[n]
  <2>1. ASSUME Has(p, c) PROVE Has(q, c) /\ c # q[n]
    <3>1. PICK i \in 1 .. n - 1 : q[i] = c
      BY <1>1, <2>1 DEF Has
    <3>2. i \in 1 .. n /\ i # n
      BY <3>1
    <3> QED BY <1>2, <3>1, <3>2 DEF Has, OnceIn
  <2>2. ASSUME Has(q, c), c # q[n] PROVE Has(p, c)
    <3>1. PICK i \in 1 .. n : q[i] = c
      BY <2>2 DEF Has
    <3>2. i \in 1 .. n - 1
      BY <3>1, <2>2
    <3> QED BY <1>1, <3>1, <3>2 DEF Has
  <2> QED BY <2>1, <2>2
<1> QED BY <1>1, <1>2, <1>3, <1>4 DEF p

LEMMA Armed ==
    ASSUME NEW S, NEW q \in Seq(S), NEW e \in S, NEW A, OneUse(q, A),
           e.id \in A \/ ~IdIn(q, e.id)
    PROVE  /\ Append(q, e) \in Seq(S) /\ OneUse(Append(q, e), A)
           /\ \A i : IdIn(Append(q, e), i) <=> IdIn(q, i) \/ i = e.id
<1> PICK n \in Nat : n = Len(q)
  OBVIOUS
<1> DEFINE p == Append(q, e)
<1>1. /\ p \in Seq(S) /\ Len(p) = n + 1 /\ p[n + 1] = e /\ \A i \in 1 .. n : p[i] = q[i]
  OBVIOUS
<1> HIDE DEF p
<1>2. OneUse(p, A)
  <2> SUFFICES ASSUME NEW i \in 1 .. n + 1, NEW j \in 1 .. n + 1,
                      p[i].id = p[j].id, p[i].id \notin A
               PROVE  i = j
    BY <1>1 DEF OneUse
  <2>1. CASE i \in 1 .. n /\ j \in 1 .. n
    BY <2>1, <1>1 DEF OneUse
  <2>2. CASE i = n + 1 /\ j \in 1 .. n
    BY <2>2, <1>1 DEF IdIn
  <2>3. CASE i \in 1 .. n /\ j = n + 1
    BY <2>3, <1>1 DEF IdIn
  <2>4. (i \in 1 .. n \/ i = n + 1) /\ (j \in 1 .. n \/ j = n + 1)
    OBVIOUS
  <2> QED BY <2>1, <2>2, <2>3, <2>4
<1>3. ASSUME NEW i PROVE IdIn(p, i) <=> IdIn(q, i) \/ i = e.id
  <2>1. ASSUME IdIn(p, i), i # e.id PROVE IdIn(q, i)
    <3>1. PICK k \in 1 .. n + 1 : p[k].id = i
      BY <1>1, <2>1 DEF IdIn
    <3>2. k \in 1 .. n
      BY <3>1, <2>1, <1>1
    <3> QED BY <3>1, <3>2, <1>1 DEF IdIn
  <2>2. ASSUME IdIn(q, i) PROVE IdIn(p, i)
    <3>1. PICK k \in 1 .. n : q[k].id = i
      BY <2>2 DEF IdIn
    <3>2. k \in 1 .. n + 1
      BY <3>1
    <3> QED BY <3>1, <3>2, <1>1 DEF IdIn
  <2>3. n + 1 \in 1 .. n + 1
    OBVIOUS
  <2> QED BY <2>1, <2>2, <2>3, <1>1 DEF IdIn
<1> QED BY <1>1, <1>2, <1>3 DEF p

LEMMA Disarmed ==
    ASSUME NEW S, NEW q \in Seq(S), NEW n \in 1 .. Len(q), NEW A, OneUse(q, A)
    PROVE  /\ RemoveAt(q, n) \in Seq(S) /\ OneUse(RemoveAt(q, n), A) /\ q[n] \in S
           /\ IdIn(q, q[n].id)
           /\ \A i : IdIn(RemoveAt(q, n), i) => IdIn(q, i)
           /\ \A i : IdIn(RemoveAt(q, n), i) /\ i \notin A => i # q[n].id
<1> PICK l \in Nat \ {0} : l = Len(q)
  OBVIOUS
<1>0. n \in 1 .. l /\ n \in Int
  OBVIOUS
<1> DEFINE p == RemoveAt(q, n)
           a == SubSeq(q, 1, n - 1)
           b == SubSeq(q, n + 1, l)
           at(k) == IF k < n THEN k ELSE k + 1
<1>1. a \in Seq(S) /\ Len(a) = n - 1 /\ \A k \in 1 .. n - 1 : a[k] = q[k]
  BY <1>0
<1>2. b \in Seq(S) /\ Len(b) = l - n /\ \A k \in 1 .. l - n : b[k] = q[n + k]
  BY <1>0
<1>3. p = a \o b
  BY DEF RemoveAt
<1> HIDE DEF p, a, b
<1>4. /\ p \in Seq(S) /\ Len(p) = l - 1
      /\ \A k \in 1 .. l - 1 : p[k] = IF k <= Len(a) THEN a[k] ELSE b[k - Len(a)]
  <2>1. a \in Seq(S) /\ b \in Seq(S)
    BY <1>1, <1>2
  <2>2. /\ a \o b \in Seq(S) /\ Len(a \o b) = Len(a) + Len(b)
        /\ \A k \in 1 .. Len(a) + Len(b) : (a \o b)[k] = IF k <= Len(a) THEN a[k]
                                                                     ELSE b[k - Len(a)]
    BY <2>1, ConcatProperties, Zenon
  <2>3. Len(a) + Len(b) = l - 1
    BY <1>0, <1>1, <1>2
  <2> QED BY <1>3, <2>2, <2>3
<1>5. ASSUME NEW k \in 1 .. l - 1
      PROVE  p[k] = q[at(k)] /\ at(k) \in 1 .. l /\ at(k) # n
  <2>1. CASE k < n
    BY <2>1, <1>0, <1>1, <1>4
  <2>2. CASE k >= n
    <3>1. k - (n - 1) \in 1 .. l - n /\ n + (k - (n - 1)) = k + 1
      BY <2>2, <1>0
    <3>2. b[k - (n - 1)] = q[k + 1]
      BY <3>1, <1>2
    <3> QED BY <2>2, <3>2, <1>0, <1>1, <1>4
  <2> QED BY <2>1, <2>2, <1>0
<1>6. OneUse(p, A)
  <2> SUFFICES ASSUME NEW i \in 1 .. l - 1, NEW j \in 1 .. l - 1,
                      p[i].id = p[j].id, p[i].id \notin A
               PROVE  i = j
    BY <1>4 DEF OneUse
  <2>1. q[at(i)].id = q[at(j)].id /\ q[at(i)].id \notin A
    BY <1>5
  <2>2. at(i) = at(j)
    BY <2>1, <1>5 DEF OneUse
  <2> QED BY <2>2, <1>0
<1>7. ASSUME NEW i, IdIn(p, i)
      PROVE  IdIn(q, i) /\ (i \notin A => i # q[n].id)
  <2>1. PICK k \in 1 .. l - 1 : p[k].id = i
    BY <1>4, <1>7 DEF IdIn
  <2>2. q[at(k)].id = i /\ at(k) \in 1 .. l /\ at(k) # n
    BY <2>1, <1>5
  <2> HIDE DEF at
  <2> QED BY <2>2, <1>0 DEF OneUse, IdIn
<1>8. q[n] \in S /\ IdIn(q, q[n].id)
  BY <1>0 DEF IdIn
<1> QED BY <1>4, <1>6, <1>7, <1>8 DEF p
-----------------------------------------------------------------------------
LEMMA ReasonsDiffer ==
    /\ \A i, j : <<"sleep", i>> # <<"yield", j>> /\ <<"wait">> # <<"yield", j>>
    /\ \A i : <<"none">> # <<"yield", i>> /\ <<"none">> # <<"sleep", i>>
    /\ \A i, j : <<"yield", i>> = <<"yield", j>> => i = j
    /\ <<"none">> # <<"wait">>
OBVIOUS

LEMMA IdsOfTimers == /\ Id \subseteq Int /\ NoWait \notin Id /\ UsrWait \notin Id
                     /\ NoWait # UsrWait
BY CoroutineAssumption DEF Id, NoWait, UsrWait

(* Who waits for something is suspended, and neither runs nor is free.     *)
LEMMA Suspended ==
    ASSUME StackInv, NEW c \in Co, reason[c] # <<"none">> \/ usrwait[c] # NoWait
    PROVE  /\ status[c] = "busy" /\ ~Has(chain, c) /\ ~Has(cosFree, c)
           /\ reason[c] # <<"none">>
<1>1. reason[c] # <<"none">>
  BY ReasonsDiffer DEF StackInv, Waits
<1> QED BY <1>1 DEF StackInv

LEMMA RunningCo ==
    ASSUME StackInv, Runs
    PROVE  /\ Cur \in Co /\ Cur = Last(chain) /\ Has(chain, Cur) /\ Front(chain) \in Seq(Co)
           /\ OnceIn(Front(chain)) /\ Front(cosStack) = Front(chain)
           /\ \A c : Has(Front(chain), c) <=> Has(chain, c) /\ c # Cur
           /\ status[Cur] = "busy" /\ usrwait[Cur] = NoWait /\ reason[Cur] = <<"none">>
<1>1. chain \in Seq(Co) /\ chain # << >> /\ OnceIn(chain) /\ cosStack = chain
  BY DEF StackInv, StackTypes, Runs
<1>2. /\ Front(chain) \in Seq(Co) /\ OnceIn(Front(chain)) /\ Last(chain) \in Co
      /\ Has(chain, Last(chain))
      /\ \A c : Has(Front(chain), c) <=> Has(chain, c) /\ c # Last(chain)
  BY <1>1, Fronted
<1> QED BY <1>1, <1>2 DEF Cur, StackInv

LEMMA StackSame ==
    ASSUME StackInv, UNCHANGED <<chain, cosStack, status, usrwait, cosFree, reason>>
    PROVE  StackInv'
BY DEF StackInv, StackTypes, Waits

LEMMA Started ==
    ASSUME StackInv, NEW call, Exec(call), UNCHANGED reason
    PROVE  StackInv' /\ usrwait' = usrwait
<1> PICK c \in Co :
        /\ IF cosFree # << >> THEN c = Head(cosFree) ELSE Unused(c)
        /\ cosFree' = IF cosFree # << >> THEN Tail(cosFree) ELSE << >>
        /\ status' = [status EXCEPT ![c] = "busy"] /\ usrwait' = [usrwait EXCEPT ![c] = NoWait]
        /\ chain' = Append(chain, c) /\ cosStack' = Append(cosStack, c)
  BY DEF Exec
<1>1. StackTypes /\ cosStack = chain /\ OnceIn(chain) /\ OnceIn(cosFree)
  BY DEF StackInv
<1>2. status[c] # "busy" /\ cosFree' \in Seq(Co) /\ OnceIn(cosFree)'
      /\ \A d : Has(cosFree, d)' => Has(cosFree, d) /\ d # c
  <2>1. CASE cosFree = << >>
    <3>1. cosFree' = << >>
      BY <2>1
    <3>2. Len(<< >>) = 0
      OBVIOUS
    <3> QED BY <2>1, <3>1, <3>2 DEF Unused, OnceIn, Has
  <2>2. CASE cosFree # << >>
    <3>1. cosFree \in Seq(Co)
      BY <1>1 DEF StackTypes
    <3>2. /\ Tail(cosFree) \in Seq(Co) /\ OnceIn(Tail(cosFree)) /\ Has(cosFree, Head(cosFree))
          /\ \A d : Has(Tail(cosFree), d) <=> Has(cosFree, d) /\ d # Head(cosFree)
      BY <1>1, <2>2, <3>1, Popped
    <3>3. c = Head(cosFree) /\ cosFree' = Tail(cosFree)
      BY <2>2
    <3>4. status[c] = "free"
      BY <3>2, <3>3 DEF StackInv
    <3> QED BY <3>2, <3>3, <3>4
  <2> QED BY <2>1, <2>2
<1>3. reason[c] = <<"none">> /\ usrwait[c] = NoWait /\ ~Has(chain, c)
  BY <1>2, Suspended DEF StackInv
<1>4. usrwait' = usrwait
  BY <1>1, <1>3 DEF StackTypes
<1>5. /\ chain' \in Seq(Co) /\ OnceIn(chain') /\ cosStack' = chain'
      /\ \A d : Has(chain', d) <=> Has(chain, d) \/ d = c
  <2>1. chain \in Seq(Co)
    BY <1>1 DEF StackTypes
  <2> QED BY <1>1, <1>3, <2>1, Pushed
<1>6. StackTypes'
  BY <1>1, <1>2, <1>4, <1>5 DEF StackTypes
<1>7. \A d \in Co : Has(chain, d)' => /\ status'[d] = "busy" /\ usrwait'[d] = NoWait
                                      /\ reason'[d] = <<"none">>
  BY <1>1, <1>3, <1>4, <1>5 DEF StackInv, StackTypes
<1>8. \A d \in Co : Has(cosFree, d)' => status'[d] = "free"
  BY <1>1, <1>2 DEF StackInv, StackTypes
<1>9. \A d \in Co : reason'[d] # <<"none">> => status'[d] = "busy"
  BY <1>1, <1>3 DEF StackInv, StackTypes
<1>10. \A d \in Co : usrwait'[d] # NoWait => reason'[d] = Waits(d)'
  BY <1>4 DEF StackInv, Waits
<1> QED BY <1>2, <1>4, <1>5, <1>6, <1>7, <1>8, <1>9, <1>10 DEF StackInv

(* usrwait may be reset before, as wakeup and the end of a sleep do.       *)
LEMMA Resumed ==
    ASSUME StackInv, NEW c \in Co, NEW w, Resume(c, w), reason[c] = w, w # <<"none">>,
           usrwait' = [usrwait EXCEPT ![c] = NoWait], UNCHANGED <<status, cosFree>>
    PROVE  StackInv' /\ (~misfire => ~misfire') /\ reason' = [reason EXCEPT ![c] = <<"none">>]
<1>1. /\ StackTypes /\ cosStack = chain /\ OnceIn(chain) /\ OnceIn(cosFree) /\ chain \in Seq(Co)
      /\ chain' = Append(chain, c) /\ cosStack' = Append(cosStack, c)
      /\ reason' = [reason EXCEPT ![c] = <<"none">>] /\ status' = status /\ cosFree' = cosFree
  BY DEF StackInv, Resume, StackTypes
<1>2. status[c] = "busy" /\ ~Has(chain, c) /\ ~Has(cosFree, c)
  BY Suspended
<1>3. ~misfire => ~misfire'
  <2>1. misfire' = (misfire \/ reason[c] # w)
    BY DEF Resume
  <2> QED BY <2>1
<1>5. /\ chain' \in Seq(Co) /\ OnceIn(chain') /\ cosStack' = chain'
      /\ \A d : Has(chain', d) <=> Has(chain, d) \/ d = c
  BY <1>1, <1>2, Pushed
<1>6. StackTypes'
  BY <1>1, <1>5 DEF StackTypes, Reasons
<1>7. \A d \in Co : Has(chain, d)' => /\ status'[d] = "busy" /\ usrwait'[d] = NoWait
                                      /\ reason'[d] = <<"none">>
  BY <1>1, <1>2, <1>5 DEF StackInv, StackTypes
<1>8. \A d \in Co : Has(cosFree, d)' => status'[d] = "free"
  BY <1>1 DEF StackInv
<1>9. \A d \in Co : reason'[d] # <<"none">> => status'[d] = "busy"
  BY <1>1, <1>2 DEF StackInv, StackTypes
<1>10. \A d \in Co : usrwait'[d] # NoWait => reason'[d] = Waits(d)'
  BY <1>1 DEF StackInv, StackTypes, Waits
<1> QED BY <1>1, <1>3, <1>5, <1>6, <1>7, <1>8, <1>9, <1>10 DEF StackInv

LEMMA SuspendedNow ==
    ASSUME StackInv, Runs, NEW w \in Reasons, NEW u \in {NoWait, UsrWait} \union Id, Suspend(w),
           usrwait' = [usrwait EXCEPT ![Cur] = u], UNCHANGED <<status, cosFree>>,
           w # <<"none">>, u # NoWait => w = IF u = UsrWait THEN <<"wait">> ELSE <<"sleep", u>>
    PROVE  StackInv' /\ reason' = [reason EXCEPT ![Cur] = w]
<1> DEFINE k == Cur
<1>1. /\ k \in Co /\ k = Last(chain) /\ Has(chain, k) /\ Front(chain) \in Seq(Co)
      /\ OnceIn(Front(chain)) /\ Front(cosStack) = Front(chain)
      /\ \A c : Has(Front(chain), c) <=> Has(chain, c) /\ c # k
      /\ status[k] = "busy" /\ usrwait[k] = NoWait /\ reason[k] = <<"none">>
  BY RunningCo
<1>2. usrwait' = [usrwait EXCEPT ![k] = u]
  OBVIOUS
<1> HIDE DEF k
<1>3. /\ StackTypes /\ OnceIn(cosFree) /\ chain' = Front(chain) /\ cosStack' = chain'
      /\ reason' = [reason EXCEPT ![k] = w] /\ status' = status /\ cosFree' = cosFree
  BY <1>1 DEF StackInv, Suspend
<1>6. StackTypes'
  BY <1>1, <1>2, <1>3 DEF StackTypes
<1>7. \A d \in Co : Has(chain, d)' => /\ status'[d] = "busy" /\ usrwait'[d] = NoWait
                                      /\ reason'[d] = <<"none">>
  BY <1>1, <1>2, <1>3 DEF StackInv, StackTypes
<1>8. \A d \in Co : Has(cosFree, d)' => status'[d] = "free"
  BY <1>3 DEF StackInv
<1>9. \A d \in Co : reason'[d] # <<"none">> => status'[d] = "busy"
  BY <1>1, <1>3 DEF StackInv, StackTypes
<1>10. \A d \in Co : usrwait'[d] # NoWait => reason'[d] = Waits(d)'
  BY <1>1, <1>2, <1>3 DEF StackInv, StackTypes, Waits
<1> QED BY <1>1, <1>3, <1>6, <1>7, <1>8, <1>9, <1>10 DEF StackInv, k
LEMMA Left ==
    ASSUME StackInv, Runs, NEW s \in {"none", "free", "dead"},
           status' = [status EXCEPT ![Cur] = s],
           cosFree' = IF s = "free" THEN Append(cosFree, Cur) ELSE cosFree,
           chain' = Front(chain), cosStack' = Front(cosStack), UNCHANGED <<usrwait, reason>>
    PROVE  StackInv'
<1> DEFINE k == Cur
<1>1. /\ k \in Co /\ k = Last(chain) /\ Has(chain, k) /\ Front(chain) \in Seq(Co)
      /\ OnceIn(Front(chain)) /\ Front(cosStack) = Front(chain)
      /\ \A c : Has(Front(chain), c) <=> Has(chain, c) /\ c # k
      /\ status[k] = "busy" /\ usrwait[k] = NoWait /\ reason[k] = <<"none">>
  BY RunningCo
<1>2. /\ status' = [status EXCEPT ![k] = s]
      /\ cosFree' = IF s = "free" THEN Append(cosFree, k) ELSE cosFree
  OBVIOUS
<1> HIDE DEF k
<1>3. /\ StackTypes /\ cosStack' = chain' /\ chain' = Front(chain) /\ OnceIn(cosFree)
      /\ usrwait' = usrwait /\ reason' = reason
  BY <1>1 DEF StackInv
<1>4. cosFree' \in Seq(Co) /\ OnceIn(cosFree') /\ \A c : Has(cosFree', c) =>
                                       Has(cosFree, c) \/ (c = k /\ s = "free")
  <2>1. cosFree \in Seq(Co) /\ ~Has(cosFree, k)
    BY <1>1, <1>3 DEF StackInv, StackTypes
  <2>2. /\ Append(cosFree, k) \in Seq(Co) /\ OnceIn(Append(cosFree, k))
        /\ \A d : Has(Append(cosFree, k), d) <=> Has(cosFree, d) \/ d = k
    BY <1>1, <1>3, <2>1, Pushed
  <2> QED BY <1>2, <1>3, <2>1, <2>2
<1>6. StackTypes'
  BY <1>1, <1>2, <1>3, <1>4 DEF StackTypes
<1>7. \A d \in Co : Has(chain, d)' => /\ status'[d] = "busy" /\ usrwait'[d] = NoWait
                                      /\ reason'[d] = <<"none">>
  BY <1>1, <1>2, <1>3 DEF StackInv, StackTypes
<1>8. \A d \in Co : Has(cosFree, d)' => status'[d] = "free"
  BY <1>1, <1>2, <1>3, <1>4 DEF StackInv, StackTypes
<1>9. \A d \in Co : reason'[d] # <<"none">> => status'[d] = "busy"
  BY <1>1, <1>2, <1>3 DEF StackInv, StackTypes
<1>10. \A d \in Co : usrwait'[d] # NoWait => reason'[d] = Waits(d)'
  BY <1>3 DEF StackInv, Waits
<1> QED BY <1>1, <1>3, <1>4, <1>6, <1>7, <1>8, <1>9, <1>10 DEF StackInv

-----------------------------------------------------------------------------
LEMMA IdsSame ==
    ASSUME IdInv, UNCHANGED <<idVars, timers, selfmsgs, reason, usrwait>>
    PROVE  IdInv'
BY DEF IdInv, IdTypes, idVars, InUse, SelfmsgFinds, TimerFinds

(* The id at hand is in no use, and the next one is another in no use.     *)
LEMMA FreshId ==
    ASSUME IdInv
    PROVE  /\ tmIdCnt \in Id /\ cosYield[tmIdCnt] = None /\ scheds[tmIdCnt] = "none"
           /\ tmIdCnt \notin sleepBreak
           /\ \A c \in Co : usrwait[c] # tmIdCnt
           /\ \A m \in SelfMsg : Has(selfmsgs, m) => m.id # tmIdCnt
           /\ IdIn(timers, tmIdCnt) => tmIdCnt \in tmouts
<1>1. tmIdCnt \in Id /\ cosYield[tmIdCnt] = None /\ scheds[tmIdCnt] = "none"
  BY DEF IdInv, IdTypes, InUse
<1>2. None \notin Co /\ None # Fork
  BY CoroutineAssumption
<1>3. tmIdCnt \notin sleepBreak /\ \A c \in Co : usrwait[c] # tmIdCnt
  BY <1>1, <1>2 DEF IdInv
<1>4. ASSUME NEW m \in SelfMsg, Has(selfmsgs, m) PROVE m.id # tmIdCnt
  BY <1>1, <1>2, <1>4 DEF IdInv, SelfmsgFinds
<1>5. IdIn(timers, tmIdCnt) => tmIdCnt \in tmouts
  BY <1>1, <1>2 DEF IdInv, TimerFinds
<1> QED BY <1>1, <1>3, <1>4, <1>5

LEMMA FollowingId ==
    ASSUME IdInv, GenTmId
    PROVE  tmIdCnt' \in Id /\ tmIdCnt' # tmIdCnt /\ ~InUse(tmIdCnt')
<1>1. PICK n \in 1 .. MaxTmId - 1 : ~InUse(Following(n)) /\ tmIdCnt' = Following(n)
  BY DEF GenTmId
<1>2. PICK M \in Nat \ {0} : M = MaxTmId
  BY CoroutineAssumption
<1>3. PICK i \in 1 .. M : i = tmIdCnt
  BY <1>2 DEF IdInv, IdTypes, Id
<1>4. (i - 1 + n) % M = IF i - 1 + n < M THEN i - 1 + n ELSE i - 1 + n - M
  <2>1. n \in 1 .. M - 1
    BY <1>2
  <2> QED BY <2>1
<1>5. tmIdCnt' = IF i - 1 + n < M THEN i + n ELSE i + n - M
  BY <1>1, <1>2, <1>3, <1>4 DEF Following
<1>6. n \in 1 .. M - 1
  BY <1>2
<1> QED BY <1>1, <1>2, <1>3, <1>5, <1>6 DEF Id

(* The old ids under the new ones.                                         *)
LEMMA IdSleep ==
    ASSUME StackInv, IdInv, Runs, GenTmId, timers' = Append(timers, [id |-> tmIdCnt, left |-> 0]),
           usrwait' = [usrwait EXCEPT ![Cur] = tmIdCnt],
           cosYield' = [cosYield EXCEPT ![tmIdCnt] = Cur],
           reason' = [reason EXCEPT ![Cur] = <<"sleep", tmIdCnt>>],
           UNCHANGED <<sleepBreak, tmouts, scheds, selfmsgs>>
    PROVE  IdInv'
<1>1. PICK i \in Id : i = tmIdCnt
  BY DEF IdInv, IdTypes
<1>2. PICK j \in Id : j = tmIdCnt' /\ j # i /\ ~InUse(j)
  BY <1>1, FollowingId
<1>3. PICK k \in Co : k = Cur /\ usrwait[k] = NoWait /\ reason[k] = <<"none">>
  BY RunningCo
<1>4. /\ cosYield[i] = None /\ scheds[i] = "none" /\ i \notin sleepBreak
      /\ \A c \in Co : usrwait[c] # i
      /\ \A m \in SelfMsg : Has(selfmsgs, m) => m.id # i
      /\ IdIn(timers, i) => i \in tmouts
  BY <1>1, FreshId
<1>5. /\ usrwait' = [usrwait EXCEPT ![k] = i] /\ cosYield' = [cosYield EXCEPT ![i] = k]
      /\ reason' = [reason EXCEPT ![k] = <<"sleep", i>>]
      /\ timers' = Append(timers, [id |-> i, left |-> 0]) /\ tmIdCnt' = j
      /\ sleepBreak' = sleepBreak /\ tmouts' = tmouts /\ scheds' = scheds /\ selfmsgs' = selfmsgs
  BY <1>1, <1>2, <1>3
<1>6. /\ StackTypes /\ IdTypes /\ None \notin Co /\ Fork \notin Co /\ NoWait \notin Id
      /\ [id |-> i, left |-> 0] \in TimerMsg
  BY CoroutineAssumption, IdsOfTimers DEF StackInv, IdInv, TimerMsg
<1>7. /\ timers' \in Seq(TimerMsg) /\ OneUse(timers', tmouts)
      /\ \A n : IdIn(timers', n) <=> IdIn(timers, n) \/ n = i
  <2>1. timers \in Seq(TimerMsg) /\ OneUse(timers, tmouts)
    BY <1>6 DEF IdTypes, IdInv
  <2> QED BY <1>4, <1>5, <1>6, <2>1, Armed
<1>8. IdTypes' /\ ~InUse(tmIdCnt)'
  BY <1>2, <1>5, <1>6, <1>7 DEF IdTypes, InUse
<1>9. /\ \A n \in Id : cosYield'[n] = None \/ scheds'[n] = "none"
      /\ \A n \in sleepBreak' : cosYield'[n] \in Co
  BY <1>4, <1>5, <1>6 DEF IdTypes, IdInv
<1>10. \A c \in Co : usrwait'[c] \in Id => /\ cosYield'[usrwait'[c]] = c
                                           /\ usrwait'[c] \notin sleepBreak'
  BY <1>3, <1>4, <1>5, <1>6 DEF IdTypes, StackTypes, IdInv
<1>11. \A m \in SelfMsg : Has(selfmsgs, m)' => SelfmsgFinds(m)'
  <2> SUFFICES ASSUME NEW m \in SelfMsg, Has(selfmsgs, m) PROVE SelfmsgFinds(m)'
    BY <1>5
  <2>1. m.id # i /\ SelfmsgFinds(m) /\ m.id \in Id
    BY <1>4 DEF IdInv, SelfMsg
  <2>2. cosYield'[m.id] = cosYield[m.id] /\ (cosYield[m.id] = k => m.kind = Fork)
    BY <1>3, <1>5, <1>6, <2>1, ReasonsDiffer DEF IdTypes, SelfmsgFinds
  <2> QED BY <1>5, <1>6, <2>1, <2>2 DEF SelfmsgFinds, StackTypes
<1>12. \A n \in Id : IdIn(timers, n)' /\ n \notin tmouts' => TimerFinds(n)'
  <2> SUFFICES ASSUME NEW n \in Id, IdIn(timers, n) \/ n = i, n \notin tmouts PROVE TimerFinds(n)'
    BY <1>5, <1>7
  <2>1. CASE n = i
    BY <1>4, <1>5, <1>6, <2>1 DEF TimerFinds, IdTypes, StackTypes
  <2>2. CASE n # i
    <3>1. TimerFinds(n) /\ cosYield'[n] = cosYield[n]
      BY <1>5, <1>6, <2>2 DEF IdInv, IdTypes
    <3> QED BY <1>3, <1>5, <1>6, <3>1 DEF TimerFinds, StackTypes
  <2> QED BY <2>1, <2>2
<1>13. OnceIn(selfmsgs)' /\ \A m, n \in SelfMsg :
          Has(selfmsgs, m)' /\ Has(selfmsgs, n)' /\ m.id = n.id => m = n
  BY <1>5 DEF IdInv
<1> QED BY <1>5, <1>7, <1>8, <1>9, <1>10, <1>11, <1>12, <1>13 DEF IdInv

LEMMA IdTimeout ==
    ASSUME IdInv, GenTmId, timers' = Append(timers, [id |-> tmIdCnt, left |-> 0]),
           tmouts' = tmouts \union {tmIdCnt},
           UNCHANGED <<usrwait, reason, cosYield, sleepBreak, scheds, selfmsgs>>
    PROVE  IdInv'
<1>1. PICK i \in Id : i = tmIdCnt
  BY DEF IdInv, IdTypes
<1>2. PICK j \in Id : j = tmIdCnt' /\ j # i /\ ~InUse(j)
  BY <1>1, FollowingId
<1>3. /\ timers' = Append(timers, [id |-> i, left |-> 0]) /\ tmIdCnt' = j
      /\ tmouts' = tmouts \union {i} /\ usrwait' = usrwait /\ reason' = reason
      /\ cosYield' = cosYield /\ sleepBreak' = sleepBreak /\ scheds' = scheds
      /\ selfmsgs' = selfmsgs /\ IdTypes /\ [id |-> i, left |-> 0] \in TimerMsg
  BY <1>1, <1>2 DEF IdInv, TimerMsg
<1>4. /\ timers' \in Seq(TimerMsg) /\ OneUse(timers', tmouts')
      /\ \A n : IdIn(timers', n) <=> IdIn(timers, n) \/ n = i
  <2>1. timers \in Seq(TimerMsg) /\ OneUse(timers, tmouts')
    BY <1>3 DEF IdTypes, IdInv, OneUse
  <2>2. i \in tmouts'
    BY <1>3
  <2> QED BY <1>3, <2>1, <2>2, Armed
<1>5. IdTypes' /\ ~InUse(tmIdCnt)'
  BY <1>2, <1>3, <1>4 DEF IdTypes, InUse
<1>6. \A m \in SelfMsg : Has(selfmsgs, m)' => SelfmsgFinds(m)'
  BY <1>3 DEF IdInv, SelfmsgFinds
<1>7. \A n \in Id : IdIn(timers, n)' /\ n \notin tmouts' => TimerFinds(n)'
  BY <1>3, <1>4 DEF IdInv, TimerFinds
<1> QED BY <1>3, <1>4, <1>5, <1>6, <1>7 DEF IdInv

LEMMA IdSchedule ==
    ASSUME IdInv, GenTmId, timers' = Append(timers, [id |-> tmIdCnt, left |-> Firings - 1]),
           scheds' = [scheds EXCEPT ![tmIdCnt] = "active"],
           UNCHANGED <<usrwait, reason, cosYield, sleepBreak, tmouts, selfmsgs>>
    PROVE  IdInv'
<1>1. PICK i \in Id : i = tmIdCnt
  BY DEF IdInv, IdTypes
<1>2. PICK j \in Id : j = tmIdCnt' /\ j # i /\ ~InUse(j)
  BY <1>1, FollowingId
<1>3. PICK f \in Int : f = Firings - 1
  BY CoroutineAssumption
<1>4. /\ cosYield[i] = None /\ \A m \in SelfMsg : Has(selfmsgs, m) => m.id # i
      /\ IdIn(timers, i) => i \in tmouts
  BY <1>1, FreshId
<1>5. /\ timers' = Append(timers, [id |-> i, left |-> f]) /\ tmIdCnt' = j
      /\ scheds' = [scheds EXCEPT ![i] = "active"] /\ usrwait' = usrwait /\ reason' = reason
      /\ cosYield' = cosYield /\ sleepBreak' = sleepBreak /\ tmouts' = tmouts
      /\ selfmsgs' = selfmsgs /\ IdTypes /\ [id |-> i, left |-> f] \in TimerMsg
  BY <1>1, <1>2, <1>3 DEF IdInv, TimerMsg
<1>6. /\ timers' \in Seq(TimerMsg) /\ OneUse(timers', tmouts')
      /\ \A n : IdIn(timers', n) <=> IdIn(timers, n) \/ n = i
  <2>1. timers \in Seq(TimerMsg) /\ OneUse(timers, tmouts)
    BY <1>5 DEF IdTypes, IdInv
  <2> QED BY <1>4, <1>5, <2>1, Armed
<1>7. IdTypes' /\ ~InUse(tmIdCnt)' /\ \A n \in Id : cosYield'[n] = None \/ scheds'[n] = "none"
  BY <1>2, <1>4, <1>5, <1>6 DEF IdTypes, InUse, IdInv
<1>8. \A m \in SelfMsg : Has(selfmsgs, m)' => SelfmsgFinds(m)'
  <2> SUFFICES ASSUME NEW m \in SelfMsg, Has(selfmsgs, m) PROVE SelfmsgFinds(m)'
    BY <1>5
  <2>1. m.id # i /\ SelfmsgFinds(m) /\ m.id \in Id
    BY <1>4 DEF IdInv, SelfMsg
  <2> QED BY <1>5, <2>1 DEF SelfmsgFinds, IdTypes
<1>9. \A n \in Id : IdIn(timers, n)' /\ n \notin tmouts' => TimerFinds(n)'
  <2> SUFFICES ASSUME NEW n \in Id, IdIn(timers, n) \/ n = i, n \notin tmouts PROVE TimerFinds(n)'
    BY <1>5, <1>6
  <2>1. CASE n = i
    BY <1>4, <1>5, <2>1 DEF TimerFinds, IdTypes
  <2>2. CASE n # i
    BY <1>5, <2>2 DEF TimerFinds, IdInv, IdTypes
  <2> QED BY <2>1, <2>2
<1> QED BY <1>5, <1>6, <1>7, <1>8, <1>9 DEF IdInv

(* A yield, or a fork when f holds.                                        *)
LEMMA IdSelfmsg ==
    ASSUME StackInv, IdInv, Runs, GenTmId, NEW f \in BOOLEAN,
           selfmsgs' = Append(selfmsgs, [id |-> tmIdCnt, kind |-> IF f THEN Fork ELSE "yield"]),
           cosYield' = [cosYield EXCEPT ![tmIdCnt] = IF f THEN Fork ELSE Cur],
           reason' = IF f THEN reason ELSE [reason EXCEPT ![Cur] = <<"yield", tmIdCnt>>],
           UNCHANGED <<usrwait, sleepBreak, tmouts, scheds, timers>>
    PROVE  IdInv'
<1>1. PICK i \in Id : i = tmIdCnt
  BY DEF IdInv, IdTypes
<1>2. PICK j \in Id : j = tmIdCnt' /\ j # i /\ ~InUse(j)
  BY <1>1, FollowingId
<1>3. PICK k \in Co : k = Cur /\ usrwait[k] = NoWait /\ reason[k] = <<"none">>
  BY RunningCo
<1>4. /\ cosYield[i] = None /\ scheds[i] = "none" /\ i \notin sleepBreak
      /\ \A c \in Co : usrwait[c] # i
      /\ \A m \in SelfMsg : Has(selfmsgs, m) => m.id # i
      /\ IdIn(timers, i) => i \in tmouts
  BY <1>1, FreshId
<1> DEFINE e == [id |-> i, kind |-> IF f THEN Fork ELSE "yield"]
<1>5. /\ selfmsgs' = Append(selfmsgs, e) /\ cosYield' = [cosYield EXCEPT ![i] = IF f THEN Fork ELSE k]
      /\ reason' = IF f THEN reason ELSE [reason EXCEPT ![k] = <<"yield", i>>]
      /\ usrwait' = usrwait /\ timers' = timers /\ tmIdCnt' = j
      /\ sleepBreak' = sleepBreak /\ tmouts' = tmouts /\ scheds' = scheds
  BY <1>1, <1>2, <1>3
<1>6. /\ StackTypes /\ IdTypes /\ None \notin Co /\ Fork \notin Co /\ None # Fork
      /\ e \in SelfMsg /\ e.id = i /\ e.kind = (IF f THEN Fork ELSE "yield") /\ "yield" # Fork
  BY CoroutineAssumption DEF StackInv, IdInv, SelfMsg, Fork
<1> HIDE DEF e
<1>7. /\ selfmsgs' \in Seq(SelfMsg) /\ OnceIn(selfmsgs')
      /\ \A m : Has(selfmsgs', m) <=> Has(selfmsgs, m) \/ m = e
  <2>1. selfmsgs \in Seq(SelfMsg) /\ OnceIn(selfmsgs) /\ ~Has(selfmsgs, e)
    BY <1>4, <1>6 DEF IdTypes, IdInv
  <2> QED BY <1>5, <1>6, <2>1, Pushed
<1>8. IdTypes' /\ ~InUse(tmIdCnt)'
  BY <1>2, <1>5, <1>6, <1>7 DEF IdTypes, InUse
<1>9. /\ \A n \in Id : cosYield'[n] = None \/ scheds'[n] = "none"
      /\ \A n \in sleepBreak' : cosYield'[n] \in Co
  BY <1>4, <1>5, <1>6 DEF IdTypes, IdInv
<1>10. \A c \in Co : usrwait'[c] \in Id => /\ cosYield'[usrwait'[c]] = c
                                           /\ usrwait'[c] \notin sleepBreak'
  BY <1>4, <1>5, <1>6 DEF IdTypes, IdInv
<1>11. \A m \in SelfMsg : Has(selfmsgs, m)' => SelfmsgFinds(m)'
  <2> SUFFICES ASSUME NEW m \in SelfMsg, Has(selfmsgs, m) \/ m = e PROVE SelfmsgFinds(m)'
    BY <1>7
  <2>1. CASE m = e
    <3>1. CASE f
      BY <1>4, <1>5, <1>6, <2>1, <3>1 DEF IdTypes, SelfmsgFinds
    <3>2. CASE ~f
      <4>1. cosYield'[i] = k /\ reason'[k] = <<"yield", i>>
        BY <1>5, <1>6, <3>2 DEF IdTypes, StackTypes
      <4>2. m.id = i /\ m.kind # Fork /\ scheds'[i] = "none" /\ i \notin sleepBreak'
        BY <1>4, <1>5, <1>6, <2>1, <3>2
      <4> QED BY <4>1, <4>2 DEF SelfmsgFinds
    <3> QED BY <3>1, <3>2
  <2>2. CASE m # e
    <3>1. m.id # i /\ SelfmsgFinds(m) /\ m.id \in Id
      BY <1>4, <2>2 DEF IdInv, SelfMsg
    <3>2. cosYield'[m.id] = cosYield[m.id] /\ (cosYield[m.id] = k => m.kind = Fork)
      BY <1>3, <1>5, <1>6, <3>1, ReasonsDiffer DEF IdTypes, SelfmsgFinds
    <3> QED BY <1>5, <1>6, <3>1, <3>2 DEF SelfmsgFinds, StackTypes
  <2> QED BY <2>1, <2>2
<1>12. \A n \in Id : IdIn(timers, n)' /\ n \notin tmouts' => TimerFinds(n)'
  <2> SUFFICES ASSUME NEW n \in Id, IdIn(timers, n), n \notin tmouts PROVE TimerFinds(n)'
    BY <1>5
  <2>1. n # i /\ TimerFinds(n) /\ cosYield'[n] = cosYield[n]
    BY <1>4, <1>5, <1>6 DEF IdInv, IdTypes
  <2>2. \A m \in SelfMsg : Has(selfmsgs', m) => m.id # n
    BY <1>6, <1>7, <2>1 DEF TimerFinds
  <2> QED BY <1>5, <2>1, <2>2 DEF TimerFinds
<1>13. \A m, n \in SelfMsg : Has(selfmsgs, m)' /\ Has(selfmsgs, n)' /\ m.id = n.id => m = n
  BY <1>4, <1>6, <1>7 DEF IdInv
<1>14. OneUse(timers, tmouts)' /\ OnceIn(selfmsgs)'
  BY <1>5, <1>7 DEF IdInv
<1> QED BY <1>8, <1>9, <1>10, <1>11, <1>12, <1>13, <1>14 DEF IdInv

LEMMA IdUnschedule ==
    ASSUME IdInv, NEW i \in Id, scheds[i] = "active", scheds' = [scheds EXCEPT ![i] = "stopped"],
           UNCHANGED <<usrwait, reason, cosYield, sleepBreak, tmouts, selfmsgs, timers, tmIdCnt>>
    PROVE  IdInv'
<1>1. /\ IdTypes /\ usrwait' = usrwait /\ reason' = reason /\ cosYield' = cosYield
      /\ sleepBreak' = sleepBreak /\ tmouts' = tmouts /\ selfmsgs' = selfmsgs
      /\ timers' = timers /\ tmIdCnt' = tmIdCnt
  BY DEF IdInv
<1>2. IdTypes' /\ ~InUse(tmIdCnt)' /\ \A n \in Id : scheds'[n] = "none" <=> scheds[n] = "none"
  BY <1>1 DEF IdTypes, IdInv, InUse
<1>3. \A m \in SelfMsg : Has(selfmsgs, m)' => SelfmsgFinds(m)'
  BY <1>1, <1>2 DEF IdInv, SelfmsgFinds, SelfMsg
<1>4. \A n \in Id : IdIn(timers, n)' /\ n \notin tmouts' => TimerFinds(n)'
  BY <1>1, <1>2 DEF IdInv, TimerFinds
<1> QED BY <1>1, <1>2, <1>3, <1>4 DEF IdInv

(* The one woken goes on; the timer of a sleep it broke off is to come.    *)
LEMMA IdWakeup ==
    ASSUME StackInv, IdInv, NEW c \in Co, usrwait[c] # NoWait,
           usrwait' = [usrwait EXCEPT ![c] = NoWait], reason' = [reason EXCEPT ![c] = <<"none">>],
           sleepBreak' = IF usrwait[c] = UsrWait THEN sleepBreak
                         ELSE sleepBreak \union {usrwait[c]},
           UNCHANGED <<cosYield, tmouts, scheds, selfmsgs, timers, tmIdCnt>>
    PROVE  IdInv'
<1>1. /\ StackTypes /\ IdTypes /\ NoWait \notin Id /\ UsrWait \notin Id
      /\ cosYield' = cosYield /\ tmouts' = tmouts /\ scheds' = scheds
      /\ selfmsgs' = selfmsgs /\ timers' = timers /\ tmIdCnt' = tmIdCnt
  BY IdsOfTimers DEF StackInv, IdInv
<1>2. reason[c] = Waits(c)
  BY DEF StackInv
<1>3. \A i : reason[c] # <<"yield", i>>
  BY <1>2, ReasonsDiffer DEF Waits
<1>4. \A i \in sleepBreak' : i \in sleepBreak \/ (i = usrwait[c] /\ i \in Id /\ cosYield[i] = c)
  BY <1>1 DEF StackTypes, IdInv
<1>5. IdTypes' /\ ~InUse(tmIdCnt)'
  BY <1>1, <1>4 DEF IdTypes, InUse, IdInv
<1>6. \A i \in sleepBreak' : cosYield'[i] \in Co
  BY <1>1, <1>4 DEF IdInv
<1>7. \A d \in Co : usrwait'[d] \in Id => /\ cosYield'[usrwait'[d]] = d
                                          /\ usrwait'[d] \notin sleepBreak'
  BY <1>1, <1>4 DEF IdInv, StackTypes
<1>8. \A m \in SelfMsg : Has(selfmsgs, m)' => SelfmsgFinds(m)'
  <2> SUFFICES ASSUME NEW m \in SelfMsg, Has(selfmsgs, m) PROVE SelfmsgFinds(m)'
    BY <1>1
  <2>1. SelfmsgFinds(m) /\ Fork \notin Co
    BY CoroutineAssumption DEF IdInv
  <2>2. m.id \notin sleepBreak'
    BY <1>3, <1>4, <2>1 DEF SelfmsgFinds
  <2>3. m.kind # Fork => cosYield[m.id] # c
    BY <1>3, <2>1 DEF SelfmsgFinds
  <2> QED BY <1>1, <2>1, <2>2, <2>3 DEF SelfmsgFinds, StackTypes
<1>9. \A n \in Id : IdIn(timers, n)' /\ n \notin tmouts' => TimerFinds(n)'
  <2> SUFFICES ASSUME NEW n \in Id, IdIn(timers, n), n \notin tmouts PROVE TimerFinds(n)'
    BY <1>1
  <2>1. TimerFinds(n)
    BY DEF IdInv
  <2>2. sleepBreak \subseteq sleepBreak' /\ (n = usrwait[c] => n \in sleepBreak')
    BY <1>1
  <2> QED BY <1>1, <2>1, <2>2 DEF TimerFinds, StackTypes
<1> QED BY <1>1, <1>5, <1>6, <1>7, <1>8, <1>9 DEF IdInv

(* A message to itself has come: its id is free again.                     *)
LEMMA IdSelfmsgTaken ==
    ASSUME StackInv, IdInv, selfmsgs # << >>, selfmsgs' = Tail(selfmsgs),
           cosYield' = [cosYield EXCEPT ![Head(selfmsgs).id] = None],
           \/ UNCHANGED reason
           \/ \E c \in Co : /\ reason[c] = <<"yield", Head(selfmsgs).id>>
                            /\ reason' = [reason EXCEPT ![c] = <<"none">>],
           UNCHANGED <<usrwait, sleepBreak, tmouts, scheds, timers, tmIdCnt>>
    PROVE  IdInv' /\ SelfmsgFinds(Head(selfmsgs)) /\ Head(selfmsgs) \in SelfMsg
<1> DEFINE e == Head(selfmsgs)
<1>1. StackTypes /\ IdTypes /\ OnceIn(selfmsgs) /\ selfmsgs \in Seq(SelfMsg)
  BY DEF StackInv, IdInv, IdTypes
<1>2. /\ Tail(selfmsgs) \in Seq(SelfMsg) /\ OnceIn(Tail(selfmsgs)) /\ e \in SelfMsg
      /\ Has(selfmsgs, e) /\ \A m : Has(Tail(selfmsgs), m) <=> Has(selfmsgs, m) /\ m # e
  BY <1>1, Popped
<1> HIDE DEF e
<1>3. PICK i \in Id : i = e.id
  BY <1>2 DEF SelfMsg
<1>4. SelfmsgFinds(e)
  BY <1>2 DEF IdInv
<1>5. /\ cosYield' = [cosYield EXCEPT ![i] = None] /\ selfmsgs' = Tail(selfmsgs)
      /\ usrwait' = usrwait /\ sleepBreak' = sleepBreak /\ tmouts' = tmouts
      /\ scheds' = scheds /\ timers' = timers /\ tmIdCnt' = tmIdCnt
  BY <1>3 DEF e
<1>5a. \/ reason' = reason
       \/ \E c \in Co : /\ reason[c] = <<"yield", i>>
                        /\ reason' = [reason EXCEPT ![c] = <<"none">>]
  BY <1>3 DEF e
<1>6. i \notin sleepBreak
  BY <1>3, <1>4 DEF SelfmsgFinds
<1>7. \A m \in SelfMsg : Has(selfmsgs', m) => Has(selfmsgs, m) /\ m.id # i
  BY <1>2, <1>3, <1>5 DEF IdInv
<1>8. IdTypes' /\ ~InUse(tmIdCnt)' /\ OnceIn(selfmsgs)'
  <2>1. IdTypes'
    BY <1>1, <1>2, <1>5 DEF IdTypes
  <2>2. ~InUse(tmIdCnt)'
    BY <1>1, <1>5 DEF IdTypes, InUse, IdInv
  <2> QED BY <1>2, <1>5, <2>1, <2>2
<1>9. /\ \A n \in Id : cosYield'[n] = None \/ scheds'[n] = "none"
      /\ \A n \in sleepBreak' : cosYield'[n] \in Co
  BY <1>1, <1>5, <1>6 DEF IdTypes, IdInv
<1>10. \A c \in Co : usrwait'[c] \in Id => /\ cosYield'[usrwait'[c]] = c
                                           /\ usrwait'[c] \notin sleepBreak'
  <2> SUFFICES ASSUME NEW c \in Co, usrwait[c] \in Id
               PROVE  usrwait[c] # i
    BY <1>1, <1>5 DEF IdTypes, IdInv
  <2> SUFFICES ASSUME usrwait[c] = i PROVE FALSE
    OBVIOUS
  <2>1. cosYield[i] = c /\ reason[c] = Waits(c) /\ usrwait[c] # UsrWait
    BY IdsOfTimers DEF IdInv, StackInv
  <2>2. reason[c] = <<"sleep", i>>
    BY <2>1 DEF Waits
  <2>3. cosYield[i] # Fork
    BY <2>1, CoroutineAssumption
  <2>4. reason[c] = <<"yield", i>>
    BY <1>3, <1>4, <2>1, <2>3 DEF SelfmsgFinds
  <2> QED BY <2>2, <2>4, ReasonsDiffer
<1>11. \A m \in SelfMsg : Has(selfmsgs, m)' => SelfmsgFinds(m)'
  <2> SUFFICES ASSUME NEW m \in SelfMsg, Has(selfmsgs, m), m.id # i PROVE SelfmsgFinds(m)'
    BY <1>7
  <2>1. SelfmsgFinds(m) /\ m.id \in Id
    BY DEF IdInv, SelfMsg
  <2>2. cosYield'[m.id] = cosYield[m.id]
    BY <1>1, <1>5 DEF IdTypes
  <2>3. m.kind # Fork => reason'[cosYield[m.id]] = <<"yield", m.id>>
    <3> SUFFICES ASSUME m.kind # Fork PROVE reason'[cosYield[m.id]] = <<"yield", m.id>>
      OBVIOUS
    <3>1. cosYield[m.id] \in Co /\ reason[cosYield[m.id]] = <<"yield", m.id>>
      BY <2>1 DEF SelfmsgFinds
    <3>2. <<"yield", m.id>> # <<"yield", i>>
      BY ReasonsDiffer
    <3> QED BY <1>1, <1>5a, <3>1, <3>2 DEF StackTypes
  <2> QED BY <1>5, <2>1, <2>2, <2>3 DEF SelfmsgFinds
<1>12. \A n \in Id : IdIn(timers, n)' /\ n \notin tmouts' => TimerFinds(n)'
  <2> SUFFICES ASSUME NEW n \in Id, IdIn(timers, n), n \notin tmouts PROVE TimerFinds(n)'
    BY <1>5
  <2>1. TimerFinds(n) /\ n # i
    BY <1>2, <1>3 DEF IdInv, TimerFinds
  <2>2. cosYield'[n] = cosYield[n]
    BY <1>1, <1>5, <2>1 DEF IdTypes
  <2> QED BY <1>5, <1>7, <2>1, <2>2 DEF TimerFinds
<1>13. \A m, n \in SelfMsg : Has(selfmsgs, m)' /\ Has(selfmsgs, n)' /\ m.id = n.id => m = n
  BY <1>7 DEF IdInv
<1> QED BY <1>2, <1>4, <1>5, <1>8, <1>9, <1>10, <1>11, <1>12, <1>13 DEF IdInv, e

(* Answers of timers: a schedule goes on or is over, a timeout runs, and a *)
(* sleep ends, or ended before.                                            *)
LEMMA TimerTaken ==
    ASSUME IdInv, NEW n \in 1 .. Len(timers)
    PROVE  /\ RemoveAt(timers, n) \in Seq(TimerMsg) /\ OneUse(RemoveAt(timers, n), tmouts)
           /\ timers[n] \in TimerMsg /\ timers[n].id \in Id /\ IdIn(timers, timers[n].id)
           /\ \A i : IdIn(RemoveAt(timers, n), i) =>
                        IdIn(timers, i) /\ (i \notin tmouts => i # timers[n].id)
<1>1. timers \in Seq(TimerMsg) /\ OneUse(timers, tmouts)
  BY DEF IdInv, IdTypes
<1>2. /\ RemoveAt(timers, n) \in Seq(TimerMsg) /\ OneUse(RemoveAt(timers, n), tmouts)
      /\ timers[n] \in TimerMsg /\ IdIn(timers, timers[n].id)
      /\ \A i : IdIn(RemoveAt(timers, n), i) => IdIn(timers, i)
      /\ \A i : IdIn(RemoveAt(timers, n), i) /\ i \notin tmouts => i # timers[n].id
  BY <1>1, Disarmed
<1>3. timers[n].id \in Id
  BY <1>2 DEF TimerMsg
<1> QED BY <1>2, <1>3

(* What is left of the timers finds what it is for, if the rest stays.     *)
LEMMA IdTimers ==
    ASSUME IdInv, timers' \in Seq(TimerMsg), OneUse(timers', tmouts),
           \A i \in Id : IdIn(timers', i) /\ i \notin tmouts => IdIn(timers, i),
           UNCHANGED <<usrwait, reason, cosYield, sleepBreak, tmouts, scheds, selfmsgs, tmIdCnt>>
    PROVE  IdInv'
<1>1. IdTypes' /\ ~InUse(tmIdCnt)'
  BY DEF IdTypes, InUse, IdInv
<1>2. \A m \in SelfMsg : Has(selfmsgs, m)' => SelfmsgFinds(m)'
  BY DEF IdInv, SelfmsgFinds
<1>3. \A i \in Id : IdIn(timers, i)' /\ i \notin tmouts' => TimerFinds(i)'
  BY DEF IdInv, TimerFinds
<1> QED BY <1>1, <1>2, <1>3 DEF IdInv

LEMMA IdScheduleOver ==
    ASSUME IdInv, NEW n \in 1 .. Len(timers), timers' = RemoveAt(timers, n),
           scheds' = [scheds EXCEPT ![timers[n].id] = "none"],
           UNCHANGED <<usrwait, reason, cosYield, sleepBreak, tmouts, selfmsgs, tmIdCnt>>
    PROVE  IdInv'
<1>1. /\ timers' \in Seq(TimerMsg) /\ OneUse(timers', tmouts) /\ timers[n].id \in Id
      /\ \A i : IdIn(timers', i) => IdIn(timers, i) /\ (i \notin tmouts => i # timers[n].id)
  BY TimerTaken
<1>2. PICK e \in Id : e = timers[n].id
  BY <1>1
<1>3. /\ scheds' = [scheds EXCEPT ![e] = "none"] /\ usrwait' = usrwait /\ reason' = reason
      /\ cosYield' = cosYield /\ sleepBreak' = sleepBreak /\ tmouts' = tmouts
      /\ selfmsgs' = selfmsgs /\ tmIdCnt' = tmIdCnt /\ IdTypes
  BY <1>2 DEF IdInv
<1>4. IdTypes' /\ ~InUse(tmIdCnt)' /\ \A i \in Id : scheds'[i] = "none" \/ scheds'[i] = scheds[i]
  BY <1>1, <1>3 DEF IdTypes, InUse, IdInv
<1>5. \A m \in SelfMsg : Has(selfmsgs, m)' => SelfmsgFinds(m)'
  BY <1>3, <1>4 DEF IdInv, SelfmsgFinds, SelfMsg
<1>6. \A i \in Id : IdIn(timers, i)' /\ i \notin tmouts' => TimerFinds(i)'
  <2> SUFFICES ASSUME NEW i \in Id, IdIn(timers, i), i # e, i \notin tmouts PROVE TimerFinds(i)'
    BY <1>1, <1>2, <1>3
  <2>1. scheds'[i] = scheds[i]
    BY <1>3 DEF IdTypes
  <2> QED BY <1>3, <2>1 DEF IdInv, TimerFinds
<1>7. \A i \in Id : cosYield'[i] = None \/ scheds'[i] = "none"
  BY <1>3, <1>4 DEF IdInv
<1> QED BY <1>1, <1>3, <1>4, <1>5, <1>6, <1>7 DEF IdInv

(* The coroutine that slept, and has not been woken before, goes on.       *)
LEMMA IdSleepOver ==
    ASSUME StackInv, IdInv, NEW n \in 1 .. Len(timers), timers' = RemoveAt(timers, n),
           NEW e \in Id, e = timers[n].id, e \notin tmouts, scheds[e] = "none",
           cosYield' = [cosYield EXCEPT ![e] = None],
           \/ e \in sleepBreak /\ sleepBreak' = sleepBreak \ {e} /\ UNCHANGED <<usrwait, reason>>
           \/ /\ e \notin sleepBreak /\ UNCHANGED sleepBreak
              /\ usrwait' = [usrwait EXCEPT ![cosYield[e]] = NoWait]
              /\ reason' = [reason EXCEPT ![cosYield[e]] = <<"none">>],
           UNCHANGED <<tmouts, scheds, selfmsgs, tmIdCnt>>
    PROVE  IdInv'
<1>1. /\ timers' \in Seq(TimerMsg) /\ OneUse(timers', tmouts) /\ IdIn(timers, e)
      /\ \A i : IdIn(timers', i) => IdIn(timers, i) /\ (i \notin tmouts => i # e)
  BY TimerTaken
<1>2. TimerFinds(e)
  BY <1>1 DEF IdInv
<1>3. PICK c \in Co : c = cosYield[e] /\ (e \in sleepBreak \/ usrwait[c] = e)
  BY <1>2 DEF TimerFinds
<1>4. /\ cosYield' = [cosYield EXCEPT ![e] = None] /\ tmouts' = tmouts /\ scheds' = scheds
      /\ selfmsgs' = selfmsgs /\ tmIdCnt' = tmIdCnt /\ IdTypes /\ StackTypes
      /\ NoWait \notin Id /\ UsrWait \notin Id
  BY IdsOfTimers DEF IdInv, StackInv
<1>5. /\ sleepBreak' = sleepBreak \ {e}
      /\ usrwait' = IF e \in sleepBreak THEN usrwait ELSE [usrwait EXCEPT ![c] = NoWait]
      /\ reason' = IF e \in sleepBreak THEN reason ELSE [reason EXCEPT ![c] = <<"none">>]
  BY <1>3
<1>6. \A d \in Co : usrwait'[d] = usrwait[d] \/ usrwait'[d] = NoWait
  BY <1>4, <1>5 DEF StackTypes
<1>7. \A d \in Co : usrwait'[d] # e
  BY <1>3, <1>4, <1>5 DEF StackTypes, IdInv
<1>8. IdTypes' /\ ~InUse(tmIdCnt)'
  <2>1. IdTypes'
    BY <1>1, <1>4, <1>5 DEF IdTypes
  <2>2. ~InUse(tmIdCnt)'
    BY <1>4 DEF IdTypes, InUse, IdInv
  <2> QED BY <2>1, <2>2
<1>9. /\ \A i \in Id : cosYield'[i] = None \/ scheds'[i] = "none"
      /\ \A i \in sleepBreak' : cosYield'[i] \in Co
  BY <1>4, <1>5 DEF IdTypes, IdInv
<1>10. \A d \in Co : usrwait'[d] \in Id => /\ cosYield'[usrwait'[d]] = d
                                           /\ usrwait'[d] \notin sleepBreak'
  BY <1>4, <1>5, <1>6, <1>7 DEF IdTypes, IdInv
<1>11. \A m \in SelfMsg : Has(selfmsgs, m)' => SelfmsgFinds(m)'
  <2> SUFFICES ASSUME NEW m \in SelfMsg, Has(selfmsgs, m) PROVE SelfmsgFinds(m)'
    BY <1>4
  <2>1. SelfmsgFinds(m) /\ m.id # e /\ m.id \in Id
    BY <1>2 DEF IdInv, TimerFinds, SelfMsg
  <2>2. cosYield'[m.id] = cosYield[m.id] /\ m.id \notin sleepBreak'
    BY <1>4, <1>5, <2>1 DEF IdTypes, SelfmsgFinds
  <2>3. ASSUME m.kind # Fork, e \notin sleepBreak PROVE cosYield[m.id] # c
    <3>1. reason[cosYield[m.id]] = <<"yield", m.id>>
      BY <2>1, <2>3 DEF SelfmsgFinds
    <3>2. usrwait[c] = e /\ usrwait[c] # UsrWait /\ usrwait[c] # NoWait
      BY <1>3, <1>4, <2>3
    <3>3. reason[c] = <<"sleep", e>>
      BY <3>2 DEF StackInv, Waits
    <3> QED BY <3>1, <3>3, ReasonsDiffer
  <2> QED BY <1>4, <1>5, <2>1, <2>2, <2>3 DEF SelfmsgFinds, StackTypes
<1>12. \A i \in Id : IdIn(timers, i)' /\ i \notin tmouts' => TimerFinds(i)'
  <2> SUFFICES ASSUME NEW i \in Id, IdIn(timers, i), i # e, i \notin tmouts PROVE TimerFinds(i)'
    BY <1>1, <1>4
  <2>1. TimerFinds(i) /\ cosYield'[i] = cosYield[i]
    BY <1>4 DEF IdInv, IdTypes
  <2>2. usrwait[cosYield[i]] = i /\ cosYield[i] \in Co => usrwait'[cosYield[i]] = i \/ i \in sleepBreak'
    BY <1>3, <1>4, <1>5 DEF StackTypes
  <2> QED BY <1>4, <1>5, <2>1, <2>2 DEF TimerFinds
<1> QED BY <1>1, <1>4, <1>8, <1>9, <1>10, <1>11, <1>12 DEF IdInv
-----------------------------------------------------------------------------
LEMMA CoInitial == CoInit => CoInv
<1> SUFFICES ASSUME CoInit PROVE CoInv
  OBVIOUS
<1>1. Len(<< >>) = 0 /\ << >> \in Seq(Co) /\ << >> \in Seq(TimerMsg) /\ << >> \in Seq(SelfMsg)
  OBVIOUS
<1>2. chain = << >> /\ cosFree = << >> /\ cosStack = << >> /\ timers = << >> /\ selfmsgs = << >>
  BY DEF CoInit
<1>3. StackTypes
  BY <1>1, <1>2 DEF CoInit, StackTypes, Reasons
<1>4. StackInv
  BY <1>1, <1>2, <1>3 DEF CoInit, StackInv, OnceIn, Has
<1>5. 1 \in Id /\ \A i \in Id : cosYield[i] = None /\ scheds[i] = "none"
  BY CoroutineAssumption DEF CoInit, Id
<1>6. IdTypes
  BY <1>1, <1>5 DEF CoInit, IdTypes
<1>7. \A c \in Co : usrwait[c] = NoWait
  BY DEF CoInit
<1>8. IdInv
  BY <1>1, <1>2, <1>5, <1>6, <1>7, IdsOfTimers DEF CoInit, IdInv, OnceIn, Has, OneUse, IdIn, InUse
<1> QED BY <1>4, <1>8 DEF CoInv, CoInit

LEMMA HandleSame == ASSUME CoInv, UNCHANGED <<handle, misfire>>
                    PROVE  handle'.co \in Co \union {None} /\ ~misfire'
BY DEF CoInv

LEMMA CoDispatch == ASSUME CoInv, Dispatch PROVE CoInv'
<1>1. StackInv /\ IdInv
  BY DEF CoInv
<1>2. PICK call \in BOOLEAN : Exec(call)
  BY DEF Dispatch
<1>3. UNCHANGED <<idVars, outVars, reason, misfire>>
  BY DEF Dispatch
<1>4. StackInv' /\ usrwait' = usrwait
  BY <1>1, <1>2, <1>3, Started
<1>5. IdInv'
  BY <1>1, <1>3, <1>4, IdsSame DEF outVars
<1> QED BY <1>3, <1>4, <1>5, HandleSame DEF CoInv, outVars

LEMMA CoProcError == ASSUME CoInv, ProcError PROVE CoInv'
<1>1. StackInv /\ IdInv
  BY DEF CoInv
<1>2. UNCHANGED <<idVars, handle, timers, selfmsgs, reason, misfire>>
  BY DEF ProcError
<1>3. StackInv' /\ usrwait' = usrwait
  <2>1. CASE Exec(FALSE)
    BY <1>1, <1>2, <2>1, Started
  <2>2. CASE UNCHANGED coVars
    BY <1>1, <1>2, <2>2, StackSame DEF coVars
  <2> QED BY <2>1, <2>2 DEF ProcError
<1>4. IdInv'
  BY <1>1, <1>2, <1>3, IdsSame
<1> QED BY <1>2, <1>3, <1>4, HandleSame DEF CoInv

LEMMA CoSleep == ASSUME CoInv, Sleep PROVE CoInv'
<1>1. StackInv /\ IdInv /\ Runs /\ GenTmId
  BY DEF CoInv, Sleep
<1>2. /\ usrwait' = [usrwait EXCEPT ![Cur] = tmIdCnt] /\ Suspend(<<"sleep", tmIdCnt>>)
      /\ cosYield' = [cosYield EXCEPT ![tmIdCnt] = Cur]
      /\ timers' = Append(timers, [id |-> tmIdCnt, left |-> 0])
      /\ UNCHANGED <<status, cnt, rsp, cosFree, sleepBreak, tmouts, scheds, handle, selfmsgs,
                     misfire>>
  BY DEF Sleep, Arm
<1>3. tmIdCnt \in Id
  BY <1>1 DEF IdInv, IdTypes
<1>4. <<"sleep", tmIdCnt>> \in Reasons /\ tmIdCnt # UsrWait /\ <<"sleep", tmIdCnt>> # <<"none">>
  BY <1>3, IdsOfTimers, ReasonsDiffer DEF Reasons
<1>5. StackInv' /\ reason' = [reason EXCEPT ![Cur] = <<"sleep", tmIdCnt>>]
  BY <1>1, <1>2, <1>3, <1>4, SuspendedNow
<1>6. IdInv'
  BY <1>1, <1>2, <1>5, IdSleep
<1> QED BY <1>2, <1>5, <1>6, HandleSame DEF CoInv

LEMMA CoYield == ASSUME CoInv, Yield PROVE CoInv'
<1>1. StackInv /\ IdInv /\ Runs /\ GenTmId
  BY DEF CoInv, Yield
<1>2. /\ selfmsgs' = Append(selfmsgs, [id |-> tmIdCnt, kind |-> "yield"])
      /\ cosYield' = [cosYield EXCEPT ![tmIdCnt] = Cur] /\ Suspend(<<"yield", tmIdCnt>>)
      /\ UNCHANGED <<status, cnt, usrwait, rsp, cosFree, sleepBreak, tmouts, scheds, handle,
                     timers, misfire>>
  BY DEF Yield
<1>3. tmIdCnt \in Id /\ usrwait[Cur] = NoWait /\ Cur \in Co /\ StackTypes
  BY <1>1, RunningCo DEF IdInv, IdTypes, StackInv
<1>4. <<"yield", tmIdCnt>> \in Reasons /\ <<"yield", tmIdCnt>> # <<"none">>
  BY <1>3, ReasonsDiffer DEF Reasons
<1>5. usrwait' = [usrwait EXCEPT ![Cur] = NoWait]
  BY <1>2, <1>3 DEF StackTypes
<1>6. StackInv' /\ reason' = [reason EXCEPT ![Cur] = <<"yield", tmIdCnt>>]
  BY <1>1, <1>2, <1>4, <1>5, SuspendedNow
<1>7. IdInv'
  <2>1. PICK f \in BOOLEAN : ~f
    OBVIOUS
  <2>2. /\ selfmsgs' = Append(selfmsgs, [id |-> tmIdCnt, kind |-> IF f THEN Fork ELSE "yield"])
        /\ cosYield' = [cosYield EXCEPT ![tmIdCnt] = IF f THEN Fork ELSE Cur]
        /\ reason' = IF f THEN reason ELSE [reason EXCEPT ![Cur] = <<"yield", tmIdCnt>>]
    BY <1>2, <1>6, <2>1
  <2> QED BY <1>1, <1>2, <2>2, IdSelfmsg
<1> QED BY <1>2, <1>6, <1>7, HandleSame DEF CoInv

LEMMA CoFork == ASSUME CoInv, ForkCo PROVE CoInv'
<1>1. StackInv /\ IdInv /\ Runs /\ GenTmId
  BY DEF CoInv, ForkCo
<1>2. /\ selfmsgs' = Append(selfmsgs, [id |-> tmIdCnt, kind |-> Fork])
      /\ cosYield' = [cosYield EXCEPT ![tmIdCnt] = Fork]
      /\ UNCHANGED <<coVars, sleepBreak, tmouts, scheds, handle, timers, procError, reason,
                     misfire>>
  BY DEF ForkCo
<1>3. StackInv'
  BY <1>1, <1>2, StackSame DEF coVars
<1>4. IdInv'
  <2>1. PICK f \in BOOLEAN : f
    OBVIOUS
  <2>2. /\ selfmsgs' = Append(selfmsgs, [id |-> tmIdCnt, kind |-> IF f THEN Fork ELSE "yield"])
        /\ cosYield' = [cosYield EXCEPT ![tmIdCnt] = IF f THEN Fork ELSE Cur]
        /\ reason' = IF f THEN reason ELSE [reason EXCEPT ![Cur] = <<"yield", tmIdCnt>>]
    BY <1>2, <2>1
  <2>3. UNCHANGED <<usrwait, sleepBreak, tmouts, scheds, timers>>
    BY <1>2 DEF coVars
  <2> QED BY <1>1, <2>2, <2>3, IdSelfmsg
<1> QED BY <1>2, <1>3, <1>4, HandleSame DEF CoInv

LEMMA CoQuiet ==
    ASSUME CoInv, SetTimeout \/ Schedule \/ Unschedule \/ Corunning \/ Ret
    PROVE  CoInv'
<1>1. StackInv /\ IdInv
  BY DEF CoInv
<1>2. UNCHANGED <<chain, cosStack, status, usrwait, cosFree, reason, misfire>>
  BY DEF SetTimeout, Schedule, Unschedule, Corunning, Ret, coVars
<1>3. StackInv'
  BY <1>1, <1>2, StackSame
<1>4. IdInv'
  <2>1. CASE SetTimeout
    <3>1. /\ GenTmId /\ timers' = Append(timers, [id |-> tmIdCnt, left |-> 0])
          /\ tmouts' = tmouts \union {tmIdCnt}
          /\ UNCHANGED <<cosYield, sleepBreak, scheds, selfmsgs>>
      BY <2>1 DEF SetTimeout, Arm
    <3> QED BY <1>1, <1>2, <3>1, IdTimeout
  <2>2. CASE Schedule
    <3>1. /\ GenTmId /\ timers' = Append(timers, [id |-> tmIdCnt, left |-> Firings - 1])
          /\ scheds' = [scheds EXCEPT ![tmIdCnt] = "active"]
          /\ UNCHANGED <<cosYield, sleepBreak, tmouts, selfmsgs>>
      BY <2>2 DEF Schedule, Arm
    <3> QED BY <1>1, <1>2, <3>1, IdSchedule
  <2>3. CASE Unschedule
    <3>1. PICK i \in Id : scheds[i] = "active" /\ scheds' = [scheds EXCEPT ![i] = "stopped"]
      BY <2>3 DEF Unschedule
    <3>2. UNCHANGED <<cosYield, sleepBreak, tmouts, tmIdCnt, timers, selfmsgs>>
      BY <2>3 DEF Unschedule, outVars
    <3> QED BY <1>1, <1>2, <3>1, <3>2, IdUnschedule
  <2>4. CASE Corunning \/ Ret
    BY <1>1, <1>2, <2>4, IdsSame DEF Corunning, Ret, outVars
  <2> QED BY <2>1, <2>2, <2>3, <2>4
<1>5. handle'.co \in Co \union {None}
  <2>1. CASE Corunning
    <3>1. handle' = [co |-> Cur, cnt |-> cnt[Cur]] /\ Runs
      BY <2>1 DEF Corunning
    <3>2. Cur \in Co
      BY <1>1, <3>1, RunningCo
    <3> QED BY <3>1, <3>2
  <2>2. CASE SetTimeout \/ Schedule \/ Unschedule \/ Ret
    BY <2>2 DEF CoInv, SetTimeout, Schedule, Unschedule, Ret, outVars
  <2> QED BY <2>1, <2>2
<1> QED BY <1>2, <1>3, <1>4, <1>5 DEF CoInv

LEMMA CoWait == ASSUME CoInv, Wait PROVE CoInv'
<1>1. StackInv /\ IdInv /\ Runs
  BY DEF CoInv, Wait
<1>2. /\ usrwait' = [usrwait EXCEPT ![Cur] = UsrWait] /\ Suspend(<<"wait">>)
      /\ UNCHANGED <<status, cnt, rsp, cosFree, idVars, handle, timers, selfmsgs, misfire>>
  BY DEF Wait
<1>3. /\ Cur \in Co /\ usrwait[Cur] = NoWait /\ reason[Cur] = <<"none">>
      /\ StackTypes /\ NoWait \notin Id /\ UsrWait \notin Id
  BY <1>1, RunningCo, IdsOfTimers DEF StackInv
<1>4. StackInv' /\ reason' = [reason EXCEPT ![Cur] = <<"wait">>]
  <2>1. <<"wait">> \in Reasons /\ <<"wait">> # <<"none">>
    BY ReasonsDiffer DEF Reasons
  <2> QED BY <1>1, <1>2, <2>1, SuspendedNow
<1>5. PICK k \in Co : k = Cur
  BY <1>3
<1>6. /\ usrwait' = [usrwait EXCEPT ![k] = UsrWait] /\ reason' = [reason EXCEPT ![k] = <<"wait">>]
      /\ cosYield' = cosYield /\ sleepBreak' = sleepBreak /\ tmouts' = tmouts
      /\ scheds' = scheds /\ selfmsgs' = selfmsgs /\ timers' = timers /\ tmIdCnt' = tmIdCnt
      /\ usrwait[k] = NoWait /\ reason[k] = <<"none">>
  BY <1>2, <1>3, <1>4, <1>5 DEF idVars
<1>7. IdTypes' /\ ~InUse(tmIdCnt)'
  BY <1>1, <1>6 DEF IdInv, IdTypes, InUse
<1>8. \A c \in Co : usrwait'[c] \in Id => usrwait'[c] = usrwait[c]
  BY <1>3, <1>6 DEF StackTypes
<1>9. \A m \in SelfMsg : Has(selfmsgs, m)' => SelfmsgFinds(m)'
  <2> SUFFICES ASSUME NEW m \in SelfMsg, Has(selfmsgs, m) PROVE SelfmsgFinds(m)'
    BY <1>6
  <2>1. SelfmsgFinds(m)
    BY <1>1 DEF IdInv
  <2>2. m.kind # Fork => cosYield[m.id] # k
    BY <1>6, <2>1, ReasonsDiffer DEF SelfmsgFinds
  <2> QED BY <1>3, <1>6, <2>1, <2>2 DEF SelfmsgFinds, StackTypes
<1>10. \A i \in Id : IdIn(timers, i)' /\ i \notin tmouts' => TimerFinds(i)'
  <2> SUFFICES ASSUME NEW i \in Id, IdIn(timers, i), i \notin tmouts PROVE TimerFinds(i)'
    BY <1>6
  <2>1. TimerFinds(i)
    BY <1>1 DEF IdInv
  <2> QED BY <1>3, <1>6, <2>1 DEF TimerFinds, StackTypes
<1>11. IdInv'
  BY <1>1, <1>6, <1>7, <1>8, <1>9, <1>10 DEF IdInv
<1> QED BY <1>2, <1>4, <1>11, HandleSame DEF CoInv

LEMMA CoWakeup == ASSUME CoInv, Wakeup PROVE CoInv'
<1>1. StackInv /\ IdInv
  BY DEF CoInv
<1>2. PICK c \in Co : c = handle.co
  BY DEF CoInv, Wakeup
<1>3. /\ usrwait[c] # NoWait /\ usrwait' = [usrwait EXCEPT ![c] = NoWait]
      /\ IF usrwait[c] = UsrWait
         THEN Resume(c, <<"wait">>) /\ UNCHANGED sleepBreak
         ELSE /\ Resume(c, <<"sleep", usrwait[c]>>)
              /\ sleepBreak' = sleepBreak \union {usrwait[c]}
      /\ UNCHANGED <<status, cnt, rsp, cosFree, cosYield, tmouts, scheds, tmIdCnt, outVars>>
  BY <1>2 DEF Wakeup
<1>4. reason[c] = Waits(c)
  BY <1>1, <1>3 DEF StackInv
<1>5. StackInv' /\ (~misfire => ~misfire') /\ reason' = [reason EXCEPT ![c] = <<"none">>]
  <2>1. CASE usrwait[c] = UsrWait
    <3>1. reason[c] = <<"wait">> /\ <<"wait">> # <<"none">> /\ Resume(c, <<"wait">>)
      BY <1>3, <1>4, <2>1, ReasonsDiffer DEF Waits
    <3> QED BY <1>1, <1>3, <3>1, Resumed
  <2>2. CASE usrwait[c] # UsrWait
    <3>1. PICK w : w = <<"sleep", usrwait[c]>>
      OBVIOUS
    <3>2. reason[c] = w /\ w # <<"none">> /\ Resume(c, w)
      BY <1>3, <1>4, <2>2, <3>1, ReasonsDiffer DEF Waits
    <3> QED BY <1>1, <1>3, <3>2, Resumed
  <2> QED BY <2>1, <2>2
<1>6. IdInv'
  <2>1. sleepBreak' = IF usrwait[c] = UsrWait THEN sleepBreak
                      ELSE sleepBreak \union {usrwait[c]}
    BY <1>3
  <2>2. UNCHANGED <<cosYield, tmouts, scheds, selfmsgs, timers, tmIdCnt>>
    BY <1>3 DEF outVars
  <2> QED BY <1>1, <1>3, <1>5, <2>1, <2>2, IdWakeup
<1> QED BY <1>3, <1>5, <1>6 DEF CoInv, outVars

LEMMA CoEnd == ASSUME CoInv, End \/ Error PROVE CoInv'
<1>1. StackInv /\ IdInv /\ Runs /\ cosStack = chain
  BY DEF CoInv, End, Error, StackInv
<1>2. Cur \in Co /\ Cur = Last(chain)
  BY <1>1, RunningCo
<1>3. /\ chain' = Front(chain) /\ cosStack' = Front(cosStack)
      /\ UNCHANGED <<usrwait, idVars, handle, timers, selfmsgs, reason, misfire>>
  BY DEF End, Error, ErrorPops
<1>4. \E s \in {"none", "free", "dead"} :
         /\ status' = [status EXCEPT ![Cur] = s]
         /\ cosFree' = IF s = "free" THEN Append(cosFree, Cur) ELSE cosFree
  <2>1. CASE End
    BY <1>2, <2>1 DEF End, Dies
  <2>2. CASE Error
    BY <1>2, <2>2 DEF Error, Dies
  <2> QED BY <2>1, <2>2
<1>5. StackInv'
  BY <1>1, <1>3, <1>4, Left
<1>6. IdInv'
  BY <1>1, <1>3, IdsSame
<1> QED BY <1>3, <1>5, <1>6, HandleSame DEF CoInv

LEMMA CoSelfmsg == ASSUME CoInv, Selfmsg PROVE CoInv'
<1>1. StackInv /\ IdInv
  BY DEF CoInv
<1> DEFINE m == Head(selfmsgs)
<1>2. /\ selfmsgs # << >> /\ selfmsgs' = Tail(selfmsgs)
      /\ cosYield' = [cosYield EXCEPT ![m.id] = None]
      /\ IF m.kind = Fork THEN Exec(FALSE) /\ UNCHANGED <<reason, misfire>>
         ELSE /\ Resume(cosYield[m.id], <<"yield", m.id>>)
              /\ UNCHANGED <<status, cnt, usrwait, rsp, cosFree>>
      /\ UNCHANGED <<sleepBreak, tmouts, scheds, tmIdCnt, handle, timers, procError>>
  BY DEF Selfmsg
<1>3. m \in SelfMsg /\ SelfmsgFinds(m)
  <2>1. selfmsgs \in Seq(SelfMsg) /\ OnceIn(selfmsgs)
    BY <1>1 DEF IdInv, IdTypes
  <2>2. m \in SelfMsg /\ Has(selfmsgs, m)
    BY <1>2, <2>1, Popped
  <2> QED BY <1>1, <2>2 DEF IdInv
<1>4. CASE m.kind = Fork
  <2>1. StackInv' /\ usrwait' = usrwait /\ UNCHANGED <<reason, misfire>>
    BY <1>1, <1>2, <1>4, Started
  <2>2. IdInv'
    BY <1>1, <1>2, <2>1, IdSelfmsgTaken
  <2> QED BY <1>2, <2>1, <2>2, HandleSame DEF CoInv
<1>5. CASE m.kind # Fork
  <2>1. PICK c \in Co : c = cosYield[m.id] /\ reason[c] = <<"yield", m.id>>
    BY <1>3, <1>5 DEF SelfmsgFinds
  <2>2. PICK w : w = <<"yield", m.id>>
    OBVIOUS
  <2>3. usrwait[c] = NoWait
    <3> SUFFICES ASSUME usrwait[c] # NoWait PROVE FALSE
      OBVIOUS
    <3>1. <<"yield", m.id>> = Waits(c)
      BY <1>1, <2>1 DEF StackInv
    <3>2. <<"wait">> # <<"yield", m.id>> /\ <<"sleep", usrwait[c]>> # <<"yield", m.id>>
      BY ReasonsDiffer
    <3> QED BY <3>1, <3>2 DEF Waits
  <2>4. usrwait' = [usrwait EXCEPT ![c] = NoWait]
    BY <1>1, <1>2, <1>5, <2>3 DEF StackInv, StackTypes
  <2>5. Resume(c, w) /\ reason[c] = w /\ w # <<"none">> /\ UNCHANGED <<status, cosFree>>
    BY <1>2, <1>5, <2>1, <2>2, ReasonsDiffer
  <2>6. StackInv' /\ (~misfire => ~misfire') /\ reason' = [reason EXCEPT ![c] = <<"none">>]
    BY <1>1, <2>4, <2>5, Resumed
  <2>7. IdInv'
    BY <1>1, <1>2, <1>5, <2>1, <2>6, IdSelfmsgTaken
  <2> QED BY <1>2, <2>6, <2>7 DEF CoInv
<1> QED BY <1>4, <1>5

LEMMA CoFire == ASSUME CoInv, NEW i \in Id, Fire(i) PROVE CoInv'
<1>1. StackInv /\ IdInv
  BY DEF CoInv
<1>2. PICK n \in 1 .. Len(timers) :
        /\ timers[n].id = i
        /\ \/ FireSchedule(timers[n], RemoveAt(timers, n))
           \/ FireTimeout(timers[n], RemoveAt(timers, n))
           \/ FireSleep(timers[n], RemoveAt(timers, n))
  BY DEF Fire
<1>3. UNCHANGED <<tmouts, tmIdCnt, handle, selfmsgs, procError>>
  BY DEF Fire
<1>4. PICK t \in TimerMsg : t = timers[n] /\ t.id = i
  BY <1>1, <1>2, TimerTaken
<1>5. PICK rest \in Seq(TimerMsg) : rest = RemoveAt(timers, n)
  BY <1>1, TimerTaken
<1>6. /\ OneUse(rest, tmouts)
      /\ \A k : IdIn(rest, k) => IdIn(timers, k) /\ (k \notin tmouts => k # i)
  BY <1>1, <1>2, <1>5, TimerTaken
<1>7. FireSchedule(t, rest) \/ FireTimeout(t, rest) \/ FireSleep(t, rest)
  BY <1>2, <1>4, <1>5
<1>8. ASSUME NEW l \in Int, timers' = Append(rest, [t EXCEPT !.left = l]),
             UNCHANGED <<usrwait, reason, cosYield, sleepBreak, scheds>>
      PROVE  IdInv'
  <2>1. [t EXCEPT !.left = l] \in TimerMsg /\ [t EXCEPT !.left = l].id = i
    BY <1>4 DEF TimerMsg
  <2>2. i \in tmouts \/ ~IdIn(rest, i)
    BY <1>6
  <2>3. /\ timers' \in Seq(TimerMsg) /\ OneUse(timers', tmouts)
        /\ \A k : IdIn(timers', k) <=> IdIn(rest, k) \/ k = i
    BY <1>6, <1>8, <2>1, <2>2, Armed
  <2>4. IdIn(timers, i)
    BY <1>1, <1>2, TimerTaken
  <2>5. \A k \in Id : IdIn(timers', k) /\ k \notin tmouts => IdIn(timers, k)
    BY <1>6, <2>3, <2>4
  <2> QED BY <1>1, <1>3, <1>8, <2>3, <2>5, IdTimers
<1>9. t.left \in Int /\ t.left - 1 \in Int /\ Firings - 1 \in Int
  BY <1>4, CoroutineAssumption DEF TimerMsg
<1>10. CASE FireSchedule(t, rest)
  <2>1. UNCHANGED <<cosYield, sleepBreak, reason, misfire>>
    BY <1>10 DEF FireSchedule
  <2>2. CASE scheds[i] = "active"
    <3>1. /\ Exec(FALSE) /\ UNCHANGED scheds
          /\ timers' = Append(rest, [t EXCEPT !.left = IF t.left = 0 THEN Firings - 1 ELSE t.left - 1])
      BY <1>4, <1>10, <2>2 DEF FireSchedule
    <3>2. StackInv' /\ usrwait' = usrwait
      BY <1>1, <2>1, <3>1, Started
    <3>3. PICK l \in Int : l = IF t.left = 0 THEN Firings - 1 ELSE t.left - 1
      BY <1>9
    <3>4. IdInv'
      BY <1>8, <2>1, <3>1, <3>2, <3>3
    <3> QED BY <1>3, <2>1, <3>2, <3>4, HandleSame DEF CoInv
  <2>3. CASE scheds[i] # "active"
    <3>1. /\ scheds' = IF t.left = 0 THEN [scheds EXCEPT ![i] = "none"] ELSE scheds
          /\ timers' = IF t.left = 0 THEN rest ELSE Append(rest, [t EXCEPT !.left = t.left - 1])
          /\ UNCHANGED coVars
      BY <1>4, <1>10, <2>3 DEF FireSchedule
    <3>2. StackInv' /\ usrwait' = usrwait
      BY <1>1, <2>1, <3>1, StackSame DEF coVars
    <3>3. IdInv'
      <4>1. CASE t.left = 0
        BY <1>1, <1>2, <1>3, <1>5, <2>1, <3>1, <3>2, <4>1, IdScheduleOver
      <4>2. CASE t.left # 0
        <5>1. PICK l \in Int : l = t.left - 1
          BY <1>9
        <5> QED BY <1>8, <2>1, <3>1, <3>2, <4>2, <5>1
      <4> QED BY <4>1, <4>2
    <3> QED BY <1>3, <2>1, <3>2, <3>3, HandleSame DEF CoInv
  <2> QED BY <2>2, <2>3
<1>11. CASE FireTimeout(t, rest)
  <2>1. /\ timers' = rest /\ Exec(FALSE)
        /\ UNCHANGED <<cosYield, sleepBreak, scheds, reason, misfire>>
    BY <1>11 DEF FireTimeout
  <2>2. StackInv' /\ usrwait' = usrwait
    BY <1>1, <2>1, Started
  <2>3. timers' \in Seq(TimerMsg) /\ OneUse(timers', tmouts)
        /\ \A k \in Id : IdIn(timers', k) /\ k \notin tmouts => IdIn(timers, k)
    BY <1>6, <2>1
  <2>4. IdInv'
    BY <1>1, <1>3, <2>1, <2>2, <2>3, IdTimers
  <2> QED BY <1>3, <2>1, <2>2, <2>4, HandleSame DEF CoInv
<1>12. CASE FireSleep(t, rest)
  <2>1. /\ scheds[i] = "none" /\ i \notin tmouts /\ timers' = rest
        /\ cosYield' = [cosYield EXCEPT ![i] = None] /\ UNCHANGED scheds
        /\ IF i \in sleepBreak
           THEN sleepBreak' = sleepBreak \ {i} /\ UNCHANGED <<coVars, reason, misfire>>
           ELSE /\ usrwait' = [usrwait EXCEPT ![cosYield[i]] = NoWait]
                /\ Resume(cosYield[i], <<"sleep", i>>)
                /\ UNCHANGED <<status, cnt, rsp, cosFree, sleepBreak>>
    BY <1>4, <1>12 DEF FireSleep, Late
  <2>2. CASE i \in sleepBreak
    <3>1. UNCHANGED <<coVars, reason, misfire>> /\ sleepBreak' = sleepBreak \ {i}
      BY <2>1, <2>2
    <3>2. StackInv' /\ UNCHANGED <<usrwait, reason>>
      BY <1>1, <3>1, StackSame DEF coVars
    <3>3. IdInv'
      BY <1>1, <1>2, <1>3, <1>5, <2>1, <2>2, <3>1, <3>2, IdSleepOver
    <3> QED BY <1>3, <3>1, <3>2, <3>3, HandleSame DEF CoInv
  <2>3. CASE i \notin sleepBreak
    <3>1. IdIn(timers, i)
      BY <1>1, <1>2, TimerTaken
    <3>2. TimerFinds(i)
      BY <1>1, <2>1, <3>1 DEF IdInv
    <3>3. PICK c \in Co : c = cosYield[i] /\ usrwait[c] = i
      BY <2>1, <2>3, <3>2 DEF TimerFinds
    <3>4. PICK w : w = <<"sleep", i>>
      OBVIOUS
    <3>5. usrwait[c] # NoWait /\ usrwait[c] # UsrWait
      BY <3>3, IdsOfTimers
    <3>6. reason[c] = w /\ w # <<"none">> /\ Resume(c, w)
      BY <1>1, <2>1, <2>3, <3>3, <3>4, <3>5, ReasonsDiffer DEF StackInv, Waits
    <3>7. usrwait' = [usrwait EXCEPT ![c] = NoWait] /\ UNCHANGED <<status, cosFree, sleepBreak>>
      BY <2>1, <2>3, <3>3
    <3>8. StackInv' /\ (~misfire => ~misfire') /\ reason' = [reason EXCEPT ![c] = <<"none">>]
      BY <1>1, <3>6, <3>7, Resumed
    <3>9. IdInv'
      BY <1>1, <1>2, <1>3, <1>5, <2>1, <2>3, <3>3, <3>7, <3>8, IdSleepOver
    <3> QED BY <1>3, <3>8, <3>9 DEF CoInv
  <2> QED BY <2>2, <2>3
<1> QED BY <1>7, <1>10, <1>11, <1>12

LEMMA CoStep == CoInv /\ [CoNext]_allVars => CoInv'
<1> SUFFICES ASSUME CoInv, [CoNext]_allVars PROVE CoInv'
  OBVIOUS
<1>1. CASE UNCHANGED allVars
  <2>1. UNCHANGED <<coVars, idVars, outVars, reason, misfire>>
    BY <1>1 DEF allVars
  <2>2. StackInv' /\ IdInv'
    BY <2>1, StackSame, IdsSame DEF CoInv, coVars, outVars
  <2> QED BY <2>1, <2>2, HandleSame DEF CoInv, outVars
<1>2. CASE \E i \in Id : Fire(i)
  BY <1>2, CoFire
<1>3. CASE Dispatch \/ ProcError \/ Selfmsg \/ End \/ Error
  BY <1>3, CoDispatch, CoProcError, CoSelfmsg, CoEnd
<1>4. CASE ApiCall
  BY <1>4, CoSleep, CoYield, CoFork, CoQuiet, CoWait, CoWakeup DEF ApiCall
<1> QED BY <1>1, <1>2, <1>3, <1>4 DEF CoNext

LEMMA CoIsEnough == CoInv => CurCoIsRunning /\ MeetsItsWaiter
<1> SUFFICES ASSUME CoInv PROVE CurCoIsRunning /\ MeetsItsWaiter
  OBVIOUS
<1>1. StackInv /\ IdInv /\ ~misfire
  BY DEF CoInv
<1>2. CurCoIsRunning
  <2>1. \A c \in ToSet(chain) : c \in Co /\ Has(chain, c)
    BY <1>1 DEF StackInv, StackTypes, ToSet, Has
  <2> QED BY <1>1, <2>1 DEF StackInv, CurCoIsRunning
<1>3. /\ timers \in Seq(TimerMsg) /\ selfmsgs \in Seq(SelfMsg) /\ OneUse(timers, tmouts)
      /\ OnceIn(selfmsgs)
  BY <1>1 DEF IdInv, IdTypes
<1>4. PICK a \in Nat : a = Len(timers)
  BY <1>3
<1>5. PICK b \in Nat : b = Len(selfmsgs)
  BY <1>3
<1> DEFINE U == UnderWay
<1>6. /\ DOMAIN U = 1 .. a + b
      /\ \A n \in 1 .. a + b : U[n] = IF n <= a THEN timers[n].id ELSE selfmsgs[n - a].id
  BY <1>4, <1>5 DEF UnderWay
<1> HIDE DEF U
<1>7. \A n \in 1 .. a : timers[n].id \in Id /\ IdIn(timers, timers[n].id)
  <2> SUFFICES ASSUME NEW n \in 1 .. a
               PROVE  timers[n].id \in Id /\ IdIn(timers, timers[n].id)
    OBVIOUS
  <2>1. n \in 1 .. Len(timers)
    BY <1>4
  <2>2. timers[n] \in TimerMsg
    BY <1>3, <2>1
  <2> QED BY <2>1, <2>2 DEF TimerMsg, IdIn
<1>8. \A n \in 1 .. b : /\ selfmsgs[n] \in SelfMsg /\ selfmsgs[n].id \in Id
                        /\ Has(selfmsgs, selfmsgs[n])
  <2> SUFFICES ASSUME NEW n \in 1 .. b
               PROVE  /\ selfmsgs[n] \in SelfMsg /\ selfmsgs[n].id \in Id
                      /\ Has(selfmsgs, selfmsgs[n])
    OBVIOUS
  <2>1. n \in 1 .. Len(selfmsgs)
    BY <1>5
  <2>2. selfmsgs[n] \in SelfMsg
    BY <1>3, <2>1
  <2> QED BY <2>1, <2>2 DEF SelfMsg, Has
<1>9. ASSUME NEW n \in 1 .. a + b, U[n] \notin tmouts
      PROVE  /\ \A m \in 1 .. a + b : U[m] = U[n] => m = n
             /\ (cosYield[U[n]] # None) # (scheds[U[n]] # "none")
  <2>0. None \notin Co /\ None # Fork
    BY CoroutineAssumption
  <2>1. CASE n <= a
    <3>1. n \in 1 .. a /\ U[n] = timers[n].id
      BY <1>6, <2>1
    <3>2. TimerFinds(U[n]) /\ U[n] \in Id
      BY <1>1, <1>7, <1>9, <3>1 DEF IdInv
    <3>3. (cosYield[U[n]] # None) # (scheds[U[n]] # "none")
      BY <1>1, <2>0, <3>2 DEF TimerFinds, IdInv
    <3>4. ASSUME NEW m \in 1 .. a + b, U[m] = U[n] PROVE m = n
      <4>1. CASE m <= a
        <5>1. m \in 1 .. a /\ U[m] = timers[m].id
          BY <1>6, <4>1
        <5> QED BY <1>3, <1>4, <1>9, <3>1, <3>4, <5>1 DEF OneUse
      <4>2. CASE m > a
        <5>1. m - a \in 1 .. b /\ U[m] = selfmsgs[m - a].id
          <6>1. m - a \in 1 .. b /\ ~(m <= a)
            BY <4>2
          <6>2. U[m] = selfmsgs[m - a].id
            BY <1>6, <6>1
          <6> QED BY <6>1, <6>2
        <5> QED BY <1>8, <3>2, <3>4, <5>1 DEF TimerFinds
      <4> QED BY <4>1, <4>2
    <3> QED BY <3>3, <3>4
  <2>2. CASE n > a
    <3>1. n - a \in 1 .. b /\ U[n] = selfmsgs[n - a].id
      <4>1. n - a \in 1 .. b /\ ~(n <= a)
        BY <2>2
      <4>2. U[n] = selfmsgs[n - a].id
        BY <1>6, <4>1
      <4> QED BY <4>1, <4>2
    <3>2. SelfmsgFinds(selfmsgs[n - a]) /\ U[n] \in Id
      BY <1>1, <1>8, <3>1 DEF IdInv
    <3>3. (cosYield[U[n]] # None) # (scheds[U[n]] # "none")
      BY <2>0, <3>1, <3>2 DEF SelfmsgFinds
    <3>4. ASSUME NEW m \in 1 .. a + b, U[m] = U[n] PROVE m = n
      <4>1. CASE m <= a
        <5>1. m \in 1 .. a /\ U[m] = timers[m].id
          BY <1>6, <4>1
        <5>2. TimerFinds(U[m])
          BY <1>1, <1>7, <1>9, <3>4, <5>1 DEF IdInv
        <5> QED BY <1>8, <3>1, <3>4, <5>2 DEF TimerFinds
      <4>2. CASE m > a
        <5>1. m - a \in 1 .. b /\ U[m] = selfmsgs[m - a].id
          <6>1. m - a \in 1 .. b /\ ~(m <= a)
            BY <4>2
          <6>2. U[m] = selfmsgs[m - a].id
            BY <1>6, <6>1
          <6> QED BY <6>1, <6>2
        <5>2. selfmsgs[m - a] = selfmsgs[n - a]
          <6>1. selfmsgs[m - a].id = selfmsgs[n - a].id
            BY <3>1, <3>4, <5>1
          <6>2. \A p, q \in SelfMsg : Has(selfmsgs, p) /\ Has(selfmsgs, q) /\ p.id = q.id => p = q
            BY <1>1 DEF IdInv
          <6> QED BY <1>8, <3>1, <5>1, <6>1, <6>2
        <5>3. m - a = n - a
          BY <1>3, <1>5, <3>1, <5>1, <5>2 DEF OnceIn
        <5> QED BY <5>3
      <4> QED BY <4>1, <4>2
    <3> QED BY <3>3, <3>4
  <2> QED BY <2>1, <2>2
<1>10. IdsOfOneUse
  BY <1>6, <1>9 DEF IdsOfOneUse, U
<1> QED BY <1>1, <1>2, <1>10 DEF MeetsItsWaiter, ResumedForItsReason

LEMMA CoAlways == CoSpec => []CoInv
BY CoInitial, CoStep, PTL DEF CoSpec

(* The stack kept by hand is the one Lua unwinds, with any number of       *)
(* coroutines nested in any way, whichever of them fails (pipes.lua:67-98).*)
THEOREM CurCoRuns == CoSpec => []CurCoIsRunning
BY CoAlways, CoIsEnough, PTL

(* Whatever comes back under an id meets what it is for, for any number of *)
(* ids that come round and any sleeps broken off (pipes.lua:250-353).      *)
THEOREM MeetsWaiters == CoSpec => []MeetsItsWaiter
BY CoAlways, CoIsEnough, PTL

-----------------------------------------------------------------------------
(* Ticks and turns                                                         *)

Multiple(x, k) == \E n \in Nat : x = n * k

LEMMA Floors ==
    ASSUME NEW t \in Nat, NEW k \in Nat \ {0}
    PROVE  /\ t \div k \in Nat /\ Floor(t, k) = (t \div k) * k
           /\ Floor(t, k) \in Nat /\ Floor(t, k) <= t /\ t < Floor(t, k) + k
           /\ Multiple(Floor(t, k), k)
<1>1. t \div k \in Nat /\ t % k \in 0 .. (k - 1) /\ t = k * (t \div k) + (t % k)
  OBVIOUS
<1>2. Floor(t, k) = k * (t \div k)
  BY <1>1 DEF Floor
<1>3. k * (t \div k) = (t \div k) * k
  BY <1>1
<1>4. Floor(t, k) = (t \div k) * k
  BY <1>2, <1>3
<1>5. Floor(t, k) \in Nat /\ Floor(t, k) <= t /\ t < Floor(t, k) + k
  BY <1>1, <1>2
<1> QED BY <1>1, <1>4, <1>5 DEF Multiple

(* Two multiples differ by k at least.                                     *)
LEMMA Apart ==
    ASSUME NEW a \in Nat, NEW b \in Nat, NEW k \in Nat \ {0},
           Multiple(a, k), Multiple(b, k), a < b
    PROVE  a + k <= b
<1>1. PICK m \in Nat : a = m * k
  BY DEF Multiple
<1>2. PICK n \in Nat : b = n * k
  BY DEF Multiple
<1>3. m < n
  <2>1. CASE n <= m
    <3>1. n * k <= m * k
      BY <2>1
    <3> QED BY <3>1, <1>1, <1>2
  <2> QED BY <2>1
<1>4. (m + 1) * k <= n * k
  BY <1>3
<1>5. (m + 1) * k = m * k + k
  OBVIOUS
<1> QED BY <1>1, <1>2, <1>4, <1>5

LEMMA FloorUnique ==
    ASSUME NEW t \in Nat, NEW k \in Nat \ {0}, NEW a \in Nat,
           Multiple(a, k), a <= t, t < a + k
    PROVE  Floor(t, k) = a
<1>1. PICK f \in Nat : /\ f = Floor(t, k) /\ f <= t /\ t < f + k /\ Multiple(f, k)
  BY Floors
<1>2. ~(f < a)
  <2> SUFFICES ASSUME f < a PROVE FALSE
    OBVIOUS
  <2>1. f + k <= a
    BY <1>1, Apart
  <2> QED BY <1>1, <2>1
<1>3. ~(a < f)
  <2> SUFFICES ASSUME a < f PROVE FALSE
    OBVIOUS
  <2>1. a + k <= f
    BY <1>1, Apart
  <2> QED BY <1>1, <2>1
<1> QED BY <1>1, <1>2, <1>3

LEMMA MultipleThrough ==
    ASSUME NEW x, NEW k, NEW j \in Nat, Multiple(x, k), Multiple(k, j)
    PROVE  Multiple(x, j)
<1>1. PICK n \in Nat : x = n * k
  BY DEF Multiple
<1>2. PICK m \in Nat : k = m * j
  BY DEF Multiple
<1>3. n * m \in Nat /\ n * (m * j) = (n * m) * j
  OBVIOUS
<1> QED BY <1>1, <1>2, <1>3 DEF Multiple

LEMMA MultipleTimes ==
    ASSUME NEW k \in Nat, NEW w \in Nat
    PROVE  Multiple(k * w, k) /\ Multiple(k, k)
<1>1. k * w = w * k /\ k = 1 * k
  OBVIOUS
<1> QED BY <1>1 DEF Multiple

LEMMA MultipleNext ==
    ASSUME NEW a \in Nat, NEW k \in Nat, Multiple(a, k)
    PROVE  Multiple(a + k, k)
<1>1. PICK n \in Nat : a = n * k
  BY DEF Multiple
<1>2. a + k = (n + 1) * k /\ n + 1 \in Nat
  BY <1>1
<1> QED BY <1>2 DEF Multiple

(* Of the ticks of one turn, no two have the same slot.                    *)
LEMMA QuotientOf ==
    ASSUME NEW n \in Nat, NEW k \in Nat \ {0}
    PROVE  (n * k) \div k = n
<1>1. PICK x \in Nat : x = n * k
  OBVIOUS
<1>2. x \div k \in Nat /\ Floor(x, k) = (x \div k) * k
  BY Floors
<1>3. Multiple(x, k)
  BY <1>1 DEF Multiple
<1>4. Floor(x, k) = x
  BY <1>3, FloorUnique
<1>5. PICK m \in Nat : m = x \div k
  BY <1>2
<1>6. m * k = n * k
  BY <1>1, <1>2, <1>4, <1>5
<1>7. ~(m < n)
  <2> SUFFICES ASSUME m < n PROVE FALSE
    OBVIOUS
  <2>1. (m + 1) * k <= n * k /\ (m + 1) * k = m * k + k
    OBVIOUS
  <2> QED BY <1>6, <2>1
<1>8. ~(n < m)
  <2> SUFFICES ASSUME n < m PROVE FALSE
    OBVIOUS
  <2>1. (n + 1) * k <= m * k /\ (n + 1) * k = n * k + k
    OBVIOUS
  <2> QED BY <1>6, <2>1
<1> QED BY <1>1, <1>5, <1>7, <1>8

LEMMA SameRemainder ==
    ASSUME NEW m \in Nat, NEW n \in Nat, NEW w \in Nat \ {0}, m <= n, n < m + w, m % w = n % w
    PROVE  m = n
<1>1. /\ m \div w \in Nat /\ m % w \in Nat /\ m = w * (m \div w) + (m % w)
      /\ n \div w \in Nat /\ n % w \in Nat /\ n = w * (n \div w) + (n % w)
  OBVIOUS
<1>2. PICK p, q, r \in Nat : p = m \div w /\ q = n \div w /\ r = m % w
  BY <1>1
<1>3. m = w * p + r /\ n = w * q + r
  BY <1>1, <1>2
<1>4. ~(q < p)
  <2> SUFFICES ASSUME q < p PROVE FALSE
    OBVIOUS
  <2>1. w * (q + 1) <= w * p /\ w * (q + 1) = w * q + w
    OBVIOUS
  <2> QED BY <1>3, <2>1
<1>5. ~(p < q)
  <2> SUFFICES ASSUME p < q PROVE FALSE
    OBVIOUS
  <2>1. w * (p + 1) <= w * q /\ w * (p + 1) = w * p + w
    OBVIOUS
  <2> QED BY <1>3, <2>1
<1> QED BY <1>3, <1>4, <1>5

LEMMA OneSlotOneTick ==
    ASSUME NEW a \in Nat, NEW b \in Nat, NEW k \in Nat \ {0}, NEW w \in Nat \ {0}, NEW c \in Nat,
           Multiple(a, k), Multiple(b, k), (a \div k) % w = (b \div k) % w,
           c <= a, a < c + k * w, c <= b, b < c + k * w
    PROVE  a = b
<1>1. PICK m \in Nat : a = m * k
  BY DEF Multiple
<1>2. PICK n \in Nat : b = n * k
  BY DEF Multiple
<1>3. m % w = n % w
  BY <1>1, <1>2, QuotientOf
<1>4. \A i, j \in Nat : j * k < i * k + k * w => j < i + w
  <2> SUFFICES ASSUME NEW i \in Nat, NEW j \in Nat, i + w <= j
               PROVE  ~(j * k < i * k + k * w)
    OBVIOUS
  <2>1. (i + w) * k <= j * k
    OBVIOUS
  <2>2. (i + w) * k = i * k + k * w
    OBVIOUS
  <2>3. i * k \in Nat /\ j * k \in Nat /\ k * w \in Nat
    OBVIOUS
  <2> QED BY <2>1, <2>2, <2>3
<1>5. k * w \in Nat
  OBVIOUS
<1>6. n < m + w /\ m < n + w
  BY <1>1, <1>2, <1>4, <1>5
<1>7. CASE m <= n
  <2>1. m = n
    BY <1>3, <1>6, <1>7, SameRemainder
  <2> QED BY <1>1, <1>2, <2>1
<1>8. CASE n <= m
  <2>1. n = m
    BY <1>3, <1>6, <1>8, SameRemainder
  <2> QED BY <1>1, <1>2, <2>1
<1> QED BY <1>7, <1>8

-----------------------------------------------------------------------------
(* The inductive invariant                                                 *)

Levels == 1 .. Len(wheels)
Clock(l) == wheels[l].cur_time
TickOf(l) == wheels[l].tick
Exp(s) == SlotAt(s).expiration
In(s) == SlotAt(s).tasks
PlacesIn(s) == 1 .. Len(In(s))
Nodes == 1 .. Len(delay_queue)

(* The thread has the slot it pops, still with its expiration, or empties  *)
(* it.                                                                     *)
Popping == wpc \in {"down", "clock"}
Emptying == advancing /\ wpc \in {"flush", "add", "up"}

PcOK ==
    /\ Popping \/ wpc = "flush" => advancing
    /\ wpc \in {"up", "down"} => id \in Nodes
    /\ wpc \notin {"up", "down"} => id = 1
    /\ wpc \notin {"add", "clock"} => level = 1
    /\ wpc = "add" => level \in Levels
    /\ wpc = "clock" => level \in 1 .. Len(wheels) + 1

(* The tick of a wheel is a multiple of those below; its clock stands at   *)
(* the beginning of the tick that the clocks below are in, except for the  *)
(* wheels that advance_clock has not come to.                              *)
Lags(l, m) == wpc = "clock" /\ l < level /\ level <= m
ClockOK ==
    /\ 1 \in Levels /\ TickOf(1) = TickDur /\ Clock(1) <= now
    /\ \A l \in Levels : Multiple(Clock(l), TickOf(l))
    /\ \A l \in Levels : l + 1 \in Levels => TickOf(l + 1) = TickOf(l) * WheelSize
    /\ \A l, m \in Levels : l <= m => Multiple(TickOf(m), TickOf(l))
    /\ \A l, m \in Levels : l < m =>
          /\ Clock(m) <= Clock(l)
          /\ Clock(l) < Clock(m) + TickOf(m) \/ Lags(l, m)

(* A slot with an expiration is of one tick of the turn that begins now.   *)
SlotOK ==
    \A s \in Slots : Exp(s) # Unset =>
        /\ Multiple(Exp(s), TickOf(s[1]))
        /\ (Exp(s) \div TickOf(s[1])) % WheelSize = s[2]
        /\ Clock(1) <= Exp(s) /\ Exp(s) < Clock(s[1]) + TickOf(s[1]) * WheelSize
        /\ In(s) # << >>

PopOK ==
    /\ Popping =>
         /\ Exp(popped) # Unset /\ Exp(popped) <= now
         /\ \A s \in Slots : Exp(s) # Unset => Exp(popped) <= Exp(s)
    /\ wpc = "clock" /\ level > 1 => Clock(1) = Exp(popped)
    /\ Emptying => Exp(popped) = Unset /\ Multiple(Clock(1), TickOf(popped[1]))

AddOK ==
    wpc = "add" =>
        /\ adding \in Tasks /\ expiration[adding] # Unset /\ adding \notin fired
        /\ level > 1 => Clock(level) + TickOf(level) <= expiration[adding]
        /\ advancing => expiration[adding] < Clock(1) + TickOf(popped[1])

(* Every task added and not fired has one place in one slot.               *)
Waiting(t) ==
    expiration[t] # Unset /\ t \notin fired /\ ~(wpc = "add" /\ t = adding)
Begins(s) == IF Emptying /\ s = popped THEN Clock(1) ELSE Exp(s)
PlaceOK ==
    /\ \A t \in fired : expiration[t] # Unset
    /\ \A s \in Slots : \A n \in PlacesIn(s) :
          Waiting(In(s)[n]) /\ Floor(expiration[In(s)[n]], TickOf(s[1])) = Begins(s)
    /\ \A r, s \in Slots : \A m \in PlacesIn(r), n \in PlacesIn(s) :
          In(r)[m] = In(s)[n] => r = s /\ m = n
    /\ \A t \in Tasks : Waiting(t) => \E s \in Slots : \E n \in PlacesIn(s) : In(s)[n] = t

(* The heap has the slots with an expiration, each once.                   *)
Queued(s) == Exp(s) # Unset /\ ~(Popping /\ s = popped)
QueueOK ==
    /\ \A i \in Nodes : Queued(delay_queue[i])
    /\ \A s \in Slots : Queued(s) => \E i \in Nodes : delay_queue[i] = s
    /\ \A i, j \in Nodes : delay_queue[i] = delay_queue[j] => i = j

(* No node is before its parent, but for the one that rises or sinks.      *)
Before(i, j) == Exp(delay_queue[i]) <= Exp(delay_queue[j])
Misplaced(i) == (wpc = "up" /\ i = id) \/ (wpc = "down" /\ Parent(i) = id)
HeapOK ==
    /\ \A i \in Nodes : i > 1 => Before(Parent(i), i) \/ Misplaced(i)
    /\ wpc \in {"up", "down"} /\ id > 1 =>
          \A i \in Nodes : Parent(i) = id => Before(Parent(id), i)

WheelInv ==
    /\ WheelTypeOK /\ PcOK /\ ClockOK /\ SlotOK /\ PopOK /\ AddOK
    /\ PlaceOK /\ QueueOK /\ HeapOK

-----------------------------------------------------------------------------
(* What the operators read off the wheels, and how the actions change it   *)

LEMMA WheelTypes ==
    WheelTypeOK =>
      /\ Len(wheels) \in Nat /\ Levels \subseteq Nat \ {0}
      /\ \A l \in Levels : /\ wheels[l] \in WheelStates /\ Clock(l) \in Nat
                           /\ TickOf(l) \in Nat \ {0} /\ TickOf(l) * WheelSize \in Nat \ {0}
      /\ WheelSize \in Nat \ {0, 1} /\ TickDur \in Nat \ {0}
<1> SUFFICES ASSUME WheelTypeOK PROVE WheelTypes!2
  OBVIOUS
<1>1. Len(wheels) \in Nat /\ Levels \subseteq Nat \ {0}
  BY DEF WheelTypeOK, Levels
<1>2. \A l \in Levels : wheels[l] \in WheelStates
  BY DEF WheelTypeOK, Levels
<1>3. \A l \in Levels : Clock(l) \in Nat /\ TickOf(l) \in Nat \ {0}
  BY <1>2 DEF WheelStates, Clock, TickOf
<1>4. WheelSize \in Nat \ {0, 1} /\ TickDur \in Nat \ {0}
  BY WheelAssumption
<1>5. \A k, w \in Nat \ {0} : k * w \in Nat \ {0}
  OBVIOUS
<1> QED BY <1>1, <1>2, <1>3, <1>4, <1>5

LEMMA SlotTypes ==
    WheelTypeOK => \A s \in Slots :
      /\ s[1] \in Levels /\ s[2] \in 0 .. WheelSize - 1 /\ s = <<s[1], s[2]>>
      /\ SlotAt(s) \in SlotStates /\ Exp(s) \in Nat \union {Unset}
      /\ In(s) \in Seq(Tasks) /\ Len(In(s)) \in Nat
      /\ \A n \in PlacesIn(s) : n \in Nat \ {0} /\ In(s)[n] \in Tasks
<1> SUFFICES ASSUME WheelTypeOK, NEW s \in Slots PROVE SlotTypes!2!(s)
  OBVIOUS
<1>1. s[1] \in Levels /\ s[2] \in 0 .. WheelSize - 1 /\ s = <<s[1], s[2]>>
  BY DEF Slots, Levels
<1>2. wheels[s[1]] \in WheelStates
  BY <1>1, WheelTypes
<1>3. SlotAt(s) \in SlotStates
  BY <1>1, <1>2 DEF WheelStates, SlotAt
<1>4. Exp(s) \in Nat \union {Unset} /\ In(s) \in Seq(Tasks)
  BY <1>3 DEF SlotStates, Exp, In
<1>5. Len(In(s)) \in Nat /\ \A n \in PlacesIn(s) : n \in Nat \ {0} /\ In(s)[n] \in Tasks
  BY <1>4 DEF PlacesIn
<1> QED BY <1>1, <1>3, <1>4, <1>5

LEMMA WheelsStay ==
    ASSUME UNCHANGED wheels
    PROVE  /\ Levels' = Levels /\ Slots' = Slots
           /\ \A l : Clock(l)' = Clock(l) /\ TickOf(l)' = TickOf(l)
           /\ \A s : Exp(s)' = Exp(s) /\ In(s)' = In(s) /\ PlacesIn(s)' = PlacesIn(s)
BY DEF Levels, Slots, Clock, TickOf, Exp, In, PlacesIn, SlotAt

(* One wheel of the chain is replaced.                                     *)
LEMMA OneWheel ==
    ASSUME WheelTypeOK, NEW v \in Levels, NEW w \in WheelStates, wheels' = [wheels EXCEPT ![v] = w]
    PROVE  /\ wheels' \in Seq(WheelStates) /\ Len(wheels') = Len(wheels)
           /\ Levels' = Levels /\ Slots' = Slots
           /\ wheels[v]' = w /\ \A l \in Levels \ {v} : wheels[l]' = wheels[l]
<1>1. wheels \in Seq(WheelStates) /\ v \in 1 .. Len(wheels)
  BY DEF WheelTypeOK, Levels
<1>2. wheels' \in Seq(WheelStates) /\ Len(wheels') = Len(wheels)
  BY <1>1
<1>3. wheels[v]' = w /\ \A l \in Levels \ {v} : wheels[l]' = wheels[l]
  BY <1>1 DEF Levels
<1> QED BY <1>2, <1>3 DEF Levels, Slots

(* One slot of one wheel is replaced.                                      *)
LEMMA OneSlot ==
    ASSUME WheelTypeOK, NEW s \in Slots, NEW x \in SlotStates,
           wheels' = [wheels EXCEPT ![s[1]].slots[s[2]] = x]
    PROVE  /\ wheels' \in Seq(WheelStates) /\ Levels' = Levels /\ Slots' = Slots
           /\ \A l \in Levels : Clock(l)' = Clock(l) /\ TickOf(l)' = TickOf(l)
           /\ SlotAt(s)' = x
           /\ \A r \in Slots \ {s} : SlotAt(r)' = SlotAt(r)
<1>1. s[1] \in Levels /\ s[2] \in 0 .. WheelSize - 1
  BY SlotTypes
<1>2. wheels[s[1]] \in WheelStates
  BY <1>1, WheelTypes
<1>3. PICK w : w = [wheels[s[1]] EXCEPT !.slots[s[2]] = x]
  OBVIOUS
<1>4. /\ w \in WheelStates /\ w.tick = wheels[s[1]].tick /\ w.cur_time = wheels[s[1]].cur_time
      /\ w.slots[s[2]] = x
      /\ \A i \in (0 .. WheelSize - 1) \ {s[2]} : w.slots[i] = wheels[s[1]].slots[i]
  BY <1>1, <1>2, <1>3 DEF WheelStates
<1>5. wheels' = [wheels EXCEPT ![s[1]] = w]
  BY <1>3
<1>6. /\ wheels' \in Seq(WheelStates) /\ Levels' = Levels /\ Slots' = Slots
      /\ wheels[s[1]]' = w /\ \A l \in Levels \ {s[1]} : wheels[l]' = wheels[l]
  <2>1. PICK v \in Levels : v = s[1]
    BY <1>1
  <2>2. w \in WheelStates
    BY <1>4
  <2>3. wheels' = [wheels EXCEPT ![v] = w]
    BY <1>5, <2>1
  <2>4. /\ wheels' \in Seq(WheelStates) /\ Levels' = Levels /\ Slots' = Slots
        /\ wheels[v]' = w /\ \A l \in Levels \ {v} : wheels[l]' = wheels[l]
    BY <2>2, <2>3, OneWheel
  <2> QED BY <2>1, <2>4
<1>7. \A l \in Levels : Clock(l)' = Clock(l) /\ TickOf(l)' = TickOf(l)
  BY <1>1, <1>4, <1>6 DEF Clock, TickOf
<1>8. SlotAt(s)' = x
  BY <1>4, <1>6 DEF SlotAt
<1>9. ASSUME NEW r \in Slots \ {s} PROVE SlotAt(r)' = SlotAt(r)
  <2>1. r[1] \in Levels /\ r[2] \in 0 .. WheelSize - 1 /\ r = <<r[1], r[2]>> /\ s = <<s[1], s[2]>>
    BY SlotTypes
  <2>2. CASE r[1] # s[1]
    BY <1>6, <2>1, <2>2 DEF SlotAt
  <2>3. CASE r[1] = s[1]
    <3>1. r[2] # s[2]
      BY <2>1, <2>3
    <3> QED BY <1>4, <1>6, <2>1, <2>3, <3>1 DEF SlotAt
  <2> QED BY <2>2, <2>3
<1> QED BY <1>6, <1>7, <1>8, <1>9

(* The slot that add_task_to_wheel chooses, and the start of its tick.     *)
Target == <<level, SlotOfTime(wheels[level], expiration[adding])>>
Start == Floor(expiration[adding], TickOf(level))

LEMMA TargetTypes ==
    ASSUME WheelTypeOK, PcOK, AddOK, wpc = "add"
    PROVE  /\ Target \in Slots /\ Target[1] = level /\ level \in Levels
           /\ expiration[adding] \in Nat /\ adding \in Tasks
           /\ Target[2] = (expiration[adding] \div TickOf(level)) % WheelSize
           /\ Start \in Nat /\ Start <= expiration[adding]
           /\ expiration[adding] < Start + TickOf(level)
           /\ Multiple(Start, TickOf(level))
           /\ Start \div TickOf(level) = expiration[adding] \div TickOf(level)
           /\ (Start \div TickOf(level)) % WheelSize = Target[2]
<1>1. level \in Levels /\ adding \in Tasks /\ expiration[adding] # Unset
  BY DEF PcOK, AddOK
<1>2. expiration[adding] \in Nat
  BY <1>1, WheelAssumption DEF WheelTypeOK
<1>3. TickOf(level) \in Nat \ {0} /\ WheelSize \in Nat \ {0}
  BY <1>1, WheelTypes
<1>4. PICK e \in Nat : e = expiration[adding]
  BY <1>2
<1>5. PICK k \in Nat \ {0} : k = TickOf(level)
  BY <1>3
<1>6. /\ e \div k \in Nat /\ Floor(e, k) = (e \div k) * k /\ Floor(e, k) \in Nat
      /\ Floor(e, k) <= e /\ e < Floor(e, k) + k /\ Multiple(Floor(e, k), k)
  BY Floors
<1>7. Floor(e, k) \div k = e \div k
  BY <1>6, QuotientOf
<1>8. (e \div k) % WheelSize \in 0 .. WheelSize - 1
  BY <1>3, <1>6
<1>9. Target = <<level, (e \div k) % WheelSize>>
  BY <1>4, <1>5 DEF Target, SlotOfTime, TickOf
<1>10. Target \in Slots
  BY <1>1, <1>8, <1>9 DEF Slots, Levels
<1>11. Start = Floor(e, k) /\ Target[2] = (e \div k) % WheelSize
  BY <1>4, <1>5, <1>9 DEF Start
<1>12. (Floor(e, k) \div k) % WheelSize = Target[2]
  BY <1>7, <1>11
<1> QED BY <1>1, <1>4, <1>5, <1>6, <1>7, <1>9, <1>10, <1>11, <1>12

LEMMA PutChanges ==
    ASSUME WheelTypeOK, PcOK, AddOK, PutInSlot
    PROVE  /\ wheels' \in Seq(WheelStates) /\ Levels' = Levels /\ Slots' = Slots
           /\ \A l \in Levels : Clock(l)' = Clock(l) /\ TickOf(l)' = TickOf(l)
           /\ \A r \in Slots :
                /\ Exp(r)' = IF r = Target THEN Start ELSE Exp(r)
                /\ In(r)' = IF r = Target THEN Append(In(Target), adding) ELSE In(r)
<1>1. Target \in Slots /\ Target[1] = level /\ adding \in Tasks /\ Start \in Nat
  BY TargetTypes DEF PutInSlot
<1>2. In(Target) \in Seq(Tasks)
  BY <1>1, SlotTypes
<1>3. PICK s \in Slots : s = Target
  BY <1>1
<1>4. PICK x : x = [expiration |-> Start, tasks |-> Append(In(Target), adding)]
  OBVIOUS
<1>5. x \in SlotStates
  BY <1>1, <1>2, <1>4 DEF SlotStates
<1>6. s[1] = level /\ s[2] = SlotOfTime(wheels[level], expiration[adding])
  BY <1>3 DEF Target
<1>7. x = [expiration |-> Floor(expiration[adding], wheels[level].tick),
           tasks |-> Append(wheels[s[1]].slots[s[2]].tasks, adding)]
  BY <1>3, <1>4 DEF Start, TickOf, In, SlotAt
<1>8. wheels' = [wheels EXCEPT ![s[1]].slots[s[2]] = x]
  BY <1>6, <1>7 DEF PutInSlot, Wheel
<1>9. /\ wheels' \in Seq(WheelStates) /\ Levels' = Levels /\ Slots' = Slots
      /\ \A l \in Levels : Clock(l)' = Clock(l) /\ TickOf(l)' = TickOf(l)
      /\ SlotAt(s)' = x /\ \A r \in Slots \ {s} : SlotAt(r)' = SlotAt(r)
  BY <1>5, <1>8, OneSlot
<1>10. Exp(s)' = Start /\ In(s)' = Append(In(Target), adding)
  BY <1>4, <1>9 DEF Exp, In
<1>11. \A r \in Slots \ {s} : Exp(r)' = Exp(r) /\ In(r)' = In(r)
  BY <1>9 DEF Exp, In
<1> QED BY <1>3, <1>9, <1>10, <1>11

LEMMA FlushChanges ==
    ASSUME WheelTypeOK, FlushSlot
    PROVE  /\ wheels' \in Seq(WheelStates) /\ Levels' = Levels /\ Slots' = Slots
           /\ \A l \in Levels : Clock(l)' = Clock(l) /\ TickOf(l)' = TickOf(l)
           /\ Exp(popped)' = Unset
           /\ \A r \in Slots \ {popped} : Exp(r)' = Exp(r)
           /\ \A r \in Slots : In(r)' = In(r)
<1>1. PICK s \in Slots : s = popped
  BY DEF WheelTypeOK
<1>2. SlotAt(s) \in SlotStates /\ In(s) \in Seq(Tasks)
  BY SlotTypes
<1>3. PICK x : x = [expiration |-> Unset, tasks |-> In(s)]
  OBVIOUS
<1>4. x \in SlotStates /\ x = [SlotAt(s) EXCEPT !.expiration = Unset]
  BY <1>2, <1>3 DEF SlotStates, In
<1>5. wheels' = [wheels EXCEPT ![s[1]].slots[s[2]] = x]
  BY <1>1, <1>4 DEF FlushSlot, SlotAt
<1>6. /\ wheels' \in Seq(WheelStates) /\ Levels' = Levels /\ Slots' = Slots
      /\ \A l \in Levels : Clock(l)' = Clock(l) /\ TickOf(l)' = TickOf(l)
      /\ SlotAt(s)' = x /\ \A r \in Slots \ {s} : SlotAt(r)' = SlotAt(r)
  BY <1>4, <1>5, OneSlot
<1>7. Exp(s)' = Unset /\ In(s)' = In(s)
  BY <1>3, <1>6 DEF Exp, In
<1>8. \A r \in Slots \ {s} : Exp(r)' = Exp(r) /\ In(r)' = In(r)
  BY <1>6 DEF Exp, In
<1>9. popped' = popped
  BY DEF FlushSlot
<1> QED BY <1>1, <1>6, <1>7, <1>8, <1>9

LEMMA TakeChanges ==
    ASSUME WheelTypeOK, AddAgain
    PROVE  /\ wheels' \in Seq(WheelStates) /\ Levels' = Levels /\ Slots' = Slots
           /\ \A l \in Levels : Clock(l)' = Clock(l) /\ TickOf(l)' = TickOf(l)
           /\ In(popped) # << >> /\ In(popped)' = Tail(In(popped))
           /\ \A r \in Slots \ {popped} : In(r)' = In(r)
           /\ \A r \in Slots : Exp(r)' = Exp(r)
<1>1. PICK s \in Slots : s = popped
  BY DEF WheelTypeOK
<1>2. SlotAt(s) \in SlotStates /\ In(s) \in Seq(Tasks)
  BY SlotTypes
<1>3. In(s) # << >>
  BY <1>1 DEF AddAgain, In
<1>4. Tail(In(s)) \in Seq(Tasks)
  BY <1>2, <1>3
<1>5. PICK x : x = [expiration |-> Exp(s), tasks |-> Tail(In(s))]
  OBVIOUS
<1>6. x \in SlotStates /\ x = [SlotAt(s) EXCEPT !.tasks = Tail(SlotAt(s).tasks)]
  <2>1. PICK y : y = SlotAt(s)
    OBVIOUS
  <2>2. PICK q : q = Tail(In(s)) /\ q \in Seq(Tasks)
    BY <1>4
  <2>3. y \in [expiration : Nat \union {Unset}, tasks : Seq(Tasks)]
    BY <1>2, <2>1 DEF SlotStates
  <2>4. x = [expiration |-> y.expiration, tasks |-> q]
    BY <1>5, <2>1, <2>2 DEF Exp
  <2>5. y.expiration \in Nat \union {Unset}
    BY <2>3
  <2>6. x \in SlotStates
    BY <2>2, <2>4, <2>5 DEF SlotStates
  <2>7. [y EXCEPT !.tasks = q] = [expiration |-> y.expiration, tasks |-> q]
    BY <2>3
  <2> QED BY <2>1, <2>2, <2>4, <2>6, <2>7 DEF In
<1>7. wheels' = [wheels EXCEPT ![s[1]].slots[s[2]] = x]
  BY <1>1, <1>6 DEF AddAgain, SlotAt
<1>8. /\ wheels' \in Seq(WheelStates) /\ Levels' = Levels /\ Slots' = Slots
      /\ \A l \in Levels : Clock(l)' = Clock(l) /\ TickOf(l)' = TickOf(l)
      /\ SlotAt(s)' = x /\ \A r \in Slots \ {s} : SlotAt(r)' = SlotAt(r)
  BY <1>6, <1>7, OneSlot
<1>9. Exp(s)' = Exp(s) /\ In(s)' = Tail(In(s))
  BY <1>5, <1>8 DEF Exp, In
<1>10. \A r \in Slots \ {s} : Exp(r)' = Exp(r) /\ In(r)' = In(r)
  BY <1>8 DEF Exp, In
<1>11. popped' = popped
  BY DEF AddAgain
<1> QED BY <1>1, <1>3, <1>8, <1>9, <1>10, <1>11

LEMMA MoveChanges ==
    ASSUME WheelTypeOK, MoveWheel, level \in Levels, ClockTime \in Nat
    PROVE  /\ wheels' \in Seq(WheelStates) /\ Levels' = Levels /\ Slots' = Slots
           /\ \A l \in Levels : TickOf(l)' = TickOf(l)
           /\ \A l \in Levels :
                Clock(l)' = IF l = level THEN Floor(ClockTime, TickOf(level)) ELSE Clock(l)
           /\ \A r \in Slots : Exp(r)' = Exp(r) /\ In(r)' = In(r)
<1>1. PICK v \in Levels : v = level
  OBVIOUS
<1>2. wheels[v] \in WheelStates /\ TickOf(v) \in Nat \ {0}
  BY WheelTypes
<1>3. Floor(ClockTime, TickOf(v)) \in Nat
  BY <1>2, Floors
<1>4. PICK w : w = [wheels[v] EXCEPT !.cur_time = Floor(ClockTime, TickOf(v))]
  OBVIOUS
<1>5. /\ w \in WheelStates /\ w.tick = wheels[v].tick /\ w.slots = wheels[v].slots
      /\ w.cur_time = Floor(ClockTime, TickOf(v))
  BY <1>2, <1>3, <1>4 DEF WheelStates
<1>6. wheels' = [wheels EXCEPT ![v] = w]
  BY <1>1, <1>4 DEF MoveWheel, Wheel, TickOf
<1>7. /\ wheels' \in Seq(WheelStates) /\ Levels' = Levels /\ Slots' = Slots
      /\ wheels[v]' = w /\ \A l \in Levels \ {v} : wheels[l]' = wheels[l]
  BY <1>5, <1>6, OneWheel
<1>8. /\ \A l \in Levels : TickOf(l)' = TickOf(l)
      /\ Clock(v)' = Floor(ClockTime, TickOf(v))
      /\ \A l \in Levels \ {v} : Clock(l)' = Clock(l)
  BY <1>5, <1>7 DEF Clock, TickOf
<1>9. ASSUME NEW r \in Slots PROVE SlotAt(r)' = SlotAt(r)
  <2>1. r[1] \in Levels
    BY SlotTypes
  <2> QED BY <1>5, <1>7, <2>1 DEF SlotAt
<1>10. \A r \in Slots : Exp(r)' = Exp(r) /\ In(r)' = In(r)
  BY <1>9 DEF Exp, In
<1> QED BY <1>1, <1>7, <1>8, <1>10

LEMMA GrowChanges ==
    ASSUME WheelTypeOK, GoToWheelAbove, NEW v \in Levels, v = level, v = Len(wheels)
    PROVE  /\ wheels' \in Seq(WheelStates) /\ Len(wheels') = v + 1
           /\ Levels' = Levels \union {v + 1} /\ Levels = 1 .. v
           /\ Slots \subseteq Slots'
           /\ \A l \in Levels : Clock(l)' = Clock(l) /\ TickOf(l)' = TickOf(l)
           /\ TickOf(v + 1)' = TickOf(v) * WheelSize
           /\ Clock(v + 1)' = Floor(Clock(v), TickOf(v) * WheelSize)
           /\ \A r \in Slots : Exp(r)' = Exp(r) /\ In(r)' = In(r)
           /\ \A r \in Slots' \ Slots : Exp(r)' = Unset /\ In(r)' = << >>
<1>1. wheels \in Seq(WheelStates) /\ v \in Nat \ {0} /\ Levels = 1 .. v
  BY WheelTypes DEF WheelTypeOK, Levels
<1>2. Clock(v) \in Nat /\ TickOf(v) * WheelSize \in Nat \ {0}
  BY WheelTypes
<1>3. PICK k \in Nat \ {0} : k = TickOf(v) * WheelSize
  BY <1>2
<1>4. Floor(Clock(v), k) \in Nat
  BY <1>2, Floors
<1>5. PICK w : w = CreateWheel(k, Clock(v))
  OBVIOUS
<1>6. EmptySlot \in SlotStates
  BY DEF EmptySlot, SlotStates
<1>7. /\ w \in WheelStates /\ w.tick = k /\ w.cur_time = Floor(Clock(v), k)
      /\ \A i \in 0 .. WheelSize - 1 : w.slots[i] = EmptySlot
  BY <1>4, <1>5, <1>6 DEF CreateWheel, WheelStates
<1>8. wheels' = Append(wheels, w)
  BY <1>1, <1>3, <1>5 DEF GoToWheelAbove, Wheel, Interval, TickOf, Clock
<1>9. /\ wheels' \in Seq(WheelStates) /\ Len(wheels') = v + 1
      /\ \A l \in Levels : wheels[l]' = wheels[l] /\ wheels'[v + 1] = w
  BY <1>1, <1>7, <1>8 DEF Levels
<1>10. Levels' = Levels \union {v + 1}
  BY <1>1, <1>9 DEF Levels
<1>11. Slots \subseteq Slots'
  BY <1>1, <1>9 DEF Slots
<1>12. \A l \in Levels : Clock(l)' = Clock(l) /\ TickOf(l)' = TickOf(l)
  BY <1>9 DEF Clock, TickOf
<1>13. TickOf(v + 1)' = k /\ Clock(v + 1)' = Floor(Clock(v), k)
  BY <1>7, <1>9 DEF Clock, TickOf
<1>14. ASSUME NEW r \in Slots PROVE Exp(r)' = Exp(r) /\ In(r)' = In(r)
  <2>1. r[1] \in Levels
    BY SlotTypes
  <2> QED BY <1>9, <2>1 DEF Exp, In, SlotAt
<1>15. ASSUME NEW r \in Slots', r \notin Slots PROVE Exp(r)' = Unset /\ In(r)' = << >>
  <2>1. r[1] \in 1 .. v + 1 /\ r[2] \in 0 .. WheelSize - 1 /\ r = <<r[1], r[2]>>
    BY <1>9 DEF Slots
  <2>2. r[1] = v + 1
    BY <1>1, <1>15, <2>1 DEF Slots, Levels
  <2>3. SlotAt(r)' = EmptySlot
    BY <1>7, <1>9, <2>1, <2>2 DEF SlotAt
  <2> QED BY <2>3 DEF Exp, In, EmptySlot
<1> QED BY <1>1, <1>3, <1>9, <1>10, <1>11, <1>12, <1>13, <1>14, <1>15

-----------------------------------------------------------------------------
(* The operators of the heap                                               *)

LEMMA Parents ==
    \A i \in Nat \ {0} : /\ Parent(i) \in Nat /\ Parent(i) < i /\ (i > 1 => Parent(i) >= 1)
                         /\ \A j \in Nat : Parent(i) = j <=> i = 2 * j \/ i = 2 * j + 1
BY DEF Parent

LEMMA SwappedNodes ==
    ASSUME NEW S, NEW h \in Seq(S), NEW i \in 1 .. Len(h), NEW j \in 1 .. Len(h)
    PROVE  /\ SwapNodes(h, i, j) \in Seq(S) /\ Len(SwapNodes(h, i, j)) = Len(h)
           /\ SwapNodes(h, i, j)[i] = h[j] /\ SwapNodes(h, i, j)[j] = h[i]
           /\ \A n \in 1 .. Len(h) : n # i /\ n # j => SwapNodes(h, i, j)[n] = h[n]
<1>1. h[i] \in S /\ h[j] \in S
  OBVIOUS
<1>2. PICK g : g = [h EXCEPT ![i] = h[j], ![j] = h[i]]
  OBVIOUS
<1>3. g \in Seq(S) /\ Len(g) = Len(h)
  BY <1>1, <1>2
<1>4. /\ g[i] = h[j] /\ g[j] = h[i]
      /\ \A n \in 1 .. Len(h) : n # i /\ n # j => g[n] = h[n]
  BY <1>2
<1> QED BY <1>2, <1>3, <1>4 DEF SwapNodes

LEMMA RootTaken ==
    ASSUME NEW S, NEW h \in Seq(S), h # << >>
    PROVE  /\ WithoutRoot(h) \in Seq(S) /\ Len(WithoutRoot(h)) = Len(h) - 1
           /\ \A n \in 1 .. Len(h) - 1 :
                WithoutRoot(h)[n] = IF n = 1 THEN h[Len(h)] ELSE h[n]
<1>1. Len(h) \in Nat \ {0} /\ h[Len(h)] \in S
  OBVIOUS
<1>2. PICK g : g = [h EXCEPT ![1] = h[Len(h)]]
  OBVIOUS
<1>3. /\ g \in Seq(S) /\ Len(g) = Len(h)
      /\ \A n \in 1 .. Len(h) : g[n] = IF n = 1 THEN h[Len(h)] ELSE h[n]
  BY <1>1, <1>2
<1>4. PICK n \in Nat : n = Len(h) - 1
  BY <1>1
<1>5. \A i \in 1 .. n : g[i] \in S
  BY <1>3, <1>4
<1>6. /\ SubSeq(g, 1, n) \in Seq(S) /\ Len(SubSeq(g, 1, n)) = IF 1 <= n THEN n - 1 + 1 ELSE 0
      /\ \A i \in 1 .. n - 1 + 1 : SubSeq(g, 1, n)[i] = g[1 + i - 1]
  BY <1>5, SubSeqProperties
<1>7. \A i \in 1 .. n : SubSeq(g, 1, n)[i] = g[i]
  BY <1>6
<1>8. WithoutRoot(h) = SubSeq(g, 1, n)
  BY <1>2, <1>4 DEF WithoutRoot
<1> QED BY <1>1, <1>3, <1>4, <1>6, <1>7, <1>8

LEMMA NodeTypes ==
    WheelTypeOK => /\ Len(delay_queue) \in Nat /\ Nodes = 1 .. Len(delay_queue)
                   /\ \A i \in Nodes : i \in Nat \ {0} /\ delay_queue[i] \in Slots
                   /\ (delay_queue # << >> <=> 1 \in Nodes)
                   /\ (delay_queue # << >> => First = delay_queue[1])
BY DEF WheelTypeOK, Nodes, First

LEMMA RisesMeans ==
    ASSUME WheelTypeOK, id \in Nodes
    PROVE  Rises(delay_queue, id, SlotKey) <=>
             id > 1 /\ Exp(delay_queue[id]) < Exp(delay_queue[Parent(id)])
<1>1. id \in Nat \ {0} /\ delay_queue[id] \in Slots
  BY NodeTypes
<1>2. \A s \in Slots : SlotKey[s] = Exp(s)
  BY DEF SlotKey, Exp
<1>3. CASE id > 1
  <2>1. Parent(id) \in Nodes
    BY <1>1, <1>3, Parents, NodeTypes
  <2>2. delay_queue[Parent(id)] \in Slots
    BY <2>1, NodeTypes
  <2> QED BY <1>1, <1>2, <1>3, <2>2 DEF Rises
<1>4. CASE ~(id > 1)
  BY <1>4 DEF Rises
<1> QED BY <1>3, <1>4

(* The node that a sinking one changes places with is its child and not    *)
(* after its other child.                                                  *)
LEMMA SinksMeans ==
    ASSUME WheelTypeOK, id \in Nodes
    PROVE  LET c == SmallerChild(delay_queue, id, SlotKey)
           IN /\ Sinks(delay_queue, id, SlotKey) =>
                   /\ c \in Nodes /\ Parent(c) = id /\ c # id
                   /\ Exp(delay_queue[c]) < Exp(delay_queue[id])
                   /\ \A i \in Nodes : Parent(i) = id => Before(c, i)
              /\ ~Sinks(delay_queue, id, SlotKey) =>
                   \A i \in Nodes : Parent(i) = id => Before(id, i)
<1>1. id \in Nat \ {0} /\ delay_queue[id] \in Slots
  BY NodeTypes
<1>2. \A s \in Slots : SlotKey[s] = Exp(s) /\ Exp(s) \in Int
  BY SlotTypes DEF SlotKey, Exp, Unset
<1>3. \A i \in Nodes : Parent(i) = id <=> i = 2 * id \/ i = 2 * id + 1
  BY <1>1, Parents, NodeTypes
<1>4. PICK x \in Nat, y \in Nat : x = 2 * id /\ y = 2 * id + 1
  BY <1>1
<1>5. PICK c : c = SmallerChild(delay_queue, id, SlotKey)
  OBVIOUS
<1>6. CASE ~(x \in Nodes)
  <2>1. ~(2 * id <= Len(delay_queue)) /\ y \notin Nodes
    BY <1>1, <1>4, <1>6, NodeTypes
  <2>2. ~Sinks(delay_queue, id, SlotKey)
    BY <2>1 DEF Sinks
  <2> QED BY <1>3, <1>4, <1>6, <2>1, <2>2
<1>7. CASE x \in Nodes
  <2>1. 2 * id <= Len(delay_queue) /\ delay_queue[x] \in Slots
    BY <1>4, <1>7, NodeTypes
  <2>2. c \in Nodes /\ (c = x \/ c = y) /\ Before(c, x) /\ (y \in Nodes => Before(c, y))
    <3>1. CASE y \in Nodes
      <4>1. delay_queue[y] \in Slots /\ 2 * id < Len(delay_queue)
        BY <1>4, <3>1, NodeTypes
      <4>2. c = IF Exp(delay_queue[x]) > Exp(delay_queue[y]) THEN y ELSE x
        BY <1>2, <1>4, <1>5, <2>1, <4>1 DEF SmallerChild
      <4>3. Exp(delay_queue[x]) \in Int /\ Exp(delay_queue[y]) \in Int
        BY <1>2, <2>1, <4>1
      <4> QED BY <1>7, <3>1, <4>2, <4>3 DEF Before
    <3>2. CASE y \notin Nodes
      <4>1. ~(2 * id < Len(delay_queue))
        BY <1>1, <1>4, <3>2, NodeTypes
      <4>2. c = x
        BY <1>4, <1>5, <4>1 DEF SmallerChild
      <4> QED BY <1>2, <1>7, <2>1, <3>2, <4>2 DEF Before
    <3> QED BY <3>1, <3>2
  <2>3. Sinks(delay_queue, id, SlotKey) <=> Exp(delay_queue[c]) < Exp(delay_queue[id])
    <3>1. delay_queue[c] \in Slots
      BY <2>2, NodeTypes
    <3> QED BY <1>1, <1>2, <1>5, <2>1, <3>1 DEF Sinks
  <2>4. \A i \in Nodes : Parent(i) = id => Before(c, i)
    BY <1>3, <1>4, <2>2
  <2>5. CASE Sinks(delay_queue, id, SlotKey)
    <3>1. Parent(c) = id /\ c # id
      BY <1>1, <1>3, <1>4, <2>2
    <3> QED BY <1>5, <2>2, <2>3, <2>4, <2>5, <3>1
  <2>6. CASE ~Sinks(delay_queue, id, SlotKey)
    <3>1. ASSUME NEW i \in Nodes, Parent(i) = id PROVE Before(id, i)
      <4>1. Before(c, i) /\ delay_queue[c] \in Slots /\ delay_queue[i] \in Slots
        BY <2>2, <2>4, <3>1, NodeTypes
      <4>2. PICK a, b, d \in Int : /\ a = Exp(delay_queue[c]) /\ b = Exp(delay_queue[i])
                                   /\ d = Exp(delay_queue[id])
        BY <1>1, <1>2, <4>1
      <4>3. a <= b /\ ~(a < d)
        BY <2>3, <2>6, <4>1, <4>2 DEF Before
      <4> QED BY <4>2, <4>3 DEF Before
    <3> QED BY <2>6, <3>1
  <2> QED BY <2>5, <2>6
<1> QED BY <1>6, <1>7

-----------------------------------------------------------------------------
(* Types and control                                                       *)

LEMMA ClockTimes ==
    ASSUME WheelTypeOK, PcOK, PopOK, wpc = "clock"
    PROVE  ClockTime \in Nat
<1>1. Exp(popped) \in Nat
  BY SlotTypes DEF WheelTypeOK, PopOK, Popping
<1>2. CASE level = 1
  BY <1>1, <1>2 DEF ClockTime, Exp
<1>3. CASE level # 1
  <2>1. level - 1 \in Levels
    BY <1>3, WheelTypes DEF WheelTypeOK, PcOK, Levels
  <2> QED BY <1>3, <2>1, WheelTypes DEF ClockTime, Clock
<1> QED BY <1>2, <1>3

LEMMA ElapseTypes == ASSUME WheelTypeOK, Elapse PROVE WheelTypeOK'
BY DEF WheelTypeOK, Elapse, locals, Slots

LEMMA AddTaskTypes ==
    ASSUME WheelTypeOK, NEW t \in Tasks, NEW e \in Times, AddTask(t, e) PROVE WheelTypeOK'
BY DEF WheelTypeOK, AddTask, Slots

LEMMA FireTaskTypes == ASSUME WheelTypeOK, AddOK, FireTask PROVE WheelTypeOK'
BY DEF WheelTypeOK, AddOK, FireTask, Added, Slots

LEMMA PutTypes == ASSUME WheelTypeOK, PcOK, AddOK, PutInSlot PROVE WheelTypeOK'
<1>1. /\ wheels' \in Seq(WheelStates) /\ Slots' = Slots
  BY PutChanges
<1>2. Target \in Slots /\ wpc = "add"
  BY TargetTypes DEF PutInSlot
<1>3. delay_queue' \in Seq(Slots) /\ id' \in Nat \ {0}
  <2>1. delay_queue' = delay_queue \/ delay_queue' = Append(delay_queue, Target)
    BY DEF PutInSlot, Target, Wheel
  <2>2. delay_queue \in Seq(Slots)
    BY DEF WheelTypeOK
  <2>3. id' = 1 \/ id' = Len(delay_queue) + 1
    BY DEF PutInSlot, Added
  <2> QED BY <1>2, <2>1, <2>2, <2>3
<1>4. /\ wpc' \in {"ready", "up", "flush"} /\ adding' = NoTask /\ level' = 1
  BY DEF PutInSlot, Added
<1>5. UNCHANGED <<now, expiration, fired, advancing, delay, popped>>
  BY DEF PutInSlot
<1> QED BY <1>1, <1>3, <1>4, <1>5 DEF WheelTypeOK

LEMMA AboveTypes == ASSUME WheelTypeOK, PcOK, GoToWheelAbove PROVE WheelTypeOK'
<1>1. PICK v \in Levels : v = level
  BY DEF PcOK, GoToWheelAbove
<1>2. wheels' \in Seq(WheelStates) /\ Slots \subseteq Slots'
  <2>1. CASE v = Len(wheels)
    BY <1>1, <2>1, GrowChanges
  <2>2. CASE v # Len(wheels)
    <3>1. wheels' = wheels
      BY <1>1, <2>2, WheelTypes DEF GoToWheelAbove, Levels
    <3> QED BY <3>1 DEF WheelTypeOK, Slots
  <2> QED BY <2>1, <2>2
<1>3. delay_queue' \in Seq(Slots')
  BY <1>2 DEF WheelTypeOK, GoToWheelAbove
<1>4. level' \in Nat \ {0}
  BY DEF GoToWheelAbove, WheelTypeOK
<1>5. UNCHANGED <<now, expiration, fired, advancing, delay, wpc, adding, id, popped>>
  BY DEF GoToWheelAbove
<1>6. popped' \in Slots'
  BY <1>2, <1>5 DEF WheelTypeOK
<1> QED BY <1>2, <1>3, <1>4, <1>5, <1>6 DEF WheelTypeOK

LEMMA UpTypes == ASSUME WheelTypeOK, PcOK, ShiftUp PROVE WheelTypeOK'
<1>1. Slots' = Slots /\ id \in Nodes /\ delay_queue \in Seq(Slots)
  BY DEF ShiftUp, PcOK, Slots, WheelTypeOK
<1>2. delay_queue' \in Seq(Slots') /\ id' \in Nat \ {0}
  <2>1. CASE Rises(delay_queue, id, SlotKey)
    <3>1. Parent(id) \in Nodes /\ Parent(id) \in Nat \ {0}
      BY <1>1, <2>1, Parents, NodeTypes DEF Rises
    <3> QED BY <1>1, <2>1, <3>1, NodeTypes, SwappedNodes DEF ShiftUp
  <2>2. CASE ~Rises(delay_queue, id, SlotKey)
    BY <1>1, <2>2 DEF ShiftUp, Added
  <2> QED BY <2>1, <2>2
<1>3. /\ wpc' \in {"ready", "up", "flush"} /\ adding' \in {adding, NoTask} /\ level' \in {level, 1}
  BY DEF ShiftUp, Added
<1>4. UNCHANGED <<now, expiration, wheels, fired, advancing, delay, popped>>
  BY DEF ShiftUp
<1> QED BY <1>1, <1>2, <1>3, <1>4 DEF WheelTypeOK

LEMMA BeginTypes == ASSUME WheelTypeOK, Begin PROVE WheelTypeOK'
BY DEF WheelTypeOK, Begin, locals, Slots

LEMMA PopTypes == ASSUME WheelTypeOK, PopSlot PROVE WheelTypeOK'
<1>1. Slots' = Slots /\ delay_queue \in Seq(Slots) /\ delay_queue # << >>
  BY DEF PopSlot, Expired, Slots, WheelTypeOK
<1>2. delay_queue' \in Seq(Slots) /\ popped' \in Slots
  BY <1>1, NodeTypes, RootTaken DEF PopSlot
<1> QED BY <1>1, <1>2 DEF WheelTypeOK, PopSlot

LEMMA DownTypes == ASSUME WheelTypeOK, PcOK, ShiftDown PROVE WheelTypeOK'
<1>1. Slots' = Slots /\ id \in Nodes /\ delay_queue \in Seq(Slots)
  BY DEF ShiftDown, PcOK, Slots, WheelTypeOK
<1>2. delay_queue' \in Seq(Slots') /\ id' \in Nat \ {0}
  <2>1. CASE Sinks(delay_queue, id, SlotKey)
    <3>1. PICK c \in Nodes : c = SmallerChild(delay_queue, id, SlotKey)
      BY <1>1, <2>1, SinksMeans
    <3>2. delay_queue' = SwapNodes(delay_queue, c, id) /\ id' = c
      BY <2>1, <3>1 DEF ShiftDown
    <3> QED BY <1>1, <3>1, <3>2, NodeTypes, SwappedNodes
  <2>2. CASE ~Sinks(delay_queue, id, SlotKey)
    BY <1>1, <2>2 DEF ShiftDown
  <2> QED BY <2>1, <2>2
<1>3. wpc' \in {"down", "clock"}
  BY DEF ShiftDown
<1>4. UNCHANGED <<now, expiration, wheels, fired, advancing, delay, adding, level, popped>>
  BY DEF ShiftDown
<1> QED BY <1>1, <1>2, <1>3, <1>4 DEF WheelTypeOK

LEMMA MoveTypes == ASSUME WheelTypeOK, PcOK, PopOK, MoveWheel PROVE WheelTypeOK'
<1>1. ClockTime \in Nat /\ level \in Levels
  BY ClockTimes DEF MoveWheel, CanTick, Levels, WheelTypeOK
<1>2. wheels' \in Seq(WheelStates) /\ Slots' = Slots
  BY <1>1, MoveChanges
<1> QED BY <1>2 DEF WheelTypeOK, MoveWheel

LEMMA FlushTypes == ASSUME WheelTypeOK, FlushSlot PROVE WheelTypeOK'
<1>1. wheels' \in Seq(WheelStates) /\ Slots' = Slots
  BY FlushChanges
<1> QED BY <1>1 DEF WheelTypeOK, FlushSlot

LEMMA AgainTypes == ASSUME WheelTypeOK, AddAgain PROVE WheelTypeOK'
<1>1. wheels' \in Seq(WheelStates) /\ Slots' = Slots
  BY TakeChanges
<1>2. In(popped) \in Seq(Tasks) /\ In(popped) # << >>
  BY SlotTypes, TakeChanges DEF WheelTypeOK
<1>3. adding' \in Tasks
  BY <1>2 DEF AddAgain, In
<1> QED BY <1>1, <1>3 DEF WheelTypeOK, AddAgain

LEMMA FlushedTypes == ASSUME WheelTypeOK, ClockOK, Flushed PROVE WheelTypeOK'
<1>1. NoSlot \in Slots
  BY WheelTypes DEF NoSlot, Slots, ClockOK, Levels
<1> QED BY <1>1 DEF WheelTypeOK, Flushed, Slots

LEMMA ReturnTypes == ASSUME WheelTypeOK, PcOK, Return PROVE WheelTypeOK'
<1>1. delay' \in Nat
  <2>1. CASE delay_queue = << >>
    BY <2>1 DEF Return
  <2>2. CASE delay_queue # << >>
    <3>1. First \in Slots /\ Exp(First) \in Int
      BY <2>2, NodeTypes, SlotTypes DEF Unset
    <3>2. Exp(First) > now /\ now \in Nat /\ delay' = Exp(First) - now
      BY <2>2, <3>1, WheelAssumption DEF Return, Expired, Exp, WheelTypeOK
    <3> QED BY <3>1, <3>2
  <2> QED BY <2>1, <2>2
<1> QED BY <1>1 DEF WheelTypeOK, Return, locals, Slots

LEMMA PcStep ==
    ASSUME WheelTypeOK, PcOK, ClockOK, PopOK, AddOK, [WheelNext]_wheelVars PROVE PcOK'
<1>1. ASSUME NEW t \in Tasks, NEW e \in Times, AddTask(t, e) PROVE PcOK'
  <2>1. 1 \in Levels /\ UNCHANGED wheels
    BY <1>1 DEF ClockOK, AddTask
  <2> QED BY <1>1, <2>1, WheelsStay DEF PcOK, AddTask, Calling, Popping
<1>2. CASE FireTask
  BY <1>2, WheelsStay DEF PcOK, FireTask, Added, Popping
<1>3. CASE PutInSlot
  <2>1. wpc' = "up" => id' = Len(delay_queue) + 1 /\ Len(delay_queue') = Len(delay_queue) + 1
    BY <1>3 DEF PutInSlot, Added, WheelTypeOK
  <2>2. wpc' = "up" => id' \in Nodes'
    BY <2>1, NodeTypes DEF Nodes
  <2>3. wpc' \in {"ready", "up", "flush"} /\ level' = 1 /\ (wpc' # "up" => id' = 1)
    BY <1>3 DEF PutInSlot, Added
  <2>4. (wpc' = "flush" => advancing) /\ advancing' = advancing
    BY <1>3 DEF PutInSlot, Added
  <2> QED BY <2>2, <2>3, <2>4 DEF PcOK, Popping
<1>4. CASE GoToWheelAbove
  <2>1. PICK v \in Levels : v = level /\ v \in Nat
    BY <1>4, WheelTypes DEF PcOK, GoToWheelAbove
  <2>2. v + 1 \in Levels'
    <3>1. CASE v = Len(wheels)
      BY <1>4, <2>1, <3>1, GrowChanges
    <3>2. CASE v # Len(wheels)
      BY <1>4, <2>1, <3>2, WheelTypes DEF GoToWheelAbove, Levels
    <3> QED BY <3>1, <3>2
  <2> QED BY <1>4, <2>1, <2>2 DEF PcOK, GoToWheelAbove, Popping
<1>5. CASE ShiftUp
  <2>1. Nodes' = Nodes /\ (wpc' = "up" => id' \in Nodes) /\ wpc = "up"
    <3>1. id \in Nodes /\ delay_queue \in Seq(Slots)
      BY <1>5 DEF ShiftUp, PcOK, WheelTypeOK
    <3>2. CASE Rises(delay_queue, id, SlotKey)
      <4>1. Parent(id) \in Nodes /\ id' = Parent(id)
        BY <1>5, <3>1, <3>2, Parents, NodeTypes DEF Rises, ShiftUp
      <4> QED BY <1>5, <3>1, <3>2, <4>1, NodeTypes, SwappedNodes DEF ShiftUp, Nodes
    <3>3. CASE ~Rises(delay_queue, id, SlotKey)
      BY <1>5, <3>3 DEF ShiftUp, Added, Nodes
    <3> QED BY <3>2, <3>3
  <2>2. /\ wpc' \in {"ready", "up", "flush"} /\ (wpc' = "flush" => advancing)
        /\ advancing' = advancing /\ (wpc' # "up" => id' = 1 /\ level' = 1)
        /\ (wpc' = "up" => level' = level)
    BY <1>5 DEF ShiftUp, Added
  <2> QED BY <2>1, <2>2 DEF PcOK, Popping
<1>6. CASE Elapse
  BY <1>6, WheelsStay DEF PcOK, Elapse, Calling, locals, Popping, Nodes
<1>7. CASE Begin
  BY <1>7, WheelsStay DEF PcOK, Begin, Calling, locals, Popping, Nodes
<1>8. CASE PopSlot
  <2>1. /\ wpc = "ready" /\ advancing /\ advancing' = advancing /\ id' = id /\ level' = level
        /\ wpc' \in {"down", "clock"} /\ (wpc' = "down" => Len(delay_queue) > 1)
        /\ UNCHANGED wheels /\ delay_queue # << >> /\ delay_queue' = WithoutRoot(delay_queue)
    BY <1>8 DEF PopSlot, Expired
  <2>2. Len(delay_queue') = Len(delay_queue) - 1 /\ id = 1 /\ level = 1
    BY <2>1, RootTaken DEF WheelTypeOK, PcOK
  <2>3. wpc' = "down" => id' \in Nodes'
    BY <2>1, <2>2, NodeTypes DEF Nodes
  <2>4. level' \in 1 .. Len(wheels') + 1
    BY <2>1, <2>2, WheelTypes
  <2> QED BY <2>1, <2>2, <2>3, <2>4 DEF PcOK, Popping
<1>9. CASE ShiftDown
  <2>1. wpc = "down" /\ id \in Nodes /\ delay_queue \in Seq(Slots) /\ advancing /\ level = 1
    BY <1>9 DEF ShiftDown, PcOK, WheelTypeOK, Popping
  <2>2. wpc' = "down" => id' \in Nodes'
    <3> SUFFICES ASSUME wpc' = "down" PROVE id' \in Nodes'
      OBVIOUS
    <3>1. Sinks(delay_queue, id, SlotKey)
      BY <1>9 DEF ShiftDown
    <3>2. PICK c \in Nodes : c = SmallerChild(delay_queue, id, SlotKey)
      BY <2>1, <3>1, SinksMeans
    <3>3. delay_queue' = SwapNodes(delay_queue, c, id) /\ id' = c
      BY <1>9, <3>1, <3>2 DEF ShiftDown
    <3>4. Len(delay_queue') = Len(delay_queue)
      BY <2>1, <3>2, <3>3, SwappedNodes, NodeTypes
    <3> QED BY <3>2, <3>3, <3>4 DEF Nodes
  <2>3. wpc' \in {"down", "clock"} /\ advancing' = advancing /\ level' = level
    BY <1>9 DEF ShiftDown
  <2>4. wpc' = "clock" => id' = 1
    BY <1>9 DEF ShiftDown
  <2>5. 1 \in 1 .. Len(wheels') + 1
    BY <1>9, WheelTypes DEF ShiftDown
  <2> QED BY <2>1, <2>2, <2>3, <2>4, <2>5 DEF PcOK, Popping
<1>10. CASE MoveWheel
  <2>1. ClockTime \in Nat /\ level \in Levels
    BY <1>10, ClockTimes DEF MoveWheel, CanTick, Levels, WheelTypeOK
  <2>2. Levels' = Levels /\ wheels' \in Seq(WheelStates)
    BY <1>10, <2>1, MoveChanges
  <2>3. level' \in 1 .. Len(wheels') + 1
    BY <1>10, <2>1, <2>2, WheelTypes DEF MoveWheel, Levels
  <2> QED BY <1>10, <2>3 DEF PcOK, MoveWheel, Popping
<1>11. CASE FlushSlot
  BY <1>11 DEF PcOK, FlushSlot, Popping
<1>12. CASE AddAgain
  <2>1. Levels' = Levels
    BY <1>12, TakeChanges
  <2> QED BY <1>12, <2>1 DEF PcOK, AddAgain, Popping, ClockOK
<1>13. CASE Flushed
  BY <1>13 DEF PcOK, Flushed, Popping
<1>14. CASE Return
  BY <1>14 DEF PcOK, Return, locals, Popping
<1>15. CASE UNCHANGED wheelVars
  BY <1>15 DEF PcOK, wheelVars, locals, Levels, Nodes, Popping
<1> QED BY <1>1, <1>2, <1>3, <1>4, <1>5, <1>6, <1>7, <1>8, <1>9, <1>10, <1>11, <1>12,
           <1>13, <1>14, <1>15 DEF WheelNext

-----------------------------------------------------------------------------
(* The clocks of the wheels                                                *)

(* A multiple of a lower tick that is before the end of an upper tick      *)
(* leaves room for one more of the lower.                                  *)
LEMMA RoomForOne ==
    ASSUME NEW a \in Nat, NEW j \in Nat \ {0}, NEW c \in Nat, NEW k \in Nat \ {0},
           Multiple(a, j), Multiple(k, j), Multiple(c, k), a < c + k
    PROVE  a + j <= c + k
<1>1. Multiple(c, j)
  BY MultipleThrough
<1>2. PICK m \in Nat, n \in Nat : c = m * j /\ k = n * j
  BY <1>1 DEF Multiple
<1>3. c + k = (m + n) * j /\ m + n \in Nat
  BY <1>2
<1>4. PICK b \in Nat : b = c + k
  OBVIOUS
<1>5. Multiple(b, j)
  BY <1>3, <1>4 DEF Multiple
<1>6. a + j <= b
  BY <1>4, <1>5, Apart
<1> QED BY <1>4, <1>6

LEMMA ClockKept ==
    ASSUME WheelTypeOK, ClockOK, wpc # "clock", Levels' = Levels, now' \in Nat, now <= now',
           \A l \in Levels : Clock(l)' = Clock(l) /\ TickOf(l)' = TickOf(l)
    PROVE  ClockOK'
<1>1. now \in Nat
  BY WheelAssumption DEF WheelTypeOK
<1>2. 1 \in Levels /\ TickOf(1) = TickDur /\ Clock(1) <= now /\ Clock(1) \in Nat
  BY WheelTypes DEF ClockOK
<1>3. (1 \in Levels /\ TickOf(1) = TickDur /\ Clock(1) <= now)'
  BY <1>1, <1>2
<1>4. \A l, m \in Levels : l < m => Clock(m) <= Clock(l) /\ Clock(l) < Clock(m) + TickOf(m)
  BY DEF ClockOK, Lags
<1>5. \A l, m \in Levels' : l < m => (Clock(m) <= Clock(l) /\ Clock(l) < Clock(m) + TickOf(m))'
  BY <1>4
<1>6. \A l \in Levels : /\ Multiple(Clock(l), TickOf(l))
                        /\ l + 1 \in Levels => TickOf(l + 1) = TickOf(l) * WheelSize
  BY DEF ClockOK
<1>7. \A l \in Levels' : (/\ Multiple(Clock(l), TickOf(l))
                          /\ l + 1 \in Levels => TickOf(l + 1) = TickOf(l) * WheelSize)'
  BY <1>6 DEF Multiple
<1>8. \A l, m \in Levels : l <= m => Multiple(TickOf(m), TickOf(l))
  BY DEF ClockOK
<1>9. \A l, m \in Levels' : l <= m => Multiple(TickOf(m), TickOf(l))'
  BY <1>8 DEF Multiple
<1> QED BY <1>3, <1>5, <1>7, <1>9 DEF ClockOK

(* A wheel created above starts with the tick that the wheel below is in.  *)
LEMMA AboveClock ==
    ASSUME WheelTypeOK, PcOK, ClockOK, GoToWheelAbove, NEW v \in Levels, v = level, v = Len(wheels)
    PROVE  ClockOK'
<1>1. /\ Levels' = Levels \union {v + 1} /\ Levels = 1 .. v /\ v \in Nat \ {0}
      /\ \A l \in Levels : Clock(l)' = Clock(l) /\ TickOf(l)' = TickOf(l)
      /\ TickOf(v + 1)' = TickOf(v) * WheelSize
      /\ Clock(v + 1)' = Floor(Clock(v), TickOf(v) * WheelSize)
  BY GrowChanges, WheelTypes
<1>2. /\ \A l \in Levels : Clock(l) \in Nat /\ TickOf(l) \in Nat \ {0}
      /\ TickOf(v) * WheelSize \in Nat \ {0} /\ WheelSize \in Nat
  BY WheelTypes
<1>3. PICK c \in Nat, j \in Nat \ {0}, k \in Nat \ {0} :
        c = Clock(v) /\ j = TickOf(v) /\ k = TickOf(v) * WheelSize
  BY <1>2
<1>4. PICK f \in Nat : f = Floor(c, k) /\ f <= c /\ c < f + k /\ Multiple(f, k)
  BY Floors
<1>5. Clock(v + 1)' = f /\ TickOf(v + 1)' = k
  BY <1>1, <1>3, <1>4
<1>6. Multiple(k, j) /\ Multiple(k, k) /\ Multiple(c, j)
  <2>1. Multiple(j * WheelSize, j) /\ Multiple(k, k)
    BY <1>2, MultipleTimes
  <2> QED BY <1>3, <2>1 DEF ClockOK
<1>7. c + j <= f + k
  BY <1>4, <1>6, RoomForOne
<1>8. (1 \in Levels /\ TickOf(1) = TickDur /\ Clock(1) <= now)'
  BY <1>1 DEF ClockOK, GoToWheelAbove
<1>9. ASSUME NEW l \in Levels' PROVE Multiple(Clock(l), TickOf(l))'
  <2>1. CASE l = v + 1
    BY <1>4, <1>5, <2>1 DEF Multiple
  <2>2. CASE l \in Levels
    BY <1>1, <2>2 DEF ClockOK, Multiple
  <2> QED BY <1>1, <2>1, <2>2
<1>10. ASSUME NEW l \in Levels', l + 1 \in Levels' PROVE (TickOf(l + 1) = TickOf(l) * WheelSize)'
  <2>1. CASE l = v
    BY <1>1, <2>1
  <2>2. CASE l # v
    <3>1. l \in Levels /\ l + 1 \in Levels
      BY <1>1, <1>10, <2>2
    <3> QED BY <1>1, <3>1 DEF ClockOK
  <2> QED BY <2>1, <2>2
<1>11. ASSUME NEW l \in Levels', NEW m \in Levels', l <= m PROVE Multiple(TickOf(m), TickOf(l))'
  <2>1. CASE m \in Levels
    <3>1. l \in Levels /\ Multiple(TickOf(m), TickOf(l))
      BY <1>1, <1>11, <2>1 DEF ClockOK
    <3> QED BY <1>1, <2>1, <3>1 DEF Multiple
  <2>2. CASE m = v + 1 /\ l \in Levels
    <3>1. Multiple(j, TickOf(l)) /\ TickOf(l) \in Nat
      BY <1>1, <1>2, <1>3, <2>2 DEF ClockOK
    <3>2. Multiple(k, TickOf(l))
      BY <1>6, <3>1, MultipleThrough
    <3> QED BY <1>1, <1>5, <2>2, <3>2 DEF Multiple
  <2>3. CASE m = v + 1 /\ l = v + 1
    BY <1>5, <1>6, <2>3 DEF Multiple
  <2> QED BY <1>1, <2>1, <2>2, <2>3
<1>12. wpc # "clock" /\ wpc' # "clock"
  BY DEF GoToWheelAbove
<1>13. ASSUME NEW l \in Levels', NEW m \in Levels', l < m
       PROVE  (Clock(m) <= Clock(l) /\ Clock(l) < Clock(m) + TickOf(m))'
  <2>1. CASE m \in Levels
    <3>1. l \in Levels /\ Clock(m) <= Clock(l) /\ Clock(l) < Clock(m) + TickOf(m)
      BY <1>1, <1>12, <1>13, <2>1 DEF ClockOK, Lags
    <3> QED BY <1>1, <2>1, <3>1
  <2>2. CASE m = v + 1 /\ l = v
    <3>1. c < f + k
      BY <1>4
    <3>2. Clock(m)' = f /\ TickOf(m)' = k /\ Clock(l)' = c
      BY <1>1, <1>3, <1>5, <2>2
    <3> QED BY <1>4, <3>1, <3>2
  <2>3. CASE m = v + 1 /\ l \in Levels /\ l # v
    <3>1. PICK b \in Nat : b = Clock(l)
      BY <1>2, <2>3
    <3>2. c <= b /\ b < c + j
      BY <1>1, <1>3, <1>12, <2>3, <3>1 DEF ClockOK, Lags
    <3>3. Clock(m)' = f /\ TickOf(m)' = k /\ Clock(l)' = b
      BY <1>1, <1>5, <2>3, <3>1
    <3> QED BY <1>4, <1>7, <3>2, <3>3
  <2> QED BY <1>1, <1>13, <2>1, <2>2, <2>3
<1> QED BY <1>8, <1>9, <1>10, <1>11, <1>13 DEF ClockOK

(* advance_clock takes the wheels along one after the other.               *)
LEMMA ClockTimeBound ==
    ASSUME WheelTypeOK, PcOK, ClockOK, SlotOK, PopOK, wpc = "clock"
    PROVE  /\ ClockTime \in Nat /\ ClockTime <= now
           /\ level = 1 => ClockTime = Exp(popped) /\ Clock(1) <= ClockTime
           /\ level > 1 => /\ level - 1 \in Levels /\ ClockTime = Clock(level - 1)
                           /\ \A l \in Levels : l < level =>
                                 ClockTime <= Clock(l) /\ Clock(l) < ClockTime + TickOf(level - 1)
<1>1. ClockTime \in Nat
  BY ClockTimes
<1>2. CASE level = 1
  <2>1. ClockTime = Exp(popped) /\ Exp(popped) # Unset /\ popped \in Slots /\ Exp(popped) <= now
    BY <1>2 DEF ClockTime, Exp, PopOK, Popping, WheelTypeOK
  <2>2. Clock(1) <= Exp(popped)
    BY <2>1 DEF SlotOK
  <2> QED BY <1>1, <1>2, <2>1, <2>2
<1>3. CASE level > 1
  <2>1. level - 1 \in Levels /\ level \in Nat
    BY <1>3, WheelTypes DEF WheelTypeOK, PcOK, Levels
  <2>2. ClockTime = Clock(level - 1)
    BY <1>3 DEF ClockTime, Clock
  <2>3. ASSUME NEW l \in Levels, l < level
        PROVE  ClockTime <= Clock(l) /\ Clock(l) < ClockTime + TickOf(level - 1)
    <3>1. CASE l = level - 1
      BY <2>1, <2>2, <3>1, WheelTypes
    <3>2. CASE l # level - 1
      <4>1. l < level - 1 /\ ~Lags(l, level - 1)
        BY <2>1, <2>3, <3>2, WheelTypes DEF Lags
      <4> QED BY <2>1, <2>2, <4>1 DEF ClockOK
    <3> QED BY <3>1, <3>2
  <2>4. 1 \in Levels /\ Clock(1) <= now /\ Clock(1) \in Nat /\ now \in Nat
    BY WheelTypes, WheelAssumption DEF ClockOK, WheelTypeOK
  <2>5. ClockTime <= now
    BY <1>1, <1>3, <2>3, <2>4
  <2> QED BY <1>1, <1>3, <2>1, <2>2, <2>3, <2>5
<1> QED BY <1>1, <1>2, <1>3 DEF WheelTypeOK

LEMMA MoveClock ==
    ASSUME WheelTypeOK, PcOK, ClockOK, SlotOK, PopOK, MoveWheel PROVE ClockOK'
<1>1. wpc = "clock" /\ level \in Levels /\ wpc' = "clock" /\ level' = level + 1 /\ now' = now
  BY DEF MoveWheel, CanTick, Levels, WheelTypeOK
<1>2. PICK v \in Levels : v = level
  BY <1>1
<1>3. PICK t \in Nat : t = ClockTime
  BY <1>1, ClockTimes
<1>4. PICK j \in Nat \ {0} : j = TickOf(v)
  BY WheelTypes
<1>5. PICK f \in Nat : f = Floor(t, j) /\ f <= t /\ t < f + j /\ Multiple(f, j)
  BY Floors
<1>6. /\ Levels' = Levels /\ \A l \in Levels : TickOf(l)' = TickOf(l)
      /\ \A l \in Levels : Clock(l)' = IF l = v THEN f ELSE Clock(l)
  BY <1>1, <1>2, <1>3, <1>4, <1>5, MoveChanges
<1>7. \A l \in Levels : l \in Nat \ {0} /\ Clock(l) \in Nat /\ TickOf(l) \in Nat \ {0}
  BY WheelTypes
<1>8. Clock(v) <= f
  <2>1. t >= Clock(v) + j
    BY <1>2, <1>3, <1>4 DEF MoveWheel, CanTick, Wheel, Clock, TickOf
  <2> QED BY <1>5, <1>7, <2>1
<1>9. \A l \in Levels : l < v => f <= Clock(l) /\ Clock(l) < f + j
  <2> SUFFICES ASSUME NEW l \in Levels, l < v PROVE f <= Clock(l) /\ Clock(l) < f + j
    OBVIOUS
  <2>1. v > 1 /\ v - 1 \in Levels /\ t = Clock(v - 1) /\ t <= Clock(l) /\ Clock(l) < t + TickOf(v - 1)
    BY <1>1, <1>2, <1>3, <1>7, ClockTimeBound
  <2>2. PICK b \in Nat, i \in Nat \ {0} : b = Clock(l) /\ i = TickOf(v - 1)
    BY <1>7, <2>1
  <2>3. Multiple(t, i) /\ Multiple(j, i)
    BY <1>4, <1>7, <2>1, <2>2 DEF ClockOK
  <2>4. t + i <= f + j
    BY <1>5, <2>3, RoomForOne
  <2> QED BY <1>5, <2>1, <2>2, <2>4
<1>10. (1 \in Levels /\ TickOf(1) = TickDur /\ Clock(1) <= now)'
  <2>1. 1 \in Levels /\ TickOf(1) = TickDur /\ Clock(1) <= now /\ t <= now /\ now \in Nat
    BY <1>1, <1>3, ClockTimeBound, WheelAssumption DEF ClockOK, WheelTypeOK
  <2>2. Clock(1)' <= now
    BY <1>5, <1>6, <2>1
  <2> QED BY <1>1, <1>6, <2>1, <2>2
<1>11. ASSUME NEW l \in Levels' PROVE Multiple(Clock(l), TickOf(l))'
  <2>1. CASE l = v
    BY <1>4, <1>5, <1>6, <2>1 DEF Multiple
  <2>2. CASE l # v
    BY <1>6, <2>2 DEF ClockOK, Multiple
  <2> QED BY <2>1, <2>2
<1>12. ASSUME NEW l \in Levels', l + 1 \in Levels' PROVE (TickOf(l + 1) = TickOf(l) * WheelSize)'
  BY <1>6, <1>12 DEF ClockOK
<1>13. ASSUME NEW l \in Levels', NEW m \in Levels', l <= m PROVE Multiple(TickOf(m), TickOf(l))'
  BY <1>6, <1>13 DEF ClockOK, Multiple
<1>14. ASSUME NEW l \in Levels', NEW m \in Levels', l < m
       PROVE  (Clock(m) <= Clock(l) /\ (Clock(l) < Clock(m) + TickOf(m) \/ Lags(l, m)))'
  <2>1. Clock(m) <= Clock(l) /\ (Clock(l) < Clock(m) + TickOf(m) \/ Lags(l, m))
    BY <1>6, <1>14 DEF ClockOK
  <2>2. CASE m = v
    BY <1>4, <1>6, <1>7, <1>9, <1>14, <2>2
  <2>3. CASE l = v
    <3>1. Lags(l, m)'
      BY <1>1, <1>2, <1>6, <1>7, <1>14, <2>3 DEF Lags
    <3>2. (Clock(m) <= Clock(l))'
      BY <1>5, <1>6, <1>7, <1>8, <1>14, <2>1, <2>3
    <3> QED BY <3>1, <3>2
  <2>4. CASE l # v /\ m # v
    <3>1. Lags(l, m) => Lags(l, m)'
      BY <1>1, <1>2, <1>6, <1>7, <2>4 DEF Lags
    <3> QED BY <1>6, <2>1, <2>4, <3>1
  <2> QED BY <2>2, <2>3, <2>4
<1> QED BY <1>10, <1>11, <1>12, <1>13, <1>14 DEF ClockOK

LEMMA FlushClock ==
    ASSUME WheelTypeOK, PcOK, ClockOK, SlotOK, PopOK, FlushSlot PROVE ClockOK'
<1>1. wpc = "clock" /\ ~CanTick /\ now' = now
  BY DEF FlushSlot
<1>2. Levels' = Levels /\ \A l \in Levels : TickOf(l)' = TickOf(l) /\ Clock(l)' = Clock(l)
  BY FlushChanges
<1>3. \A l \in Levels : l \in Nat \ {0} /\ Clock(l) \in Nat /\ TickOf(l) \in Nat \ {0}
  BY WheelTypes
<1>4. PICK v \in Nat : v = level
  BY DEF WheelTypeOK
<1>5. ASSUME NEW l \in Levels, NEW m \in Levels, l < m PROVE Clock(l) < Clock(m) + TickOf(m)
  <2>1. CASE ~Lags(l, m)
    BY <1>5, <2>1 DEF ClockOK
  <2>2. CASE Lags(l, m)
    <3>1. l < v /\ v <= m /\ v > 1 /\ v \in Levels
      BY <1>3, <1>4, <2>2 DEF Lags, Levels
    <3>2. v - 1 \in Levels /\ Clock(l) < Clock(v - 1) + TickOf(v - 1)
      BY <1>1, <1>4, <3>1, ClockTimeBound
    <3>3. Clock(v - 1) < Clock(v) + TickOf(v)
      <4>1. ClockTime = Clock(v - 1) /\ level <= Len(wheels)
        BY <1>1, <1>4, <3>1, ClockTimeBound DEF Levels
      <4>2. ~(ClockTime >= Clock(v) + TickOf(v))
        BY <1>1, <1>4, <4>1 DEF CanTick, Wheel, Clock, TickOf
      <4> QED BY <1>3, <3>1, <3>2, <4>1, <4>2
    <3>4. PICK b \in Nat, t \in Nat, i \in Nat \ {0}, c \in Nat, j \in Nat \ {0} :
            /\ b = Clock(l) /\ t = Clock(v - 1) /\ i = TickOf(v - 1)
            /\ c = Clock(v) /\ j = TickOf(v)
      BY <1>3, <3>1, <3>2
    <3>5. Multiple(t, i) /\ Multiple(j, i) /\ Multiple(c, j)
      BY <1>3, <3>1, <3>2, <3>4 DEF ClockOK
    <3>6. t + i <= c + j
      BY <3>3, <3>4, <3>5, RoomForOne
    <3>7. b < c + j
      BY <3>2, <3>4, <3>6
    <3>8. CASE v = m
      BY <3>4, <3>7, <3>8
    <3>9. CASE v # m
      <4>1. v < m /\ ~Lags(v, m)
        BY <1>3, <1>4, <3>1, <3>9 DEF Lags
      <4>2. Clock(v) < Clock(m) + TickOf(m)
        BY <3>1, <4>1 DEF ClockOK
      <4>3. PICK d \in Nat, k \in Nat \ {0} : d = Clock(m) /\ k = TickOf(m)
        BY <1>3
      <4>4. Multiple(k, j) /\ Multiple(d, k)
        BY <3>1, <3>4, <4>1, <4>3 DEF ClockOK
      <4>5. c + j <= d + k
        BY <3>4, <3>5, <4>2, <4>3, <4>4, RoomForOne
      <4> QED BY <3>4, <3>7, <4>3, <4>5
    <3> QED BY <3>8, <3>9
  <2> QED BY <2>1, <2>2
<1>6. \A l, m \in Levels' : l < m => (Clock(m) <= Clock(l) /\ Clock(l) < Clock(m) + TickOf(m))'
  <2>1. \A l, m \in Levels : l < m => Clock(m) <= Clock(l)
    BY DEF ClockOK
  <2> QED BY <1>2, <1>5, <2>1
<1>7. (1 \in Levels /\ TickOf(1) = TickDur /\ Clock(1) <= now)'
  BY <1>1, <1>2 DEF ClockOK
<1>8. \A l \in Levels' : (/\ Multiple(Clock(l), TickOf(l))
                          /\ l + 1 \in Levels => TickOf(l + 1) = TickOf(l) * WheelSize)'
  BY <1>2 DEF ClockOK, Multiple
<1>9. \A l, m \in Levels' : l <= m => Multiple(TickOf(m), TickOf(l))'
  BY <1>2 DEF ClockOK, Multiple
<1> QED BY <1>6, <1>7, <1>8, <1>9 DEF ClockOK

LEMMA ClockStep ==
    ASSUME WheelTypeOK, PcOK, ClockOK, SlotOK, PopOK, AddOK, [WheelNext]_wheelVars PROVE ClockOK'
<1>1. now \in Nat
  BY WheelAssumption DEF WheelTypeOK
<1>2. ASSUME wpc # "clock", UNCHANGED wheels, now' \in Nat, now <= now' PROVE ClockOK'
  <2>1. Levels' = Levels /\ \A l \in Levels : Clock(l)' = Clock(l) /\ TickOf(l)' = TickOf(l)
    BY <1>2, WheelsStay
  <2> QED BY <1>2, <2>1, ClockKept
<1>3. ASSUME NEW t \in Tasks, NEW e \in Times, AddTask(t, e) PROVE ClockOK'
  BY <1>1, <1>2, <1>3 DEF AddTask, Calling
<1>4. CASE FireTask
  BY <1>1, <1>2, <1>4 DEF FireTask
<1>5. CASE PutInSlot
  BY <1>1, <1>5, PutChanges, ClockKept DEF PutInSlot
<1>6. CASE GoToWheelAbove
  <2>1. PICK v \in Levels : v = level
    BY <1>6 DEF PcOK, GoToWheelAbove
  <2>2. CASE v = Len(wheels)
    BY <1>6, <2>1, <2>2, AboveClock
  <2>3. CASE v # Len(wheels)
    <3>1. UNCHANGED wheels
      BY <1>6, <2>1, <2>3, WheelTypes DEF GoToWheelAbove, Levels
    <3> QED BY <1>1, <1>2, <1>6, <3>1 DEF GoToWheelAbove
  <2> QED BY <2>2, <2>3
<1>7. CASE ShiftUp
  BY <1>1, <1>2, <1>7 DEF ShiftUp
<1>8. CASE Elapse
  <2>1. now' \in Nat /\ now <= now'
    BY <1>1, <1>8, WheelAssumption DEF Elapse
  <2> QED BY <1>2, <1>8, <2>1 DEF Elapse, Calling
<1>9. CASE Begin
  BY <1>1, <1>2, <1>9 DEF Begin, Calling
<1>10. CASE PopSlot
  BY <1>1, <1>2, <1>10 DEF PopSlot
<1>11. CASE ShiftDown
  BY <1>1, <1>2, <1>11 DEF ShiftDown
<1>12. CASE MoveWheel
  BY <1>12, MoveClock
<1>13. CASE FlushSlot
  BY <1>13, FlushClock
<1>14. CASE AddAgain
  BY <1>1, <1>14, TakeChanges, ClockKept DEF AddAgain
<1>15. CASE Flushed
  BY <1>1, <1>2, <1>15 DEF Flushed
<1>16. CASE Return
  BY <1>1, <1>2, <1>16 DEF Return
<1>17. CASE UNCHANGED wheelVars
  BY <1>17, WheelsStay DEF wheelVars, locals, ClockOK, Lags, Multiple
<1> QED BY <1>3, <1>4, <1>5, <1>6, <1>7, <1>8, <1>9, <1>10, <1>11, <1>12, <1>13, <1>14,
           <1>15, <1>16, <1>17 DEF WheelNext

-----------------------------------------------------------------------------
(* The slots                                                               *)

LEMMA NoneIsNoTime == Unset \notin Nat
BY DEF Unset

(* The clock of the first wheel is in the tick of every wheel.             *)
LEMMA FirstClock ==
    ASSUME WheelTypeOK, ClockOK, wpc # "clock", NEW l \in Levels
    PROVE  Clock(1) \in Nat /\ Clock(l) <= Clock(1) /\ Clock(1) < Clock(l) + TickOf(l)
<1>1. 1 \in Levels /\ Clock(1) \in Nat /\ Clock(l) \in Nat /\ TickOf(l) \in Nat \ {0} /\ l \in Nat \ {0}
  BY WheelTypes DEF ClockOK
<1>2. CASE l = 1
  BY <1>1, <1>2
<1>3. CASE l # 1
  <2>1. 1 < l /\ ~Lags(1, l)
    BY <1>1, <1>3 DEF Lags
  <2> QED BY <1>1, <2>1 DEF ClockOK
<1> QED BY <1>2, <1>3

LEMMA PutBounds ==
    ASSUME WheelTypeOK, PcOK, ClockOK, SlotOK, AddOK, PutInSlot
    PROVE  /\ Clock(level) + TickOf(level) <= Start /\ Clock(1) < Start
           /\ Start < Clock(level) + TickOf(level) * WheelSize
           /\ Exp(Target) # Unset => Exp(Target) = Start
<1>1. wpc = "add" /\ ~Passed /\ Reached
  BY DEF PutInSlot
<1>2. PICK v \in Levels : v = level
  BY <1>1 DEF PcOK
<1>3. PICK c \in Nat, k \in Nat \ {0}, w \in Nat \ {0} :
        c = Clock(v) /\ k = TickOf(v) /\ w = WheelSize
  BY WheelTypes
<1>4. PICK e \in Nat, a \in Nat : /\ e = expiration[adding] /\ a = Start /\ a <= e /\ e < a + k
                                  /\ Multiple(a, k) /\ Target \in Slots /\ Target[1] = v
                                  /\ Target[2] = (e \div k) % w /\ a \div k = e \div k
  BY <1>1, <1>2, <1>3, TargetTypes
<1>5. c + k <= e /\ e < c + k * w
  <2>1. k * w \in Nat
    OBVIOUS
  <2>2. ~(e < c + k) /\ e < c + k * w
    BY <1>1, <1>2, <1>3, <1>4 DEF Passed, Reached, Wheel, Interval, Clock, TickOf
  <2> QED BY <2>1, <2>2
<1>6. Multiple(c, k)
  BY <1>3 DEF ClockOK
<1>7. c + k <= a
  <2>1. Multiple(c + k, k)
    BY <1>6, MultipleNext
  <2>2. CASE a < c + k
    <3>1. PICK b \in Nat : b = c + k
      OBVIOUS
    <3>2. a + k <= b
      BY <1>4, <2>1, <2>2, <3>1, Apart
    <3> QED BY <1>4, <1>5, <3>1, <3>2
  <2> QED BY <2>2
<1>8. Clock(1) \in Nat /\ c <= Clock(1) /\ Clock(1) < c + k
  BY <1>1, <1>3, FirstClock
<1>9. k * w \in Nat /\ a < c + k * w
  BY <1>4, <1>5
<1>10. ASSUME Exp(Target) # Unset PROVE Exp(Target) = a
  <2>1. PICK b \in Nat : b = Exp(Target)
    BY <1>4, <1>10, SlotTypes
  <2>2. /\ Multiple(b, k) /\ (b \div k) % w = (e \div k) % w /\ Clock(1) <= b
        /\ b < c + k * w
    BY <1>3, <1>4, <1>10, <2>1 DEF SlotOK
  <2>3. c <= b /\ c <= a
    BY <1>7, <1>8, <2>2
  <2>4. (b \div k) % w = (a \div k) % w
    BY <1>4, <2>2
  <2>5. b = a
    BY <1>4, <1>9, <2>2, <2>3, <2>4, OneSlotOneTick
  <2> QED BY <2>1, <2>5
<1>11. Clock(1) < a
  BY <1>7, <1>8
<1> QED BY <1>2, <1>3, <1>4, <1>7, <1>9, <1>10, <1>11

LEMMA PutSlots ==
    ASSUME WheelTypeOK, PcOK, ClockOK, SlotOK, AddOK, PutInSlot PROVE SlotOK'
<1>1. /\ Slots' = Slots /\ Levels' = Levels
      /\ \A l \in Levels : Clock(l)' = Clock(l) /\ TickOf(l)' = TickOf(l)
      /\ \A r \in Slots :
           /\ Exp(r)' = IF r = Target THEN Start ELSE Exp(r)
           /\ In(r)' = IF r = Target THEN Append(In(Target), adding) ELSE In(r)
  BY PutChanges
<1>2. ASSUME NEW s \in Slots', Exp(s)' # Unset
      PROVE  (/\ Multiple(Exp(s), TickOf(s[1]))
              /\ (Exp(s) \div TickOf(s[1])) % WheelSize = s[2]
              /\ Clock(1) <= Exp(s) /\ Exp(s) < Clock(s[1]) + TickOf(s[1]) * WheelSize
              /\ In(s) # << >>)'
  <2>1. s \in Slots /\ s[1] \in Levels /\ 1 \in Levels
    BY <1>1, SlotTypes DEF ClockOK
  <2>2. CASE s # Target
    <3>1. Exp(s)' = Exp(s) /\ In(s)' = In(s)
      BY <1>1, <2>1, <2>2
    <3> QED BY <1>1, <1>2, <2>1, <3>1 DEF SlotOK, Multiple
  <2>3. CASE s = Target
    <3>1. Exp(s)' = Start /\ In(s)' = Append(In(s), adding) /\ s[1] = level
      BY <1>1, <2>1, <2>3, TargetTypes DEF PutInSlot
    <3>2. In(s)' # << >>
      <4>1. In(s) \in Seq(Tasks) /\ adding \in Tasks
        BY <2>1, SlotTypes, TargetTypes DEF PutInSlot
      <4> QED BY <3>1, <4>1
    <3>3. PICK v \in Levels : v = level /\ v = s[1]
      BY <2>1, <3>1
    <3>4. PICK a \in Nat, k \in Nat \ {0} :
            /\ a = Start /\ k = TickOf(v) /\ Multiple(a, k)
            /\ (a \div k) % WheelSize = s[2]
      <4>1. /\ Start \in Nat /\ Multiple(Start, TickOf(level))
            /\ (Start \div TickOf(level)) % WheelSize = Target[2]
        BY TargetTypes DEF PutInSlot
      <4>2. TickOf(v) \in Nat \ {0}
        BY WheelTypes
      <4> QED BY <2>3, <3>3, <4>1, <4>2
    <3>5. Clock(1) < a /\ a < Clock(v) + k * WheelSize
      BY <3>3, <3>4, PutBounds
    <3>6. Clock(1) <= a
      BY <2>1, <3>5, WheelTypes
    <3>7. Exp(s)' = a /\ TickOf(s[1])' = k /\ Clock(s[1])' = Clock(v) /\ Clock(1)' = Clock(1)
      BY <1>1, <2>1, <3>1, <3>3, <3>4
    <3>8. Multiple(Exp(s), TickOf(s[1]))'
      BY <3>4, <3>7 DEF Multiple
    <3> QED BY <3>2, <3>4, <3>5, <3>6, <3>7, <3>8
  <2> QED BY <2>2, <2>3
<1> QED BY <1>2 DEF SlotOK

LEMMA MoveSlots ==
    ASSUME WheelTypeOK, PcOK, ClockOK, SlotOK, PopOK, MoveWheel PROVE SlotOK'
<1>1. wpc = "clock" /\ level \in Levels
  BY DEF MoveWheel, CanTick, Levels, WheelTypeOK
<1>2. PICK v \in Levels : v = level /\ v \in Nat \ {0}
  BY <1>1, WheelTypes
<1>3. PICK t \in Nat : t = ClockTime
  BY <1>1, ClockTimes
<1>4. PICK j \in Nat \ {0} : j = TickOf(v)
  BY WheelTypes
<1>5. PICK f \in Nat : f = Floor(t, j) /\ f <= t /\ t < f + j
  BY Floors
<1>6. /\ Levels' = Levels /\ Slots' = Slots /\ \A l \in Levels : TickOf(l)' = TickOf(l)
      /\ \A l \in Levels : Clock(l)' = IF l = v THEN f ELSE Clock(l)
      /\ \A r \in Slots : Exp(r)' = Exp(r) /\ In(r)' = In(r)
  BY <1>1, <1>2, <1>3, <1>4, <1>5, MoveChanges
<1>7. \A r \in Slots : Exp(r)' = Exp(r) /\ In(r)' = In(r)
  BY <1>6
<1>8. Clock(v) \in Nat /\ Clock(v) <= f
  <2>1. t >= Clock(v) + j
    BY <1>2, <1>3, <1>4 DEF MoveWheel, CanTick, Wheel, Clock, TickOf
  <2> QED BY <1>5, WheelTypes, <2>1
<1>9. ASSUME NEW s \in Slots', Exp(s)' # Unset
      PROVE  (/\ Multiple(Exp(s), TickOf(s[1]))
              /\ (Exp(s) \div TickOf(s[1])) % WheelSize = s[2]
              /\ Clock(1) <= Exp(s) /\ Exp(s) < Clock(s[1]) + TickOf(s[1]) * WheelSize
              /\ In(s) # << >>)'
  <2>1. s \in Slots /\ s[1] \in Levels /\ 1 \in Levels /\ Exp(s) # Unset
    <3>1. s \in Slots
      BY <1>6, <1>9
    <3>2. s[1] \in Levels /\ 1 \in Levels
      BY <3>1, SlotTypes DEF ClockOK
    <3>3. Exp(s) # Unset
      BY <1>9, <3>1, <1>7
    <3> QED BY <3>1, <3>2, <3>3
  <2>2. PICK b \in Nat, p \in Nat, c \in Nat :
          b = Exp(s) /\ p = TickOf(s[1]) * WheelSize /\ c = Clock(s[1])
    BY <2>1, SlotTypes, WheelTypes
  <2>3. Clock(1) <= b /\ b < c + p
    BY <2>1, <2>2 DEF SlotOK
  <2>4. Clock(1)' <= b
    <3>1. CASE v = 1
      <4>1. t = Exp(popped) /\ Exp(popped) <= b /\ popped \in Slots
        BY <1>1, <1>2, <1>3, <2>1, <2>2, <3>1, ClockTimeBound DEF PopOK, Popping, WheelTypeOK
      <4>2. f <= b
        BY <1>3, <1>5, <4>1
      <4> QED BY <1>6, <2>1, <3>1, <4>2
    <3>2. CASE v # 1
      BY <1>6, <2>1, <2>3, <3>2
    <3> QED BY <3>1, <3>2
  <2>5. b < Clock(s[1])' + p
    <3>1. (Clock(s[1])' = f /\ c <= f) \/ Clock(s[1])' = c
      BY <1>6, <1>8, <2>1, <2>2
    <3> QED BY <2>3, <3>1
  <2>6. Exp(s)' = b /\ TickOf(s[1])' = TickOf(s[1]) /\ In(s)' = In(s)
    BY <1>7, <1>6, <2>1, <2>2
  <2>7. Multiple(Exp(s), TickOf(s[1]))'
    BY <2>1, <2>2, <2>6 DEF SlotOK, Multiple
  <2>8. (b \div TickOf(s[1])) % WheelSize = s[2]
    BY <2>1, <2>2 DEF SlotOK
  <2>9. ((Exp(s) \div TickOf(s[1])) % WheelSize = s[2])'
    BY <2>6, <2>8, Zenon
  <2>10. In(s)' # << >>
    BY <2>1, <2>6 DEF SlotOK
  <2>11. (Clock(1) <= Exp(s))'
    BY <2>4, <2>6
  <2>12. (Exp(s) < Clock(s[1]) + TickOf(s[1]) * WheelSize)'
    <3>1. Clock(s[1])' + p = (Clock(s[1]) + TickOf(s[1]) * WheelSize)'
      BY <2>2, <2>6, Zenon
    <3> QED BY <2>5, <2>6, <3>1
  <2> QED BY <2>7, <2>9, <2>10, <2>11, <2>12, Zenon
<1> QED BY <1>9 DEF SlotOK

LEMMA SlotStep ==
    ASSUME WheelTypeOK, PcOK, ClockOK, SlotOK, PopOK, AddOK, [WheelNext]_wheelVars PROVE SlotOK'
<1>1. ASSUME UNCHANGED wheels PROVE SlotOK'
  BY <1>1, WheelsStay DEF SlotOK, Multiple
<1>2. ASSUME NEW t \in Tasks, NEW e \in Times, AddTask(t, e) PROVE SlotOK'
  BY <1>1, <1>2 DEF AddTask
<1>3. CASE FireTask
  BY <1>1, <1>3 DEF FireTask
<1>4. CASE PutInSlot
  BY <1>4, PutSlots
<1>5. CASE GoToWheelAbove
  <2>1. PICK v \in Levels : v = level
    BY <1>5 DEF PcOK, GoToWheelAbove
  <2>2. CASE v = Len(wheels)
    <3>1. /\ \A l \in Levels : Clock(l)' = Clock(l) /\ TickOf(l)' = TickOf(l)
          /\ \A r \in Slots : Exp(r)' = Exp(r) /\ In(r)' = In(r)
          /\ \A r \in Slots' \ Slots : Exp(r)' = Unset
      BY <1>5, <2>1, <2>2, GrowChanges
    <3>2. \A r \in Slots : r[1] \in Levels /\ 1 \in Levels
      BY SlotTypes DEF ClockOK
    <3> QED BY <3>1, <3>2 DEF SlotOK, Multiple
  <2>3. CASE v # Len(wheels)
    BY <1>1, <1>5, <2>1, <2>3, WheelTypes DEF GoToWheelAbove, Levels
  <2> QED BY <2>2, <2>3
<1>6. CASE ShiftUp
  BY <1>1, <1>6 DEF ShiftUp
<1>7. CASE Elapse
  BY <1>1, <1>7 DEF Elapse
<1>8. CASE Begin
  BY <1>1, <1>8 DEF Begin
<1>9. CASE PopSlot
  BY <1>1, <1>9 DEF PopSlot
<1>10. CASE ShiftDown
  BY <1>1, <1>10 DEF ShiftDown
<1>11. CASE MoveWheel
  BY <1>11, MoveSlots
<1>12. CASE FlushSlot
  <2>1. /\ Slots' = Slots /\ \A l \in Levels : Clock(l)' = Clock(l) /\ TickOf(l)' = TickOf(l)
        /\ \A r \in Slots : In(r)' = In(r) /\ (Exp(r)' = Exp(r) \/ Exp(r)' = Unset)
    BY <1>12, FlushChanges DEF FlushSlot
  <2>2. \A r \in Slots : r[1] \in Levels /\ 1 \in Levels
    BY SlotTypes DEF ClockOK
  <2> QED BY <2>1, <2>2 DEF SlotOK, Multiple
<1>13. CASE AddAgain
  <2>1. /\ Slots' = Slots /\ \A l \in Levels : Clock(l)' = Clock(l) /\ TickOf(l)' = TickOf(l)
        /\ \A r \in Slots \ {popped} : In(r)' = In(r)
        /\ \A r \in Slots : Exp(r)' = Exp(r)
    BY <1>13, TakeChanges
  <2>2. \A r \in Slots : r[1] \in Levels /\ 1 \in Levels
    BY SlotTypes DEF ClockOK
  <2>3. Exp(popped) = Unset
    BY <1>13 DEF AddAgain, PopOK, Emptying, PcOK
  <2> QED BY <2>1, <2>2, <2>3 DEF SlotOK, Multiple
<1>14. CASE Flushed
  BY <1>1, <1>14 DEF Flushed
<1>15. CASE Return
  BY <1>1, <1>15 DEF Return
<1>16. CASE UNCHANGED wheelVars
  BY <1>1, <1>16 DEF wheelVars
<1> QED BY <1>2, <1>3, <1>4, <1>5, <1>6, <1>7, <1>8, <1>9, <1>10, <1>11, <1>12, <1>13, <1>14,
           <1>15, <1>16 DEF WheelNext

-----------------------------------------------------------------------------
(* The slot that is popped and the task that is added                      *)

LEMMA LeastNumber ==
    ASSUME NEW T \in SUBSET Nat, T # {} PROVE \E x \in T : \A y \in T : x <= y
<1>1. PICK x \in T : \A y \in T : <<y, x>> \notin OpToRel(<, Nat)
  BY NatLessThanWellFounded, WFMin
<1>2. \A y \in T : ~(y < x)
  BY <1>1 DEF OpToRel
<1> QED BY <1>2

(* No node of a heap is before its root: the one nearest to the root would *)
(* be before its parent.                                                   *)
LEMMA RootIsLeast ==
    ASSUME WheelTypeOK, HeapOK, wpc \notin {"up", "down"}, NEW i \in Nodes
    PROVE  1 \in Nodes /\ Before(1, i)
<1>1. 1 \in Nodes /\ Nodes \subseteq Nat \ {0}
  BY NodeTypes
<1>2. \A j \in Nodes : Exp(delay_queue[j]) \in Int
  BY NodeTypes, SlotTypes DEF Unset
<1>3. PICK T : T = {j \in Nodes : ~Before(1, j)}
  OBVIOUS
<1>4. T = {}
  <2> SUFFICES ASSUME T # {} PROVE FALSE
    OBVIOUS
  <2>1. PICK x \in T : \A y \in T : x <= y
    BY <1>1, <1>3, LeastNumber
  <2>2. x \in Nodes /\ ~Before(1, x)
    BY <1>3, <2>1
  <2>3. x # 1
    BY <1>1, <1>2, <2>2 DEF Before
  <2>4. Parent(x) \in Nodes /\ Parent(x) < x /\ x > 1
    BY <1>1, <2>2, <2>3, Parents, NodeTypes
  <2>5. PICK a, b, c \in Int : /\ a = Exp(delay_queue[1]) /\ b = Exp(delay_queue[Parent(x)])
                               /\ c = Exp(delay_queue[x])
    BY <1>1, <1>2, <2>2, <2>4
  <2>6. Parent(x) \notin T
    <3>1. PICK p \in Nat : p = Parent(x)
      BY <1>1, <2>4
    <3>2. x \in Nat /\ p < x
      BY <1>1, <2>2, <2>4, <3>1
    <3>3. ~(x <= p)
      BY <3>2
    <3> QED BY <2>1, <3>1, <3>3
  <2>7. a <= b
    <3>1. Before(1, Parent(x))
      BY <1>3, <2>4, <2>6
    <3> QED BY <2>5, <3>1 DEF Before
  <2>8. b <= c
    BY <2>2, <2>4, <2>5 DEF HeapOK, Misplaced, Before
  <2>9. ~(a <= c)
    BY <2>2, <2>5 DEF Before
  <2> QED BY <2>5, <2>7, <2>8, <2>9
<1> QED BY <1>1, <1>3, <1>4

LEMMA FirstIsLeast ==
    ASSUME WheelTypeOK, QueueOK, HeapOK, wpc \notin {"up", "down", "clock"}, delay_queue # << >>
    PROVE  /\ First \in Slots /\ Exp(First) \in Nat
           /\ \A s \in Slots : Exp(s) # Unset => Exp(First) <= Exp(s)
<1>1. First = delay_queue[1] /\ 1 \in Nodes /\ First \in Slots
  BY NodeTypes
<1>2. Exp(First) \in Nat
  BY <1>1, SlotTypes DEF QueueOK, Queued
<1>3. ASSUME NEW s \in Slots, Exp(s) # Unset PROVE Exp(First) <= Exp(s)
  <2>1. PICK i \in Nodes : delay_queue[i] = s
    BY <1>3 DEF QueueOK, Queued, Popping
  <2>2. Before(1, i)
    BY RootIsLeast
  <2> QED BY <1>1, <2>1, <2>2 DEF Before
<1> QED BY <1>1, <1>2, <1>3

(* When the clock has moved, it stands where the popped slot begins.       *)
LEMMA ClockAtPopped ==
    ASSUME WheelTypeOK, PcOK, ClockOK, SlotOK, PopOK, FlushSlot
    PROVE  Clock(1) = Exp(popped)
<1>1. wpc = "clock" /\ ~CanTick
  BY DEF FlushSlot
<1>2. CASE level > 1
  BY <1>1, <1>2 DEF PopOK
<1>3. CASE level = 1
  <2>1. 1 \in Levels /\ popped \in Slots /\ popped[1] \in Levels
    BY SlotTypes DEF ClockOK, WheelTypeOK
  <2>2. PICK x \in Nat, c \in Nat, k \in Nat \ {0}, j \in Nat \ {0} :
          x = Exp(popped) /\ c = Clock(1) /\ k = TickOf(1) /\ j = TickOf(popped[1])
    BY <1>1, <2>1, SlotTypes, WheelTypes DEF PopOK, Popping
  <2>3. ClockTime = x /\ c <= x
    BY <1>1, <1>3, <2>2, ClockTimeBound
  <2>4. x < c + k
    <3>1. ~(ClockTime >= wheels[1].cur_time + wheels[1].tick)
      BY <1>1, <1>3, <2>1 DEF CanTick, Wheel, Levels
    <3> QED BY <2>2, <2>3, <3>1 DEF Clock, TickOf
  <2>5. Multiple(c, k) /\ Multiple(j, k) /\ Multiple(x, j)
    <3>1. Multiple(Clock(1), TickOf(1))
      BY <2>1 DEF ClockOK
    <3>2. 1 <= popped[1]
      BY <2>1, WheelTypes
    <3>3. Multiple(TickOf(popped[1]), TickOf(1))
      BY <2>1, <3>2 DEF ClockOK
    <3>4. Multiple(Exp(popped), TickOf(popped[1]))
      BY <1>1, <2>1 DEF SlotOK, PopOK, Popping
    <3> QED BY <2>2, <3>1, <3>3, <3>4
  <2>6. Multiple(x, k)
    BY <2>5, MultipleThrough
  <2>7. ~(c < x)
    BY <2>4, <2>5, <2>6, Apart
  <2> QED BY <2>2, <2>3, <2>7
<1> QED BY <1>2, <1>3 DEF WheelTypeOK

(* A task of a slot that is emptied goes to a wheel below the slot's.      *)
LEMMA PutBelow ==
    ASSUME WheelTypeOK, PcOK, ClockOK, PopOK, AddOK, PutInSlot, advancing
    PROVE  level < popped[1] /\ popped # Target
<1>1. wpc = "add" /\ ~Passed /\ level \in Levels /\ popped \in Slots /\ popped[1] \in Levels
  BY SlotTypes DEF PutInSlot, PcOK, WheelTypeOK
<1>2. PICK v \in Levels, p \in Levels : v = level /\ p = popped[1] /\ v \in Nat /\ p \in Nat
  BY <1>1, WheelTypes
<1>3. PICK c \in Nat, k \in Nat \ {0}, j \in Nat \ {0} : c = Clock(v) /\ k = TickOf(v) /\ j = TickOf(p)
  BY WheelTypes
<1>4. PICK e \in Nat : e = expiration[adding]
  BY <1>1, TargetTypes
<1>5. c + k <= e
  BY <1>1, <1>2, <1>3, <1>4 DEF Passed, Wheel, Clock, TickOf
<1>6. PICK a \in Nat : a = Clock(1) /\ a < c + k
  BY <1>1, <1>3, FirstClock
<1>7. e < a + j /\ Multiple(a, j)
  BY <1>1, <1>2, <1>3, <1>4, <1>6 DEF AddOK, PopOK, Emptying
<1>8. ~(p <= v)
  <2> SUFFICES ASSUME p <= v PROVE FALSE
    OBVIOUS
  <2>1. Multiple(k, j) /\ Multiple(c, k)
    BY <1>3 DEF ClockOK
  <2>2. a + j <= c + k
    BY <1>6, <1>7, <2>1, RoomForOne
  <2> QED BY <1>5, <1>7, <2>2
<1>9. level < popped[1]
  BY <1>2, <1>8
<1> QED BY <1>1, <1>9, <1>2, TargetTypes

LEMMA PopStep ==
    ASSUME WheelTypeOK, PcOK, ClockOK, SlotOK, PopOK, AddOK, QueueOK, HeapOK, PlaceOK,
           [WheelNext]_wheelVars
    PROVE  PopOK'
<1>1. 1 \in Levels /\ \A s \in Slots : s[1] \in Levels
  BY SlotTypes DEF ClockOK
<1>2. ASSUME ~Popping', ~Emptying', wpc' # "clock" PROVE PopOK'
  BY <1>2 DEF PopOK
<1>3. ASSUME NEW t \in Tasks, NEW e \in Times, AddTask(t, e) PROVE PopOK'
  BY <1>2, <1>3 DEF AddTask, Calling, Popping, Emptying
<1>4. ASSUME Emptying', Emptying, Levels' = Levels,
             \A l \in Levels : Clock(l)' = Clock(l) /\ TickOf(l)' = TickOf(l),
             popped' = popped, Exp(popped)' = Exp(popped) PROVE PopOK'
  <2>1. popped \in Slots
    BY DEF WheelTypeOK
  <2>2. ~Popping' /\ wpc' # "clock"
    BY <1>4 DEF Popping, Emptying
  <2>3. (Exp(popped) = Unset)'
    BY <1>4 DEF PopOK
  <2>4. Multiple(Clock(1), TickOf(popped[1]))'
    BY <1>1, <1>4, <2>1 DEF PopOK, Multiple
  <2> QED BY <2>2, <2>3, <2>4 DEF PopOK
<1>5. ASSUME wpc \in {"add", "up", "flush"}, wpc' \in {"ready", "add", "up", "flush"},
             advancing' = advancing, PcOK, Levels' = Levels,
             \A l \in Levels : Clock(l)' = Clock(l) /\ TickOf(l)' = TickOf(l),
             popped' = popped, Emptying => Exp(popped)' = Exp(popped) PROVE PopOK'
  <2>1. CASE Emptying'
    <3>1. Emptying
      BY <1>5, <2>1 DEF Emptying
    <3> QED BY <1>4, <1>5, <2>1, <3>1
  <2>2. CASE ~Emptying'
    BY <1>2, <1>5, <2>2 DEF Popping
  <2> QED BY <2>1, <2>2
<1>6. CASE FireTask
  BY <1>5, <1>6, WheelsStay DEF FireTask, Added
<1>7. CASE PutInSlot
  <2>1. /\ Levels' = Levels /\ Slots' = Slots
        /\ \A l \in Levels : Clock(l)' = Clock(l) /\ TickOf(l)' = TickOf(l)
        /\ \A r \in Slots : Exp(r)' = IF r = Target THEN Start ELSE Exp(r)
    BY <1>7, PutChanges
  <2>2. wpc = "add" /\ wpc' \in {"ready", "up", "flush"} /\ UNCHANGED <<advancing, popped>>
    BY <1>7 DEF PutInSlot, Added
  <2>3. Emptying => popped # Target
    BY <1>7, <2>2, PutBelow DEF Emptying
  <2>4. popped \in Slots
    BY DEF WheelTypeOK
  <2> QED BY <1>5, <2>1, <2>2, <2>3, <2>4
<1>8. CASE GoToWheelAbove
  <2>1. PICK v \in Levels : v = level
    BY <1>8 DEF PcOK, GoToWheelAbove
  <2>2. /\ Levels \subseteq Levels' /\ \A l \in Levels : Clock(l)' = Clock(l) /\ TickOf(l)' = TickOf(l)
        /\ \A r \in Slots : Exp(r)' = Exp(r)
    <3>1. CASE v = Len(wheels)
      BY <1>8, <2>1, <3>1, GrowChanges
    <3>2. CASE v # Len(wheels)
      <4>1. UNCHANGED wheels
        BY <1>8, <2>1, <3>2, WheelTypes DEF GoToWheelAbove, Levels
      <4> QED BY <4>1, WheelsStay
    <3> QED BY <3>1, <3>2
  <2>3. wpc = "add" /\ wpc' = "add" /\ UNCHANGED <<advancing, popped>> /\ popped \in Slots
    BY <1>8 DEF GoToWheelAbove, WheelTypeOK
  <2>4. CASE ~advancing
    BY <1>2, <2>3, <2>4 DEF Popping, Emptying
  <2>5. CASE advancing
    <3>1. Emptying /\ Emptying' /\ ~Popping' /\ wpc' # "clock"
      BY <2>3, <2>5 DEF Popping, Emptying
    <3>2. (Exp(popped) = Unset)'
      BY <2>2, <2>3, <3>1 DEF PopOK
    <3>3. Multiple(Clock(1), TickOf(popped[1]))'
      BY <1>1, <2>2, <2>3, <3>1 DEF PopOK, Multiple
    <3> QED BY <3>1, <3>2, <3>3 DEF PopOK
  <2> QED BY <2>4, <2>5 DEF WheelTypeOK
<1>9. CASE ShiftUp
  BY <1>5, <1>9, WheelsStay DEF ShiftUp, Added
<1>10. CASE Elapse
  BY <1>2, <1>10 DEF Elapse, Calling, Popping, Emptying, locals
<1>11. CASE Begin
  BY <1>2, <1>11 DEF Begin, Calling, Popping, Emptying, locals
<1>12. CASE PopSlot
  <2>1. /\ wpc = "ready" /\ Expired /\ popped' = First /\ UNCHANGED <<now, wheels, level>>
        /\ wpc' \in {"down", "clock"} /\ delay_queue # << >>
    BY <1>12 DEF PopSlot, Expired
  <2>2. /\ First \in Slots /\ Exp(First) \in Nat
        /\ \A s \in Slots : Exp(s) # Unset => Exp(First) <= Exp(s)
    BY <2>1, FirstIsLeast
  <2>3. Exp(First) <= now /\ level = 1
    BY <2>1 DEF Expired, Exp, PcOK
  <2>4. /\ Slots' = Slots /\ \A s \in Slots : Exp(s)' = Exp(s)
    BY <2>1, WheelsStay
  <2>5. Exp(popped)' = Exp(First)
    BY <2>1, <2>4, <2>2
  <2>6. ~Emptying' /\ ~(level > 1)'
    BY <2>1, <2>3 DEF Emptying
  <2> QED BY <2>1, <2>2, <2>3, <2>4, <2>5, <2>6, NoneIsNoTime DEF PopOK
<1>13. CASE ShiftDown
  <2>1. /\ wpc = "down" /\ UNCHANGED <<now, wheels, level, popped>> /\ wpc' \in {"down", "clock"}
    BY <1>13 DEF ShiftDown
  <2>2. level = 1 /\ Popping /\ ~Emptying' /\ popped \in Slots
    BY <2>1 DEF PcOK, Popping, Emptying, WheelTypeOK
  <2>3. /\ Slots' = Slots /\ \A s \in Slots : Exp(s)' = Exp(s)
    BY <2>1, WheelsStay
  <2>4. Exp(popped)' = Exp(popped) /\ ~(level > 1)'
    BY <2>1, <2>2, <2>3
  <2> QED BY <2>1, <2>2, <2>3, <2>4 DEF PopOK
<1>14. CASE MoveWheel
  <2>1. /\ wpc = "clock" /\ wpc' = "clock" /\ UNCHANGED <<now, popped>> /\ level' = level + 1
        /\ Popping /\ popped \in Slots /\ ~Emptying'
    BY <1>14 DEF MoveWheel, Popping, WheelTypeOK, Emptying
  <2>2. level \in Levels /\ ClockTime \in Nat
    BY <1>14, <2>1, ClockTimes DEF MoveWheel, CanTick, Levels, WheelTypeOK
  <2>3. /\ Slots' = Slots /\ \A s \in Slots : Exp(s)' = Exp(s)
        /\ \A l \in Levels : Clock(l)' = IF l = level THEN Floor(ClockTime, TickOf(level)) ELSE Clock(l)
    BY <1>14, <2>2, MoveChanges
  <2>4. Exp(popped)' = Exp(popped)
    BY <2>1, <2>3
  <2>5. (Clock(1) = Exp(popped))'
    <3>1. CASE level = 1
      <4>1. ClockTime = Exp(popped)
        BY <2>1, <3>1, ClockTimeBound
      <4>2. PICK x \in Nat, k \in Nat \ {0}, j \in Nat \ {0} :
              x = Exp(popped) /\ k = TickOf(1) /\ j = TickOf(popped[1])
        BY <1>1, <2>1, <2>2, <4>1, WheelTypes
      <4>3. Multiple(x, j) /\ Multiple(j, k)
        <5>1. 1 \in Levels /\ popped[1] \in Levels
          BY <2>1, <2>2, <3>1, SlotTypes
        <5>2. 1 <= popped[1]
          BY <5>1, WheelTypes
        <5>3. Multiple(TickOf(popped[1]), TickOf(1))
          BY <5>1, <5>2 DEF ClockOK
        <5>4. Multiple(Exp(popped), TickOf(popped[1]))
          BY <2>1 DEF SlotOK, PopOK, Popping
        <5> QED BY <4>2, <5>3, <5>4
      <4>4. Multiple(x, k)
        BY <4>3, MultipleThrough
      <4>5. Floor(x, k) = x
        BY <4>4, FloorUnique
      <4> QED BY <1>1, <2>3, <2>4, <3>1, <4>1, <4>2, <4>5
    <3>2. CASE level # 1
      <4>1. Clock(1) = Exp(popped)
        BY <2>1, <2>2, <3>2, WheelTypes DEF PopOK
      <4> QED BY <1>1, <2>3, <2>4, <3>2, <4>1
    <3> QED BY <3>1, <3>2
  <2> QED BY <2>1, <2>3, <2>4, <2>5 DEF PopOK
<1>15. CASE FlushSlot
  <2>1. /\ \A l \in Levels : Clock(l)' = Clock(l) /\ TickOf(l)' = TickOf(l)
        /\ Exp(popped)' = Unset
    BY <1>15, FlushChanges
  <2>2. wpc = "clock" /\ wpc' = "flush" /\ popped' = popped /\ popped \in Slots /\ ~Popping' /\ Popping
    BY <1>15 DEF FlushSlot, WheelTypeOK, Popping
  <2>3. Multiple(Clock(1), TickOf(popped[1]))
    BY <1>15, <2>2, ClockAtPopped DEF PopOK, SlotOK
  <2>4. Multiple(Clock(1), TickOf(popped[1]))'
    BY <1>1, <2>1, <2>2, <2>3 DEF Multiple
  <2> QED BY <2>1, <2>2, <2>4 DEF PopOK
<1>16. CASE AddAgain
  <2>1. /\ Levels' = Levels /\ \A l \in Levels : Clock(l)' = Clock(l) /\ TickOf(l)' = TickOf(l)
        /\ \A r \in Slots : Exp(r)' = Exp(r)
    BY <1>16, TakeChanges
  <2>2. wpc = "flush" /\ wpc' = "add" /\ UNCHANGED <<popped, advancing>> /\ popped \in Slots
    BY <1>16 DEF AddAgain, WheelTypeOK
  <2> QED BY <1>5, <2>1, <2>2
<1>17. CASE Flushed
  BY <1>2, <1>17 DEF Flushed, Popping, Emptying
<1>18. CASE Return
  BY <1>2, <1>18 DEF Return, Popping, Emptying, locals
<1>19. CASE UNCHANGED wheelVars
  BY <1>19, WheelsStay DEF wheelVars, locals, PopOK, Popping, Emptying, Multiple
<1> QED BY <1>3, <1>6, <1>7, <1>8, <1>9, <1>10, <1>11, <1>12, <1>13, <1>14,
           <1>15, <1>16, <1>17, <1>18, <1>19 DEF WheelNext

LEMMA AddStep ==
    ASSUME WheelTypeOK, PcOK, ClockOK, AddOK, PopOK, PlaceOK, [WheelNext]_wheelVars
    PROVE  AddOK'
<1>1. 1 \in Levels /\ \A s \in Slots : s[1] \in Levels
  BY SlotTypes DEF ClockOK
<1>2. ASSUME wpc' # "add" PROVE AddOK'
  BY <1>2 DEF AddOK
<1>3. ASSUME NEW t \in Tasks, NEW e \in Times, AddTask(t, e) PROVE AddOK'
  <2>1. /\ adding' = t /\ expiration' = [expiration EXCEPT ![t] = e] /\ level' = level
        /\ advancing' = FALSE /\ fired' = fired /\ expiration[t] = Unset
    BY <1>3 DEF AddTask, Calling, WheelTypeOK
  <2>2. expiration'[adding'] = e /\ e # Unset
    BY <2>1, WheelAssumption, NoneIsNoTime DEF WheelTypeOK
  <2>3. t \notin fired
    BY <2>1 DEF PlaceOK
  <2>4. level = 1
    BY <1>3 DEF AddTask, Calling, PcOK
  <2> QED BY <2>1, <2>2, <2>3, <2>4 DEF AddOK
<1>4. CASE FireTask
  BY <1>2, <1>4 DEF FireTask, Added
<1>5. CASE PutInSlot
  BY <1>2, <1>5 DEF PutInSlot, Added
<1>6. CASE GoToWheelAbove
  <2>1. wpc = "add" /\ wpc' = "add" /\ level' = level + 1 /\ ~Reached
        /\ UNCHANGED <<expiration, adding, fired, advancing, popped>>
    BY <1>6 DEF GoToWheelAbove
  <2>2. PICK v \in Levels : v = level /\ v \in Nat \ {0}
    BY <2>1, WheelTypes DEF PcOK
  <2>3. PICK e \in Nat, c \in Nat, k \in Nat : e = expiration[adding] /\ c = Clock(v) /\ k = TickOf(v) * WheelSize
    BY <2>1, TargetTypes, WheelTypes
  <2>4. c + k <= e
    BY <2>1, <2>2, <2>3 DEF Reached, Wheel, Interval, Clock, TickOf
  <2>5. (Clock(v + 1) + TickOf(v + 1))' <= e
    <3>1. CASE v = Len(wheels)
      <4>1. TickOf(v + 1)' = k /\ Clock(v + 1)' = Floor(c, k)
        BY <1>6, <2>2, <2>3, <3>1, GrowChanges
      <4>2. k \in Nat \ {0}
        BY <2>3, WheelTypes
      <4>3. Floor(c, k) \in Nat /\ Floor(c, k) <= c
        BY <4>2, Floors
      <4> QED BY <2>4, <4>1, <4>2, <4>3
    <3>2. CASE v # Len(wheels)
      <4>1. UNCHANGED wheels /\ v + 1 \in Levels
        BY <1>6, <2>2, <3>2, WheelTypes DEF GoToWheelAbove, Levels
      <4>2. TickOf(v + 1)' = TickOf(v + 1) /\ Clock(v + 1)' = Clock(v + 1)
        BY <4>1, WheelsStay
      <4>3. TickOf(v + 1) = k /\ Clock(v + 1) <= c /\ Clock(v + 1) \in Nat
        BY <2>2, <2>3, <4>1, WheelTypes DEF ClockOK
      <4> QED BY <2>4, <4>2, <4>3
    <3> QED BY <3>1, <3>2
  <2>6. (Clock(level) + TickOf(level))' <= e
    BY <2>1, <2>2, <2>5 DEF Clock, TickOf
  <2>7. advancing => e < (Clock(1) + TickOf(popped[1]))'
    <3>1. \A l \in Levels : Clock(l)' = Clock(l) /\ TickOf(l)' = TickOf(l)
      <4>1. CASE v = Len(wheels)
        BY <1>6, <2>2, <4>1, GrowChanges
      <4>2. CASE v # Len(wheels)
        <5>1. UNCHANGED wheels
          BY <1>6, <2>2, <4>2, WheelTypes DEF GoToWheelAbove, Levels
        <5> QED BY <5>1, WheelsStay
      <4> QED BY <4>1, <4>2
    <3>2. popped \in Slots
      BY DEF WheelTypeOK
    <3>3. TickOf(popped[1])' = TickOf(popped[1]) /\ Clock(1)' = Clock(1)
      BY <1>1, <2>1, <3>1, <3>2
    <3> QED BY <2>1, <2>3, <3>3 DEF AddOK
  <2> QED BY <2>1, <2>3, <2>6, <2>7 DEF AddOK
<1>7. CASE ShiftUp
  BY <1>2, <1>7 DEF ShiftUp, Added
<1>8. CASE Elapse
  BY <1>2, <1>8 DEF Elapse, Calling, locals
<1>9. CASE Begin
  BY <1>2, <1>9 DEF Begin, Calling, locals
<1>10. CASE PopSlot
  BY <1>2, <1>10 DEF PopSlot
<1>11. CASE ShiftDown
  BY <1>2, <1>11 DEF ShiftDown
<1>12. CASE MoveWheel
  BY <1>2, <1>12 DEF MoveWheel
<1>13. CASE FlushSlot
  BY <1>2, <1>13 DEF FlushSlot
<1>14. CASE AddAgain
  <2>1. /\ \A l \in Levels : Clock(l)' = Clock(l) /\ TickOf(l)' = TickOf(l)
        /\ In(popped) # << >>
    BY <1>14, TakeChanges
  <2>2. /\ wpc = "flush" /\ UNCHANGED <<expiration, fired, advancing, popped, level>>
        /\ adding' = Head(In(popped)) /\ popped \in Slots /\ level = 1 /\ advancing
    BY <1>14 DEF AddAgain, In, WheelTypeOK, PcOK
  <2>3. In(popped) \in Seq(Tasks) /\ 1 \in PlacesIn(popped) /\ adding' = In(popped)[1]
        /\ In(popped)[1] \in Tasks
    BY <2>1, <2>2, SlotTypes DEF PlacesIn
  <2>4. PICK t \in Tasks : t = adding' /\ t = In(popped)[1]
    BY <2>3
  <2>5. Waiting(t) /\ Floor(expiration[t], TickOf(popped[1])) = Begins(popped)
    BY <2>2, <2>3, <2>4 DEF PlaceOK
  <2>6. Begins(popped) = Clock(1)
    BY <2>2 DEF Begins, Emptying
  <2>7. PICK e \in Nat, c \in Nat, k \in Nat \ {0} : e = expiration[t] /\ c = Clock(1) /\ k = TickOf(popped[1])
    BY <1>1, <2>2, <2>4, <2>5, WheelTypes, WheelAssumption DEF Waiting, WheelTypeOK
  <2>8. e < c + k
    BY <2>5, <2>6, <2>7, Floors
  <2>9. expiration'[adding'] < (Clock(1) + TickOf(popped[1]))'
    BY <1>1, <2>1, <2>2, <2>4, <2>7, <2>8
  <2> QED BY <2>2, <2>4, <2>5, <2>9 DEF AddOK, Waiting
<1>15. CASE Flushed
  BY <1>2, <1>15 DEF Flushed
<1>16. CASE Return
  BY <1>2, <1>16 DEF Return, locals
<1>17. CASE UNCHANGED wheelVars
  BY <1>17, WheelsStay DEF wheelVars, locals, AddOK
<1> QED BY <1>3, <1>4, <1>5, <1>6, <1>7, <1>8, <1>9, <1>10, <1>11, <1>12, <1>13, <1>14,
           <1>15, <1>16, <1>17 DEF WheelNext

-----------------------------------------------------------------------------
(* The places of the tasks                                                 *)

LEMMA PlaceKept ==
    ASSUME WheelTypeOK, PlaceOK, Slots \subseteq Slots',
           \A s \in Slots : In(s)' = In(s) /\ TickOf(s[1])' = TickOf(s[1]),
           \A s \in Slots' \ Slots : In(s)' = << >>,
           \A t \in Tasks : /\ Waiting(t)' <=> Waiting(t)
                            /\ Waiting(t) => expiration'[t] = expiration[t],
           \A t \in fired' : expiration'[t] # Unset,
           \A s \in Slots : In(s) # << >> => Begins(s)' = Begins(s)
    PROVE  PlaceOK'
<1>1. /\ \A s \in Slots : PlacesIn(s)' = PlacesIn(s) /\ (PlacesIn(s) # {} => In(s) # << >>)
      /\ \A s \in Slots' \ Slots : PlacesIn(s)' = {}
  BY DEF PlacesIn
<1>2. ASSUME NEW s \in Slots', NEW n \in PlacesIn(s)'
      PROVE  (Waiting(In(s)[n]) /\ Floor(expiration[In(s)[n]], TickOf(s[1])) = Begins(s))'
  <2>1. s \in Slots /\ n \in PlacesIn(s)
    BY <1>1
  <2>2. PICK u \in Tasks : u = In(s)[n]
    BY <2>1, SlotTypes
  <2>3. Waiting(u) /\ Floor(expiration[u], TickOf(s[1])) = Begins(s)
    BY <2>1, <2>2 DEF PlaceOK
  <2>4. (In(s)[n])' = u
    BY <2>1, <2>2
  <2>5. Waiting(u)' /\ expiration'[u] = expiration[u] /\ Begins(s)' = Begins(s) /\ TickOf(s[1])' = TickOf(s[1])
    BY <1>1, <2>1, <2>3
  <2>6. Waiting(In(s)[n])'
    BY <2>4, <2>5 DEF Waiting
  <2> QED BY <2>3, <2>4, <2>5, <2>6 DEF Floor
<1>3. \A r, s \in Slots' : \A m \in PlacesIn(r)', n \in PlacesIn(s)' :
        (In(r)[m] = In(s)[n])' => r = s /\ m = n
  <2>1. \A r, s \in Slots : \A m \in PlacesIn(r), n \in PlacesIn(s) :
          In(r)[m] = In(s)[n] => r = s /\ m = n
    BY DEF PlaceOK
  <2> SUFFICES ASSUME NEW r \in Slots', NEW s \in Slots', NEW m \in PlacesIn(r)', NEW n \in PlacesIn(s)',
                      (In(r)[m] = In(s)[n])'
               PROVE  r = s /\ m = n
    OBVIOUS
  <2>2. r \in Slots /\ s \in Slots /\ m \in PlacesIn(r) /\ n \in PlacesIn(s)
    BY <1>1
  <2>3. In(r)[m] = In(s)[n]
    BY <2>2
  <2> QED BY <2>1, <2>2, <2>3
<1>4. ASSUME NEW t \in Tasks, Waiting(t)'
      PROVE  \E s \in Slots' : \E n \in PlacesIn(s)' : (In(s)[n] = t)'
  <2>1. PICK s \in Slots : \E n \in PlacesIn(s) : In(s)[n] = t
    BY <1>4 DEF PlaceOK
  <2>2. PICK n \in PlacesIn(s) : In(s)[n] = t
    BY <2>1
  <2>3. s \in Slots' /\ n \in PlacesIn(s)' /\ (In(s)[n] = t)'
    BY <1>1, <2>2
  <2> QED BY <2>3
<1> QED BY <1>2, <1>3, <1>4 DEF PlaceOK

LEMMA PlacePut ==
    ASSUME WheelTypeOK, PcOK, ClockOK, SlotOK, PopOK, AddOK, PlaceOK, PutInSlot PROVE PlaceOK'
<1>1. /\ Slots' = Slots /\ Levels' = Levels
      /\ \A l \in Levels : Clock(l)' = Clock(l) /\ TickOf(l)' = TickOf(l)
      /\ \A r \in Slots :
           /\ Exp(r)' = IF r = Target THEN Start ELSE Exp(r)
           /\ In(r)' = IF r = Target THEN Append(In(Target), adding) ELSE In(r)
  BY PutChanges
<1>2. /\ wpc = "add" /\ wpc' \in {"ready", "up", "flush"}
      /\ (wpc' # "up" => wpc' = IF advancing THEN "flush" ELSE "ready")
      /\ UNCHANGED <<expiration, fired, advancing, popped>>
  BY DEF PutInSlot, Added
<1>3. PICK x \in Slots, a \in Tasks : x = Target /\ a = adding /\ x[1] = level
  BY <1>2, TargetTypes
<1>4. PICK b \in Nat : b = Len(In(x)) /\ PlacesIn(x) = 1 .. b
  BY SlotTypes DEF PlacesIn
<1>5. /\ \A s \in Slots \ {x} : In(s)' = In(s) /\ PlacesIn(s)' = PlacesIn(s)
      /\ PlacesIn(x)' = 1 .. (b + 1) /\ In(x)'[b + 1] = a
      /\ \A n \in 1 .. b : In(x)'[n] = In(x)[n]
  <2>1. In(x) \in Seq(Tasks) /\ In(x)' = Append(In(x), a)
    BY <1>1, <1>3, SlotTypes
  <2>2. Len(In(x)') = b + 1 /\ In(x)'[b + 1] = a /\ \A n \in 1 .. b : In(x)'[n] = In(x)[n]
    BY <1>4, <2>1
  <2>3. \A s \in Slots \ {x} : In(s)' = In(s)
    BY <1>1, <1>3
  <2> QED BY <2>2, <2>3 DEF PlacesIn
<1>6. Waiting(a)' /\ ~Waiting(a)
  BY <1>2, <1>3 DEF Waiting, AddOK
<1>7. \A t \in Tasks : t # a => (Waiting(t)' <=> Waiting(t))
  BY <1>2, <1>3 DEF Waiting
<1>8. \A s \in Slots : s[1] \in Levels /\ TickOf(s[1])' = TickOf(s[1])
  BY <1>1, SlotTypes
<1>9. (Emptying' <=> Emptying) /\ Clock(1)' = Clock(1)
  BY <1>1, <1>2 DEF Emptying, ClockOK
<1>10. ~(Emptying /\ x = popped)
  BY <1>2, <1>3, PutBelow DEF Emptying
<1>11. \A s \in Slots \ {x} : Begins(s)' = Begins(s)
  BY <1>1, <1>2, <1>3, <1>9 DEF Begins
<1>12. Begins(x)' = Start /\ Begins(x) = Exp(x)
  BY <1>1, <1>2, <1>3, <1>9, <1>10 DEF Begins
<1>13. ASSUME NEW n \in PlacesIn(x) PROVE Exp(x) = Start
  <2>1. PICK u \in Tasks : u = In(x)[n] /\ Waiting(u) /\ Floor(expiration[u], TickOf(x[1])) = Exp(x)
    BY <1>12, SlotTypes DEF PlaceOK
  <2>2. expiration[u] \in Nat /\ TickOf(x[1]) \in Nat \ {0}
    BY <1>8, <2>1, WheelTypes, WheelAssumption DEF Waiting, WheelTypeOK
  <2>3. Exp(x) \in Nat
    BY <2>1, <2>2, Floors
  <2> QED BY <1>3, <2>3, NoneIsNoTime, PutBounds
<1>14. ASSUME NEW s \in Slots', NEW n \in PlacesIn(s)'
       PROVE  (Waiting(In(s)[n]) /\ Floor(expiration[In(s)[n]], TickOf(s[1])) = Begins(s))'
  <2>1. CASE s = x /\ n = b + 1
    <3>1. (In(s)[n])' = a
      BY <1>5, <2>1
    <3>2. Waiting(In(s)[n])'
      BY <1>6, <3>1 DEF Waiting
    <3>3. Floor(expiration'[a], TickOf(s[1])') = Start
      BY <1>2, <1>3, <1>8, <2>1 DEF Start
    <3> QED BY <1>12, <2>1, <3>1, <3>2, <3>3
  <2>2. CASE ~(s = x /\ n = b + 1)
    <3>1. s \in Slots /\ n \in PlacesIn(s) /\ (In(s)[n])' = In(s)[n]
      BY <1>1, <1>4, <1>5, <2>2
    <3>2. PICK u \in Tasks : u = In(s)[n] /\ Waiting(u) /\ Floor(expiration[u], TickOf(s[1])) = Begins(s)
      BY <3>1, SlotTypes DEF PlaceOK
    <3>3. Begins(s)' = Begins(s)
      BY <1>11, <1>12, <1>13, <3>1
    <3>4. Waiting(u)' /\ (In(s)[n])' = u /\ expiration' = expiration
      BY <1>2, <1>6, <1>7, <3>1, <3>2
    <3>5. Waiting(In(s)[n])'
      BY <3>4 DEF Waiting
    <3> QED BY <1>8, <3>1, <3>2, <3>3, <3>4, <3>5
  <2> QED BY <2>1, <2>2
<1>15. ASSUME NEW r \in Slots', NEW s \in Slots', NEW m \in PlacesIn(r)', NEW n \in PlacesIn(s)',
              (In(r)[m] = In(s)[n])'
       PROVE  r = s /\ m = n
  <2>1. \A y \in Slots : \A i \in PlacesIn(y)' : ~(y = x /\ i = b + 1) =>
          i \in PlacesIn(y) /\ (In(y)[i])' = In(y)[i] /\ In(y)[i] # a
    <3> SUFFICES ASSUME NEW y \in Slots, NEW i \in PlacesIn(y)', ~(y = x /\ i = b + 1)
                 PROVE  i \in PlacesIn(y) /\ (In(y)[i])' = In(y)[i] /\ In(y)[i] # a
      OBVIOUS
    <3>1. i \in PlacesIn(y) /\ (In(y)[i])' = In(y)[i]
      BY <1>4, <1>5
    <3>2. PICK u \in Tasks : u = In(y)[i] /\ Waiting(u)
      BY <3>1, SlotTypes DEF PlaceOK
    <3> QED BY <1>6, <3>1, <3>2
  <2>2. (In(x)[b + 1])' = a
    BY <1>5
  <2>3. CASE r = x /\ m = b + 1
    BY <1>1, <1>15, <2>1, <2>2, <2>3
  <2>4. CASE s = x /\ n = b + 1
    BY <1>1, <1>15, <2>1, <2>2, <2>4
  <2>5. CASE ~(r = x /\ m = b + 1) /\ ~(s = x /\ n = b + 1)
    <3>1. /\ r \in Slots /\ s \in Slots /\ m \in PlacesIn(r) /\ n \in PlacesIn(s)
          /\ In(r)[m] = In(s)[n]
      BY <1>1, <1>15, <2>1, <2>5
    <3> QED BY <3>1 DEF PlaceOK
  <2> QED BY <2>3, <2>4, <2>5
<1>16. ASSUME NEW t \in Tasks, Waiting(t)'
       PROVE  \E s \in Slots' : \E n \in PlacesIn(s)' : (In(s)[n] = t)'
  <2>1. CASE t = a
    <3>1. x \in Slots' /\ b + 1 \in PlacesIn(x)' /\ (In(x)[b + 1] = t)'
      BY <1>1, <1>5, <2>1
    <3> QED BY <3>1
  <2>2. CASE t # a
    <3>1. Waiting(t)
      BY <1>7, <1>16, <2>2
    <3>2. PICK s \in Slots : \E n \in PlacesIn(s) : In(s)[n] = t
      BY <3>1 DEF PlaceOK
    <3>3. PICK n \in PlacesIn(s) : In(s)[n] = t
      BY <3>2
    <3>4. n \in PlacesIn(s)' /\ (In(s)[n] = t)'
      <4>1. CASE s = x
        <5>1. n \in 1 .. b /\ n \in 1 .. (b + 1)
          BY <1>4, <3>3, <4>1
        <5> QED BY <1>5, <3>3, <4>1, <5>1
      <4>2. CASE s # x
        BY <1>5, <3>3, <4>2
      <4> QED BY <4>1, <4>2
    <3> QED BY <1>1, <3>4
  <2> QED BY <2>1, <2>2
<1>17. \A t \in fired' : expiration'[t] # Unset
  BY <1>2 DEF PlaceOK
<1> QED BY <1>14, <1>15, <1>16, <1>17 DEF PlaceOK

LEMMA PlaceAgain ==
    ASSUME WheelTypeOK, PcOK, ClockOK, PlaceOK, AddAgain PROVE PlaceOK'
<1>1. /\ Slots' = Slots /\ Levels' = Levels
      /\ \A l \in Levels : Clock(l)' = Clock(l) /\ TickOf(l)' = TickOf(l)
      /\ In(popped) # << >> /\ In(popped)' = Tail(In(popped))
      /\ \A r \in Slots \ {popped} : In(r)' = In(r)
      /\ \A r \in Slots : Exp(r)' = Exp(r)
  BY TakeChanges
<1>2. /\ wpc = "flush" /\ wpc' = "add" /\ adding' = Head(In(popped))
      /\ UNCHANGED <<expiration, fired, advancing, popped>>
  BY DEF AddAgain, In
<1>3. PICK x \in Slots : x = popped
  BY DEF WheelTypeOK
<1>4. PICK b \in Nat : b + 1 = Len(In(x)) /\ PlacesIn(x) = 1 .. (b + 1)
  <2>1. In(x) \in Seq(Tasks) /\ In(x) # << >>
    BY <1>1, <1>3, SlotTypes
  <2>2. Len(In(x)) \in Nat \ {0}
    BY <2>1
  <2>3. Len(In(x)) - 1 \in Nat /\ Len(In(x)) - 1 + 1 = Len(In(x))
    BY <2>2
  <2> QED BY <2>3 DEF PlacesIn
<1>5. PICK a \in Tasks : a = In(x)[1] /\ a = adding'
  BY <1>1, <1>2, <1>3, <1>4, SlotTypes
<1>6. /\ \A s \in Slots \ {x} : In(s)' = In(s) /\ PlacesIn(s)' = PlacesIn(s)
      /\ PlacesIn(x)' = 1 .. b
      /\ \A n \in 1 .. b : In(x)'[n] = In(x)[n + 1]
  <2>1. In(x) \in Seq(Tasks) /\ In(x) # << >> /\ In(x)' = Tail(In(x))
    BY <1>1, <1>2, <1>3, SlotTypes
  <2>2. Len(In(x)') = b /\ \A n \in 1 .. b : In(x)'[n] = In(x)[n + 1]
    BY <1>4, <2>1
  <2>3. \A s \in Slots \ {x} : In(s)' = In(s)
    BY <1>1, <1>3
  <2> QED BY <2>2, <2>3 DEF PlacesIn
<1>7. \A r, s \in Slots : \A m \in PlacesIn(r), n \in PlacesIn(s) :
        In(r)[m] = In(s)[n] => r = s /\ m = n
  BY DEF PlaceOK
<1>8. \A t \in Tasks : Waiting(t)' <=> Waiting(t) /\ t # a
  BY <1>2, <1>5 DEF Waiting
<1>9. \A s \in Slots : Begins(s)' = Begins(s) /\ TickOf(s[1])' = TickOf(s[1])
  <2>1. (Emptying' <=> Emptying) /\ Clock(1)' = Clock(1)
    BY <1>1, <1>2 DEF Emptying, ClockOK
  <2>2. \A s \in Slots : s[1] \in Levels
    BY SlotTypes
  <2> QED BY <1>1, <1>2, <2>1, <2>2 DEF Begins
(* Where a task is now, it was before, one place further in the slot.      *)
<1> DEFINE Was(s, n) == IF s = x THEN n + 1 ELSE n
<1>10. \A s \in Slots : \A n \in PlacesIn(s)' :
         Was(s, n) \in PlacesIn(s) /\ (In(s)[n])' = In(s)[Was(s, n)] /\ In(s)[Was(s, n)] # a
  <2> SUFFICES ASSUME NEW s \in Slots, NEW n \in PlacesIn(s)'
               PROVE  /\ Was(s, n) \in PlacesIn(s) /\ (In(s)[n])' = In(s)[Was(s, n)]
                      /\ In(s)[Was(s, n)] # a
    OBVIOUS
  <2>1. 1 \in PlacesIn(x)
    BY <1>4
  <2>2. CASE s = x
    <3>1. n \in 1 .. b /\ n + 1 \in PlacesIn(x) /\ In(x)'[n] = In(x)[n + 1] /\ n + 1 # 1
      BY <1>4, <1>6, <2>2
    <3>2. In(x)[n + 1] # a
      BY <1>5, <1>7, <2>1, <3>1
    <3> QED BY <2>2, <3>1, <3>2
  <2>3. CASE s # x
    <3>1. n \in PlacesIn(s) /\ (In(s)[n])' = In(s)[n]
      BY <1>6, <2>3
    <3>2. In(s)[n] # a
      BY <1>5, <1>7, <2>1, <2>3, <3>1
    <3> QED BY <2>3, <3>1, <3>2
  <2> QED BY <2>2, <2>3
<1>11. \A s \in Slots : \A m, n \in PlacesIn(s)' : Was(s, m) = Was(s, n) => m = n
  BY <1>4, <1>6
<1>12. ASSUME NEW s \in Slots', NEW n \in PlacesIn(s)'
       PROVE  (Waiting(In(s)[n]) /\ Floor(expiration[In(s)[n]], TickOf(s[1])) = Begins(s))'
  <2>1. PICK i : i = Was(s, n) /\ s \in Slots /\ i \in PlacesIn(s) /\ (In(s)[n])' = In(s)[i] /\ In(s)[i] # a
    BY <1>1, <1>10
  <2>2. PICK u \in Tasks : u = In(s)[i] /\ Waiting(u) /\ Floor(expiration[u], TickOf(s[1])) = Begins(s)
    BY <2>1, SlotTypes DEF PlaceOK
  <2>3. Waiting(u)' /\ (In(s)[n])' = u /\ expiration' = expiration
    BY <1>2, <1>8, <2>1, <2>2
  <2>4. Waiting(In(s)[n])'
    BY <2>3 DEF Waiting
  <2> QED BY <1>9, <2>1, <2>2, <2>3, <2>4
<1>13. ASSUME NEW r \in Slots', NEW s \in Slots', NEW m \in PlacesIn(r)', NEW n \in PlacesIn(s)',
              (In(r)[m] = In(s)[n])'
       PROVE  r = s /\ m = n
  <2>1. PICK i, j : /\ i = Was(r, m) /\ j = Was(s, n) /\ r \in Slots /\ s \in Slots
                    /\ i \in PlacesIn(r) /\ j \in PlacesIn(s) /\ In(r)[i] = In(s)[j]
    BY <1>1, <1>10, <1>13
  <2>2. r = s /\ i = j
    BY <1>7, <2>1
  <2> QED BY <1>11, <2>1, <2>2
<1>14. ASSUME NEW t \in Tasks, Waiting(t)'
       PROVE  \E s \in Slots' : \E n \in PlacesIn(s)' : (In(s)[n] = t)'
  <2>1. Waiting(t) /\ t # a
    BY <1>8, <1>14
  <2>2. PICK s \in Slots : \E n \in PlacesIn(s) : In(s)[n] = t
    BY <2>1 DEF PlaceOK
  <2>3. PICK n \in PlacesIn(s) : In(s)[n] = t
    BY <2>2
  <2>4. CASE s = x
    <3>1. n \in 1 .. (b + 1) /\ n # 1
      BY <1>4, <1>5, <2>1, <2>3, <2>4
    <3>2. n - 1 \in 1 .. b /\ n - 1 + 1 = n
      BY <3>1
    <3>3. n - 1 \in PlacesIn(s)' /\ (In(s)[n - 1] = t)'
      BY <1>6, <2>3, <2>4, <3>2
    <3> QED BY <1>1, <3>3
  <2>5. CASE s # x
    <3>1. n \in PlacesIn(s)' /\ (In(s)[n] = t)'
      BY <1>6, <2>3, <2>5
    <3> QED BY <1>1, <3>1
  <2> QED BY <2>4, <2>5
<1>15. \A t \in fired' : expiration'[t] # Unset
  BY <1>2 DEF PlaceOK
<1> QED BY <1>12, <1>13, <1>14, <1>15 DEF PlaceOK

LEMMA PlaceStep ==
    ASSUME WheelTypeOK, PcOK, ClockOK, SlotOK, PopOK, AddOK, PlaceOK, [WheelNext]_wheelVars
    PROVE  PlaceOK'
<1>1. 1 \in Levels /\ \A s \in Slots : s[1] \in Levels
  BY SlotTypes DEF ClockOK
<1>2. ASSUME UNCHANGED wheels,
             \A t \in Tasks : /\ Waiting(t)' <=> Waiting(t)
                              /\ Waiting(t) => expiration'[t] = expiration[t],
             \A t \in fired' : expiration'[t] # Unset,
             \A s \in Slots : In(s) # << >> => Begins(s)' = Begins(s)
      PROVE  PlaceOK'
  <2>1. /\ Slots' = Slots
        /\ \A s \in Slots : In(s)' = In(s) /\ TickOf(s[1])' = TickOf(s[1])
    BY <1>2, WheelsStay
  <2> QED BY <1>2, <2>1, PlaceKept
<1>3. ASSUME UNCHANGED <<wheels, expiration, fired, adding, advancing, popped>>,
             wpc = "add" <=> wpc' = "add", Emptying' <=> Emptying
      PROVE  PlaceOK'
  <2>1. /\ \A t \in Tasks : /\ Waiting(t)' <=> Waiting(t)
                            /\ Waiting(t) => expiration'[t] = expiration[t]
        /\ \A t \in fired' : expiration'[t] # Unset
    BY <1>3 DEF Waiting, PlaceOK
  <2>2. \A s \in Slots : Begins(s)' = Begins(s)
    BY <1>3, WheelsStay DEF Begins
  <2> QED BY <1>2, <1>3, <2>1, <2>2
<1>4. ASSUME NEW t \in Tasks, NEW e \in Times, AddTask(t, e) PROVE PlaceOK'
  <2>1. /\ wpc = "ready" /\ ~advancing /\ expiration[t] = Unset /\ wpc' = "add" /\ adding' = t
        /\ expiration' = [expiration EXCEPT ![t] = e] /\ UNCHANGED <<wheels, fired, advancing>>
    BY <1>4 DEF AddTask, Calling
  <2>2. \A u \in Tasks : /\ Waiting(u)' <=> Waiting(u)
                         /\ Waiting(u) => expiration'[u] = expiration[u]
    BY <2>1 DEF Waiting, WheelTypeOK
  <2>3. \A u \in fired' : expiration'[u] # Unset
    BY <2>1 DEF PlaceOK, WheelTypeOK
  <2>4. \A s \in Slots : Begins(s)' = Begins(s)
    BY <2>1, WheelsStay DEF Begins, Emptying
  <2> QED BY <1>2, <2>1, <2>2, <2>3, <2>4
<1>5. CASE FireTask
  <2>1. /\ wpc = "add" /\ UNCHANGED <<wheels, expiration, advancing, popped>>
        /\ fired' = fired \union {adding} /\ wpc' = (IF advancing THEN "flush" ELSE "ready")
    BY <1>5 DEF FireTask, Added
  <2>2. \A u \in Tasks : /\ Waiting(u)' <=> Waiting(u)
                         /\ Waiting(u) => expiration'[u] = expiration[u]
    BY <2>1 DEF Waiting
  <2>3. \A u \in fired' : expiration'[u] # Unset
    BY <2>1 DEF PlaceOK, AddOK
  <2>4. \A s \in Slots : Begins(s)' = Begins(s)
    BY <2>1, WheelsStay DEF Begins, Emptying
  <2> QED BY <1>2, <2>1, <2>2, <2>3, <2>4
<1>6. CASE PutInSlot
  BY <1>6, PlacePut
<1>7. CASE GoToWheelAbove
  <2>1. PICK v \in Levels : v = level
    BY <1>7 DEF PcOK, GoToWheelAbove
  <2>2. /\ Slots \subseteq Slots'
        /\ \A l \in Levels : Clock(l)' = Clock(l) /\ TickOf(l)' = TickOf(l)
        /\ \A r \in Slots : Exp(r)' = Exp(r) /\ In(r)' = In(r)
        /\ \A r \in Slots' \ Slots : In(r)' = << >>
    <3>1. CASE v = Len(wheels)
      BY <1>7, <2>1, <3>1, GrowChanges
    <3>2. CASE v # Len(wheels)
      <4>1. UNCHANGED wheels
        BY <1>7, <2>1, <3>2, WheelTypes DEF GoToWheelAbove, Levels
      <4> QED BY <4>1, WheelsStay
    <3> QED BY <3>1, <3>2
  <2>3. wpc = "add" /\ wpc' = "add" /\ UNCHANGED <<expiration, fired, adding, advancing, popped>>
    BY <1>7 DEF GoToWheelAbove
  <2>4. /\ \A t \in Tasks : /\ Waiting(t)' <=> Waiting(t)
                            /\ Waiting(t) => expiration'[t] = expiration[t]
        /\ \A t \in fired' : expiration'[t] # Unset
    BY <2>3 DEF Waiting, PlaceOK
  <2>5. \A s \in Slots : Begins(s)' = Begins(s)
    BY <1>1, <2>2, <2>3 DEF Begins, Emptying
  <2>6. \A s \in Slots : In(s)' = In(s) /\ TickOf(s[1])' = TickOf(s[1])
    BY <1>1, <2>2
  <2> QED BY <2>2, <2>4, <2>5, <2>6, PlaceKept
<1>8. CASE ShiftUp
  <2>1. /\ wpc = "up" /\ UNCHANGED <<wheels, expiration, fired, advancing, popped>>
        /\ wpc' = "up" \/ wpc' = (IF advancing THEN "flush" ELSE "ready")
    BY <1>8 DEF ShiftUp, Added
  <2>2. /\ \A t \in Tasks : /\ Waiting(t)' <=> Waiting(t)
                            /\ Waiting(t) => expiration'[t] = expiration[t]
        /\ \A t \in fired' : expiration'[t] # Unset
    BY <2>1 DEF Waiting, PlaceOK
  <2>3. \A s \in Slots : Begins(s)' = Begins(s)
    BY <2>1, WheelsStay DEF Begins, Emptying
  <2> QED BY <1>2, <2>1, <2>2, <2>3
<1>9. CASE Elapse
  BY <1>3, <1>9 DEF Elapse, Calling, Emptying, locals
<1>10. CASE Begin
  <2>1. /\ wpc = "ready" /\ UNCHANGED <<wheels, expiration, fired, adding, popped, wpc>>
    BY <1>10 DEF Begin, Calling, locals
  <2>2. /\ \A t \in Tasks : /\ Waiting(t)' <=> Waiting(t)
                            /\ Waiting(t) => expiration'[t] = expiration[t]
        /\ \A t \in fired' : expiration'[t] # Unset
    BY <2>1 DEF Waiting, PlaceOK
  <2>3. \A s \in Slots : Begins(s)' = Begins(s)
    BY <2>1, WheelsStay DEF Begins, Emptying
  <2> QED BY <1>2, <2>1, <2>2, <2>3
<1>11. CASE PopSlot
  <2>1. /\ wpc = "ready" /\ UNCHANGED <<wheels, expiration, fired, adding>>
        /\ wpc' \in {"down", "clock"}
    BY <1>11 DEF PopSlot
  <2>2. /\ \A t \in Tasks : /\ Waiting(t)' <=> Waiting(t)
                            /\ Waiting(t) => expiration'[t] = expiration[t]
        /\ \A t \in fired' : expiration'[t] # Unset
    BY <2>1 DEF Waiting, PlaceOK
  <2>3. \A s \in Slots : Begins(s)' = Begins(s)
    BY <2>1, WheelsStay DEF Begins, Emptying
  <2> QED BY <1>2, <2>1, <2>2, <2>3
<1>12. CASE ShiftDown
  BY <1>3, <1>12 DEF ShiftDown, Emptying
<1>13. CASE MoveWheel
  <2>1. level \in Levels /\ ClockTime \in Nat
    BY <1>13, ClockTimes DEF MoveWheel, CanTick, Levels, WheelTypeOK
  <2>2. /\ Slots' = Slots /\ \A l \in Levels : TickOf(l)' = TickOf(l)
        /\ \A r \in Slots : Exp(r)' = Exp(r) /\ In(r)' = In(r)
    BY <1>13, <2>1, MoveChanges
  <2>3. wpc = "clock" /\ wpc' = "clock" /\ UNCHANGED <<expiration, fired, adding, advancing, popped>>
    BY <1>13 DEF MoveWheel
  <2>4. /\ \A t \in Tasks : /\ Waiting(t)' <=> Waiting(t)
                            /\ Waiting(t) => expiration'[t] = expiration[t]
        /\ \A t \in fired' : expiration'[t] # Unset
    BY <2>3 DEF Waiting, PlaceOK
  <2>5. \A s \in Slots : Begins(s)' = Begins(s)
    BY <2>2, <2>3 DEF Begins, Emptying
  <2>6. \A s \in Slots : In(s)' = In(s) /\ TickOf(s[1])' = TickOf(s[1])
    BY <1>1, <2>2
  <2> QED BY <2>2, <2>4, <2>5, <2>6, PlaceKept
<1>14. CASE FlushSlot
  <2>1. /\ Slots' = Slots /\ \A l \in Levels : Clock(l)' = Clock(l) /\ TickOf(l)' = TickOf(l)
        /\ \A r \in Slots \ {popped} : Exp(r)' = Exp(r)
        /\ \A r \in Slots : In(r)' = In(r)
    BY <1>14, FlushChanges
  <2>2. /\ wpc = "clock" /\ wpc' = "flush" /\ advancing
        /\ UNCHANGED <<expiration, fired, adding, advancing, popped>>
    BY <1>14 DEF FlushSlot, PcOK, Popping
  <2>3. /\ \A t \in Tasks : /\ Waiting(t)' <=> Waiting(t)
                            /\ Waiting(t) => expiration'[t] = expiration[t]
        /\ \A t \in fired' : expiration'[t] # Unset
    BY <2>2 DEF Waiting, PlaceOK
  <2>4. Clock(1)' = Exp(popped)
    BY <1>1, <1>14, <2>1, ClockAtPopped
  <2>5. \A s \in Slots : Begins(s)' = Begins(s)
    <3>1. Emptying' /\ ~Emptying
      BY <2>2 DEF Emptying
    <3> QED BY <2>1, <2>2, <2>4, <3>1 DEF Begins
  <2>6. \A s \in Slots : In(s)' = In(s) /\ TickOf(s[1])' = TickOf(s[1])
    BY <1>1, <2>1
  <2> QED BY <2>1, <2>3, <2>5, <2>6, PlaceKept
<1>15. CASE AddAgain
  BY <1>15, PlaceAgain
<1>16. CASE Flushed
  <2>1. /\ wpc = "flush" /\ wpc' = "ready" /\ In(popped) = << >>
        /\ UNCHANGED <<wheels, expiration, fired, adding, advancing>>
    BY <1>16 DEF Flushed, In
  <2>2. /\ \A t \in Tasks : /\ Waiting(t)' <=> Waiting(t)
                            /\ Waiting(t) => expiration'[t] = expiration[t]
        /\ \A t \in fired' : expiration'[t] # Unset
    BY <2>1 DEF Waiting, PlaceOK
  <2>3. \A s \in Slots : In(s) # << >> => Begins(s)' = Begins(s)
    BY <2>1, WheelsStay DEF Begins, Emptying
  <2> QED BY <1>2, <2>1, <2>2, <2>3
<1>17. CASE Return
  <2>1. /\ wpc = "ready" /\ UNCHANGED <<wheels, expiration, fired, adding, popped, wpc>>
    BY <1>17 DEF Return, locals
  <2>2. /\ \A t \in Tasks : /\ Waiting(t)' <=> Waiting(t)
                            /\ Waiting(t) => expiration'[t] = expiration[t]
        /\ \A t \in fired' : expiration'[t] # Unset
    BY <2>1 DEF Waiting, PlaceOK
  <2>3. \A s \in Slots : Begins(s)' = Begins(s)
    BY <2>1, WheelsStay DEF Begins, Emptying
  <2> QED BY <1>2, <2>1, <2>2, <2>3
<1>18. CASE UNCHANGED wheelVars
  BY <1>3, <1>18 DEF wheelVars, locals, Emptying
<1> QED BY <1>4, <1>5, <1>6, <1>7, <1>8, <1>9, <1>10, <1>11, <1>12, <1>13, <1>14, <1>15,
           <1>16, <1>17, <1>18 DEF WheelNext

-----------------------------------------------------------------------------
(* The heap of slots                                                       *)

(* The queue moves: node n has what node from[n] had.                      *)
LEMMA QueueMoved ==
    ASSUME WheelTypeOK, QueueOK, Slots \subseteq Slots', NEW from,
           \A n \in Nodes' : from[n] \in Nodes /\ delay_queue'[n] = delay_queue[from[n]],
           \A m, n \in Nodes' : from[m] = from[n] => m = n,
           \A i \in Nodes : \A s \in Slots :
              s = delay_queue[i] => (Queued(s)' <=> \E n \in Nodes' : from[n] = i),
           \A s \in Slots : Queued(s)' => Queued(s),
           \A s \in Slots' \ Slots : ~Queued(s)'
    PROVE  QueueOK'
<1>1. ASSUME NEW n \in Nodes' PROVE Queued(delay_queue[n])'
  <2>1. PICK s \in Slots : s = delay_queue'[n] /\ s = delay_queue[from[n]]
    BY NodeTypes
  <2>2. Queued(s)'
    BY <2>1
  <2> QED BY <2>1, <2>2 DEF Queued, Exp, SlotAt
<1>2. ASSUME NEW s \in Slots', Queued(s)' PROVE \E n \in Nodes' : (delay_queue[n] = s)'
  <2>1. s \in Slots /\ Queued(s)
    BY <1>2
  <2>2. PICK i \in Nodes : delay_queue[i] = s
    BY <2>1 DEF QueueOK
  <2>3. PICK n \in Nodes' : from[n] = i
    BY <1>2, <2>1, <2>2
  <2>4. delay_queue'[n] = s
    BY <2>2, <2>3
  <2> QED BY <2>4
<1>3. ASSUME NEW m \in Nodes', NEW n \in Nodes', (delay_queue[m] = delay_queue[n])' PROVE m = n
  <2>1. from[m] \in Nodes /\ from[n] \in Nodes /\ delay_queue[from[m]] = delay_queue[from[n]]
    BY <1>3
  <2>2. from[m] = from[n]
    BY <2>1 DEF QueueOK
  <2> QED BY <2>2
<1> QED BY <1>1, <1>2, <1>3 DEF QueueOK

LEMMA QueueKept ==
    ASSUME WheelTypeOK, QueueOK, UNCHANGED delay_queue, Slots \subseteq Slots',
           \A s \in Slots : Queued(s)' <=> Queued(s),
           \A s \in Slots' \ Slots : ~Queued(s)'
    PROVE  QueueOK'
<1>1. Nodes' = Nodes
  BY DEF Nodes
<1>2. PICK from : from = [n \in Nodes |-> n]
  OBVIOUS
<1>3. \A n \in Nodes' : from[n] \in Nodes /\ delay_queue'[n] = delay_queue[from[n]] /\ from[n] = n
  BY <1>1, <1>2
<1>4. \A i \in Nodes : \A s \in Slots :
         s = delay_queue[i] => (Queued(s)' <=> \E n \in Nodes' : from[n] = i)
  <2>1. \A i \in Nodes : Queued(delay_queue[i])
    BY DEF QueueOK
  <2> QED BY <1>1, <1>3, <2>1
<1> QED BY <1>3, <1>4, QueueMoved

LEMMA QueueSwapped ==
    ASSUME WheelTypeOK, QueueOK, NEW i \in Nodes, NEW j \in Nodes,
           delay_queue' = SwapNodes(delay_queue, i, j), UNCHANGED wheels,
           \A s \in Slots : Queued(s)' <=> Queued(s)
    PROVE  /\ QueueOK' /\ Nodes' = Nodes
           /\ \A n \in Nodes : Exp(delay_queue[n])' =
                IF n = i THEN Exp(delay_queue[j])
                ELSE IF n = j THEN Exp(delay_queue[i]) ELSE Exp(delay_queue[n])
<1>1. delay_queue \in Seq(Slots) /\ i \in 1 .. Len(delay_queue) /\ j \in 1 .. Len(delay_queue)
  BY DEF WheelTypeOK, Nodes
<1>2. Nodes' = Nodes
  BY <1>1, SwappedNodes DEF Nodes
<1>3. PICK from : from = [n \in Nodes |-> IF n = i THEN j ELSE IF n = j THEN i ELSE n]
  OBVIOUS
<1>4. \A n \in Nodes : /\ from[n] = (IF n = i THEN j ELSE IF n = j THEN i ELSE n)
                       /\ from[n] \in Nodes /\ from[from[n]] = n
  BY <1>3
<1>5. \A n \in Nodes : delay_queue'[n] = delay_queue[from[n]]
  <2>1. PICK h : h = delay_queue
    OBVIOUS
  <2>2. PICK g : g = SwapNodes(h, i, j) /\ g = delay_queue'
    BY <2>1
  <2>3. h \in Seq(Slots) /\ i \in 1 .. Len(h) /\ j \in 1 .. Len(h)
    BY <1>1, <2>1
  <2>4. /\ g[i] = h[j] /\ g[j] = h[i]
        /\ \A n \in 1 .. Len(h) : n # i /\ n # j => g[n] = h[n]
    <3>1. g = [h EXCEPT ![i] = h[j], ![j] = h[i]]
      BY <2>2 DEF SwapNodes
    <3> QED BY <2>3, <3>1
  <2> QED BY <1>4, <2>1, <2>2, <2>4 DEF Nodes
<1>6. \A m, n \in Nodes : from[m] = from[n] => m = n
  BY <1>4
<1>7. \A k \in Nodes : \A s \in Slots :
         s = delay_queue[k] => (Queued(s)' <=> \E n \in Nodes : from[n] = k)
  <2>1. \A k \in Nodes : Queued(delay_queue[k]) /\ from[from[k]] = k /\ from[k] \in Nodes
    BY <1>4 DEF QueueOK
  <2> QED BY <2>1
<1>8. Slots' = Slots /\ \A s : Exp(s)' = Exp(s)
  BY WheelsStay
<1>9. QueueOK'
  BY <1>2, <1>4, <1>5, <1>6, <1>7, <1>8, QueueMoved
<1>10. ASSUME NEW n \in Nodes PROVE Exp(delay_queue[n])' = Exp(delay_queue[from[n]])
  BY <1>5 DEF Exp, SlotAt
<1> QED BY <1>2, <1>4, <1>9, <1>10

LEMMA QueueUp ==
    ASSUME WheelTypeOK, PcOK, QueueOK, HeapOK, ShiftUp PROVE QueueOK' /\ HeapOK'
<1>1. /\ wpc = "up" /\ id \in Nodes /\ id \in Nat \ {0} /\ UNCHANGED <<wheels, popped>>
      /\ wpc' \in {"ready", "up", "flush"}
  BY NodeTypes DEF ShiftUp, PcOK, Added
<1>2. \A s \in Slots : Queued(s)' <=> Queued(s)
  BY <1>1, WheelsStay DEF Queued, Popping
<1>3. Slots' = Slots
  BY <1>1, WheelsStay
<1>4. \A i \in Nodes : Exp(delay_queue[i]) \in Int /\ i \in Nat \ {0}
  BY NodeTypes, SlotTypes DEF Unset
<1>5. CASE ~Rises(delay_queue, id, SlotKey)
  <2>1. UNCHANGED delay_queue /\ wpc' \in {"ready", "flush"}
    BY <1>1, <1>5 DEF ShiftUp, Added
  <2>2. QueueOK'
    BY <1>2, <1>3, <2>1, QueueKept
  <2>3. \A i \in Nodes : i > 1 => Before(Parent(i), i)
    <3> SUFFICES ASSUME NEW i \in Nodes, i > 1 PROVE Before(Parent(i), i)
      OBVIOUS
    <3>1. CASE i # id
      BY <1>1, <3>1 DEF HeapOK, Misplaced
    <3>2. CASE i = id
      <4>1. Parent(i) \in Nodes
        BY <1>4, Parents, NodeTypes
      <4>2. PICK a, b \in Int : a = Exp(delay_queue[i]) /\ b = Exp(delay_queue[Parent(i)])
        BY <1>4, <4>1
      <4>3. ~(a < b)
        BY <1>1, <1>5, <3>2, <4>2, RisesMeans
      <4> QED BY <4>2, <4>3 DEF Before
    <3> QED BY <3>1, <3>2
  <2>4. Nodes' = Nodes /\ \A i \in Nodes : (Before(Parent(i), i))' <=> Before(Parent(i), i)
    BY <1>1, <2>1 DEF Nodes, Before, Exp, SlotAt, Parent
  <2> QED BY <2>1, <2>2, <2>3, <2>4 DEF HeapOK
<1>6. CASE Rises(delay_queue, id, SlotKey)
  <2>1. PICK x \in Nodes : x = id
    BY <1>1
  <2>2. PICK p \in Nodes : p = Parent(x) /\ p < x /\ x > 1
    <3>1. x > 1 /\ x \in Nat
      BY <1>1, <1>6, <2>1, RisesMeans
    <3>2. Parent(x) \in Nodes /\ Parent(x) < x
      BY <3>1, Parents, NodeTypes
    <3> QED BY <3>1, <3>2
  <2>3. delay_queue' = SwapNodes(delay_queue, x, p) /\ id' = p /\ wpc' = "up"
    BY <1>1, <1>6, <2>1, <2>2 DEF ShiftUp
  <2>4. PICK K : K = [i \in Nodes |-> Exp(delay_queue[i])]
    OBVIOUS
  <2>5. PICK L : L = [i \in Nodes |-> IF i = x THEN K[p] ELSE IF i = p THEN K[x] ELSE K[i]]
    OBVIOUS
  <2>6. /\ QueueOK' /\ Nodes' = Nodes
        /\ \A i \in Nodes : Exp(delay_queue[i])' = L[i]
    <3>1. /\ QueueOK' /\ Nodes' = Nodes
          /\ \A n \in Nodes : Exp(delay_queue[n])' =
                IF n = x THEN Exp(delay_queue[p])
                ELSE IF n = p THEN Exp(delay_queue[x]) ELSE Exp(delay_queue[n])
      BY <1>1, <1>2, <2>3, QueueSwapped
    <3> QED BY <2>4, <2>5, <3>1
  <2>7. /\ \A i \in Nodes : K[i] \in Int
        /\ \A i \in Nodes : L[i] = IF i = x THEN K[p] ELSE IF i = p THEN K[x] ELSE K[i]
    BY <1>4, <2>4, <2>5
  <2>8. K[x] < K[p]
    BY <1>1, <1>6, <2>1, <2>2, <2>4, RisesMeans
  <2>9. /\ \A i \in Nodes : i > 1 => Parent(i) \in Nodes
        /\ \A i \in Nodes : i > 1 /\ i # x => K[Parent(i)] <= K[i]
        /\ \A i \in Nodes : Parent(i) = x => K[p] <= K[i]
    <3>1. \A i \in Nodes : i > 1 => Parent(i) \in Nodes
      BY <1>4, Parents, NodeTypes
    <3>2. \A i \in Nodes : i > 1 /\ i # x => Before(Parent(i), i)
      BY <1>1, <2>1 DEF HeapOK, Misplaced
    <3>3. \A i \in Nodes : Parent(i) = x => Before(p, i)
      BY <1>1, <2>1, <2>2 DEF HeapOK
    <3> QED BY <2>4, <3>1, <3>2, <3>3 DEF Before
  <2>10. \A i \in Nodes : i > 1 => Parent(i) # i
    BY <1>4, Parents
  <2>11. \A i \in Nodes : i > 1 /\ i # p => L[Parent(i)] <= L[i]
    BY <2>2, <2>7, <2>8, <2>9, <2>10
  <2>12. \A i \in Nodes : Parent(i) = p /\ p > 1 => L[Parent(p)] <= L[i]
    <3> SUFFICES ASSUME NEW i \in Nodes, Parent(i) = p, p > 1 PROVE L[Parent(p)] <= L[i]
      OBVIOUS
    <3>1. PICK g \in Nodes : g = Parent(p) /\ g < p
      BY <1>4, <2>9, Parents
    <3>2. L[g] = K[g] /\ K[g] <= K[p]
      BY <1>4, <2>2, <2>7, <2>9, <3>1
    <3>3. i > 1 /\ i # p
      BY <1>4, <3>1, Parents
    <3>4. K[p] <= L[i]
      BY <2>7, <2>9, <3>3
    <3> QED BY <2>7, <3>1, <3>2, <3>4
  <2>13. \A i, j \in Nodes : Before(i, j)' <=> L[i] <= L[j]
    BY <2>6 DEF Before
  <2>14. HeapOK'
    <3>1. \A i \in Nodes' : i > 1 => (Before(Parent(i), i) \/ Misplaced(i))'
      <4> SUFFICES ASSUME NEW i \in Nodes, i > 1, i # p PROVE Before(Parent(i), i)'
        BY <2>3, <2>6 DEF Misplaced
      <4>1. PICK q \in Nodes : q = Parent(i)
        BY <2>9
      <4>2. Before(q, i)'
        BY <2>11, <2>13, <4>1
      <4> QED BY <4>1, <4>2 DEF Parent
    <3>2. p > 1 => \A i \in Nodes' : Parent(i) = p => Before(Parent(p), i)'
      <4> SUFFICES ASSUME p > 1, NEW i \in Nodes, Parent(i) = p PROVE Before(Parent(p), i)'
        BY <2>6
      <4>1. PICK q \in Nodes : q = Parent(p)
        BY <2>9
      <4>2. Before(q, i)'
        BY <2>12, <2>13, <4>1
      <4> QED BY <4>1, <4>2 DEF Parent
    <3>3. (id > 1 => \A i \in Nodes : Parent(i) = id => Before(Parent(id), i))'
      BY <2>3, <3>2 DEF Parent, Before
    <3> QED BY <3>1, <3>3 DEF HeapOK
  <2> QED BY <2>6, <2>14
<1> QED BY <1>5, <1>6

LEMMA QueueDown ==
    ASSUME WheelTypeOK, PcOK, QueueOK, HeapOK, ShiftDown PROVE QueueOK' /\ HeapOK'
<1>1. /\ wpc = "down" /\ id \in Nodes /\ id \in Nat \ {0} /\ UNCHANGED <<wheels, popped>>
      /\ wpc' \in {"down", "clock"}
  BY NodeTypes DEF ShiftDown, PcOK
<1>2. \A s \in Slots : Queued(s)' <=> Queued(s)
  BY <1>1, WheelsStay DEF Queued, Popping
<1>3. Slots' = Slots
  BY <1>1, WheelsStay
<1>4. \A i \in Nodes : Exp(delay_queue[i]) \in Int /\ i \in Nat \ {0}
  BY NodeTypes, SlotTypes DEF Unset
<1>5. CASE ~Sinks(delay_queue, id, SlotKey)
  <2>1. UNCHANGED delay_queue /\ wpc' = "clock"
    BY <1>1, <1>5 DEF ShiftDown
  <2>2. QueueOK'
    BY <1>2, <1>3, <2>1, QueueKept
  <2>3. \A i \in Nodes : i > 1 => Before(Parent(i), i)
    <3> SUFFICES ASSUME NEW i \in Nodes, i > 1 PROVE Before(Parent(i), i)
      OBVIOUS
    <3>1. CASE Parent(i) # id
      BY <1>1, <3>1 DEF HeapOK, Misplaced
    <3>2. CASE Parent(i) = id
      BY <1>1, <1>5, <3>2, SinksMeans
    <3> QED BY <3>1, <3>2
  <2>4. Nodes' = Nodes /\ \A i \in Nodes : (Before(Parent(i), i))' <=> Before(Parent(i), i)
    BY <1>1, <2>1 DEF Nodes, Before, Exp, SlotAt, Parent
  <2> QED BY <2>1, <2>2, <2>3, <2>4 DEF HeapOK
<1>6. CASE Sinks(delay_queue, id, SlotKey)
  <2>1. PICK x \in Nodes : x = id
    BY <1>1
  <2>2. PICK c \in Nodes : /\ c = SmallerChild(delay_queue, id, SlotKey) /\ Parent(c) = x /\ c # x
                           /\ Exp(delay_queue[c]) < Exp(delay_queue[x])
                           /\ \A i \in Nodes : Parent(i) = x => Before(c, i)
    BY <1>1, <1>6, <2>1, SinksMeans
  <2>3. delay_queue' = SwapNodes(delay_queue, c, x) /\ id' = c /\ wpc' = "down"
    BY <1>1, <1>6, <2>1, <2>2 DEF ShiftDown
  <2>4. PICK K : K = [i \in Nodes |-> Exp(delay_queue[i])]
    OBVIOUS
  <2>5. PICK L : L = [i \in Nodes |-> IF i = c THEN K[x] ELSE IF i = x THEN K[c] ELSE K[i]]
    OBVIOUS
  <2>6. /\ QueueOK' /\ Nodes' = Nodes
        /\ \A i \in Nodes : Exp(delay_queue[i])' = L[i]
    <3>1. /\ QueueOK' /\ Nodes' = Nodes
          /\ \A n \in Nodes : Exp(delay_queue[n])' =
                IF n = c THEN Exp(delay_queue[x])
                ELSE IF n = x THEN Exp(delay_queue[c]) ELSE Exp(delay_queue[n])
      BY <1>1, <1>2, <2>3, QueueSwapped
    <3> QED BY <2>4, <2>5, <3>1
  <2>7. /\ \A i \in Nodes : K[i] \in Int
        /\ \A i \in Nodes : L[i] = IF i = c THEN K[x] ELSE IF i = x THEN K[c] ELSE K[i]
    BY <1>4, <2>4, <2>5
  <2>8. K[c] < K[x] /\ \A i \in Nodes : Parent(i) = x => K[c] <= K[i]
    BY <2>2, <2>4 DEF Before
  <2>9. /\ \A i \in Nodes : i > 1 => Parent(i) \in Nodes
        /\ \A i \in Nodes : i > 1 /\ Parent(i) # x => K[Parent(i)] <= K[i]
        /\ x > 1 => K[Parent(x)] <= K[c]
    <3>1. \A i \in Nodes : i > 1 => Parent(i) \in Nodes
      BY <1>4, Parents, NodeTypes
    <3>2. \A i \in Nodes : i > 1 /\ Parent(i) # x => Before(Parent(i), i)
      BY <1>1, <2>1 DEF HeapOK, Misplaced
    <3>3. x > 1 => Before(Parent(x), c)
      BY <1>1, <2>1, <2>2 DEF HeapOK
    <3> QED BY <2>1, <2>2, <2>4, <3>1, <3>2, <3>3 DEF Before
  <2>10. \A i \in Nodes : i > 1 => Parent(i) # i
    BY <1>4, Parents
  <2>11. \A i \in Nodes : i > 1 /\ Parent(i) # c => L[Parent(i)] <= L[i]
    <3> SUFFICES ASSUME NEW i \in Nodes, i > 1, Parent(i) # c PROVE L[Parent(i)] <= L[i]
      OBVIOUS
    <3>1. PICK q \in Nodes : q = Parent(i) /\ q # i /\ q # c
      BY <2>9, <2>10
    <3>2. CASE q = x
      <4>1. L[q] = K[c] /\ K[c] <= K[i] /\ i # x
        BY <2>2, <2>7, <2>8, <3>1, <3>2
      <4>2. L[i] = K[i] \/ L[i] = K[x]
        BY <2>7, <4>1
      <4> QED BY <2>7, <2>8, <3>1, <4>1, <4>2
    <3>3. CASE q # x
      <4>1. L[q] = K[q] /\ K[q] <= K[i] /\ i # c
        BY <2>2, <2>7, <2>9, <3>1, <3>3
      <4>2. CASE i = x
        <5>1. L[i] = K[c] /\ K[q] <= K[c]
          BY <2>2, <2>7, <2>9, <3>1, <4>2
        <5> QED BY <3>1, <4>1, <5>1
      <4>3. CASE i # x
        BY <2>7, <3>1, <4>1, <4>3
      <4> QED BY <4>2, <4>3
    <3> QED BY <3>2, <3>3
  <2>12. \A i \in Nodes : Parent(i) = c => L[Parent(c)] <= L[i]
    <3> SUFFICES ASSUME NEW i \in Nodes, Parent(i) = c PROVE L[x] <= L[i]
      BY <2>2
    <3>1. i > 1 /\ i # c /\ i # x /\ c # x
      BY <1>4, <2>2, Parents
    <3>2. K[c] <= K[i]
      BY <2>9, <3>1
    <3> QED BY <2>7, <3>1, <3>2
  <2>13. \A i, j \in Nodes : Before(i, j)' <=> L[i] <= L[j]
    BY <2>6 DEF Before
  <2>14. HeapOK'
    <3>1. \A i \in Nodes' : i > 1 => (Before(Parent(i), i) \/ Misplaced(i))'
      <4> SUFFICES ASSUME NEW i \in Nodes, i > 1, Parent(i) # c PROVE Before(Parent(i), i)'
        BY <2>3, <2>6 DEF Misplaced, Parent
      <4>1. PICK q \in Nodes : q = Parent(i)
        BY <2>9
      <4>2. Before(q, i)'
        BY <2>11, <2>13, <4>1
      <4> QED BY <4>1, <4>2 DEF Parent
    <3>2. \A i \in Nodes' : Parent(i) = c => Before(Parent(c), i)'
      <4> SUFFICES ASSUME NEW i \in Nodes, Parent(i) = c PROVE Before(Parent(c), i)'
        BY <2>6
      <4>1. Before(x, i)'
        BY <2>2, <2>12, <2>13
      <4> QED BY <2>2, <4>1 DEF Parent
    <3>3. (\A i \in Nodes : Parent(i) = id => Before(Parent(id), i))'
      BY <2>3, <3>2 DEF Parent, Before
    <3> QED BY <3>1, <3>3 DEF HeapOK
  <2> QED BY <2>6, <2>14
<1> QED BY <1>5, <1>6

LEMMA QueuePop ==
    ASSUME WheelTypeOK, PcOK, QueueOK, HeapOK, PopSlot PROVE QueueOK' /\ HeapOK'
<1>1. /\ wpc = "ready" /\ delay_queue # << >> /\ delay_queue' = WithoutRoot(delay_queue)
      /\ popped' = First /\ UNCHANGED wheels /\ id' = id /\ id = 1
      /\ wpc' \in {"down", "clock"} /\ (wpc' = "clock" => ~(Len(delay_queue) > 1))
  BY DEF PopSlot, Expired, PcOK
<1>2. delay_queue \in Seq(Slots) /\ Slots' = Slots /\ \A s : Exp(s)' = Exp(s)
  BY <1>1, WheelsStay DEF WheelTypeOK
<1>3. PICK b \in Nat : b + 1 = Len(delay_queue) /\ Nodes = 1 .. (b + 1)
  <2>1. Len(delay_queue) - 1 \in Nat /\ Len(delay_queue) - 1 + 1 = Len(delay_queue)
    BY <1>1, <1>2
  <2> QED BY <2>1 DEF Nodes
<1>4. /\ Nodes' = 1 .. b
      /\ \A n \in 1 .. b : delay_queue'[n] = delay_queue[IF n = 1 THEN b + 1 ELSE n]
  <2>1. /\ Len(delay_queue') = Len(delay_queue) - 1
        /\ \A n \in 1 .. Len(delay_queue) - 1 :
             delay_queue'[n] = IF n = 1 THEN delay_queue[Len(delay_queue)] ELSE delay_queue[n]
    BY <1>1, <1>2, RootTaken
  <2>2. Len(delay_queue) - 1 = b
    BY <1>3
  <2> QED BY <1>3, <2>1, <2>2 DEF Nodes
<1>5. PICK from : from = [n \in 1 .. b |-> IF n = 1 THEN b + 1 ELSE n]
  OBVIOUS
<1>6. \A n \in 1 .. b : /\ from[n] = (IF n = 1 THEN b + 1 ELSE n)
                        /\ from[n] \in Nodes /\ from[n] # 1
                        /\ delay_queue'[n] = delay_queue[from[n]]
  BY <1>3, <1>4, <1>5
<1>7. \A m, n \in 1 .. b : from[m] = from[n] => m = n
  BY <1>6
<1>8. \A i \in Nodes : i # 1 => \E n \in 1 .. b : from[n] = i
  <2> SUFFICES ASSUME NEW i \in Nodes, i # 1 PROVE \E n \in 1 .. b : from[n] = i
    OBVIOUS
  <2>1. CASE i = b + 1
    BY <1>3, <1>6, <2>1
  <2>2. CASE i # b + 1
    BY <1>3, <1>6, <2>2
  <2> QED BY <2>1, <2>2
<1>9. First = delay_queue[1] /\ 1 \in Nodes
  BY <1>1, NodeTypes
<1>10. \A s \in Slots : Queued(s)' <=> Queued(s) /\ s # First
  BY <1>1, <1>2 DEF Queued, Popping
<1>11. \A i \in Nodes : \A s \in Slots :
          s = delay_queue[i] => (Queued(s)' <=> \E n \in Nodes' : from[n] = i)
  <2>1. \A i \in Nodes : Queued(delay_queue[i]) /\ (delay_queue[i] = First <=> i = 1)
    BY <1>9 DEF QueueOK
  <2> QED BY <1>4, <1>6, <1>8, <1>10, <2>1
<1>12. QueueOK'
  BY <1>2, <1>4, <1>6, <1>7, <1>10, <1>11, QueueMoved
<1>13. ASSUME NEW i \in Nodes', i > 1 PROVE (Before(Parent(i), i) \/ Misplaced(i))'
  <2>1. i \in 1 .. b /\ b >= 2 /\ wpc' = "down"
    BY <1>1, <1>3, <1>4, <1>13
  <2>2. CASE Parent(i) = 1
    BY <1>1, <2>1, <2>2 DEF Misplaced, Parent
  <2>3. CASE Parent(i) # 1
    <3>1. PICK q \in 1 .. b : q = Parent(i) /\ q # 1 /\ i # 1
      BY <1>13, <2>1, <2>3, Parents
    <3>2. delay_queue'[i] = delay_queue[i] /\ delay_queue'[q] = delay_queue[q] /\ i \in Nodes
      BY <1>3, <1>6, <2>1, <3>1
    <3>3. Before(q, i)
      BY <1>1, <1>13, <3>1, <3>2 DEF HeapOK, Misplaced
    <3>4. Before(q, i)'
      BY <1>1, <3>2, <3>3 DEF Before, Exp, SlotAt
    <3> QED BY <3>1, <3>4 DEF Parent
  <2> QED BY <2>2, <2>3
<1>14. ~(id > 1)'
  BY <1>1
<1> QED BY <1>12, <1>13, <1>14 DEF HeapOK

LEMMA QueuePut ==
    ASSUME WheelTypeOK, PcOK, ClockOK, SlotOK, PopOK, AddOK, QueueOK, HeapOK, PutInSlot
    PROVE  QueueOK' /\ HeapOK'
<1>1. /\ Slots' = Slots
      /\ \A r \in Slots : Exp(r)' = IF r = Target THEN Start ELSE Exp(r)
  BY PutChanges
<1>2. wpc = "add" /\ wpc' \in {"ready", "up", "flush"} /\ ~Popping /\ ~Popping'
  BY DEF PutInSlot, Added, Popping
<1>3. PICK x \in Slots : x = Target
  BY <1>2, TargetTypes
<1>4. PICK b \in Nat : b = Len(delay_queue) /\ Nodes = 1 .. b
  BY NodeTypes
<1>5. \A s \in Slots : s # x => (Queued(s)' <=> Queued(s)) /\ Exp(s)' = Exp(s)
  BY <1>1, <1>2, <1>3 DEF Queued
<1>6. Queued(x)' /\ Exp(x)' = Start /\ Start # Unset
  BY <1>1, <1>2, <1>3, TargetTypes, NoneIsNoTime DEF Queued
<1>7. Exp(x) = Unset \/ Exp(x) = Start
  BY <1>3, PutBounds
<1>8. \A i \in Nodes : i > 1 => Before(Parent(i), i)
  BY <1>2 DEF HeapOK, Misplaced
<1>9. \A i \in Nodes : i \in Nat \ {0} /\ (i > 1 => Parent(i) \in Nodes)
  BY <1>4, Parents
<1>10. CASE Exp(x) = Start
  <2>1. UNCHANGED delay_queue /\ wpc' \in {"ready", "flush"}
    <3>1. Wheel.slots[SlotOfTime(Wheel, expiration[adding])].expiration
            = Floor(expiration[adding], Wheel.tick)
      BY <1>3, <1>10 DEF Target, Start, Exp, SlotAt, Wheel, TickOf
    <3> QED BY <3>1 DEF PutInSlot, Added
  <2>2. Queued(x)
    BY <1>2, <1>6, <1>10 DEF Queued
  <2>3. QueueOK'
    BY <1>1, <1>5, <1>6, <2>1, <2>2, QueueKept
  <2>4. \A s \in Slots : Exp(s)' = Exp(s)
    BY <1>5, <1>6, <1>10
  <2>5. Nodes' = Nodes /\ \A i \in Nodes : Exp(delay_queue[i])' = Exp(delay_queue[i])
    <3>1. Nodes' = Nodes /\ \A i \in Nodes : delay_queue'[i] = delay_queue[i] /\ delay_queue[i] \in Slots
      BY <2>1, NodeTypes DEF Nodes
    <3> QED BY <2>4, <3>1 DEF Exp, SlotAt
  <2>6. \A i \in Nodes : i > 1 => Before(Parent(i), i)'
    BY <1>8, <1>9, <2>5 DEF Before, Parent
  <2> QED BY <2>1, <2>3, <2>5, <2>6 DEF HeapOK
<1>11. CASE Exp(x) # Start
  <2>1. Exp(x) = Unset /\ ~Queued(x)
    BY <1>7, <1>11 DEF Queued
  <2>2. delay_queue' = Append(delay_queue, x) /\ wpc' = "up" /\ id' = b + 1
    <3>1. Wheel.slots[SlotOfTime(Wheel, expiration[adding])].expiration
            # Floor(expiration[adding], Wheel.tick)
      BY <1>3, <1>11 DEF Target, Start, Exp, SlotAt, Wheel, TickOf
    <3>2. x = <<level, SlotOfTime(Wheel, expiration[adding])>>
      BY <1>3 DEF Target, Wheel
    <3> QED BY <1>4, <3>1, <3>2 DEF PutInSlot
  <2>3. /\ Nodes' = 1 .. (b + 1) /\ delay_queue'[b + 1] = x
        /\ \A i \in Nodes : delay_queue'[i] = delay_queue[i] /\ delay_queue[i] \in Slots
    <3>1. delay_queue \in Seq(Slots)
      BY DEF WheelTypeOK
    <3>2. /\ Len(delay_queue') = b + 1 /\ delay_queue'[b + 1] = x
          /\ \A i \in 1 .. b : delay_queue'[i] = delay_queue[i] /\ delay_queue[i] \in Slots
      BY <1>4, <2>2, <3>1
    <3> QED BY <1>4, <3>2 DEF Nodes
  <2>4. \A i \in Nodes : Queued(delay_queue[i]) /\ delay_queue[i] # x
    BY <2>1 DEF QueueOK
  <2>5. ASSUME NEW i \in Nodes' PROVE Queued(delay_queue[i])'
    <3>1. PICK s \in Slots : s = delay_queue'[i] /\ Queued(s)'
      BY <1>4, <1>5, <1>6, <2>3, <2>4
    <3> QED BY <3>1 DEF Queued, Exp, SlotAt
  <2>6. ASSUME NEW s \in Slots', Queued(s)' PROVE \E i \in Nodes' : (delay_queue[i] = s)'
    <3>1. CASE s = x
      BY <2>3, <3>1
    <3>2. CASE s # x
      <4>1. Queued(s)
        BY <1>1, <1>5, <2>6, <3>2
      <4>2. PICK i \in Nodes : delay_queue[i] = s
        BY <1>1, <4>1 DEF QueueOK
      <4>3. i \in Nodes' /\ delay_queue'[i] = s
        BY <1>4, <2>3, <4>2
      <4> QED BY <4>3
    <3> QED BY <3>1, <3>2
  <2>7. ASSUME NEW i \in Nodes', NEW j \in Nodes', (delay_queue[i] = delay_queue[j])' PROVE i = j
    BY <1>4, <2>3, <2>4, <2>7 DEF QueueOK
  <2>8. \A i \in Nodes : Exp(delay_queue[i])' = Exp(delay_queue[i])
    <3> SUFFICES ASSUME NEW i \in Nodes PROVE Exp(delay_queue[i])' = Exp(delay_queue[i])
      OBVIOUS
    <3>1. PICK s \in Slots : s = delay_queue[i] /\ s = delay_queue'[i] /\ s # x
      BY <2>3, <2>4
    <3>2. Exp(s)' = Exp(s)
      BY <1>5, <3>1
    <3> QED BY <3>1, <3>2 DEF Exp, SlotAt
  <2>9. ASSUME NEW i \in Nodes', i > 1 PROVE (Before(Parent(i), i) \/ Misplaced(i))'
    <3>1. CASE i = b + 1
      BY <2>2, <3>1 DEF Misplaced
    <3>2. CASE i # b + 1
      <4>1. i \in Nodes
        BY <1>4, <2>3, <3>2
      <4>2. Before(Parent(i), i)'
        BY <1>8, <1>9, <2>8, <2>9, <4>1 DEF Before, Parent
      <4> QED BY <4>2
    <3> QED BY <3>1, <3>2
  <2>10. \A i \in Nodes' : Parent(i) # b + 1
    <3>1. \A i \in 1 .. (b + 1) : i \in Nat \ {0} /\ i < b + 2
      BY <1>4
    <3> QED BY <2>3, <3>1, Parents
  <2>11. (id > 1 => \A i \in Nodes : Parent(i) = id => Before(Parent(id), i))'
    BY <2>2, <2>10 DEF Parent
  <2> QED BY <2>5, <2>6, <2>7, <2>9, <2>11 DEF QueueOK, HeapOK
<1> QED BY <1>10, <1>11

LEMMA QueueStays ==
    ASSUME WheelTypeOK, QueueOK, HeapOK, UNCHANGED delay_queue, Slots \subseteq Slots',
           wpc \notin {"up", "down"}, wpc' \notin {"up", "down"},
           \A s \in Slots : (Queued(s)' <=> Queued(s)) /\ (Queued(s) => Exp(s)' = Exp(s)),
           \A s \in Slots' \ Slots : ~Queued(s)'
    PROVE  QueueOK' /\ HeapOK'
<1>1. QueueOK'
  BY QueueKept
<1>2. Nodes' = Nodes /\ \A i \in Nodes : Exp(delay_queue[i])' = Exp(delay_queue[i])
  <2>1. \A i \in Nodes : delay_queue'[i] = delay_queue[i] /\ delay_queue[i] \in Slots
                         /\ Queued(delay_queue[i])
    BY NodeTypes DEF QueueOK
  <2>2. ASSUME NEW i \in Nodes PROVE Exp(delay_queue[i])' = Exp(delay_queue[i])
    <3>1. PICK s \in Slots : s = delay_queue[i] /\ s = delay_queue'[i] /\ Queued(s)
      BY <2>1
    <3>2. Exp(s)' = Exp(s)
      BY <3>1
    <3> QED BY <3>1, <3>2 DEF Exp, SlotAt
  <2> QED BY <2>2 DEF Nodes
<1>3. \A i \in Nodes : i > 1 => Before(Parent(i), i)
  BY DEF HeapOK, Misplaced
<1>4. \A i \in Nodes : i > 1 => Parent(i) \in Nodes
  BY Parents, NodeTypes
<1>5. \A i \in Nodes' : i > 1 => Before(Parent(i), i)'
  BY <1>2, <1>3, <1>4 DEF Before, Parent
<1> QED BY <1>1, <1>5 DEF HeapOK

LEMMA QueueStep ==
    ASSUME WheelTypeOK, PcOK, ClockOK, SlotOK, PopOK, AddOK, PlaceOK, QueueOK, HeapOK,
           [WheelNext]_wheelVars
    PROVE  QueueOK' /\ HeapOK'
<1>1. ASSUME UNCHANGED <<wheels, delay_queue>>, wpc \notin {"up", "down", "clock"},
             wpc' \notin {"up", "down", "clock"}
      PROVE  QueueOK' /\ HeapOK'
  <2>1. Slots' = Slots /\ \A s : Exp(s)' = Exp(s)
    BY <1>1, WheelsStay
  <2>2. \A s \in Slots : Queued(s)' <=> Queued(s)
    BY <1>1, <2>1 DEF Queued, Popping
  <2> QED BY <1>1, <2>1, <2>2, QueueStays
<1>2. ASSUME NEW t \in Tasks, NEW e \in Times, AddTask(t, e) PROVE QueueOK' /\ HeapOK'
  BY <1>1, <1>2 DEF AddTask, Calling
<1>3. CASE FireTask
  BY <1>1, <1>3 DEF FireTask, Added
<1>4. CASE PutInSlot
  BY <1>4, QueuePut
<1>5. CASE GoToWheelAbove
  <2>1. PICK v \in Levels : v = level
    BY <1>5 DEF PcOK, GoToWheelAbove
  <2>2. /\ Slots \subseteq Slots' /\ \A r \in Slots : Exp(r)' = Exp(r)
        /\ \A r \in Slots' \ Slots : Exp(r)' = Unset
    <3>1. CASE v = Len(wheels)
      BY <1>5, <2>1, <3>1, GrowChanges
    <3>2. CASE v # Len(wheels)
      <4>1. UNCHANGED wheels
        BY <1>5, <2>1, <3>2, WheelTypes DEF GoToWheelAbove, Levels
      <4> QED BY <4>1, WheelsStay
    <3> QED BY <3>1, <3>2
  <2>3. wpc = "add" /\ wpc' = "add" /\ UNCHANGED delay_queue
    BY <1>5 DEF GoToWheelAbove
  <2>4. /\ \A s \in Slots : Queued(s)' <=> Queued(s)
        /\ \A s \in Slots' \ Slots : ~Queued(s)'
    BY <2>2, <2>3 DEF Queued, Popping
  <2> QED BY <2>2, <2>3, <2>4, QueueStays
<1>6. CASE ShiftUp
  BY <1>6, QueueUp
<1>7. CASE Elapse
  BY <1>1, <1>7 DEF Elapse, Calling, locals
<1>8. CASE Begin
  BY <1>1, <1>8 DEF Begin, Calling, locals
<1>9. CASE PopSlot
  BY <1>9, QueuePop
<1>10. CASE ShiftDown
  BY <1>10, QueueDown
<1>11. CASE MoveWheel
  <2>1. level \in Levels /\ ClockTime \in Nat
    BY <1>11, ClockTimes DEF MoveWheel, CanTick, Levels, WheelTypeOK
  <2>2. Slots' = Slots /\ \A r \in Slots : Exp(r)' = Exp(r)
    BY <1>11, <2>1, MoveChanges
  <2>3. wpc = "clock" /\ wpc' = "clock" /\ UNCHANGED <<delay_queue, popped>>
    BY <1>11 DEF MoveWheel
  <2>4. \A s \in Slots : Queued(s)' <=> Queued(s)
    BY <2>2, <2>3 DEF Queued, Popping
  <2> QED BY <2>2, <2>3, <2>4, QueueStays
<1>12. CASE FlushSlot
  <2>1. /\ Slots' = Slots /\ Exp(popped)' = Unset
        /\ \A r \in Slots \ {popped} : Exp(r)' = Exp(r)
    BY <1>12, FlushChanges
  <2>2. wpc = "clock" /\ wpc' = "flush" /\ UNCHANGED <<delay_queue, popped>>
    BY <1>12 DEF FlushSlot
  <2>3. \A s \in Slots : (Queued(s)' <=> Queued(s)) /\ (Queued(s) => Exp(s)' = Exp(s))
    BY <2>1, <2>2 DEF Queued, Popping
  <2> QED BY <2>1, <2>2, <2>3, QueueStays
<1>13. CASE AddAgain
  <2>1. Slots' = Slots /\ \A r \in Slots : Exp(r)' = Exp(r)
    BY <1>13, TakeChanges
  <2>2. wpc = "flush" /\ wpc' = "add" /\ UNCHANGED <<delay_queue, popped>>
    BY <1>13 DEF AddAgain
  <2>3. \A s \in Slots : Queued(s)' <=> Queued(s)
    BY <2>1, <2>2 DEF Queued, Popping
  <2> QED BY <2>1, <2>2, <2>3, QueueStays
<1>14. CASE Flushed
  BY <1>1, <1>14 DEF Flushed
<1>15. CASE Return
  BY <1>1, <1>15 DEF Return, locals
<1>16. CASE UNCHANGED wheelVars
  BY <1>16 DEF wheelVars, locals, QueueOK, HeapOK, Queued, Popping, Before, Misplaced, Nodes,
                Exp, SlotAt, Slots
<1> QED BY <1>2, <1>3, <1>4, <1>5, <1>6, <1>7, <1>8, <1>9, <1>10, <1>11, <1>12, <1>13, <1>14,
           <1>15, <1>16 DEF WheelNext

LEMMA TypeStep ==
    ASSUME WheelTypeOK, PcOK, ClockOK, PopOK, AddOK, [WheelNext]_wheelVars PROVE WheelTypeOK'
<1>1. CASE UNCHANGED wheelVars
  BY <1>1 DEF wheelVars, locals, WheelTypeOK, Slots
<1> QED BY <1>1, ElapseTypes, AddTaskTypes, FireTaskTypes, PutTypes, AboveTypes, UpTypes,
           BeginTypes, PopTypes, DownTypes, MoveTypes, FlushTypes, AgainTypes, FlushedTypes,
           ReturnTypes DEF WheelNext

LEMMA WheelInvInit == ASSUME WheelInit PROVE WheelInv
<1>1. PICK w : w = CreateWheel(TickDur, 0) /\ wheels = <<w>>
  BY DEF WheelInit
<1>2. TickDur \in Nat \ {0} /\ WheelSize \in Nat \ {0, 1} /\ Times \subseteq Nat /\ 0 \in Times
  BY WheelAssumption
<1>3. Floor(0, TickDur) = 0
  <2>1. Multiple(0, TickDur)
    BY <1>2 DEF Multiple
  <2> QED BY <1>2, <2>1, FloorUnique
<1>4. EmptySlot \in SlotStates
  BY DEF EmptySlot, SlotStates
<1>5. /\ w \in WheelStates /\ w.tick = TickDur /\ w.cur_time = 0
      /\ \A i \in 0 .. WheelSize - 1 : w.slots[i] = EmptySlot
  BY <1>1, <1>2, <1>3, <1>4 DEF CreateWheel, WheelStates
<1>6. /\ wheels \in Seq(WheelStates) /\ Len(wheels) = 1 /\ wheels[1] = w
      /\ Levels = {1}
  BY <1>1, <1>5 DEF Levels
<1>7. NoSlot \in Slots
  BY <1>2, <1>6 DEF NoSlot, Slots
<1>8. /\ now = 0 /\ expiration = [t \in Tasks |-> Unset] /\ delay_queue = << >> /\ fired = {}
      /\ advancing = FALSE /\ delay = 0 /\ wpc = "ready" /\ adding = NoTask /\ level = 1
      /\ id = 1 /\ popped = NoSlot
  BY DEF WheelInit
<1>9. WheelTypeOK
  <2>1. now \in Times /\ expiration \in [Tasks -> Times \union {Unset}]
    BY <1>2, <1>8
  <2>2. wheels \in Seq(WheelStates) /\ delay_queue \in Seq(Slots) /\ fired \subseteq Tasks
    BY <1>6, <1>8
  <2>3. delay \in Nat /\ level \in Nat \ {0} /\ id \in Nat \ {0} /\ popped \in Slots
    BY <1>7, <1>8
  <2>4. wpc \in {"ready", "add", "up", "down", "clock", "flush"}
    BY <1>8
  <2>5. advancing \in BOOLEAN /\ adding \in Tasks \union {NoTask}
    BY <1>8, Zenon
  <2> QED BY <2>1, <2>2, <2>3, <2>4, <2>5 DEF WheelTypeOK
<1>10. PcOK
  BY <1>8 DEF PcOK, Popping
<1>11. TickOf(1) = TickDur /\ Clock(1) = 0
  BY <1>5, <1>6 DEF TickOf, Clock
<1>12. Multiple(0, TickDur) /\ Multiple(TickDur, TickDur)
  BY <1>2 DEF Multiple
<1>13. ClockOK
  BY <1>6, <1>8, <1>11, <1>12 DEF ClockOK
<1>14. \A s \in Slots : Exp(s) = Unset /\ In(s) = << >> /\ PlacesIn(s) = {}
  <2> SUFFICES ASSUME NEW s \in Slots PROVE Exp(s) = Unset /\ In(s) = << >> /\ PlacesIn(s) = {}
    OBVIOUS
  <2>1. SlotAt(s) = EmptySlot
    BY <1>5, <1>6 DEF Slots, SlotAt
  <2> QED BY <2>1 DEF Exp, In, PlacesIn, EmptySlot
<1>15. SlotOK /\ PopOK /\ AddOK
  BY <1>8, <1>14 DEF SlotOK, PopOK, AddOK, Popping, Emptying
<1>16. PlaceOK
  BY <1>8, <1>14 DEF PlaceOK, Waiting
<1>17. Nodes = {} /\ \A s \in Slots : ~Queued(s)
  BY <1>8, <1>14 DEF Nodes, Queued
<1>18. QueueOK /\ HeapOK
  BY <1>8, <1>17 DEF QueueOK, HeapOK
<1> QED BY <1>9, <1>10, <1>13, <1>15, <1>16, <1>18 DEF WheelInv

(* However tasks are added, the clock read and the wheel advanced, clocks, *)
(* slots, tasks and heap stay in the order that WheelInv states.           *)
THEOREM WheelIsInductive == WheelSpec => []WheelInv
<1>1. WheelInit => WheelInv
  BY WheelInvInit
<1>2. WheelInv /\ [WheelNext]_wheelVars => WheelInv'
  <2> SUFFICES ASSUME WheelInv, [WheelNext]_wheelVars PROVE WheelInv'
    OBVIOUS
  <2>1. /\ WheelTypeOK /\ PcOK /\ ClockOK /\ SlotOK /\ PopOK /\ AddOK
        /\ PlaceOK /\ QueueOK /\ HeapOK
    BY DEF WheelInv
  <2>2. WheelTypeOK' /\ PcOK'
    BY <2>1, TypeStep, PcStep
  <2>3. ClockOK' /\ SlotOK'
    BY <2>1, ClockStep, SlotStep
  <2>4. PopOK' /\ AddOK'
    BY <2>1, PopStep, AddStep
  <2>5. PlaceOK'
    BY <2>1, PlaceStep
  <2>6. QueueOK' /\ HeapOK'
    BY <2>1, QueueStep
  <2> QED BY <2>2, <2>3, <2>4, <2>5, <2>6 DEF WheelInv
<1> QED BY <1>1, <1>2, PTL DEF WheelSpec

-----------------------------------------------------------------------------
(* What follows for an advance                                             *)

LEMMA AddingIsNowhere ==
    ASSUME PlaceOK, wpc = "add", NEW s \in Slots, NEW n \in PlacesIn(s)
    PROVE  In(s)[n] # adding
BY DEF PlaceOK, Waiting

LEMMA AddingGoesBelow ==
    ASSUME WheelInv, WheelNext, wpc = "add", advancing,
           NEW s \in Slots', NEW n \in PlacesIn(s)', In(s)'[n] = adding
    PROVE  s[1] < popped[1]
<1>1. WheelTypeOK /\ PcOK /\ ClockOK /\ PopOK /\ AddOK /\ PlaceOK
  BY DEF WheelInv
<1>2. \A r \in Slots : In(r)' = In(r) => s # r
  <2> SUFFICES ASSUME NEW r \in Slots, In(r)' = In(r), s = r PROVE FALSE
    OBVIOUS
  <2>1. n \in PlacesIn(s) /\ In(s)[n] = adding /\ s \in Slots
    BY DEF PlacesIn
  <2> QED BY <1>1, <2>1, AddingIsNowhere
<1>3. FireTask \/ PutInSlot \/ GoToWheelAbove
  BY DEF WheelNext, AddTask, Calling, ShiftUp, Elapse, Begin, PopSlot, ShiftDown, MoveWheel,
         FlushSlot, AddAgain, Flushed, Return
<1>4. CASE FireTask
  <2>1. Slots' = Slots /\ In(s)' = In(s)
    BY <1>4, WheelsStay DEF FireTask
  <2> QED BY <1>2, <2>1
<1>5. CASE GoToWheelAbove
  <2>1. PICK v \in Levels : v = level
    BY <1>1, <1>5 DEF PcOK, GoToWheelAbove
  <2>2. CASE v = Len(wheels)
    <3>1. /\ \A r \in Slots : In(r)' = In(r)
          /\ \A r \in Slots' \ Slots : In(r)' = << >>
      BY <1>1, <1>5, <2>1, <2>2, GrowChanges
    <3>2. In(s)' = << >>
      BY <1>2, <3>1
    <3> QED BY <3>2 DEF PlacesIn
  <2>3. CASE v # Len(wheels)
    <3>1. UNCHANGED wheels
      BY <1>1, <1>5, <2>1, <2>3, WheelTypes DEF GoToWheelAbove, Levels
    <3>2. Slots' = Slots /\ In(s)' = In(s)
      BY <3>1, WheelsStay
    <3> QED BY <1>2, <3>2
  <2> QED BY <2>2, <2>3
<1>6. CASE PutInSlot
  <2>1. /\ Slots' = Slots
        /\ \A r \in Slots : r # Target => In(r)' = In(r)
    BY <1>1, <1>6, PutChanges
  <2>2. s = Target
    BY <1>2, <2>1
  <2>3. Target[1] = level /\ level < popped[1]
    BY <1>1, <1>6, PutBelow, TargetTypes DEF PutInSlot
  <2> QED BY <2>2, <2>3
<1> QED BY <1>3, <1>4, <1>5, <1>6

LEMMA QueuedHasTasks ==
    ASSUME WheelInv, delay_queue # << >>
    PROVE  First \in Slots /\ Exp(First) # Unset /\ TasksAt(First) # {}
<1>1. WheelTypeOK /\ SlotOK /\ QueueOK
  BY DEF WheelInv
<1>2. PICK s \in Slots : s = First /\ Exp(s) # Unset
  <2>1. First = delay_queue[1] /\ 1 \in Nodes /\ First \in Slots
    BY <1>1, NodeTypes
  <2> QED BY <1>1, <2>1 DEF QueueOK, Queued
<1>3. In(s) \in Seq(Tasks) /\ In(s) # << >>
  BY <1>1, <1>2, SlotTypes DEF SlotOK
<1>4. 1 \in DOMAIN In(s)
  BY <1>3
<1>5. TasksAt(s) # {}
  BY <1>4 DEF TasksAt, In
<1> QED BY <1>2, <1>5

(* FlushMovesDown: every slot that tmwheel_advance_clock pops has a task,  *)
(* and what flush_slot adds again fires or lands in a lower wheel, so the  *)
(* loops of an advance end.                                                *)
THEOREM FlushGoesDown == WheelSpec => FlushMovesDown
<1>1. ASSUME WheelInv, [WheelNext]_wheelVars
      PROVE  [/\ wpc = "add" /\ advancing =>
                    \A s \in Slots' : adding \in TasksAt(s)' => s[1] < popped[1]
              /\ popped' # popped /\ wpc = "ready" => TasksAt(First) # {}]_wheelVars
  <2> SUFFICES ASSUME WheelNext
               PROVE  /\ wpc = "add" /\ advancing =>
                           \A s \in Slots' : adding \in TasksAt(s)' => s[1] < popped[1]
                      /\ popped' # popped /\ wpc = "ready" => TasksAt(First) # {}
    BY <1>1
  <2>1. ASSUME wpc = "add", advancing, NEW s \in Slots', adding \in TasksAt(s)'
        PROVE  s[1] < popped[1]
    <3>1. PICK n \in DOMAIN In(s)' : In(s)'[n] = adding
      BY <2>1 DEF TasksAt, In
    <3>2. WheelTypeOK'
      BY <1>1, TypeStep DEF WheelInv
    <3>3. In(s)' \in Seq(Tasks)
      <4>1. wheels' \in Seq(WheelStates) /\ s[1] \in 1 .. Len(wheels') /\ s[2] \in 0 .. WheelSize - 1
        BY <2>1, <3>2 DEF WheelTypeOK, Slots
      <4>2. wheels'[s[1]] \in WheelStates
        BY <4>1
      <4>3. wheels'[s[1]].slots[s[2]] \in SlotStates
        BY <4>1, <4>2 DEF WheelStates
      <4> QED BY <4>3 DEF In, SlotAt, SlotStates
    <3>4. n \in PlacesIn(s)'
      BY <3>1, <3>3 DEF PlacesIn
    <3> QED BY <1>1, <2>1, <3>1, <3>4, AddingGoesBelow
  <2>2. ASSUME popped' # popped, wpc = "ready" PROVE TasksAt(First) # {}
    <3>1. PopSlot
      BY <2>2 DEF WheelNext, AddTask, FireTask, PutInSlot, GoToWheelAbove, ShiftUp, Elapse, Begin,
             ShiftDown, MoveWheel, FlushSlot, AddAgain, Flushed, Return, locals
    <3>2. delay_queue # << >>
      BY <3>1 DEF PopSlot, Expired
    <3> QED BY <1>1, <3>2, QueuedHasTasks
  <2> QED BY <2>1, <2>2
<1>2. WheelSpec => []WheelInv
  BY WheelIsInductive
<1> QED BY <1>1, <1>2, PTL DEF WheelSpec, FlushMovesDown

-----------------------------------------------------------------------------
(* The queue of deadlines                                                  *)

Unfired == {t \in Tasks : InWheel[t] # Unset /\ t \notin fired}

LEMMA MappedStays ==
    ASSUME InWheel' = InWheel, UNCHANGED <<now, fired, advancing, delay>>
    PROVE  UNCHANGED Deadlines!vars
BY DEF Deadlines!vars, Unset

LEMMA InWheelNow ==
    /\ wpc = "add" /\ ~advancing => InWheel = [expiration EXCEPT ![adding] = Unset]
    /\ wpc # "add" \/ advancing => InWheel = expiration
BY DEF InWheel

(* What add_task_to_wheel gives to the callback is due.                    *)
LEMMA PassedIsDue ==
    ASSUME WheelTypeOK, PcOK, ClockOK, AddOK, wpc = "add", Passed
    PROVE  Floor(expiration[adding], TickDur) <= now
<1>1. level \in Levels /\ expiration[adding] # Unset /\ adding \in Tasks
  BY DEF PcOK, AddOK
<1>2. PICK e \in Nat : e = expiration[adding]
  BY <1>1, WheelAssumption DEF WheelTypeOK
<1>3. 1 \in Levels /\ TickOf(1) = TickDur /\ Clock(1) <= now /\ Multiple(Clock(1), TickOf(1))
  BY DEF ClockOK
<1>4. PICK v \in Levels : v = level /\ v \in Nat \ {0}
  BY <1>1, WheelTypes
<1>5. PICK c \in Nat, k \in Nat \ {0} : c = Clock(v) /\ k = TickOf(v) /\ e < c + k
  BY <1>2, <1>4, WheelTypes DEF Passed, Wheel, Clock, TickOf
<1>6. v = 1
  <2>1. ~(v > 1)
    BY <1>2, <1>4, <1>5 DEF AddOK
  <2> QED BY <1>4, <2>1
<1>7. c <= now /\ k = TickDur /\ Multiple(c, k)
  BY <1>3, <1>5, <1>6
<1>8. PICK f \in Nat : f = Floor(e, k) /\ f <= e /\ Multiple(f, k)
  BY Floors
<1>9. ~(c < f)
  <2> SUFFICES ASSUME c < f PROVE FALSE
    OBVIOUS
  <2>1. c + k <= f
    BY <1>7, <1>8, Apart
  <2> QED BY <1>5, <1>8, <2>1
<1>10. now \in Nat
  BY WheelAssumption DEF WheelTypeOK
<1> QED BY <1>2, <1>7, <1>8, <1>9, <1>10

LEMMA MappedInit == ASSUME WheelInit PROVE Deadlines!Init
<1>1. InWheel = expiration
  BY InWheelNow DEF WheelInit
<1>2. Unfired = {}
  BY <1>1 DEF WheelInit, Unfired
<1> QED BY <1>1, <1>2 DEF WheelInit, Deadlines!Init, Unfired, Unset, Deadlines!None

LEMMA MappedAdd ==
    ASSUME WheelInv, wpc = "add", ~advancing, FireTask \/ PutInSlot
    PROVE  Deadlines!Next
<1>1. WheelTypeOK /\ PcOK /\ ClockOK /\ AddOK
  BY DEF WheelInv
<1>2. PICK t \in Tasks : t = adding
  BY <1>1 DEF AddOK
<1>3. PICK e \in Times : e = expiration[t] /\ e # Unset
  BY <1>1, <1>2 DEF AddOK, WheelTypeOK
<1>4. t \notin fired /\ expiration \in [Tasks -> Times \union {Unset}] /\ fired \subseteq Tasks
  BY <1>1, <1>2 DEF AddOK, WheelTypeOK
<1>5. UNCHANGED <<now, expiration, advancing, delay>> /\ wpc' # "add"
  BY DEF FireTask, PutInSlot, Added
<1>6. InWheel = [expiration EXCEPT ![t] = Unset]
  BY <1>2, InWheelNow
<1>7. InWheel' = expiration
  BY <1>5 DEF InWheel
<1>8. InWheel[t] = Unset /\ InWheel' = [InWheel EXCEPT ![t] = e]
  BY <1>3, <1>4, <1>6, <1>7
<1>9. Unfired = {u \in Tasks : u # t /\ expiration[u] # Unset /\ u \notin fired}
  BY <1>4, <1>6 DEF Unfired
<1>10. Unfired' = {u \in Tasks : expiration[u] # Unset /\ u \notin fired'}
  BY <1>7 DEF Unfired, Unset
<1>11. CASE PutInSlot
  <2>1. fired' = fired
    BY <1>11 DEF PutInSlot
  <2>2. Unfired' = Unfired \union {t}
    BY <1>3, <1>4, <1>9, <1>10, <2>1
  <2>3. Deadlines!Add(t, e)
    BY <1>5, <1>8, <2>1, <2>2 DEF Deadlines!Add, Unfired, Unset, Deadlines!None
  <2> QED BY <2>3 DEF Deadlines!Next
<1>12. CASE FireTask
  <2>1. fired' = fired \union {t} /\ Passed
    BY <1>2, <1>12 DEF FireTask
  <2>2. Unfired' = Unfired
    BY <1>4, <1>9, <1>10, <2>1
  <2>3. Floor(expiration[t], TickDur) <= now
    BY <1>1, <1>2, <2>1, PassedIsDue
  <2>4. Deadlines!Due(t)'
    BY <1>5, <1>7, <2>3 DEF Deadlines!Due, Floor
  <2>5. Deadlines!Add(t, e)
    BY <1>5, <1>8, <2>1, <2>2, <2>4 DEF Deadlines!Add, Unfired, Unset, Deadlines!None
  <2> QED BY <2>5 DEF Deadlines!Next
<1> QED BY <1>11, <1>12

LEMMA MappedFire ==
    ASSUME WheelInv, advancing, FireTask
    PROVE  Deadlines!Next
<1>1. WheelTypeOK /\ PcOK /\ ClockOK /\ AddOK
  BY DEF WheelInv
<1>2. wpc = "add" /\ Passed
  BY DEF FireTask
<1>3. PICK t \in Tasks : t = adding /\ expiration[t] # Unset /\ t \notin fired
  BY <1>1, <1>2 DEF AddOK
<1>4. /\ UNCHANGED <<now, expiration, advancing, delay>>
      /\ fired' = fired \union {t}
  BY <1>3 DEF FireTask
<1>5. InWheel = expiration /\ InWheel' = expiration
  BY <1>4 DEF InWheel
<1>6. Unfired = {u \in Tasks : expiration[u] # Unset /\ u \notin fired}
  BY <1>5 DEF Unfired
<1>7. Unfired' = {u \in Tasks : expiration[u] # Unset /\ u \notin fired'}
  BY <1>5 DEF Unfired, Unset
<1>8. Unfired' = Unfired \ {t} /\ {t} \in SUBSET Unfired
  BY <1>3, <1>4, <1>6, <1>7
<1>9. Floor(expiration[t], TickDur) <= now
  BY <1>1, <1>2, <1>3, PassedIsDue
<1>10. Deadlines!Due(t)
  BY <1>5, <1>9 DEF Deadlines!Due, Floor
<1>11. Deadlines!Fire({t})
  BY <1>4, <1>5, <1>8, <1>10 DEF Deadlines!Fire, Unfired, Unset
<1> QED BY <1>8, <1>11 DEF Deadlines!Next, Unfired, Unset, Deadlines!None

(* When no slot has expired, no task is due before the first slot is.      *)
LEMMA FirstIsBefore ==
    ASSUME WheelInv, Return, NEW t \in Tasks, Waiting(t)
    PROVE  /\ delay_queue # << >>
           /\ Exp(First) \in Nat /\ now < Exp(First) /\ Exp(First) <= Floor(expiration[t], TickDur)
           /\ expiration[t] \in Nat /\ Floor(expiration[t], TickDur) <= expiration[t]
<1>1. WheelTypeOK /\ PcOK /\ ClockOK /\ SlotOK /\ PlaceOK /\ QueueOK /\ HeapOK
  BY DEF WheelInv
<1>2. wpc = "ready" /\ ~Expired
  BY DEF Return
<1>3. PICK s \in Slots : \E n \in PlacesIn(s) : In(s)[n] = t
  BY <1>1 DEF PlaceOK
<1>4. PICK n \in PlacesIn(s) : In(s)[n] = t
  BY <1>3
<1>5. Floor(expiration[t], TickOf(s[1])) = Exp(s)
  BY <1>1, <1>2, <1>4 DEF PlaceOK, Begins, Emptying
<1>6. PICK e \in Nat : e = expiration[t]
  BY WheelAssumption, <1>1 DEF WheelTypeOK, Waiting
<1>7. PICK k \in Nat \ {0} : k = TickOf(s[1]) /\ s[1] \in Levels /\ s[1] \in Nat \ {0}
  BY SlotTypes, WheelTypes, <1>1
<1>8. PICK b \in Nat : b = Exp(s) /\ b <= e /\ Multiple(b, k)
  BY <1>5, <1>6, <1>7, Floors
<1>9. PICK j \in Nat \ {0} : j = TickDur
  BY WheelAssumption
<1>10. Multiple(b, j)
  <2>1. Multiple(k, j)
    BY <1>1, <1>7, <1>9 DEF ClockOK
  <2> QED BY <1>8, <2>1, MultipleThrough
<1>11. PICK f \in Nat : f = Floor(e, j) /\ f <= e /\ e < f + j /\ Multiple(f, j)
  BY Floors
<1>12. b <= f
  <2> SUFFICES ASSUME f < b PROVE FALSE
    OBVIOUS
  <2>1. f + j <= b
    BY <1>10, <1>11, Apart
  <2> QED BY <1>8, <1>11, <2>1
<1>13. Exp(s) # Unset
  BY <1>8 DEF Unset
<1>14. delay_queue # << >>
  <2>1. Queued(s)
    BY <1>2, <1>13 DEF Queued, Popping
  <2>2. PICK i \in Nodes : delay_queue[i] = s
    BY <1>1, <2>1 DEF QueueOK
  <2> QED BY <2>2 DEF Nodes
<1>15. Exp(First) \in Nat /\ Exp(First) <= b
  BY <1>1, <1>2, <1>8, <1>13, <1>14, FirstIsLeast
<1>16. now < Exp(First)
  <2>1. now \in Nat
    BY <1>1, WheelAssumption DEF WheelTypeOK
  <2> QED BY <1>2, <1>14, <1>15, <2>1 DEF Expired, Exp
<1> QED BY <1>6, <1>9, <1>11, <1>12, <1>14, <1>15, <1>16

LEMMA MappedReturn == ASSUME WheelInv, Return PROVE Deadlines!Next
<1>1. WheelTypeOK /\ PcOK /\ SlotOK /\ PlaceOK /\ QueueOK
  BY DEF WheelInv
<1>2. /\ wpc = "ready" /\ advancing /\ advancing' = FALSE
      /\ UNCHANGED <<now, expiration, fired, wpc>>
  BY DEF Return, locals
<1>3. InWheel = expiration /\ InWheel' = expiration
  BY <1>2 DEF InWheel
<1>4. Unfired = {t \in Tasks : Waiting(t)}
  BY <1>2, <1>3 DEF Unfired, Waiting
<1>5. Unfired' = Unfired
  BY <1>2, <1>3 DEF Unfired, Unset
<1>6. PICK n \in Nat : n = now
  BY <1>1, WheelAssumption DEF WheelTypeOK
<1>7. ASSUME NEW t \in Unfired PROVE ~Deadlines!Due(t)
  <2>1. t \in Tasks /\ Waiting(t)
    BY <1>4
  <2>2. PICK x \in Nat : x = Exp(First) /\ n < x /\ x <= Floor(expiration[t], TickDur)
    BY <1>6, <2>1, FirstIsBefore
  <2>3. Floor(expiration[t], TickDur) \in Nat
    BY <2>1, WheelAssumption, Floors, FirstIsBefore
  <2>4. ~(Floor(expiration[t], TickDur) <= n)
    BY <2>2, <2>3
  <2> QED BY <1>3, <1>6, <2>4 DEF Deadlines!Due, Floor
<1>8. CASE Unfired = {}
  <2>1. delay_queue = << >>
    <3> SUFFICES ASSUME delay_queue # << >> PROVE FALSE
      OBVIOUS
    <3>1. First \in Slots /\ Exp(First) # Unset
      BY QueuedHasTasks
    <3>2. PICK s \in Slots : s = First /\ In(s) # << >> /\ In(s) \in Seq(Tasks)
      BY <1>1, <3>1, SlotTypes DEF SlotOK
    <3>3. 1 \in PlacesIn(s) /\ In(s)[1] \in Tasks
      BY <3>2 DEF PlacesIn
    <3>4. Waiting(In(s)[1])
      BY <1>1, <3>3 DEF PlaceOK
    <3> QED BY <1>4, <1>8, <3>3, <3>4
  <2>2. delay' = 0
    BY <2>1 DEF Return
  <2>3. Deadlines!Return
    BY <1>2, <1>3, <1>5, <1>7, <1>8, <2>2 DEF Deadlines!Return, Unfired, Unset
  <2> QED BY <2>3 DEF Deadlines!Next
<1>9. CASE Unfired # {}
  <2>1. PICK u \in Tasks : u \in Unfired /\ Waiting(u)
    BY <1>4, <1>9
  <2>2. delay_queue # << >>
    BY <2>1, FirstIsBefore
  <2>3. PICK x \in Nat : x = Exp(First) /\ n < x
    BY <1>6, <2>1, FirstIsBefore
  <2>4. delay' = x - n
    BY <1>6, <2>2, <2>3 DEF Return, Exp
  <2>5. PICK d \in Nat \ {0} : d = delay' /\ n + d = x
    BY <2>3, <2>4
  <2>6. ASSUME NEW t \in Unfired PROVE now + delay' <= expiration[t]
    <3>1. t \in Tasks /\ Waiting(t)
      BY <1>4
    <3>2. PICK e \in Nat : e = expiration[t]
      BY <3>1, FirstIsBefore
    <3>3. PICK f \in Nat : f = Floor(e, TickDur) /\ f <= e
      BY WheelAssumption, Floors
    <3>4. x <= f
      BY <2>3, <3>1, <3>2, <3>3, FirstIsBefore
    <3>5. x <= e /\ now + delay' = x
      BY <1>6, <2>3, <2>5, <3>2, <3>3, <3>4
    <3> QED BY <3>2, <3>5
  <2>7. Deadlines!Return
    BY <1>2, <1>3, <1>5, <1>7, <1>9, <2>5, <2>6 DEF Deadlines!Return, Unfired, Unset
  <2> QED BY <2>7 DEF Deadlines!Next
<1> QED BY <1>8, <1>9

LEMMA MappedStep ==
    ASSUME WheelInv, [WheelNext]_wheelVars
    PROVE  Deadlines!Next \/ UNCHANGED Deadlines!vars
<1>1. WheelTypeOK /\ PcOK
  BY DEF WheelInv
<1>2. ASSUME UNCHANGED <<now, expiration, fired, advancing, delay>>,
             advancing \/ wpc # "add", advancing' \/ wpc' # "add"
      PROVE  UNCHANGED Deadlines!vars
  <2>1. InWheel' = InWheel
    BY <1>2 DEF InWheel
  <2> QED BY <1>2, <2>1, MappedStays
<1>3. ASSUME NEW t \in Tasks, NEW e \in Times, AddTask(t, e) PROVE UNCHANGED Deadlines!vars
  <2>1. /\ wpc = "ready" /\ ~advancing /\ expiration[t] = Unset /\ wpc' = "add" /\ adding' = t
        /\ expiration' = [expiration EXCEPT ![t] = e] /\ UNCHANGED <<now, fired, advancing, delay>>
    BY <1>3 DEF AddTask, Calling
  <2>2. expiration \in [Tasks -> Times \union {Unset}]
    BY <1>1 DEF WheelTypeOK
  <2>3. InWheel = expiration
    BY <2>1 DEF InWheel
  <2>4. InWheel' = [expiration' EXCEPT ![t] = Unset]
    BY <2>1 DEF InWheel, Unset
  <2>5. InWheel' = expiration
    BY <2>1, <2>2, <2>4
  <2> QED BY <2>1, <2>3, <2>5, MappedStays
<1>4. CASE FireTask
  <2>1. wpc = "add"
    BY <1>4 DEF FireTask
  <2> QED BY <1>4, <2>1, MappedAdd, MappedFire
<1>5. CASE PutInSlot
  <2>1. /\ wpc = "add" /\ UNCHANGED <<now, expiration, fired, advancing, delay>>
    BY <1>5 DEF PutInSlot
  <2> QED BY <1>2, <1>5, <2>1, MappedAdd
<1>6. CASE GoToWheelAbove
  <2>1. UNCHANGED <<now, expiration, fired, advancing, delay, wpc, adding>>
    BY <1>6 DEF GoToWheelAbove
  <2>2. InWheel' = InWheel
    BY <2>1 DEF InWheel, Unset
  <2> QED BY <2>1, <2>2, MappedStays
<1>7. CASE ShiftUp
  BY <1>2, <1>7 DEF ShiftUp, Added
<1>8. CASE Elapse
  <2>1. /\ wpc = "ready" /\ wpc' = "ready" /\ ~advancing /\ now' \in {n \in Times : n > now}
        /\ UNCHANGED <<expiration, fired, advancing, delay>>
    BY <1>8 DEF Elapse, Calling, locals
  <2>2. InWheel' = InWheel
    BY <2>1 DEF InWheel
  <2>3. Unfired' = Unfired
    BY <2>1, <2>2 DEF Unfired, Unset
  <2>4. Deadlines!Elapse
    BY <2>1, <2>2, <2>3 DEF Deadlines!Elapse, Unfired, Unset
  <2> QED BY <2>4 DEF Deadlines!Next
<1>9. CASE Begin
  <2>1. /\ wpc = "ready" /\ wpc' = "ready" /\ ~advancing /\ advancing' = TRUE /\ delay' = 0
        /\ UNCHANGED <<now, expiration, fired>>
    BY <1>9 DEF Begin, Calling, locals
  <2>2. InWheel' = InWheel
    BY <2>1 DEF InWheel
  <2>3. Unfired' = Unfired
    BY <2>1, <2>2 DEF Unfired, Unset
  <2>4. Deadlines!Begin
    BY <2>1, <2>2, <2>3 DEF Deadlines!Begin, Unfired, Unset
  <2> QED BY <2>4 DEF Deadlines!Next
<1>10. CASE PopSlot
  BY <1>2, <1>10 DEF PopSlot
<1>11. CASE ShiftDown
  BY <1>2, <1>11 DEF ShiftDown
<1>12. CASE MoveWheel
  BY <1>2, <1>12 DEF MoveWheel
<1>13. CASE FlushSlot
  BY <1>2, <1>13 DEF FlushSlot
<1>14. CASE AddAgain
  BY <1>1, <1>2, <1>14 DEF AddAgain, PcOK
<1>15. CASE Flushed
  BY <1>2, <1>15 DEF Flushed
<1>16. CASE Return
  BY <1>16, MappedReturn
<1>17. CASE UNCHANGED wheelVars
  <2>1. UNCHANGED <<now, expiration, fired, advancing, delay, wpc, adding>>
    BY <1>17 DEF wheelVars, locals
  <2>2. InWheel' = InWheel
    BY <2>1 DEF InWheel, Unset
  <2> QED BY <2>1, <2>2, MappedStays
<1> QED BY <1>3, <1>4, <1>5, <1>6, <1>7, <1>8, <1>9, <1>10, <1>11, <1>12, <1>13, <1>14, <1>15,
           <1>16, <1>17 DEF WheelNext

(* ImplementsDeadlines: with its overflow wheels, its lagging clocks and   *)
(* its heap of slots, the wheel is a queue of deadlines: an advance fires  *)
(* what is due and nothing else, and the time it answers is not past the   *)
(* next deadline.                                                          *)
THEOREM WheelKeepsDeadlines == WheelSpec => ImplementsDeadlines
<1>1. WheelInit => Deadlines!Init
  BY MappedInit
<1>2. WheelInv /\ [WheelNext]_wheelVars => [Deadlines!Next]_Deadlines!vars
  BY MappedStep
<1>3. WheelSpec => []WheelInv
  BY WheelIsInductive
<1> QED BY <1>1, <1>2, <1>3, PTL DEF WheelSpec, ImplementsDeadlines, Deadlines!Spec
=============================================================================
