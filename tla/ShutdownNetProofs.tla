------------------------- MODULE ShutdownNetProofs --------------------------
(***************************************************************************)
(* What holds of the logger and of shutdown for any number of threads that *)
(* log, loop threads and external threads, and of a slot of the socket     *)
(* pool for any number of connections, bytes and sends.                    *)
(*                                                                         *)
(* A record is followed by counting: LogInv says of every id in how many   *)
(* places it is, each step of the logger or of a sender takes it from one  *)
(* place and puts it in another, and unAddMsgNum is what is queued but for *)
(* what is not yet counted.                                                *)
(*                                                                         *)
(* The slot is shared by position: nearly every request and notification   *)
(* names a connection the slot may have left by the time it is looked at.  *)
(* NetInv says which of them can still be on the way in which phase of a   *)
(* connection, what each may come behind, and that a read is in one place. *)
(***************************************************************************)
EXTENDS Shutdown, Net, FiniteSetTheorems, SequenceTheorems, TLAPS

----------------------------------------------------------------------------
(* How often a value occurs in a sequence                                  *)

Occurs(q, v) == {n \in 1 .. Len(q) : q[n] = v}
Count(q, v)  == Cardinality(Occurs(q, v))

LEMMA CountType ==
    ASSUME NEW S, NEW q \in Seq(S), NEW v
    PROVE  IsFiniteSet(Occurs(q, v)) /\ Count(q, v) \in Nat
<1>1. Len(q) \in Nat OBVIOUS
<1>2. IsFiniteSet(1 .. Len(q)) BY <1>1, FS_Interval
<1> QED BY <1>2, FS_Subset, FS_CardinalityType DEF Occurs, Count

LEMMA CountEmpty == \A v : Count(<< >>, v) = 0
BY FS_EmptySet DEF Count, Occurs

LEMMA CountAppend ==
    ASSUME NEW S, NEW q \in Seq(S), NEW e \in S, NEW v
    PROVE  Count(Append(q, e), v) = Count(q, v) + (IF e = v THEN 1 ELSE 0)
<1>1. Len(q) \in Nat /\ Len(Append(q, e)) = Len(q) + 1 OBVIOUS
<1>2. \A n \in 1 .. Len(q) : Append(q, e)[n] = q[n] OBVIOUS
<1>3. Append(q, e)[Len(q) + 1] = e OBVIOUS
<1>4. Len(q) + 1 \notin Occurs(q, v) BY <1>1 DEF Occurs
<1>5. CASE e = v
  <2>1. Occurs(Append(q, e), v) = Occurs(q, v) \union {Len(q) + 1}
    BY <1>1, <1>2, <1>3, <1>5 DEF Occurs
  <2> QED BY <1>4, <1>5, <2>1, CountType, FS_AddElement DEF Count
<1>6. CASE e # v
  <2>1. Occurs(Append(q, e), v) = Occurs(q, v)
    BY <1>1, <1>2, <1>3, <1>6 DEF Occurs
  <2> QED BY <1>6, <2>1, CountType DEF Count
<1> QED BY <1>5, <1>6

LEMMA AppendIds ==
    \A q \in Seq(Nat), e \in Nat :
        /\ Append(q, e) \in Seq(Nat) /\ Len(Append(q, e)) = Len(q) + 1
        /\ \A v : Count(Append(q, e), v) = Count(q, v) + (IF e = v THEN 1 ELSE 0)
<1>1. \A q \in Seq(Nat), e \in Nat :
        Append(q, e) \in Seq(Nat) /\ Len(Append(q, e)) = Len(q) + 1
  OBVIOUS
<1>2. \A q \in Seq(Nat), e \in Nat : \A v :
        Count(Append(q, e), v) = Count(q, v) + (IF e = v THEN 1 ELSE 0)
  BY CountAppend
<1> QED BY <1>1, <1>2

(* r is q without its entry at k. *)
Without(q, k, r) ==
    /\ Len(r) = Len(q) - 1
    /\ \A n \in 1 .. Len(r) : r[n] = IF n < k THEN q[n] ELSE q[n + 1]

LEMMA CountWithout ==
    ASSUME NEW S, NEW q \in Seq(S), NEW r \in Seq(S), NEW k \in 1 .. Len(q), Without(q, k, r),
           NEW v
    PROVE  Count(r, v) = Count(q, v) - (IF q[k] = v THEN 1 ELSE 0)
<1>0. Len(q) \in Nat /\ Len(r) \in Nat /\ k \in Nat OBVIOUS
<1> DEFINE A == Occurs(q, v) \ {k}
           f == [n \in A |-> IF n < k THEN n ELSE n - 1]
<1>1. IsFiniteSet(A) /\ Cardinality(A) = Count(q, v) - (IF q[k] = v THEN 1 ELSE 0)
  <2>1. k \in Occurs(q, v) <=> q[k] = v BY DEF Occurs
  <2> QED BY <2>1, CountType, FS_RemoveElement DEF Count
<1>2. \A n \in A : n \in 1 .. Len(q) /\ n # k /\ q[n] = v BY DEF Occurs
<1>3. f \in [A -> Occurs(r, v)]
  <2> SUFFICES ASSUME NEW n \in A PROVE f[n] \in Occurs(r, v)
    OBVIOUS
  <2>1. n \in 1 .. Len(q) /\ n # k /\ q[n] = v BY <1>2
  <2>2. CASE n < k
    <3>1. f[n] = n /\ n \in 1 .. Len(r) BY <1>0, <2>1, <2>2 DEF Without
    <3> QED BY <2>1, <2>2, <3>1 DEF Without, Occurs
  <2>3. CASE ~(n < k)
    <3>1. f[n] = n - 1 /\ n - 1 \in 1 .. Len(r) /\ ~(n - 1 < k) /\ (n - 1) + 1 = n
      BY <1>0, <2>1, <2>3 DEF Without
    <3>2. r[n - 1] = q[(n - 1) + 1] BY <3>1 DEF Without
    <3> QED BY <2>1, <3>1, <3>2 DEF Occurs
  <2> QED BY <2>2, <2>3
<1>4. \A m, n \in A : f[m] = f[n] => m = n
  BY <1>0, <1>2
<1>5. \A m \in Occurs(r, v) : \E n \in A : f[n] = m
  <2> SUFFICES ASSUME NEW m \in Occurs(r, v) PROVE \E n \in A : f[n] = m
    OBVIOUS
  <2>1. m \in 1 .. Len(r) /\ r[m] = v BY DEF Occurs
  <2>2. CASE m < k
    <3>1. m \in A /\ f[m] = m BY <1>0, <2>1, <2>2 DEF Without, Occurs
    <3> QED BY <3>1
  <2>3. CASE ~(m < k)
    <3>1. m + 1 \in 1 .. Len(q) /\ m + 1 # k /\ ~(m + 1 < k) /\ q[m + 1] = v
      BY <1>0, <2>1, <2>3 DEF Without
    <3>2. m + 1 \in A /\ f[m + 1] = (m + 1) - 1 BY <3>1 DEF Occurs
    <3>3. (m + 1) - 1 = m BY <1>0, <2>1
    <3> QED BY <3>2, <3>3
  <2> QED BY <2>2, <2>3
<1>6. f \in Bijection(A, Occurs(r, v))
  BY <1>3, <1>4, <1>5 DEF Bijection, Injection, Surjection, IsInjective
<1> HIDE DEF A, f
<1>7. Cardinality(Occurs(r, v)) = Cardinality(A)
  BY <1>1, <1>6, FS_Bijection DEF ExistsBijection
<1> QED BY <1>1, <1>7 DEF Count

LEMMA CountTail ==
    ASSUME NEW S, NEW q \in Seq(S), q # << >>, NEW v
    PROVE  Count(Tail(q), v) = Count(q, v) - (IF Head(q) = v THEN 1 ELSE 0)
<1>1. Tail(q) \in Seq(S) /\ 1 \in 1 .. Len(q) /\ Head(q) = q[1] OBVIOUS
<1>2. Without(q, 1, Tail(q)) BY DEF Without
<1>3. \A r \in Seq(S), k \in 1 .. Len(q) : Without(q, k, r)
        => Count(r, v) = Count(q, v) - (IF q[k] = v THEN 1 ELSE 0)
  BY CountWithout
<1>4. Count(Tail(q), v) = Count(q, v) - (IF q[1] = v THEN 1 ELSE 0)
  BY <1>1, <1>2, <1>3
<1> QED BY <1>1, <1>4

LEMMA ConcatType ==
    ASSUME NEW S, NEW q \in Seq(S), NEW r \in Seq(S)
    PROVE  q \o r \in Seq(S) /\ Len(q \o r) = Len(q) + Len(r)
OBVIOUS

LEMMA RemoveAtEntries ==
    ASSUME NEW S, NEW q \in Seq(S), NEW k \in 1 .. Len(q)
    PROVE  RemoveAt(q, k) \in Seq(S) /\ Without(q, k, RemoveAt(q, k))
<1> DEFINE a == SubSeq(q, 1, k - 1)
           b == SubSeq(q, k + 1, Len(q))
<1>0. Len(q) \in Nat /\ k \in Nat /\ k - 1 \in Nat OBVIOUS
<1>1. a \in Seq(S) /\ Len(a) = k - 1 /\ \A n \in 1 .. k - 1 : a[n] = q[n]
  BY <1>0
<1>2. b \in Seq(S) /\ Len(b) = Len(q) - k /\ \A n \in 1 .. Len(q) - k : b[n] = q[k + n]
  BY <1>0
<1> HIDE DEF a, b
<1>3. a \o b \in Seq(S) /\ Len(a \o b) = Len(a) + Len(b)
  BY <1>1, <1>2, ConcatType
<1>4. \A n \in 1 .. Len(a) : (a \o b)[n] = a[n]
  BY <1>1, <1>2
<1>5. \A n \in 1 .. Len(b) : (a \o b)[n + Len(a)] = b[n]
  BY <1>1, <1>2
<1>6. \A n \in 1 .. Len(q) - 1 : (a \o b)[n] = IF n < k THEN q[n] ELSE q[n + 1]
  <2> SUFFICES ASSUME NEW n \in 1 .. Len(q) - 1
               PROVE  (a \o b)[n] = IF n < k THEN q[n] ELSE q[n + 1]
    OBVIOUS
  <2>1. CASE n < k BY <2>1, <1>0, <1>1, <1>4
  <2>2. CASE ~(n < k)
    <3>1. /\ n - Len(a) \in 1 .. Len(b) /\ n - Len(a) \in 1 .. Len(q) - k
          /\ k + (n - Len(a)) = n + 1 /\ (n - Len(a)) + Len(a) = n
      BY <2>2, <1>0, <1>1, <1>2
    <3>2. (a \o b)[n] = b[n - Len(a)] BY <3>1, <1>5
    <3> QED BY <2>2, <3>1, <3>2, <1>2
  <2> QED BY <2>1, <2>2
<1>7. Len(a \o b) = Len(q) - 1 BY <1>0, <1>1, <1>2, <1>3
<1>8. RemoveAt(q, k) = a \o b BY DEF RemoveAt, a, b
<1> QED BY <1>3, <1>6, <1>7, <1>8 DEF Without

LEMMA CountConcat ==
    ASSUME NEW S, NEW q \in Seq(S), NEW r \in Seq(S), NEW v
    PROVE  Count(q \o r, v) = Count(q, v) + Count(r, v)
<1>0. /\ Len(q) \in Nat /\ Len(r) \in Nat /\ q \o r \in Seq(S)
      /\ Len(q \o r) = Len(q) + Len(r)
  OBVIOUS
<1>1. \A n \in 1 .. Len(q) : (q \o r)[n] = q[n] OBVIOUS
<1>2. \A n \in 1 .. Len(r) : (q \o r)[n + Len(q)] = r[n] OBVIOUS
<1> DEFINE B == {n \in Len(q) + 1 .. Len(q) + Len(r) : (q \o r)[n] = v}
           f == [n \in Occurs(r, v) |-> n + Len(q)]
<1>3. f \in [Occurs(r, v) -> B] BY <1>0, <1>2 DEF Occurs
<1>4. \A m, n \in Occurs(r, v) : f[m] = f[n] => m = n BY <1>0 DEF Occurs
<1>5. \A m \in B : \E n \in Occurs(r, v) : f[n] = m
  <2> SUFFICES ASSUME NEW m \in B PROVE \E n \in Occurs(r, v) : f[n] = m
    OBVIOUS
  <2>1. m - Len(q) \in 1 .. Len(r) /\ (m - Len(q)) + Len(q) = m BY <1>0
  <2>2. r[m - Len(q)] = v BY <2>1, <1>2
  <2> QED BY <2>1, <2>2 DEF Occurs
<1>6. f \in Bijection(Occurs(r, v), B)
  BY <1>3, <1>4, <1>5 DEF Bijection, Injection, Surjection, IsInjective
<1>7. Occurs(q \o r, v) = Occurs(q, v) \union B
  BY <1>0, <1>1 DEF Occurs
<1>8. Occurs(q, v) \intersect B = {} BY <1>0 DEF Occurs
<1> HIDE DEF B, f
<1>9. IsFiniteSet(B) /\ Cardinality(B) = Count(r, v)
  BY <1>6, CountType, FS_Bijection DEF ExistsBijection, Count
<1>a. IsFiniteSet(Occurs(q, v)) BY CountType
<1>b. Cardinality(Occurs(q, v) \intersect B) = 0 BY <1>8, FS_EmptySet
<1>c. Cardinality(Occurs(q, v) \union B)
        = Cardinality(Occurs(q, v)) + Cardinality(B) - Cardinality(Occurs(q, v) \intersect B)
  BY <1>9, <1>a, FS_Union
<1>10. Cardinality(Occurs(q, v) \union B) = Count(q, v) + Count(r, v) - 0
  BY <1>9, <1>b, <1>c DEF Count
<1>11. Count(q, v) \in Nat /\ Count(r, v) \in Nat BY CountType
<1> QED BY <1>7, <1>10, <1>11 DEF Count

----------------------------------------------------------------------------
(* The logger                                                              *)

LoggerPlaces == {"start", "barrier", "top", "mq", "wait", "idle", "test", "lock",
                 "asleep", "awake", "busy", "left", "exit", "end"}
SenderPlaces == {"out", "push", "count", "look", "notify"}

LogTypes ==
    /\ lpc \in LoggerPlaces
    /\ loop \in BOOLEAN /\ idle \in BOOLEAN /\ missed \in BOOLEAN
    /\ unAddMsgNum \in Int
    /\ mqMsg \in Seq(Nat) /\ plkMsgBak \in Seq(Nat) /\ plkWaitLog \in Seq(Nat)
    /\ it \in Nat \ {0} /\ idCnt \in Nat /\ addCnt \in Nat /\ msgIdCnt \in Nat
    /\ spc \in [Senders -> SenderPlaces] /\ sid \in [Senders -> Nat]

(* An id is in as many places as it was given: in one, or in none.         *)
Pushing(i)  == {s \in Senders : spc[s] = "push" /\ sid[s] = i}
Printed(i)  == IF i < idCnt THEN 1 ELSE 0
Given(i)    == IF i < msgIdCnt THEN 1 ELSE 0
OnePlace ==
    \A i \in Nat : Cardinality(Pushing(i)) + Count(mqMsg, i) + Count(plkMsgBak, i)
                     + Count(plkWaitLog, i) + Printed(i) = Given(i)

(* unAddMsgNum is what is queued and what has just been taken, but for the *)
(* records that their senders have queued and not yet counted.             *)
Counting == {s \in Senders : spc[s] = "count"}
Uncounted == unAddMsgNum = Len(mqMsg) + Len(plkMsgBak) + addCnt - Cardinality(Counting)
Added     == lpc \notin {"mq", "wait"} => addCnt = 0

(* idle is up from before the logger's test until it is awake, so whoever  *)
(* queues a record meanwhile sees it.                                      *)
IdleUp == idle <=> lpc \in {"test", "lock", "asleep", "awake", "busy"}
Queued == mqMsg # << >> \/ plkMsgBak # << >>
Rouser == \E s \in Senders : spc[s] \in {"count", "look", "notify"}
Roused == lpc \in {"lock", "asleep"} /\ Queued /\ ~missed /\ loop => Rouser

LogInv == LogTypes /\ OnePlace /\ Uncounted /\ Added /\ IdleUp /\ Roused

LEMMA SendersFinite ==
    /\ \A i : IsFiniteSet(Pushing(i)) /\ Cardinality(Pushing(i)) \in Nat
    /\ IsFiniteSet(Counting) /\ Cardinality(Counting) \in Nat
<1>1. IsFiniteSet(Senders) BY LoggerAssumption
<1>2. \A i : Pushing(i) \subseteq Senders BY DEF Pushing
<1>3. Counting \subseteq Senders BY DEF Counting
<1> QED BY <1>1, <1>2, <1>3, FS_Subset, FS_CardinalityType

LEMMA CountsAreNat ==
    ASSUME LogTypes
    PROVE  \A i : Count(mqMsg, i) \in Nat /\ Count(plkMsgBak, i) \in Nat
                  /\ Count(plkWaitLog, i) \in Nat
<1>1. mqMsg \in Seq(Nat) /\ plkMsgBak \in Seq(Nat) /\ plkWaitLog \in Seq(Nat)
  BY DEF LogTypes
<1> QED BY <1>1, CountType

LEMMA LogInit ==
    Init => LogInv
<1> SUFFICES ASSUME Init PROVE LogInv
  OBVIOUS
<1> USE DEF Init, LoggerInit
<1>a. mqMsg = << >> /\ plkMsgBak = << >> /\ plkWaitLog = << >> OBVIOUS
<1>b. spc \in [Senders -> SenderPlaces] /\ sid \in [Senders -> Nat] BY DEF SenderPlaces
<1>c. lpc \in LoggerPlaces BY DEF LoggerPlaces
<1>d. loop \in BOOLEAN /\ idle \in BOOLEAN /\ missed \in BOOLEAN BY Zenon
<1>g. /\ unAddMsgNum = 0 /\ it = 1 /\ idCnt = 0 /\ addCnt = 0 /\ msgIdCnt = 0
  BY Zenon
<1> HIDE DEF Init, LoggerInit
<1>e. << >> \in Seq(Nat) OBVIOUS
<1>f. mqMsg \in Seq(Nat) /\ plkMsgBak \in Seq(Nat) /\ plkWaitLog \in Seq(Nat)
  BY <1>a, <1>e, Zenon
<1>1. LogTypes BY <1>b, <1>c, <1>d, <1>f, <1>g DEF LogTypes
<1> USE DEF Init, LoggerInit
<1>2. OnePlace
  <2> SUFFICES ASSUME NEW i \in Nat
               PROVE  Cardinality(Pushing(i)) + Count(mqMsg, i) + Count(plkMsgBak, i)
                        + Count(plkWaitLog, i) + Printed(i) = Given(i)
    BY DEF OnePlace
  <2>1. Pushing(i) = {} BY DEF Pushing
  <2>2. Cardinality(Pushing(i)) = 0 BY <2>1, FS_EmptySet
  <2>3. Count(mqMsg, i) = 0 /\ Count(plkMsgBak, i) = 0 /\ Count(plkWaitLog, i) = 0
    BY CountEmpty
  <2> QED BY <2>2, <2>3 DEF Printed, Given
<1>3. Uncounted
  <2>1. Counting = {} BY DEF Counting
  <2>2. Cardinality(Counting) = 0 BY <2>1, FS_EmptySet
  <2>3. Len(mqMsg) = 0 /\ Len(plkMsgBak) = 0 OBVIOUS
  <2> QED BY <2>2, <2>3 DEF Uncounted
<1>4. Added /\ IdleUp /\ Roused BY DEF Added, IdleUp, Roused
<1> QED BY <1>1, <1>2, <1>3, <1>4 DEF LogInv

(* What a step leaves that touches no record and no count.                 *)
LogSteady == UNCHANGED <<mqMsg, plkMsgBak, plkWaitLog, it, idCnt, addCnt, msgIdCnt,
                         spc, sid, unAddMsgNum>>

LEMMA LogSteadyInv ==
    ASSUME LogInv, LogSteady
    PROVE  OnePlace' /\ Uncounted' /\ (Queued' <=> Queued) /\ (Rouser' <=> Rouser)
<1> USE DEF LogSteady
<1>1. OnePlace BY DEF LogInv
<1>2. Uncounted BY DEF LogInv
<1>3. OnePlace' BY <1>1 DEF OnePlace, Pushing, Count, Occurs, Printed, Given
<1>4. Uncounted' BY <1>2 DEF Uncounted, Counting
<1> QED BY <1>3, <1>4 DEF Queued, Rouser

(* The steps that move the logger or the request and no record.            *)
LEMMA LogMoves ==
    ASSUME LogInv,
           \/ Top \/ GoIdle \/ LockIdle \/ WaitTimeout \/ GoBusy
           \/ LoggerThread \/ ClearLoop \/ NotifyLogger
    PROVE  LogInv'
<1> USE DEF Top, GoIdle, LockIdle, WaitTimeout, GoBusy, LoggerThread, LoggerStart,
            LoggerBegin, LoggerExit, LoggerEnd, ClearLoop, NotifyLogger, WakeLogger,
            queueVars, senderVars, sleepVars
<1>0. LogTypes /\ Added /\ IdleUp /\ Roused BY DEF LogInv
<1>1. LogSteady BY DEF LogSteady
<1>2. OnePlace' /\ Uncounted' /\ (Queued' <=> Queued) /\ (Rouser' <=> Rouser)
  BY <1>1, LogSteadyInv
<1>3. LogTypes' BY <1>0, <1>1 DEF LogTypes, LogSteady, LoggerPlaces
<1>4. Added' BY <1>0, <1>1 DEF Added, LogSteady
<1>5. IdleUp' BY <1>0 DEF IdleUp, LogTypes, LoggerPlaces
<1>6. Roused' BY <1>0, <1>2 DEF Roused
<1> QED BY <1>2, <1>3, <1>4, <1>5, <1>6 DEF LogInv

(* TestIdle: with nothing counted as queued, what is queued has a sender   *)
(* that has yet to count it.                                               *)
LEMMA LogTests ==
    ASSUME LogInv, TestIdle
    PROVE  LogInv'
<1> USE DEF TestIdle, MayIdle, queueVars, senderVars, sleepVars
<1>0. LogTypes /\ Added /\ IdleUp /\ Roused /\ Uncounted BY DEF LogInv
<1>1. LogSteady BY DEF LogSteady
<1>2. OnePlace' /\ Uncounted' /\ (Queued' <=> Queued) /\ (Rouser' <=> Rouser)
  BY <1>1, LogSteadyInv
<1>3. LogTypes' BY <1>0, <1>1 DEF LogTypes, LogSteady, LoggerPlaces
<1>4. Added' BY <1>0, <1>1 DEF Added, LogSteady
<1>5. IdleUp' BY <1>0 DEF IdleUp, LogTypes, LoggerPlaces
<1>6. unAddMsgNum = 0 /\ Queued => Rouser
  <2> SUFFICES ASSUME unAddMsgNum = 0, Queued PROVE Rouser
    OBVIOUS
  <2>1. addCnt = 0 BY <1>0 DEF Added
  <2>2. Len(mqMsg) \in Nat /\ Len(plkMsgBak) \in Nat /\ Len(mqMsg) + Len(plkMsgBak) > 0
    BY <1>0 DEF Queued, LogTypes
  <2>3. Cardinality(Counting) # 0
    BY <1>0, <2>1, <2>2, SendersFinite DEF Uncounted
  <2>4. Counting # {} BY <2>3, FS_EmptySet
  <2> QED BY <2>4 DEF Counting, Rouser
<1>7. Roused' BY <1>2, <1>6 DEF Roused
<1> QED BY <1>2, <1>3, <1>4, <1>5, <1>7 DEF LogInv

LEMMA LogUntouched ==
    ASSUME LogInv, UNCHANGED loggerVars
    PROVE  LogInv'
<1> USE DEF loggerVars, queueVars, senderVars, sleepVars
<1>0. LogTypes /\ Added /\ IdleUp /\ Roused BY DEF LogInv
<1>1. LogSteady BY DEF LogSteady
<1>2. OnePlace' /\ Uncounted' /\ (Queued' <=> Queued) /\ (Rouser' <=> Rouser)
  BY <1>1, LogSteadyInv
<1>3. LogTypes' BY <1>0 DEF LogTypes
<1>4. Added' /\ IdleUp' BY <1>0 DEF Added, IdleUp
<1>5. Roused' BY <1>0, <1>2 DEF Roused
<1> QED BY <1>2, <1>3, <1>4, <1>5 DEF LogInv

(* A sender: its record goes from its hands to a queue, and is then        *)
(* counted.                                                                *)
LEMMA SenderTakesId ==
    ASSUME LogInv, NEW s \in Senders, SendBegin(s)
    PROVE  LogInv'
<1>0. LogTypes /\ Added /\ IdleUp /\ Roused /\ Uncounted /\ OnePlace BY DEF LogInv
<1>a. /\ spc[s] = "out" /\ sid' = [sid EXCEPT ![s] = msgIdCnt] /\ msgIdCnt' = msgIdCnt + 1
      /\ spc' = [spc EXCEPT ![s] = "push"]
      /\ UNCHANGED <<lpc, loop, idle, unAddMsgNum, missed, mqMsg, plkMsgBak, plkWaitLog,
                     it, idCnt, addCnt>>
  BY DEF SendBegin, SenderGoto, queueVars, sleepVars
<1>b. msgIdCnt \in Nat /\ idCnt \in Nat BY <1>0 DEF LogTypes
<1>1. LogTypes' BY <1>0, <1>a DEF LogTypes, SenderPlaces
<1>2. OnePlace'
  <2> SUFFICES ASSUME NEW i \in Nat
               PROVE  Cardinality(Pushing(i)') + Count(mqMsg, i) + Count(plkMsgBak, i)
                        + Count(plkWaitLog, i) + Printed(i) = Given(i)'
    BY <1>a DEF OnePlace, Count, Occurs, Printed
  <2>1. Cardinality(Pushing(i)) + Count(mqMsg, i) + Count(plkMsgBak, i)
          + Count(plkWaitLog, i) + Printed(i) = Given(i)
    BY <1>0 DEF OnePlace
  <2>2. s \notin Pushing(i) BY <1>a DEF Pushing
  <2>3. CASE i = msgIdCnt
    <3>1. Pushing(i)' = Pushing(i) \union {s}
      BY <1>0, <1>a, <2>3 DEF Pushing, LogTypes
    <3>2. Cardinality(Pushing(i)') = Cardinality(Pushing(i)) + 1
      BY <2>2, <3>1, SendersFinite, FS_AddElement
    <3>3. Given(i) = 0 /\ Given(i)' = 1 BY <1>a, <1>b, <2>3 DEF Given
    <3>4. Printed(i) \in Nat BY DEF Printed
    <3> QED BY <1>0, <2>1, <3>2, <3>3, <3>4, SendersFinite, CountsAreNat
  <2>4. CASE i # msgIdCnt
    <3>1. Pushing(i)' = Pushing(i) BY <1>0, <1>a, <2>4 DEF Pushing, LogTypes
    <3>2. Given(i)' = Given(i) BY <1>a, <1>b, <2>4 DEF Given
    <3> QED BY <2>1, <3>1, <3>2
  <2> QED BY <2>3, <2>4
<1>3. Counting' = Counting BY <1>0, <1>a DEF Counting, LogTypes
<1>4. Uncounted' BY <1>0, <1>a, <1>3 DEF Uncounted
<1>5. Rouser' <=> Rouser BY <1>0, <1>a DEF Rouser, LogTypes
<1>6. Added' /\ IdleUp' /\ Roused'
  BY <1>0, <1>a, <1>5 DEF Added, IdleUp, Roused, Queued
<1> QED BY <1>1, <1>2, <1>4, <1>6 DEF LogInv

LEMMA SenderQueues ==
    ASSUME LogInv, NEW s \in Senders, SendPush(s)
    PROVE  LogInv'
<1>0. LogTypes /\ Added /\ IdleUp /\ Roused /\ Uncounted /\ OnePlace BY DEF LogInv
<1>a. /\ spc[s] = "push" /\ sid' = [sid EXCEPT ![s] = 0]
      /\ spc' = [spc EXCEPT ![s] = "count"]
      /\ UNCHANGED <<lpc, loop, idle, unAddMsgNum, missed, plkWaitLog, it, idCnt, addCnt,
                     msgIdCnt>>
  BY DEF SendPush, SenderGoto, sleepVars
<1>b. \/ mqMsg' = Append(mqMsg, sid[s]) /\ plkMsgBak' = plkMsgBak
      \/ plkMsgBak' = Append(plkMsgBak, sid[s]) /\ mqMsg' = mqMsg
  BY DEF SendPush
<1>c. mqMsg \in Seq(Nat) /\ plkMsgBak \in Seq(Nat) /\ sid[s] \in Nat BY <1>0 DEF LogTypes
<1>1. LogTypes'
  <2>1. mqMsg' \in Seq(Nat) /\ plkMsgBak' \in Seq(Nat) BY <1>b, <1>c, AppendIds
  <2>2. spc' \in [Senders -> SenderPlaces] /\ sid' \in [Senders -> Nat]
    BY <1>0, <1>a DEF LogTypes, SenderPlaces
  <2> QED BY <1>0, <1>a, <2>1, <2>2 DEF LogTypes
<1>2. OnePlace'
  <2> SUFFICES ASSUME NEW i \in Nat
               PROVE  Cardinality(Pushing(i)') + Count(mqMsg', i) + Count(plkMsgBak', i)
                        + Count(plkWaitLog, i) + Printed(i) = Given(i)
    BY <1>a DEF OnePlace, Count, Occurs, Printed, Given
  <2> DEFINE one == IF sid[s] = i THEN 1 ELSE 0
  <2>1. Cardinality(Pushing(i)) + Count(mqMsg, i) + Count(plkMsgBak, i)
          + Count(plkWaitLog, i) + Printed(i) = Given(i)
    BY <1>0 DEF OnePlace
  <2>2. Cardinality(Pushing(i)') = Cardinality(Pushing(i)) - one
    <3>1. CASE sid[s] = i
      <4>1. Pushing(i)' = Pushing(i) \ {s} /\ s \in Pushing(i)
        BY <1>0, <1>a, <3>1 DEF Pushing, LogTypes
      <4> QED BY <3>1, <4>1, SendersFinite, FS_RemoveElement
    <3>2. CASE sid[s] # i
      <4>1. Pushing(i)' = Pushing(i) BY <1>0, <1>a, <3>2 DEF Pushing, LogTypes
      <4> QED BY <3>2, <4>1, SendersFinite
    <3> QED BY <3>1, <3>2
  <2>3. Count(mqMsg', i) + Count(plkMsgBak', i) = Count(mqMsg, i) + Count(plkMsgBak, i) + one
    <3>1. CASE mqMsg' = Append(mqMsg, sid[s]) /\ plkMsgBak' = plkMsgBak
      <4>1. Count(mqMsg', i) = Count(mqMsg, i) + one BY <1>c, <3>1, AppendIds
      <4>2. one \in Nat OBVIOUS
      <4> HIDE DEF one
      <4> QED BY <1>0, <3>1, <4>1, <4>2, CountsAreNat
    <3>2. CASE plkMsgBak' = Append(plkMsgBak, sid[s]) /\ mqMsg' = mqMsg
      <4>1. Count(plkMsgBak', i) = Count(plkMsgBak, i) + one BY <1>c, <3>2, AppendIds
      <4>2. one \in Nat OBVIOUS
      <4> HIDE DEF one
      <4> QED BY <1>0, <3>2, <4>1, <4>2, CountsAreNat
    <3> QED BY <1>b, <3>1, <3>2
  <2>4. Printed(i) \in Nat /\ one \in Nat BY DEF Printed
  <2>5. Count(mqMsg', i) \in Nat /\ Count(plkMsgBak', i) \in Nat
    BY <1>1, CountType DEF LogTypes
  <2> HIDE DEF one
  <2> QED BY <1>0, <2>1, <2>2, <2>3, <2>4, <2>5, SendersFinite, CountsAreNat
<1>3. Counting' = Counting \union {s} /\ s \notin Counting
  BY <1>0, <1>a DEF Counting, LogTypes
<1>4. Cardinality(Counting') = Cardinality(Counting) + 1
  BY <1>3, SendersFinite, FS_AddElement
<1>5. Len(mqMsg') + Len(plkMsgBak') = Len(mqMsg) + Len(plkMsgBak) + 1
  <2>1. Len(mqMsg) \in Nat /\ Len(plkMsgBak) \in Nat BY <1>c
  <2>2. CASE mqMsg' = Append(mqMsg, sid[s]) /\ plkMsgBak' = plkMsgBak
    <3>1. Len(mqMsg') = Len(mqMsg) + 1 BY <1>c, <2>2, AppendIds
    <3> QED BY <2>1, <2>2, <3>1
  <2>3. CASE plkMsgBak' = Append(plkMsgBak, sid[s]) /\ mqMsg' = mqMsg
    <3>1. Len(plkMsgBak') = Len(plkMsgBak) + 1 BY <1>c, <2>3, AppendIds
    <3> QED BY <2>1, <2>3, <3>1
  <2> QED BY <1>b, <2>2, <2>3
<1>6. Uncounted'
  <2>1. /\ Len(mqMsg) \in Nat /\ Len(plkMsgBak) \in Nat /\ addCnt \in Nat
        /\ Len(mqMsg') \in Nat /\ Len(plkMsgBak') \in Nat
    BY <1>0, <1>1 DEF LogTypes
  <2> QED BY <1>0, <1>a, <1>4, <1>5, <2>1, SendersFinite DEF Uncounted
<1>7. Rouser' BY <1>0, <1>a DEF Rouser, LogTypes
<1>8. Added' /\ IdleUp' /\ Roused'
  BY <1>0, <1>a, <1>7 DEF Added, IdleUp, Roused
<1> QED BY <1>1, <1>2, <1>6, <1>8 DEF LogInv

(* The last steps of a sender leave every record where it is.              *)
LEMMA SenderSteady ==
    ASSUME LogInv, NEW s \in Senders, spc[s] \notin {"push"},
           NEW place \in {"out", "look", "notify"}, spc' = [spc EXCEPT ![s] = place],
           UNCHANGED <<mqMsg, plkMsgBak, plkWaitLog, it, idCnt, addCnt, msgIdCnt, sid>>
    PROVE  OnePlace'
<1>0. LogTypes /\ OnePlace BY DEF LogInv
<1>1. \A i : Pushing(i)' = Pushing(i) BY <1>0 DEF Pushing, LogTypes
<1> QED BY <1>0, <1>1 DEF OnePlace, Count, Occurs, Printed, Given

LEMMA SenderCounts ==
    ASSUME LogInv, NEW s \in Senders, SendCount(s)
    PROVE  LogInv'
<1>0. LogTypes /\ Added /\ IdleUp /\ Roused /\ Uncounted BY DEF LogInv
<1>a. /\ spc[s] = "count" /\ unAddMsgNum' = unAddMsgNum + 1
      /\ spc' = [spc EXCEPT ![s] = "look"]
      /\ UNCHANGED <<lpc, loop, idle, missed, mqMsg, plkMsgBak, plkWaitLog, it, idCnt, addCnt,
                     msgIdCnt, sid>>
  BY DEF SendCount, SenderGoto, queueVars
<1>1. LogTypes' BY <1>0, <1>a DEF LogTypes, SenderPlaces
<1>2. OnePlace' BY <1>a, SenderSteady
<1>3. Counting' = Counting \ {s} /\ s \in Counting
  BY <1>0, <1>a DEF Counting, LogTypes
<1>4. Cardinality(Counting') = Cardinality(Counting) - 1
  BY <1>3, SendersFinite, FS_RemoveElement
<1>5. Uncounted'
  <2>1. Len(mqMsg) \in Nat /\ Len(plkMsgBak) \in Nat /\ addCnt \in Nat /\ unAddMsgNum \in Int
    BY <1>0 DEF LogTypes
  <2> QED BY <1>0, <1>a, <1>4, <2>1, SendersFinite DEF Uncounted
<1>6. Rouser' BY <1>0, <1>a DEF Rouser, LogTypes
<1>7. Added' /\ IdleUp' /\ Roused'
  BY <1>0, <1>a, <1>6 DEF Added, IdleUp, Roused
<1> QED BY <1>1, <1>2, <1>5, <1>7 DEF LogInv

(* Who looks at an idle logger goes on to notify it.                       *)
LEMMA SenderLooks ==
    ASSUME LogInv, NEW s \in Senders, SendLook(s)
    PROVE  LogInv'
<1>0. LogTypes /\ Added /\ IdleUp /\ Roused /\ Uncounted BY DEF LogInv
<1>a. /\ spc[s] = "look"
      /\ UNCHANGED <<lpc, loop, idle, missed, unAddMsgNum, mqMsg, plkMsgBak, plkWaitLog, it,
                     idCnt, addCnt, msgIdCnt, sid>>
  BY DEF SendLook, queueVars, sleepVars
<1>b. /\ spc' = [spc EXCEPT ![s] = IF idle THEN "notify" ELSE "out"]
      /\ (IF idle THEN "notify" ELSE "out") \in {"out", "look", "notify"}
  BY DEF SendLook, SenderGoto
<1>1. LogTypes' BY <1>0, <1>a, <1>b DEF LogTypes, SenderPlaces
<1>2. OnePlace' BY <1>a, <1>b, SenderSteady
<1>3. Counting' = Counting BY <1>0, <1>a, <1>b DEF Counting, LogTypes
<1>4. Uncounted' BY <1>0, <1>a, <1>3 DEF Uncounted
<1>5. idle => Rouser' BY <1>0, <1>a, <1>b DEF Rouser, LogTypes
<1>6. Added' /\ IdleUp' /\ Roused'
  BY <1>0, <1>a, <1>5 DEF Added, IdleUp, Roused
<1> QED BY <1>1, <1>2, <1>4, <1>6 DEF LogInv

(* A notification that finds the logger about to sleep is missed, one that *)
(* finds it asleep wakes it.                                               *)
LEMMA SenderNotifies ==
    ASSUME LogInv, NEW s \in Senders, SendNotify(s)
    PROVE  LogInv'
<1>0. LogTypes /\ Added /\ IdleUp /\ Roused /\ Uncounted BY DEF LogInv
<1>a. /\ spc[s] = "notify" /\ spc' = [spc EXCEPT ![s] = "out"]
      /\ missed' = (missed \/ lpc \in {"test", "lock"})
      /\ lpc' = IF lpc = "asleep" THEN "awake" ELSE lpc
      /\ UNCHANGED <<loop, idle, unAddMsgNum, mqMsg, plkMsgBak, plkWaitLog, it,
                     idCnt, addCnt, msgIdCnt, sid>>
  BY DEF SendNotify, SenderGoto, WakeLogger, queueVars
<1>1. LogTypes' BY <1>0, <1>a DEF LogTypes, SenderPlaces, LoggerPlaces
<1>2. OnePlace' BY <1>a, SenderSteady
<1>3. Counting' = Counting BY <1>0, <1>a DEF Counting, LogTypes
<1>4. Uncounted' BY <1>0, <1>a, <1>3 DEF Uncounted
<1>5. Added' /\ IdleUp' BY <1>0, <1>a DEF Added, IdleUp
<1>6. Roused' BY <1>0, <1>a DEF Roused, LogTypes
<1> QED BY <1>1, <1>2, <1>4, <1>5, <1>6 DEF LogInv

(* The logger: a record goes from the queue to the print or to the wait    *)
(* list, the backup goes to the wait list, and from there in turn to the   *)
(* print.                                                                  *)
LEMMA LoggerTakes ==
    ASSUME LogInv, PopMsg
    PROVE  LogInv'
<1>0. LogTypes /\ Added /\ IdleUp /\ Roused /\ Uncounted /\ OnePlace BY DEF LogInv
<1>a. /\ lpc = "mq" /\ mqMsg # << >> /\ mqMsg' = Tail(mqMsg) /\ addCnt' = addCnt + 1
      /\ UNCHANGED <<lpc, loop, idle, unAddMsgNum, missed, plkMsgBak, it, msgIdCnt, spc, sid>>
  BY DEF PopMsg, senderVars, sleepVars
<1>b. \/ /\ Head(mqMsg) = idCnt /\ idCnt' = idCnt + 1 /\ plkWaitLog' = plkWaitLog
      \/ plkWaitLog' = Append(plkWaitLog, Head(mqMsg)) /\ idCnt' = idCnt
  BY DEF PopMsg, Due
<1>c. /\ mqMsg \in Seq(Nat) /\ plkWaitLog \in Seq(Nat) /\ Head(mqMsg) \in Nat
      /\ Tail(mqMsg) \in Seq(Nat) /\ Len(Tail(mqMsg)) = Len(mqMsg) - 1 /\ Len(mqMsg) \in Nat
      /\ idCnt \in Nat
  BY <1>0, <1>a DEF LogTypes
<1>1. LogTypes'
  <2>1. plkWaitLog' \in Seq(Nat) BY <1>b, <1>c, AppendIds
  <2>2. idCnt' \in Nat /\ mqMsg' \in Seq(Nat) BY <1>a, <1>b, <1>c
  <2> QED BY <1>0, <1>a, <2>1, <2>2 DEF LogTypes
<1>2. OnePlace'
  <2> SUFFICES ASSUME NEW i \in Nat
               PROVE  Cardinality(Pushing(i)) + Count(mqMsg', i) + Count(plkMsgBak, i)
                        + Count(plkWaitLog', i) + Printed(i)' = Given(i)
    BY <1>a DEF OnePlace, Count, Occurs, Pushing, Given
  <2> DEFINE one == IF Head(mqMsg) = i THEN 1 ELSE 0
  <2>1. Cardinality(Pushing(i)) + Count(mqMsg, i) + Count(plkMsgBak, i)
          + Count(plkWaitLog, i) + Printed(i) = Given(i)
    BY <1>0 DEF OnePlace
  <2>2. Count(mqMsg', i) = Count(mqMsg, i) - one BY <1>a, <1>c, CountTail
  <2>3. Printed(i) \in Nat /\ Printed(i)' \in Nat /\ one \in Nat BY DEF Printed
  <2>4. Count(plkWaitLog', i) + Printed(i)' = Count(plkWaitLog, i) + Printed(i) + one
    <3>1. CASE Head(mqMsg) = idCnt /\ idCnt' = idCnt + 1 /\ plkWaitLog' = plkWaitLog
      <4>1. Printed(i)' = Printed(i) + one BY <1>c, <3>1 DEF Printed
      <4> HIDE DEF one
      <4> QED BY <1>0, <2>3, <3>1, <4>1, CountsAreNat
    <3>2. CASE plkWaitLog' = Append(plkWaitLog, Head(mqMsg)) /\ idCnt' = idCnt
      <4>1. Count(plkWaitLog', i) = Count(plkWaitLog, i) + one BY <1>c, <3>2, AppendIds
      <4>2. Printed(i)' = Printed(i) BY <3>2 DEF Printed
      <4> HIDE DEF one
      <4> QED BY <1>0, <2>3, <4>1, <4>2, CountsAreNat
    <3> QED BY <1>b, <3>1, <3>2
  <2>5. Count(plkWaitLog', i) \in Nat /\ Count(mqMsg', i) \in Nat
    BY <1>1, CountType DEF LogTypes
  <2> HIDE DEF one
  <2> QED BY <1>0, <2>1, <2>2, <2>3, <2>4, <2>5, SendersFinite, CountsAreNat
<1>3. Counting' = Counting BY <1>a DEF Counting
<1>4. Uncounted'
  <2>1. Len(plkMsgBak) \in Nat /\ addCnt \in Nat BY <1>0 DEF LogTypes
  <2>2. Len(mqMsg') = Len(mqMsg) - 1 BY <1>a, <1>c
  <2> QED BY <1>0, <1>a, <1>c, <1>3, <2>1, <2>2, SendersFinite DEF Uncounted
<1>5. Added' /\ IdleUp' /\ Roused' BY <1>0, <1>a DEF Added, IdleUp, Roused
<1> QED BY <1>1, <1>2, <1>4, <1>5 DEF LogInv

LEMMA LoggerTakesBackup ==
    ASSUME LogInv, PopBak
    PROVE  LogInv'
<1>0. LogTypes /\ Added /\ IdleUp /\ Roused /\ Uncounted /\ OnePlace BY DEF LogInv
<1>a. /\ lpc = "mq" /\ lpc' = "wait" /\ plkWaitLog' = plkWaitLog \o plkMsgBak
      /\ plkMsgBak' = << >> /\ addCnt' = addCnt + Len(plkMsgBak)
      /\ UNCHANGED <<loop, idle, unAddMsgNum, missed, mqMsg, it, idCnt, msgIdCnt, spc, sid>>
  BY DEF PopBak, senderVars, sleepVars
<1>b. plkMsgBak \in Seq(Nat) /\ plkWaitLog \in Seq(Nat) /\ Len(plkMsgBak) \in Nat
  BY <1>0 DEF LogTypes
<1>1. LogTypes'
  <2>1. plkWaitLog' \in Seq(Nat) BY <1>a, <1>b, ConcatType
  <2>2. plkMsgBak' \in Seq(Nat) BY <1>a
  <2> QED BY <1>0, <1>a, <1>b, <2>1, <2>2 DEF LogTypes, LoggerPlaces
<1>2. OnePlace'
  <2> SUFFICES ASSUME NEW i \in Nat
               PROVE  Cardinality(Pushing(i)) + Count(mqMsg, i) + Count(plkMsgBak', i)
                        + Count(plkWaitLog', i) + Printed(i) = Given(i)
    BY <1>a DEF OnePlace, Count, Occurs, Pushing, Given, Printed
  <2>1. Cardinality(Pushing(i)) + Count(mqMsg, i) + Count(plkMsgBak, i)
          + Count(plkWaitLog, i) + Printed(i) = Given(i)
    BY <1>0 DEF OnePlace
  <2>2. Count(plkMsgBak', i) = 0 BY <1>a, CountEmpty
  <2>3. Count(plkWaitLog', i) = Count(plkWaitLog, i) + Count(plkMsgBak, i)
    BY <1>a, <1>b, CountConcat
  <2>4. Printed(i) \in Nat BY DEF Printed
  <2> QED BY <1>0, <2>1, <2>2, <2>3, <2>4, SendersFinite, CountsAreNat
<1>3. Counting' = Counting BY <1>a DEF Counting
<1>4. Uncounted'
  <2>1. Len(mqMsg) \in Nat /\ addCnt \in Nat BY <1>0 DEF LogTypes
  <2>2. Len(plkMsgBak') = 0 BY <1>a
  <2> QED BY <1>0, <1>a, <1>b, <1>3, <2>1, <2>2, SendersFinite DEF Uncounted
<1>5. Added' /\ IdleUp' /\ Roused' BY <1>0, <1>a DEF Added, IdleUp, Roused
<1> QED BY <1>1, <1>2, <1>4, <1>5 DEF LogInv

LEMMA LoggerTries ==
    ASSUME LogInv, LogWaiting
    PROVE  LogInv'
<1>0. LogTypes /\ Added /\ IdleUp /\ Roused /\ Uncounted /\ OnePlace BY DEF LogInv
<1>a. /\ lpc = "wait" /\ it <= Len(plkWaitLog)
      /\ UNCHANGED <<lpc, loop, idle, unAddMsgNum, missed, mqMsg, plkMsgBak, addCnt,
                     msgIdCnt, spc, sid>>
  BY DEF LogWaiting, senderVars, sleepVars
<1>b. \/ /\ plkWaitLog[it] = idCnt /\ plkWaitLog' = RemoveAt(plkWaitLog, it)
         /\ idCnt' = idCnt + 1 /\ it' = it
      \/ it' = it + 1 /\ plkWaitLog' = plkWaitLog /\ idCnt' = idCnt
  BY DEF LogWaiting, Due
<1>c. plkWaitLog \in Seq(Nat) /\ idCnt \in Nat /\ it \in Nat \ {0} BY <1>0 DEF LogTypes
<1>d. it \in 1 .. Len(plkWaitLog) BY <1>a, <1>c
<1>e. /\ RemoveAt(plkWaitLog, it) \in Seq(Nat)
      /\ Without(plkWaitLog, it, RemoveAt(plkWaitLog, it))
  BY <1>c, <1>d, RemoveAtEntries
<1>1. LogTypes'
  <2>1. plkWaitLog' \in Seq(Nat) /\ idCnt' \in Nat /\ it' \in Nat \ {0}
    BY <1>b, <1>c, <1>e
  <2> QED BY <1>0, <1>a, <2>1 DEF LogTypes
<1>2. OnePlace'
  <2> SUFFICES ASSUME NEW i \in Nat
               PROVE  Cardinality(Pushing(i)) + Count(mqMsg, i) + Count(plkMsgBak, i)
                        + Count(plkWaitLog', i) + Printed(i)' = Given(i)
    BY <1>a DEF OnePlace, Count, Occurs, Pushing, Given
  <2>1. Cardinality(Pushing(i)) + Count(mqMsg, i) + Count(plkMsgBak, i)
          + Count(plkWaitLog, i) + Printed(i) = Given(i)
    BY <1>0 DEF OnePlace
  <2>2. Printed(i) \in Nat /\ Printed(i)' \in Nat BY DEF Printed
  <2>3. Count(plkWaitLog', i) + Printed(i)' = Count(plkWaitLog, i) + Printed(i)
    <3>1. CASE /\ plkWaitLog[it] = idCnt /\ plkWaitLog' = RemoveAt(plkWaitLog, it)
               /\ idCnt' = idCnt + 1
      <4>1. \A r \in Seq(Nat), k \in 1 .. Len(plkWaitLog) : Without(plkWaitLog, k, r)
              => Count(r, i) = Count(plkWaitLog, i) - (IF plkWaitLog[k] = i THEN 1 ELSE 0)
        BY <1>c, CountWithout
      <4>2. Count(plkWaitLog', i) = Count(plkWaitLog, i) - (IF idCnt = i THEN 1 ELSE 0)
        BY <1>d, <1>e, <3>1, <4>1
      <4>3. Printed(i)' = Printed(i) + (IF idCnt = i THEN 1 ELSE 0)
        BY <1>c, <3>1 DEF Printed
      <4> QED BY <1>0, <2>2, <4>2, <4>3, CountsAreNat
    <3>2. CASE plkWaitLog' = plkWaitLog /\ idCnt' = idCnt
      BY <3>2 DEF Printed
    <3> QED BY <1>b, <3>1, <3>2
  <2>4. Count(plkWaitLog', i) \in Nat BY <1>1, CountType DEF LogTypes
  <2> QED BY <1>0, <2>1, <2>2, <2>3, <2>4, SendersFinite, CountsAreNat
<1>3. Counting' = Counting BY <1>a DEF Counting
<1>4. Uncounted' BY <1>0, <1>a, <1>3 DEF Uncounted
<1>5. Added' /\ IdleUp' /\ Roused' BY <1>0, <1>a DEF Added, IdleUp, Roused
<1> QED BY <1>1, <1>2, <1>4, <1>5 DEF LogInv

LEMMA LoggerHasTried ==
    ASSUME LogInv, LogWaited
    PROVE  LogInv'
<1>0. LogTypes /\ Added /\ IdleUp /\ Roused /\ Uncounted /\ OnePlace BY DEF LogInv
<1>a. /\ lpc = "wait" /\ it' = 1 /\ unAddMsgNum' = unAddMsgNum - addCnt /\ addCnt' = 0
      /\ lpc' \in {"idle", "top"}
      /\ UNCHANGED <<loop, idle, missed, mqMsg, plkMsgBak, plkWaitLog, idCnt, msgIdCnt,
                     spc, sid>>
  BY DEF LogWaited, senderVars
<1>1. LogTypes' BY <1>0, <1>a DEF LogTypes, LoggerPlaces
<1>2. OnePlace'
  BY <1>0, <1>a DEF OnePlace, Count, Occurs, Pushing, Given, Printed
<1>3. Counting' = Counting BY <1>a DEF Counting
<1>4. Uncounted'
  <2>1. Len(mqMsg) \in Nat /\ Len(plkMsgBak) \in Nat /\ addCnt \in Nat /\ unAddMsgNum \in Int
    BY <1>0 DEF LogTypes
  <2> QED BY <1>0, <1>a, <1>3, <2>1, SendersFinite DEF Uncounted
<1>5. Added' /\ IdleUp' /\ Roused' BY <1>0, <1>a DEF Added, IdleUp, Roused
<1> QED BY <1>1, <1>2, <1>4, <1>5 DEF LogInv

LEMMA LogNext ==
    LogInv /\ [Next]_vars => LogInv'
<1> SUFFICES ASSUME LogInv, [Next]_vars PROVE LogInv'
  OBVIOUS
<1>1. CASE LoggerRuns
  BY <1>1, LogMoves, LogTests, LoggerTakes, LoggerTakesBackup, LoggerTries, LoggerHasTried
     DEF LoggerRuns, LogStep
<1>2. ASSUME NEW s \in Senders, Sends(s) PROVE LogInv'
  BY <1>2, SenderTakesId, SenderQueues, SenderCounts, SenderLooks, SenderNotifies
     DEF Sends, SendStep
<1>3. CASE LoggerThread \/ ClearLoop \/ NotifyLogger
  BY <1>3, LogMoves
<1>4. CASE \/ \E t \in Loops : ThreadStep(t) \/ AskLoop(t)
           \/ CallShutdown \/ Deinit \/ ExclusiveEnds
           \/ \E e \in Ext : ExtCreate(e) \/ ExtBegin(e) \/ ExtEnd(e)
  <2>1. UNCHANGED loggerVars
    BY <1>4 DEF ThreadStep, Start, Begin, Stop, WaitExt, WaitExclusive, End, AskLoop,
       CallShutdown, Deinit, ExclusiveEnds, ExtCreate, ExtBegin, ExtEnd
  <2> QED BY <2>1, LogUntouched
<1>5. CASE UNCHANGED vars
  BY <1>5, LogUntouched DEF vars
<1> QED BY <1>1, <1>2, <1>3, <1>4, <1>5 DEF Next, ShutdownStep

(* Whatever overtakes what, a record that has been given an id is in one   *)
(* place and is printed in its turn; and the logger sleeps on a record     *)
(* only when somebody is about to wake it or when a wakeup came between    *)
(* its test and its sleep (LogsAll).                                       *)
THEOREM RecordsInOnePlace == Spec => []LogsAll
<1>1. LogInv => LogsAll
  <2> SUFFICES ASSUME LogInv PROVE LogsAll
    OBVIOUS
  <2>1. MsgInOnePlace
    <3> SUFFICES ASSUME NEW i \in 0 .. MaxMsgs - 1
                 PROVE  MsgPlaces(i) = IF i < msgIdCnt THEN 1 ELSE 0
      BY DEF MsgInOnePlace
    <3>1. i \in Nat BY LoggerAssumption
    <3> QED BY <3>1 DEF LogInv, OnePlace, MsgPlaces, Pushing, Count, Occurs, Printed, Given
  <2>2. LoggerSleepsOnlyByMissedNotify
    BY DEF LogInv, Roused, Queued, Rouser, LoggerSleepsOnlyByMissedNotify
  <2> QED BY <2>1, <2>2 DEF LogsAll
<1> QED BY <1>1, LogInit, LogNext, PTL DEF Spec

----------------------------------------------------------------------------
(* Shutdown: the external threads                                          *)

Running  == {e \in Ext : ext[e] = "runs"}
AllPast  == \A t \in Loops : tpc[t] \in {"excl", "exit", "end"}
ThreadPlaces == {"new", "barrier", "loop", "ext", "excl", "exit", "end"}

(* extThreadNum counts the running threads, so once the last loop thread   *)
(* has seen it at zero only those that counted themselves later run.       *)
ExtTypes   == tpc \in [Loops -> ThreadPlaces] /\ ext \in [Ext -> {"none", "new", "runs"}]
ExtCounted == extThreadNum = Cardinality(Running)
OnlyLate   == AllPast => Running \subseteq late
FreedLast  == freed => \A t \in Loops : tpc[t] = "end"

ExtInv == ExtTypes /\ ExtCounted /\ OnlyLate /\ FreedLast

LEMMA RunningFinite == IsFiniteSet(Running) /\ Cardinality(Running) \in Nat
<1>1. IsFiniteSet(Ext) BY ShutdownAssumption
<1>2. Running \subseteq Ext BY DEF Running
<1> QED BY <1>1, <1>2, FS_Subset, FS_CardinalityType

LEMMA ExtInit ==
    Init => ExtInv
<1> SUFFICES ASSUME Init PROVE ExtInv
  OBVIOUS
<1>1. ExtTypes BY DEF ExtTypes, ThreadPlaces, Init
<1>2. Running = {} BY DEF Running, Init
<1>3. Cardinality(Running) = 0 BY <1>2, FS_EmptySet
<1>4. ExtCounted /\ OnlyLate BY <1>2, <1>3 DEF ExtCounted, OnlyLate, Init
<1> QED BY <1>1, <1>4 DEF ExtInv, FreedLast, Init

(* A loop thread: none is past the wait before it waits, and the one that  *)
(* makes all of them be past it saw no thread running.                     *)
LEMMA LoopThreadMoves ==
    ASSUME ExtInv, NEW t \in Loops, ThreadStep(t)
    PROVE  ExtInv'
<1>0. ExtTypes /\ ExtCounted /\ OnlyLate /\ FreedLast BY DEF ExtInv
<1>a. UNCHANGED <<ext, extThreadNum, late, freed>>
  BY DEF ThreadStep, Start, Begin, Stop, WaitExt, WaitExclusive, End, extVars
<1>b. \/ tpc[t] = "new" /\ tpc' = [tpc EXCEPT ![t] = "barrier"]
      \/ tpc[t] = "barrier" /\ tpc' = [tpc EXCEPT ![t] = "loop"]
      \/ tpc[t] = "loop" /\ tpc' = [tpc EXCEPT ![t] = "ext"]
      \/ tpc[t] = "ext" /\ tpc' = [tpc EXCEPT ![t] = "excl"] /\ extThreadNum = 0
      \/ tpc[t] = "excl" /\ tpc' = [tpc EXCEPT ![t] = "exit"]
      \/ tpc[t] = "exit" /\ tpc' = [tpc EXCEPT ![t] = "end"]
  BY DEF ThreadStep, Start, Begin, Stop, WaitExt, WaitExclusive, End, Goto, ExtThreadsDone
<1>1. ExtTypes' BY <1>0, <1>a, <1>b DEF ExtTypes, ThreadPlaces
<1>2. Running' = Running BY <1>a DEF Running
<1>3. ExtCounted' BY <1>0, <1>a, <1>2 DEF ExtCounted
<1>4. OnlyLate'
  <2>1. CASE tpc[t] = "ext" /\ extThreadNum = 0
    <3>1. Running = {} BY <1>0, <2>1, RunningFinite, FS_EmptySet DEF ExtCounted
    <3> QED BY <1>2, <3>1 DEF OnlyLate
  <2>2. CASE tpc[t] \in {"new", "barrier", "loop"}
    <3>1. tpc'[t] \notin {"excl", "exit", "end"} BY <1>0, <1>b, <2>2 DEF ExtTypes
    <3> QED BY <3>1 DEF OnlyLate, AllPast
  <2>3. CASE tpc[t] \in {"excl", "exit"}
    <3>1. AllPast' => AllPast
      <4> SUFFICES ASSUME AllPast' PROVE AllPast
        OBVIOUS
      <4>1. \A u \in Loops : u # t => tpc'[u] = tpc[u] BY <1>0, <1>b DEF ExtTypes
      <4> QED BY <2>3, <4>1 DEF AllPast
    <3> QED BY <1>0, <1>a, <1>2, <3>1 DEF OnlyLate
  <2> QED BY <1>b, <2>1, <2>2, <2>3
<1>5. FreedLast' BY <1>0, <1>a, <1>b DEF FreedLast
<1> QED BY <1>1, <1>3, <1>4, <1>5 DEF ExtInv

LEMMA ExtThreadMoves ==
    ASSUME ExtInv, NEW e \in Ext, ExtCreate(e) \/ ExtBegin(e) \/ ExtEnd(e)
    PROVE  ExtInv'
<1>0. ExtTypes /\ ExtCounted /\ OnlyLate /\ FreedLast BY DEF ExtInv
<1>a. UNCHANGED <<tpc, freed>>
  BY DEF ExtCreate, ExtBegin, ExtEnd, threadVars
<1>1. FreedLast' BY <1>0, <1>a DEF FreedLast
<1>2. CASE ExtCreate(e)
  <2>a. /\ ext[e] = "none" /\ ext' = [ext EXCEPT ![e] = "new"]
        /\ extThreadNum' = extThreadNum /\ late' = late
    BY <1>2 DEF ExtCreate
  <2>1. ExtTypes' BY <1>0, <1>a, <2>a DEF ExtTypes
  <2>2. Running' = Running BY <1>0, <2>a DEF Running, ExtTypes
  <2>3. ExtCounted' BY <1>0, <2>a, <2>2 DEF ExtCounted
  <2>4. OnlyLate' BY <1>0, <1>a, <2>a, <2>2 DEF OnlyLate, AllPast
  <2> QED BY <1>1, <2>1, <2>3, <2>4 DEF ExtInv
<1>3. CASE ExtBegin(e)
  <2>a. /\ ext[e] = "new" /\ ext' = [ext EXCEPT ![e] = "runs"]
        /\ extThreadNum' = extThreadNum + 1
        /\ late' = IF AllPast THEN late \union {e} ELSE late
    BY <1>3 DEF ExtBegin, AllPast
  <2>1. ExtTypes' BY <1>0, <1>a, <2>a DEF ExtTypes
  <2>2. Running' = Running \union {e} /\ e \notin Running
    BY <1>0, <2>a DEF Running, ExtTypes
  <2>3. Cardinality(Running') = Cardinality(Running) + 1
    BY <2>2, RunningFinite, FS_AddElement
  <2>4. ExtCounted' BY <1>0, <2>a, <2>3 DEF ExtCounted
  <2>5. OnlyLate' BY <1>0, <1>a, <2>a, <2>2 DEF OnlyLate, AllPast
  <2> QED BY <1>1, <2>1, <2>4, <2>5 DEF ExtInv
<1>4. CASE ExtEnd(e)
  <2>a. /\ ext[e] = "runs" /\ ext' = [ext EXCEPT ![e] = "none"]
        /\ extThreadNum' = extThreadNum - 1 /\ late' = late \ {e}
    BY <1>4 DEF ExtEnd
  <2>1. ExtTypes' BY <1>0, <1>a, <2>a DEF ExtTypes
  <2>2. Running' = Running \ {e} /\ e \in Running
    BY <1>0, <2>a DEF Running, ExtTypes
  <2>3. Cardinality(Running') = Cardinality(Running) - 1
    BY <2>2, RunningFinite, FS_RemoveElement
  <2>4. ExtCounted' BY <1>0, <2>a, <2>3 DEF ExtCounted
  <2>5. OnlyLate' BY <1>0, <1>a, <2>a, <2>2 DEF OnlyLate, AllPast
  <2> QED BY <1>1, <2>1, <2>4, <2>5 DEF ExtInv
<1> QED BY <1>2, <1>3, <1>4

LEMMA ExtUntouched ==
    ASSUME ExtInv, UNCHANGED <<tpc, ext, extThreadNum, late>>,
           freed' = freed \/ \A t \in Loops : tpc[t] = "end"
    PROVE  ExtInv'
BY DEF ExtInv, ExtTypes, ExtCounted, OnlyLate, FreedLast, AllPast, Running

LEMMA ExtNext ==
    ExtInv /\ [Next]_vars => ExtInv'
<1> SUFFICES ASSUME ExtInv, [Next]_vars PROVE ExtInv'
  OBVIOUS
<1>1. ASSUME NEW t \in Loops, ThreadStep(t) PROVE ExtInv'
  BY <1>1, LoopThreadMoves
<1>2. ASSUME NEW e \in Ext, ExtCreate(e) \/ ExtBegin(e) \/ ExtEnd(e) PROVE ExtInv'
  BY <1>2, ExtThreadMoves
<1>3. CASE LoggerThread \/ CallShutdown \/ ShutdownStep \/ ExclusiveEnds
  BY <1>3, ExtUntouched
     DEF LoggerThread, LoggerStart, LoggerBegin, LoggerExit, LoggerEnd, CallShutdown,
         ShutdownStep, AskLoop, ClearLoop, NotifyLogger, ExclusiveEnds, threadVars, extVars
<1>4. CASE LoggerRuns \/ \E s \in Senders : Sends(s)
  BY <1>4, ExtUntouched DEF LoggerRuns, Sends, threadVars, extVars
<1>5. CASE Deinit
  BY <1>5, ExtUntouched DEF Deinit, threadVars, extVars
<1>6. CASE UNCHANGED vars
  BY <1>6, ExtUntouched DEF vars, threadVars, extVars
<1> QED BY <1>1, <1>2, <1>3, <1>4, <1>5, <1>6 DEF Next

(* Only a thread that runs a service is in the middle of a record, and no  *)
(* exclusive service runs once one loop thread has waited for them.        *)
OnlyServing ==
    /\ \A t \in Workers : tpc[t] # "loop" => spc[t] = "out"
    /\ exclusive = "ended" => spc[ExThread] = "out"
Waited == \A t \in Loops : tpc[t] \in {"exit", "end"} => exclusive = "ended"
UseInv == exclusive \in {"runs", "ended"} /\ OnlyServing /\ Waited

LEMMA UseInit ==
    Init => UseInv
BY ShutdownAssumption DEF Init, LoggerInit, UseInv, OnlyServing, Waited, Loops

(* A worker that leaves its loop is in no call of its service.             *)
LEMMA UseLoopThread ==
    ASSUME UseInv, ExtTypes, NEW t \in Loops, ThreadStep(t)
    PROVE  UseInv'
<1>0. UseInv /\ tpc \in [Loops -> ThreadPlaces] /\ Workers \subseteq Loops
  BY DEF ExtTypes, Loops
<1>a. UNCHANGED <<spc, exclusive>>
  BY DEF ThreadStep, Start, Begin, Stop, WaitExt, WaitExclusive, End, loggerVars, senderVars
<1>1. CASE Start(t) \/ Begin(t) \/ WaitExt(t) \/ End(t)
  BY <1>0, <1>a, <1>1
     DEF Start, Begin, WaitExt, End, Goto, UseInv, OnlyServing, Waited, ThreadPlaces
<1>2. CASE Stop(t)
  BY <1>0, <1>a, <1>2 DEF Stop, Goto, MayCall, UseInv, OnlyServing, Waited, ThreadPlaces
<1>3. CASE WaitExclusive(t)
  BY <1>0, <1>a, <1>3
     DEF WaitExclusive, ExclusiveDone, Goto, UseInv, OnlyServing, Waited, ThreadPlaces
<1> QED BY <1>1, <1>2, <1>3 DEF ThreadStep

(* A record is begun and carried on by threads that run a service.         *)
LEMMA UseSends ==
    ASSUME UseInv, LogTypes, NEW s \in Senders, Sends(s)
    PROVE  UseInv'
<1>1. UNCHANGED <<tpc, exclusive>> /\ RunsService(s)
  BY DEF Sends, threadVars
<1>2. \A t \in Senders : t # s => spc'[t] = spc[t]
  BY DEF Sends, SendStep, SendBegin, SendPush, SendCount, SendLook, SendNotify, SenderGoto,
     LogTypes
<1>3. Workers \subseteq Senders /\ ExThread \in Senders /\ ExThread \notin Workers
  BY ShutdownAssumption
<1>4. CASE s = ExThread
  BY <1>1, <1>2, <1>3, <1>4 DEF UseInv, OnlyServing, Waited, RunsService
<1>5. CASE s # ExThread
  BY <1>1, <1>2, <1>3, <1>5 DEF UseInv, OnlyServing, Waited, RunsService
<1> QED BY <1>4, <1>5

LEMMA UseUntouched ==
    ASSUME UseInv, UNCHANGED <<tpc, spc>>,
           exclusive' = exclusive \/ (exclusive' = "ended" /\ spc[ExThread] = "out")
    PROVE  UseInv'
BY DEF UseInv, OnlyServing, Waited

LEMMA UseNext ==
    LogInv /\ ExtInv /\ UseInv /\ [Next]_vars => UseInv'
<1> SUFFICES ASSUME LogInv, ExtInv, UseInv, [Next]_vars PROVE UseInv'
  OBVIOUS
<1>0. LogTypes /\ ExtTypes BY DEF LogInv, ExtInv
<1>1. ASSUME NEW t \in Loops, ThreadStep(t) PROVE UseInv'
  BY <1>0, <1>1, UseLoopThread
<1>2. ASSUME NEW s \in Senders, Sends(s) PROVE UseInv'
  BY <1>0, <1>2, UseSends
<1>3. CASE \/ LoggerThread \/ CallShutdown \/ ShutdownStep \/ Deinit
           \/ \E e \in Ext : ExtCreate(e) \/ ExtBegin(e) \/ ExtEnd(e)
  <2>1. UNCHANGED <<tpc, spc, exclusive>>
    BY <1>3 DEF LoggerThread, LoggerStart, LoggerBegin, LoggerExit, LoggerEnd, CallShutdown,
       ShutdownStep, AskLoop, ClearLoop, NotifyLogger, Deinit, ExtCreate, ExtBegin, ExtEnd,
       loggerVars, senderVars, threadVars
  <2> QED BY <2>1, UseUntouched
<1>4. CASE ExclusiveEnds
  BY <1>4, UseUntouched DEF ExclusiveEnds, MayCall, loggerVars, senderVars, threadVars
<1>5. CASE LoggerRuns
  <2>1. UNCHANGED <<tpc, exclusive>> BY <1>5 DEF LoggerRuns, threadVars
  <2>2. UNCHANGED spc
    BY <1>5 DEF LoggerRuns, LogStep, Top, PopMsg, PopBak, LogWaiting, LogWaited, GoIdle,
       TestIdle, LockIdle, WaitTimeout, GoBusy, senderVars
  <2> QED BY <2>1, <2>2, UseUntouched
<1>6. CASE UNCHANGED vars
  BY <1>6, UseUntouched DEF vars, threadVars, loggerVars, senderVars
<1> QED BY <1>1, <1>2, <1>3, <1>4, <1>5, <1>6 DEF Next

(* When everything is destroyed no service runs or is in the middle of a   *)
(* record, and the only external threads that still run are those that     *)
(* counted themselves after the last look (NotFreedInUse).                 *)
THEOREM FreedBehindAll == Spec => []NotFreedInUse
<1>1. ExtInv /\ UseInv => NotFreedInUse
  <2> SUFFICES ASSUME ExtInv, UseInv, freed PROVE NotFreedInUse
    BY DEF NotFreedInUse
  <2>1. \A t \in Loops : tpc[t] = "end"
    BY DEF ExtInv, FreedLast
  <2>2. \A e \in Ext : ext[e] = "runs" => e \in late
    BY <2>1 DEF ExtInv, OnlyLate, AllPast, Running
  <2>3. exclusive = "ended"
    BY <2>1, ShutdownAssumption DEF UseInv, Waited, Loops
  <2>4. \A s \in Senders : spc[s] = "out"
    BY <2>1, <2>3, ShutdownAssumption DEF UseInv, OnlyServing, Loops
  <2> QED BY <2>2, <2>3, <2>4 DEF NotFreedInUse
<1>2. LogInv /\ ExtInv /\ UseInv /\ [Next]_vars => (LogInv /\ ExtInv /\ UseInv)'
  BY LogNext, ExtNext, UseNext
<1>3. Init => LogInv /\ ExtInv /\ UseInv
  BY LogInit, ExtInit, UseInit
<1> QED BY <1>1, <1>2, <1>3, PTL DEF Spec

-----------------------------------------------------------------------------
(* A queue of requests or of messages                                      *)

(* It has an entry with a command for a connection; at most one such; none *)
(* of one command behind one of another.                                   *)
Has(q, cmd, c) == \E i \in 1 .. Len(q) : q[i].cmd = cmd /\ q[i].id = c
Single(q, cmd, c) ==
    \A i, j \in 1 .. Len(q) :
        q[i].cmd = cmd /\ q[i].id = c /\ q[j].cmd = cmd /\ q[j].id = c => i = j
NoneBehind(q, cmd, first, c) ==
    \A i, j \in 1 .. Len(q) :
        q[i].cmd = first /\ q[i].id = c /\ i < j => q[j].cmd # cmd \/ q[j].id # c
Is(t, cmd, c) == t.cmd = cmd /\ t.id = c

(* The empty queue has no entry, and no two alike.                         *)
LEMMA EmptyHas ==
    ASSUME NEW cmd, NEW c
    PROVE  ~Has(<< >>, cmd, c) /\ Single(<< >>, cmd, c)
BY DEF Has, Single

(* ... and none behind another.                                            *)
LEMMA EmptyBehind ==
    ASSUME NEW cmd, NEW first, NEW c
    PROVE  NoneBehind(<< >>, cmd, first, c)
BY DEF NoneBehind

(* What an entry at the end of a queue adds,                               *)
LEMMA AppendHas ==
    ASSUME NEW S, NEW q \in Seq(S), NEW t \in S, NEW cmd, NEW c
    PROVE  Has(Append(q, t), cmd, c) <=> Has(q, cmd, c) \/ Is(t, cmd, c)
<1>1. Len(q) \in Nat /\ Len(Append(q, t)) = Len(q) + 1 OBVIOUS
<1>2. \A i \in 1 .. Len(q) : Append(q, t)[i] = q[i] OBVIOUS
<1>3. Append(q, t)[Len(q) + 1] = t OBVIOUS
<1>4. \A i \in 1 .. Len(q) + 1 : i \in 1 .. Len(q) \/ i = Len(q) + 1
  BY <1>1
<1>5. 1 .. Len(q) \subseteq 1 .. Len(q) + 1 /\ Len(q) + 1 \in 1 .. Len(q) + 1
  BY <1>1
<1> QED BY <1>1, <1>2, <1>3, <1>4, <1>5 DEF Has, Is

(* ... that it is not a second one of its kind,                            *)
LEMMA AppendSingle ==
    ASSUME NEW S, NEW q \in Seq(S), NEW t \in S, NEW cmd, NEW c,
           Single(q, cmd, c), Is(t, cmd, c) => ~Has(q, cmd, c)
    PROVE  Single(Append(q, t), cmd, c)
<1>1. Len(q) \in Nat /\ Len(Append(q, t)) = Len(q) + 1 OBVIOUS
<1>2. \A i \in 1 .. Len(q) : Append(q, t)[i] = q[i] OBVIOUS
<1>3. Append(q, t)[Len(q) + 1] = t OBVIOUS
<1>4. \A i \in 1 .. Len(q) + 1 : i \in 1 .. Len(q) \/ i = Len(q) + 1
  BY <1>1
<1> QED BY <1>1, <1>2, <1>3, <1>4 DEF Has, Is, Single

(* ... and that it comes behind none it may not.                           *)
LEMMA AppendBehind ==
    ASSUME NEW S, NEW q \in Seq(S), NEW t \in S, NEW cmd, NEW first, NEW c,
           NoneBehind(q, cmd, first, c), Is(t, cmd, c) => ~Has(q, first, c)
    PROVE  NoneBehind(Append(q, t), cmd, first, c)
<1>1. Len(q) \in Nat /\ Len(Append(q, t)) = Len(q) + 1 OBVIOUS
<1>2. \A i \in 1 .. Len(q) : Append(q, t)[i] = q[i] OBVIOUS
<1>3. Append(q, t)[Len(q) + 1] = t OBVIOUS
<1>4. \A i \in 1 .. Len(q) + 1 : i \in 1 .. Len(q) \/ i = Len(q) + 1
  BY <1>1
<1>5. \A i, j \in 1 .. Len(q) + 1 : i < j => i \in 1 .. Len(q)
  BY <1>1
<1> QED BY <1>1, <1>2, <1>3, <1>4, <1>5 DEF Has, Is, NoneBehind

(* The entries of a queue are its head and those of its tail.              *)
LEMMA TailEntries ==
    ASSUME NEW S, NEW q \in Seq(S), q # << >>
    PROVE  /\ Len(q) \in Nat \ {0} /\ Len(Tail(q)) = Len(q) - 1 /\ Head(q) = q[1]
           /\ Tail(q) \in Seq(S) /\ Head(q) \in S
           /\ \A i \in 1 .. Len(q) - 1 : Tail(q)[i] = q[i + 1] /\ i + 1 \in 1 .. Len(q)
           /\ \A i \in 1 .. Len(q) :
                 i = 1 \/ (i - 1 \in 1 .. Len(q) - 1 /\ q[i] = Tail(q)[i - 1])
<1>1. Len(q) \in Nat \ {0} /\ Len(Tail(q)) = Len(q) - 1 /\ Head(q) = q[1]
  OBVIOUS
<1>2. Tail(q) \in Seq(S) /\ Head(q) \in S
  OBVIOUS
<1>3. \A i \in 1 .. Len(q) - 1 : Tail(q)[i] = q[i + 1] /\ i + 1 \in 1 .. Len(q)
  OBVIOUS
<1>4. \A i \in 1 .. Len(q) : i = 1 \/ (i - 1 \in 1 .. Len(q) - 1 /\ (i - 1) + 1 = i)
  BY <1>1
<1> QED BY <1>1, <1>2, <1>3, <1>4

(* What a queue has without its head,                                      *)
LEMMA TailHas ==
    ASSUME NEW S, NEW q \in Seq(S), q # << >>, NEW cmd, NEW c
    PROVE  Has(q, cmd, c) <=> Is(Head(q), cmd, c) \/ Has(Tail(q), cmd, c)
<1>1. Has(Tail(q), cmd, c) => Has(q, cmd, c)
  BY TailEntries DEF Has
<1>2. Is(Head(q), cmd, c) => Has(q, cmd, c)
  <2>1. 1 \in 1 .. Len(q) BY TailEntries
  <2> QED BY <2>1, TailEntries DEF Has, Is
<1>3. Has(q, cmd, c) => Is(Head(q), cmd, c) \/ Has(Tail(q), cmd, c)
  <2> SUFFICES ASSUME NEW i \in 1 .. Len(q), q[i].cmd = cmd, q[i].id = c, ~Is(Head(q), cmd, c)
               PROVE  Has(Tail(q), cmd, c)
    BY DEF Has
  <2>1. i - 1 \in 1 .. Len(Tail(q)) /\ q[i] = Tail(q)[i - 1]
    BY TailEntries DEF Is
  <2> QED BY <2>1 DEF Has
<1> QED BY <1>1, <1>2, <1>3

(* ... that one of a kind is gone with it,                                 *)
LEMMA TailSingle ==
    ASSUME NEW S, NEW q \in Seq(S), q # << >>, NEW cmd, NEW c, Single(q, cmd, c)
    PROVE  /\ Single(Tail(q), cmd, c)
           /\ Is(Head(q), cmd, c) => ~Has(Tail(q), cmd, c)
<1>1. 1 \in 1 .. Len(q)
  BY TailEntries
<1>2. Single(Tail(q), cmd, c)
  <2> SUFFICES ASSUME NEW i \in 1 .. Len(q) - 1, NEW j \in 1 .. Len(q) - 1,
                      Is(Tail(q)[i], cmd, c), Is(Tail(q)[j], cmd, c)
               PROVE  i = j
    BY TailEntries DEF Single, Is
  <2>1. i + 1 = j + 1
    BY TailEntries DEF Single, Is
  <2> QED BY <2>1
<1>3. Is(Head(q), cmd, c) => ~Has(Tail(q), cmd, c)
  <2> SUFFICES ASSUME Is(q[1], cmd, c), NEW i \in 1 .. Len(q) - 1, Is(Tail(q)[i], cmd, c)
               PROVE  FALSE
    BY TailEntries DEF Has, Is
  <2>1. i + 1 = 1
    BY <1>1, TailEntries DEF Single, Is
  <2> QED BY <2>1
<1> QED BY <1>2, <1>3

(* ... and what must not come behind it is not there.                      *)
LEMMA TailBehind ==
    ASSUME NEW S, NEW q \in Seq(S), q # << >>, NEW cmd, NEW first, NEW c,
           NoneBehind(q, cmd, first, c)
    PROVE  /\ NoneBehind(Tail(q), cmd, first, c)
           /\ Is(Head(q), first, c) => ~Has(Tail(q), cmd, c)
<1>1. 1 \in 1 .. Len(q)
  BY TailEntries
<1>2. NoneBehind(Tail(q), cmd, first, c)
  <2> SUFFICES ASSUME NEW i \in 1 .. Len(q) - 1, NEW j \in 1 .. Len(q) - 1, i < j,
                      Is(Tail(q)[i], first, c)
               PROVE  ~Is(Tail(q)[j], cmd, c)
    BY TailEntries DEF NoneBehind, Is
  <2>1. i + 1 < j + 1
    OBVIOUS
  <2> QED BY <2>1, TailEntries DEF NoneBehind, Is
<1>3. Is(Head(q), first, c) => ~Has(Tail(q), cmd, c)
  <2> SUFFICES ASSUME Is(q[1], first, c), NEW i \in 1 .. Len(q) - 1, Is(Tail(q)[i], cmd, c)
               PROVE  FALSE
    BY TailEntries DEF Has, Is
  <2>1. 1 < i + 1
    OBVIOUS
  <2> QED BY <1>1, <2>1, TailEntries DEF NoneBehind, Is
<1> QED BY <1>2, <1>3

(* r is q with an entry of cmd for d behind it, or without one before it.  *)
Grown(q, r, k, d) ==
    /\ \A cmd, c : Has(r, cmd, c) <=> Has(q, cmd, c) \/ (cmd = k /\ c = d)
    /\ \A cmd, c : Single(q, cmd, c) /\ ~(cmd = k /\ c = d /\ Has(q, k, d)) => Single(r, cmd, c)
    /\ \A cmd, first, c : NoneBehind(q, cmd, first, c) /\ ~(cmd = k /\ c = d /\ Has(q, first, d))
                             => NoneBehind(r, cmd, first, c)
Shrunk(q, r, k, d) ==
    /\ \A cmd, c : Has(q, cmd, c) <=> (cmd = k /\ c = d) \/ Has(r, cmd, c)
    /\ \A cmd, c : Single(q, cmd, c) => Single(r, cmd, c)
    /\ Single(q, k, d) => ~Has(r, k, d)
    /\ \A cmd, first, c : NoneBehind(q, cmd, first, c) => NoneBehind(r, cmd, first, c)
    /\ \A cmd : NoneBehind(q, cmd, k, d) => ~Has(r, cmd, d)

(* A request or a message is put into a queue,                             *)
LEMMA GrownByAppend ==
    ASSUME NEW S, NEW q \in Seq(S), NEW t \in S
    PROVE  Append(q, t) \in Seq(S) /\ Grown(q, Append(q, t), t.cmd, t.id)
<1>1. Append(q, t) \in Seq(S)
  OBVIOUS
<1>2. \A cmd, c : Is(t, cmd, c) <=> cmd = t.cmd /\ c = t.id
  BY DEF Is
<1>3. \A cmd, c : Has(Append(q, t), cmd, c) <=> Has(q, cmd, c) \/ (cmd = t.cmd /\ c = t.id)
  BY <1>2, AppendHas
<1>4. \A cmd, c : Single(q, cmd, c) /\ ~(cmd = t.cmd /\ c = t.id /\ Has(q, t.cmd, t.id))
                     => Single(Append(q, t), cmd, c)
  BY <1>2, AppendSingle
<1>5. \A cmd, first, c : NoneBehind(q, cmd, first, c)
                         /\ ~(cmd = t.cmd /\ c = t.id /\ Has(q, first, t.id))
                            => NoneBehind(Append(q, t), cmd, first, c)
  BY <1>2, AppendBehind
<1> QED BY <1>1, <1>3, <1>4, <1>5 DEF Grown

(* ... and taken out of it.                                                *)
LEMMA ShrunkByTail ==
    ASSUME NEW S, NEW q \in Seq(S), q # << >>
    PROVE  /\ Tail(q) \in Seq(S) /\ Head(q) \in S
           /\ Shrunk(q, Tail(q), Head(q).cmd, Head(q).id)
<1> DEFINE h == Head(q)
<1>1. Tail(q) \in Seq(S) /\ h \in S
  BY TailEntries
<1>2. \A cmd, c : Is(h, cmd, c) <=> cmd = h.cmd /\ c = h.id
  BY DEF Is
<1>3. \A cmd, c : Has(q, cmd, c) <=> (cmd = h.cmd /\ c = h.id) \/ Has(Tail(q), cmd, c)
  BY <1>2, TailHas
<1>4. \A cmd, c : Single(q, cmd, c) => Single(Tail(q), cmd, c)
  BY TailSingle
<1>5. Single(q, h.cmd, h.id) => ~Has(Tail(q), h.cmd, h.id)
  BY <1>2, TailSingle
<1>6. \A cmd, first, c : NoneBehind(q, cmd, first, c) => NoneBehind(Tail(q), cmd, first, c)
  BY TailBehind
<1>7. \A cmd : NoneBehind(q, cmd, h.cmd, h.id) => ~Has(Tail(q), cmd, h.id)
  BY <1>2, TailBehind
<1> HIDE DEF h
<1> QED BY <1>1, <1>3, <1>4, <1>5, <1>6, <1>7 DEF Shrunk, h

(* Bytes in a row join up, and a sequence cut in two is the two parts.     *)
LEMMA BytesJoin ==
    ASSUME NEW n \in Nat, NEW k \in Nat
    PROVE  /\ Bytes(n, k) \in Seq(Int) /\ Len(Bytes(n, k)) = k
           /\ Bytes(0, n) \o Bytes(n, k) = Bytes(0, n + k)
<1>1. /\ Bytes(n, k) \in Seq(Int) /\ Len(Bytes(n, k)) = k
      /\ Bytes(0, n) \in Seq(Int) /\ Len(Bytes(0, n)) = n
      /\ Bytes(0, n + k) \in Seq(Int) /\ Len(Bytes(0, n + k)) = n + k
  BY DEF Bytes
<1>2. /\ \A i \in 1 .. k : Bytes(n, k)[i] = n + i
      /\ \A i \in 1 .. n : Bytes(0, n)[i] = i
      /\ \A i \in 1 .. n + k : Bytes(0, n + k)[i] = i
  BY DEF Bytes
<1>3. PICK l : l = Bytes(0, n) \o Bytes(n, k)
  OBVIOUS
<1>4. /\ l \in Seq(Int) /\ Len(l) = n + k
      /\ \A i \in 1 .. n + k : l[i] = IF i <= n THEN Bytes(0, n)[i] ELSE Bytes(n, k)[i - n]
  <2>1. PICK a, b : a = Bytes(0, n) /\ b = Bytes(n, k)
    OBVIOUS
  <2>2. a \in Seq(Int) /\ b \in Seq(Int) /\ Len(a) = n /\ Len(b) = k
    BY <1>1, <2>1
  <2>3. /\ a \o b \in Seq(Int) /\ Len(a \o b) = Len(a) + Len(b)
        /\ \A i \in 1 .. Len(a) + Len(b) : (a \o b)[i] =
              IF i <= Len(a) THEN a[i] ELSE b[i - Len(a)]
    BY <2>2, ConcatProperties
  <2> QED BY <1>3, <2>1, <2>2, <2>3
<1>5. \A i \in 1 .. n + k : l[i] = i
  <2> SUFFICES ASSUME NEW i \in 1 .. n + k
               PROVE  l[i] = i
    OBVIOUS
  <2>1. i <= n => i \in 1 .. n
    OBVIOUS
  <2>2. ~(i <= n) => i - n \in 1 .. k /\ n + (i - n) = i
    OBVIOUS
  <2> QED BY <2>1, <2>2, <1>2, <1>4
<1>6. l = Bytes(0, n + k)
  BY <1>1, <1>2, <1>4, <1>5, SeqEqual
<1> QED BY <1>1, <1>3, <1>6

(* What joins q to w, and bytes to both.                                   *)
LEMMA Joining ==
    ASSUME NEW w \in Seq(Int), NEW q \in Seq(Int), NEW b \in Seq(Int)
    PROVE  /\ (w \o q) \o b = w \o (q \o b) /\ w \o b \in Seq(Int)
           /\ Len(w \o b) = Len(w) + Len(b)
           /\ Len(q) = 0 => w \o q = w /\ (w \o b) \o q = w \o b
<1>1. (w \o q) \o b = w \o (q \o b)
  <2>1. PICK S : S = Int
    OBVIOUS
  <2>2. w \in Seq(S) /\ q \in Seq(S) /\ b \in Seq(S)
    BY <2>1
  <2>3. \A x, y, z \in Seq(S) : (x \o y) \o z = x \o (y \o z)
    BY ConcatAssociative
  <2> QED BY <2>2, <2>3
<1>2. w \o b \in Seq(Int) /\ Len(w \o b) = Len(w) + Len(b)
  BY ConcatProperties
<1>3. Len(q) = 0 => q = << >>
  BY EmptySeq
<1>4. w \o << >> = w /\ (w \o b) \o << >> = w \o b
  BY <1>2, ConcatEmptySeq
<1> QED BY <1>1, <1>2, <1>3, <1>4

(* A sequence cut in two is the two parts.                                 *)
LEMMA Splitting ==
    ASSUME NEW q \in Seq(Int), NEW k \in Nat, k <= Len(q)
    PROVE  /\ SubSeq(q, 1, k) \in Seq(Int) /\ SubSeq(q, k + 1, Len(q)) \in Seq(Int)
           /\ Len(SubSeq(q, k + 1, Len(q))) = Len(q) - k
           /\ SubSeq(q, 1, k) \o SubSeq(q, k + 1, Len(q)) = q
<1>1. Len(q) \in Nat /\ \A i \in 1 .. Len(q) : q[i] \in Int
  BY LenProperties, ElementOfSeq
<1>2. SubSeq(q, 1, k) \in Seq(Int)
  BY <1>1, SubSeqProperties
<1>3. /\ SubSeq(q, k + 1, Len(q)) \in Seq(Int)
      /\ Len(SubSeq(q, k + 1, Len(q))) = Len(q) - k
  <2>1. \A i \in k + 1 .. Len(q) : q[i] \in Int
    BY <1>1
  <2>2. /\ SubSeq(q, k + 1, Len(q)) \in Seq(Int)
        /\ Len(SubSeq(q, k + 1, Len(q)))
              = IF k + 1 <= Len(q) THEN Len(q) - (k + 1) + 1 ELSE 0
    BY <1>1, <2>1, SubSeqProperties
  <2> QED BY <1>1, <2>2
<1>4. SubSeq(q, 1, k) \o SubSeq(q, k + 1, Len(q)) = SubSeq(q, 1, Len(q))
  <2>1. 1 \in 1 .. Len(q) + 1 /\ k \in 1 - 1 .. Len(q) /\ Len(q) \in k .. Len(q)
    BY <1>1
  <2> QED BY <2>1, ConcatAdjacentSubSeq
<1> QED BY <1>2, <1>3, <1>4, SubSeqFull

(* The bytes in the service's hands come behind what waits.                *)
LEMMA JoinBehind ==
    ASSUME NEW w \in Seq(Int), NEW q \in Seq(Int), NEW n \in Nat, NEW k \in Nat, k <= n
    PROVE  w \o q = Bytes(0, n - k) =>
              \E r \in Seq(Int) : /\ r = q \o Bytes(n - k, k) /\ w \o r = Bytes(0, n)
                                  /\ Len(r) = Len(q) + k /\ Len(q) \in Nat
<1>1. n - k \in Nat /\ (n - k) + k = n
  OBVIOUS
<1>2. PICK b \in Seq(Int) : /\ b = Bytes(n - k, k) /\ Len(b) = k
                            /\ Bytes(0, n - k) \o b = Bytes(0, n)
  <2>1. PICK m \in Nat : m = n - k
    BY <1>1
  <2>2. /\ Bytes(m, k) \in Seq(Int) /\ Len(Bytes(m, k)) = k
        /\ Bytes(0, m) \o Bytes(m, k) = Bytes(0, m + k)
    BY BytesJoin
  <2>3. m + k = n
    BY <1>1, <2>1
  <2> QED BY <2>1, <2>2, <2>3
<1>3. (w \o q) \o b = w \o (q \o b)
  BY Joining
<1>4. q \o b \in Seq(Int) /\ Len(q \o b) = Len(q) + Len(b)
  BY ConcatProperties
<1>5. Len(q) \in Nat
  BY LenProperties
<1> QED BY <1>2, <1>3, <1>4, <1>5

(* A send adds SendLen to the bytes of the sends before.                   *)
LEMMA SendBytes ==
    ASSUME NEW s \in Nat
    PROVE  s * SendLen \in Nat /\ (s + 1) * SendLen = s * SendLen + SendLen
<1>1. SendLen \in Nat /\ SendLen >= 1
  BY NetAssumption
<1> QED BY <1>1

-----------------------------------------------------------------------------
(* The inductive invariant of Net                                          *)

Requests == {"TCP_ADD", "READ_OVER", "READ_WAIT", "SEND_WAIT", "TCP_CLOSE"}
Mails == {"conn_in", "read_ret"}
Asked(cmd, c) == Has(queTaskReq, cmd, c)
Mailed(cmd, c) == Has(inbox, cmd, c)
Conn == ctx.cnt4Net   \* the connection whose runtimes are in the slot
Live == cnt = Conn    \* ... and which has not been recycled

CtxType == [cnt4Net : Conns \union {NoConn}, closeCalled4Net : BOOLEAN,
            readOver4Net : BOOLEAN, pollIn : BOOLEAN, pollOut : BOOLEAN,
            inPoll : BOOLEAN, fd : BOOLEAN]
ReadType == [sockClosed : BOOLEAN, onReadWait : BOOLEAN, hasSendReadOver : BOOLEAN,
             readable : Nat, wait : BOOLEAN]
SendType == [sockClosed : BOOLEAN, closeCalled4Svc : BOOLEAN, unSendBytes : Nat,
             queUnSend : Seq(Int), sends : Nat]
IoType == [in : Nat, recv : Nat, peer : {"open", "half", "gone"}, wire : Seq(Int)]
RequestType == [cmd : Requests, id : Conns, used : Nat]
MailType == [cmd : Mails, id : Conns]

NetTypes ==
    /\ cnt \in Nat \ {0} /\ ctx \in CtxType /\ readRuntime \in ReadType
    /\ sendRuntime \in SendType /\ slot \in {"free", "used", "wait"}
    /\ queTaskReq \in Seq(RequestType) /\ io \in IoType
    /\ npc \in {"tasks", "poll", "fill", "trigger", "send", "sending", "subtract", "sent"}
    /\ seen \in Nat /\ evOut \in BOOLEAN
    /\ pc \in {"idle", "read", "closed?", "readwait", "send", "enqueue", "sendwait",
               "close", "tcpclose"}
    /\ op \in Conns \union {NoConn} /\ isNew \in BOOLEAN /\ local \in Nat
    /\ inbox \in Seq(MailType) /\ known \subseteq Conns /\ waiting \subseteq Conns
    /\ alive \in BOOLEAN /\ closed \subseteq Conns /\ over \subseteq Conns
    /\ closedUnsent \in BOOLEAN /\ fault \in {"none", "twice", "stale"}

(* The slot is Conn's until it is recycled, and nobody has heard of a      *)
(* later connection.                                                       *)
SlotPart ==
    /\ cnt = Conn \/ cnt = Conn + 1
    /\ slot = "used" <=> Live
    /\ \A c \in Conns, cmd \in Requests : Asked(cmd, c) => c <= Conn
    /\ \A c \in Conns, cmd \in Mails : Mailed(cmd, c) => c <= Conn
    /\ \A c \in known \union waiting \union closed \union over : c <= Conn
    /\ op <= Conn
    /\ ctx.pollOut => Live
    /\ npc \in {"send", "sending", "subtract", "sent"} => Live
    /\ npc \in {"fill", "trigger"} /\ evOut => Live

(* Before a service knows a connection, nothing but the news of it is on   *)
(* the way; a service that has gone asks for nothing.                      *)
HeardPart ==
    /\ pc = "idle" <=> op = NoConn
    /\ ~alive => pc = "idle" /\ known = {} /\ waiting = {} /\ inbox = << >>
    /\ pc # "idle" => op \in known
    /\ alive => \A c \in Conns :
          /\ \A cmd \in Requests \ {"TCP_ADD"} : Asked(cmd, c) => c \in known
          /\ Mailed("read_ret", c) => c \in known
          /\ c = Conn /\ (readRuntime.wait \/ ctx.readOver4Net) => c \in known
    /\ \A c \in Conns :
          /\ Mailed("conn_in", c) => c = cnt /\ Live /\ c \notin known
          /\ Single(inbox, "conn_in", c)
    /\ \A c \in Conns : Asked("TCP_ADD", c) =>
          /\ c = cnt /\ Live /\ c \notin known /\ ~Mailed("conn_in", c)
          /\ ~ctx.inPoll /\ npc \in {"tasks", "poll"} /\ ~readRuntime.wait
          /\ Single(queTaskReq, "TCP_ADD", c)
          /\ \A cmd \in Requests \ {"TCP_ADD"} : ~Asked(cmd, c)

(* A close is marked, asked for and done, and what the service had asked   *)
(* for before comes before it.                                             *)
ClosePart ==
    /\ sendRuntime.closeCalled4Svc <=> Conn \in closed
    /\ pc \in {"closed?", "readwait", "enqueue", "sendwait"} => op \notin closed
    /\ pc = "tcpclose" => op \in closed
    /\ ctx.closeCalled4Net =>
          Conn \in closed /\ ~Asked("READ_WAIT", Conn) /\ ~Asked("SEND_WAIT", Conn)
    /\ Live /\ Conn \in closed =>
          \/ ctx.closeCalled4Net \/ Asked("TCP_CLOSE", Conn)
          \/ pc = "tcpclose" /\ op = Conn
    /\ \A c \in Conns :
          /\ Asked("TCP_CLOSE", c) => c \in closed
          /\ NoneBehind(queTaskReq, "READ_WAIT", "TCP_CLOSE", c)
          /\ NoneBehind(queTaskReq, "SEND_WAIT", "TCP_CLOSE", c)

(* A read that is declared over is the last; a slot is not recycled while  *)
(* a request to read is on its way, and without close one to end it is the *)
(* only one.                                                               *)
OverPart ==
    /\ \A c \in Conns :
          /\ Asked("READ_OVER", c) => c \in over /\ (c = cnt \/ c \in closed)
          /\ Asked("READ_WAIT", c) => c = cnt
          /\ NoneBehind(queTaskReq, "READ_WAIT", "READ_OVER", c)
    /\ pc = "readwait" => op = cnt
    /\ ctx.readOver4Net => Conn \in over /\ ~Asked("READ_WAIT", Conn)
    /\ ~Live /\ readRuntime.wait => Conn \in closed
    /\ ~Live /\ Conn # NoConn /\ alive /\ Conn \notin closed =>
          readRuntime.hasSendReadOver /\ readRuntime.sockClosed
    /\ ~ctx.fd /\ Conn # NoConn /\ alive => Conn \in closed \union over

(* A read of Conn is in one place: the service, a request, the poller or a *)
(* message; or it is over.                                                 *)
SvcReads == /\ op = Conn
            /\ \/ pc = "read" /\ ~isNew
               \/ pc = "closed?" /\ ~readRuntime.hasSendReadOver
               \/ pc = "readwait"
Reads == SvcReads \/ Asked("READ_WAIT", Conn) \/ Mailed("read_ret", Conn) \/ readRuntime.wait
Overs == Asked("READ_OVER", Conn) \/ ctx.readOver4Net

OpenPart ==
    Live /\ Conn \notin closed =>
        /\ SvcReads => /\ ~Asked("READ_WAIT", Conn) /\ ~Mailed("read_ret", Conn)
                       /\ ~readRuntime.wait
        /\ Asked("READ_WAIT", Conn) => ~Mailed("read_ret", Conn) /\ ~readRuntime.wait
        /\ Mailed("read_ret", Conn) => ~readRuntime.wait
        /\ Single(queTaskReq, "READ_WAIT", Conn) /\ Single(inbox, "read_ret", Conn)
        /\ Single(queTaskReq, "READ_OVER", Conn)
        /\ ctx.readOver4Net => ~Asked("READ_OVER", Conn)
        /\ Overs => ~Reads /\ (alive => readRuntime.hasSendReadOver)
        /\ Reads => readRuntime.onReadWait /\ ~readRuntime.hasSendReadOver
        /\ readRuntime.hasSendReadOver => readRuntime.sockClosed

(* Once a read was over before the close, nothing of it is left but that.  *)
Done ==
    /\ readRuntime.hasSendReadOver /\ ~Reads
    /\ Single(queTaskReq, "READ_OVER", Conn)
    /\ ctx.readOver4Net => ~Asked("READ_OVER", Conn)

ShutPart ==
    /\ Live /\ Conn \in closed /\ ~Done =>
          /\ pc = "tcpclose" /\ op = Conn => ~Asked("READ_OVER", Conn) /\ ~ctx.readOver4Net
          /\ Asked("TCP_CLOSE", Conn) => ~ctx.readOver4Net
          /\ NoneBehind(queTaskReq, "TCP_CLOSE", "READ_OVER", Conn)
    /\ Live /\ ctx.closeCalled4Net /\ ~closedUnsent =>
          /\ ~readRuntime.wait
          /\ ctx.fd => Done /\ ctx.readOver4Net

(* Nobody loses the slot who has not closed it or read to the end.         *)
UserPart ==
    /\ ctx.fd => Live \/ closedUnsent
    /\ \A c \in known : cnt > c => c \in closed \union over
    /\ fault = "stale" => op \in closed \union over
    /\ fault = "twice" => queTaskReq # << >> /\ Head(queTaskReq).id \in closed

(* A reader that waits is on its way, or the poller watches for more than  *)
(* there was.                                                              *)
Short(q) == \A i \in 1 .. Len(q) : q[i].cmd = "READ_WAIT" => q[i].used < ReadLen
Watched == ctx.inPoll /\ ctx.pollIn
WaitPart ==
    /\ Short(queTaskReq) /\ (pc \in {"closed?", "readwait"} => local < ReadLen)
    /\ pc \in {"send", "enqueue", "sendwait", "close", "tcpclose"} => isNew
    /\ \A c \in waiting : ~closedUnsent =>
          \/ Mailed("read_ret", c)
          \/ op = c /\ ~isNew
          \/ c = cnt /\ Live /\ (Asked("READ_WAIT", c) \/ readRuntime.wait)
    /\ Live /\ ~readRuntime.sockClosed => ctx.inPoll \/ Asked("TCP_ADD", Conn)
    /\ readRuntime.wait /\ Live /\ ~closedUnsent =>
          IF npc = "trigger"
          THEN /\ readRuntime.sockClosed \/ Watched
               /\ seen = readRuntime.readable \/ ~Enough(readRuntime.readable)
          ELSE /\ Watched
               /\ \/ ~Enough(readRuntime.readable)
                  \/ npc = "fill" /\ seen = readRuntime.readable

(* What was sent and what is unsent make up the sends, but for the bytes   *)
(* in the service's hands; and unsent bytes are polled for.                *)
InHand == IF pc = "enqueue" THEN local ELSE 0
OrderPart ==
    /\ pc = "enqueue" => IF Mine THEN local <= Next1(sendRuntime)
                                 ELSE sendRuntime.sends = 0
    /\ io.wire \o sendRuntime.queUnSend = Bytes(0, Next1(sendRuntime) - InHand)
    /\ sendRuntime.unSendBytes =
          Len(sendRuntime.queUnSend) + (IF npc = "subtract" THEN seen ELSE 0)
    /\ npc = "sending" => seen <= Len(sendRuntime.queUnSend)
PolledPart ==
    /\ pc = "sendwait" /\ ~Mine => sendRuntime.unSendBytes = 0
    /\ sendRuntime.unSendBytes > 0 =>
          \/ Asked("SEND_WAIT", Conn) \/ pc = "sendwait"
          \/ sendRuntime.sockClosed \/ ~Live
          \/ ctx.pollOut /\ ~(npc = "sending" /\ seen < 1)

NetInv ==
    /\ NetTypes /\ SlotPart /\ HeardPart /\ ClosePart /\ OverPart /\ OpenPart
    /\ ShutPart /\ UserPart /\ WaitPart /\ OrderPart /\ PolledPart

(* No connection has the number of none.                                   *)
LEMMA ConnsAre == NoConn \notin Conns /\ NoConn = 0 /\ Conns \subseteq Nat \ {0}
BY NetAssumption DEF Conns, NoConn

(* What most steps use of the invariant.                                   *)
LEMMA NetNow ==
    ASSUME NetInv
    PROVE  /\ NetTypes /\ SlotPart /\ HeardPart /\ ClosePart /\ OverPart /\ OpenPart
           /\ ShutPart /\ UserPart /\ WaitPart /\ OrderPart /\ PolledPart
           /\ NoConn \notin known /\ NoConn \notin waiting /\ NoConn \notin closed
           /\ pc # "idle" => alive /\ op \in known /\ op \in Conns /\ op # NoConn
           /\ pc = "idle" => op = NoConn
           /\ cnt \in Nat \ {0} /\ Conn \in Nat /\ 0 <= Conn /\ (Live => Conn \in Conns)
<1>1. /\ NetTypes /\ SlotPart /\ HeardPart /\ ClosePart /\ OverPart /\ OpenPart
      /\ ShutPart /\ UserPart /\ WaitPart /\ OrderPart /\ PolledPart
  BY DEF NetInv
<1>2. NoConn \notin known /\ NoConn \notin waiting /\ NoConn \notin closed
  BY <1>1, ConnsAre DEF NetTypes
<1>3. pc # "idle" => alive /\ op \in known /\ op \in Conns /\ op # NoConn
  BY <1>1, <1>2 DEF HeardPart, NetTypes
<1>4. pc = "idle" => op = NoConn
  BY <1>1 DEF HeardPart
<1>5. cnt \in Nat \ {0} /\ Conn \in Nat /\ 0 <= Conn /\ (Live => Conn \in Conns)
  <2>1. cnt \in Nat \ {0} /\ Conn \in Conns \union {NoConn}
    BY <1>1 DEF NetTypes, CtxType, Conn
  <2> QED BY <2>1, ConnsAre DEF Live
<1> QED BY <1>1, <1>2, <1>3, <1>4, <1>5

(* A request the service makes,                                            *)
LEMMA Asking ==
    ASSUME NetTypes, NEW k \in Requests, NEW d \in Conns, NEW u \in Nat,
           k = "READ_WAIT" => u < ReadLen,
           queTaskReq' = Append(queTaskReq, [cmd |-> k, id |-> d, used |-> u])
    PROVE  /\ queTaskReq' \in Seq(RequestType) /\ Grown(queTaskReq, queTaskReq', k, d)
           /\ Short(queTaskReq) => Short(queTaskReq')
<1>1. PICK t : t = [cmd |-> k, id |-> d, used |-> u]
  OBVIOUS
<1>2. t \in RequestType /\ t.cmd = k /\ t.id = d /\ t.used = u
  BY <1>1 DEF RequestType
<1>3. queTaskReq \in Seq(RequestType) /\ queTaskReq' = Append(queTaskReq, t)
  BY <1>1 DEF NetTypes
<1>4. Short(queTaskReq) => Short(queTaskReq')
  <2>1. /\ Len(queTaskReq') = Len(queTaskReq) + 1 /\ Len(queTaskReq) \in Nat
        /\ \A i \in 1 .. Len(queTaskReq) : queTaskReq'[i] = queTaskReq[i]
        /\ queTaskReq'[Len(queTaskReq) + 1] = t
    BY <1>2, <1>3
  <2> QED BY <2>1, <1>2 DEF Short
<1> QED BY <1>2, <1>3, <1>4, GrownByAppend

(* ... and the net thread takes;                                           *)
LEMMA Serving ==
    ASSUME NetTypes, queTaskReq # << >>
    PROVE  \E c \in Conns, k \in Requests :
              /\ k = Head(queTaskReq).cmd /\ c = Head(queTaskReq).id /\ Asked(k, c)
              /\ Head(queTaskReq).used \in Nat
              /\ Tail(queTaskReq) \in Seq(RequestType)
              /\ Shrunk(queTaskReq, Tail(queTaskReq), k, c)
              /\ Short(queTaskReq) =>
                    /\ Short(Tail(queTaskReq))
                    /\ k = "READ_WAIT" => Head(queTaskReq).used < ReadLen
<1>1. PICK h : h = Head(queTaskReq)
  OBVIOUS
<1>2. queTaskReq \in Seq(RequestType)
  BY DEF NetTypes
<1>3. /\ h \in RequestType /\ Tail(queTaskReq) \in Seq(RequestType)
      /\ Shrunk(queTaskReq, Tail(queTaskReq), h.cmd, h.id)
  BY <1>1, <1>2, ShrunkByTail
<1>4. h.cmd \in Requests /\ h.id \in Conns /\ h.used \in Nat
  BY <1>3 DEF RequestType
<1>5. Asked(h.cmd, h.id)
  BY <1>3 DEF Shrunk, Asked
<1>6. Short(queTaskReq) => Short(Tail(queTaskReq)) /\ (h.cmd = "READ_WAIT" => h.used < ReadLen)
  <2>1. 1 \in 1 .. Len(queTaskReq) /\ h = queTaskReq[1]
    BY <1>1, <1>2, TailEntries
  <2> QED BY <2>1, <1>2, TailEntries DEF Short
<1> QED BY <1>1, <1>3, <1>4, <1>5, <1>6

(* a message the net thread sends,                                         *)
LEMMA Telling ==
    ASSUME NetTypes, NEW k \in Mails, NEW d \in Conns, inbox' = Append(inbox, Msg(k, d))
    PROVE  inbox' \in Seq(MailType) /\ Grown(inbox, inbox', k, d)
<1>1. PICK t : t = Msg(k, d)
  OBVIOUS
<1>2. t \in MailType /\ t.cmd = k /\ t.id = d
  BY <1>1 DEF MailType, Msg
<1>3. inbox \in Seq(MailType) /\ inbox' = Append(inbox, t)
  BY <1>1 DEF NetTypes
<1> QED BY <1>2, <1>3, GrownByAppend

(* ... and the service takes.                                              *)
LEMMA Hearing ==
    ASSUME NetTypes, inbox # << >>
    PROVE  \E c \in Conns, k \in Mails :
              /\ k = Head(inbox).cmd /\ c = Head(inbox).id /\ Mailed(k, c)
              /\ Tail(inbox) \in Seq(MailType) /\ Shrunk(inbox, Tail(inbox), k, c)
<1>1. PICK h : h = Head(inbox)
  OBVIOUS
<1>2. inbox \in Seq(MailType)
  BY DEF NetTypes
<1>3. h \in MailType /\ Tail(inbox) \in Seq(MailType) /\ Shrunk(inbox, Tail(inbox), h.cmd, h.id)
  BY <1>1, <1>2, ShrunkByTail
<1>4. h.cmd \in Mails /\ h.id \in Conns
  BY <1>3 DEF MailType
<1>5. Mailed(h.cmd, h.id)
  BY <1>3 DEF Shrunk, Mailed
<1> QED BY <1>1, <1>3, <1>4, <1>5

(* do_read_wait answers at once.                                           *)
MustAnswer == \/ Trig(readRuntime.readable, Head(queTaskReq).used)
              \/ readRuntime.sockClosed \/ ctx.closeCalled4Net

(* The net thread puts in a request of its own.                            *)
LEMMA Regrowing ==
    ASSUME NEW q \in Seq(RequestType), Short(q), NEW k \in Requests, k # "READ_WAIT",
           NEW c \in Conns, queTaskReq' = Append(q, [cmd |-> k, id |-> c, used |-> 0])
    PROVE  /\ queTaskReq' \in Seq(RequestType) /\ Grown(q, queTaskReq', k, c)
           /\ Short(queTaskReq)'
<1>1. PICK t : t = [cmd |-> k, id |-> c, used |-> 0]
  OBVIOUS
<1>2. t \in RequestType /\ t.cmd = k /\ t.id = c
  BY <1>1 DEF RequestType
<1>3. PICK r : r = Append(q, t)
  OBVIOUS
<1>4. /\ Len(r) = Len(q) + 1 /\ Len(q) \in Nat
      /\ \A i \in 1 .. Len(q) : r[i] = q[i]
      /\ r[Len(q) + 1] = t
  BY <1>2, <1>3
<1>5. Short(r)
  BY <1>2, <1>4 DEF Short
<1>6. r \in Seq(RequestType) /\ Grown(q, r, k, c)
  BY <1>2, <1>3, GrownByAppend
<1> QED BY <1>1, <1>3, <1>5, <1>6

(* on_tcp_read pauses.                                                     *)
Pausing == /\ ~readRuntime.sockClosed /\ seen >= RecvBufLen
           /\ ~readRuntime.wait \/ Enough(seen)

-----------------------------------------------------------------------------
(* The service's steps keep the invariant.  A step that takes two ways     *)
(* in the code has a lemma for each.                                       *)

(* A call begins on a connection the service knows and the slot still has. *)
LEMMA CallOk ==
    ASSUME NetInv, fault = "none", Call
    PROVE  NetInv'
<1>0. /\ NetTypes /\ SlotPart /\ HeardPart /\ ClosePart /\ OverPart /\ OpenPart
      /\ ShutPart /\ UserPart /\ WaitPart /\ OrderPart /\ PolledPart
      /\ NoConn \notin known /\ NoConn \notin waiting /\ NoConn \notin closed
      /\ pc # "idle" => alive /\ op \in known /\ op \in Conns /\ op # NoConn
      /\ pc = "idle" => op = NoConn
  BY NetNow
<1>1. /\ pc = "idle" /\ pc' \in {"read", "close", "send"} /\ op' \in known /\ cnt = op'
      /\ op' # NoConn
      /\ isNew' = TRUE /\ local' = 0
      /\ UNCHANGED <<cnt, ctx, readRuntime, sendRuntime, slot, queTaskReq, io, npc, seen, evOut,
                     inbox, known, waiting, alive, closed, over, closedUnsent, fault>>
  BY <1>0 DEF Call, BeginCall, At, sockVars, netVars, boxVars, ghosts
<1>2. NetTypes'
  BY <1>0, <1>1, ConnsAre DEF NetTypes
<1>3. SlotPart'
  BY <1>0, <1>1, ConnsAre DEF SlotPart, Asked, Mailed, Conn, Live
<1>4. HeardPart'
  BY <1>0, <1>1, ConnsAre DEF HeardPart, Asked, Mailed, Conn, Live
<1>5. ClosePart'
  BY <1>0, <1>1, ConnsAre DEF ClosePart, Asked, Mailed, Conn, Live
<1>6. OverPart'
  BY <1>0, <1>1, ConnsAre DEF OverPart, Asked, Mailed, Conn, Live
<1>7. OpenPart'
  BY <1>0, <1>1, ConnsAre DEF OpenPart, SvcReads, Reads, Overs, Asked, Mailed, Conn, Live
<1>8. ShutPart'
  BY <1>0, <1>1, ConnsAre DEF ShutPart, Done, SvcReads, Reads, Asked, Mailed, Conn, Live
<1>9. UserPart'
  BY <1>0, <1>1, ConnsAre DEF UserPart, Conn, Live
<1>10. WaitPart'
  BY <1>0, <1>1, ConnsAre DEF WaitPart, Watched, Asked, Mailed, Conn, Live
<1>11. OrderPart'
  BY <1>0, <1>1, ConnsAre DEF OrderPart, InHand, Mine, Conn
<1>12. PolledPart'
  BY <1>0, <1>1, ConnsAre DEF PolledPart, Mine, Asked, Mailed, Conn, Live
<1> QED BY <1>2, <1>3, <1>4, <1>5, <1>6, <1>7, <1>8, <1>9, <1>10, <1>11, <1>12 DEF NetInv

(* A service that goes takes its mailbox and its reads with it.            *)
LEMMA ExitOk ==
    ASSUME NetInv, fault = "none", SvcExit
    PROVE  NetInv'
<1>0. /\ NetTypes /\ SlotPart /\ HeardPart /\ ClosePart /\ OverPart /\ OpenPart
      /\ ShutPart /\ UserPart /\ WaitPart /\ OrderPart /\ PolledPart
      /\ NoConn \notin known /\ NoConn \notin waiting /\ NoConn \notin closed
      /\ pc # "idle" => alive /\ op \in known /\ op \in Conns /\ op # NoConn
      /\ pc = "idle" => op = NoConn
  BY NetNow
<1>1. /\ pc = "idle" /\ alive /\ alive' = FALSE /\ waiting' = {} /\ known' = {} /\ inbox' = << >>
      /\ UNCHANGED <<cnt, ctx, readRuntime, sendRuntime, slot, queTaskReq, io, npc, seen, evOut,
                     pc, op, isNew, local, closed, over, closedUnsent, fault>>
  BY <1>0 DEF SvcExit, At, sockVars, netVars, svcVars, ghosts
<1>2. /\ inbox' \in Seq(MailType)
      /\ \A cmd, c : ~Has(inbox', cmd, c) /\ Single(inbox', cmd, c)
  BY <1>1, EmptyHas
<1>3. NetTypes'
  BY <1>0, <1>1, <1>2, ConnsAre DEF NetTypes
<1>4. SlotPart'
  BY <1>0, <1>1, <1>2, ConnsAre DEF SlotPart, Asked, Mailed, Conn, Live
<1>5. HeardPart'
  BY <1>0, <1>1, <1>2, ConnsAre DEF HeardPart, Asked, Mailed, Conn, Live
<1>6. ClosePart'
  BY <1>0, <1>1, <1>2, ConnsAre DEF ClosePart, Asked, Mailed, Conn, Live
<1>7. OverPart'
  BY <1>0, <1>1, <1>2, ConnsAre DEF OverPart, Asked, Mailed, Conn, Live
<1>8. OpenPart'
  BY <1>0, <1>1, <1>2, ConnsAre DEF OpenPart, SvcReads, Reads, Overs, Asked, Mailed, Conn,
     Live
<1>9. ShutPart'
  BY <1>0, <1>1, <1>2, ConnsAre DEF ShutPart, Done, SvcReads, Reads, Asked, Mailed, Conn,
     Live
<1>10. UserPart'
  BY <1>0, <1>1, <1>2, ConnsAre DEF UserPart, Conn, Live
<1>11. WaitPart'
  BY <1>0, <1>1, <1>2, ConnsAre DEF WaitPart, Watched, Asked, Mailed, Conn, Live
<1>12. OrderPart'
  BY <1>0, <1>1, <1>2, ConnsAre DEF OrderPart, InHand, Mine, Conn
<1>13. PolledPart'
  BY <1>0, <1>1, <1>2, ConnsAre DEF PolledPart, Mine, Asked, Mailed, Conn, Live
<1> QED BY <1>3, <1>4, <1>5, <1>6, <1>7, <1>8, <1>9, <1>10, <1>11, <1>12, <1>13 DEF NetInv

(* The first the service hears of a connection.                            *)
LEMMA TakeConnInOk ==
    ASSUME NetInv, fault = "none", TakeConnIn
    PROVE  NetInv'
<1>0. /\ NetTypes /\ SlotPart /\ HeardPart /\ ClosePart /\ OverPart /\ OpenPart
      /\ ShutPart /\ UserPart /\ WaitPart /\ OrderPart /\ PolledPart
      /\ NoConn \notin known /\ NoConn \notin waiting /\ NoConn \notin closed
      /\ pc # "idle" => alive /\ op \in known /\ op \in Conns /\ op # NoConn
      /\ pc = "idle" => op = NoConn
      /\ cnt \in Nat \ {0} /\ Conn \in Nat /\ 0 <= Conn /\ (Live => Conn \in Conns)
  BY NetNow
<1>1. /\ pc = "idle" /\ alive /\ inbox # << >> /\ Head(inbox).cmd = "conn_in" /\ inbox' = Tail(inbox)
      /\ known' = known \union {Head(inbox).id}
      /\ UNCHANGED <<cnt, ctx, readRuntime, sendRuntime, slot, queTaskReq, io, npc, seen, evOut,
                     pc, op, isNew, local, waiting, alive, closed, over, closedUnsent, fault>>
  BY <1>0 DEF TakeConnIn, sockVars, netVars, boxVars, svcVars, ghosts, At, Return, Mine
<1>2. PICK c \in Conns : /\ c = Head(inbox).id /\ Mailed("conn_in", c) /\ inbox' \in Seq(MailType)
                    /\ Shrunk(inbox, inbox', "conn_in", c)
  BY <1>0, <1>1, Hearing
<1>3. /\ c = cnt /\ Live /\ ~Has(inbox', "conn_in", c) /\ ~Asked("TCP_ADD", c)
      /\ known' = known \union {c} /\ c \in Conns
      /\ \A cmd, d : Has(inbox', cmd, d) <=> Mailed(cmd, d) /\ ~(cmd = "conn_in" /\ d = c)
      /\ \A cmd, d : Single(inbox, cmd, d) => Single(inbox', cmd, d)
  BY <1>0, <1>1, <1>2 DEF HeardPart, Mailed, Shrunk
<1>4. NetTypes'
  BY <1>0, <1>1, <1>2, <1>3, ConnsAre DEF NetTypes
<1>5. SlotPart'
  BY <1>0, <1>1, <1>2, <1>3, ConnsAre DEF SlotPart, Asked, Mailed, Conn, Live
<1>6. HeardPart'
  BY <1>0, <1>1, <1>2, <1>3, ConnsAre DEF HeardPart, Asked, Mailed, Conn, Live
<1>7. ClosePart'
  BY <1>0, <1>1, <1>2, <1>3, ConnsAre DEF ClosePart, Asked, Mailed, Conn, Live
<1>8. OverPart'
  BY <1>0, <1>1, <1>2, <1>3, ConnsAre DEF OverPart, Asked, Mailed, Conn, Live
<1>9. OpenPart'
  BY <1>0, <1>1, <1>2, <1>3, ConnsAre DEF OpenPart, SvcReads, Reads, Overs, Asked, Mailed,
     Conn, Live
<1>10. ShutPart'
  BY <1>0, <1>1, <1>2, <1>3, ConnsAre DEF ShutPart, Done, SvcReads, Reads, Asked, Mailed,
     Conn, Live
<1>11. UserPart'
  BY <1>0, <1>1, <1>2, <1>3, ConnsAre DEF UserPart, Conn, Live
<1>12. WaitPart'
  BY <1>0, <1>1, <1>2, <1>3, ConnsAre DEF WaitPart, Watched, Asked, Mailed, Conn, Live
<1>13. OrderPart'
  BY <1>0, <1>1, <1>2, <1>3, ConnsAre DEF OrderPart, InHand, Mine, Conn
<1>14. PolledPart'
  BY <1>0, <1>1, <1>2, <1>3, ConnsAre DEF PolledPart, Mine, Asked, Mailed, Conn, Live
<1> QED BY <1>4, <1>5, <1>6, <1>7, <1>8, <1>9, <1>10, <1>11, <1>12, <1>13, <1>14 DEF NetInv

(* A notification for the connection in the slot: its read goes on.        *)
LEMMA TakeReadRetOk ==
    ASSUME NetInv, fault = "none", TakeReadRet, cnt = Head(inbox).id
    PROVE  NetInv'
<1>0. /\ NetTypes /\ SlotPart /\ HeardPart /\ ClosePart /\ OverPart /\ OpenPart
      /\ ShutPart /\ UserPart /\ WaitPart /\ OrderPart /\ PolledPart
      /\ NoConn \notin known /\ NoConn \notin waiting /\ NoConn \notin closed
      /\ pc # "idle" => alive /\ op \in known /\ op \in Conns /\ op # NoConn
      /\ pc = "idle" => op = NoConn
      /\ cnt \in Nat \ {0} /\ Conn \in Nat /\ 0 <= Conn /\ (Live => Conn \in Conns)
  BY NetNow
<1>1. /\ pc = "idle" /\ alive /\ inbox # << >> /\ Head(inbox).cmd = "read_ret" /\ inbox' = Tail(inbox)
      /\ pc' = "read" /\ op' = cnt /\ op' = Head(inbox).id /\ isNew' = FALSE /\ local' = 0
      /\ waiting' = waiting
      /\ UNCHANGED <<cnt, ctx, readRuntime, sendRuntime, slot, queTaskReq, io, npc, seen, evOut,
                     known, alive, closed, over, closedUnsent, fault>>
  BY <1>0 DEF TakeReadRet, sockVars, netVars, boxVars, svcVars, ghosts, At, Return, Mine
<1>2. PICK c \in Conns : /\ c = Head(inbox).id /\ Mailed("read_ret", c) /\ inbox' \in Seq(MailType)
                    /\ Shrunk(inbox, inbox', "read_ret", c)
  BY <1>0, <1>1, Hearing
<1>3. /\ c \in known /\ c # NoConn /\ c <= Conn
      /\ \A cmd, d : Has(inbox', cmd, d) => Mailed(cmd, d)
      /\ \A cmd, d : Mailed(cmd, d) => Has(inbox', cmd, d) \/ (cmd = "read_ret" /\ d = c)
      /\ \A cmd, d : Single(inbox, cmd, d) => Single(inbox', cmd, d)
      /\ Single(inbox, "read_ret", c) => ~Has(inbox', "read_ret", c)
  BY <1>0, <1>1, <1>2, ConnsAre DEF HeardPart, SlotPart, Mails, Mailed, Shrunk
<1>4. c = cnt /\ c = Conn /\ Live
  BY <1>0, <1>1, <1>2, <1>3 DEF SlotPart, Live
<1>5. NetTypes'
  BY <1>0, <1>1, <1>2, <1>3, <1>4, ConnsAre DEF NetTypes
<1>6. SlotPart'
  BY <1>0, <1>1, <1>2, <1>3, <1>4, ConnsAre DEF SlotPart, Asked, Mailed, Conn, Live
<1>7. HeardPart'
  BY <1>0, <1>1, <1>2, <1>3, <1>4, ConnsAre DEF HeardPart, Asked, Mailed, Conn, Live
<1>8. ClosePart'
  BY <1>0, <1>1, <1>2, <1>3, <1>4, ConnsAre DEF ClosePart, Asked, Mailed, Conn, Live
<1>9. OverPart'
  BY <1>0, <1>1, <1>2, <1>3, <1>4, ConnsAre DEF OverPart, Asked, Mailed, Conn, Live
<1>10. OpenPart'
  BY <1>0, <1>1, <1>2, <1>3, <1>4, ConnsAre DEF OpenPart, SvcReads, Reads, Overs, Asked,
     Mailed, Conn, Live
<1>11. ShutPart'
  BY <1>0, <1>1, <1>2, <1>3, <1>4, ConnsAre DEF ShutPart, Done, SvcReads, Reads, Asked,
     Mailed, Conn, Live
<1>12. UserPart'
  BY <1>0, <1>1, <1>2, <1>3, <1>4, ConnsAre DEF UserPart, Conn, Live
<1>13. WaitPart'
  BY <1>0, <1>1, <1>2, <1>3, <1>4, ConnsAre DEF WaitPart, Watched, Asked, Mailed, Conn, Live
<1>14. OrderPart'
  BY <1>0, <1>1, <1>2, <1>3, <1>4, ConnsAre DEF OrderPart, InHand, Mine, Conn
<1>15. PolledPart'
  BY <1>0, <1>1, <1>2, <1>3, <1>4, ConnsAre DEF PolledPart, Mine, Asked, Mailed, Conn, Live
<1> QED BY <1>5, <1>6, <1>7, <1>8, <1>9, <1>10, <1>11, <1>12, <1>13, <1>14, <1>15 DEF NetInv

(* A notification for a connection the slot no longer carries.             *)
LEMMA TakeStaleRetOk ==
    ASSUME NetInv, fault = "none", TakeReadRet, cnt # Head(inbox).id
    PROVE  NetInv'
<1>0. /\ NetTypes /\ SlotPart /\ HeardPart /\ ClosePart /\ OverPart /\ OpenPart
      /\ ShutPart /\ UserPart /\ WaitPart /\ OrderPart /\ PolledPart
      /\ NoConn \notin known /\ NoConn \notin waiting /\ NoConn \notin closed
      /\ pc # "idle" => alive /\ op \in known /\ op \in Conns /\ op # NoConn
      /\ pc = "idle" => op = NoConn
      /\ cnt \in Nat \ {0} /\ Conn \in Nat /\ 0 <= Conn /\ (Live => Conn \in Conns)
  BY NetNow
<1>1. /\ pc = "idle" /\ alive /\ inbox # << >> /\ Head(inbox).cmd = "read_ret" /\ inbox' = Tail(inbox)
      /\ waiting' = waiting \ {Head(inbox).id} /\ UNCHANGED <<pc, op, isNew, local>>
      /\ UNCHANGED <<cnt, ctx, readRuntime, sendRuntime, slot, queTaskReq, io, npc, seen, evOut,
                     known, alive, closed, over, closedUnsent, fault>>
  BY <1>0 DEF TakeReadRet, sockVars, netVars, boxVars, svcVars, ghosts, At, Return, Mine
<1>2. PICK c \in Conns : /\ c = Head(inbox).id /\ Mailed("read_ret", c) /\ inbox' \in Seq(MailType)
                    /\ Shrunk(inbox, inbox', "read_ret", c)
  BY <1>0, <1>1, Hearing
<1>3. /\ c \in known /\ c # NoConn /\ c <= Conn
      /\ \A cmd, d : Has(inbox', cmd, d) => Mailed(cmd, d)
      /\ \A cmd, d : Mailed(cmd, d) => Has(inbox', cmd, d) \/ (cmd = "read_ret" /\ d = c)
      /\ \A cmd, d : Single(inbox, cmd, d) => Single(inbox', cmd, d)
      /\ Single(inbox, "read_ret", c) => ~Has(inbox', "read_ret", c)
  BY <1>0, <1>1, <1>2, ConnsAre DEF HeardPart, SlotPart, Mails, Mailed, Shrunk
<1>4. waiting' = waiting \ {c} /\ c # cnt
  BY <1>1, <1>2
<1>5. NetTypes'
  BY <1>0, <1>1, <1>2, <1>3, <1>4, ConnsAre DEF NetTypes
<1>6. SlotPart'
  BY <1>0, <1>1, <1>2, <1>3, <1>4, ConnsAre DEF SlotPart, Asked, Mailed, Conn, Live
<1>7. HeardPart'
  BY <1>0, <1>1, <1>2, <1>3, <1>4, ConnsAre DEF HeardPart, Asked, Mailed, Conn, Live
<1>8. ClosePart'
  BY <1>0, <1>1, <1>2, <1>3, <1>4, ConnsAre DEF ClosePart, Asked, Mailed, Conn, Live
<1>9. OverPart'
  BY <1>0, <1>1, <1>2, <1>3, <1>4, ConnsAre DEF OverPart, Asked, Mailed, Conn, Live
<1>10. OpenPart'
  BY <1>0, <1>1, <1>2, <1>3, <1>4, ConnsAre DEF OpenPart, SvcReads, Reads, Overs, Asked,
     Mailed, Conn, Live
<1>11. ShutPart'
  BY <1>0, <1>1, <1>2, <1>3, <1>4, ConnsAre DEF ShutPart, Done, SvcReads, Reads, Asked,
     Mailed, Conn, Live
<1>12. UserPart'
  BY <1>0, <1>1, <1>2, <1>3, <1>4, ConnsAre DEF UserPart, Conn, Live
<1>13. WaitPart'
  BY <1>0, <1>1, <1>2, <1>3, <1>4, ConnsAre DEF WaitPart, Watched, Asked, Mailed, Conn, Live
<1>14. OrderPart'
  BY <1>0, <1>1, <1>2, <1>3, <1>4, ConnsAre DEF OrderPart, InHand, Mine, Conn
<1>15. PolledPart'
  BY <1>0, <1>1, <1>2, <1>3, <1>4, ConnsAre DEF PolledPart, Mine, Asked, Mailed, Conn, Live
<1> QED BY <1>5, <1>6, <1>7, <1>8, <1>9, <1>10, <1>11, <1>12, <1>13, <1>14, <1>15 DEF NetInv

(* A read beside one that waits, or continued when none does.              *)
LEMMA ReadRefusedOk ==
    ASSUME NetInv, fault = "none", ReadRefused
    PROVE  NetInv'
<1>0. /\ NetTypes /\ SlotPart /\ HeardPart /\ ClosePart /\ OverPart /\ OpenPart
      /\ ShutPart /\ UserPart /\ WaitPart /\ OrderPart /\ PolledPart
      /\ NoConn \notin known /\ NoConn \notin waiting /\ NoConn \notin closed
      /\ pc # "idle" => alive /\ op \in known /\ op \in Conns /\ op # NoConn
      /\ pc = "idle" => op = NoConn
      /\ cnt \in Nat \ {0} /\ Conn \in Nat /\ 0 <= Conn /\ (Live => Conn \in Conns)
  BY NetNow
<1>1. /\ pc = "read" /\ Mine /\ isNew = readRuntime.onReadWait /\ ~sendRuntime.closeCalled4Svc
      /\ waiting' = (IF isNew THEN waiting ELSE waiting \ {op})
      /\ pc' = "idle" /\ op' = NoConn /\ isNew' = FALSE /\ local' = 0
      /\ UNCHANGED <<cnt, ctx, readRuntime, sendRuntime, slot, queTaskReq, io, npc, seen, evOut,
                     inbox, known, alive, closed, over, closedUnsent, fault>>
  BY <1>0 DEF ReadRefused, sockVars, netVars, boxVars, svcVars, ghosts, At, Return, Mine
<1>2. NetTypes'
  BY <1>0, <1>1, ConnsAre DEF NetTypes
<1>3. SlotPart'
  BY <1>0, <1>1, ConnsAre DEF SlotPart, Asked, Mailed, Conn, Live
<1>4. HeardPart'
  BY <1>0, <1>1, ConnsAre DEF HeardPart, Asked, Mailed, Conn, Live
<1>5. ClosePart'
  BY <1>0, <1>1, ConnsAre DEF ClosePart, Asked, Mailed, Conn, Live
<1>6. OverPart'
  BY <1>0, <1>1, ConnsAre DEF OverPart, Asked, Mailed, Conn, Live
<1>7. OpenPart'
  BY <1>0, <1>1, ConnsAre DEF OpenPart, SvcReads, Reads, Overs, Asked, Mailed, Conn, Live
<1>8. ShutPart'
  BY <1>0, <1>1, ConnsAre DEF ShutPart, Done, SvcReads, Reads, Asked, Mailed, Conn, Live
<1>9. UserPart'
  BY <1>0, <1>1, ConnsAre DEF UserPart, Conn, Live
<1>10. WaitPart'
  BY <1>0, <1>1, ConnsAre DEF WaitPart, Watched, Asked, Mailed, Conn, Live
<1>11. OrderPart'
  BY <1>0, <1>1, ConnsAre DEF OrderPart, InHand, Mine, Conn
<1>12. PolledPart'
  BY <1>0, <1>1, ConnsAre DEF PolledPart, Mine, Asked, Mailed, Conn, Live
<1> QED BY <1>2, <1>3, <1>4, <1>5, <1>6, <1>7, <1>8, <1>9, <1>10, <1>11, <1>12 DEF NetInv

(* A read that finds what it asks for.                                     *)
LEMMA ReadDataOk ==
    ASSUME NetInv, fault = "none", ReadData
    PROVE  NetInv'
<1>0. /\ NetTypes /\ SlotPart /\ HeardPart /\ ClosePart /\ OverPart /\ OpenPart
      /\ ShutPart /\ UserPart /\ WaitPart /\ OrderPart /\ PolledPart
      /\ NoConn \notin known /\ NoConn \notin waiting /\ NoConn \notin closed
      /\ pc # "idle" => alive /\ op \in known /\ op \in Conns /\ op # NoConn
      /\ pc = "idle" => op = NoConn
      /\ cnt \in Nat \ {0} /\ Conn \in Nat /\ 0 <= Conn /\ (Live => Conn \in Conns)
  BY NetNow
<1>1. /\ pc = "read" /\ Mine /\ ~sendRuntime.closeCalled4Svc /\ isNew # readRuntime.onReadWait
      /\ Enough(readRuntime.readable)
      /\ readRuntime' = [readRuntime EXCEPT !.readable = @ - ReadLen, !.onReadWait = FALSE]
      /\ waiting' = waiting \ {op}
      /\ pc' = "idle" /\ op' = NoConn /\ isNew' = FALSE /\ local' = 0
      /\ UNCHANGED <<cnt, ctx, sendRuntime, slot, queTaskReq, io, npc, seen, evOut,
                     inbox, known, alive, closed, over, closedUnsent, fault>>
  BY <1>0 DEF ReadData, sockVars, netVars, boxVars, svcVars, ghosts, At, Return, Mine
<1>2. readRuntime.readable - ReadLen \in Nat
  BY <1>0, <1>1, NetAssumption DEF NetTypes, ReadType, Enough
<1>3. /\ readRuntime' \in ReadType
      /\ readRuntime'.sockClosed = readRuntime.sockClosed
      /\ ~readRuntime'.onReadWait
      /\ readRuntime'.hasSendReadOver = readRuntime.hasSendReadOver
      /\ readRuntime'.readable = readRuntime.readable - ReadLen
      /\ readRuntime'.wait = readRuntime.wait
  BY <1>0, <1>1, <1>2 DEF NetTypes, ReadType
<1>4. op = Conn /\ Conn \notin closed /\ (~Live => readRuntime.hasSendReadOver /\ readRuntime.sockClosed)
  BY <1>0, <1>1 DEF ClosePart, OverPart, Mine, Conn
<1>5. \/ isNew /\ ~readRuntime.onReadWait
      \/ ~isNew /\ readRuntime.onReadWait
  BY <1>0, <1>1 DEF NetTypes, ReadType
<1>6. Live => ~Asked("READ_WAIT", Conn) /\ ~Mailed("read_ret", Conn) /\ ~readRuntime.wait
  BY <1>0, <1>1, <1>4, <1>5 DEF OpenPart, SvcReads, Reads
<1>7. NetTypes'
  BY <1>0, <1>1, <1>2, <1>3, <1>4, <1>5, <1>6, ConnsAre DEF NetTypes
<1>8. SlotPart'
  BY <1>0, <1>1, <1>2, <1>3, <1>4, <1>5, <1>6, ConnsAre DEF SlotPart, Asked, Mailed, Conn,
     Live
<1>9. HeardPart'
  BY <1>0, <1>1, <1>2, <1>3, <1>4, <1>5, <1>6, ConnsAre DEF HeardPart, Asked, Mailed, Conn,
     Live
<1>10. ClosePart'
  BY <1>0, <1>1, <1>2, <1>3, <1>4, <1>5, <1>6, ConnsAre DEF ClosePart, Asked, Mailed, Conn,
     Live
<1>11. OverPart'
  BY <1>0, <1>1, <1>2, <1>3, <1>4, <1>5, <1>6, ConnsAre DEF OverPart, Asked, Mailed, Conn,
     Live
<1>12. OpenPart'
  BY <1>0, <1>1, <1>2, <1>3, <1>4, <1>5, <1>6, ConnsAre DEF OpenPart, SvcReads, Reads,
     Overs, Asked, Mailed, Conn, Live
<1>13. ShutPart'
  BY <1>0, <1>1, <1>2, <1>3, <1>4, <1>5, <1>6, ConnsAre DEF ShutPart, Done, SvcReads,
     Reads, Asked, Mailed, Conn, Live
<1>14. UserPart'
  BY <1>0, <1>1, <1>2, <1>3, <1>4, <1>5, <1>6, ConnsAre DEF UserPart, Conn, Live
<1>15. WaitPart'
  BY <1>0, <1>1, <1>2, <1>3, <1>4, <1>5, <1>6, ConnsAre DEF WaitPart, Watched, Asked,
     Mailed, Conn, Live
<1>16. OrderPart'
  BY <1>0, <1>1, <1>2, <1>3, <1>4, <1>5, <1>6, ConnsAre DEF OrderPart, InHand, Mine, Conn
<1>17. PolledPart'
  BY <1>0, <1>1, <1>2, <1>3, <1>4, <1>5, <1>6, ConnsAre DEF PolledPart, Mine, Asked,
     Mailed, Conn, Live
<1> QED BY <1>7, <1>8, <1>9, <1>10, <1>11, <1>12, <1>13, <1>14, <1>15, <1>16, <1>17
       DEF NetInv

(* A read that finds too little is marked as waiting.                      *)
LEMMA ReadNothingOk ==
    ASSUME NetInv, fault = "none", ReadNothing
    PROVE  NetInv'
<1>0. /\ NetTypes /\ SlotPart /\ HeardPart /\ ClosePart /\ OverPart /\ OpenPart
      /\ ShutPart /\ UserPart /\ WaitPart /\ OrderPart /\ PolledPart
      /\ NoConn \notin known /\ NoConn \notin waiting /\ NoConn \notin closed
      /\ pc # "idle" => alive /\ op \in known /\ op \in Conns /\ op # NoConn
      /\ pc = "idle" => op = NoConn
      /\ cnt \in Nat \ {0} /\ Conn \in Nat /\ 0 <= Conn /\ (Live => Conn \in Conns)
  BY NetNow
<1>1. /\ pc = "read" /\ Mine /\ ~sendRuntime.closeCalled4Svc /\ isNew # readRuntime.onReadWait
      /\ ~Enough(readRuntime.readable)
      /\ readRuntime' = [readRuntime EXCEPT !.onReadWait = TRUE]
      /\ pc' = "closed?" /\ local' = readRuntime.readable
      /\ UNCHANGED <<cnt, ctx, sendRuntime, slot, queTaskReq, io, npc, seen, evOut, op, isNew,
                     inbox, known, waiting, alive, closed, over, closedUnsent, fault>>
  BY <1>0 DEF ReadNothing, sockVars, netVars, boxVars, svcVars, ghosts, At, Return, Mine
<1>2. /\ readRuntime' \in ReadType
      /\ readRuntime'.sockClosed = readRuntime.sockClosed
      /\ readRuntime'.onReadWait
      /\ readRuntime'.hasSendReadOver = readRuntime.hasSendReadOver
      /\ readRuntime'.readable = readRuntime.readable
      /\ readRuntime'.wait = readRuntime.wait
  BY <1>0, <1>1 DEF NetTypes, ReadType
<1>3. op = Conn /\ Conn \notin closed /\ (~Live => readRuntime.hasSendReadOver /\ readRuntime.sockClosed)
  BY <1>0, <1>1 DEF ClosePart, OverPart, Mine, Conn
<1>4. local' \in Nat /\ local' < ReadLen /\ ~Enough(readRuntime.readable)
  BY <1>0, <1>1, NetAssumption DEF NetTypes, ReadType, Enough
<1>5. ~isNew => SvcReads
  BY <1>1, <1>3 DEF SvcReads
<1>6. isNew /\ Live => ~Reads
  BY <1>0, <1>1, <1>3 DEF OpenPart, NetTypes, ReadType
<1>7. NetTypes'
  BY <1>0, <1>1, <1>2, <1>3, <1>4, <1>5, <1>6, ConnsAre DEF NetTypes
<1>8. SlotPart'
  BY <1>0, <1>1, <1>2, <1>3, <1>4, <1>5, <1>6, ConnsAre DEF SlotPart, Asked, Mailed, Conn,
     Live
<1>9. HeardPart'
  BY <1>0, <1>1, <1>2, <1>3, <1>4, <1>5, <1>6, ConnsAre DEF HeardPart, Asked, Mailed, Conn,
     Live
<1>10. ClosePart'
  BY <1>0, <1>1, <1>2, <1>3, <1>4, <1>5, <1>6, ConnsAre DEF ClosePart, Asked, Mailed, Conn,
     Live
<1>11. OverPart'
  BY <1>0, <1>1, <1>2, <1>3, <1>4, <1>5, <1>6, ConnsAre DEF OverPart, Asked, Mailed, Conn,
     Live
<1>12. OpenPart'
  BY <1>0, <1>1, <1>2, <1>3, <1>4, <1>5, <1>6, ConnsAre DEF OpenPart, SvcReads, Reads,
     Overs, Asked, Mailed, Conn, Live
<1>13. ShutPart'
  BY <1>0, <1>1, <1>2, <1>3, <1>4, <1>5, <1>6, ConnsAre DEF ShutPart, Done, SvcReads,
     Reads, Asked, Mailed, Conn, Live
<1>14. UserPart'
  BY <1>0, <1>1, <1>2, <1>3, <1>4, <1>5, <1>6, ConnsAre DEF UserPart, Conn, Live
<1>15. WaitPart'
  BY <1>0, <1>1, <1>2, <1>3, <1>4, <1>5, <1>6, ConnsAre DEF WaitPart, Watched, Asked,
     Mailed, Conn, Live
<1>16. OrderPart'
  BY <1>0, <1>1, <1>2, <1>3, <1>4, <1>5, <1>6, ConnsAre DEF OrderPart, InHand, Mine, Conn
<1>17. PolledPart'
  BY <1>0, <1>1, <1>2, <1>3, <1>4, <1>5, <1>6, ConnsAre DEF PolledPart, Mine, Asked,
     Mailed, Conn, Live
<1> QED BY <1>7, <1>8, <1>9, <1>10, <1>11, <1>12, <1>13, <1>14, <1>15, <1>16, <1>17
       DEF NetInv

(* The second look finds the read side open.                               *)
LEMMA ReadOpenOk ==
    ASSUME NetInv, fault = "none", ReadOpen
    PROVE  NetInv'
<1>0. /\ NetTypes /\ SlotPart /\ HeardPart /\ ClosePart /\ OverPart /\ OpenPart
      /\ ShutPart /\ UserPart /\ WaitPart /\ OrderPart /\ PolledPart
      /\ NoConn \notin known /\ NoConn \notin waiting /\ NoConn \notin closed
      /\ pc # "idle" => alive /\ op \in known /\ op \in Conns /\ op # NoConn
      /\ pc = "idle" => op = NoConn
      /\ cnt \in Nat \ {0} /\ Conn \in Nat /\ 0 <= Conn /\ (Live => Conn \in Conns)
  BY NetNow
<1>1. /\ pc = "closed?" /\ Mine /\ ~readRuntime.sockClosed /\ pc' = "readwait"
      /\ UNCHANGED <<cnt, ctx, readRuntime, sendRuntime, slot, queTaskReq, io, npc, seen, evOut, op,
                     isNew, local, inbox, known, waiting, alive, closed, over, closedUnsent, fault>>
  BY <1>0 DEF ReadOpen, sockVars, netVars, boxVars, svcVars, ghosts, At, Return, Mine
<1>2. op = Conn /\ Conn \notin closed /\ Live
  BY <1>0, <1>1 DEF ClosePart, OverPart, Mine, Conn
<1>3. NetTypes'
  BY <1>0, <1>1, <1>2, ConnsAre DEF NetTypes
<1>4. SlotPart'
  BY <1>0, <1>1, <1>2, ConnsAre DEF SlotPart, Asked, Mailed, Conn, Live
<1>5. HeardPart'
  BY <1>0, <1>1, <1>2, ConnsAre DEF HeardPart, Asked, Mailed, Conn, Live
<1>6. ClosePart'
  BY <1>0, <1>1, <1>2, ConnsAre DEF ClosePart, Asked, Mailed, Conn, Live
<1>7. OverPart'
  BY <1>0, <1>1, <1>2, ConnsAre DEF OverPart, Asked, Mailed, Conn, Live
<1>8. OpenPart'
  BY <1>0, <1>1, <1>2, ConnsAre DEF OpenPart, SvcReads, Reads, Overs, Asked, Mailed, Conn,
     Live
<1>9. ShutPart'
  BY <1>0, <1>1, <1>2, ConnsAre DEF ShutPart, Done, SvcReads, Reads, Asked, Mailed, Conn,
     Live, ClosePart
<1>10. UserPart'
  BY <1>0, <1>1, <1>2, ConnsAre DEF UserPart, Conn, Live
<1>11. WaitPart'
  BY <1>0, <1>1, <1>2, ConnsAre DEF WaitPart, Watched, Asked, Mailed, Conn, Live
<1>12. OrderPart'
  BY <1>0, <1>1, <1>2, ConnsAre DEF OrderPart, InHand, Mine, Conn
<1>13. PolledPart'
  BY <1>0, <1>1, <1>2, ConnsAre DEF PolledPart, Mine, Asked, Mailed, Conn, Live
<1> QED BY <1>3, <1>4, <1>5, <1>6, <1>7, <1>8, <1>9, <1>10, <1>11, <1>12, <1>13 DEF NetInv

(* A send after the close, or turned away behind the send lock.            *)
LEMMA SendClosedOk ==
    ASSUME NetInv, fault = "none", SendClosed \/ TurnedAway
    PROVE  NetInv'
<1>0. /\ NetTypes /\ SlotPart /\ HeardPart /\ ClosePart /\ OverPart /\ OpenPart
      /\ ShutPart /\ UserPart /\ WaitPart /\ OrderPart /\ PolledPart
      /\ NoConn \notin known /\ NoConn \notin waiting /\ NoConn \notin closed
      /\ pc # "idle" => alive /\ op \in known /\ op \in Conns /\ op # NoConn
      /\ pc = "idle" => op = NoConn
      /\ cnt \in Nat \ {0} /\ Conn \in Nat /\ 0 <= Conn /\ (Live => Conn \in Conns)
  BY NetNow
<1>1. /\ pc \in {"send", "close"}
      /\ pc' = "idle" /\ op' = NoConn /\ isNew' = FALSE /\ local' = 0
      /\ UNCHANGED <<cnt, ctx, readRuntime, sendRuntime, slot, queTaskReq, io, npc, seen, evOut,
                     inbox, known, waiting, alive, closed, over, closedUnsent, fault>>
  BY <1>0 DEF SendClosed, TurnedAway, sockVars, netVars, boxVars, svcVars, ghosts, At,
     Return, Mine
<1>2. NetTypes'
  BY <1>0, <1>1, ConnsAre DEF NetTypes
<1>3. SlotPart'
  BY <1>0, <1>1, ConnsAre DEF SlotPart, Asked, Mailed, Conn, Live
<1>4. HeardPart'
  BY <1>0, <1>1, ConnsAre DEF HeardPart, Asked, Mailed, Conn, Live
<1>5. ClosePart'
  BY <1>0, <1>1, ConnsAre DEF ClosePart, Asked, Mailed, Conn, Live
<1>6. OverPart'
  BY <1>0, <1>1, ConnsAre DEF OverPart, Asked, Mailed, Conn, Live
<1>7. OpenPart'
  BY <1>0, <1>1, ConnsAre DEF OpenPart, SvcReads, Reads, Overs, Asked, Mailed, Conn, Live
<1>8. ShutPart'
  BY <1>0, <1>1, ConnsAre DEF ShutPart, Done, SvcReads, Reads, Asked, Mailed, Conn, Live
<1>9. UserPart'
  BY <1>0, <1>1, ConnsAre DEF UserPart, Conn, Live
<1>10. WaitPart'
  BY <1>0, <1>1, ConnsAre DEF WaitPart, Watched, Asked, Mailed, Conn, Live
<1>11. OrderPart'
  BY <1>0, <1>1, ConnsAre DEF OrderPart, InHand, Mine, Conn
<1>12. PolledPart'
  BY <1>0, <1>1, ConnsAre DEF PolledPart, Mine, Asked, Mailed, Conn, Live
<1> QED BY <1>2, <1>3, <1>4, <1>5, <1>6, <1>7, <1>8, <1>9, <1>10, <1>11, <1>12 DEF NetInv

(* A read after the close, when the read over has been sent.               *)
LEMMA ReadClosedAgainOk ==
    ASSUME NetInv, fault = "none", ReadClosed, readRuntime.hasSendReadOver
    PROVE  NetInv'
<1>0. /\ NetTypes /\ SlotPart /\ HeardPart /\ ClosePart /\ OverPart /\ OpenPart
      /\ ShutPart /\ UserPart /\ WaitPart /\ OrderPart /\ PolledPart
      /\ NoConn \notin known /\ NoConn \notin waiting /\ NoConn \notin closed
      /\ pc # "idle" => alive /\ op \in known /\ op \in Conns /\ op # NoConn
      /\ pc = "idle" => op = NoConn
      /\ cnt \in Nat \ {0} /\ Conn \in Nat /\ 0 <= Conn /\ (Live => Conn \in Conns)
  BY NetNow
<1>1. /\ pc = "read" /\ Mine /\ sendRuntime.closeCalled4Svc
      /\ readRuntime' = [readRuntime EXCEPT !.hasSendReadOver = TRUE]
      /\ queTaskReq' = queTaskReq
      /\ over' = over \union {op}
      /\ waiting' = (IF isNew THEN waiting ELSE waiting \ {op})
      /\ pc' = "idle" /\ op' = NoConn /\ isNew' = FALSE /\ local' = 0
      /\ UNCHANGED <<cnt, ctx, sendRuntime, slot, io, npc, seen, evOut, inbox,
                     known, alive, closed, closedUnsent, fault>>
  BY <1>0 DEF ReadClosed, ReadOver, Enqueue, Req, sockVars, netVars, boxVars, svcVars,
     ghosts, At, Return, Mine
<1>2. /\ readRuntime' \in ReadType
      /\ readRuntime'.sockClosed = readRuntime.sockClosed
      /\ readRuntime'.onReadWait = readRuntime.onReadWait
      /\ readRuntime'.hasSendReadOver
      /\ readRuntime'.readable = readRuntime.readable
      /\ readRuntime'.wait = readRuntime.wait
  BY <1>0, <1>1 DEF NetTypes, ReadType
<1>3. op = Conn /\ Conn \in closed /\ op \in known /\ op \in Conns
  BY <1>0, <1>1 DEF ClosePart, Mine, Conn
<1>4. NetTypes'
  BY <1>0, <1>1, <1>2, <1>3, ConnsAre DEF NetTypes
<1>5. SlotPart'
  BY <1>0, <1>1, <1>2, <1>3, ConnsAre DEF SlotPart, Asked, Mailed, Conn, Live
<1>6. HeardPart'
  BY <1>0, <1>1, <1>2, <1>3, ConnsAre DEF HeardPart, Asked, Mailed, Conn, Live
<1>7. ClosePart'
  BY <1>0, <1>1, <1>2, <1>3, ConnsAre DEF ClosePart, Asked, Mailed, Conn, Live
<1>8. OverPart'
  BY <1>0, <1>1, <1>2, <1>3, ConnsAre DEF OverPart, Asked, Mailed, Conn, Live
<1>9. OpenPart'
  BY <1>0, <1>1, <1>2, <1>3, ConnsAre DEF OpenPart, SvcReads, Reads, Overs, Asked, Mailed,
     Conn, Live
<1>10. ShutPart'
  BY <1>0, <1>1, <1>2, <1>3, ConnsAre DEF ShutPart, Done, SvcReads, Reads, Asked, Mailed,
     Conn, Live
<1>11. UserPart'
  BY <1>0, <1>1, <1>2, <1>3, ConnsAre DEF UserPart, Conn, Live
<1>12. WaitPart'
  BY <1>0, <1>1, <1>2, <1>3, ConnsAre DEF WaitPart, Watched, Asked, Mailed, Conn, Live
<1>13. OrderPart'
  BY <1>0, <1>1, <1>2, <1>3, ConnsAre DEF OrderPart, InHand, Mine, Conn
<1>14. PolledPart'
  BY <1>0, <1>1, <1>2, <1>3, ConnsAre DEF PolledPart, Mine, Asked, Mailed, Conn, Live
<1> QED BY <1>4, <1>5, <1>6, <1>7, <1>8, <1>9, <1>10, <1>11, <1>12, <1>13, <1>14 DEF NetInv

(* The first read after the close sends the read over.                     *)
LEMMA ReadClosedOk ==
    ASSUME NetInv, fault = "none", ReadClosed, ~readRuntime.hasSendReadOver
    PROVE  NetInv'
<1>0. /\ NetTypes /\ SlotPart /\ HeardPart /\ ClosePart /\ OverPart /\ OpenPart
      /\ ShutPart /\ UserPart /\ WaitPart /\ OrderPart /\ PolledPart
      /\ NoConn \notin known /\ NoConn \notin waiting /\ NoConn \notin closed
      /\ pc # "idle" => alive /\ op \in known /\ op \in Conns /\ op # NoConn
      /\ pc = "idle" => op = NoConn
      /\ cnt \in Nat \ {0} /\ Conn \in Nat /\ 0 <= Conn /\ (Live => Conn \in Conns)
  BY NetNow
<1>1. /\ pc = "read" /\ Mine /\ sendRuntime.closeCalled4Svc
      /\ readRuntime' = [readRuntime EXCEPT !.hasSendReadOver = TRUE]
      /\ queTaskReq' = Append(queTaskReq, [cmd |-> "READ_OVER", id |-> op, used |-> 0])
      /\ over' = over \union {op}
      /\ waiting' = (IF isNew THEN waiting ELSE waiting \ {op})
      /\ pc' = "idle" /\ op' = NoConn /\ isNew' = FALSE /\ local' = 0
      /\ UNCHANGED <<cnt, ctx, sendRuntime, slot, io, npc, seen, evOut, inbox,
                     known, alive, closed, closedUnsent, fault>>
  BY <1>0 DEF ReadClosed, ReadOver, Enqueue, Req, sockVars, netVars, boxVars, svcVars,
     ghosts, At, Return, Mine
<1>2. /\ readRuntime' \in ReadType
      /\ readRuntime'.sockClosed = readRuntime.sockClosed
      /\ readRuntime'.onReadWait = readRuntime.onReadWait
      /\ readRuntime'.hasSendReadOver
      /\ readRuntime'.readable = readRuntime.readable
      /\ readRuntime'.wait = readRuntime.wait
  BY <1>0, <1>1 DEF NetTypes, ReadType
<1>3. op = Conn /\ Conn \in closed /\ op \in known /\ op \in Conns
  BY <1>0, <1>1 DEF ClosePart, Mine, Conn
<1>4. "READ_OVER" \in Requests /\ 0 \in Nat /\ "READ_OVER" # "READ_WAIT"
  BY DEF Requests
<1>5. /\ queTaskReq' \in Seq(RequestType) /\ Grown(queTaskReq, queTaskReq', "READ_OVER", op)
      /\ Short(queTaskReq)'
  BY <1>0, <1>1, <1>3, <1>4, Asking DEF WaitPart
<1>6. /\ \A cmd, c : Has(queTaskReq', cmd, c) <=>
                      Asked(cmd, c) \/ (cmd = "READ_OVER" /\ c = op)
      /\ \A cmd, c : Single(queTaskReq, cmd, c) /\ ~(cmd = "READ_OVER" /\ c = op /\ Asked("READ_OVER", op))
                      => Single(queTaskReq', cmd, c)
      /\ \A cmd, first, c : NoneBehind(queTaskReq, cmd, first, c)
                             /\ ~(cmd = "READ_OVER" /\ c = op /\ Asked(first, op))
                                => NoneBehind(queTaskReq', cmd, first, c)
  BY <1>5 DEF Grown, Asked
<1>7. NetTypes'
  BY <1>0, <1>1, <1>2, <1>3, <1>4, <1>5, <1>6, ConnsAre DEF NetTypes
<1>8. SlotPart'
  BY <1>0, <1>1, <1>2, <1>3, <1>4, <1>5, <1>6, ConnsAre DEF SlotPart, Asked, Mailed, Conn,
     Live
<1>9. HeardPart'
  BY <1>0, <1>1, <1>2, <1>3, <1>4, <1>5, <1>6, ConnsAre DEF HeardPart, Asked, Mailed, Conn,
     Live
<1>10. ClosePart'
  BY <1>0, <1>1, <1>2, <1>3, <1>4, <1>5, <1>6, ConnsAre DEF ClosePart, Asked, Mailed, Conn,
     Live
<1>11. OverPart'
  BY <1>0, <1>1, <1>2, <1>3, <1>4, <1>5, <1>6, ConnsAre DEF OverPart, Asked, Mailed, Conn,
     Live
<1>12. OpenPart'
  BY <1>0, <1>1, <1>2, <1>3, <1>4, <1>5, <1>6, ConnsAre DEF OpenPart, SvcReads, Reads,
     Overs, Asked, Mailed, Conn, Live
<1>13. ShutPart'
  BY <1>0, <1>1, <1>2, <1>3, <1>4, <1>5, <1>6, ConnsAre DEF ShutPart, Done, SvcReads,
     Reads, Asked, Mailed, Conn, Live
<1>14. UserPart'
  BY <1>0, <1>1, <1>2, <1>3, <1>4, <1>5, <1>6, ConnsAre DEF UserPart, Conn, Live
<1>15. WaitPart'
  BY <1>0, <1>1, <1>2, <1>3, <1>4, <1>5, <1>6, ConnsAre DEF WaitPart, Watched, Asked,
     Mailed, Conn, Live
<1>16. OrderPart'
  BY <1>0, <1>1, <1>2, <1>3, <1>4, <1>5, <1>6, ConnsAre DEF OrderPart, InHand, Mine, Conn
<1>17. PolledPart'
  BY <1>0, <1>1, <1>2, <1>3, <1>4, <1>5, <1>6, ConnsAre DEF PolledPart, Mine, Asked,
     Mailed, Conn, Live
<1> QED BY <1>7, <1>8, <1>9, <1>10, <1>11, <1>12, <1>13, <1>14, <1>15, <1>16, <1>17
       DEF NetInv

(* The read side has closed, and the read over has been sent.              *)
LEMMA ReadEndAgainOk ==
    ASSUME NetInv, fault = "none", ReadEnd, readRuntime.hasSendReadOver
    PROVE  NetInv'
<1>0. /\ NetTypes /\ SlotPart /\ HeardPart /\ ClosePart /\ OverPart /\ OpenPart
      /\ ShutPart /\ UserPart /\ WaitPart /\ OrderPart /\ PolledPart
      /\ NoConn \notin known /\ NoConn \notin waiting /\ NoConn \notin closed
      /\ pc # "idle" => alive /\ op \in known /\ op \in Conns /\ op # NoConn
      /\ pc = "idle" => op = NoConn
      /\ cnt \in Nat \ {0} /\ Conn \in Nat /\ 0 <= Conn /\ (Live => Conn \in Conns)
  BY NetNow
<1>1. /\ pc = "closed?" /\ Mine /\ readRuntime.sockClosed
      /\ LET more == readRuntime.readable > local /\ Enough(readRuntime.readable)
         IN readRuntime' = [[readRuntime EXCEPT !.onReadWait = FALSE,
                                !.readable = IF more THEN @ - ReadLen ELSE @]
                                EXCEPT !.hasSendReadOver = TRUE]
      /\ queTaskReq' = queTaskReq
      /\ over' = over \union {op} /\ waiting' = waiting \ {op}
      /\ pc' = "idle" /\ op' = NoConn /\ isNew' = FALSE /\ local' = 0
      /\ UNCHANGED <<cnt, ctx, sendRuntime, slot, io, npc, seen, evOut, inbox,
                     known, alive, closed, closedUnsent, fault>>
  BY <1>0 DEF ReadEnd, ReadOver, Enqueue, Req, sockVars, netVars, boxVars, svcVars, ghosts,
     At, Return, Mine
<1>2. PICK b \in Nat : readRuntime' = [[readRuntime EXCEPT !.onReadWait = FALSE, !.readable = b]
                                        EXCEPT !.hasSendReadOver = TRUE]
  <2>1. readRuntime.readable \in Nat /\ ReadLen \in Nat \ {0}
    BY <1>0, NetAssumption DEF NetTypes, ReadType
  <2>2. Enough(readRuntime.readable) => readRuntime.readable - ReadLen \in Nat
    BY <2>1 DEF Enough
  <2> QED BY <2>1, <2>2, <1>1
<1>3. /\ readRuntime' \in ReadType
      /\ readRuntime'.sockClosed = readRuntime.sockClosed
      /\ ~readRuntime'.onReadWait
      /\ readRuntime'.hasSendReadOver
      /\ readRuntime'.wait = readRuntime.wait
  BY <1>0, <1>1, <1>2 DEF NetTypes, ReadType
<1>4. /\ op = Conn /\ Conn \notin closed /\ op \in known /\ op \in Conns
      /\ readRuntime.hasSendReadOver \/ (Live /\ SvcReads)
  BY <1>0, <1>1 DEF ClosePart, OverPart, SvcReads, Mine, Conn
<1>5. Live => ~Asked("READ_WAIT", Conn) /\ ~Mailed("read_ret", Conn) /\ ~readRuntime.wait
  BY <1>0, <1>4 DEF OpenPart, Reads, Overs
<1>6. NetTypes'
  BY <1>0, <1>1, <1>2, <1>3, <1>4, <1>5, ConnsAre DEF NetTypes
<1>7. SlotPart'
  BY <1>0, <1>1, <1>2, <1>3, <1>4, <1>5, ConnsAre DEF SlotPart, Asked, Mailed, Conn, Live
<1>8. HeardPart'
  BY <1>0, <1>1, <1>2, <1>3, <1>4, <1>5, ConnsAre DEF HeardPart, Asked, Mailed, Conn, Live
<1>9. ClosePart'
  BY <1>0, <1>1, <1>2, <1>3, <1>4, <1>5, ConnsAre DEF ClosePart, Asked, Mailed, Conn, Live
<1>10. OverPart'
  BY <1>0, <1>1, <1>2, <1>3, <1>4, <1>5, ConnsAre DEF OverPart, Asked, Mailed, Conn, Live
<1>11. OpenPart'
  BY <1>0, <1>1, <1>2, <1>3, <1>4, <1>5, ConnsAre DEF OpenPart, SvcReads, Reads, Overs,
     Asked, Mailed, Conn, Live
<1>12. ShutPart'
  BY <1>0, <1>1, <1>2, <1>3, <1>4, <1>5, ConnsAre DEF ShutPart, Done, SvcReads, Reads,
     Asked, Mailed, Conn, Live
<1>13. UserPart'
  BY <1>0, <1>1, <1>2, <1>3, <1>4, <1>5, ConnsAre DEF UserPart, Conn, Live
<1>14. WaitPart'
  BY <1>0, <1>1, <1>2, <1>3, <1>4, <1>5, ConnsAre DEF WaitPart, Watched, Asked, Mailed,
     Conn, Live
<1>15. OrderPart'
  BY <1>0, <1>1, <1>2, <1>3, <1>4, <1>5, ConnsAre DEF OrderPart, InHand, Mine, Conn
<1>16. PolledPart'
  BY <1>0, <1>1, <1>2, <1>3, <1>4, <1>5, ConnsAre DEF PolledPart, Mine, Asked, Mailed,
     Conn, Live
<1> QED BY <1>6, <1>7, <1>8, <1>9, <1>10, <1>11, <1>12, <1>13, <1>14, <1>15, <1>16
       DEF NetInv

(* The read side has closed: the read over is sent.                        *)
LEMMA ReadEndOk ==
    ASSUME NetInv, fault = "none", ReadEnd, ~readRuntime.hasSendReadOver
    PROVE  NetInv'
<1>0. /\ NetTypes /\ SlotPart /\ HeardPart /\ ClosePart /\ OverPart /\ OpenPart
      /\ ShutPart /\ UserPart /\ WaitPart /\ OrderPart /\ PolledPart
      /\ NoConn \notin known /\ NoConn \notin waiting /\ NoConn \notin closed
      /\ pc # "idle" => alive /\ op \in known /\ op \in Conns /\ op # NoConn
      /\ pc = "idle" => op = NoConn
      /\ cnt \in Nat \ {0} /\ Conn \in Nat /\ 0 <= Conn /\ (Live => Conn \in Conns)
  BY NetNow
<1>1. /\ pc = "closed?" /\ Mine /\ readRuntime.sockClosed
      /\ LET more == readRuntime.readable > local /\ Enough(readRuntime.readable)
         IN readRuntime' = [[readRuntime EXCEPT !.onReadWait = FALSE,
                                !.readable = IF more THEN @ - ReadLen ELSE @]
                                EXCEPT !.hasSendReadOver = TRUE]
      /\ queTaskReq' = Append(queTaskReq, [cmd |-> "READ_OVER", id |-> op, used |-> 0])
      /\ over' = over \union {op} /\ waiting' = waiting \ {op}
      /\ pc' = "idle" /\ op' = NoConn /\ isNew' = FALSE /\ local' = 0
      /\ UNCHANGED <<cnt, ctx, sendRuntime, slot, io, npc, seen, evOut, inbox,
                     known, alive, closed, closedUnsent, fault>>
  BY <1>0 DEF ReadEnd, ReadOver, Enqueue, Req, sockVars, netVars, boxVars, svcVars, ghosts,
     At, Return, Mine
<1>2. PICK b \in Nat : readRuntime' = [[readRuntime EXCEPT !.onReadWait = FALSE, !.readable = b]
                                        EXCEPT !.hasSendReadOver = TRUE]
  <2>1. readRuntime.readable \in Nat /\ ReadLen \in Nat \ {0}
    BY <1>0, NetAssumption DEF NetTypes, ReadType
  <2>2. Enough(readRuntime.readable) => readRuntime.readable - ReadLen \in Nat
    BY <2>1 DEF Enough
  <2> QED BY <2>1, <2>2, <1>1
<1>3. /\ readRuntime' \in ReadType
      /\ readRuntime'.sockClosed = readRuntime.sockClosed
      /\ ~readRuntime'.onReadWait
      /\ readRuntime'.hasSendReadOver
      /\ readRuntime'.wait = readRuntime.wait
  BY <1>0, <1>1, <1>2 DEF NetTypes, ReadType
<1>4. /\ op = Conn /\ Conn \notin closed /\ op \in known /\ op \in Conns
      /\ readRuntime.hasSendReadOver \/ (Live /\ SvcReads)
  BY <1>0, <1>1 DEF ClosePart, OverPart, SvcReads, Mine, Conn
<1>5. Live => ~Asked("READ_WAIT", Conn) /\ ~Mailed("read_ret", Conn) /\ ~readRuntime.wait
  BY <1>0, <1>4 DEF OpenPart, Reads, Overs
<1>6. "READ_OVER" \in Requests /\ 0 \in Nat /\ "READ_OVER" # "READ_WAIT"
  BY DEF Requests
<1>7. /\ queTaskReq' \in Seq(RequestType) /\ Grown(queTaskReq, queTaskReq', "READ_OVER", op)
      /\ Short(queTaskReq)'
  BY <1>0, <1>1, <1>4, <1>6, Asking DEF WaitPart
<1>8. /\ \A cmd, c : Has(queTaskReq', cmd, c) <=>
                      Asked(cmd, c) \/ (cmd = "READ_OVER" /\ c = op)
      /\ \A cmd, c : Single(queTaskReq, cmd, c) /\ ~(cmd = "READ_OVER" /\ c = op /\ Asked("READ_OVER", op))
                      => Single(queTaskReq', cmd, c)
      /\ \A cmd, first, c : NoneBehind(queTaskReq, cmd, first, c)
                             /\ ~(cmd = "READ_OVER" /\ c = op /\ Asked(first, op))
                                => NoneBehind(queTaskReq', cmd, first, c)
  BY <1>7 DEF Grown, Asked
<1>9. NetTypes'
  BY <1>0, <1>1, <1>2, <1>3, <1>4, <1>5, <1>6, <1>7, <1>8, ConnsAre DEF NetTypes
<1>10. SlotPart'
  BY <1>0, <1>1, <1>2, <1>3, <1>4, <1>5, <1>6, <1>7, <1>8, ConnsAre DEF SlotPart, Asked,
     Mailed, Conn, Live
<1>11. HeardPart'
  BY <1>0, <1>1, <1>2, <1>3, <1>4, <1>5, <1>6, <1>7, <1>8, ConnsAre DEF HeardPart, Asked,
     Mailed, Conn, Live
<1>12. ClosePart'
  BY <1>0, <1>1, <1>2, <1>3, <1>4, <1>5, <1>6, <1>7, <1>8, ConnsAre DEF ClosePart, Asked,
     Mailed, Conn, Live
<1>13. OverPart'
  BY <1>0, <1>1, <1>2, <1>3, <1>4, <1>5, <1>6, <1>7, <1>8, ConnsAre DEF OverPart, Asked,
     Mailed, Conn, Live
<1>14. OpenPart'
  BY <1>0, <1>1, <1>2, <1>3, <1>4, <1>5, <1>6, <1>7, <1>8, ConnsAre DEF OpenPart, SvcReads,
     Reads, Overs, Asked, Mailed, Conn, Live
<1>15. ShutPart'
  BY <1>0, <1>1, <1>2, <1>3, <1>4, <1>5, <1>6, <1>7, <1>8, ConnsAre DEF ShutPart, Done,
     SvcReads, Reads, Asked, Mailed, Conn, Live
<1>16. UserPart'
  BY <1>0, <1>1, <1>2, <1>3, <1>4, <1>5, <1>6, <1>7, <1>8, ConnsAre DEF UserPart, Conn, Live
<1>17. WaitPart'
  BY <1>0, <1>1, <1>2, <1>3, <1>4, <1>5, <1>6, <1>7, <1>8, ConnsAre DEF WaitPart, Watched,
     Asked, Mailed, Conn, Live
<1>18. OrderPart'
  BY <1>0, <1>1, <1>2, <1>3, <1>4, <1>5, <1>6, <1>7, <1>8, ConnsAre DEF OrderPart, InHand,
     Mine, Conn
<1>19. PolledPart'
  BY <1>0, <1>1, <1>2, <1>3, <1>4, <1>5, <1>6, <1>7, <1>8, ConnsAre DEF PolledPart, Mine,
     Asked, Mailed, Conn, Live
<1> QED BY <1>9, <1>10, <1>11, <1>12, <1>13, <1>14, <1>15, <1>16, <1>17, <1>18, <1>19
       DEF NetInv

(* A read that waits asks the net thread.                                  *)
LEMMA ReadWaitOk ==
    ASSUME NetInv, fault = "none", ReadWait
    PROVE  NetInv'
<1>0. /\ NetTypes /\ SlotPart /\ HeardPart /\ ClosePart /\ OverPart /\ OpenPart
      /\ ShutPart /\ UserPart /\ WaitPart /\ OrderPart /\ PolledPart
      /\ NoConn \notin known /\ NoConn \notin waiting /\ NoConn \notin closed
      /\ pc # "idle" => alive /\ op \in known /\ op \in Conns /\ op # NoConn
      /\ pc = "idle" => op = NoConn
      /\ cnt \in Nat \ {0} /\ Conn \in Nat /\ 0 <= Conn /\ (Live => Conn \in Conns)
  BY NetNow
<1>1. /\ pc = "readwait"
      /\ queTaskReq' = Append(queTaskReq, [cmd |-> "READ_WAIT", id |-> op, used |-> local])
      /\ waiting' = waiting \union {op}
      /\ pc' = "idle" /\ op' = NoConn /\ isNew' = FALSE /\ local' = 0
      /\ UNCHANGED <<cnt, ctx, readRuntime, sendRuntime, slot, io, npc, seen,
                     evOut, inbox, known, alive, closed, over, closedUnsent, fault>>
  BY <1>0 DEF ReadWait, Enqueue, Req, sockVars, netVars, boxVars, svcVars, ghosts, At,
     Return, Mine
<1>2. op = cnt /\ op = Conn /\ Live /\ Conn \notin closed /\ op \in known /\ op \in Conns /\ SvcReads
  BY <1>0, <1>1 DEF ClosePart, OverPart, SlotPart, SvcReads, Live
<1>3. local \in Nat /\ local < ReadLen
  BY <1>0, <1>1 DEF NetTypes, WaitPart
<1>4. "READ_WAIT" \in Requests
  BY DEF Requests
<1>5. /\ queTaskReq' \in Seq(RequestType) /\ Grown(queTaskReq, queTaskReq', "READ_WAIT", op)
      /\ Short(queTaskReq)'
  BY <1>0, <1>1, <1>2, <1>3, <1>4, Asking DEF WaitPart
<1>6. /\ \A cmd, c : Has(queTaskReq', cmd, c) <=>
                      Asked(cmd, c) \/ (cmd = "READ_WAIT" /\ c = op)
      /\ \A cmd, c : Single(queTaskReq, cmd, c) /\ ~(cmd = "READ_WAIT" /\ c = op /\ Asked("READ_WAIT", op))
                      => Single(queTaskReq', cmd, c)
      /\ \A cmd, first, c : NoneBehind(queTaskReq, cmd, first, c)
                             /\ ~(cmd = "READ_WAIT" /\ c = op /\ Asked(first, op))
                                => NoneBehind(queTaskReq', cmd, first, c)
  BY <1>5 DEF Grown, Asked
<1>7. /\ ~Asked("READ_WAIT", op) /\ ~Mailed("read_ret", op) /\ ~readRuntime.wait
      /\ ~Overs /\ ~Asked("READ_OVER", op) /\ ~ctx.readOver4Net
      /\ ~Asked("TCP_CLOSE", op) /\ ~ctx.closeCalled4Net
  BY <1>0, <1>2 DEF OpenPart, ClosePart, Reads, Overs
<1>8. NetTypes'
  BY <1>0, <1>1, <1>2, <1>3, <1>4, <1>5, <1>6, <1>7, ConnsAre DEF NetTypes
<1>9. SlotPart'
  BY <1>0, <1>1, <1>2, <1>3, <1>4, <1>5, <1>6, <1>7, ConnsAre DEF SlotPart, Asked, Mailed,
     Conn, Live
<1>10. HeardPart'
  BY <1>0, <1>1, <1>2, <1>3, <1>4, <1>5, <1>6, <1>7, ConnsAre DEF HeardPart, Asked, Mailed,
     Conn, Live
<1>11. ClosePart'
  BY <1>0, <1>1, <1>2, <1>3, <1>4, <1>5, <1>6, <1>7, ConnsAre DEF ClosePart, Asked, Mailed,
     Conn, Live
<1>12. OverPart'
  BY <1>0, <1>1, <1>2, <1>3, <1>4, <1>5, <1>6, <1>7, ConnsAre DEF OverPart, Asked, Mailed,
     Conn, Live
<1>13. OpenPart'
  BY <1>0, <1>1, <1>2, <1>3, <1>4, <1>5, <1>6, <1>7, ConnsAre DEF OpenPart, SvcReads,
     Reads, Overs, Asked, Mailed, Conn, Live
<1>14. ShutPart'
  BY <1>0, <1>1, <1>2, <1>3, <1>4, <1>5, <1>6, <1>7, ConnsAre DEF ShutPart, Done, SvcReads,
     Reads, Asked, Mailed, Conn, Live
<1>15. UserPart'
  BY <1>0, <1>1, <1>2, <1>3, <1>4, <1>5, <1>6, <1>7, ConnsAre DEF UserPart, Conn, Live
<1>16. WaitPart'
  BY <1>0, <1>1, <1>2, <1>3, <1>4, <1>5, <1>6, <1>7, ConnsAre DEF WaitPart, Watched, Asked,
     Mailed, Conn, Live
<1>17. OrderPart'
  BY <1>0, <1>1, <1>2, <1>3, <1>4, <1>5, <1>6, <1>7, ConnsAre DEF OrderPart, InHand, Mine,
     Conn
<1>18. PolledPart'
  BY <1>0, <1>1, <1>2, <1>3, <1>4, <1>5, <1>6, <1>7, ConnsAre DEF PolledPart, Mine, Asked,
     Mailed, Conn, Live
<1> QED BY <1>8, <1>9, <1>10, <1>11, <1>12, <1>13, <1>14, <1>15, <1>16, <1>17, <1>18
       DEF NetInv

(* Unsent bytes: the net thread is asked to poll for room.                 *)
LEMMA SendWaitOk ==
    ASSUME NetInv, fault = "none", SendWait
    PROVE  NetInv'
<1>0. /\ NetTypes /\ SlotPart /\ HeardPart /\ ClosePart /\ OverPart /\ OpenPart
      /\ ShutPart /\ UserPart /\ WaitPart /\ OrderPart /\ PolledPart
      /\ NoConn \notin known /\ NoConn \notin waiting /\ NoConn \notin closed
      /\ pc # "idle" => alive /\ op \in known /\ op \in Conns /\ op # NoConn
      /\ pc = "idle" => op = NoConn
      /\ cnt \in Nat \ {0} /\ Conn \in Nat /\ 0 <= Conn /\ (Live => Conn \in Conns)
  BY NetNow
<1>1. /\ pc = "sendwait"
      /\ queTaskReq' = Append(queTaskReq, [cmd |-> "SEND_WAIT", id |-> op, used |-> 0])
      /\ pc' = "idle" /\ op' = NoConn /\ isNew' = FALSE /\ local' = 0
      /\ UNCHANGED <<cnt, ctx, readRuntime, sendRuntime, slot, io, npc, seen,
                     evOut, inbox, known, waiting, alive, closed, over,
                     closedUnsent, fault>>
  BY <1>0 DEF SendWait, Enqueue, Req, sockVars, netVars, boxVars, svcVars, ghosts, At,
     Return, Mine
<1>2. /\ op \notin closed /\ op \in known /\ op \in Conns /\ ~Asked("TCP_CLOSE", op)
      /\ ~SvcReads /\ isNew
  BY <1>0, <1>1 DEF ClosePart, SvcReads, WaitPart
<1>3. "SEND_WAIT" \in Requests /\ 0 \in Nat /\ "SEND_WAIT" # "READ_WAIT"
  BY DEF Requests
<1>4. /\ queTaskReq' \in Seq(RequestType) /\ Grown(queTaskReq, queTaskReq', "SEND_WAIT", op)
      /\ Short(queTaskReq)'
  BY <1>0, <1>1, <1>2, <1>3, Asking DEF WaitPart
<1>5. /\ \A cmd, c : Has(queTaskReq', cmd, c) <=>
                      Asked(cmd, c) \/ (cmd = "SEND_WAIT" /\ c = op)
      /\ \A cmd, c : Single(queTaskReq, cmd, c) /\ ~(cmd = "SEND_WAIT" /\ c = op /\ Asked("SEND_WAIT", op))
                      => Single(queTaskReq', cmd, c)
      /\ \A cmd, first, c : NoneBehind(queTaskReq, cmd, first, c)
                             /\ ~(cmd = "SEND_WAIT" /\ c = op /\ Asked(first, op))
                                => NoneBehind(queTaskReq', cmd, first, c)
  BY <1>4 DEF Grown, Asked
<1>6. NetTypes'
  BY <1>0, <1>1, <1>2, <1>3, <1>4, <1>5, ConnsAre DEF NetTypes
<1>7. SlotPart'
  BY <1>0, <1>1, <1>2, <1>3, <1>4, <1>5, ConnsAre DEF SlotPart, Asked, Mailed, Conn, Live
<1>8. HeardPart'
  BY <1>0, <1>1, <1>2, <1>3, <1>4, <1>5, ConnsAre DEF HeardPart, Asked, Mailed, Conn, Live
<1>9. ClosePart'
  BY <1>0, <1>1, <1>2, <1>3, <1>4, <1>5, ConnsAre DEF ClosePart, Asked, Mailed, Conn, Live
<1>10. OverPart'
  BY <1>0, <1>1, <1>2, <1>3, <1>4, <1>5, ConnsAre DEF OverPart, Asked, Mailed, Conn, Live
<1>11. OpenPart'
  BY <1>0, <1>1, <1>2, <1>3, <1>4, <1>5, ConnsAre DEF OpenPart, SvcReads, Reads, Overs,
     Asked, Mailed, Conn, Live
<1>12. ShutPart'
  BY <1>0, <1>1, <1>2, <1>3, <1>4, <1>5, ConnsAre DEF ShutPart, Done, SvcReads, Reads,
     Asked, Mailed, Conn, Live
<1>13. UserPart'
  BY <1>0, <1>1, <1>2, <1>3, <1>4, <1>5, ConnsAre DEF UserPart, Conn, Live
<1>14. WaitPart'
  BY <1>0, <1>1, <1>2, <1>3, <1>4, <1>5, ConnsAre DEF WaitPart, Watched, Asked, Mailed,
     Conn, Live
<1>15. OrderPart'
  BY <1>0, <1>1, <1>2, <1>3, <1>4, <1>5, ConnsAre DEF OrderPart, InHand, Mine, Conn
<1>16. PolledPart'
  BY <1>0, <1>1, <1>2, <1>3, <1>4, <1>5, ConnsAre DEF PolledPart, Mine, Asked, Mailed,
     Conn, Live
<1> QED BY <1>6, <1>7, <1>8, <1>9, <1>10, <1>11, <1>12, <1>13, <1>14, <1>15, <1>16
       DEF NetInv

(* A close that is marked asks the net thread.                             *)
LEMMA CloseSendOk ==
    ASSUME NetInv, fault = "none", CloseSend
    PROVE  NetInv'
<1>0. /\ NetTypes /\ SlotPart /\ HeardPart /\ ClosePart /\ OverPart /\ OpenPart
      /\ ShutPart /\ UserPart /\ WaitPart /\ OrderPart /\ PolledPart
      /\ NoConn \notin known /\ NoConn \notin waiting /\ NoConn \notin closed
      /\ pc # "idle" => alive /\ op \in known /\ op \in Conns /\ op # NoConn
      /\ pc = "idle" => op = NoConn
      /\ cnt \in Nat \ {0} /\ Conn \in Nat /\ 0 <= Conn /\ (Live => Conn \in Conns)
  BY NetNow
<1>1. /\ pc = "tcpclose"
      /\ queTaskReq' = Append(queTaskReq, [cmd |-> "TCP_CLOSE", id |-> op, used |-> 0])
      /\ pc' = "idle" /\ op' = NoConn /\ isNew' = FALSE /\ local' = 0
      /\ UNCHANGED <<cnt, ctx, readRuntime, sendRuntime, slot, io, npc, seen,
                     evOut, inbox, known, waiting, alive, closed, over,
                     closedUnsent, fault>>
  BY <1>0 DEF CloseSend, Enqueue, Req, sockVars, netVars, boxVars, svcVars, ghosts, At,
     Return, Mine
<1>2. op \in closed /\ op \in known /\ op \in Conns /\ ~SvcReads /\ isNew
  BY <1>0, <1>1 DEF ClosePart, SvcReads, WaitPart
<1>3. "TCP_CLOSE" \in Requests /\ 0 \in Nat /\ "TCP_CLOSE" # "READ_WAIT"
  BY DEF Requests
<1>4. /\ queTaskReq' \in Seq(RequestType) /\ Grown(queTaskReq, queTaskReq', "TCP_CLOSE", op)
      /\ Short(queTaskReq)'
  BY <1>0, <1>1, <1>2, <1>3, Asking DEF WaitPart
<1>5. /\ \A cmd, c : Has(queTaskReq', cmd, c) <=>
                      Asked(cmd, c) \/ (cmd = "TCP_CLOSE" /\ c = op)
      /\ \A cmd, c : Single(queTaskReq, cmd, c) /\ ~(cmd = "TCP_CLOSE" /\ c = op /\ Asked("TCP_CLOSE", op))
                      => Single(queTaskReq', cmd, c)
      /\ \A cmd, first, c : NoneBehind(queTaskReq, cmd, first, c)
                             /\ ~(cmd = "TCP_CLOSE" /\ c = op /\ Asked(first, op))
                                => NoneBehind(queTaskReq', cmd, first, c)
  BY <1>4 DEF Grown, Asked
<1>6. NetTypes'
  BY <1>0, <1>1, <1>2, <1>3, <1>4, <1>5, ConnsAre DEF NetTypes
<1>7. SlotPart'
  BY <1>0, <1>1, <1>2, <1>3, <1>4, <1>5, ConnsAre DEF SlotPart, Asked, Mailed, Conn, Live
<1>8. HeardPart'
  BY <1>0, <1>1, <1>2, <1>3, <1>4, <1>5, ConnsAre DEF HeardPart, Asked, Mailed, Conn, Live
<1>9. ClosePart'
  BY <1>0, <1>1, <1>2, <1>3, <1>4, <1>5, ConnsAre DEF ClosePart, Asked, Mailed, Conn, Live
<1>10. OverPart'
  BY <1>0, <1>1, <1>2, <1>3, <1>4, <1>5, ConnsAre DEF OverPart, Asked, Mailed, Conn, Live
<1>11. OpenPart'
  BY <1>0, <1>1, <1>2, <1>3, <1>4, <1>5, ConnsAre DEF OpenPart, SvcReads, Reads, Overs,
     Asked, Mailed, Conn, Live
<1>12. ShutPart'
  BY <1>0, <1>1, <1>2, <1>3, <1>4, <1>5, ConnsAre DEF ShutPart, Done, SvcReads, Reads,
     Asked, Mailed, Conn, Live
<1>13. UserPart'
  BY <1>0, <1>1, <1>2, <1>3, <1>4, <1>5, ConnsAre DEF UserPart, Conn, Live
<1>14. WaitPart'
  BY <1>0, <1>1, <1>2, <1>3, <1>4, <1>5, ConnsAre DEF WaitPart, Watched, Asked, Mailed,
     Conn, Live
<1>15. OrderPart'
  BY <1>0, <1>1, <1>2, <1>3, <1>4, <1>5, ConnsAre DEF OrderPart, InHand, Mine, Conn
<1>16. PolledPart'
  BY <1>0, <1>1, <1>2, <1>3, <1>4, <1>5, ConnsAre DEF PolledPart, Mine, Asked, Mailed,
     Conn, Live
<1> QED BY <1>6, <1>7, <1>8, <1>9, <1>10, <1>11, <1>12, <1>13, <1>14, <1>15, <1>16
       DEF NetInv

(* A second close.                                                         *)
LEMMA CloseAgainOk ==
    ASSUME NetInv, fault = "none", CloseMark, sendRuntime.closeCalled4Svc
    PROVE  NetInv'
<1>0. /\ NetTypes /\ SlotPart /\ HeardPart /\ ClosePart /\ OverPart /\ OpenPart
      /\ ShutPart /\ UserPart /\ WaitPart /\ OrderPart /\ PolledPart
      /\ NoConn \notin known /\ NoConn \notin waiting /\ NoConn \notin closed
      /\ pc # "idle" => alive /\ op \in known /\ op \in Conns /\ op # NoConn
      /\ pc = "idle" => op = NoConn
      /\ cnt \in Nat \ {0} /\ Conn \in Nat /\ 0 <= Conn /\ (Live => Conn \in Conns)
  BY NetNow
<1>1. /\ pc = "close"
      /\ pc' = "idle" /\ op' = NoConn /\ isNew' = FALSE /\ local' = 0
      /\ UNCHANGED <<cnt, ctx, readRuntime, sendRuntime, slot, queTaskReq, io, npc,
                     seen, evOut, inbox, known, waiting, alive, closed, over,
                     closedUnsent, fault>>
  BY <1>0 DEF CloseMark, sockVars, netVars, boxVars, svcVars, ghosts, At, Return, Mine
<1>2. ~SvcReads /\ isNew
  BY <1>0, <1>1 DEF SvcReads, WaitPart
<1>3. NetTypes'
  BY <1>0, <1>1, <1>2, ConnsAre DEF NetTypes
<1>4. SlotPart'
  BY <1>0, <1>1, <1>2, ConnsAre DEF SlotPart, Asked, Mailed, Conn, Live
<1>5. HeardPart'
  BY <1>0, <1>1, <1>2, ConnsAre DEF HeardPart, Asked, Mailed, Conn, Live
<1>6. ClosePart'
  BY <1>0, <1>1, <1>2, ConnsAre DEF ClosePart, Asked, Mailed, Conn, Live
<1>7. OverPart'
  BY <1>0, <1>1, <1>2, ConnsAre DEF OverPart, Asked, Mailed, Conn, Live
<1>8. OpenPart'
  BY <1>0, <1>1, <1>2, ConnsAre DEF OpenPart, SvcReads, Reads, Overs, Asked, Mailed, Conn,
     Live
<1>9. ShutPart'
  BY <1>0, <1>1, <1>2, ConnsAre DEF ShutPart, Done, SvcReads, Reads, Asked, Mailed, Conn,
     Live
<1>10. UserPart'
  BY <1>0, <1>1, <1>2, ConnsAre DEF UserPart, Conn, Live
<1>11. WaitPart'
  BY <1>0, <1>1, <1>2, ConnsAre DEF WaitPart, Watched, Asked, Mailed, Conn, Live
<1>12. OrderPart'
  BY <1>0, <1>1, <1>2, ConnsAre DEF OrderPart, InHand, Mine, Conn
<1>13. PolledPart'
  BY <1>0, <1>1, <1>2, ConnsAre DEF PolledPart, Mine, Asked, Mailed, Conn, Live
<1> QED BY <1>3, <1>4, <1>5, <1>6, <1>7, <1>8, <1>9, <1>10, <1>11, <1>12, <1>13 DEF NetInv

(* The first close.                                                        *)
LEMMA CloseMarkOk ==
    ASSUME NetInv, fault = "none", CloseMark, ~sendRuntime.closeCalled4Svc
    PROVE  NetInv'
<1>0. /\ NetTypes /\ SlotPart /\ HeardPart /\ ClosePart /\ OverPart /\ OpenPart
      /\ ShutPart /\ UserPart /\ WaitPart /\ OrderPart /\ PolledPart
      /\ NoConn \notin known /\ NoConn \notin waiting /\ NoConn \notin closed
      /\ pc # "idle" => alive /\ op \in known /\ op \in Conns /\ op # NoConn
      /\ pc = "idle" => op = NoConn
      /\ cnt \in Nat \ {0} /\ Conn \in Nat /\ 0 <= Conn /\ (Live => Conn \in Conns)
  BY NetNow
<1>1. /\ pc = "close" /\ Mine /\ sendRuntime' = [sendRuntime EXCEPT !.closeCalled4Svc = TRUE]
      /\ closed' = closed \union {op} /\ pc' = "tcpclose"
      /\ UNCHANGED <<cnt, ctx, readRuntime, slot, queTaskReq, io, npc, seen, evOut,
                     op, isNew, local, inbox, known, waiting, alive, over,
                     closedUnsent, fault>>
  BY <1>0 DEF CloseMark, sockVars, netVars, boxVars, svcVars, ghosts, At, Return, Mine
<1>2. /\ sendRuntime' \in SendType
      /\ sendRuntime'.sockClosed = sendRuntime.sockClosed
      /\ sendRuntime'.closeCalled4Svc
      /\ sendRuntime'.unSendBytes = sendRuntime.unSendBytes
      /\ sendRuntime'.queUnSend = sendRuntime.queUnSend
      /\ sendRuntime'.sends = sendRuntime.sends
  BY <1>0, <1>1 DEF NetTypes, SendType
<1>3. /\ op = Conn /\ Conn \notin closed /\ ~SvcReads /\ isNew /\ op \in Conns
      /\ ~ctx.closeCalled4Net
  BY <1>0, <1>1 DEF SvcReads, WaitPart, ClosePart, Mine, Conn
<1>4. Live => alive
  BY <1>0, <1>1
<1>5. Live => Done \/ (~Asked("READ_OVER", Conn) /\ ~ctx.readOver4Net)
  BY <1>0, <1>3, <1>4 DEF OpenPart, Done, Overs
<1>6. Done => Done'
  <2>1. Reads' => Reads
    BY <1>1, <1>2, <1>3 DEF Reads, SvcReads, Asked, Mailed, Conn
  <2> QED BY <2>1, <1>1, <1>2 DEF Done, Asked, Conn
<1>7. Live => ~Asked("TCP_CLOSE", Conn)
  BY <1>0, <1>3 DEF ClosePart
<1>8. NetTypes'
  BY <1>0, <1>1, <1>2, <1>3, <1>4, <1>5, <1>6, <1>7, ConnsAre DEF NetTypes
<1>9. SlotPart'
  BY <1>0, <1>1, <1>2, <1>3, <1>4, <1>5, <1>6, <1>7, ConnsAre DEF SlotPart, Asked, Mailed,
     Conn, Live
<1>10. HeardPart'
  BY <1>0, <1>1, <1>2, <1>3, <1>4, <1>5, <1>6, <1>7, ConnsAre DEF HeardPart, Asked, Mailed,
     Conn, Live
<1>11. ClosePart'
  BY <1>0, <1>1, <1>2, <1>3, <1>4, <1>5, <1>6, <1>7, ConnsAre DEF ClosePart, Asked, Mailed,
     Conn, Live
<1>12. OverPart'
  BY <1>0, <1>1, <1>2, <1>3, <1>4, <1>5, <1>6, <1>7, ConnsAre DEF OverPart, Asked, Mailed,
     Conn, Live
<1>13. OpenPart'
  BY <1>0, <1>1, <1>2, <1>3, <1>4, <1>5, <1>6, <1>7, ConnsAre DEF OpenPart, SvcReads,
     Reads, Overs, Asked, Mailed, Conn, Live
<1>14. ShutPart'

  <2>1. ctx' = ctx /\ queTaskReq' = queTaskReq /\ cnt' = cnt /\ closedUnsent' = closedUnsent
    BY <1>1
  <2>2. Live' => Live
    BY <2>1 DEF Live, Conn
  <2> QED BY <1>3, <1>5, <1>6, <1>7, <2>1, <2>2 DEF ShutPart, Asked, Conn, Live,
         NoneBehind, Has
<1>15. UserPart'
  BY <1>0, <1>1, <1>2, <1>3, <1>4, <1>5, <1>6, <1>7, ConnsAre DEF UserPart, Conn, Live
<1>16. WaitPart'
  BY <1>0, <1>1, <1>2, <1>3, <1>4, <1>5, <1>6, <1>7, ConnsAre DEF WaitPart, Watched, Asked,
     Mailed, Conn, Live
<1>17. OrderPart'
  BY <1>0, <1>1, <1>2, <1>3, <1>4, <1>5, <1>6, <1>7, ConnsAre DEF OrderPart, InHand, Mine,
     Conn, Next1
<1>18. PolledPart'
  BY <1>0, <1>1, <1>2, <1>3, <1>4, <1>5, <1>6, <1>7, ConnsAre DEF PolledPart, Mine, Asked,
     Mailed, Conn, Live
<1> QED BY <1>8, <1>9, <1>10, <1>11, <1>12, <1>13, <1>14, <1>15, <1>16, <1>17, <1>18
       DEF NetInv

(* A send to a peer that has gone.                                         *)
LEMMA SendDirectGoneOk ==
    ASSUME NetInv, fault = "none", SendDirect, io.peer = "gone"
    PROVE  NetInv'
<1>0. /\ NetTypes /\ SlotPart /\ HeardPart /\ ClosePart /\ OverPart /\ OpenPart
      /\ ShutPart /\ UserPart /\ WaitPart /\ OrderPart /\ PolledPart
      /\ NoConn \notin known /\ NoConn \notin waiting /\ NoConn \notin closed
      /\ pc # "idle" => alive /\ op \in known /\ op \in Conns /\ op # NoConn
      /\ pc = "idle" => op = NoConn
      /\ cnt \in Nat \ {0} /\ Conn \in Nat /\ 0 <= Conn /\ (Live => Conn \in Conns)
  BY NetNow
<1>1. /\ pc = "send" /\ Mine /\ ~sendRuntime.closeCalled4Svc /\ sendRuntime.unSendBytes < 1 /\ ctx.fd
      /\ pc' = "idle" /\ op' = NoConn /\ isNew' = FALSE /\ local' = 0
      /\ UNCHANGED <<cnt, ctx, readRuntime, sendRuntime, slot, queTaskReq, io, npc,
                     seen, evOut, inbox, known, waiting, alive, closed, over,
                     closedUnsent, fault>>
  BY <1>0 DEF SendDirect, CanSendDirect, sockVars, netVars, boxVars, svcVars, ghosts, At,
     Return, Mine
<1>2. /\ op = Conn /\ op \in Conns /\ Conn \notin closed /\ ~SvcReads /\ isNew /\ isNew' \in BOOLEAN
  BY <1>0, <1>1 DEF SvcReads, WaitPart, ClosePart, Mine, Conn, NetTypes
<1>3. NetTypes'
  BY <1>0, <1>1, <1>2, ConnsAre DEF NetTypes
<1>4. SlotPart'
  BY <1>0, <1>1, <1>2, ConnsAre DEF SlotPart, Asked, Mailed, Conn, Live
<1>5. HeardPart'
  BY <1>0, <1>1, <1>2, ConnsAre DEF HeardPart, Asked, Mailed, Conn, Live
<1>6. ClosePart'
  BY <1>0, <1>1, <1>2, ConnsAre DEF ClosePart, Asked, Mailed, Conn, Live
<1>7. OverPart'
  BY <1>0, <1>1, <1>2, ConnsAre DEF OverPart, Asked, Mailed, Conn, Live
<1>8. OpenPart'
  BY <1>0, <1>1, <1>2, ConnsAre DEF OpenPart, SvcReads, Reads, Overs, Asked, Mailed, Conn,
     Live
<1>9. ShutPart'
  BY <1>0, <1>1, <1>2, ConnsAre DEF ShutPart, Done, SvcReads, Reads, Asked, Mailed, Conn,
     Live
<1>10. UserPart'
  BY <1>0, <1>1, <1>2, ConnsAre DEF UserPart, Conn, Live
<1>11. WaitPart'
  BY <1>0, <1>1, <1>2, ConnsAre DEF WaitPart, Watched, Asked, Mailed, Conn, Live
<1>12. OrderPart'
  BY <1>0, <1>1, <1>2, ConnsAre DEF OrderPart, InHand, Mine, Conn
<1>13. PolledPart'
  BY <1>0, <1>1, <1>2, ConnsAre DEF PolledPart, Mine, Asked, Mailed, Conn, Live
<1> QED BY <1>3, <1>4, <1>5, <1>6, <1>7, <1>8, <1>9, <1>10, <1>11, <1>12, <1>13 DEF NetInv

(* A send the socket takes, or a part of it.                               *)
LEMMA SendDirectOk ==
    ASSUME NetInv, fault = "none", SendDirect, io.peer # "gone"
    PROVE  NetInv'
<1>0. /\ NetTypes /\ SlotPart /\ HeardPart /\ ClosePart /\ OverPart /\ OpenPart
      /\ ShutPart /\ UserPart /\ WaitPart /\ OrderPart /\ PolledPart
      /\ NoConn \notin known /\ NoConn \notin waiting /\ NoConn \notin closed
      /\ pc # "idle" => alive /\ op \in known /\ op \in Conns /\ op # NoConn
      /\ pc = "idle" => op = NoConn
      /\ cnt \in Nat \ {0} /\ Conn \in Nat /\ 0 <= Conn /\ (Live => Conn \in Conns)
  BY NetNow
<1>1. /\ pc = "send" /\ Mine /\ ~sendRuntime.closeCalled4Svc /\ sendRuntime.unSendBytes < 1 /\ ctx.fd
      /\ \E k \in 0 .. SendLen :
            /\ io' = [io EXCEPT !.wire = @ \o Bytes(Next1(sendRuntime), k)]
            /\ \/ k = SendLen /\ pc' = "idle" /\ op' = NoConn /\ isNew' = FALSE /\ local' = 0
               \/ k # SendLen /\ pc' = "enqueue" /\ op' = op /\ isNew' = isNew /\ local' = SendLen - k
      /\ sendRuntime' = [sendRuntime EXCEPT !.sends = @ + 1]
      /\ UNCHANGED <<cnt, ctx, readRuntime, slot, queTaskReq, npc, seen, evOut,
                     inbox, known, waiting, alive, closed, over, closedUnsent,
                     fault>>
  BY <1>0 DEF SendDirect, CanSendDirect, sockVars, netVars, boxVars, svcVars, ghosts, At,
     Return, Mine
<1>2. /\ op = Conn /\ op \in Conns /\ Conn \notin closed /\ ~SvcReads /\ isNew /\ isNew' \in BOOLEAN
  BY <1>0, <1>1 DEF SvcReads, WaitPart, ClosePart, Mine, Conn, NetTypes
<1>3. /\ io.wire \in Seq(Int) /\ sendRuntime.queUnSend \in Seq(Int) /\ sendRuntime.sends \in Nat
      /\ sendRuntime.unSendBytes \in Nat /\ SendLen \in Nat \ {0}
      /\ Next1(sendRuntime) \in Nat
  BY <1>0, NetAssumption, SendBytes DEF NetTypes, IoType, SendType, Next1
<1>4. PICK k \in 0 .. SendLen :
            /\ io' = [io EXCEPT !.wire = @ \o Bytes(Next1(sendRuntime), k)]
            /\ \/ k = SendLen /\ pc' = "idle" /\ op' = NoConn /\ isNew' = FALSE /\ local' = 0
               \/ k # SendLen /\ pc' = "enqueue" /\ op' = op /\ isNew' = isNew /\ local' = SendLen - k
  BY <1>1
<1>5. k \in Nat /\ SendLen - k \in Nat /\ local' \in Nat
  BY <1>3, <1>4
<1>6. PICK b : b = Bytes(Next1(sendRuntime), k)
  OBVIOUS
<1>7. /\ b \in Seq(Int) /\ io.wire \o b \in Seq(Int) /\ Len(sendRuntime.queUnSend) = 0
      /\ io.wire = Bytes(0, Next1(sendRuntime))
      /\ (io.wire \o b) \o sendRuntime.queUnSend = Bytes(0, Next1(sendRuntime) + k)
  <2>1. Len(sendRuntime.queUnSend) = 0
    <3>1. Len(sendRuntime.queUnSend) \in Nat /\ seen \in Nat
      BY <1>0, <1>3, LenProperties DEF NetTypes
    <3> QED BY <3>1, <1>0, <1>1, <1>3 DEF OrderPart
  <2>2. b \in Seq(Int) /\ Bytes(0, Next1(sendRuntime)) \o b = Bytes(0, Next1(sendRuntime) + k)
    BY <1>3, <1>5, <1>6, BytesJoin
  <2>3. io.wire \o sendRuntime.queUnSend = Bytes(0, Next1(sendRuntime))
    BY <1>0, <1>1, <1>3 DEF OrderPart, InHand
  <2>4. /\ io.wire \o b \in Seq(Int) /\ io.wire \o sendRuntime.queUnSend = io.wire
        /\ (io.wire \o b) \o sendRuntime.queUnSend = io.wire \o b
    BY <1>3, <2>1, <2>2, Joining
  <2> QED BY <2>1, <2>2, <2>3, <2>4
<1>8. /\ sendRuntime' \in SendType
      /\ sendRuntime'.sockClosed = sendRuntime.sockClosed
      /\ sendRuntime'.closeCalled4Svc = sendRuntime.closeCalled4Svc
      /\ sendRuntime'.unSendBytes = sendRuntime.unSendBytes
      /\ sendRuntime'.queUnSend = sendRuntime.queUnSend
      /\ sendRuntime'.sends = sendRuntime.sends + 1
  <2>1. sendRuntime \in SendType
    BY <1>0 DEF NetTypes
  <2>2. sendRuntime' = [sendRuntime EXCEPT !.sends = @ + 1]
    BY <1>1
  <2> QED BY <2>1, <2>2 DEF SendType
<1>9. /\ io' \in IoType
      /\ io'.in = io.in
      /\ io'.recv = io.recv
      /\ io'.peer = io.peer
      /\ io'.wire = io.wire \o b
  BY <1>0, <1>4, <1>6, <1>7 DEF NetTypes, IoType
<1>10. /\ Next1(sendRuntime') = Next1(sendRuntime) + SendLen
  BY <1>3, <1>8, SendBytes DEF Next1
<1>11. /\ pc' \in {"idle", "enqueue"} /\ local' = (IF pc' = "enqueue" THEN SendLen - k ELSE 0)
       /\ pc' = "idle" => k = SendLen /\ op' = NoConn /\ isNew' = FALSE
       /\ pc' = "enqueue" => op' = op /\ isNew'
  BY <1>2, <1>4
<1>12. NetTypes'
  BY <1>0, <1>1, <1>2, <1>3, <1>4, <1>5, <1>6, <1>7, <1>8, <1>9, <1>10, <1>11, ConnsAre
     DEF NetTypes
<1>13. SlotPart'
  BY <1>0, <1>1, <1>2, <1>3, <1>4, <1>5, <1>6, <1>7, <1>8, <1>9, <1>10, <1>11, ConnsAre
     DEF SlotPart, Asked, Mailed, Conn, Live
<1>14. HeardPart'
  BY <1>0, <1>1, <1>2, <1>3, <1>4, <1>5, <1>6, <1>7, <1>8, <1>9, <1>10, <1>11, ConnsAre
     DEF HeardPart, Asked, Mailed, Conn, Live
<1>15. ClosePart'
  BY <1>0, <1>1, <1>2, <1>3, <1>4, <1>5, <1>6, <1>7, <1>8, <1>9, <1>10, <1>11, ConnsAre
     DEF ClosePart, Asked, Mailed, Conn, Live
<1>16. OverPart'
  BY <1>0, <1>1, <1>2, <1>3, <1>4, <1>5, <1>6, <1>7, <1>8, <1>9, <1>10, <1>11, ConnsAre
     DEF OverPart, Asked, Mailed, Conn, Live
<1>17. OpenPart'
  BY <1>0, <1>1, <1>2, <1>3, <1>4, <1>5, <1>6, <1>7, <1>8, <1>9, <1>10, <1>11, ConnsAre
     DEF OpenPart, SvcReads, Reads, Overs, Asked, Mailed, Conn, Live
<1>18. ShutPart'
  BY <1>0, <1>1, <1>2, <1>3, <1>4, <1>5, <1>6, <1>7, <1>8, <1>9, <1>10, <1>11, ConnsAre
     DEF ShutPart, Done, SvcReads, Reads, Asked, Mailed, Conn, Live
<1>19. UserPart'
  BY <1>0, <1>1, <1>2, <1>3, <1>4, <1>5, <1>6, <1>7, <1>8, <1>9, <1>10, <1>11, ConnsAre
     DEF UserPart, Conn, Live
<1>20. WaitPart'
  BY <1>0, <1>1, <1>2, <1>3, <1>4, <1>5, <1>6, <1>7, <1>8, <1>9, <1>10, <1>11, ConnsAre
     DEF WaitPart, Watched, Asked, Mailed, Conn, Live
<1>21. OrderPart'

  <2>1. Next1(sendRuntime') - InHand' = Next1(sendRuntime) + k /\ local' <= Next1(sendRuntime')
    BY <1>3, <1>5, <1>10, <1>11 DEF InHand
  <2> QED BY <1>0, <1>1, <1>2, <1>7, <1>8, <1>9, <1>11, <2>1 DEF OrderPart, InHand, Mine,
         Conn
<1>22. PolledPart'
  BY <1>0, <1>1, <1>2, <1>3, <1>4, <1>5, <1>6, <1>7, <1>8, <1>9, <1>10, <1>11, ConnsAre
     DEF PolledPart, Mine, Asked, Mailed, Conn, Live
<1> QED BY <1>12, <1>13, <1>14, <1>15, <1>16, <1>17, <1>18, <1>19, <1>20, <1>21, <1>22
       DEF NetInv

(* A send behind bytes that wait.                                          *)
LEMMA SendBehindOk ==
    ASSUME NetInv, fault = "none", SendBehind
    PROVE  NetInv'
<1>0. /\ NetTypes /\ SlotPart /\ HeardPart /\ ClosePart /\ OverPart /\ OpenPart
      /\ ShutPart /\ UserPart /\ WaitPart /\ OrderPart /\ PolledPart
      /\ NoConn \notin known /\ NoConn \notin waiting /\ NoConn \notin closed
      /\ pc # "idle" => alive /\ op \in known /\ op \in Conns /\ op # NoConn
      /\ pc = "idle" => op = NoConn
      /\ cnt \in Nat \ {0} /\ Conn \in Nat /\ 0 <= Conn /\ (Live => Conn \in Conns)
  BY NetNow
<1>1. /\ pc = "send" /\ Mine /\ ~sendRuntime.closeCalled4Svc
      /\ sendRuntime' = [sendRuntime EXCEPT !.sends = @ + 1]
      /\ pc' = "enqueue" /\ local' = SendLen
      /\ UNCHANGED <<cnt, ctx, readRuntime, slot, queTaskReq, io, npc, seen, evOut,
                     op, isNew, inbox, known, waiting, alive, closed, over,
                     closedUnsent, fault>>
  BY <1>0 DEF SendBehind, sockVars, netVars, boxVars, svcVars, ghosts, At, Return, Mine
<1>2. /\ op = Conn /\ op \in Conns /\ Conn \notin closed /\ ~SvcReads /\ isNew /\ isNew' \in BOOLEAN
  BY <1>0, <1>1 DEF SvcReads, WaitPart, ClosePart, Mine, Conn, NetTypes
<1>3. /\ io.wire \in Seq(Int) /\ sendRuntime.queUnSend \in Seq(Int) /\ sendRuntime.sends \in Nat
      /\ sendRuntime.unSendBytes \in Nat /\ SendLen \in Nat \ {0}
      /\ Next1(sendRuntime) \in Nat
  BY <1>0, NetAssumption, SendBytes DEF NetTypes, IoType, SendType, Next1
<1>4. /\ sendRuntime' \in SendType
      /\ sendRuntime'.sockClosed = sendRuntime.sockClosed
      /\ sendRuntime'.closeCalled4Svc = sendRuntime.closeCalled4Svc
      /\ sendRuntime'.unSendBytes = sendRuntime.unSendBytes
      /\ sendRuntime'.queUnSend = sendRuntime.queUnSend
      /\ sendRuntime'.sends = sendRuntime.sends + 1
  <2>1. sendRuntime \in SendType
    BY <1>0 DEF NetTypes
  <2>2. sendRuntime' = [sendRuntime EXCEPT !.sends = @ + 1]
    BY <1>1
  <2> QED BY <2>1, <2>2 DEF SendType
<1>5. /\ Next1(sendRuntime') = Next1(sendRuntime) + SendLen
  BY <1>3, <1>4, SendBytes DEF Next1
<1>6. NetTypes'
  BY <1>0, <1>1, <1>2, <1>3, <1>4, <1>5, ConnsAre DEF NetTypes
<1>7. SlotPart'
  BY <1>0, <1>1, <1>2, <1>3, <1>4, <1>5, ConnsAre DEF SlotPart, Asked, Mailed, Conn, Live
<1>8. HeardPart'
  BY <1>0, <1>1, <1>2, <1>3, <1>4, <1>5, ConnsAre DEF HeardPart, Asked, Mailed, Conn, Live
<1>9. ClosePart'
  BY <1>0, <1>1, <1>2, <1>3, <1>4, <1>5, ConnsAre DEF ClosePart, Asked, Mailed, Conn, Live
<1>10. OverPart'
  BY <1>0, <1>1, <1>2, <1>3, <1>4, <1>5, ConnsAre DEF OverPart, Asked, Mailed, Conn, Live
<1>11. OpenPart'
  BY <1>0, <1>1, <1>2, <1>3, <1>4, <1>5, ConnsAre DEF OpenPart, SvcReads, Reads, Overs,
     Asked, Mailed, Conn, Live
<1>12. ShutPart'
  BY <1>0, <1>1, <1>2, <1>3, <1>4, <1>5, ConnsAre DEF ShutPart, Done, SvcReads, Reads,
     Asked, Mailed, Conn, Live
<1>13. UserPart'
  BY <1>0, <1>1, <1>2, <1>3, <1>4, <1>5, ConnsAre DEF UserPart, Conn, Live
<1>14. WaitPart'
  BY <1>0, <1>1, <1>2, <1>3, <1>4, <1>5, ConnsAre DEF WaitPart, Watched, Asked, Mailed,
     Conn, Live
<1>15. OrderPart'

  <2>1. /\ Next1(sendRuntime') - InHand' = Next1(sendRuntime) - InHand
        /\ local' <= Next1(sendRuntime')
    BY <1>1, <1>3, <1>5 DEF InHand
  <2> QED BY <1>0, <1>1, <1>2, <1>4, <2>1 DEF OrderPart, InHand, Mine, Conn
<1>16. PolledPart'
  BY <1>0, <1>1, <1>2, <1>3, <1>4, <1>5, ConnsAre DEF PolledPart, Mine, Asked, Mailed,
     Conn, Live
<1> QED BY <1>6, <1>7, <1>8, <1>9, <1>10, <1>11, <1>12, <1>13, <1>14, <1>15, <1>16
       DEF NetInv

(* What the socket did not take goes behind what waits.                    *)
LEMMA SendEnqueueOk ==
    ASSUME NetInv, fault = "none", SendEnqueue
    PROVE  NetInv'
<1>0. /\ NetTypes /\ SlotPart /\ HeardPart /\ ClosePart /\ OverPart /\ OpenPart
      /\ ShutPart /\ UserPart /\ WaitPart /\ OrderPart /\ PolledPart
      /\ NoConn \notin known /\ NoConn \notin waiting /\ NoConn \notin closed
      /\ pc # "idle" => alive /\ op \in known /\ op \in Conns /\ op # NoConn
      /\ pc = "idle" => op = NoConn
      /\ cnt \in Nat \ {0} /\ Conn \in Nat /\ 0 <= Conn /\ (Live => Conn \in Conns)
  BY NetNow
<1>1. /\ pc = "enqueue" /\ Mine
      /\ sendRuntime' = [sendRuntime EXCEPT
             !.queUnSend = @ \o Bytes(Next1(sendRuntime) - local, local),
             !.unSendBytes = @ + local]
      /\ \/ /\ sendRuntime.unSendBytes < 1
            /\ pc' = "sendwait" /\ local' = 0 /\ op' = op /\ isNew' = isNew
         \/ /\ ~(sendRuntime.unSendBytes < 1)
            /\ pc' = "idle" /\ op' = NoConn /\ isNew' = FALSE /\ local' = 0
      /\ UNCHANGED <<cnt, ctx, readRuntime, slot, queTaskReq, io, npc, seen, evOut,
                     inbox, known, waiting, alive, closed, over, closedUnsent,
                     fault>>
  BY <1>0 DEF SendEnqueue, sockVars, netVars, boxVars, svcVars, ghosts, At, Return, Mine
<1>2. /\ op = Conn /\ op \in Conns /\ Conn \notin closed /\ ~SvcReads /\ isNew /\ isNew' \in BOOLEAN
  BY <1>0, <1>1 DEF SvcReads, WaitPart, ClosePart, Mine, Conn, NetTypes
<1>3. /\ io.wire \in Seq(Int) /\ sendRuntime.queUnSend \in Seq(Int) /\ sendRuntime.sends \in Nat
      /\ sendRuntime.unSendBytes \in Nat /\ SendLen \in Nat \ {0}
      /\ Next1(sendRuntime) \in Nat
  BY <1>0, NetAssumption, SendBytes DEF NetTypes, IoType, SendType, Next1
<1>4. local \in Nat /\ local <= Next1(sendRuntime)
  <2>1. local \in Nat
    BY <1>0 DEF NetTypes
  <2>2. local <= Next1(sendRuntime)
    BY <1>0, <1>1 DEF OrderPart
  <2> QED BY <2>1, <2>2
<1>5. io.wire \o sendRuntime.queUnSend = Bytes(0, Next1(sendRuntime) - local)
  BY <1>0, <1>1 DEF OrderPart, InHand
<1>6. PICK q \in Seq(Int) :
            /\ q = sendRuntime.queUnSend \o Bytes(Next1(sendRuntime) - local, local)
            /\ io.wire \o q = Bytes(0, Next1(sendRuntime))
            /\ Len(q) = Len(sendRuntime.queUnSend) + local /\ Len(sendRuntime.queUnSend) \in Nat
  <2>1. PICK w, o, n, l : /\ w = io.wire /\ o = sendRuntime.queUnSend
                          /\ n = Next1(sendRuntime) /\ l = local
    OBVIOUS
  <2>2. w \in Seq(Int) /\ o \in Seq(Int) /\ n \in Nat /\ l \in Nat /\ l <= n
    BY <1>3, <1>4, <2>1
  <2>3. w \o o = Bytes(0, n - l)
    BY <1>5, <2>1
  <2>4. \E r \in Seq(Int) : /\ r = o \o Bytes(n - l, l) /\ w \o r = Bytes(0, n)
                            /\ Len(r) = Len(o) + l /\ Len(o) \in Nat
    BY <2>2, <2>3, JoinBehind
  <2> QED BY <2>1, <2>4
<1>7. /\ sendRuntime' \in SendType
      /\ sendRuntime'.sockClosed = sendRuntime.sockClosed
      /\ sendRuntime'.closeCalled4Svc = sendRuntime.closeCalled4Svc
      /\ sendRuntime'.unSendBytes = sendRuntime.unSendBytes + local
      /\ sendRuntime'.queUnSend = q
      /\ sendRuntime'.sends = sendRuntime.sends
  <2>1. sendRuntime \in SendType
    BY <1>0 DEF NetTypes
  <2>2. sendRuntime' = [sendRuntime EXCEPT !.queUnSend = q, !.unSendBytes = sendRuntime.unSendBytes + local]
        /\ sendRuntime.unSendBytes + local \in Nat
    BY <1>1, <1>3, <1>4, <1>6
  <2> QED BY <2>1, <2>2 DEF SendType
<1>8. Next1(sendRuntime') = Next1(sendRuntime)
  BY <1>7 DEF Next1
<1>9. /\ pc = "enqueue" /\ Mine /\ local' = 0
      /\ \/ pc' = "sendwait" /\ op' = op /\ isNew' = isNew
         \/ pc' = "idle" /\ op' = NoConn /\ isNew' = FALSE
      /\ sendRuntime.unSendBytes < 1 => pc' = "sendwait"
      /\ UNCHANGED <<cnt, ctx, readRuntime, slot, queTaskReq, io, npc, seen, evOut,
                     inbox, known, waiting, alive, closed, over, closedUnsent,
                     fault>>
  BY <1>1
<1>10. NetTypes'
  BY <1>0, <1>2, <1>7, <1>9, ConnsAre DEF NetTypes
<1>11. SlotPart'
  BY <1>0, <1>2, <1>7, <1>9, ConnsAre DEF SlotPart, Asked, Mailed, Conn, Live
<1>12. HeardPart'
  BY <1>0, <1>2, <1>7, <1>9, ConnsAre DEF HeardPart, Asked, Mailed, Conn, Live
<1>13. ClosePart'
  BY <1>0, <1>2, <1>7, <1>9, ConnsAre DEF ClosePart, Asked, Mailed, Conn, Live
<1>14. OverPart'
  BY <1>0, <1>2, <1>7, <1>9, ConnsAre DEF OverPart, Asked, Mailed, Conn, Live
<1>15. OpenPart'
  BY <1>0, <1>2, <1>7, <1>9, ConnsAre DEF OpenPart, SvcReads, Reads, Overs, Asked, Mailed,
     Conn, Live
<1>16. ShutPart'
  BY <1>0, <1>2, <1>7, <1>9, ConnsAre DEF ShutPart, Done, SvcReads, Reads, Asked, Mailed,
     Conn, Live
<1>17. UserPart'
  BY <1>0, <1>2, <1>7, <1>9, ConnsAre DEF UserPart, Conn, Live
<1>18. WaitPart'
  BY <1>0, <1>2, <1>7, <1>9, ConnsAre DEF WaitPart, Watched, Asked, Mailed, Conn, Live
<1>19. OrderPart'

  <2>1. Next1(sendRuntime') - InHand' = Next1(sendRuntime)
    BY <1>9, <1>3, <1>8 DEF InHand
  <2>2. PICK n : n = Len(sendRuntime.queUnSend) /\ Len(sendRuntime'.queUnSend) = n + local
    BY <1>6, <1>7
  <2>3. n \in Nat /\ seen \in Nat /\ sendRuntime.unSendBytes \in Nat
    BY <1>0, <1>3, <1>6, <2>2 DEF NetTypes
  <2>4. /\ sendRuntime.unSendBytes = n + (IF npc = "subtract" THEN seen ELSE 0)
        /\ npc = "sending" => seen <= n
    BY <1>0, <2>2 DEF OrderPart
  <2>5. /\ sendRuntime'.unSendBytes
              = Len(sendRuntime'.queUnSend) + (IF npc = "subtract" THEN seen ELSE 0)
        /\ npc = "sending" => seen <= Len(sendRuntime'.queUnSend)
    <3>1. sendRuntime'.unSendBytes = sendRuntime.unSendBytes + local /\ local \in Nat
      BY <1>4, <1>7
    <3>2. PICK m, x : /\ m = Len(sendRuntime'.queUnSend)
                      /\ x = IF npc = "subtract" THEN seen ELSE 0
      OBVIOUS
    <3>3. sendRuntime.unSendBytes = n + x /\ m = n + local
      BY <2>2, <2>4, <3>2
    <3>4. x \in Nat /\ (npc = "sending" => seen <= m)
      BY <2>2, <2>3, <2>4, <3>1, <3>2
    <3>5. sendRuntime'.unSendBytes = m + x
      BY <2>3, <3>1, <3>3, <3>4
    <3> QED BY <3>2, <3>4, <3>5
  <2>6. io'.wire \o sendRuntime'.queUnSend = Bytes(0, Next1(sendRuntime))
    BY <1>6, <1>7, <1>9
  <2> QED BY <1>9, <2>1, <2>5, <2>6 DEF OrderPart, InHand
<1>20. PolledPart'

  <2>1. CASE sendRuntime.unSendBytes < 1
    BY <1>9, <2>1 DEF PolledPart, Mine, Conn
  <2>2. CASE ~(sendRuntime.unSendBytes < 1)
    <3>1. sendRuntime.unSendBytes > 0 /\ pc # "sendwait"
      BY <1>3, <1>9, <2>2
    <3>2. \/ Asked("SEND_WAIT", Conn) \/ sendRuntime.sockClosed \/ ~Live
          \/ ctx.pollOut /\ ~(npc = "sending" /\ seen < 1)
      BY <1>0, <3>1 DEF PolledPart
    <3> QED BY <1>7, <1>9, <3>2 DEF PolledPart, Asked, Mine, Conn, Live
  <2> QED BY <2>1, <2>2
<1> QED BY <1>10, <1>11, <1>12, <1>13, <1>14, <1>15, <1>16, <1>17, <1>18, <1>19, <1>20
       DEF NetInv

(* A call that uses what is no longer its connection's.                    *)
LEMMA UseStaleOk ==
    ASSUME NetInv, fault = "none", UseStale
    PROVE  NetInv'
<1>0. /\ NetTypes /\ SlotPart /\ HeardPart /\ ClosePart /\ OverPart /\ OpenPart
      /\ ShutPart /\ UserPart /\ WaitPart /\ OrderPart /\ PolledPart
      /\ NoConn \notin known /\ NoConn \notin waiting /\ NoConn \notin closed
      /\ pc # "idle" => alive /\ op \in known /\ op \in Conns /\ op # NoConn
      /\ pc = "idle" => op = NoConn
      /\ cnt \in Nat \ {0} /\ Conn \in Nat /\ 0 <= Conn /\ (Live => Conn \in Conns)
  BY NetNow
<1>1. /\ pc # "idle" /\ (~Mine \/ (Mine /\ ~ctx.fd)) /\ fault' = "stale"
      /\ UNCHANGED <<cnt, ctx, readRuntime, sendRuntime, slot, queTaskReq, io, npc,
                     seen, evOut, pc, op, isNew, local, inbox, known, waiting,
                     alive, closed, over, closedUnsent>>
  BY <1>0 DEF UseStale, At, Fault, sockVars, netVars, boxVars, svcVars, ghosts, At, Return,
     Mine
<1>2. op \in closed \union over
  <2>1. CASE ~Mine
    <3>1. op # Conn /\ op <= Conn /\ op \in Conns /\ op \in known
      BY <1>0, <1>1, <2>1 DEF SlotPart, Mine, Conn
    <3>2. cnt > op
      BY <1>0, <3>1, ConnsAre DEF SlotPart
    <3> QED BY <1>0, <3>1, <3>2 DEF UserPart
  <2>2. CASE Mine
    BY <1>0, <1>1, <2>2, ConnsAre DEF OverPart, Mine, Conn
  <2> QED BY <2>1, <2>2
<1>3. NetTypes'
  BY <1>0, <1>1, <1>2, ConnsAre DEF NetTypes
<1>4. SlotPart'
  BY <1>0, <1>1, <1>2, ConnsAre DEF SlotPart, Asked, Mailed, Conn, Live
<1>5. HeardPart'
  BY <1>0, <1>1, <1>2, ConnsAre DEF HeardPart, Asked, Mailed, Conn, Live
<1>6. ClosePart'
  BY <1>0, <1>1, <1>2, ConnsAre DEF ClosePart, Asked, Mailed, Conn, Live
<1>7. OverPart'
  BY <1>0, <1>1, <1>2, ConnsAre DEF OverPart, Asked, Mailed, Conn, Live
<1>8. OpenPart'
  BY <1>0, <1>1, <1>2, ConnsAre DEF OpenPart, SvcReads, Reads, Overs, Asked, Mailed, Conn,
     Live
<1>9. ShutPart'
  BY <1>0, <1>1, <1>2, ConnsAre DEF ShutPart, Done, SvcReads, Reads, Asked, Mailed, Conn,
     Live
<1>10. UserPart'
  BY <1>0, <1>1, <1>2, ConnsAre DEF UserPart, Conn, Live
<1>11. WaitPart'
  BY <1>0, <1>1, <1>2, ConnsAre DEF WaitPart, Watched, Asked, Mailed, Conn, Live
<1>12. OrderPart'
  BY <1>0, <1>1, <1>2, ConnsAre DEF OrderPart, InHand, Mine, Conn
<1>13. PolledPart'
  BY <1>0, <1>1, <1>2, ConnsAre DEF PolledPart, Mine, Asked, Mailed, Conn, Live
<1> QED BY <1>3, <1>4, <1>5, <1>6, <1>7, <1>8, <1>9, <1>10, <1>11, <1>12, <1>13 DEF NetInv

-----------------------------------------------------------------------------
(* The net thread's requests keep the invariant.                           *)

(* A new connection: its service is told.                                  *)
LEMMA TcpAddOk ==
    ASSUME NetInv, fault = "none", DoTcpAdd, alive
    PROVE  NetInv'
<1>0. /\ NetTypes /\ SlotPart /\ HeardPart /\ ClosePart /\ OverPart /\ OpenPart
      /\ ShutPart /\ UserPart /\ WaitPart /\ OrderPart /\ PolledPart
      /\ NoConn \notin known /\ NoConn \notin waiting /\ NoConn \notin closed
      /\ pc # "idle" => alive /\ op \in known /\ op \in Conns /\ op # NoConn
      /\ pc = "idle" => op = NoConn
      /\ cnt \in Nat \ {0} /\ Conn \in Nat /\ 0 <= Conn /\ (Live => Conn \in Conns)
  BY NetNow
<1>1. /\ npc = "tasks" /\ queTaskReq # << >> /\ Head(queTaskReq).cmd = "TCP_ADD"
      /\ queTaskReq' = Tail(queTaskReq) /\ inbox' = Append(inbox, Msg("conn_in", Head(queTaskReq).id))
      /\ ctx' = [ctx EXCEPT !.pollIn = TRUE, !.inPoll = TRUE]
      /\ UNCHANGED <<cnt, readRuntime, sendRuntime, slot, io, npc, seen, evOut, pc,
                     op, isNew, local, known, waiting, alive, closed, over,
                     closedUnsent, fault>>
  BY <1>0 DEF DoTcpAdd, Task, Current, CloseFd, RecycleCtx, svcSide, sockVars, netVars,
     boxVars, svcVars, ghosts, At, Return, Mine
<1>2. PICK c \in Conns : /\ c = Head(queTaskReq).id /\ Asked("TCP_ADD", c)
                      /\ Tail(queTaskReq) \in Seq(RequestType) /\ Short(Tail(queTaskReq))
                      /\ Shrunk(queTaskReq, Tail(queTaskReq), "TCP_ADD", c)
  BY <1>0, <1>1, Serving DEF WaitPart
<1>3. /\ queTaskReq' \in Seq(RequestType) /\ Short(queTaskReq') /\ c # NoConn /\ c <= Conn
      /\ \A cmd, d : Has(queTaskReq', cmd, d) => Asked(cmd, d)
      /\ \A cmd, d : Asked(cmd, d) => Has(queTaskReq', cmd, d) \/ (cmd = "TCP_ADD" /\ d = c)
      /\ \A cmd, d : Single(queTaskReq, cmd, d) => Single(queTaskReq', cmd, d)
      /\ Single(queTaskReq, "TCP_ADD", c) => ~Has(queTaskReq', "TCP_ADD", c)
      /\ \A cmd, first, d : NoneBehind(queTaskReq, cmd, first, d) => NoneBehind(queTaskReq', cmd, first, d)
      /\ \A cmd : NoneBehind(queTaskReq, cmd, "TCP_ADD", c) => ~Has(queTaskReq', cmd, c)
  BY <1>0, <1>1, <1>2, ConnsAre DEF SlotPart, Requests, Shrunk, Asked
<1>4. /\ ctx' \in CtxType
      /\ ctx'.cnt4Net = ctx.cnt4Net
      /\ ctx'.closeCalled4Net = ctx.closeCalled4Net
      /\ ctx'.readOver4Net = ctx.readOver4Net
      /\ ctx'.pollIn
      /\ ctx'.pollOut = ctx.pollOut
      /\ ctx'.inPoll
      /\ ctx'.fd = ctx.fd
  BY <1>0, <1>1 DEF NetTypes, CtxType
<1>5. /\ inbox' \in Seq(MailType) /\ Grown(inbox, inbox', "conn_in", c)
  BY <1>0, <1>1, <1>2, Telling DEF Mails
<1>6. /\ \A cmd, d : Has(inbox', cmd, d) <=> Mailed(cmd, d) \/ (cmd = "conn_in" /\ d = c)
      /\ \A cmd, d : Single(inbox, cmd, d) /\ ~(cmd = "conn_in" /\ d = c /\ Mailed("conn_in", c))
                      => Single(inbox', cmd, d)
  BY <1>5 DEF Grown, Mailed
<1>7. /\ c = cnt /\ Live /\ c \notin known /\ ~Mailed("conn_in", c) /\ ~readRuntime.wait
      /\ ~Has(queTaskReq', "TCP_ADD", c)
      /\ \A d \in Conns : ~Has(queTaskReq', "TCP_ADD", d)
  BY <1>0, <1>2, <1>3 DEF HeardPart
<1>8. NetTypes'
  BY <1>0, <1>1, <1>2, <1>3, <1>4, <1>5, <1>6, <1>7, ConnsAre DEF NetTypes
<1>9. SlotPart'
  BY <1>0, <1>1, <1>2, <1>3, <1>4, <1>5, <1>6, <1>7, ConnsAre DEF SlotPart, Asked, Mailed,
     Conn, Live
<1>10. HeardPart'
  BY <1>0, <1>1, <1>2, <1>3, <1>4, <1>5, <1>6, <1>7, ConnsAre DEF HeardPart, Asked, Mailed,
     Conn, Live
<1>11. ClosePart'
  BY <1>0, <1>1, <1>2, <1>3, <1>4, <1>5, <1>6, <1>7, ConnsAre DEF ClosePart, Asked, Mailed,
     Conn, Live
<1>12. OverPart'
  BY <1>0, <1>1, <1>2, <1>3, <1>4, <1>5, <1>6, <1>7, ConnsAre DEF OverPart, Asked, Mailed,
     Conn, Live
<1>13. OpenPart'
  BY <1>0, <1>1, <1>2, <1>3, <1>4, <1>5, <1>6, <1>7, ConnsAre DEF OpenPart, SvcReads,
     Reads, Overs, Asked, Mailed, Conn, Live
<1>14. ShutPart'
  BY <1>0, <1>1, <1>2, <1>3, <1>4, <1>5, <1>6, <1>7, ConnsAre DEF ShutPart, Done, SvcReads,
     Reads, Asked, Mailed, Conn, Live
<1>15. UserPart'
  BY <1>0, <1>1, <1>2, <1>3, <1>4, <1>5, <1>6, <1>7, ConnsAre DEF UserPart, Conn, Live
<1>16. WaitPart'
  BY <1>0, <1>1, <1>2, <1>3, <1>4, <1>5, <1>6, <1>7, ConnsAre DEF WaitPart, Watched, Asked,
     Mailed, Conn, Live
<1>17. OrderPart'
  BY <1>0, <1>1, <1>2, <1>3, <1>4, <1>5, <1>6, <1>7, ConnsAre DEF OrderPart, InHand, Mine,
     Conn
<1>18. PolledPart'
  BY <1>0, <1>1, <1>2, <1>3, <1>4, <1>5, <1>6, <1>7, ConnsAre DEF PolledPart, Mine, Asked,
     Mailed, Conn, Live
<1> QED BY <1>8, <1>9, <1>10, <1>11, <1>12, <1>13, <1>14, <1>15, <1>16, <1>17, <1>18
       DEF NetInv

(* A new connection whose service has gone: the slot is recycled.          *)
LEMMA TcpRefusedOk ==
    ASSUME NetInv, fault = "none", DoTcpAdd, ~alive
    PROVE  NetInv'
<1>0. /\ NetTypes /\ SlotPart /\ HeardPart /\ ClosePart /\ OverPart /\ OpenPart
      /\ ShutPart /\ UserPart /\ WaitPart /\ OrderPart /\ PolledPart
      /\ NoConn \notin known /\ NoConn \notin waiting /\ NoConn \notin closed
      /\ pc # "idle" => alive /\ op \in known /\ op \in Conns /\ op # NoConn
      /\ pc = "idle" => op = NoConn
      /\ cnt \in Nat \ {0} /\ Conn \in Nat /\ 0 <= Conn /\ (Live => Conn \in Conns)
  BY NetNow
<1>1. /\ npc = "tasks" /\ queTaskReq # << >> /\ Head(queTaskReq).cmd = "TCP_ADD"
      /\ queTaskReq' = Tail(queTaskReq) /\ cnt' = cnt + 1 /\ slot' = "wait"
      /\ ctx' = [ctx EXCEPT !.pollIn = FALSE, !.pollOut = FALSE, !.inPoll = FALSE, !.fd = FALSE]
      /\ UNCHANGED <<readRuntime, sendRuntime, io, npc, seen, evOut, pc, op, isNew,
                     local, inbox, known, waiting, alive, closed, over,
                     closedUnsent, fault>>
  BY <1>0 DEF DoTcpAdd, Task, Current, CloseFd, RecycleCtx, svcSide, sockVars, netVars,
     boxVars, svcVars, ghosts, At, Return, Mine
<1>2. PICK c \in Conns : /\ c = Head(queTaskReq).id /\ Asked("TCP_ADD", c)
                      /\ Tail(queTaskReq) \in Seq(RequestType) /\ Short(Tail(queTaskReq))
                      /\ Shrunk(queTaskReq, Tail(queTaskReq), "TCP_ADD", c)
  BY <1>0, <1>1, Serving DEF WaitPart
<1>3. /\ queTaskReq' \in Seq(RequestType) /\ Short(queTaskReq') /\ c # NoConn /\ c <= Conn
      /\ \A cmd, d : Has(queTaskReq', cmd, d) => Asked(cmd, d)
      /\ \A cmd, d : Asked(cmd, d) => Has(queTaskReq', cmd, d) \/ (cmd = "TCP_ADD" /\ d = c)
      /\ \A cmd, d : Single(queTaskReq, cmd, d) => Single(queTaskReq', cmd, d)
      /\ Single(queTaskReq, "TCP_ADD", c) => ~Has(queTaskReq', "TCP_ADD", c)
      /\ \A cmd, first, d : NoneBehind(queTaskReq, cmd, first, d) => NoneBehind(queTaskReq', cmd, first, d)
      /\ \A cmd : NoneBehind(queTaskReq, cmd, "TCP_ADD", c) => ~Has(queTaskReq', cmd, c)
  BY <1>0, <1>1, <1>2, ConnsAre DEF SlotPart, Requests, Shrunk, Asked
<1>4. /\ ctx' \in CtxType
      /\ ctx'.cnt4Net = ctx.cnt4Net
      /\ ctx'.closeCalled4Net = ctx.closeCalled4Net
      /\ ctx'.readOver4Net = ctx.readOver4Net
      /\ ~ctx'.pollIn
      /\ ~ctx'.pollOut
      /\ ~ctx'.inPoll
      /\ ~ctx'.fd
  BY <1>0, <1>1 DEF NetTypes, CtxType
<1>5. /\ c = cnt /\ Live /\ ~readRuntime.wait /\ ~alive /\ pc = "idle"
      /\ ~Has(queTaskReq', "TCP_ADD", c) /\ known = {} /\ waiting = {} /\ inbox = << >>
      /\ \A d \in Conns : ~Has(queTaskReq', "TCP_ADD", d)
      /\ \A cmd \in Requests \ {"TCP_ADD"} : ~Asked(cmd, c)
      /\ cnt' = Conn + 1 /\ ~Live'
  <2>1. /\ c = cnt /\ Live /\ ~readRuntime.wait /\ ~alive /\ pc = "idle"
        /\ ~Has(queTaskReq', "TCP_ADD", c) /\ known = {} /\ waiting = {} /\ inbox = << >>
        /\ \A d \in Conns : ~Has(queTaskReq', "TCP_ADD", d)
        /\ \A cmd \in Requests \ {"TCP_ADD"} : ~Asked(cmd, c)
    BY <1>0, <1>2, <1>3 DEF HeardPart
  <2>2. cnt' = Conn + 1 /\ ~Live'
    BY <1>0, <1>1, <1>4, <2>1 DEF Live, Conn
  <2> QED BY <2>1, <2>2
<1>6. \A cmd, d : ~Mailed(cmd, d)
  BY <1>5, EmptyHas DEF Mailed
<1>7. NetTypes'
  BY <1>0, <1>1, <1>2, <1>3, <1>4, <1>5, <1>6, ConnsAre DEF NetTypes
<1>8. SlotPart'
  BY <1>0, <1>1, <1>2, <1>3, <1>4, <1>5, <1>6, ConnsAre DEF SlotPart, Asked, Mailed, Conn,
     Live
<1>9. HeardPart'
  BY <1>0, <1>1, <1>2, <1>3, <1>4, <1>5, <1>6, ConnsAre DEF HeardPart, Asked, Mailed, Conn,
     Live
<1>10. ClosePart'
  BY <1>0, <1>1, <1>2, <1>3, <1>4, <1>5, <1>6, ConnsAre DEF ClosePart, Asked, Mailed, Conn,
     Live
<1>11. OverPart'
  BY <1>0, <1>1, <1>2, <1>3, <1>4, <1>5, <1>6, ConnsAre DEF OverPart, Asked, Mailed, Conn,
     Live, Requests
<1>12. OpenPart'
  BY <1>0, <1>1, <1>2, <1>3, <1>4, <1>5, <1>6, ConnsAre DEF OpenPart, SvcReads, Reads,
     Overs, Asked, Mailed, Conn, Live
<1>13. ShutPart'
  BY <1>0, <1>1, <1>2, <1>3, <1>4, <1>5, <1>6, ConnsAre DEF ShutPart, Done, SvcReads,
     Reads, Asked, Mailed, Conn, Live
<1>14. UserPart'
  BY <1>0, <1>1, <1>2, <1>3, <1>4, <1>5, <1>6, ConnsAre DEF UserPart, Conn, Live
<1>15. WaitPart'
  BY <1>0, <1>1, <1>2, <1>3, <1>4, <1>5, <1>6, ConnsAre DEF WaitPart, Watched, Asked,
     Mailed, Conn, Live
<1>16. OrderPart'
  BY <1>0, <1>1, <1>2, <1>3, <1>4, <1>5, <1>6, ConnsAre DEF OrderPart, InHand, Mine, Conn
<1>17. PolledPart'
  BY <1>0, <1>1, <1>2, <1>3, <1>4, <1>5, <1>6, ConnsAre DEF PolledPart, Mine, Asked,
     Mailed, Conn, Live
<1> QED BY <1>7, <1>8, <1>9, <1>10, <1>11, <1>12, <1>13, <1>14, <1>15, <1>16, <1>17
       DEF NetInv

(* A request to read that can be answered at once.                         *)
LEMMA ReadAnsweredOk ==
    ASSUME NetInv, fault = "none", DoReadWait, MustAnswer, alive
    PROVE  NetInv'
<1>0. /\ NetTypes /\ SlotPart /\ HeardPart /\ ClosePart /\ OverPart /\ OpenPart
      /\ ShutPart /\ UserPart /\ WaitPart /\ OrderPart /\ PolledPart
      /\ NoConn \notin known /\ NoConn \notin waiting /\ NoConn \notin closed
      /\ pc # "idle" => alive /\ op \in known /\ op \in Conns /\ op # NoConn
      /\ pc = "idle" => op = NoConn
      /\ cnt \in Nat \ {0} /\ Conn \in Nat /\ 0 <= Conn /\ (Live => Conn \in Conns)
  BY NetNow
<1>1. /\ npc = "tasks" /\ queTaskReq # << >> /\ Head(queTaskReq).cmd = "READ_WAIT"
      /\ queTaskReq' = Tail(queTaskReq)
      /\ alive /\ inbox' = Append(inbox, Msg("read_ret", Head(queTaskReq).id))
      /\ UNCHANGED <<cnt, ctx, readRuntime, sendRuntime, slot, io, npc, seen,
                     evOut, pc, op, isNew, local, known, waiting, alive, closed,
                     over, closedUnsent, fault>>
  BY <1>0 DEF DoReadWait, MustAnswer, NotifyReader, Trig, Req, Task, Current, CloseFd,
     RecycleCtx, svcSide, sockVars, netVars, boxVars, svcVars, ghosts, At, Return, Mine
<1>2. PICK c \in Conns : /\ c = Head(queTaskReq).id /\ Asked("READ_WAIT", c)
                      /\ Tail(queTaskReq) \in Seq(RequestType) /\ Short(Tail(queTaskReq))
                      /\ Head(queTaskReq).used \in Nat /\ Head(queTaskReq).used < ReadLen
                      /\ Shrunk(queTaskReq, Tail(queTaskReq), "READ_WAIT", c)
  BY <1>0, <1>1, Serving DEF WaitPart
<1>3. /\ queTaskReq' \in Seq(RequestType) /\ Short(queTaskReq') /\ c # NoConn /\ c <= Conn
      /\ \A cmd, d : Has(queTaskReq', cmd, d) => Asked(cmd, d)
      /\ \A cmd, d : Asked(cmd, d) => Has(queTaskReq', cmd, d) \/ (cmd = "READ_WAIT" /\ d = c)
      /\ \A cmd, d : Single(queTaskReq, cmd, d) => Single(queTaskReq', cmd, d)
      /\ Single(queTaskReq, "READ_WAIT", c) => ~Has(queTaskReq', "READ_WAIT", c)
      /\ \A cmd, first, d : NoneBehind(queTaskReq, cmd, first, d) => NoneBehind(queTaskReq', cmd, first, d)
      /\ \A cmd : NoneBehind(queTaskReq, cmd, "READ_WAIT", c) => ~Has(queTaskReq', cmd, c)
  BY <1>0, <1>1, <1>2, ConnsAre DEF SlotPart, Requests, Shrunk, Asked
<1>4. /\ c = cnt /\ c = Conn /\ Live /\ Asked("READ_WAIT", c) /\ Reads /\ ~Done
      /\ ~ctx.closeCalled4Net /\ ~Asked("TCP_ADD", c) /\ (alive => c \in known)
      /\ Conn \notin closed =>
            /\ ~SvcReads /\ ~Mailed("read_ret", Conn) /\ ~readRuntime.wait
            /\ ~Asked("READ_OVER", Conn) /\ ~ctx.readOver4Net
            /\ ~Has(queTaskReq', "READ_WAIT", c)
            /\ readRuntime.onReadWait /\ ~readRuntime.hasSendReadOver
  <2>1. c = cnt /\ c = Conn /\ Live /\ Asked("READ_WAIT", c) /\ Reads
    BY <1>0, <1>2, <1>3, ConnsAre DEF OverPart, SlotPart, Live, Reads
  <2>2. ~Done /\ ~ctx.closeCalled4Net
    BY <1>0, <2>1 DEF Done, ClosePart
  <2>3. ~Asked("TCP_ADD", c) /\ (alive => c \in known)
    BY <1>0, <2>1 DEF HeardPart, Requests
  <2>4. Conn \notin closed =>
            /\ ~SvcReads /\ ~Mailed("read_ret", Conn) /\ ~readRuntime.wait
            /\ ~Asked("READ_OVER", Conn) /\ ~ctx.readOver4Net
            /\ Single(queTaskReq, "READ_WAIT", Conn)
            /\ readRuntime.onReadWait /\ ~readRuntime.hasSendReadOver
    BY <1>0, <2>1 DEF OpenPart, Overs
  <2>5. Single(queTaskReq, "READ_WAIT", c) => ~Has(queTaskReq', "READ_WAIT", c)
    BY <1>3
  <2> QED BY <2>1, <2>2, <2>3, <2>4, <2>5
<1>5. /\ inbox' \in Seq(MailType) /\ Grown(inbox, inbox', "read_ret", c)
  BY <1>0, <1>1, <1>2, Telling DEF Mails
<1>6. /\ \A cmd, d : Has(inbox', cmd, d) <=> Mailed(cmd, d) \/ (cmd = "read_ret" /\ d = c)
      /\ \A cmd, d : Single(inbox, cmd, d) /\ ~(cmd = "read_ret" /\ d = c /\ Mailed("read_ret", c))
                      => Single(inbox', cmd, d)
  BY <1>5 DEF Grown, Mailed
<1>7. NetTypes'
  BY <1>0, <1>1, <1>2, <1>3, <1>4, <1>5, <1>6, ConnsAre DEF NetTypes
<1>8. SlotPart'
  BY <1>0, <1>1, <1>2, <1>3, <1>4, <1>5, <1>6, ConnsAre DEF SlotPart, Asked, Mailed, Conn,
     Live
<1>9. HeardPart'
  BY <1>0, <1>1, <1>2, <1>3, <1>4, <1>5, <1>6, ConnsAre DEF HeardPart, Asked, Mailed, Conn,
     Live
<1>10. ClosePart'
  BY <1>0, <1>1, <1>2, <1>3, <1>4, <1>5, <1>6, ConnsAre DEF ClosePart, Asked, Mailed, Conn,
     Live
<1>11. OverPart'
  BY <1>0, <1>1, <1>2, <1>3, <1>4, <1>5, <1>6, ConnsAre DEF OverPart, Asked, Mailed, Conn,
     Live
<1>12. OpenPart'
  BY <1>0, <1>1, <1>2, <1>3, <1>4, <1>5, <1>6, ConnsAre DEF OpenPart, SvcReads, Reads,
     Overs, Asked, Mailed, Conn, Live
<1>13. ShutPart'
  BY <1>0, <1>1, <1>2, <1>3, <1>4, <1>5, <1>6, ConnsAre DEF ShutPart, Done, SvcReads,
     Reads, Asked, Mailed, Conn, Live
<1>14. UserPart'
  BY <1>0, <1>1, <1>2, <1>3, <1>4, <1>5, <1>6, ConnsAre DEF UserPart, Conn, Live
<1>15. WaitPart'
  BY <1>0, <1>1, <1>2, <1>3, <1>4, <1>5, <1>6, ConnsAre DEF WaitPart, Watched, Asked,
     Mailed, Conn, Live
<1>16. OrderPart'
  BY <1>0, <1>1, <1>2, <1>3, <1>4, <1>5, <1>6, ConnsAre DEF OrderPart, InHand, Mine, Conn
<1>17. PolledPart'
  BY <1>0, <1>1, <1>2, <1>3, <1>4, <1>5, <1>6, ConnsAre DEF PolledPart, Mine, Asked,
     Mailed, Conn, Live
<1> QED BY <1>7, <1>8, <1>9, <1>10, <1>11, <1>12, <1>13, <1>14, <1>15, <1>16, <1>17
       DEF NetInv

(* ... when the service has gone: the read over is sent for it.            *)
LEMMA ReadDroppedOk ==
    ASSUME NetInv, fault = "none", DoReadWait, MustAnswer, ~alive
    PROVE  NetInv'
<1>0. /\ NetTypes /\ SlotPart /\ HeardPart /\ ClosePart /\ OverPart /\ OpenPart
      /\ ShutPart /\ UserPart /\ WaitPart /\ OrderPart /\ PolledPart
      /\ NoConn \notin known /\ NoConn \notin waiting /\ NoConn \notin closed
      /\ pc # "idle" => alive /\ op \in known /\ op \in Conns /\ op # NoConn
      /\ pc = "idle" => op = NoConn
      /\ cnt \in Nat \ {0} /\ Conn \in Nat /\ 0 <= Conn /\ (Live => Conn \in Conns)
  BY NetNow
<1>1. /\ npc = "tasks" /\ queTaskReq # << >> /\ Head(queTaskReq).cmd = "READ_WAIT"
      /\ ~alive /\ inbox' = inbox /\ over' = over \union {Head(queTaskReq).id}
      /\ queTaskReq' = Append(Tail(queTaskReq), [cmd |-> "READ_OVER", id |-> Head(queTaskReq).id, used |-> 0])
      /\ UNCHANGED <<cnt, ctx, readRuntime, sendRuntime, slot, io, npc, seen,
                     evOut, pc, op, isNew, local, inbox, known, waiting, alive,
                     closed, closedUnsent, fault>>
  BY <1>0 DEF DoReadWait, MustAnswer, NotifyReader, Trig, Req, Task, Current, CloseFd,
     RecycleCtx, svcSide, sockVars, netVars, boxVars, svcVars, ghosts, At, Return, Mine
<1>2. PICK c \in Conns : /\ c = Head(queTaskReq).id /\ Asked("READ_WAIT", c)
                      /\ Tail(queTaskReq) \in Seq(RequestType) /\ Short(Tail(queTaskReq))
                      /\ Head(queTaskReq).used \in Nat /\ Head(queTaskReq).used < ReadLen
                      /\ Shrunk(queTaskReq, Tail(queTaskReq), "READ_WAIT", c)
  BY <1>0, <1>1, Serving DEF WaitPart
<1>3. /\ Tail(queTaskReq) \in Seq(RequestType) /\ Short(Tail(queTaskReq)) /\ c # NoConn /\ c <= Conn
      /\ \A cmd, d : Has(Tail(queTaskReq), cmd, d) => Asked(cmd, d)
      /\ \A cmd, d : Asked(cmd, d) => Has(Tail(queTaskReq), cmd, d) \/ (cmd = "READ_WAIT" /\ d = c)
      /\ \A cmd, d : Single(queTaskReq, cmd, d) => Single(Tail(queTaskReq), cmd, d)
      /\ Single(queTaskReq, "READ_WAIT", c) => ~Has(Tail(queTaskReq), "READ_WAIT", c)
      /\ \A cmd, first, d : NoneBehind(queTaskReq, cmd, first, d) => NoneBehind(Tail(queTaskReq), cmd, first, d)
      /\ \A cmd : NoneBehind(queTaskReq, cmd, "READ_WAIT", c) => ~Has(Tail(queTaskReq), cmd, c)
  BY <1>0, <1>1, <1>2, ConnsAre DEF SlotPart, Requests, Shrunk, Asked
<1>4. /\ c = cnt /\ c = Conn /\ Live /\ Asked("READ_WAIT", c) /\ Reads /\ ~Done
      /\ ~ctx.closeCalled4Net /\ ~Asked("TCP_ADD", c) /\ (alive => c \in known)
      /\ Conn \notin closed =>
            /\ ~SvcReads /\ ~Mailed("read_ret", Conn) /\ ~readRuntime.wait
            /\ ~Asked("READ_OVER", Conn) /\ ~ctx.readOver4Net
            /\ ~Has(Tail(queTaskReq), "READ_WAIT", c)
            /\ readRuntime.onReadWait /\ ~readRuntime.hasSendReadOver
  <2>1. c = cnt /\ c = Conn /\ Live /\ Asked("READ_WAIT", c) /\ Reads
    BY <1>0, <1>2, <1>3, ConnsAre DEF OverPart, SlotPart, Live, Reads
  <2>2. ~Done /\ ~ctx.closeCalled4Net
    BY <1>0, <2>1 DEF Done, ClosePart
  <2>3. ~Asked("TCP_ADD", c) /\ (alive => c \in known)
    BY <1>0, <2>1 DEF HeardPart, Requests
  <2>4. Conn \notin closed =>
            /\ ~SvcReads /\ ~Mailed("read_ret", Conn) /\ ~readRuntime.wait
            /\ ~Asked("READ_OVER", Conn) /\ ~ctx.readOver4Net
            /\ Single(queTaskReq, "READ_WAIT", Conn)
            /\ readRuntime.onReadWait /\ ~readRuntime.hasSendReadOver
    BY <1>0, <2>1 DEF OpenPart, Overs
  <2>5. Single(queTaskReq, "READ_WAIT", c) => ~Has(Tail(queTaskReq), "READ_WAIT", c)
    BY <1>3
  <2> QED BY <2>1, <2>2, <2>3, <2>4, <2>5
<1>5. /\ queTaskReq' \in Seq(RequestType) /\ Grown(Tail(queTaskReq), queTaskReq', "READ_OVER", c)
      /\ Short(queTaskReq)'
  BY <1>1, <1>2, <1>3, Regrowing DEF Requests
<1>6. /\ \A cmd, d : Has(queTaskReq', cmd, d) <=> Has(Tail(queTaskReq), cmd, d) \/ (cmd = "READ_OVER" /\ d = c)
      /\ \A cmd, d : Single(queTaskReq, cmd, d) /\ ~(cmd = "READ_OVER" /\ d = c /\ Has(Tail(queTaskReq), "READ_OVER", c))
                      => Single(queTaskReq', cmd, d)
      /\ \A cmd, first, d : NoneBehind(queTaskReq, cmd, first, d)
                             /\ ~(cmd = "READ_OVER" /\ d = c /\ Has(Tail(queTaskReq), first, c))
                                => NoneBehind(queTaskReq', cmd, first, d)
  BY <1>3, <1>5 DEF Grown
<1>7. /\ pc = "idle" /\ ~SvcReads /\ ~alive /\ waiting = {} /\ known = {} /\ inbox = << >>
      /\ \A cmd, d : ~Mailed(cmd, d)
  BY <1>0, <1>1, EmptyHas DEF HeardPart, SvcReads, Mailed
<1>8. NetTypes'
  BY <1>0, <1>1, <1>2, <1>5, <1>7 DEF NetTypes
<1>9. SlotPart'
  BY <1>0, <1>1, <1>2, <1>3, <1>4, <1>5, <1>6, <1>7, ConnsAre DEF SlotPart, Asked, Mailed,
     Conn, Live
<1>10. HeardPart'
  BY <1>0, <1>1, <1>2, <1>3, <1>4, <1>5, <1>6, <1>7, ConnsAre DEF HeardPart, Asked, Mailed,
     Conn, Live
<1>11. ClosePart'
  BY <1>0, <1>1, <1>2, <1>3, <1>4, <1>5, <1>6, <1>7, ConnsAre DEF ClosePart, Asked, Mailed,
     Conn, Live
<1>12. OverPart'
  BY <1>0, <1>1, <1>2, <1>3, <1>4, <1>5, <1>6, <1>7, ConnsAre DEF OverPart, Asked, Mailed,
     Conn, Live
<1>13. OpenPart'
  BY <1>0, <1>1, <1>2, <1>3, <1>4, <1>5, <1>6, <1>7, ConnsAre DEF OpenPart, SvcReads,
     Reads, Overs, Asked, Mailed, Conn, Live
<1>14. ShutPart'
  BY <1>0, <1>1, <1>2, <1>3, <1>4, <1>5, <1>6, <1>7, ConnsAre DEF ShutPart, Done, SvcReads,
     Reads, Asked, Mailed, Conn, Live
<1>15. UserPart'
  BY <1>0, <1>1, <1>2, <1>3, <1>4, <1>5, <1>6, <1>7, ConnsAre DEF UserPart, Conn, Live
<1>16. WaitPart'
  BY <1>0, <1>1, <1>2, <1>3, <1>4, <1>5, <1>6, <1>7, ConnsAre DEF WaitPart, Watched, Asked,
     Mailed, Conn, Live
<1>17. OrderPart'
  BY <1>0, <1>1, <1>2, <1>3, <1>4, <1>5, <1>6, <1>7, ConnsAre DEF OrderPart, InHand, Mine,
     Conn
<1>18. PolledPart'
  BY <1>0, <1>1, <1>2, <1>3, <1>4, <1>5, <1>6, <1>7, ConnsAre DEF PolledPart, Mine, Asked,
     Mailed, Conn, Live
<1> QED BY <1>8, <1>9, <1>10, <1>11, <1>12, <1>13, <1>14, <1>15, <1>16, <1>17, <1>18
       DEF NetInv

(* A request to read that the poller keeps.                                *)
LEMMA ReadParkedOk ==
    ASSUME NetInv, fault = "none", DoReadWait, ~MustAnswer
    PROVE  NetInv'
<1>0. /\ NetTypes /\ SlotPart /\ HeardPart /\ ClosePart /\ OverPart /\ OpenPart
      /\ ShutPart /\ UserPart /\ WaitPart /\ OrderPart /\ PolledPart
      /\ NoConn \notin known /\ NoConn \notin waiting /\ NoConn \notin closed
      /\ pc # "idle" => alive /\ op \in known /\ op \in Conns /\ op # NoConn
      /\ pc = "idle" => op = NoConn
      /\ cnt \in Nat \ {0} /\ Conn \in Nat /\ 0 <= Conn /\ (Live => Conn \in Conns)
  BY NetNow
<1>1. /\ npc = "tasks" /\ queTaskReq # << >> /\ Head(queTaskReq).cmd = "READ_WAIT"
      /\ queTaskReq' = Tail(queTaskReq)
      /\ readRuntime' = [readRuntime EXCEPT !.wait = TRUE] /\ ctx' = [ctx EXCEPT !.pollIn = TRUE]
      /\ ~readRuntime.sockClosed /\ ~(readRuntime.readable > Head(queTaskReq).used /\ Enough(readRuntime.readable))
      /\ UNCHANGED <<cnt, sendRuntime, slot, io, npc, seen, evOut, pc, op, isNew,
                     local, inbox, known, waiting, alive, closed, over,
                     closedUnsent, fault>>
  BY <1>0 DEF DoReadWait, MustAnswer, NotifyReader, Trig, Req, Task, Current, CloseFd,
     RecycleCtx, svcSide, sockVars, netVars, boxVars, svcVars, ghosts, At, Return, Mine
<1>2. PICK c \in Conns : /\ c = Head(queTaskReq).id /\ Asked("READ_WAIT", c)
                      /\ Tail(queTaskReq) \in Seq(RequestType) /\ Short(Tail(queTaskReq))
                      /\ Head(queTaskReq).used \in Nat /\ Head(queTaskReq).used < ReadLen
                      /\ Shrunk(queTaskReq, Tail(queTaskReq), "READ_WAIT", c)
  BY <1>0, <1>1, Serving DEF WaitPart
<1>3. /\ queTaskReq' \in Seq(RequestType) /\ Short(queTaskReq') /\ c # NoConn /\ c <= Conn
      /\ \A cmd, d : Has(queTaskReq', cmd, d) => Asked(cmd, d)
      /\ \A cmd, d : Asked(cmd, d) => Has(queTaskReq', cmd, d) \/ (cmd = "READ_WAIT" /\ d = c)
      /\ \A cmd, d : Single(queTaskReq, cmd, d) => Single(queTaskReq', cmd, d)
      /\ Single(queTaskReq, "READ_WAIT", c) => ~Has(queTaskReq', "READ_WAIT", c)
      /\ \A cmd, first, d : NoneBehind(queTaskReq, cmd, first, d) => NoneBehind(queTaskReq', cmd, first, d)
      /\ \A cmd : NoneBehind(queTaskReq, cmd, "READ_WAIT", c) => ~Has(queTaskReq', cmd, c)
  BY <1>0, <1>1, <1>2, ConnsAre DEF SlotPart, Requests, Shrunk, Asked
<1>4. /\ c = cnt /\ c = Conn /\ Live /\ Asked("READ_WAIT", c) /\ Reads /\ ~Done
      /\ ~ctx.closeCalled4Net /\ ~Asked("TCP_ADD", c) /\ (alive => c \in known)
      /\ Conn \notin closed =>
            /\ ~SvcReads /\ ~Mailed("read_ret", Conn) /\ ~readRuntime.wait
            /\ ~Asked("READ_OVER", Conn) /\ ~ctx.readOver4Net
            /\ ~Has(queTaskReq', "READ_WAIT", c)
            /\ readRuntime.onReadWait /\ ~readRuntime.hasSendReadOver
  <2>1. c = cnt /\ c = Conn /\ Live /\ Asked("READ_WAIT", c) /\ Reads
    BY <1>0, <1>2, <1>3, ConnsAre DEF OverPart, SlotPart, Live, Reads
  <2>2. ~Done /\ ~ctx.closeCalled4Net
    BY <1>0, <2>1 DEF Done, ClosePart
  <2>3. ~Asked("TCP_ADD", c) /\ (alive => c \in known)
    BY <1>0, <2>1 DEF HeardPart, Requests
  <2>4. Conn \notin closed =>
            /\ ~SvcReads /\ ~Mailed("read_ret", Conn) /\ ~readRuntime.wait
            /\ ~Asked("READ_OVER", Conn) /\ ~ctx.readOver4Net
            /\ Single(queTaskReq, "READ_WAIT", Conn)
            /\ readRuntime.onReadWait /\ ~readRuntime.hasSendReadOver
    BY <1>0, <2>1 DEF OpenPart, Overs
  <2>5. Single(queTaskReq, "READ_WAIT", c) => ~Has(queTaskReq', "READ_WAIT", c)
    BY <1>3
  <2> QED BY <2>1, <2>2, <2>3, <2>4, <2>5
<1>5. /\ ctx' \in CtxType
      /\ ctx'.cnt4Net = ctx.cnt4Net
      /\ ctx'.closeCalled4Net = ctx.closeCalled4Net
      /\ ctx'.readOver4Net = ctx.readOver4Net
      /\ ctx'.pollIn
      /\ ctx'.pollOut = ctx.pollOut
      /\ ctx'.inPoll = ctx.inPoll
      /\ ctx'.fd = ctx.fd
  BY <1>0, <1>1 DEF NetTypes, CtxType
<1>6. /\ readRuntime' \in ReadType
      /\ readRuntime'.sockClosed = readRuntime.sockClosed
      /\ readRuntime'.onReadWait = readRuntime.onReadWait
      /\ readRuntime'.hasSendReadOver = readRuntime.hasSendReadOver
      /\ readRuntime'.readable = readRuntime.readable
      /\ readRuntime'.wait
  BY <1>0, <1>1 DEF NetTypes, ReadType
<1>7. ctx.inPoll /\ ~Enough(readRuntime.readable)
  <2>1. ctx.inPoll
    BY <1>0, <1>1, <1>4 DEF WaitPart, Live
  <2>2. readRuntime.readable \in Nat /\ ReadLen \in Nat
    BY <1>0, NetAssumption DEF NetTypes, ReadType
  <2>3. ~Enough(readRuntime.readable)
    BY <1>1, <1>2, <2>2 DEF Enough
  <2> QED BY <2>1, <2>3
<1>8. NetTypes'
  BY <1>0, <1>1, <1>2, <1>3, <1>4, <1>5, <1>6, <1>7, ConnsAre DEF NetTypes
<1>9. SlotPart'
  BY <1>0, <1>1, <1>2, <1>3, <1>4, <1>5, <1>6, <1>7, ConnsAre DEF SlotPart, Asked, Mailed,
     Conn, Live
<1>10. HeardPart'
  BY <1>0, <1>1, <1>2, <1>3, <1>4, <1>5, <1>6, <1>7, ConnsAre DEF HeardPart, Asked, Mailed,
     Conn, Live
<1>11. ClosePart'
  BY <1>0, <1>1, <1>2, <1>3, <1>4, <1>5, <1>6, <1>7, ConnsAre DEF ClosePart, Asked, Mailed,
     Conn, Live
<1>12. OverPart'
  BY <1>0, <1>1, <1>2, <1>3, <1>4, <1>5, <1>6, <1>7, ConnsAre DEF OverPart, Asked, Mailed,
     Conn, Live
<1>13. OpenPart'
  BY <1>0, <1>1, <1>2, <1>3, <1>4, <1>5, <1>6, <1>7, ConnsAre DEF OpenPart, SvcReads,
     Reads, Overs, Asked, Mailed, Conn, Live
<1>14. ShutPart'
  BY <1>0, <1>1, <1>2, <1>3, <1>4, <1>5, <1>6, <1>7, ConnsAre DEF ShutPart, Done, SvcReads,
     Reads, Asked, Mailed, Conn, Live
<1>15. UserPart'
  BY <1>0, <1>1, <1>2, <1>3, <1>4, <1>5, <1>6, <1>7, ConnsAre DEF UserPart, Conn, Live
<1>16. WaitPart'
  BY <1>0, <1>1, <1>2, <1>3, <1>4, <1>5, <1>6, <1>7, ConnsAre DEF WaitPart, Watched, Asked,
     Mailed, Conn, Live
<1>17. OrderPart'
  BY <1>0, <1>1, <1>2, <1>3, <1>4, <1>5, <1>6, <1>7, ConnsAre DEF OrderPart, InHand, Mine,
     Conn
<1>18. PolledPart'
  BY <1>0, <1>1, <1>2, <1>3, <1>4, <1>5, <1>6, <1>7, ConnsAre DEF PolledPart, Mine, Asked,
     Mailed, Conn, Live
<1> QED BY <1>8, <1>9, <1>10, <1>11, <1>12, <1>13, <1>14, <1>15, <1>16, <1>17, <1>18
       DEF NetInv

(* The read is over, and bytes are unsent: on_tcp_send ends it.            *)
LEMMA ReadOverLaterOk ==
    ASSUME NetInv, fault = "none", DoReadOver, ctx.pollOut
    PROVE  NetInv'
<1>0. /\ NetTypes /\ SlotPart /\ HeardPart /\ ClosePart /\ OverPart /\ OpenPart
      /\ ShutPart /\ UserPart /\ WaitPart /\ OrderPart /\ PolledPart
      /\ NoConn \notin known /\ NoConn \notin waiting /\ NoConn \notin closed
      /\ pc # "idle" => alive /\ op \in known /\ op \in Conns /\ op # NoConn
      /\ pc = "idle" => op = NoConn
      /\ cnt \in Nat \ {0} /\ Conn \in Nat /\ 0 <= Conn /\ (Live => Conn \in Conns)
  BY NetNow
<1>1. /\ npc = "tasks" /\ queTaskReq # << >> /\ Head(queTaskReq).cmd = "READ_OVER"
      /\ cnt = Head(queTaskReq).id /\ queTaskReq' = Tail(queTaskReq)
      /\ ctx' = [ctx EXCEPT !.readOver4Net = TRUE]
      /\ UNCHANGED <<cnt, readRuntime, sendRuntime, slot, io, npc, seen, evOut, pc,
                     op, isNew, local, inbox, known, waiting, alive, closed, over,
                     closedUnsent, fault>>
  BY <1>0 DEF DoReadOver, SendLocked, Task, Current, CloseFd, RecycleCtx, svcSide,
     sockVars, netVars, boxVars, svcVars, ghosts, At, Return, Mine
<1>2. PICK c \in Conns : /\ c = Head(queTaskReq).id /\ Asked("READ_OVER", c)
                      /\ Tail(queTaskReq) \in Seq(RequestType) /\ Short(Tail(queTaskReq))
                      /\ Shrunk(queTaskReq, Tail(queTaskReq), "READ_OVER", c)
  BY <1>0, <1>1, Serving DEF WaitPart
<1>3. /\ queTaskReq' \in Seq(RequestType) /\ Short(queTaskReq') /\ c # NoConn /\ c <= Conn
      /\ \A cmd, d : Has(queTaskReq', cmd, d) => Asked(cmd, d)
      /\ \A cmd, d : Asked(cmd, d) => Has(queTaskReq', cmd, d) \/ (cmd = "READ_OVER" /\ d = c)
      /\ \A cmd, d : Single(queTaskReq, cmd, d) => Single(queTaskReq', cmd, d)
      /\ Single(queTaskReq, "READ_OVER", c) => ~Has(queTaskReq', "READ_OVER", c)
      /\ \A cmd, first, d : NoneBehind(queTaskReq, cmd, first, d) => NoneBehind(queTaskReq', cmd, first, d)
      /\ \A cmd : NoneBehind(queTaskReq, cmd, "READ_OVER", c) => ~Has(queTaskReq', cmd, c)
  BY <1>0, <1>1, <1>2, ConnsAre DEF SlotPart, Requests, Shrunk, Asked
<1>4. /\ c = cnt /\ c = Conn /\ Live /\ Overs /\ c \in over /\ (alive => c \in known)
      /\ ~Asked("TCP_ADD", c)
      /\ ~Has(queTaskReq', "READ_WAIT", c) /\ ~Asked("READ_WAIT", c)
      /\ c \notin closed => /\ ~Reads /\ (alive => readRuntime.hasSendReadOver)
                            /\ ~Has(queTaskReq', "READ_OVER", c)
                            /\ (readRuntime.hasSendReadOver => readRuntime.sockClosed)
      /\ c \in closed /\ ~Done => /\ ~(pc = "tcpclose" /\ op = c) /\ ~Has(queTaskReq', "TCP_CLOSE", c)
                                  /\ ~Asked("TCP_CLOSE", c)
      /\ Done => ~ctx.readOver4Net /\ ~Has(queTaskReq', "READ_OVER", c)
  <2>1. c = cnt /\ c = Conn /\ Live /\ Asked("READ_OVER", c) /\ Overs
    BY <1>0, <1>1, <1>2, <1>3, ConnsAre DEF SlotPart, Live, Overs
  <2>2. c \in over /\ (alive => c \in known) /\ ~Asked("TCP_ADD", c)
    BY <1>0, <2>1 DEF OverPart, HeardPart, Requests
  <2>3. ~Has(queTaskReq', "READ_WAIT", c) /\ ~Asked("READ_WAIT", c)
    BY <1>0, <1>3 DEF OverPart
  <2>4. c \notin closed => /\ ~Reads /\ (alive => readRuntime.hasSendReadOver)
                          /\ Single(queTaskReq, "READ_OVER", c)
                          /\ (readRuntime.hasSendReadOver => readRuntime.sockClosed)
    BY <1>0, <2>1 DEF OpenPart
  <2>5. Done => ~ctx.readOver4Net /\ Single(queTaskReq, "READ_OVER", c)
    BY <2>1 DEF Done
  <2>6. c \in closed /\ ~Done => /\ ~(pc = "tcpclose" /\ op = c)
                                /\ NoneBehind(queTaskReq, "TCP_CLOSE", "READ_OVER", c)
    BY <1>0, <2>1 DEF ShutPart
  <2>7. NoneBehind(queTaskReq, "TCP_CLOSE", "READ_OVER", c) =>
            ~Has(queTaskReq', "TCP_CLOSE", c) /\ ~Asked("TCP_CLOSE", c)
    BY <1>3
  <2>8. Single(queTaskReq, "READ_OVER", c) => ~Has(queTaskReq', "READ_OVER", c)
    BY <1>3
  <2> QED BY <2>1, <2>2, <2>3, <2>4, <2>5, <2>6, <2>7, <2>8
<1>5. /\ ctx' \in CtxType
      /\ ctx'.cnt4Net = ctx.cnt4Net
      /\ ctx'.closeCalled4Net = ctx.closeCalled4Net
      /\ ctx'.readOver4Net
      /\ ctx'.pollIn = ctx.pollIn
      /\ ctx'.pollOut = ctx.pollOut
      /\ ctx'.inPoll = ctx.inPoll
      /\ ctx'.fd = ctx.fd
  BY <1>0, <1>1 DEF NetTypes, CtxType
<1>6. NetTypes'
  BY <1>0, <1>1, <1>2, <1>3, <1>4, <1>5, ConnsAre DEF NetTypes
<1>7. SlotPart'
  BY <1>0, <1>1, <1>2, <1>3, <1>4, <1>5, ConnsAre DEF SlotPart, Asked, Mailed, Conn, Live
<1>8. HeardPart'
  BY <1>0, <1>1, <1>2, <1>3, <1>4, <1>5, ConnsAre DEF HeardPart, Asked, Mailed, Conn, Live
<1>9. ClosePart'
  BY <1>0, <1>1, <1>2, <1>3, <1>4, <1>5, ConnsAre DEF ClosePart, Asked, Mailed, Conn, Live
<1>10. OverPart'
  BY <1>0, <1>1, <1>2, <1>3, <1>4, <1>5, ConnsAre DEF OverPart, Asked, Mailed, Conn, Live
<1>11. OpenPart'
  BY <1>0, <1>1, <1>2, <1>3, <1>4, <1>5, ConnsAre DEF OpenPart, SvcReads, Reads, Overs,
     Asked, Mailed, Conn, Live
<1>12. ShutPart'
  BY <1>0, <1>1, <1>2, <1>3, <1>4, <1>5, ConnsAre DEF ShutPart, Done, SvcReads, Reads,
     Asked, Mailed, Conn, Live
<1>13. UserPart'
  BY <1>0, <1>1, <1>2, <1>3, <1>4, <1>5, ConnsAre DEF UserPart, Conn, Live
<1>14. WaitPart'
  BY <1>0, <1>1, <1>2, <1>3, <1>4, <1>5, ConnsAre DEF WaitPart, Watched, Asked, Mailed,
     Conn, Live
<1>15. OrderPart'
  BY <1>0, <1>1, <1>2, <1>3, <1>4, <1>5, ConnsAre DEF OrderPart, InHand, Mine, Conn
<1>16. PolledPart'
  BY <1>0, <1>1, <1>2, <1>3, <1>4, <1>5, ConnsAre DEF PolledPart, Mine, Asked, Mailed,
     Conn, Live
<1> QED BY <1>6, <1>7, <1>8, <1>9, <1>10, <1>11, <1>12, <1>13, <1>14, <1>15, <1>16
       DEF NetInv

(* The read is over: the slot is recycled.                                 *)
LEMMA ReadOverNowOk ==
    ASSUME NetInv, fault = "none", DoReadOver, ~ctx.pollOut
    PROVE  NetInv'
<1>0. /\ NetTypes /\ SlotPart /\ HeardPart /\ ClosePart /\ OverPart /\ OpenPart
      /\ ShutPart /\ UserPart /\ WaitPart /\ OrderPart /\ PolledPart
      /\ NoConn \notin known /\ NoConn \notin waiting /\ NoConn \notin closed
      /\ pc # "idle" => alive /\ op \in known /\ op \in Conns /\ op # NoConn
      /\ pc = "idle" => op = NoConn
      /\ cnt \in Nat \ {0} /\ Conn \in Nat /\ 0 <= Conn /\ (Live => Conn \in Conns)
  BY NetNow
<1>1. /\ npc = "tasks" /\ queTaskReq # << >> /\ Head(queTaskReq).cmd = "READ_OVER"
      /\ cnt = Head(queTaskReq).id /\ queTaskReq' = Tail(queTaskReq)
      /\ ~(pc \in {"enqueue", "sendwait"}) /\ ~ctx.pollOut
      /\ ctx' = [ctx EXCEPT !.readOver4Net = TRUE,
                    !.pollIn = @ /\ readRuntime.sockClosed,
                    !.inPoll = @ /\ readRuntime.sockClosed /\ ctx.closeCalled4Net,
                    !.fd = @ /\ ctx.closeCalled4Net]
      /\ readRuntime' = [readRuntime EXCEPT !.sockClosed = TRUE]
      /\ sendRuntime' = [sendRuntime EXCEPT !.sockClosed = @ \/ ~readRuntime.sockClosed]
      /\ cnt' = cnt + 1 /\ slot' = "wait"
      /\ UNCHANGED <<io, npc, seen, evOut, pc, op, isNew, local, inbox, known,
                     waiting, alive, closed, over, closedUnsent, fault>>
  BY <1>0 DEF DoReadOver, SendLocked, Task, Current, CloseFd, RecycleCtx, svcSide,
     sockVars, netVars, boxVars, svcVars, ghosts, At, Return, Mine
<1>2. PICK c \in Conns : /\ c = Head(queTaskReq).id /\ Asked("READ_OVER", c)
                      /\ Tail(queTaskReq) \in Seq(RequestType) /\ Short(Tail(queTaskReq))
                      /\ Shrunk(queTaskReq, Tail(queTaskReq), "READ_OVER", c)
  BY <1>0, <1>1, Serving DEF WaitPart
<1>3. /\ queTaskReq' \in Seq(RequestType) /\ Short(queTaskReq') /\ c # NoConn /\ c <= Conn
      /\ \A cmd, d : Has(queTaskReq', cmd, d) => Asked(cmd, d)
      /\ \A cmd, d : Asked(cmd, d) => Has(queTaskReq', cmd, d) \/ (cmd = "READ_OVER" /\ d = c)
      /\ \A cmd, d : Single(queTaskReq, cmd, d) => Single(queTaskReq', cmd, d)
      /\ Single(queTaskReq, "READ_OVER", c) => ~Has(queTaskReq', "READ_OVER", c)
      /\ \A cmd, first, d : NoneBehind(queTaskReq, cmd, first, d) => NoneBehind(queTaskReq', cmd, first, d)
      /\ \A cmd : NoneBehind(queTaskReq, cmd, "READ_OVER", c) => ~Has(queTaskReq', cmd, c)
  BY <1>0, <1>1, <1>2, ConnsAre DEF SlotPart, Requests, Shrunk, Asked
<1>4. /\ c = cnt /\ c = Conn /\ Live /\ Overs /\ c \in over /\ (alive => c \in known)
      /\ ~Asked("TCP_ADD", c)
      /\ ~Has(queTaskReq', "READ_WAIT", c) /\ ~Asked("READ_WAIT", c)
      /\ c \notin closed => /\ ~Reads /\ (alive => readRuntime.hasSendReadOver)
                            /\ ~Has(queTaskReq', "READ_OVER", c)
                            /\ (readRuntime.hasSendReadOver => readRuntime.sockClosed)
      /\ c \in closed /\ ~Done => /\ ~(pc = "tcpclose" /\ op = c) /\ ~Has(queTaskReq', "TCP_CLOSE", c)
                                  /\ ~Asked("TCP_CLOSE", c)
      /\ Done => ~ctx.readOver4Net /\ ~Has(queTaskReq', "READ_OVER", c)
  <2>1. c = cnt /\ c = Conn /\ Live /\ Asked("READ_OVER", c) /\ Overs
    BY <1>0, <1>1, <1>2, <1>3, ConnsAre DEF SlotPart, Live, Overs
  <2>2. c \in over /\ (alive => c \in known) /\ ~Asked("TCP_ADD", c)
    BY <1>0, <2>1 DEF OverPart, HeardPart, Requests
  <2>3. ~Has(queTaskReq', "READ_WAIT", c) /\ ~Asked("READ_WAIT", c)
    BY <1>0, <1>3 DEF OverPart
  <2>4. c \notin closed => /\ ~Reads /\ (alive => readRuntime.hasSendReadOver)
                          /\ Single(queTaskReq, "READ_OVER", c)
                          /\ (readRuntime.hasSendReadOver => readRuntime.sockClosed)
    BY <1>0, <2>1 DEF OpenPart
  <2>5. Done => ~ctx.readOver4Net /\ Single(queTaskReq, "READ_OVER", c)
    BY <2>1 DEF Done
  <2>6. c \in closed /\ ~Done => /\ ~(pc = "tcpclose" /\ op = c)
                                /\ NoneBehind(queTaskReq, "TCP_CLOSE", "READ_OVER", c)
    BY <1>0, <2>1 DEF ShutPart
  <2>7. NoneBehind(queTaskReq, "TCP_CLOSE", "READ_OVER", c) =>
            ~Has(queTaskReq', "TCP_CLOSE", c) /\ ~Asked("TCP_CLOSE", c)
    BY <1>3
  <2>8. Single(queTaskReq, "READ_OVER", c) => ~Has(queTaskReq', "READ_OVER", c)
    BY <1>3
  <2> QED BY <2>1, <2>2, <2>3, <2>4, <2>5, <2>6, <2>7, <2>8
<1>5. /\ ctx' \in CtxType
      /\ ctx'.cnt4Net = ctx.cnt4Net
      /\ ctx'.closeCalled4Net = ctx.closeCalled4Net
      /\ ctx'.readOver4Net
      /\ ~ctx'.pollOut
      /\ ctx'.fd <=> ctx.fd /\ ctx.closeCalled4Net
  <2>1. ctx \in CtxType /\ readRuntime.sockClosed \in BOOLEAN
    BY <1>0 DEF NetTypes, ReadType
  <2>2. PICK in, stays, keeps \in BOOLEAN :
           /\ ctx' = [ctx EXCEPT !.readOver4Net = TRUE, !.pollIn = in, !.inPoll = stays,
                               !.fd = keeps]
           /\ keeps <=> ctx.fd /\ ctx.closeCalled4Net
    BY <1>1, <2>1 DEF CtxType
  <2> QED BY <1>1, <2>1, <2>2 DEF CtxType
<1>6. /\ ~Live' /\ cnt' = Conn + 1 /\ c = cnt /\ c = Conn
      /\ \A d \in Conns : ~Has(queTaskReq', "READ_WAIT", d) /\ ~Has(queTaskReq', "TCP_ADD", d)
      /\ \A d \in Conns : ~Mailed("conn_in", d)
      /\ \A d \in Conns : Has(queTaskReq', "READ_OVER", d) => d \in over /\ d \in closed
      /\ pc # "readwait" /\ (readRuntime.wait => closedUnsent) /\ (readRuntime.wait => c \in closed)
      /\ ctx.fd /\ ctx.closeCalled4Net => closedUnsent
  <2>1. ~Live' /\ cnt' = Conn + 1 /\ c = cnt /\ c = Conn
    BY <1>0, <1>1, <1>4, <1>5 DEF Live, Conn
  <2>2. \A d \in Conns : ~Has(queTaskReq', "READ_WAIT", d)
    BY <1>0, <1>3, <1>4 DEF OverPart
  <2>3. \A d \in Conns : ~Has(queTaskReq', "TCP_ADD", d)
    BY <1>0, <1>3, <1>4 DEF HeardPart
  <2>4. \A d \in Conns : ~Mailed("conn_in", d)
    BY <1>0, <1>4, EmptyHas DEF HeardPart, Mailed
  <2>5. \A d \in Conns : Has(queTaskReq', "READ_OVER", d) => d \in over /\ d \in closed
    <3>1. c \in closed \/ ~Has(queTaskReq', "READ_OVER", c)
      BY <1>4
    <3> QED BY <1>0, <1>3, <1>4, <3>1 DEF OverPart
  <2>6. pc # "readwait"
    BY <1>0, <1>4 DEF OverPart, ClosePart, Reads, SvcReads
  <2>7. readRuntime.wait => closedUnsent /\ c \in closed
    <3>1. readRuntime.wait => Reads /\ ~Done /\ c \in closed
      BY <1>4 DEF Reads, Done
    <3>2. c \in closed /\ ~Done => ctx.closeCalled4Net
      BY <1>0, <1>4 DEF ClosePart
    <3>3. ctx.closeCalled4Net /\ ~closedUnsent => ~readRuntime.wait
      BY <1>0, <1>4 DEF ShutPart
    <3> QED BY <3>1, <3>2, <3>3
  <2>8. ctx.fd /\ ctx.closeCalled4Net => closedUnsent
    BY <1>0, <1>4 DEF ShutPart
  <2> QED BY <2>1, <2>2, <2>3, <2>4, <2>5, <2>6, <2>7, <2>8
<1>7. /\ readRuntime' \in ReadType
      /\ readRuntime'.sockClosed
      /\ readRuntime'.onReadWait = readRuntime.onReadWait
      /\ readRuntime'.hasSendReadOver = readRuntime.hasSendReadOver
      /\ readRuntime'.readable = readRuntime.readable
      /\ readRuntime'.wait = readRuntime.wait
  BY <1>0, <1>1 DEF NetTypes, ReadType
<1>8. /\ sendRuntime' \in SendType
      /\ sendRuntime'.closeCalled4Svc = sendRuntime.closeCalled4Svc
      /\ sendRuntime'.unSendBytes = sendRuntime.unSendBytes
      /\ sendRuntime'.queUnSend = sendRuntime.queUnSend
      /\ sendRuntime'.sends = sendRuntime.sends
  BY <1>0, <1>1 DEF NetTypes, SendType, ReadType
<1>9. /\ cnt' \in Nat \ {0} /\ \A d \in known : cnt' > d => d \in closed \union over
  <2>1. \A d \in known : d \in Conns /\ d \in Nat /\ (cnt > d => d \in closed \union over)
    BY <1>0, ConnsAre DEF NetTypes, UserPart
  <2>2. cnt' = cnt + 1 /\ cnt \in Nat /\ cnt \in closed \union over
    BY <1>0, <1>1, <1>4
  <2> QED BY <2>1, <2>2
<1>10. NetTypes'
  BY <1>0, <1>1, <1>2, <1>3, <1>4, <1>5, <1>6, <1>7, <1>8, <1>9, ConnsAre DEF NetTypes
<1>11. SlotPart'
  BY <1>0, <1>1, <1>2, <1>3, <1>4, <1>5, <1>6, <1>7, <1>8, <1>9, ConnsAre DEF SlotPart,
     Asked, Mailed, Conn, Live
<1>12. HeardPart'
  BY <1>0, <1>1, <1>2, <1>3, <1>4, <1>5, <1>6, <1>7, <1>8, <1>9, ConnsAre DEF HeardPart,
     Asked, Mailed, Conn, Live
<1>13. ClosePart'
  BY <1>0, <1>1, <1>2, <1>3, <1>4, <1>5, <1>6, <1>7, <1>8, <1>9, ConnsAre DEF ClosePart,
     Asked, Mailed, Conn, Live
<1>14. OverPart'
  BY <1>0, <1>1, <1>2, <1>3, <1>4, <1>5, <1>6, <1>7, <1>8, <1>9, ConnsAre DEF OverPart,
     Asked, Mailed, Conn, Live
<1>15. OpenPart'
  BY <1>0, <1>1, <1>2, <1>3, <1>4, <1>5, <1>6, <1>7, <1>8, <1>9, ConnsAre DEF OpenPart,
     SvcReads, Reads, Overs, Asked, Mailed, Conn, Live
<1>16. ShutPart'
  BY <1>0, <1>1, <1>2, <1>3, <1>4, <1>5, <1>6, <1>7, <1>8, <1>9, ConnsAre DEF ShutPart,
     Done, SvcReads, Reads, Asked, Mailed, Conn, Live
<1>17. UserPart'
  BY <1>0, <1>1, <1>2, <1>3, <1>4, <1>5, <1>6, <1>7, <1>8, <1>9, ConnsAre DEF UserPart,
     Conn, Live
<1>18. WaitPart'
  BY <1>0, <1>1, <1>2, <1>3, <1>4, <1>5, <1>6, <1>7, <1>8, <1>9, ConnsAre DEF WaitPart,
     Watched, Asked, Mailed, Conn, Live
<1>19. OrderPart'
  BY <1>0, <1>1, <1>2, <1>3, <1>4, <1>5, <1>6, <1>7, <1>8, <1>9, ConnsAre DEF OrderPart,
     InHand, Mine, Conn, Next1
<1>20. PolledPart'
  BY <1>0, <1>1, <1>2, <1>3, <1>4, <1>5, <1>6, <1>7, <1>8, <1>9, ConnsAre DEF PolledPart,
     Mine, Asked, Mailed, Conn, Live
<1> QED BY <1>10, <1>11, <1>12, <1>13, <1>14, <1>15, <1>16, <1>17, <1>18, <1>19, <1>20
       DEF NetInv

(* The poller is to wait for room, unless the connection is closed.        *)
LEMMA DoSendWaitOk ==
    ASSUME NetInv, fault = "none", DoSendWait
    PROVE  NetInv'
<1>0. /\ NetTypes /\ SlotPart /\ HeardPart /\ ClosePart /\ OverPart /\ OpenPart
      /\ ShutPart /\ UserPart /\ WaitPart /\ OrderPart /\ PolledPart
      /\ NoConn \notin known /\ NoConn \notin waiting /\ NoConn \notin closed
      /\ pc # "idle" => alive /\ op \in known /\ op \in Conns /\ op # NoConn
      /\ pc = "idle" => op = NoConn
      /\ cnt \in Nat \ {0} /\ Conn \in Nat /\ 0 <= Conn /\ (Live => Conn \in Conns)
  BY NetNow
<1>1. /\ npc = "tasks" /\ queTaskReq # << >> /\ Head(queTaskReq).cmd = "SEND_WAIT"
      /\ queTaskReq' = Tail(queTaskReq)
      /\ ctx' = [ctx EXCEPT !.pollOut = @ \/ (cnt = Head(queTaskReq).id
                    /\ ~ctx.closeCalled4Net /\ ~sendRuntime.sockClosed)]
      /\ UNCHANGED <<cnt, readRuntime, sendRuntime, slot, io, npc, seen, evOut, pc,
                     op, isNew, local, inbox, known, waiting, alive, closed, over,
                     closedUnsent, fault>>
  BY <1>0 DEF DoSendWait, Task, Current, CloseFd, RecycleCtx, svcSide, sockVars, netVars,
     boxVars, svcVars, ghosts, At, Return, Mine
<1>2. PICK c \in Conns : /\ c = Head(queTaskReq).id /\ Asked("SEND_WAIT", c)
                      /\ Tail(queTaskReq) \in Seq(RequestType) /\ Short(Tail(queTaskReq))
                      /\ Shrunk(queTaskReq, Tail(queTaskReq), "SEND_WAIT", c)
  BY <1>0, <1>1, Serving DEF WaitPart
<1>3. /\ queTaskReq' \in Seq(RequestType) /\ Short(queTaskReq') /\ c # NoConn /\ c <= Conn
      /\ \A cmd, d : Has(queTaskReq', cmd, d) => Asked(cmd, d)
      /\ \A cmd, d : Asked(cmd, d) => Has(queTaskReq', cmd, d) \/ (cmd = "SEND_WAIT" /\ d = c)
      /\ \A cmd, d : Single(queTaskReq, cmd, d) => Single(queTaskReq', cmd, d)
      /\ Single(queTaskReq, "SEND_WAIT", c) => ~Has(queTaskReq', "SEND_WAIT", c)
      /\ \A cmd, first, d : NoneBehind(queTaskReq, cmd, first, d) => NoneBehind(queTaskReq', cmd, first, d)
      /\ \A cmd : NoneBehind(queTaskReq, cmd, "SEND_WAIT", c) => ~Has(queTaskReq', cmd, c)
  BY <1>0, <1>1, <1>2, ConnsAre DEF SlotPart, Requests, Shrunk, Asked
<1>4. /\ ctx' \in CtxType
      /\ ctx'.cnt4Net = ctx.cnt4Net
      /\ ctx'.closeCalled4Net = ctx.closeCalled4Net
      /\ ctx'.readOver4Net = ctx.readOver4Net
      /\ ctx'.pollIn = ctx.pollIn
      /\ ctx'.inPoll = ctx.inPoll
      /\ ctx'.fd = ctx.fd
  BY <1>0, <1>1 DEF NetTypes, CtxType
<1>5. ctx'.pollOut <=> ctx.pollOut \/ (cnt = c /\ ~ctx.closeCalled4Net /\ ~sendRuntime.sockClosed)
  BY <1>0, <1>1, <1>2 DEF NetTypes, CtxType
<1>6. cnt = c => Live /\ ~ctx.closeCalled4Net
  BY <1>0, <1>2, <1>3, ConnsAre DEF SlotPart, ClosePart, Live
<1>7. NetTypes'
  BY <1>0, <1>1, <1>2, <1>3, <1>4, <1>5, <1>6, ConnsAre DEF NetTypes
<1>8. SlotPart'
  BY <1>0, <1>1, <1>2, <1>3, <1>4, <1>5, <1>6, ConnsAre DEF SlotPart, Asked, Mailed, Conn,
     Live
<1>9. HeardPart'
  BY <1>0, <1>1, <1>2, <1>3, <1>4, <1>5, <1>6, ConnsAre DEF HeardPart, Asked, Mailed, Conn,
     Live
<1>10. ClosePart'
  BY <1>0, <1>1, <1>2, <1>3, <1>4, <1>5, <1>6, ConnsAre DEF ClosePart, Asked, Mailed, Conn,
     Live
<1>11. OverPart'
  BY <1>0, <1>1, <1>2, <1>3, <1>4, <1>5, <1>6, ConnsAre DEF OverPart, Asked, Mailed, Conn,
     Live
<1>12. OpenPart'
  BY <1>0, <1>1, <1>2, <1>3, <1>4, <1>5, <1>6, ConnsAre DEF OpenPart, SvcReads, Reads,
     Overs, Asked, Mailed, Conn, Live
<1>13. ShutPart'
  BY <1>0, <1>1, <1>2, <1>3, <1>4, <1>5, <1>6, ConnsAre DEF ShutPart, Done, SvcReads,
     Reads, Asked, Mailed, Conn, Live
<1>14. UserPart'
  BY <1>0, <1>1, <1>2, <1>3, <1>4, <1>5, <1>6, ConnsAre DEF UserPart, Conn, Live
<1>15. WaitPart'
  BY <1>0, <1>1, <1>2, <1>3, <1>4, <1>5, <1>6, ConnsAre DEF WaitPart, Watched, Asked,
     Mailed, Conn, Live
<1>16. OrderPart'
  BY <1>0, <1>1, <1>2, <1>3, <1>4, <1>5, <1>6, ConnsAre DEF OrderPart, InHand, Mine, Conn
<1>17. PolledPart'
  BY <1>0, <1>1, <1>2, <1>3, <1>4, <1>5, <1>6, ConnsAre DEF PolledPart, Mine, Asked,
     Mailed, Conn, Live
<1> QED BY <1>7, <1>8, <1>9, <1>10, <1>11, <1>12, <1>13, <1>14, <1>15, <1>16, <1>17
       DEF NetInv

(* A close for an earlier connection, or a second one.                     *)
LEMMA CloseIgnoredOk ==
    ASSUME NetInv, fault = "none", CloseIgnored
    PROVE  NetInv'
<1>0. /\ NetTypes /\ SlotPart /\ HeardPart /\ ClosePart /\ OverPart /\ OpenPart
      /\ ShutPart /\ UserPart /\ WaitPart /\ OrderPart /\ PolledPart
      /\ NoConn \notin known /\ NoConn \notin waiting /\ NoConn \notin closed
      /\ pc # "idle" => alive /\ op \in known /\ op \in Conns /\ op # NoConn
      /\ pc = "idle" => op = NoConn
      /\ cnt \in Nat \ {0} /\ Conn \in Nat /\ 0 <= Conn /\ (Live => Conn \in Conns)
  BY NetNow
<1>1. /\ npc = "tasks" /\ queTaskReq # << >> /\ Head(queTaskReq).cmd = "TCP_CLOSE"
      /\ cnt # Head(queTaskReq).id \/ ctx.closeCalled4Net
      /\ queTaskReq' = Tail(queTaskReq)
      /\ UNCHANGED <<cnt, ctx, readRuntime, sendRuntime, slot, io, npc, seen,
                     evOut, pc, op, isNew, local, inbox, known, waiting, alive,
                     closed, over, closedUnsent, fault>>
  BY <1>0 DEF CloseIgnored, Task, Current, CloseFd, RecycleCtx, svcSide, sockVars, netVars,
     boxVars, svcVars, ghosts, At, Return, Mine
<1>2. PICK c \in Conns : /\ c = Head(queTaskReq).id /\ Asked("TCP_CLOSE", c)
                      /\ Tail(queTaskReq) \in Seq(RequestType) /\ Short(Tail(queTaskReq))
                      /\ Shrunk(queTaskReq, Tail(queTaskReq), "TCP_CLOSE", c)
  BY <1>0, <1>1, Serving DEF WaitPart
<1>3. /\ queTaskReq' \in Seq(RequestType) /\ Short(queTaskReq') /\ c # NoConn /\ c <= Conn
      /\ \A cmd, d : Has(queTaskReq', cmd, d) => Asked(cmd, d)
      /\ \A cmd, d : Asked(cmd, d) => Has(queTaskReq', cmd, d) \/ (cmd = "TCP_CLOSE" /\ d = c)
      /\ \A cmd, d : Single(queTaskReq, cmd, d) => Single(queTaskReq', cmd, d)
      /\ Single(queTaskReq, "TCP_CLOSE", c) => ~Has(queTaskReq', "TCP_CLOSE", c)
      /\ \A cmd, first, d : NoneBehind(queTaskReq, cmd, first, d) => NoneBehind(queTaskReq', cmd, first, d)
      /\ \A cmd : NoneBehind(queTaskReq, cmd, "TCP_CLOSE", c) => ~Has(queTaskReq', cmd, c)
  BY <1>0, <1>1, <1>2, ConnsAre DEF SlotPart, Requests, Shrunk, Asked
<1>4. NetTypes'
  BY <1>0, <1>1, <1>2, <1>3, ConnsAre DEF NetTypes
<1>5. SlotPart'
  BY <1>0, <1>1, <1>2, <1>3, ConnsAre DEF SlotPart, Asked, Mailed, Conn, Live
<1>6. HeardPart'
  BY <1>0, <1>1, <1>2, <1>3, ConnsAre DEF HeardPart, Asked, Mailed, Conn, Live
<1>7. ClosePart'
  BY <1>0, <1>1, <1>2, <1>3, ConnsAre DEF ClosePart, Asked, Mailed, Conn, Live
<1>8. OverPart'
  BY <1>0, <1>1, <1>2, <1>3, ConnsAre DEF OverPart, Asked, Mailed, Conn, Live
<1>9. OpenPart'
  BY <1>0, <1>1, <1>2, <1>3, ConnsAre DEF OpenPart, SvcReads, Reads, Overs, Asked, Mailed,
     Conn, Live
<1>10. ShutPart'
  BY <1>0, <1>1, <1>2, <1>3, ConnsAre DEF ShutPart, Done, SvcReads, Reads, Asked, Mailed,
     Conn, Live
<1>11. UserPart'
  BY <1>0, <1>1, <1>2, <1>3, ConnsAre DEF UserPart, Conn, Live
<1>12. WaitPart'
  BY <1>0, <1>1, <1>2, <1>3, ConnsAre DEF WaitPart, Watched, Asked, Mailed, Conn, Live
<1>13. OrderPart'
  BY <1>0, <1>1, <1>2, <1>3, ConnsAre DEF OrderPart, InHand, Mine, Conn
<1>14. PolledPart'
  BY <1>0, <1>1, <1>2, <1>3, ConnsAre DEF PolledPart, Mine, Asked, Mailed, Conn, Live
<1> QED BY <1>4, <1>5, <1>6, <1>7, <1>8, <1>9, <1>10, <1>11, <1>12, <1>13, <1>14 DEF NetInv

(* A close behind a read over, or with bytes unsent.                       *)
LEMMA CloseLaterOk ==
    ASSUME NetInv, fault = "none", CloseLater
    PROVE  NetInv'
<1>0. /\ NetTypes /\ SlotPart /\ HeardPart /\ ClosePart /\ OverPart /\ OpenPart
      /\ ShutPart /\ UserPart /\ WaitPart /\ OrderPart /\ PolledPart
      /\ NoConn \notin known /\ NoConn \notin waiting /\ NoConn \notin closed
      /\ pc # "idle" => alive /\ op \in known /\ op \in Conns /\ op # NoConn
      /\ pc = "idle" => op = NoConn
      /\ cnt \in Nat \ {0} /\ Conn \in Nat /\ 0 <= Conn /\ (Live => Conn \in Conns)
  BY NetNow
<1>1. /\ npc = "tasks" /\ queTaskReq # << >> /\ Head(queTaskReq).cmd = "TCP_CLOSE"
      /\ cnt = Head(queTaskReq).id /\ ~ctx.closeCalled4Net
      /\ ctx.readOver4Net \/ ctx.pollOut
      /\ queTaskReq' = Tail(queTaskReq)
      /\ ctx' = [ctx EXCEPT !.closeCalled4Net = TRUE, !.pollIn = @ /\ ctx.readOver4Net]
      /\ closedUnsent' = (closedUnsent \/ ~ctx.readOver4Net)
      /\ UNCHANGED <<cnt, readRuntime, sendRuntime, slot, io, npc, seen, evOut, pc,
                     op, isNew, local, inbox, known, waiting, alive, closed, over,
                     fault>>
  BY <1>0 DEF CloseLater, Task, Current, CloseFd, RecycleCtx, svcSide, sockVars, netVars,
     boxVars, svcVars, ghosts, At, Return, Mine
<1>2. PICK c \in Conns : /\ c = Head(queTaskReq).id /\ Asked("TCP_CLOSE", c)
                      /\ Tail(queTaskReq) \in Seq(RequestType) /\ Short(Tail(queTaskReq))
                      /\ Shrunk(queTaskReq, Tail(queTaskReq), "TCP_CLOSE", c)
  BY <1>0, <1>1, Serving DEF WaitPart
<1>3. /\ queTaskReq' \in Seq(RequestType) /\ Short(queTaskReq') /\ c # NoConn /\ c <= Conn
      /\ \A cmd, d : Has(queTaskReq', cmd, d) => Asked(cmd, d)
      /\ \A cmd, d : Asked(cmd, d) => Has(queTaskReq', cmd, d) \/ (cmd = "TCP_CLOSE" /\ d = c)
      /\ \A cmd, d : Single(queTaskReq, cmd, d) => Single(queTaskReq', cmd, d)
      /\ Single(queTaskReq, "TCP_CLOSE", c) => ~Has(queTaskReq', "TCP_CLOSE", c)
      /\ \A cmd, first, d : NoneBehind(queTaskReq, cmd, first, d) => NoneBehind(queTaskReq', cmd, first, d)
      /\ \A cmd : NoneBehind(queTaskReq, cmd, "TCP_CLOSE", c) => ~Has(queTaskReq', cmd, c)
  BY <1>0, <1>1, <1>2, ConnsAre DEF SlotPart, Requests, Shrunk, Asked
<1>4. /\ c = cnt /\ c = Conn /\ Live /\ c \in closed /\ (alive => c \in known)
      /\ \A d \in Conns : ~Asked("TCP_ADD", d)
      /\ ~Has(queTaskReq', "READ_WAIT", c) /\ ~Has(queTaskReq', "SEND_WAIT", c)
      /\ ~Asked("READ_WAIT", c) /\ ~Asked("SEND_WAIT", c)
      /\ Done \/ ~ctx.readOver4Net
  <2>1. c = cnt /\ c = Conn /\ Live
    BY <1>0, <1>1, <1>2, <1>3, ConnsAre DEF SlotPart, Live
  <2>2. c \in closed /\ (alive => c \in known) /\ \A d \in Conns : ~Asked("TCP_ADD", d)
    BY <1>0, <1>2, <2>1 DEF ClosePart, HeardPart, Requests
  <2>3. NoneBehind(queTaskReq, "READ_WAIT", "TCP_CLOSE", c) /\ NoneBehind(queTaskReq, "SEND_WAIT", "TCP_CLOSE", c)
    BY <1>0, <1>2 DEF ClosePart
  <2>4. ~Has(queTaskReq', "READ_WAIT", c) /\ ~Has(queTaskReq', "SEND_WAIT", c) /\ ~Asked("READ_WAIT", c) /\ ~Asked("SEND_WAIT", c)
    BY <1>3, <2>3
  <2>5. Done \/ ~ctx.readOver4Net
    BY <1>0, <1>2, <2>1, <2>2 DEF ShutPart
  <2> QED BY <2>1, <2>2, <2>4, <2>5
<1>5. /\ ctx' \in CtxType
      /\ ctx'.cnt4Net = ctx.cnt4Net
      /\ ctx'.closeCalled4Net
      /\ ctx'.readOver4Net = ctx.readOver4Net
      /\ ctx'.pollOut = ctx.pollOut
      /\ ctx'.inPoll = ctx.inPoll
      /\ ctx'.fd = ctx.fd
  BY <1>0, <1>1 DEF NetTypes, CtxType
<1>6. Done => Done'
  <2>1. Reads' => Reads
    BY <1>1, <1>3, <1>4, <1>5 DEF Reads, SvcReads, Asked, Mailed, Conn
  <2>2. Asked("READ_OVER", Conn)' <=> Asked("READ_OVER", Conn)
    BY <1>3, <1>4, <1>5 DEF Asked, Conn
  <2> QED BY <1>1, <1>3, <1>5, <2>1, <2>2 DEF Done, Asked, Conn
<1>7. ~closedUnsent' => ctx.readOver4Net /\ ~closedUnsent /\ Done /\ ~Reads
  BY <1>1, <1>4 DEF Done
<1>8. NetTypes'
  BY <1>0, <1>1, <1>2, <1>3, <1>4, <1>5, <1>6, <1>7, ConnsAre DEF NetTypes
<1>9. SlotPart'
  BY <1>0, <1>1, <1>2, <1>3, <1>4, <1>5, <1>6, <1>7, ConnsAre DEF SlotPart, Asked, Mailed,
     Conn, Live
<1>10. HeardPart'
  BY <1>0, <1>1, <1>2, <1>3, <1>4, <1>5, <1>6, <1>7, ConnsAre DEF HeardPart, Asked, Mailed,
     Conn, Live
<1>11. ClosePart'
  BY <1>0, <1>1, <1>2, <1>3, <1>4, <1>5, <1>6, <1>7, ConnsAre DEF ClosePart, Asked, Mailed,
     Conn, Live
<1>12. OverPart'
  BY <1>0, <1>1, <1>2, <1>3, <1>4, <1>5, <1>6, <1>7, ConnsAre DEF OverPart, Asked, Mailed,
     Conn, Live
<1>13. OpenPart'
  BY <1>0, <1>1, <1>2, <1>3, <1>4, <1>5, <1>6, <1>7, ConnsAre DEF OpenPart, SvcReads,
     Reads, Overs, Asked, Mailed, Conn, Live
<1>14. ShutPart'
  BY <1>0, <1>1, <1>2, <1>3, <1>4, <1>5, <1>6, <1>7, ConnsAre DEF ShutPart, Done, SvcReads,
     Reads, Asked, Mailed, Conn, Live
<1>15. UserPart'
  BY <1>0, <1>1, <1>2, <1>3, <1>4, <1>5, <1>6, <1>7, ConnsAre DEF UserPart, Conn, Live
<1>16. WaitPart'
  BY <1>0, <1>1, <1>2, <1>3, <1>4, <1>5, <1>6, <1>7, ConnsAre DEF WaitPart, Watched, Asked,
     Mailed, Conn, Live, Reads
<1>17. OrderPart'
  BY <1>0, <1>1, <1>2, <1>3, <1>4, <1>5, <1>6, <1>7, ConnsAre DEF OrderPart, InHand, Mine,
     Conn
<1>18. PolledPart'
  BY <1>0, <1>1, <1>2, <1>3, <1>4, <1>5, <1>6, <1>7, ConnsAre DEF PolledPart, Mine, Asked,
     Mailed, Conn, Live
<1> QED BY <1>8, <1>9, <1>10, <1>11, <1>12, <1>13, <1>14, <1>15, <1>16, <1>17, <1>18
       DEF NetInv

(* A close that a read waits for: it is told.                              *)
LEMMA CloseTellsOk ==
    ASSUME NetInv, fault = "none", CloseNow, readRuntime.wait, alive
    PROVE  NetInv'
<1>0. /\ NetTypes /\ SlotPart /\ HeardPart /\ ClosePart /\ OverPart /\ OpenPart
      /\ ShutPart /\ UserPart /\ WaitPart /\ OrderPart /\ PolledPart
      /\ NoConn \notin known /\ NoConn \notin waiting /\ NoConn \notin closed
      /\ pc # "idle" => alive /\ op \in known /\ op \in Conns /\ op # NoConn
      /\ pc = "idle" => op = NoConn
      /\ cnt \in Nat \ {0} /\ Conn \in Nat /\ 0 <= Conn /\ (Live => Conn \in Conns)
  BY NetNow
<1>1. /\ npc = "tasks" /\ queTaskReq # << >> /\ Head(queTaskReq).cmd = "TCP_CLOSE"
      /\ cnt = Head(queTaskReq).id /\ ~ctx.closeCalled4Net
      /\ ~ctx.readOver4Net /\ ~ctx.pollOut
      /\ ctx' = [[ctx EXCEPT !.pollIn = FALSE, !.pollOut = FALSE, !.inPoll = FALSE, !.fd = FALSE]
                     EXCEPT !.closeCalled4Net = TRUE]
      /\ readRuntime' = [readRuntime EXCEPT !.sockClosed = TRUE, !.wait = FALSE]
      /\ sendRuntime' = [sendRuntime EXCEPT !.sockClosed = TRUE]
      /\ readRuntime.wait /\ queTaskReq' = Tail(queTaskReq)
      /\ alive /\ inbox' = Append(inbox, Msg("read_ret", cnt))
      /\ UNCHANGED <<cnt, slot, io, npc, seen, evOut, pc, op, isNew, local, known,
                     waiting, alive, closed, over, closedUnsent, fault>>
  BY <1>0 DEF CloseNow, NotifyReader, Req, Task, Current, CloseFd, RecycleCtx, svcSide,
     sockVars, netVars, boxVars, svcVars, ghosts, At, Return, Mine
<1>2. PICK c \in Conns : /\ c = Head(queTaskReq).id /\ Asked("TCP_CLOSE", c)
                      /\ Tail(queTaskReq) \in Seq(RequestType) /\ Short(Tail(queTaskReq))
                      /\ Shrunk(queTaskReq, Tail(queTaskReq), "TCP_CLOSE", c)
  BY <1>0, <1>1, Serving DEF WaitPart
<1>3. /\ queTaskReq' \in Seq(RequestType) /\ Short(queTaskReq') /\ c # NoConn /\ c <= Conn
      /\ \A cmd, d : Has(queTaskReq', cmd, d) => Asked(cmd, d)
      /\ \A cmd, d : Asked(cmd, d) => Has(queTaskReq', cmd, d) \/ (cmd = "TCP_CLOSE" /\ d = c)
      /\ \A cmd, d : Single(queTaskReq, cmd, d) => Single(queTaskReq', cmd, d)
      /\ Single(queTaskReq, "TCP_CLOSE", c) => ~Has(queTaskReq', "TCP_CLOSE", c)
      /\ \A cmd, first, d : NoneBehind(queTaskReq, cmd, first, d) => NoneBehind(queTaskReq', cmd, first, d)
      /\ \A cmd : NoneBehind(queTaskReq, cmd, "TCP_CLOSE", c) => ~Has(queTaskReq', cmd, c)
  BY <1>0, <1>1, <1>2, ConnsAre DEF SlotPart, Requests, Shrunk, Asked
<1>4. /\ c = cnt /\ c = Conn /\ Live /\ c \in closed /\ (alive => c \in known)
      /\ \A d \in Conns : ~Asked("TCP_ADD", d)
      /\ ~Has(queTaskReq', "READ_WAIT", c) /\ ~Has(queTaskReq', "SEND_WAIT", c)
      /\ ~Asked("READ_WAIT", c) /\ ~Asked("SEND_WAIT", c)
      /\ Done \/ ~ctx.readOver4Net
  <2>1. c = cnt /\ c = Conn /\ Live
    BY <1>0, <1>1, <1>2, <1>3, ConnsAre DEF SlotPart, Live
  <2>2. c \in closed /\ (alive => c \in known) /\ \A d \in Conns : ~Asked("TCP_ADD", d)
    BY <1>0, <1>2, <2>1 DEF ClosePart, HeardPart, Requests
  <2>3. NoneBehind(queTaskReq, "READ_WAIT", "TCP_CLOSE", c) /\ NoneBehind(queTaskReq, "SEND_WAIT", "TCP_CLOSE", c)
    BY <1>0, <1>2 DEF ClosePart
  <2>4. ~Has(queTaskReq', "READ_WAIT", c) /\ ~Has(queTaskReq', "SEND_WAIT", c) /\ ~Asked("READ_WAIT", c) /\ ~Asked("SEND_WAIT", c)
    BY <1>3, <2>3
  <2>5. Done \/ ~ctx.readOver4Net
    BY <1>0, <1>2, <2>1, <2>2 DEF ShutPart
  <2> QED BY <2>1, <2>2, <2>4, <2>5
<1>5. /\ ctx' \in CtxType
      /\ ctx'.cnt4Net = ctx.cnt4Net
      /\ ctx'.closeCalled4Net
      /\ ctx'.readOver4Net = ctx.readOver4Net
      /\ ~ctx'.pollIn
      /\ ~ctx'.pollOut
      /\ ~ctx'.inPoll
      /\ ~ctx'.fd
  BY <1>0, <1>1 DEF NetTypes, CtxType
<1>6. /\ readRuntime' \in ReadType
      /\ readRuntime'.sockClosed
      /\ readRuntime'.onReadWait = readRuntime.onReadWait
      /\ readRuntime'.hasSendReadOver = readRuntime.hasSendReadOver
      /\ readRuntime'.readable = readRuntime.readable
      /\ ~readRuntime'.wait
  BY <1>0, <1>1 DEF NetTypes, ReadType
<1>7. /\ sendRuntime' \in SendType
      /\ sendRuntime'.sockClosed
      /\ sendRuntime'.closeCalled4Svc = sendRuntime.closeCalled4Svc
      /\ sendRuntime'.unSendBytes = sendRuntime.unSendBytes
      /\ sendRuntime'.queUnSend = sendRuntime.queUnSend
      /\ sendRuntime'.sends = sendRuntime.sends
  BY <1>0, <1>1 DEF NetTypes, SendType
<1>8. /\ inbox' \in Seq(MailType) /\ Grown(inbox, inbox', "read_ret", c)
  BY <1>0, <1>1, <1>4, Telling DEF Mails
<1>9. /\ \A cmd, d : Has(inbox', cmd, d) <=> Mailed(cmd, d) \/ (cmd = "read_ret" /\ d = c)
      /\ \A cmd, d : Single(inbox, cmd, d) /\ ~(cmd = "read_ret" /\ d = c /\ Mailed("read_ret", c))
                      => Single(inbox', cmd, d)
  BY <1>8 DEF Grown, Mailed
<1>10. ~Done
  BY <1>1 DEF Done, Reads
<1>11. NetTypes'
  BY <1>0, <1>1, <1>2, <1>3, <1>4, <1>5, <1>6, <1>7, <1>8, <1>9, <1>10, ConnsAre
     DEF NetTypes
<1>12. SlotPart'
  BY <1>0, <1>1, <1>2, <1>3, <1>4, <1>5, <1>6, <1>7, <1>8, <1>9, <1>10, ConnsAre
     DEF SlotPart, Asked, Mailed, Conn, Live
<1>13. HeardPart'
  BY <1>0, <1>1, <1>2, <1>3, <1>4, <1>5, <1>6, <1>7, <1>8, <1>9, <1>10, ConnsAre
     DEF HeardPart, Asked, Mailed, Conn, Live
<1>14. ClosePart'
  BY <1>0, <1>1, <1>2, <1>3, <1>4, <1>5, <1>6, <1>7, <1>8, <1>9, <1>10, ConnsAre
     DEF ClosePart, Asked, Mailed, Conn, Live
<1>15. OverPart'
  BY <1>0, <1>1, <1>2, <1>3, <1>4, <1>5, <1>6, <1>7, <1>8, <1>9, <1>10, ConnsAre
     DEF OverPart, Asked, Mailed, Conn, Live
<1>16. OpenPart'
  BY <1>0, <1>1, <1>2, <1>3, <1>4, <1>5, <1>6, <1>7, <1>8, <1>9, <1>10, ConnsAre
     DEF OpenPart, SvcReads, Reads, Overs, Asked, Mailed, Conn, Live
<1>17. ShutPart'
  BY <1>0, <1>1, <1>2, <1>3, <1>4, <1>5, <1>6, <1>7, <1>8, <1>9, <1>10, ConnsAre
     DEF ShutPart, Done, SvcReads, Reads, Asked, Mailed, Conn, Live
<1>18. UserPart'
  BY <1>0, <1>1, <1>2, <1>3, <1>4, <1>5, <1>6, <1>7, <1>8, <1>9, <1>10, ConnsAre
     DEF UserPart, Conn, Live
<1>19. WaitPart'
  BY <1>0, <1>1, <1>2, <1>3, <1>4, <1>5, <1>6, <1>7, <1>8, <1>9, <1>10, ConnsAre
     DEF WaitPart, Watched, Asked, Mailed, Conn, Live
<1>20. OrderPart'
  BY <1>0, <1>1, <1>2, <1>3, <1>4, <1>5, <1>6, <1>7, <1>8, <1>9, <1>10, ConnsAre
     DEF OrderPart, InHand, Mine, Conn, Next1
<1>21. PolledPart'
  BY <1>0, <1>1, <1>2, <1>3, <1>4, <1>5, <1>6, <1>7, <1>8, <1>9, <1>10, ConnsAre
     DEF PolledPart, Mine, Asked, Mailed, Conn, Live
<1> QED BY <1>11, <1>12, <1>13, <1>14, <1>15, <1>16, <1>17, <1>18, <1>19, <1>20, <1>21
       DEF NetInv

(* ... and its service has gone.                                           *)
LEMMA CloseDropsOk ==
    ASSUME NetInv, fault = "none", CloseNow, readRuntime.wait, ~alive
    PROVE  NetInv'
<1>0. /\ NetTypes /\ SlotPart /\ HeardPart /\ ClosePart /\ OverPart /\ OpenPart
      /\ ShutPart /\ UserPart /\ WaitPart /\ OrderPart /\ PolledPart
      /\ NoConn \notin known /\ NoConn \notin waiting /\ NoConn \notin closed
      /\ pc # "idle" => alive /\ op \in known /\ op \in Conns /\ op # NoConn
      /\ pc = "idle" => op = NoConn
      /\ cnt \in Nat \ {0} /\ Conn \in Nat /\ 0 <= Conn /\ (Live => Conn \in Conns)
  BY NetNow
<1>1. /\ npc = "tasks" /\ queTaskReq # << >> /\ Head(queTaskReq).cmd = "TCP_CLOSE"
      /\ cnt = Head(queTaskReq).id /\ ~ctx.closeCalled4Net
      /\ ~ctx.readOver4Net /\ ~ctx.pollOut
      /\ ctx' = [[ctx EXCEPT !.pollIn = FALSE, !.pollOut = FALSE, !.inPoll = FALSE, !.fd = FALSE]
                     EXCEPT !.closeCalled4Net = TRUE]
      /\ readRuntime' = [readRuntime EXCEPT !.sockClosed = TRUE, !.wait = FALSE]
      /\ sendRuntime' = [sendRuntime EXCEPT !.sockClosed = TRUE]
      /\ readRuntime.wait /\ ~alive /\ over' = over \union {cnt}
      /\ queTaskReq' = Append(Tail(queTaskReq), [cmd |-> "READ_OVER", id |-> cnt, used |-> 0])
      /\ UNCHANGED <<cnt, slot, io, npc, seen, evOut, pc, op, isNew, local, inbox,
                     known, waiting, alive, closed, closedUnsent, fault>>
  BY <1>0 DEF CloseNow, NotifyReader, Req, Task, Current, CloseFd, RecycleCtx, svcSide,
     sockVars, netVars, boxVars, svcVars, ghosts, At, Return, Mine
<1>2. PICK c \in Conns : /\ c = Head(queTaskReq).id /\ Asked("TCP_CLOSE", c)
                      /\ Tail(queTaskReq) \in Seq(RequestType) /\ Short(Tail(queTaskReq))
                      /\ Shrunk(queTaskReq, Tail(queTaskReq), "TCP_CLOSE", c)
  BY <1>0, <1>1, Serving DEF WaitPart
<1>3. /\ Tail(queTaskReq) \in Seq(RequestType) /\ Short(Tail(queTaskReq)) /\ c # NoConn /\ c <= Conn
      /\ \A cmd, d : Has(Tail(queTaskReq), cmd, d) => Asked(cmd, d)
      /\ \A cmd, d : Asked(cmd, d) => Has(Tail(queTaskReq), cmd, d) \/ (cmd = "TCP_CLOSE" /\ d = c)
      /\ \A cmd, d : Single(queTaskReq, cmd, d) => Single(Tail(queTaskReq), cmd, d)
      /\ Single(queTaskReq, "TCP_CLOSE", c) => ~Has(Tail(queTaskReq), "TCP_CLOSE", c)
      /\ \A cmd, first, d : NoneBehind(queTaskReq, cmd, first, d) => NoneBehind(Tail(queTaskReq), cmd, first, d)
      /\ \A cmd : NoneBehind(queTaskReq, cmd, "TCP_CLOSE", c) => ~Has(Tail(queTaskReq), cmd, c)
  BY <1>0, <1>1, <1>2, ConnsAre DEF SlotPart, Requests, Shrunk, Asked
<1>4. /\ c = cnt /\ c = Conn /\ Live /\ c \in closed /\ (alive => c \in known)
      /\ \A d \in Conns : ~Asked("TCP_ADD", d)
      /\ ~Has(Tail(queTaskReq), "READ_WAIT", c) /\ ~Has(Tail(queTaskReq), "SEND_WAIT", c)
      /\ ~Asked("READ_WAIT", c) /\ ~Asked("SEND_WAIT", c)
      /\ Done \/ ~ctx.readOver4Net
  <2>1. c = cnt /\ c = Conn /\ Live
    BY <1>0, <1>1, <1>2, <1>3, ConnsAre DEF SlotPart, Live
  <2>2. c \in closed /\ (alive => c \in known) /\ \A d \in Conns : ~Asked("TCP_ADD", d)
    BY <1>0, <1>2, <2>1 DEF ClosePart, HeardPart, Requests
  <2>3. NoneBehind(queTaskReq, "READ_WAIT", "TCP_CLOSE", c) /\ NoneBehind(queTaskReq, "SEND_WAIT", "TCP_CLOSE", c)
    BY <1>0, <1>2 DEF ClosePart
  <2>4. ~Has(Tail(queTaskReq), "READ_WAIT", c) /\ ~Has(Tail(queTaskReq), "SEND_WAIT", c) /\ ~Asked("READ_WAIT", c) /\ ~Asked("SEND_WAIT", c)
    BY <1>3, <2>3
  <2>5. Done \/ ~ctx.readOver4Net
    BY <1>0, <1>2, <2>1, <2>2 DEF ShutPart
  <2> QED BY <2>1, <2>2, <2>4, <2>5
<1>5. /\ ctx' \in CtxType
      /\ ctx'.cnt4Net = ctx.cnt4Net
      /\ ctx'.closeCalled4Net
      /\ ctx'.readOver4Net = ctx.readOver4Net
      /\ ~ctx'.pollIn
      /\ ~ctx'.pollOut
      /\ ~ctx'.inPoll
      /\ ~ctx'.fd
  BY <1>0, <1>1 DEF NetTypes, CtxType
<1>6. /\ readRuntime' \in ReadType
      /\ readRuntime'.sockClosed
      /\ readRuntime'.onReadWait = readRuntime.onReadWait
      /\ readRuntime'.hasSendReadOver = readRuntime.hasSendReadOver
      /\ readRuntime'.readable = readRuntime.readable
      /\ ~readRuntime'.wait
  BY <1>0, <1>1 DEF NetTypes, ReadType
<1>7. /\ sendRuntime' \in SendType
      /\ sendRuntime'.sockClosed
      /\ sendRuntime'.closeCalled4Svc = sendRuntime.closeCalled4Svc
      /\ sendRuntime'.unSendBytes = sendRuntime.unSendBytes
      /\ sendRuntime'.queUnSend = sendRuntime.queUnSend
      /\ sendRuntime'.sends = sendRuntime.sends
  BY <1>0, <1>1 DEF NetTypes, SendType
<1>8. /\ queTaskReq' \in Seq(RequestType) /\ Grown(Tail(queTaskReq), queTaskReq', "READ_OVER", c)
      /\ Short(queTaskReq)'
  BY <1>1, <1>2, <1>3, <1>4, Regrowing DEF Requests
<1>9. /\ \A cmd, d : Has(queTaskReq', cmd, d) <=> Has(Tail(queTaskReq), cmd, d) \/ (cmd = "READ_OVER" /\ d = c)
      /\ \A cmd, d : Single(queTaskReq, cmd, d) /\ ~(cmd = "READ_OVER" /\ d = c /\ Has(Tail(queTaskReq), "READ_OVER", c))
                      => Single(queTaskReq', cmd, d)
      /\ \A cmd, first, d : NoneBehind(queTaskReq, cmd, first, d)
                             /\ ~(cmd = "READ_OVER" /\ d = c /\ Has(Tail(queTaskReq), first, c))
                                => NoneBehind(queTaskReq', cmd, first, d)
  BY <1>3, <1>8 DEF Grown
<1>10. ~Done /\ pc = "idle" /\ waiting = {} /\ known = {} /\ inbox = << >> /\ \A cmd, d : ~Mailed(cmd, d)
  BY <1>0, <1>1, EmptyHas DEF Done, Reads, HeardPart, Mailed
<1>11. NetTypes'
  BY <1>0, <1>1, <1>2, <1>3, <1>4, <1>5, <1>6, <1>7, <1>8, <1>9, <1>10, ConnsAre
     DEF NetTypes
<1>12. SlotPart'
  BY <1>0, <1>1, <1>2, <1>3, <1>4, <1>5, <1>6, <1>7, <1>8, <1>9, <1>10, ConnsAre
     DEF SlotPart, Asked, Mailed, Conn, Live
<1>13. HeardPart'
  BY <1>0, <1>1, <1>2, <1>3, <1>4, <1>5, <1>6, <1>7, <1>8, <1>9, <1>10, ConnsAre
     DEF HeardPart, Asked, Mailed, Conn, Live
<1>14. ClosePart'
  BY <1>0, <1>1, <1>2, <1>3, <1>4, <1>5, <1>6, <1>7, <1>8, <1>9, <1>10, ConnsAre
     DEF ClosePart, Asked, Mailed, Conn, Live
<1>15. OverPart'
  BY <1>0, <1>1, <1>2, <1>3, <1>4, <1>5, <1>6, <1>7, <1>8, <1>9, <1>10, ConnsAre
     DEF OverPart, Asked, Mailed, Conn, Live
<1>16. OpenPart'
  BY <1>0, <1>1, <1>2, <1>3, <1>4, <1>5, <1>6, <1>7, <1>8, <1>9, <1>10, ConnsAre
     DEF OpenPart, SvcReads, Reads, Overs, Asked, Mailed, Conn, Live
<1>17. ShutPart'
  BY <1>0, <1>1, <1>2, <1>3, <1>4, <1>5, <1>6, <1>7, <1>8, <1>9, <1>10, ConnsAre
     DEF ShutPart, Done, SvcReads, Reads, Asked, Mailed, Conn, Live
<1>18. UserPart'
  BY <1>0, <1>1, <1>2, <1>3, <1>4, <1>5, <1>6, <1>7, <1>8, <1>9, <1>10, ConnsAre
     DEF UserPart, Conn, Live
<1>19. WaitPart'
  BY <1>0, <1>1, <1>2, <1>3, <1>4, <1>5, <1>6, <1>7, <1>8, <1>9, <1>10, ConnsAre
     DEF WaitPart, Watched, Asked, Mailed, Conn, Live
<1>20. OrderPart'
  BY <1>0, <1>1, <1>2, <1>3, <1>4, <1>5, <1>6, <1>7, <1>8, <1>9, <1>10, ConnsAre
     DEF OrderPart, InHand, Mine, Conn, Next1
<1>21. PolledPart'
  BY <1>0, <1>1, <1>2, <1>3, <1>4, <1>5, <1>6, <1>7, <1>8, <1>9, <1>10, ConnsAre
     DEF PolledPart, Mine, Asked, Mailed, Conn, Live
<1> QED BY <1>11, <1>12, <1>13, <1>14, <1>15, <1>16, <1>17, <1>18, <1>19, <1>20, <1>21
       DEF NetInv

(* A close no read waits for: the slot is recycled.                        *)
LEMMA CloseRecyclesOk ==
    ASSUME NetInv, fault = "none", CloseNow, ~readRuntime.wait
    PROVE  NetInv'
<1>0. /\ NetTypes /\ SlotPart /\ HeardPart /\ ClosePart /\ OverPart /\ OpenPart
      /\ ShutPart /\ UserPart /\ WaitPart /\ OrderPart /\ PolledPart
      /\ NoConn \notin known /\ NoConn \notin waiting /\ NoConn \notin closed
      /\ pc # "idle" => alive /\ op \in known /\ op \in Conns /\ op # NoConn
      /\ pc = "idle" => op = NoConn
      /\ cnt \in Nat \ {0} /\ Conn \in Nat /\ 0 <= Conn /\ (Live => Conn \in Conns)
  BY NetNow
<1>1. /\ npc = "tasks" /\ queTaskReq # << >> /\ Head(queTaskReq).cmd = "TCP_CLOSE"
      /\ cnt = Head(queTaskReq).id /\ ~ctx.closeCalled4Net
      /\ ~ctx.readOver4Net /\ ~ctx.pollOut
      /\ ctx' = [[ctx EXCEPT !.pollIn = FALSE, !.pollOut = FALSE, !.inPoll = FALSE, !.fd = FALSE]
                     EXCEPT !.closeCalled4Net = TRUE]
      /\ readRuntime' = [readRuntime EXCEPT !.sockClosed = TRUE, !.wait = FALSE]
      /\ sendRuntime' = [sendRuntime EXCEPT !.sockClosed = TRUE]
      /\ ~readRuntime.wait /\ queTaskReq' = Tail(queTaskReq)
      /\ cnt' = cnt + 1 /\ slot' = "wait"
      /\ UNCHANGED <<io, npc, seen, evOut, pc, op, isNew, local, inbox, known,
                     waiting, alive, closed, over, closedUnsent, fault>>
  BY <1>0 DEF CloseNow, NotifyReader, Req, Task, Current, CloseFd, RecycleCtx, svcSide,
     sockVars, netVars, boxVars, svcVars, ghosts, At, Return, Mine
<1>2. PICK c \in Conns : /\ c = Head(queTaskReq).id /\ Asked("TCP_CLOSE", c)
                      /\ Tail(queTaskReq) \in Seq(RequestType) /\ Short(Tail(queTaskReq))
                      /\ Shrunk(queTaskReq, Tail(queTaskReq), "TCP_CLOSE", c)
  BY <1>0, <1>1, Serving DEF WaitPart
<1>3. /\ queTaskReq' \in Seq(RequestType) /\ Short(queTaskReq') /\ c # NoConn /\ c <= Conn
      /\ \A cmd, d : Has(queTaskReq', cmd, d) => Asked(cmd, d)
      /\ \A cmd, d : Asked(cmd, d) => Has(queTaskReq', cmd, d) \/ (cmd = "TCP_CLOSE" /\ d = c)
      /\ \A cmd, d : Single(queTaskReq, cmd, d) => Single(queTaskReq', cmd, d)
      /\ Single(queTaskReq, "TCP_CLOSE", c) => ~Has(queTaskReq', "TCP_CLOSE", c)
      /\ \A cmd, first, d : NoneBehind(queTaskReq, cmd, first, d) => NoneBehind(queTaskReq', cmd, first, d)
      /\ \A cmd : NoneBehind(queTaskReq, cmd, "TCP_CLOSE", c) => ~Has(queTaskReq', cmd, c)
  BY <1>0, <1>1, <1>2, ConnsAre DEF SlotPart, Requests, Shrunk, Asked
<1>4. /\ c = cnt /\ c = Conn /\ Live /\ c \in closed /\ (alive => c \in known)
      /\ \A d \in Conns : ~Asked("TCP_ADD", d)
      /\ ~Has(queTaskReq', "READ_WAIT", c) /\ ~Has(queTaskReq', "SEND_WAIT", c)
      /\ ~Asked("READ_WAIT", c) /\ ~Asked("SEND_WAIT", c)
      /\ Done \/ ~ctx.readOver4Net
  <2>1. c = cnt /\ c = Conn /\ Live
    BY <1>0, <1>1, <1>2, <1>3, ConnsAre DEF SlotPart, Live
  <2>2. c \in closed /\ (alive => c \in known) /\ \A d \in Conns : ~Asked("TCP_ADD", d)
    BY <1>0, <1>2, <2>1 DEF ClosePart, HeardPart, Requests
  <2>3. NoneBehind(queTaskReq, "READ_WAIT", "TCP_CLOSE", c) /\ NoneBehind(queTaskReq, "SEND_WAIT", "TCP_CLOSE", c)
    BY <1>0, <1>2 DEF ClosePart
  <2>4. ~Has(queTaskReq', "READ_WAIT", c) /\ ~Has(queTaskReq', "SEND_WAIT", c) /\ ~Asked("READ_WAIT", c) /\ ~Asked("SEND_WAIT", c)
    BY <1>3, <2>3
  <2>5. Done \/ ~ctx.readOver4Net
    BY <1>0, <1>2, <2>1, <2>2 DEF ShutPart
  <2> QED BY <2>1, <2>2, <2>4, <2>5
<1>5. /\ ctx' \in CtxType
      /\ ctx'.cnt4Net = ctx.cnt4Net
      /\ ctx'.closeCalled4Net
      /\ ctx'.readOver4Net = ctx.readOver4Net
      /\ ~ctx'.pollIn
      /\ ~ctx'.pollOut
      /\ ~ctx'.inPoll
      /\ ~ctx'.fd
  BY <1>0, <1>1 DEF NetTypes, CtxType
<1>6. /\ readRuntime' \in ReadType
      /\ readRuntime'.sockClosed
      /\ readRuntime'.onReadWait = readRuntime.onReadWait
      /\ readRuntime'.hasSendReadOver = readRuntime.hasSendReadOver
      /\ readRuntime'.readable = readRuntime.readable
      /\ ~readRuntime'.wait
  BY <1>0, <1>1 DEF NetTypes, ReadType
<1>7. /\ sendRuntime' \in SendType
      /\ sendRuntime'.sockClosed
      /\ sendRuntime'.closeCalled4Svc = sendRuntime.closeCalled4Svc
      /\ sendRuntime'.unSendBytes = sendRuntime.unSendBytes
      /\ sendRuntime'.queUnSend = sendRuntime.queUnSend
      /\ sendRuntime'.sends = sendRuntime.sends
  BY <1>0, <1>1 DEF NetTypes, SendType
<1>8. /\ ~Live' /\ cnt' = Conn + 1 /\ pc # "readwait"
      /\ \A d \in Conns : /\ ~Has(queTaskReq', "READ_WAIT", d) /\ ~Has(queTaskReq', "TCP_ADD", d)
                          /\ ~Mailed("conn_in", d) /\ ~Asked("READ_WAIT", d)
                          /\ Asked("READ_OVER", d) => d \in over /\ d \in closed
  <2>1. ~Live' /\ cnt' = Conn + 1
    BY <1>0, <1>1, <1>4, <1>5 DEF Live, Conn
  <2>2. \A d \in Conns : ~Mailed("conn_in", d)
    BY <1>0, <1>4, EmptyHas DEF HeardPart, Mailed
  <2>3. pc # "readwait"
    BY <1>0, <1>4 DEF OverPart, ClosePart
  <2>4. \A d \in Conns : Asked("READ_OVER", d) => d \in over /\ d \in closed
    BY <1>0, <1>4 DEF OverPart
  <2>5. \A d \in Conns : ~Asked("READ_WAIT", d)
    BY <1>0, <1>4 DEF OverPart
  <2> QED BY <1>3, <1>4, <2>1, <2>2, <2>3, <2>4, <2>5
<1>9. /\ cnt' \in Nat \ {0} /\ \A d \in known : cnt' > d => d \in closed \union over
  <2>1. \A d \in known : d \in Conns /\ d \in Nat /\ (cnt > d => d \in closed \union over)
    BY <1>0, ConnsAre DEF NetTypes, UserPart
  <2>2. cnt' = cnt + 1 /\ cnt \in Nat /\ cnt \in closed \union over
    BY <1>0, <1>1, <1>4 DEF Live
  <2> QED BY <2>1, <2>2
<1>10. NetTypes'
  BY <1>0, <1>1, <1>2, <1>3, <1>4, <1>5, <1>6, <1>7, <1>8, <1>9, ConnsAre DEF NetTypes
<1>11. SlotPart'
  BY <1>0, <1>1, <1>2, <1>3, <1>4, <1>5, <1>6, <1>7, <1>8, <1>9, ConnsAre DEF SlotPart,
     Asked, Mailed, Conn, Live
<1>12. HeardPart'

  <2>1. \A cmd, d : (Asked(cmd, d)' => Asked(cmd, d)) /\ (Mailed(cmd, d)' <=> Mailed(cmd, d))
    BY <1>1, <1>3 DEF Asked, Mailed
  <2>2. \A d \in Conns : ~Asked("TCP_ADD", d)' /\ ~Mailed("conn_in", d)'
    BY <2>1, <1>8 DEF Asked
  <2> QED BY <1>0, <1>1, <1>4, <1>5, <1>6, <1>8, <2>1, <2>2 DEF HeardPart, Conn
<1>13. ClosePart'
  BY <1>0, <1>1, <1>2, <1>3, <1>4, <1>5, <1>6, <1>7, <1>8, <1>9, ConnsAre DEF ClosePart,
     Asked, Mailed, Conn, Live
<1>14. OverPart'
  BY <1>0, <1>1, <1>2, <1>3, <1>4, <1>5, <1>6, <1>7, <1>8, <1>9, ConnsAre DEF OverPart,
     Asked, Mailed, Conn, Live
<1>15. OpenPart'
  BY <1>0, <1>1, <1>2, <1>3, <1>4, <1>5, <1>6, <1>7, <1>8, <1>9, ConnsAre DEF OpenPart,
     SvcReads, Reads, Overs, Asked, Mailed, Conn, Live
<1>16. ShutPart'
  BY <1>0, <1>1, <1>2, <1>3, <1>4, <1>5, <1>6, <1>7, <1>8, <1>9, ConnsAre DEF ShutPart,
     Done, SvcReads, Reads, Asked, Mailed, Conn, Live
<1>17. UserPart'
  BY <1>0, <1>1, <1>2, <1>3, <1>4, <1>5, <1>6, <1>7, <1>8, <1>9, ConnsAre DEF UserPart,
     Conn, Live
<1>18. WaitPart'
  BY <1>0, <1>1, <1>2, <1>3, <1>4, <1>5, <1>6, <1>7, <1>8, <1>9, ConnsAre DEF WaitPart,
     Watched, Asked, Mailed, Conn, Live
<1>19. OrderPart'
  BY <1>0, <1>1, <1>2, <1>3, <1>4, <1>5, <1>6, <1>7, <1>8, <1>9, ConnsAre DEF OrderPart,
     InHand, Mine, Conn, Next1
<1>20. PolledPart'
  BY <1>0, <1>1, <1>2, <1>3, <1>4, <1>5, <1>6, <1>7, <1>8, <1>9, ConnsAre DEF PolledPart,
     Mine, Asked, Mailed, Conn, Live
<1> QED BY <1>10, <1>11, <1>12, <1>13, <1>14, <1>15, <1>16, <1>17, <1>18, <1>19, <1>20
       DEF NetInv

(* A request for a connection the slot no longer carries.                  *)
LEMMA TaskStaleOk ==
    ASSUME NetInv, fault = "none", TaskStale
    PROVE  NetInv'
<1>0. /\ NetTypes /\ SlotPart /\ HeardPart /\ ClosePart /\ OverPart /\ OpenPart
      /\ ShutPart /\ UserPart /\ WaitPart /\ OrderPart /\ PolledPart
      /\ NoConn \notin known /\ NoConn \notin waiting /\ NoConn \notin closed
      /\ pc # "idle" => alive /\ op \in known /\ op \in Conns /\ op # NoConn
      /\ pc = "idle" => op = NoConn
      /\ cnt \in Nat \ {0} /\ Conn \in Nat /\ 0 <= Conn /\ (Live => Conn \in Conns)
  BY NetNow
<1>1. /\ queTaskReq # << >> /\ Head(queTaskReq).cmd \in {"READ_OVER", "READ_WAIT"}
      /\ cnt # Head(queTaskReq).id /\ fault' = "twice"
      /\ UNCHANGED <<cnt, ctx, readRuntime, sendRuntime, slot, queTaskReq, io, npc,
                     seen, evOut, pc, op, isNew, local, inbox, known, waiting,
                     alive, closed, over, closedUnsent>>
  BY <1>0 DEF TaskStale, Task, Current, Fault, sockVars, netVars, boxVars, svcVars, ghosts,
     At, Return, Mine
<1>2. Head(queTaskReq).id \in closed
  <2>1. PICK c \in Conns, k \in Requests :
           k = Head(queTaskReq).cmd /\ c = Head(queTaskReq).id /\ Asked(k, c)
    BY <1>0, <1>1, Serving
  <2> QED BY <1>0, <1>1, <2>1 DEF OverPart
<1>3. NetTypes'
  BY <1>0, <1>1, <1>2, ConnsAre DEF NetTypes
<1>4. SlotPart'
  BY <1>0, <1>1, <1>2, ConnsAre DEF SlotPart, Asked, Mailed, Conn, Live
<1>5. HeardPart'
  BY <1>0, <1>1, <1>2, ConnsAre DEF HeardPart, Asked, Mailed, Conn, Live
<1>6. ClosePart'
  BY <1>0, <1>1, <1>2, ConnsAre DEF ClosePart, Asked, Mailed, Conn, Live
<1>7. OverPart'
  BY <1>0, <1>1, <1>2, ConnsAre DEF OverPart, Asked, Mailed, Conn, Live
<1>8. OpenPart'
  BY <1>0, <1>1, <1>2, ConnsAre DEF OpenPart, SvcReads, Reads, Overs, Asked, Mailed, Conn,
     Live
<1>9. ShutPart'
  BY <1>0, <1>1, <1>2, ConnsAre DEF ShutPart, Done, SvcReads, Reads, Asked, Mailed, Conn,
     Live
<1>10. UserPart'
  BY <1>0, <1>1, <1>2, ConnsAre DEF UserPart, Conn, Live
<1>11. WaitPart'
  BY <1>0, <1>1, <1>2, ConnsAre DEF WaitPart, Watched, Asked, Mailed, Conn, Live
<1>12. OrderPart'
  BY <1>0, <1>1, <1>2, ConnsAre DEF OrderPart, InHand, Mine, Conn
<1>13. PolledPart'
  BY <1>0, <1>1, <1>2, ConnsAre DEF PolledPart, Mine, Asked, Mailed, Conn, Live
<1> QED BY <1>3, <1>4, <1>5, <1>6, <1>7, <1>8, <1>9, <1>10, <1>11, <1>12, <1>13 DEF NetInv

(* The slots that were recycled are free again.                            *)
LEMMA SlotFreeOk ==
    ASSUME NetInv, fault = "none", SlotFree
    PROVE  NetInv'
<1>0. /\ NetTypes /\ SlotPart /\ HeardPart /\ ClosePart /\ OverPart /\ OpenPart
      /\ ShutPart /\ UserPart /\ WaitPart /\ OrderPart /\ PolledPart
      /\ NoConn \notin known /\ NoConn \notin waiting /\ NoConn \notin closed
      /\ pc # "idle" => alive /\ op \in known /\ op \in Conns /\ op # NoConn
      /\ pc = "idle" => op = NoConn
      /\ cnt \in Nat \ {0} /\ Conn \in Nat /\ 0 <= Conn /\ (Live => Conn \in Conns)
  BY NetNow
<1>1. /\ npc = "tasks" /\ npc' = "poll"
      /\ \/ slot = "wait" /\ slot' = "free"
         \/ slot' = slot
      /\ UNCHANGED <<cnt, ctx, readRuntime, sendRuntime, queTaskReq, io, seen,
                     evOut, pc, op, isNew, local, inbox, known, waiting, alive,
                     closed, over, closedUnsent, fault>>
  BY <1>0 DEF SlotFree, Task, Current, CloseFd, RecycleCtx, svcSide, sockVars, netVars,
     boxVars, svcVars, ghosts, At, Return, Mine
<1>2. NetTypes'
  BY <1>0, <1>1, ConnsAre DEF NetTypes
<1>3. SlotPart'
  BY <1>0, <1>1, ConnsAre DEF SlotPart, Asked, Mailed, Conn, Live
<1>4. HeardPart'
  BY <1>0, <1>1, ConnsAre DEF HeardPart, Asked, Mailed, Conn, Live
<1>5. ClosePart'
  BY <1>0, <1>1, ConnsAre DEF ClosePart, Asked, Mailed, Conn, Live
<1>6. OverPart'
  BY <1>0, <1>1, ConnsAre DEF OverPart, Asked, Mailed, Conn, Live
<1>7. OpenPart'
  BY <1>0, <1>1, ConnsAre DEF OpenPart, SvcReads, Reads, Overs, Asked, Mailed, Conn, Live
<1>8. ShutPart'
  BY <1>0, <1>1, ConnsAre DEF ShutPart, Done, SvcReads, Reads, Asked, Mailed, Conn, Live
<1>9. UserPart'
  BY <1>0, <1>1, ConnsAre DEF UserPart, Conn, Live
<1>10. WaitPart'
  BY <1>0, <1>1, ConnsAre DEF WaitPart, Watched, Asked, Mailed, Conn, Live
<1>11. OrderPart'
  BY <1>0, <1>1, ConnsAre DEF OrderPart, InHand, Mine, Conn
<1>12. PolledPart'
  BY <1>0, <1>1, ConnsAre DEF PolledPart, Mine, Asked, Mailed, Conn, Live
<1> QED BY <1>2, <1>3, <1>4, <1>5, <1>6, <1>7, <1>8, <1>9, <1>10, <1>11, <1>12 DEF NetInv

-----------------------------------------------------------------------------
(* What the poller reports, and the peer.                                  *)

(* There are requests: they come first.                                    *)
LEMMA NotifiedOk ==
    ASSUME NetInv, fault = "none", Notified
    PROVE  NetInv'
<1>0. /\ NetTypes /\ SlotPart /\ HeardPart /\ ClosePart /\ OverPart /\ OpenPart
      /\ ShutPart /\ UserPart /\ WaitPart /\ OrderPart /\ PolledPart
      /\ NoConn \notin known /\ NoConn \notin waiting /\ NoConn \notin closed
      /\ pc # "idle" => alive /\ op \in known /\ op \in Conns /\ op # NoConn
      /\ pc = "idle" => op = NoConn
      /\ cnt \in Nat \ {0} /\ Conn \in Nat /\ 0 <= Conn /\ (Live => Conn \in Conns)
  BY NetNow
<1>1. /\ npc = "poll" /\ npc' = "tasks"
      /\ UNCHANGED <<cnt, ctx, readRuntime, sendRuntime, slot, queTaskReq, io,
                     seen, evOut, pc, op, isNew, local, inbox, known, waiting,
                     alive, closed, over, closedUnsent, fault>>
  BY <1>0 DEF Notified, Task, Current, CloseFd, RecycleCtx, svcSide, sockVars, netVars,
     boxVars, svcVars, ghosts, At, Return, Mine
<1>2. NetTypes'
  BY <1>0, <1>1, ConnsAre DEF NetTypes
<1>3. SlotPart'
  BY <1>0, <1>1, ConnsAre DEF SlotPart, Asked, Mailed, Conn, Live
<1>4. HeardPart'
  BY <1>0, <1>1, ConnsAre DEF HeardPart, Asked, Mailed, Conn, Live
<1>5. ClosePart'
  BY <1>0, <1>1, ConnsAre DEF ClosePart, Asked, Mailed, Conn, Live
<1>6. OverPart'
  BY <1>0, <1>1, ConnsAre DEF OverPart, Asked, Mailed, Conn, Live
<1>7. OpenPart'
  BY <1>0, <1>1, ConnsAre DEF OpenPart, SvcReads, Reads, Overs, Asked, Mailed, Conn, Live
<1>8. ShutPart'
  BY <1>0, <1>1, ConnsAre DEF ShutPart, Done, SvcReads, Reads, Asked, Mailed, Conn, Live
<1>9. UserPart'
  BY <1>0, <1>1, ConnsAre DEF UserPart, Conn, Live
<1>10. WaitPart'
  BY <1>0, <1>1, ConnsAre DEF WaitPart, Watched, Asked, Mailed, Conn, Live
<1>11. OrderPart'
  BY <1>0, <1>1, ConnsAre DEF OrderPart, InHand, Mine, Conn
<1>12. PolledPart'
  BY <1>0, <1>1, ConnsAre DEF PolledPart, Mine, Asked, Mailed, Conn, Live
<1> QED BY <1>2, <1>3, <1>4, <1>5, <1>6, <1>7, <1>8, <1>9, <1>10, <1>11, <1>12 DEF NetInv

(* The listener: the next connection gets the slot.                        *)
LEMMA AcceptOk ==
    ASSUME NetInv, fault = "none", OnTcpAccept
    PROVE  NetInv'
<1>0. /\ NetTypes /\ SlotPart /\ HeardPart /\ ClosePart /\ OverPart /\ OpenPart
      /\ ShutPart /\ UserPart /\ WaitPart /\ OrderPart /\ PolledPart
      /\ NoConn \notin known /\ NoConn \notin waiting /\ NoConn \notin closed
      /\ pc # "idle" => alive /\ op \in known /\ op \in Conns /\ op # NoConn
      /\ pc = "idle" => op = NoConn
      /\ cnt \in Nat \ {0} /\ Conn \in Nat /\ 0 <= Conn /\ (Live => Conn \in Conns)
  BY NetNow
<1>1. /\ npc = "poll" /\ npc' = "tasks" /\ slot = "free" /\ slot' = "used" /\ cnt \in Conns
      /\ ctx' = [cnt4Net |-> cnt, closeCalled4Net |-> FALSE, readOver4Net |-> FALSE,
                 pollIn |-> FALSE, pollOut |-> FALSE, inPoll |-> FALSE, fd |-> cnt # NoConn]
      /\ readRuntime' = [sockClosed |-> FALSE, onReadWait |-> FALSE, hasSendReadOver |-> FALSE,
                         readable |-> 0, wait |-> FALSE]
      /\ sendRuntime' = [sockClosed |-> FALSE, closeCalled4Svc |-> FALSE, unSendBytes |-> 0,
                         queUnSend |-> << >>, sends |-> 0]
      /\ io' = [in |-> 0, recv |-> 0, peer |-> "open", wire |-> << >>]
      /\ queTaskReq' = Append(queTaskReq, [cmd |-> "TCP_ADD", id |-> cnt, used |-> 0])
      /\ UNCHANGED <<cnt, seen, evOut, pc, op, isNew, local, inbox, known, waiting,
                     alive, closed, over, closedUnsent, fault>>
  BY <1>0 DEF OnTcpAccept, NewCtx, NewRead, NewSend, NewIo, Enqueue, Req, Task, Current,
     CloseFd, RecycleCtx, svcSide, sockVars, netVars, boxVars, svcVars, ghosts, At, Return,
     Mine
<1>2. /\ cnt = Conn + 1 /\ ~Live /\ cnt # NoConn /\ "TCP_ADD" \in Requests /\ "TCP_ADD" # "READ_WAIT"
  BY <1>0, <1>1, ConnsAre DEF SlotPart, Live, Requests
<1>3. /\ ctx' \in CtxType /\ ctx'.cnt4Net = cnt /\ ~ctx'.closeCalled4Net /\ ~ctx'.readOver4Net
      /\ ~ctx'.pollIn /\ ~ctx'.pollOut /\ ~ctx'.inPoll /\ ctx'.fd /\ Conn' = cnt /\ Live'
  BY <1>1, <1>2 DEF CtxType, Conn, Live
<1>4. /\ readRuntime' \in ReadType /\ ~readRuntime'.sockClosed /\ ~readRuntime'.onReadWait
      /\ ~readRuntime'.hasSendReadOver /\ readRuntime'.readable = 0 /\ ~readRuntime'.wait
  BY <1>1 DEF ReadType
<1>5. /\ sendRuntime' \in SendType /\ ~sendRuntime'.sockClosed /\ ~sendRuntime'.closeCalled4Svc
      /\ sendRuntime'.unSendBytes = 0 /\ sendRuntime'.queUnSend = << >> /\ sendRuntime'.sends = 0
      /\ io' \in IoType /\ io'.wire = << >>
  BY <1>1 DEF SendType, IoType
<1>6. /\ queTaskReq' \in Seq(RequestType) /\ Grown(queTaskReq, queTaskReq', "TCP_ADD", cnt)
      /\ Short(queTaskReq)'
  BY <1>0, <1>1, <1>2, Asking DEF WaitPart
<1>7. /\ \A cmd, c : Has(queTaskReq', cmd, c) <=> Asked(cmd, c) \/ (cmd = "TCP_ADD" /\ c = cnt)
      /\ \A cmd, c : Single(queTaskReq, cmd, c) /\ ~(cmd = "TCP_ADD" /\ c = cnt /\ Asked("TCP_ADD", cnt))
                      => Single(queTaskReq', cmd, c)
      /\ \A cmd, first, c : NoneBehind(queTaskReq, cmd, first, c)
                             /\ ~(cmd = "TCP_ADD" /\ c = cnt /\ Asked(first, cnt))
                                => NoneBehind(queTaskReq', cmd, first, c)
  BY <1>6 DEF Grown, Asked
<1>8. /\ \A cmd \in Requests : ~Asked(cmd, cnt)
      /\ \A cmd \in Mails : ~Mailed(cmd, cnt)
      /\ cnt \notin known \union waiting \union closed \union over /\ op # cnt /\ pc # "readwait"
      /\ ~Asked("READ_WAIT", cnt) /\ ~Asked("READ_OVER", cnt) /\ ~Mailed("read_ret", cnt)
      /\ \A d \in Conns : ~Mailed("conn_in", d) /\ ~Asked("TCP_ADD", d)
  <2>1. ~(cnt <= Conn)
    BY <1>0, <1>2
  <2>2. /\ \A cmd \in Requests : ~Asked(cmd, cnt)
        /\ \A cmd \in Mails : ~Mailed(cmd, cnt)
        /\ cnt \notin known \union waiting \union closed \union over /\ op # cnt
    BY <1>0, <1>1, <2>1 DEF SlotPart
  <2>3. \A d \in Conns : ~Mailed("conn_in", d) /\ ~Asked("TCP_ADD", d)
    BY <1>0, <1>2 DEF HeardPart
  <2>4. pc # "readwait"
    BY <1>0, <2>2 DEF OverPart
  <2>5. "READ_WAIT" \in Requests /\ "READ_OVER" \in Requests /\ "read_ret" \in Mails
    BY DEF Requests, Mails
  <2> QED BY <2>2, <2>3, <2>4, <2>5
<1>9. \A k \in Nat : << >> \o << >> = Bytes(0, 0 - k)
  <2> SUFFICES ASSUME NEW k \in Nat
               PROVE  << >> \o << >> = Bytes(0, 0 - k)
    OBVIOUS
  <2>1. 1 .. (0 - k) = 1 .. 0
    OBVIOUS
  <2>2. Bytes(0, 0 - k) = Bytes(0, 0)
    BY <2>1 DEF Bytes
  <2>3. Bytes(0, 0) \in Seq(Int) /\ Len(Bytes(0, 0)) = 0
    BY BytesJoin
  <2>4. Bytes(0, 0) = << >>
    BY <2>3, EmptySeq
  <2>5. << >> \in Seq(Int)
    OBVIOUS
  <2>6. << >> \o << >> = << >>
    BY <2>5, ConcatEmptySeq
  <2> QED BY <2>2, <2>4, <2>6
<1>10. /\ npc = "poll" /\ npc' = "tasks" /\ slot = "free" /\ slot' = "used"
       /\ UNCHANGED <<cnt, seen, evOut, pc, op, isNew, local, inbox, known, waiting,
                      alive, closed, over, closedUnsent, fault>>
  BY <1>1
<1>11. NetTypes'
  BY <1>0, <1>2, <1>3, <1>4, <1>5, <1>7, <1>8, <1>10, ConnsAre, <1>6 DEF NetTypes
<1>12. SlotPart'

  <2>1. \A c \in Conns \union {NoConn} : c <= Conn => c <= Conn'
    BY <1>0, <1>2, <1>3, ConnsAre
  <2>2. \A c \in Conns, cmd \in Requests : Asked(cmd, c)' => c <= Conn'
    <3>1. \A c \in Conns, cmd \in Requests : Asked(cmd, c) => c <= Conn
      BY <1>0 DEF SlotPart
    <3>2. cnt <= Conn'
      BY <1>0, <1>3
    <3> QED BY <1>7, <2>1, <3>1, <3>2 DEF Asked
  <2>3. \A c \in Conns, cmd \in Mails : Mailed(cmd, c)' => c <= Conn'
    BY <1>0, <1>10, <2>1 DEF SlotPart, Mailed
  <2>4. \A c \in (known \union waiting \union closed \union over)' : c <= Conn'
    BY <1>0, <1>10, <2>1 DEF SlotPart, NetTypes
  <2>5. op' <= Conn'
    BY <1>0, <1>10, <2>1 DEF SlotPart, NetTypes
  <2>6. cnt' = Conn' /\ Live'
    BY <1>3, <1>10
  <2> QED BY <1>3, <1>10, <2>2, <2>3, <2>4, <2>5, <2>6 DEF SlotPart
<1>13. HeardPart'

  <2>1. \A cmd, c : Mailed(cmd, c)' <=> Mailed(cmd, c)
    BY <1>10 DEF Mailed
  <2>2. \A c \in Conns, cmd \in Requests \ {"TCP_ADD"} : Asked(cmd, c)' <=> Asked(cmd, c)
    BY <1>7 DEF Asked
  <2>3. \A c \in Conns : Asked("TCP_ADD", c)' =>
            c = cnt /\ \A cmd \in Requests \ {"TCP_ADD"} : ~Asked(cmd, c)'
    BY <1>7, <1>8, <2>2 DEF Asked
  <2>4. "conn_in" \in Mails /\ Single(queTaskReq', "TCP_ADD", cnt)
    <3>1. Single(queTaskReq, "TCP_ADD", cnt)
      BY <1>1, <1>8 DEF Single, Asked, Has
    <3> QED BY <1>1, <1>7, <1>8, <3>1 DEF Mails
  <2> QED BY <1>0, <1>3, <1>4, <1>8, <1>10, <2>1, <2>2, <2>3, <2>4 DEF HeardPart
<1>14. ClosePart'
  BY <1>0, <1>2, <1>3, <1>4, <1>5, <1>7, <1>8, <1>10, ConnsAre DEF ClosePart, Asked,
     Mailed, Conn, Live
<1>15. OverPart'
  BY <1>0, <1>2, <1>3, <1>4, <1>5, <1>7, <1>8, <1>10, ConnsAre DEF OverPart, Asked, Mailed,
     Conn, Live
<1>16. OpenPart'

  <2>1. \A cmd : Mailed(cmd, cnt)' <=> Mailed(cmd, cnt)
    BY <1>10 DEF Mailed
  <2>2. ~Asked("READ_WAIT", cnt)' /\ ~Asked("READ_OVER", cnt)'
    BY <1>7, <1>8, <1>10 DEF Asked
  <2>3. ~SvcReads'
    BY <1>3, <1>8, <1>10 DEF SvcReads
  <2>4. /\ Single(queTaskReq', "READ_WAIT", cnt) /\ Single(inbox', "read_ret", cnt)
        /\ Single(queTaskReq', "READ_OVER", cnt)
    BY <1>8, <1>10, <2>1, <2>2 DEF Single, Asked, Mailed, Has
  <2>5. ~Reads' /\ ~Overs'
    BY <1>3, <1>4, <1>8, <1>10, <2>1, <2>2, <2>3 DEF Reads, Overs
  <2> QED BY <1>3, <1>4, <1>8, <1>10, <2>1, <2>2, <2>3, <2>4, <2>5 DEF OpenPart
<1>17. ShutPart'
  BY <1>0, <1>2, <1>3, <1>4, <1>5, <1>7, <1>8, <1>10, ConnsAre DEF ShutPart, Done,
     SvcReads, Reads, Asked, Mailed, Conn, Live
<1>18. UserPart'
  BY <1>0, <1>2, <1>3, <1>4, <1>5, <1>7, <1>8, <1>10, ConnsAre DEF UserPart, Conn, Live
<1>19. WaitPart'
  BY <1>0, <1>2, <1>3, <1>4, <1>5, <1>7, <1>8, <1>10, ConnsAre, <1>6 DEF WaitPart, Watched,
     Asked, Mailed, Conn, Live
<1>20. OrderPart'

  <2>1. Next1(sendRuntime') = 0
    <3>1. sendRuntime'.sends = 0 /\ SendLen \in Nat
      BY <1>5, NetAssumption
    <3> QED BY <3>1 DEF Next1
  <2>2. PICK k \in Nat : k = InHand'
    BY <1>0, <1>1 DEF NetTypes, InHand
  <2>3. io'.wire \o sendRuntime'.queUnSend = Bytes(0, Next1(sendRuntime') - InHand')
    BY <1>5, <1>9, <2>1, <2>2
  <2>4. sendRuntime'.unSendBytes
           = Len(sendRuntime'.queUnSend) + (IF npc' = "subtract" THEN seen' ELSE 0)
    <3>1. Len(<< >>) = 0
      OBVIOUS
    <3> QED BY <1>1, <1>5, <3>1
  <2>5. pc' = "enqueue" => ~Mine'
    BY <1>1, <1>3, <1>8 DEF Mine
  <2> QED BY <1>1, <1>5, <2>3, <2>4, <2>5 DEF OrderPart, InHand
<1>21. PolledPart'
  BY <1>0, <1>2, <1>3, <1>4, <1>5, <1>7, <1>8, <1>10, ConnsAre DEF PolledPart, Mine, Asked,
     Mailed, Conn, Live
<1> QED BY <1>11, <1>12, <1>13, <1>14, <1>15, <1>16, <1>17, <1>18, <1>19, <1>20, <1>21
       DEF NetInv

(* The channel has bytes to read or has ended.                             *)
LEMMA PollReadOk ==
    ASSUME NetInv, fault = "none", PollRead
    PROVE  NetInv'
<1>0. /\ NetTypes /\ SlotPart /\ HeardPart /\ ClosePart /\ OverPart /\ OpenPart
      /\ ShutPart /\ UserPart /\ WaitPart /\ OrderPart /\ PolledPart
      /\ NoConn \notin known /\ NoConn \notin waiting /\ NoConn \notin closed
      /\ pc # "idle" => alive /\ op \in known /\ op \in Conns /\ op # NoConn
      /\ pc = "idle" => op = NoConn
      /\ cnt \in Nat \ {0} /\ Conn \in Nat /\ 0 <= Conn /\ (Live => Conn \in Conns)
  BY NetNow
<1>1. /\ npc = "poll" /\ ctx.inPoll /\ npc' = "fill" /\ evOut' = FALSE /\ seen' = 0
      /\ UNCHANGED <<cnt, ctx, readRuntime, sendRuntime, slot, queTaskReq, io, pc,
                     op, isNew, local, inbox, known, waiting, alive, closed, over,
                     closedUnsent, fault>>
  BY <1>0 DEF PollRead, ReadReady, Task, Current, CloseFd, RecycleCtx, svcSide, sockVars,
     netVars, boxVars, svcVars, ghosts, At, Return, Mine
<1>2. NetTypes'
  BY <1>0, <1>1, ConnsAre DEF NetTypes
<1>3. SlotPart'
  BY <1>0, <1>1, ConnsAre DEF SlotPart, Asked, Mailed, Conn, Live
<1>4. HeardPart'
  BY <1>0, <1>1, ConnsAre DEF HeardPart, Asked, Mailed, Conn, Live
<1>5. ClosePart'
  BY <1>0, <1>1, ConnsAre DEF ClosePart, Asked, Mailed, Conn, Live
<1>6. OverPart'
  BY <1>0, <1>1, ConnsAre DEF OverPart, Asked, Mailed, Conn, Live
<1>7. OpenPart'
  BY <1>0, <1>1, ConnsAre DEF OpenPart, SvcReads, Reads, Overs, Asked, Mailed, Conn, Live
<1>8. ShutPart'
  BY <1>0, <1>1, ConnsAre DEF ShutPart, Done, SvcReads, Reads, Asked, Mailed, Conn, Live
<1>9. UserPart'
  BY <1>0, <1>1, ConnsAre DEF UserPart, Conn, Live
<1>10. WaitPart'
  BY <1>0, <1>1, ConnsAre DEF WaitPart, Watched, Asked, Mailed, Conn, Live
<1>11. OrderPart'
  BY <1>0, <1>1, ConnsAre DEF OrderPart, InHand, Mine, Conn
<1>12. PolledPart'
  BY <1>0, <1>1, ConnsAre DEF PolledPart, Mine, Asked, Mailed, Conn, Live
<1> QED BY <1>2, <1>3, <1>4, <1>5, <1>6, <1>7, <1>8, <1>9, <1>10, <1>11, <1>12 DEF NetInv

(* The socket has room.                                                    *)
LEMMA PollSendOk ==
    ASSUME NetInv, fault = "none", PollSend
    PROVE  NetInv'
<1>0. /\ NetTypes /\ SlotPart /\ HeardPart /\ ClosePart /\ OverPart /\ OpenPart
      /\ ShutPart /\ UserPart /\ WaitPart /\ OrderPart /\ PolledPart
      /\ NoConn \notin known /\ NoConn \notin waiting /\ NoConn \notin closed
      /\ pc # "idle" => alive /\ op \in known /\ op \in Conns /\ op # NoConn
      /\ pc = "idle" => op = NoConn
      /\ cnt \in Nat \ {0} /\ Conn \in Nat /\ 0 <= Conn /\ (Live => Conn \in Conns)
  BY NetNow
<1>1. /\ npc = "poll" /\ ctx.inPoll /\ ctx.pollOut /\ npc' \in {"fill", "send"} /\ evOut' = TRUE /\ seen' = 0
      /\ UNCHANGED <<cnt, ctx, readRuntime, sendRuntime, slot, queTaskReq, io, pc,
                     op, isNew, local, inbox, known, waiting, alive, closed, over,
                     closedUnsent, fault>>
  BY <1>0 DEF PollSend, ReadReady, Task, Current, CloseFd, RecycleCtx, svcSide, sockVars,
     netVars, boxVars, svcVars, ghosts, At, Return, Mine
<1>2. NetTypes'
  BY <1>0, <1>1, ConnsAre DEF NetTypes
<1>3. SlotPart'
  BY <1>0, <1>1, ConnsAre DEF SlotPart, Asked, Mailed, Conn, Live
<1>4. HeardPart'
  BY <1>0, <1>1, ConnsAre DEF HeardPart, Asked, Mailed, Conn, Live
<1>5. ClosePart'
  BY <1>0, <1>1, ConnsAre DEF ClosePart, Asked, Mailed, Conn, Live
<1>6. OverPart'
  BY <1>0, <1>1, ConnsAre DEF OverPart, Asked, Mailed, Conn, Live
<1>7. OpenPart'
  BY <1>0, <1>1, ConnsAre DEF OpenPart, SvcReads, Reads, Overs, Asked, Mailed, Conn, Live
<1>8. ShutPart'
  BY <1>0, <1>1, ConnsAre DEF ShutPart, Done, SvcReads, Reads, Asked, Mailed, Conn, Live
<1>9. UserPart'
  BY <1>0, <1>1, ConnsAre DEF UserPart, Conn, Live
<1>10. WaitPart'
  BY <1>0, <1>1, ConnsAre DEF WaitPart, Watched, Asked, Mailed, Conn, Live
<1>11. OrderPart'
  BY <1>0, <1>1, ConnsAre DEF OrderPart, InHand, Mine, Conn
<1>12. PolledPart'
  BY <1>0, <1>1, ConnsAre DEF PolledPart, Mine, Asked, Mailed, Conn, Live
<1> QED BY <1>2, <1>3, <1>4, <1>5, <1>6, <1>7, <1>8, <1>9, <1>10, <1>11, <1>12 DEF NetInv

(* Bytes are received.                                                     *)
LEMMA FillOk ==
    ASSUME NetInv, fault = "none", Fill
    PROVE  NetInv'
<1>0. /\ NetTypes /\ SlotPart /\ HeardPart /\ ClosePart /\ OverPart /\ OpenPart
      /\ ShutPart /\ UserPart /\ WaitPart /\ OrderPart /\ PolledPart
      /\ NoConn \notin known /\ NoConn \notin waiting /\ NoConn \notin closed
      /\ pc # "idle" => alive /\ op \in known /\ op \in Conns /\ op # NoConn
      /\ pc = "idle" => op = NoConn
      /\ cnt \in Nat \ {0} /\ Conn \in Nat /\ 0 <= Conn /\ (Live => Conn \in Conns)
  BY NetNow
<1>1. /\ npc = "fill" /\ readRuntime' = [readRuntime EXCEPT !.readable = @ + io.in]
      /\ seen' = readRuntime.readable + io.in /\ io' = [io EXCEPT !.in = 0]
      /\ UNCHANGED <<cnt, ctx, sendRuntime, slot, queTaskReq, npc, evOut, pc, op,
                     isNew, local, inbox, known, waiting, alive, closed, over,
                     closedUnsent, fault>>
  BY <1>0 DEF Fill, Task, Current, CloseFd, RecycleCtx, svcSide, sockVars, netVars,
     boxVars, svcVars, ghosts, At, Return, Mine
<1>2. readRuntime.readable + io.in \in Nat
  BY <1>0 DEF NetTypes, ReadType, IoType
<1>3. /\ readRuntime' \in ReadType
      /\ readRuntime'.sockClosed = readRuntime.sockClosed
      /\ readRuntime'.onReadWait = readRuntime.onReadWait
      /\ readRuntime'.hasSendReadOver = readRuntime.hasSendReadOver
      /\ readRuntime'.readable = seen'
      /\ readRuntime'.wait = readRuntime.wait
  BY <1>0, <1>1, <1>2 DEF NetTypes, ReadType
<1>4. /\ io' \in IoType
      /\ io'.in = 0
      /\ io'.recv = io.recv
      /\ io'.peer = io.peer
      /\ io'.wire = io.wire
  BY <1>0, <1>1 DEF NetTypes, IoType
<1>5. NetTypes'
  BY <1>0, <1>1, <1>2, <1>3, <1>4, ConnsAre DEF NetTypes
<1>6. SlotPart'
  BY <1>0, <1>1, <1>2, <1>3, <1>4, ConnsAre DEF SlotPart, Asked, Mailed, Conn, Live
<1>7. HeardPart'
  BY <1>0, <1>1, <1>2, <1>3, <1>4, ConnsAre DEF HeardPart, Asked, Mailed, Conn, Live
<1>8. ClosePart'
  BY <1>0, <1>1, <1>2, <1>3, <1>4, ConnsAre DEF ClosePart, Asked, Mailed, Conn, Live
<1>9. OverPart'
  BY <1>0, <1>1, <1>2, <1>3, <1>4, ConnsAre DEF OverPart, Asked, Mailed, Conn, Live
<1>10. OpenPart'
  BY <1>0, <1>1, <1>2, <1>3, <1>4, ConnsAre DEF OpenPart, SvcReads, Reads, Overs, Asked,
     Mailed, Conn, Live
<1>11. ShutPart'
  BY <1>0, <1>1, <1>2, <1>3, <1>4, ConnsAre DEF ShutPart, Done, SvcReads, Reads, Asked,
     Mailed, Conn, Live
<1>12. UserPart'
  BY <1>0, <1>1, <1>2, <1>3, <1>4, ConnsAre DEF UserPart, Conn, Live
<1>13. WaitPart'
  BY <1>0, <1>1, <1>2, <1>3, <1>4, ConnsAre DEF WaitPart, Watched, Asked, Mailed, Conn, Live
<1>14. OrderPart'
  BY <1>0, <1>1, <1>2, <1>3, <1>4, ConnsAre DEF OrderPart, InHand, Mine, Conn
<1>15. PolledPart'
  BY <1>0, <1>1, <1>2, <1>3, <1>4, ConnsAre DEF PolledPart, Mine, Asked, Mailed, Conn, Live
<1> QED BY <1>5, <1>6, <1>7, <1>8, <1>9, <1>10, <1>11, <1>12, <1>13, <1>14, <1>15 DEF NetInv

(* All is received, and the read side was closed before.                   *)
LEMMA FillEndsOk ==
    ASSUME NetInv, fault = "none", FillEnd, readRuntime.sockClosed
    PROVE  NetInv'
<1>0. /\ NetTypes /\ SlotPart /\ HeardPart /\ ClosePart /\ OverPart /\ OpenPart
      /\ ShutPart /\ UserPart /\ WaitPart /\ OrderPart /\ PolledPart
      /\ NoConn \notin known /\ NoConn \notin waiting /\ NoConn \notin closed
      /\ pc # "idle" => alive /\ op \in known /\ op \in Conns /\ op # NoConn
      /\ pc = "idle" => op = NoConn
      /\ cnt \in Nat \ {0} /\ Conn \in Nat /\ 0 <= Conn /\ (Live => Conn \in Conns)
  BY NetNow
<1>1. /\ npc = "fill" /\ npc' = "trigger"
      /\ readRuntime' = [readRuntime EXCEPT !.sockClosed = TRUE]
      /\ ctx' = [ctx EXCEPT !.pollIn = ctx.pollIn] /\ sendRuntime' = sendRuntime
      /\ UNCHANGED <<cnt, slot, queTaskReq, io, seen, evOut, pc, op, isNew, local,
                     inbox, known, waiting, alive, closed, over, closedUnsent,
                     fault>>
  BY <1>0 DEF FillEnd, NetTypes, ReadType, CtxType, Task, Current, CloseFd, RecycleCtx,
     svcSide, sockVars, netVars, boxVars, svcVars, ghosts, At, Return, Mine
<1>2. /\ readRuntime' \in ReadType
      /\ readRuntime'.sockClosed
      /\ readRuntime'.onReadWait = readRuntime.onReadWait
      /\ readRuntime'.hasSendReadOver = readRuntime.hasSendReadOver
      /\ readRuntime'.readable = readRuntime.readable
      /\ readRuntime'.wait = readRuntime.wait
  BY <1>0, <1>1 DEF NetTypes, ReadType
<1>3. /\ ctx' \in CtxType
      /\ ctx'.cnt4Net = ctx.cnt4Net
      /\ ctx'.closeCalled4Net = ctx.closeCalled4Net
      /\ ctx'.readOver4Net = ctx.readOver4Net
      /\ ctx'.pollIn = ctx.pollIn
      /\ ctx'.pollOut = ctx.pollOut
      /\ ctx'.inPoll = ctx.inPoll
      /\ ctx'.fd = ctx.fd
  BY <1>0, <1>1 DEF NetTypes, CtxType
<1>4. NetTypes'
  BY <1>0, <1>1, <1>2, <1>3, ConnsAre DEF NetTypes
<1>5. SlotPart'
  BY <1>0, <1>1, <1>2, <1>3, ConnsAre DEF SlotPart, Asked, Mailed, Conn, Live
<1>6. HeardPart'
  BY <1>0, <1>1, <1>2, <1>3, ConnsAre DEF HeardPart, Asked, Mailed, Conn, Live
<1>7. ClosePart'
  BY <1>0, <1>1, <1>2, <1>3, ConnsAre DEF ClosePart, Asked, Mailed, Conn, Live
<1>8. OverPart'
  BY <1>0, <1>1, <1>2, <1>3, ConnsAre DEF OverPart, Asked, Mailed, Conn, Live
<1>9. OpenPart'
  BY <1>0, <1>1, <1>2, <1>3, ConnsAre DEF OpenPart, SvcReads, Reads, Overs, Asked, Mailed,
     Conn, Live
<1>10. ShutPart'
  BY <1>0, <1>1, <1>2, <1>3, ConnsAre DEF ShutPart, Done, SvcReads, Reads, Asked, Mailed,
     Conn, Live
<1>11. UserPart'
  BY <1>0, <1>1, <1>2, <1>3, ConnsAre DEF UserPart, Conn, Live
<1>12. WaitPart'
  BY <1>0, <1>1, <1>2, <1>3, ConnsAre DEF WaitPart, Watched, Asked, Mailed, Conn, Live
<1>13. OrderPart'
  BY <1>0, <1>1, <1>2, <1>3, ConnsAre DEF OrderPart, InHand, Mine, Conn, Next1
<1>14. PolledPart'
  BY <1>0, <1>1, <1>2, <1>3, ConnsAre DEF PolledPart, Mine, Asked, Mailed, Conn, Live
<1> QED BY <1>4, <1>5, <1>6, <1>7, <1>8, <1>9, <1>10, <1>11, <1>12, <1>13, <1>14 DEF NetInv

(* ... the peer has gone.                                                  *)
LEMMA FillBrokenOk ==
    ASSUME NetInv, fault = "none", FillEnd, ~readRuntime.sockClosed, io.peer = "gone"
    PROVE  NetInv'
<1>0. /\ NetTypes /\ SlotPart /\ HeardPart /\ ClosePart /\ OverPart /\ OpenPart
      /\ ShutPart /\ UserPart /\ WaitPart /\ OrderPart /\ PolledPart
      /\ NoConn \notin known /\ NoConn \notin waiting /\ NoConn \notin closed
      /\ pc # "idle" => alive /\ op \in known /\ op \in Conns /\ op # NoConn
      /\ pc = "idle" => op = NoConn
      /\ cnt \in Nat \ {0} /\ Conn \in Nat /\ 0 <= Conn /\ (Live => Conn \in Conns)
  BY NetNow
<1>1. /\ npc = "fill" /\ npc' = "trigger"
      /\ readRuntime' = [readRuntime EXCEPT !.sockClosed = TRUE]
      /\ ctx' = [ctx EXCEPT !.pollIn = FALSE, !.pollOut = FALSE, !.inPoll = FALSE]
      /\ sendRuntime' = [sendRuntime EXCEPT !.sockClosed = TRUE]
      /\ UNCHANGED <<cnt, slot, queTaskReq, io, seen, evOut, pc, op, isNew, local,
                     inbox, known, waiting, alive, closed, over, closedUnsent,
                     fault>>
  BY <1>0 DEF FillEnd, NetTypes, ReadType, CtxType, Task, Current, CloseFd, RecycleCtx,
     svcSide, sockVars, netVars, boxVars, svcVars, ghosts, At, Return, Mine
<1>2. /\ readRuntime' \in ReadType
      /\ readRuntime'.sockClosed
      /\ readRuntime'.onReadWait = readRuntime.onReadWait
      /\ readRuntime'.hasSendReadOver = readRuntime.hasSendReadOver
      /\ readRuntime'.readable = readRuntime.readable
      /\ readRuntime'.wait = readRuntime.wait
  BY <1>0, <1>1 DEF NetTypes, ReadType
<1>3. /\ ctx' \in CtxType
      /\ ctx'.cnt4Net = ctx.cnt4Net
      /\ ctx'.closeCalled4Net = ctx.closeCalled4Net
      /\ ctx'.readOver4Net = ctx.readOver4Net
      /\ ~ctx'.pollIn
      /\ ~ctx'.pollOut
      /\ ~ctx'.inPoll
      /\ ctx'.fd = ctx.fd
  BY <1>0, <1>1 DEF NetTypes, CtxType
<1>4. /\ sendRuntime' \in SendType
      /\ sendRuntime'.sockClosed
      /\ sendRuntime'.closeCalled4Svc = sendRuntime.closeCalled4Svc
      /\ sendRuntime'.unSendBytes = sendRuntime.unSendBytes
      /\ sendRuntime'.queUnSend = sendRuntime.queUnSend
      /\ sendRuntime'.sends = sendRuntime.sends
  BY <1>0, <1>1 DEF NetTypes, SendType
<1>5. NetTypes'
  BY <1>0, <1>1, <1>2, <1>3, <1>4, ConnsAre DEF NetTypes
<1>6. SlotPart'
  BY <1>0, <1>1, <1>2, <1>3, <1>4, ConnsAre DEF SlotPart, Asked, Mailed, Conn, Live
<1>7. HeardPart'
  BY <1>0, <1>1, <1>2, <1>3, <1>4, ConnsAre DEF HeardPart, Asked, Mailed, Conn, Live
<1>8. ClosePart'
  BY <1>0, <1>1, <1>2, <1>3, <1>4, ConnsAre DEF ClosePart, Asked, Mailed, Conn, Live
<1>9. OverPart'
  BY <1>0, <1>1, <1>2, <1>3, <1>4, ConnsAre DEF OverPart, Asked, Mailed, Conn, Live
<1>10. OpenPart'
  BY <1>0, <1>1, <1>2, <1>3, <1>4, ConnsAre DEF OpenPart, SvcReads, Reads, Overs, Asked,
     Mailed, Conn, Live
<1>11. ShutPart'
  BY <1>0, <1>1, <1>2, <1>3, <1>4, ConnsAre DEF ShutPart, Done, SvcReads, Reads, Asked,
     Mailed, Conn, Live
<1>12. UserPart'
  BY <1>0, <1>1, <1>2, <1>3, <1>4, ConnsAre DEF UserPart, Conn, Live
<1>13. WaitPart'
  BY <1>0, <1>1, <1>2, <1>3, <1>4, ConnsAre DEF WaitPart, Watched, Asked, Mailed, Conn, Live
<1>14. OrderPart'
  BY <1>0, <1>1, <1>2, <1>3, <1>4, ConnsAre DEF OrderPart, InHand, Mine, Conn, Next1
<1>15. PolledPart'
  BY <1>0, <1>1, <1>2, <1>3, <1>4, ConnsAre DEF PolledPart, Mine, Asked, Mailed, Conn, Live
<1> QED BY <1>5, <1>6, <1>7, <1>8, <1>9, <1>10, <1>11, <1>12, <1>13, <1>14, <1>15 DEF NetInv

(* ... the peer sends no more.                                             *)
LEMMA FillHalfOk ==
    ASSUME NetInv, fault = "none", FillEnd, ~readRuntime.sockClosed, io.peer = "half"
    PROVE  NetInv'
<1>0. /\ NetTypes /\ SlotPart /\ HeardPart /\ ClosePart /\ OverPart /\ OpenPart
      /\ ShutPart /\ UserPart /\ WaitPart /\ OrderPart /\ PolledPart
      /\ NoConn \notin known /\ NoConn \notin waiting /\ NoConn \notin closed
      /\ pc # "idle" => alive /\ op \in known /\ op \in Conns /\ op # NoConn
      /\ pc = "idle" => op = NoConn
      /\ cnt \in Nat \ {0} /\ Conn \in Nat /\ 0 <= Conn /\ (Live => Conn \in Conns)
  BY NetNow
<1>1. /\ npc = "fill" /\ npc' = "trigger"
      /\ readRuntime' = [readRuntime EXCEPT !.sockClosed = TRUE]
      /\ ctx' = [ctx EXCEPT !.pollIn = FALSE] /\ sendRuntime' = sendRuntime
      /\ UNCHANGED <<cnt, slot, queTaskReq, io, seen, evOut, pc, op, isNew, local,
                     inbox, known, waiting, alive, closed, over, closedUnsent,
                     fault>>
  BY <1>0 DEF FillEnd, NetTypes, ReadType, CtxType, Task, Current, CloseFd, RecycleCtx,
     svcSide, sockVars, netVars, boxVars, svcVars, ghosts, At, Return, Mine
<1>2. /\ readRuntime' \in ReadType
      /\ readRuntime'.sockClosed
      /\ readRuntime'.onReadWait = readRuntime.onReadWait
      /\ readRuntime'.hasSendReadOver = readRuntime.hasSendReadOver
      /\ readRuntime'.readable = readRuntime.readable
      /\ readRuntime'.wait = readRuntime.wait
  BY <1>0, <1>1 DEF NetTypes, ReadType
<1>3. /\ ctx' \in CtxType
      /\ ctx'.cnt4Net = ctx.cnt4Net
      /\ ctx'.closeCalled4Net = ctx.closeCalled4Net
      /\ ctx'.readOver4Net = ctx.readOver4Net
      /\ ~ctx'.pollIn
      /\ ctx'.pollOut = ctx.pollOut
      /\ ctx'.inPoll = ctx.inPoll
      /\ ctx'.fd = ctx.fd
  BY <1>0, <1>1 DEF NetTypes, CtxType
<1>4. NetTypes'
  BY <1>0, <1>1, <1>2, <1>3, ConnsAre DEF NetTypes
<1>5. SlotPart'
  BY <1>0, <1>1, <1>2, <1>3, ConnsAre DEF SlotPart, Asked, Mailed, Conn, Live
<1>6. HeardPart'
  BY <1>0, <1>1, <1>2, <1>3, ConnsAre DEF HeardPart, Asked, Mailed, Conn, Live
<1>7. ClosePart'
  BY <1>0, <1>1, <1>2, <1>3, ConnsAre DEF ClosePart, Asked, Mailed, Conn, Live
<1>8. OverPart'
  BY <1>0, <1>1, <1>2, <1>3, ConnsAre DEF OverPart, Asked, Mailed, Conn, Live
<1>9. OpenPart'
  BY <1>0, <1>1, <1>2, <1>3, ConnsAre DEF OpenPart, SvcReads, Reads, Overs, Asked, Mailed,
     Conn, Live
<1>10. ShutPart'
  BY <1>0, <1>1, <1>2, <1>3, ConnsAre DEF ShutPart, Done, SvcReads, Reads, Asked, Mailed,
     Conn, Live
<1>11. UserPart'
  BY <1>0, <1>1, <1>2, <1>3, ConnsAre DEF UserPart, Conn, Live
<1>12. WaitPart'
  BY <1>0, <1>1, <1>2, <1>3, ConnsAre DEF WaitPart, Watched, Asked, Mailed, Conn, Live
<1>13. OrderPart'
  BY <1>0, <1>1, <1>2, <1>3, ConnsAre DEF OrderPart, InHand, Mine, Conn, Next1
<1>14. PolledPart'
  BY <1>0, <1>1, <1>2, <1>3, ConnsAre DEF PolledPart, Mine, Asked, Mailed, Conn, Live
<1> QED BY <1>4, <1>5, <1>6, <1>7, <1>8, <1>9, <1>10, <1>11, <1>12, <1>13, <1>14 DEF NetInv

(* ... the peer may send more.                                             *)
LEMMA FillOpenOk ==
    ASSUME NetInv, fault = "none", FillEnd, ~readRuntime.sockClosed, io.peer = "open"
    PROVE  NetInv'
<1>0. /\ NetTypes /\ SlotPart /\ HeardPart /\ ClosePart /\ OverPart /\ OpenPart
      /\ ShutPart /\ UserPart /\ WaitPart /\ OrderPart /\ PolledPart
      /\ NoConn \notin known /\ NoConn \notin waiting /\ NoConn \notin closed
      /\ pc # "idle" => alive /\ op \in known /\ op \in Conns /\ op # NoConn
      /\ pc = "idle" => op = NoConn
      /\ cnt \in Nat \ {0} /\ Conn \in Nat /\ 0 <= Conn /\ (Live => Conn \in Conns)
  BY NetNow
<1>1. /\ npc = "fill" /\ npc' = "trigger"
      /\ readRuntime' = [readRuntime EXCEPT !.sockClosed = FALSE]
      /\ ctx' = [ctx EXCEPT !.pollIn = ctx.pollIn] /\ sendRuntime' = sendRuntime
      /\ UNCHANGED <<cnt, slot, queTaskReq, io, seen, evOut, pc, op, isNew, local,
                     inbox, known, waiting, alive, closed, over, closedUnsent,
                     fault>>
  BY <1>0 DEF FillEnd, NetTypes, ReadType, CtxType, Task, Current, CloseFd, RecycleCtx,
     svcSide, sockVars, netVars, boxVars, svcVars, ghosts, At, Return, Mine
<1>2. /\ readRuntime' \in ReadType
      /\ readRuntime'.sockClosed = readRuntime.sockClosed
      /\ readRuntime'.onReadWait = readRuntime.onReadWait
      /\ readRuntime'.hasSendReadOver = readRuntime.hasSendReadOver
      /\ readRuntime'.readable = readRuntime.readable
      /\ readRuntime'.wait = readRuntime.wait
  BY <1>0, <1>1 DEF NetTypes, ReadType
<1>3. /\ ctx' \in CtxType
      /\ ctx'.cnt4Net = ctx.cnt4Net
      /\ ctx'.closeCalled4Net = ctx.closeCalled4Net
      /\ ctx'.readOver4Net = ctx.readOver4Net
      /\ ctx'.pollIn = ctx.pollIn
      /\ ctx'.pollOut = ctx.pollOut
      /\ ctx'.inPoll = ctx.inPoll
      /\ ctx'.fd = ctx.fd
  BY <1>0, <1>1 DEF NetTypes, CtxType
<1>4. NetTypes'
  BY <1>0, <1>1, <1>2, <1>3, ConnsAre DEF NetTypes
<1>5. SlotPart'
  BY <1>0, <1>1, <1>2, <1>3, ConnsAre DEF SlotPart, Asked, Mailed, Conn, Live
<1>6. HeardPart'
  BY <1>0, <1>1, <1>2, <1>3, ConnsAre DEF HeardPart, Asked, Mailed, Conn, Live
<1>7. ClosePart'
  BY <1>0, <1>1, <1>2, <1>3, ConnsAre DEF ClosePart, Asked, Mailed, Conn, Live
<1>8. OverPart'
  BY <1>0, <1>1, <1>2, <1>3, ConnsAre DEF OverPart, Asked, Mailed, Conn, Live
<1>9. OpenPart'
  BY <1>0, <1>1, <1>2, <1>3, ConnsAre DEF OpenPart, SvcReads, Reads, Overs, Asked, Mailed,
     Conn, Live
<1>10. ShutPart'
  BY <1>0, <1>1, <1>2, <1>3, ConnsAre DEF ShutPart, Done, SvcReads, Reads, Asked, Mailed,
     Conn, Live
<1>11. UserPart'
  BY <1>0, <1>1, <1>2, <1>3, ConnsAre DEF UserPart, Conn, Live
<1>12. WaitPart'
  BY <1>0, <1>1, <1>2, <1>3, ConnsAre DEF WaitPart, Watched, Asked, Mailed, Conn, Live
<1>13. OrderPart'
  BY <1>0, <1>1, <1>2, <1>3, ConnsAre DEF OrderPart, InHand, Mine, Conn, Next1
<1>14. PolledPart'
  BY <1>0, <1>1, <1>2, <1>3, ConnsAre DEF PolledPart, Mine, Asked, Mailed, Conn, Live
<1> QED BY <1>4, <1>5, <1>6, <1>7, <1>8, <1>9, <1>10, <1>11, <1>12, <1>13, <1>14 DEF NetInv

(* The read that waits has its bytes, or the end: it is told.              *)
LEMMA TriggerTellsOk ==
    ASSUME NetInv, fault = "none", Trigger, readRuntime.wait, Enough(seen) \/ readRuntime.sockClosed, alive
    PROVE  NetInv'
<1>0. /\ NetTypes /\ SlotPart /\ HeardPart /\ ClosePart /\ OverPart /\ OpenPart
      /\ ShutPart /\ UserPart /\ WaitPart /\ OrderPart /\ PolledPart
      /\ NoConn \notin known /\ NoConn \notin waiting /\ NoConn \notin closed
      /\ pc # "idle" => alive /\ op \in known /\ op \in Conns /\ op # NoConn
      /\ pc = "idle" => op = NoConn
      /\ cnt \in Nat \ {0} /\ Conn \in Nat /\ 0 <= Conn /\ (Live => Conn \in Conns)
  BY NetNow
<1>1. /\ npc = "trigger" /\ ((npc' = "send" /\ evOut) \/ (npc' = "tasks" /\ ~evOut)) /\ seen' = 0 /\ evOut' = FALSE
      /\ readRuntime.wait /\ alive
      /\ ctx' = [ctx EXCEPT !.pollIn = @ /\ ~Pausing]
      /\ readRuntime' = [readRuntime EXCEPT !.wait = FALSE]
      /\ inbox' = Append(inbox, Msg("read_ret", ctx.cnt4Net))
      /\ UNCHANGED <<cnt, sendRuntime, slot, queTaskReq, io, pc, op, isNew, local,
                     known, waiting, alive, closed, over, closedUnsent, fault>>
  BY <1>0 DEF Pausing, Trigger, AfterRead, NotifyReader, Req, Task, Current, CloseFd,
     RecycleCtx, svcSide, sockVars, netVars, boxVars, svcVars, ghosts, At, Return, Mine
<1>2. /\ Conn \in Conns /\ Reads /\ ~Done /\ (alive => Conn \in known) /\ (~Live => Conn \in closed)
      /\ Live /\ ctx.closeCalled4Net => closedUnsent
      /\ ~Asked("TCP_ADD", Conn)
      /\ Live /\ Conn \notin closed =>
            /\ ~SvcReads /\ ~Mailed("read_ret", Conn) /\ ~Asked("READ_WAIT", Conn)
            /\ ~Asked("READ_OVER", Conn) /\ ~ctx.readOver4Net
  <2>1. Reads /\ ~Done /\ (~Live => Conn \in closed)
    BY <1>0, <1>1 DEF Reads, Done, OverPart
  <2>2. Conn \in Conns
    BY <1>0, <2>1 DEF NetTypes
  <2>3. (alive => Conn \in known) /\ ~Asked("TCP_ADD", Conn)
    BY <1>0, <1>1, <2>2 DEF HeardPart
  <2>4. Live /\ ctx.closeCalled4Net => closedUnsent
    BY <1>0, <1>1 DEF ShutPart
  <2>5. Live /\ Conn \notin closed =>
            /\ ~SvcReads /\ ~Mailed("read_ret", Conn) /\ ~Asked("READ_WAIT", Conn)
            /\ ~Asked("READ_OVER", Conn) /\ ~ctx.readOver4Net
    BY <1>0, <1>1, <2>1 DEF OpenPart, Overs
  <2> QED BY <2>1, <2>2, <2>3, <2>4, <2>5
<1>3. /\ ctx' \in CtxType
      /\ ctx'.cnt4Net = ctx.cnt4Net
      /\ ctx'.closeCalled4Net = ctx.closeCalled4Net
      /\ ctx'.readOver4Net = ctx.readOver4Net
      /\ ctx'.pollOut = ctx.pollOut
      /\ ctx'.inPoll = ctx.inPoll
      /\ ctx'.fd = ctx.fd
  BY <1>0, <1>1 DEF NetTypes, CtxType
<1>4. /\ readRuntime' \in ReadType
      /\ readRuntime'.sockClosed = readRuntime.sockClosed
      /\ readRuntime'.onReadWait = readRuntime.onReadWait
      /\ readRuntime'.hasSendReadOver = readRuntime.hasSendReadOver
      /\ readRuntime'.readable = readRuntime.readable
      /\ ~readRuntime'.wait
  BY <1>0, <1>1 DEF NetTypes, ReadType
<1>5. /\ inbox' \in Seq(MailType) /\ Grown(inbox, inbox', "read_ret", Conn)
  <2>1. PICK d \in Conns : d = Conn
    BY <1>2
  <2>2. inbox' = Append(inbox, Msg("read_ret", d)) /\ "read_ret" \in Mails
    BY <1>1, <2>1 DEF Conn, Mails
  <2> QED BY <1>0, <2>1, <2>2, Telling
<1>6. /\ \A cmd, d : Has(inbox', cmd, d) <=> Mailed(cmd, d) \/ (cmd = "read_ret" /\ d = Conn)
      /\ \A cmd, d : Single(inbox, cmd, d) /\ ~(cmd = "read_ret" /\ d = Conn /\ Mailed("read_ret", Conn))
                      => Single(inbox', cmd, d)
  BY <1>5 DEF Grown, Mailed
<1>7. NetTypes'
  BY <1>0, <1>1, <1>2, <1>3, <1>4, <1>5, <1>6, ConnsAre DEF NetTypes
<1>8. SlotPart'
  BY <1>0, <1>1, <1>2, <1>3, <1>4, <1>5, <1>6, ConnsAre DEF SlotPart, Asked, Mailed, Conn,
     Live
<1>9. HeardPart'
  BY <1>0, <1>1, <1>2, <1>3, <1>4, <1>5, <1>6, ConnsAre DEF HeardPart, Asked, Mailed, Conn,
     Live
<1>10. ClosePart'
  BY <1>0, <1>1, <1>2, <1>3, <1>4, <1>5, <1>6, ConnsAre DEF ClosePart, Asked, Mailed, Conn,
     Live
<1>11. OverPart'
  BY <1>0, <1>1, <1>2, <1>3, <1>4, <1>5, <1>6, ConnsAre DEF OverPart, Asked, Mailed, Conn,
     Live
<1>12. OpenPart'
  BY <1>0, <1>1, <1>2, <1>3, <1>4, <1>5, <1>6, ConnsAre DEF OpenPart, SvcReads, Reads,
     Overs, Asked, Mailed, Conn, Live
<1>13. ShutPart'
  BY <1>0, <1>1, <1>2, <1>3, <1>4, <1>5, <1>6, ConnsAre DEF ShutPart, Done, SvcReads,
     Reads, Asked, Mailed, Conn, Live
<1>14. UserPart'
  BY <1>0, <1>1, <1>2, <1>3, <1>4, <1>5, <1>6, ConnsAre DEF UserPart, Conn, Live
<1>15. WaitPart'
  BY <1>0, <1>1, <1>2, <1>3, <1>4, <1>5, <1>6, ConnsAre DEF WaitPart, Watched, Asked,
     Mailed, Conn, Live
<1>16. OrderPart'
  BY <1>0, <1>1, <1>2, <1>3, <1>4, <1>5, <1>6, ConnsAre DEF OrderPart, InHand, Mine, Conn
<1>17. PolledPart'
  BY <1>0, <1>1, <1>2, <1>3, <1>4, <1>5, <1>6, ConnsAre DEF PolledPart, Mine, Asked,
     Mailed, Conn, Live
<1> QED BY <1>7, <1>8, <1>9, <1>10, <1>11, <1>12, <1>13, <1>14, <1>15, <1>16, <1>17
       DEF NetInv

(* ... and its service has gone.                                           *)
LEMMA TriggerDropsOk ==
    ASSUME NetInv, fault = "none", Trigger, readRuntime.wait, Enough(seen) \/ readRuntime.sockClosed, ~alive
    PROVE  NetInv'
<1>0. /\ NetTypes /\ SlotPart /\ HeardPart /\ ClosePart /\ OverPart /\ OpenPart
      /\ ShutPart /\ UserPart /\ WaitPart /\ OrderPart /\ PolledPart
      /\ NoConn \notin known /\ NoConn \notin waiting /\ NoConn \notin closed
      /\ pc # "idle" => alive /\ op \in known /\ op \in Conns /\ op # NoConn
      /\ pc = "idle" => op = NoConn
      /\ cnt \in Nat \ {0} /\ Conn \in Nat /\ 0 <= Conn /\ (Live => Conn \in Conns)
  BY NetNow
<1>1. /\ npc = "trigger" /\ ((npc' = "send" /\ evOut) \/ (npc' = "tasks" /\ ~evOut)) /\ seen' = 0 /\ evOut' = FALSE
      /\ readRuntime.wait /\ ~alive
      /\ ctx' = [ctx EXCEPT !.pollIn = @ /\ ~Pausing]
      /\ readRuntime' = [readRuntime EXCEPT !.wait = FALSE]
      /\ over' = over \union {ctx.cnt4Net}
      /\ queTaskReq' = Append(queTaskReq, [cmd |-> "READ_OVER", id |-> ctx.cnt4Net, used |-> 0])
      /\ UNCHANGED <<cnt, sendRuntime, slot, io, pc, op, isNew, local, inbox,
                     known, waiting, alive, closed, closedUnsent, fault>>
  BY <1>0 DEF Pausing, Trigger, AfterRead, NotifyReader, Req, Task, Current, CloseFd,
     RecycleCtx, svcSide, sockVars, netVars, boxVars, svcVars, ghosts, At, Return, Mine
<1>2. /\ Conn \in Conns /\ Reads /\ ~Done /\ (alive => Conn \in known) /\ (~Live => Conn \in closed)
      /\ Live /\ ctx.closeCalled4Net => closedUnsent
      /\ ~Asked("TCP_ADD", Conn)
      /\ Live /\ Conn \notin closed =>
            /\ ~SvcReads /\ ~Mailed("read_ret", Conn) /\ ~Asked("READ_WAIT", Conn)
            /\ ~Asked("READ_OVER", Conn) /\ ~ctx.readOver4Net
  <2>1. Reads /\ ~Done /\ (~Live => Conn \in closed)
    BY <1>0, <1>1 DEF Reads, Done, OverPart
  <2>2. Conn \in Conns
    BY <1>0, <2>1 DEF NetTypes
  <2>3. (alive => Conn \in known) /\ ~Asked("TCP_ADD", Conn)
    BY <1>0, <1>1, <2>2 DEF HeardPart
  <2>4. Live /\ ctx.closeCalled4Net => closedUnsent
    BY <1>0, <1>1 DEF ShutPart
  <2>5. Live /\ Conn \notin closed =>
            /\ ~SvcReads /\ ~Mailed("read_ret", Conn) /\ ~Asked("READ_WAIT", Conn)
            /\ ~Asked("READ_OVER", Conn) /\ ~ctx.readOver4Net
    BY <1>0, <1>1, <2>1 DEF OpenPart, Overs
  <2> QED BY <2>1, <2>2, <2>3, <2>4, <2>5
<1>3. /\ ctx' \in CtxType
      /\ ctx'.cnt4Net = ctx.cnt4Net
      /\ ctx'.closeCalled4Net = ctx.closeCalled4Net
      /\ ctx'.readOver4Net = ctx.readOver4Net
      /\ ctx'.pollOut = ctx.pollOut
      /\ ctx'.inPoll = ctx.inPoll
      /\ ctx'.fd = ctx.fd
  BY <1>0, <1>1 DEF NetTypes, CtxType
<1>4. /\ readRuntime' \in ReadType
      /\ readRuntime'.sockClosed = readRuntime.sockClosed
      /\ readRuntime'.onReadWait = readRuntime.onReadWait
      /\ readRuntime'.hasSendReadOver = readRuntime.hasSendReadOver
      /\ readRuntime'.readable = readRuntime.readable
      /\ ~readRuntime'.wait
  BY <1>0, <1>1 DEF NetTypes, ReadType
<1>5. /\ queTaskReq' \in Seq(RequestType) /\ Grown(queTaskReq, queTaskReq', "READ_OVER", Conn)
      /\ Short(queTaskReq)'
  <2>1. PICK d \in Conns : d = Conn
    BY <1>2
  <2>2. /\ queTaskReq' = Append(queTaskReq, [cmd |-> "READ_OVER", id |-> d, used |-> 0])
        /\ "READ_OVER" \in Requests /\ "READ_OVER" # "READ_WAIT" /\ 0 \in Nat
    BY <1>1, <2>1 DEF Conn, Requests
  <2> QED BY <1>0, <2>1, <2>2, Asking DEF WaitPart
<1>6. /\ \A cmd, c : Has(queTaskReq', cmd, c) <=> Asked(cmd, c) \/ (cmd = "READ_OVER" /\ c = Conn)
      /\ \A cmd, c : Single(queTaskReq, cmd, c) /\ ~(cmd = "READ_OVER" /\ c = Conn /\ Asked("READ_OVER", Conn))
                      => Single(queTaskReq', cmd, c)
      /\ \A cmd, first, c : NoneBehind(queTaskReq, cmd, first, c)
                             /\ ~(cmd = "READ_OVER" /\ c = Conn /\ Asked(first, Conn))
                                => NoneBehind(queTaskReq', cmd, first, c)
  BY <1>5 DEF Grown, Asked
<1>7. /\ pc = "idle" /\ waiting = {} /\ known = {} /\ inbox = << >> /\ \A cmd, d : ~Mailed(cmd, d)
      /\ over' = over \union {Conn}
  BY <1>0, <1>1, EmptyHas DEF HeardPart, Mailed, Conn
<1>8. NetTypes'
  BY <1>0, <1>1, <1>2, <1>3, <1>4, <1>5, <1>6, <1>7, ConnsAre DEF NetTypes
<1>9. SlotPart'
  BY <1>0, <1>1, <1>2, <1>3, <1>4, <1>5, <1>6, <1>7, ConnsAre DEF SlotPart, Asked, Mailed,
     Conn, Live
<1>10. HeardPart'
  BY <1>0, <1>1, <1>2, <1>3, <1>4, <1>5, <1>6, <1>7, ConnsAre DEF HeardPart, Asked, Mailed,
     Conn, Live
<1>11. ClosePart'
  BY <1>0, <1>1, <1>2, <1>3, <1>4, <1>5, <1>6, <1>7, ConnsAre DEF ClosePart, Asked, Mailed,
     Conn, Live
<1>12. OverPart'
  BY <1>0, <1>1, <1>2, <1>3, <1>4, <1>5, <1>6, <1>7, ConnsAre DEF OverPart, Asked, Mailed,
     Conn, Live
<1>13. OpenPart'
  BY <1>0, <1>1, <1>2, <1>3, <1>4, <1>5, <1>6, <1>7, ConnsAre DEF OpenPart, SvcReads,
     Reads, Overs, Asked, Mailed, Conn, Live
<1>14. ShutPart'
  BY <1>0, <1>1, <1>2, <1>3, <1>4, <1>5, <1>6, <1>7, ConnsAre DEF ShutPart, Done, SvcReads,
     Reads, Asked, Mailed, Conn, Live
<1>15. UserPart'
  BY <1>0, <1>1, <1>2, <1>3, <1>4, <1>5, <1>6, <1>7, ConnsAre DEF UserPart, Conn, Live
<1>16. WaitPart'
  BY <1>0, <1>1, <1>2, <1>3, <1>4, <1>5, <1>6, <1>7, ConnsAre DEF WaitPart, Watched, Asked,
     Mailed, Conn, Live
<1>17. OrderPart'
  BY <1>0, <1>1, <1>2, <1>3, <1>4, <1>5, <1>6, <1>7, ConnsAre DEF OrderPart, InHand, Mine,
     Conn
<1>18. PolledPart'
  BY <1>0, <1>1, <1>2, <1>3, <1>4, <1>5, <1>6, <1>7, ConnsAre DEF PolledPart, Mine, Asked,
     Mailed, Conn, Live
<1> QED BY <1>8, <1>9, <1>10, <1>11, <1>12, <1>13, <1>14, <1>15, <1>16, <1>17, <1>18
       DEF NetInv

(* No read waits, or it waits for more.                                    *)
LEMMA TriggerWaitsOk ==
    ASSUME NetInv, fault = "none", Trigger, ~(readRuntime.wait /\ (Enough(seen) \/ readRuntime.sockClosed))
    PROVE  NetInv'
<1>0. /\ NetTypes /\ SlotPart /\ HeardPart /\ ClosePart /\ OverPart /\ OpenPart
      /\ ShutPart /\ UserPart /\ WaitPart /\ OrderPart /\ PolledPart
      /\ NoConn \notin known /\ NoConn \notin waiting /\ NoConn \notin closed
      /\ pc # "idle" => alive /\ op \in known /\ op \in Conns /\ op # NoConn
      /\ pc = "idle" => op = NoConn
      /\ cnt \in Nat \ {0} /\ Conn \in Nat /\ 0 <= Conn /\ (Live => Conn \in Conns)
  BY NetNow
<1>1. /\ npc = "trigger" /\ ((npc' = "send" /\ evOut) \/ (npc' = "tasks" /\ ~evOut)) /\ seen' = 0 /\ evOut' = FALSE
      /\ ctx' = [ctx EXCEPT !.pollIn = @ /\ ~Pausing] /\ (readRuntime.wait => ~Pausing)
      /\ readRuntime.wait => ~readRuntime.sockClosed /\ ~Enough(seen)
      /\ UNCHANGED <<cnt, readRuntime, sendRuntime, slot, queTaskReq, io, pc, op,
                     isNew, local, inbox, known, waiting, alive, closed, over,
                     closedUnsent, fault>>
  BY <1>0 DEF Pausing, Trigger, AfterRead, NotifyReader, Req, Task, Current, CloseFd,
     RecycleCtx, svcSide, sockVars, netVars, boxVars, svcVars, ghosts, At, Return, Mine
<1>2. /\ ctx' \in CtxType
      /\ ctx'.cnt4Net = ctx.cnt4Net
      /\ ctx'.closeCalled4Net = ctx.closeCalled4Net
      /\ ctx'.readOver4Net = ctx.readOver4Net
      /\ ctx'.pollIn <=> ctx.pollIn /\ ~Pausing
      /\ ctx'.pollOut = ctx.pollOut
      /\ ctx'.inPoll = ctx.inPoll
      /\ ctx'.fd = ctx.fd
  BY <1>0, <1>1 DEF NetTypes, CtxType
<1>3. NetTypes'
  BY <1>0, <1>1, <1>2, ConnsAre DEF NetTypes
<1>4. SlotPart'
  BY <1>0, <1>1, <1>2, ConnsAre DEF SlotPart, Asked, Mailed, Conn, Live
<1>5. HeardPart'
  BY <1>0, <1>1, <1>2, ConnsAre DEF HeardPart, Asked, Mailed, Conn, Live
<1>6. ClosePart'
  BY <1>0, <1>1, <1>2, ConnsAre DEF ClosePart, Asked, Mailed, Conn, Live
<1>7. OverPart'
  BY <1>0, <1>1, <1>2, ConnsAre DEF OverPart, Asked, Mailed, Conn, Live
<1>8. OpenPart'
  BY <1>0, <1>1, <1>2, ConnsAre DEF OpenPart, SvcReads, Reads, Overs, Asked, Mailed, Conn,
     Live
<1>9. ShutPart'
  BY <1>0, <1>1, <1>2, ConnsAre DEF ShutPart, Done, SvcReads, Reads, Asked, Mailed, Conn,
     Live
<1>10. UserPart'
  BY <1>0, <1>1, <1>2, ConnsAre DEF UserPart, Conn, Live
<1>11. WaitPart'
  BY <1>0, <1>1, <1>2, ConnsAre DEF WaitPart, Watched, Asked, Mailed, Conn, Live
<1>12. OrderPart'
  BY <1>0, <1>1, <1>2, ConnsAre DEF OrderPart, InHand, Mine, Conn
<1>13. PolledPart'
  BY <1>0, <1>1, <1>2, ConnsAre DEF PolledPart, Mine, Asked, Mailed, Conn, Live
<1> QED BY <1>3, <1>4, <1>5, <1>6, <1>7, <1>8, <1>9, <1>10, <1>11, <1>12, <1>13 DEF NetInv

(* on_tcp_send looks at how much is unsent,                                *)
LEMMA SendLoadOk ==
    ASSUME NetInv, fault = "none", SendLoad
    PROVE  NetInv'
<1>0. /\ NetTypes /\ SlotPart /\ HeardPart /\ ClosePart /\ OverPart /\ OpenPart
      /\ ShutPart /\ UserPart /\ WaitPart /\ OrderPart /\ PolledPart
      /\ NoConn \notin known /\ NoConn \notin waiting /\ NoConn \notin closed
      /\ pc # "idle" => alive /\ op \in known /\ op \in Conns /\ op # NoConn
      /\ pc = "idle" => op = NoConn
      /\ cnt \in Nat \ {0} /\ Conn \in Nat /\ 0 <= Conn /\ (Live => Conn \in Conns)
  BY NetNow
<1>1. /\ npc = "send" /\ npc' = "sending" /\ seen' = sendRuntime.unSendBytes
      /\ UNCHANGED <<cnt, ctx, readRuntime, sendRuntime, slot, queTaskReq, io,
                     evOut, pc, op, isNew, local, inbox, known, waiting, alive,
                     closed, over, closedUnsent, fault>>
  BY <1>0 DEF SendLoad, Task, Current, CloseFd, RecycleCtx, svcSide, sockVars, netVars,
     boxVars, svcVars, ghosts, At, Return, Mine
<1>2. /\ seen' \in Nat /\ sendRuntime.unSendBytes \in Nat
      /\ sendRuntime.unSendBytes = Len(sendRuntime.queUnSend)
  BY <1>0, <1>1, LenProperties DEF NetTypes, SendType, OrderPart
<1>3. NetTypes'
  BY <1>0, <1>1, <1>2, ConnsAre DEF NetTypes
<1>4. SlotPart'
  BY <1>0, <1>1, <1>2, ConnsAre DEF SlotPart, Asked, Mailed, Conn, Live
<1>5. HeardPart'
  BY <1>0, <1>1, <1>2, ConnsAre DEF HeardPart, Asked, Mailed, Conn, Live
<1>6. ClosePart'
  BY <1>0, <1>1, <1>2, ConnsAre DEF ClosePart, Asked, Mailed, Conn, Live
<1>7. OverPart'
  BY <1>0, <1>1, <1>2, ConnsAre DEF OverPart, Asked, Mailed, Conn, Live
<1>8. OpenPart'
  BY <1>0, <1>1, <1>2, ConnsAre DEF OpenPart, SvcReads, Reads, Overs, Asked, Mailed, Conn,
     Live
<1>9. ShutPart'
  BY <1>0, <1>1, <1>2, ConnsAre DEF ShutPart, Done, SvcReads, Reads, Asked, Mailed, Conn,
     Live
<1>10. UserPart'
  BY <1>0, <1>1, <1>2, ConnsAre DEF UserPart, Conn, Live
<1>11. WaitPart'
  BY <1>0, <1>1, <1>2, ConnsAre DEF WaitPart, Watched, Asked, Mailed, Conn, Live
<1>12. OrderPart'

  <2>1. PICK n : n = Len(sendRuntime.queUnSend)
    OBVIOUS
  <2>2. seen' <= n /\ sendRuntime.unSendBytes = n + 0
    BY <1>1, <1>2, <2>1
  <2> QED BY <1>0, <1>1, <2>1, <2>2 DEF OrderPart, InHand, Mine
<1>13. PolledPart'
  BY <1>0, <1>1, <1>2, ConnsAre DEF PolledPart, Mine, Asked, Mailed, Conn, Live
<1> QED BY <1>3, <1>4, <1>5, <1>6, <1>7, <1>8, <1>9, <1>10, <1>11, <1>12, <1>13 DEF NetInv

(* ... finds nothing,                                                      *)
LEMMA NothingToSendOk ==
    ASSUME NetInv, fault = "none", NothingToSend
    PROVE  NetInv'
<1>0. /\ NetTypes /\ SlotPart /\ HeardPart /\ ClosePart /\ OverPart /\ OpenPart
      /\ ShutPart /\ UserPart /\ WaitPart /\ OrderPart /\ PolledPart
      /\ NoConn \notin known /\ NoConn \notin waiting /\ NoConn \notin closed
      /\ pc # "idle" => alive /\ op \in known /\ op \in Conns /\ op # NoConn
      /\ pc = "idle" => op = NoConn
      /\ cnt \in Nat \ {0} /\ Conn \in Nat /\ 0 <= Conn /\ (Live => Conn \in Conns)
  BY NetNow
<1>1. /\ npc = "sending" /\ seen < 1 /\ npc' = "sent" /\ seen' = 0
      /\ ctx' = [ctx EXCEPT !.pollOut = FALSE]
      /\ UNCHANGED <<cnt, readRuntime, sendRuntime, slot, queTaskReq, io, evOut,
                     pc, op, isNew, local, inbox, known, waiting, alive, closed,
                     over, closedUnsent, fault>>
  BY <1>0 DEF NothingToSend, Task, Current, CloseFd, RecycleCtx, svcSide, sockVars,
     netVars, boxVars, svcVars, ghosts, At, Return, Mine
<1>2. /\ ctx' \in CtxType
      /\ ctx'.cnt4Net = ctx.cnt4Net
      /\ ctx'.closeCalled4Net = ctx.closeCalled4Net
      /\ ctx'.readOver4Net = ctx.readOver4Net
      /\ ctx'.pollIn = ctx.pollIn
      /\ ~ctx'.pollOut
      /\ ctx'.inPoll = ctx.inPoll
      /\ ctx'.fd = ctx.fd
  BY <1>0, <1>1 DEF NetTypes, CtxType
<1>3. NetTypes'
  BY <1>0, <1>1, <1>2, ConnsAre DEF NetTypes
<1>4. SlotPart'
  BY <1>0, <1>1, <1>2, ConnsAre DEF SlotPart, Asked, Mailed, Conn, Live
<1>5. HeardPart'
  BY <1>0, <1>1, <1>2, ConnsAre DEF HeardPart, Asked, Mailed, Conn, Live
<1>6. ClosePart'
  BY <1>0, <1>1, <1>2, ConnsAre DEF ClosePart, Asked, Mailed, Conn, Live
<1>7. OverPart'
  BY <1>0, <1>1, <1>2, ConnsAre DEF OverPart, Asked, Mailed, Conn, Live
<1>8. OpenPart'
  BY <1>0, <1>1, <1>2, ConnsAre DEF OpenPart, SvcReads, Reads, Overs, Asked, Mailed, Conn,
     Live
<1>9. ShutPart'
  BY <1>0, <1>1, <1>2, ConnsAre DEF ShutPart, Done, SvcReads, Reads, Asked, Mailed, Conn,
     Live
<1>10. UserPart'
  BY <1>0, <1>1, <1>2, ConnsAre DEF UserPart, Conn, Live
<1>11. WaitPart'
  BY <1>0, <1>1, <1>2, ConnsAre DEF WaitPart, Watched, Asked, Mailed, Conn, Live
<1>12. OrderPart'
  BY <1>0, <1>1, <1>2, ConnsAre DEF OrderPart, InHand, Mine, Conn
<1>13. PolledPart'
  BY <1>0, <1>1, <1>2, ConnsAre DEF PolledPart, Mine, Asked, Mailed, Conn, Live
<1> QED BY <1>3, <1>4, <1>5, <1>6, <1>7, <1>8, <1>9, <1>10, <1>11, <1>12, <1>13 DEF NetInv

(* ... finds the peer gone,                                                *)
LEMMA SendFailsOk ==
    ASSUME NetInv, fault = "none", SendFails
    PROVE  NetInv'
<1>0. /\ NetTypes /\ SlotPart /\ HeardPart /\ ClosePart /\ OverPart /\ OpenPart
      /\ ShutPart /\ UserPart /\ WaitPart /\ OrderPart /\ PolledPart
      /\ NoConn \notin known /\ NoConn \notin waiting /\ NoConn \notin closed
      /\ pc # "idle" => alive /\ op \in known /\ op \in Conns /\ op # NoConn
      /\ pc = "idle" => op = NoConn
      /\ cnt \in Nat \ {0} /\ Conn \in Nat /\ 0 <= Conn /\ (Live => Conn \in Conns)
  BY NetNow
<1>1. /\ npc = "sending" /\ npc' = "sent" /\ seen' = 0
      /\ sendRuntime' = [sendRuntime EXCEPT !.sockClosed = TRUE]
      /\ ctx' = [ctx EXCEPT !.pollOut = FALSE]
      /\ UNCHANGED <<cnt, readRuntime, slot, queTaskReq, io, evOut, pc, op, isNew,
                     local, inbox, known, waiting, alive, closed, over,
                     closedUnsent, fault>>
  BY <1>0 DEF SendFails, Task, Current, CloseFd, RecycleCtx, svcSide, sockVars, netVars,
     boxVars, svcVars, ghosts, At, Return, Mine
<1>2. /\ ctx' \in CtxType
      /\ ctx'.cnt4Net = ctx.cnt4Net
      /\ ctx'.closeCalled4Net = ctx.closeCalled4Net
      /\ ctx'.readOver4Net = ctx.readOver4Net
      /\ ctx'.pollIn = ctx.pollIn
      /\ ~ctx'.pollOut
      /\ ctx'.inPoll = ctx.inPoll
      /\ ctx'.fd = ctx.fd
  BY <1>0, <1>1 DEF NetTypes, CtxType
<1>3. /\ sendRuntime' \in SendType
      /\ sendRuntime'.sockClosed
      /\ sendRuntime'.closeCalled4Svc = sendRuntime.closeCalled4Svc
      /\ sendRuntime'.unSendBytes = sendRuntime.unSendBytes
      /\ sendRuntime'.queUnSend = sendRuntime.queUnSend
      /\ sendRuntime'.sends = sendRuntime.sends
  BY <1>0, <1>1 DEF NetTypes, SendType
<1>4. NetTypes'
  BY <1>0, <1>1, <1>2, <1>3, ConnsAre DEF NetTypes
<1>5. SlotPart'
  BY <1>0, <1>1, <1>2, <1>3, ConnsAre DEF SlotPart, Asked, Mailed, Conn, Live
<1>6. HeardPart'
  BY <1>0, <1>1, <1>2, <1>3, ConnsAre DEF HeardPart, Asked, Mailed, Conn, Live
<1>7. ClosePart'
  BY <1>0, <1>1, <1>2, <1>3, ConnsAre DEF ClosePart, Asked, Mailed, Conn, Live
<1>8. OverPart'
  BY <1>0, <1>1, <1>2, <1>3, ConnsAre DEF OverPart, Asked, Mailed, Conn, Live
<1>9. OpenPart'
  BY <1>0, <1>1, <1>2, <1>3, ConnsAre DEF OpenPart, SvcReads, Reads, Overs, Asked, Mailed,
     Conn, Live
<1>10. ShutPart'
  BY <1>0, <1>1, <1>2, <1>3, ConnsAre DEF ShutPart, Done, SvcReads, Reads, Asked, Mailed,
     Conn, Live
<1>11. UserPart'
  BY <1>0, <1>1, <1>2, <1>3, ConnsAre DEF UserPart, Conn, Live
<1>12. WaitPart'
  BY <1>0, <1>1, <1>2, <1>3, ConnsAre DEF WaitPart, Watched, Asked, Mailed, Conn, Live
<1>13. OrderPart'
  BY <1>0, <1>1, <1>2, <1>3, ConnsAre DEF OrderPart, InHand, Mine, Conn, Next1
<1>14. PolledPart'
  BY <1>0, <1>1, <1>2, <1>3, ConnsAre DEF PolledPart, Mine, Asked, Mailed, Conn, Live
<1> QED BY <1>4, <1>5, <1>6, <1>7, <1>8, <1>9, <1>10, <1>11, <1>12, <1>13, <1>14 DEF NetInv

(* ... or sends from the front of what waits,                              *)
LEMMA SendSomeOk ==
    ASSUME NetInv, fault = "none", SendSome
    PROVE  NetInv'
<1>0. /\ NetTypes /\ SlotPart /\ HeardPart /\ ClosePart /\ OverPart /\ OpenPart
      /\ ShutPart /\ UserPart /\ WaitPart /\ OrderPart /\ PolledPart
      /\ NoConn \notin known /\ NoConn \notin waiting /\ NoConn \notin closed
      /\ pc # "idle" => alive /\ op \in known /\ op \in Conns /\ op # NoConn
      /\ pc = "idle" => op = NoConn
      /\ cnt \in Nat \ {0} /\ Conn \in Nat /\ 0 <= Conn /\ (Live => Conn \in Conns)
  BY NetNow
<1>1. /\ npc = "sending" /\ npc' = "subtract"
      /\ \E k \in 1 .. seen :
            /\ io' = [io EXCEPT !.wire = @ \o SubSeq(sendRuntime.queUnSend, 1, k)]
            /\ sendRuntime' = [sendRuntime EXCEPT !.queUnSend = SubSeq(@, k + 1, Len(@))]
            /\ seen' = k
      /\ UNCHANGED <<cnt, ctx, readRuntime, slot, queTaskReq, evOut, pc, op, isNew,
                     local, inbox, known, waiting, alive, closed, over,
                     closedUnsent, fault>>
  BY <1>0 DEF SendSome, Task, Current, CloseFd, RecycleCtx, svcSide, sockVars, netVars,
     boxVars, svcVars, ghosts, At, Return, Mine
<1>2. PICK k \in 1 .. seen :
             /\ io' = [io EXCEPT !.wire = @ \o SubSeq(sendRuntime.queUnSend, 1, k)]
             /\ sendRuntime' = [sendRuntime EXCEPT !.queUnSend = SubSeq(@, k + 1, Len(@))]
             /\ seen' = k
  BY <1>1
<1>3. PICK q, w : q = sendRuntime.queUnSend /\ w = io.wire
  OBVIOUS
<1>4. /\ q \in Seq(Int) /\ w \in Seq(Int) /\ Len(q) \in Nat /\ k \in Nat /\ k <= Len(q)
      /\ sendRuntime.unSendBytes = Len(q)
  <2>1. q \in Seq(Int) /\ w \in Seq(Int) /\ seen \in Nat
    BY <1>0, <1>3 DEF NetTypes, IoType, SendType
  <2>2. Len(q) \in Nat
    BY <2>1, LenProperties
  <2>3. seen <= Len(q) /\ sendRuntime.unSendBytes = Len(q) + 0
    BY <1>0, <1>1, <1>3 DEF OrderPart
  <2>4. k \in Nat /\ k <= seen
    BY <1>2, <2>1
  <2> QED BY <2>1, <2>2, <2>3, <2>4
<1>5. PICK a \in Seq(Int), b \in Seq(Int) :
             /\ a = SubSeq(q, 1, k) /\ b = SubSeq(q, k + 1, Len(q))
             /\ a \o b = q /\ Len(b) = Len(q) - k
  BY <1>4, Splitting
<1>6. /\ w \o a \in Seq(Int) /\ (w \o a) \o b = w \o q
      /\ io' = [io EXCEPT !.wire = w \o a] /\ sendRuntime' = [sendRuntime EXCEPT !.queUnSend = b]
      /\ seen' \in Nat
  <2>1. (w \o a) \o b = w \o (a \o b)
    <3>1. w \in Seq(Int)
      BY <1>4
    <3> QED BY <3>1, Joining
  <2>2. w \o a \in Seq(Int)
    BY <1>4, ConcatProperties
  <2> QED BY <1>2, <1>3, <1>4, <1>5, <2>1, <2>2
<1>7. /\ io' \in IoType
      /\ io'.in = io.in
      /\ io'.recv = io.recv
      /\ io'.peer = io.peer
      /\ io'.wire = w \o a
  <2>1. io \in IoType
    BY <1>0 DEF NetTypes
  <2>2. io' = [io EXCEPT !.wire = w \o a] /\ w \o a \in Seq(Int)
    BY <1>6
  <2> QED BY <2>1, <2>2 DEF IoType
<1>8. /\ sendRuntime' \in SendType
      /\ sendRuntime'.sockClosed = sendRuntime.sockClosed
      /\ sendRuntime'.closeCalled4Svc = sendRuntime.closeCalled4Svc
      /\ sendRuntime'.unSendBytes = sendRuntime.unSendBytes
      /\ sendRuntime'.queUnSend = b
      /\ sendRuntime'.sends = sendRuntime.sends
  <2>1. sendRuntime \in SendType
    BY <1>0 DEF NetTypes
  <2>2. sendRuntime' = [sendRuntime EXCEPT !.queUnSend = b]
    BY <1>6
  <2> QED BY <2>1, <2>2 DEF SendType
<1>9. /\ npc = "sending" /\ npc' = "subtract"
      /\ UNCHANGED <<cnt, ctx, readRuntime, slot, queTaskReq, evOut, pc, op, isNew,
                     local, inbox, known, waiting, alive, closed, over,
                     closedUnsent, fault>>
  BY <1>1
<1>10. NetTypes'
  BY <1>0, <1>6, <1>7, <1>8, <1>9, ConnsAre DEF NetTypes
<1>11. SlotPart'
  BY <1>0, <1>6, <1>7, <1>8, <1>9, ConnsAre DEF SlotPart, Asked, Mailed, Conn, Live
<1>12. HeardPart'
  BY <1>0, <1>6, <1>7, <1>8, <1>9, ConnsAre DEF HeardPart, Asked, Mailed, Conn, Live
<1>13. ClosePart'
  BY <1>0, <1>6, <1>7, <1>8, <1>9, ConnsAre DEF ClosePart, Asked, Mailed, Conn, Live
<1>14. OverPart'
  BY <1>0, <1>6, <1>7, <1>8, <1>9, ConnsAre DEF OverPart, Asked, Mailed, Conn, Live
<1>15. OpenPart'
  BY <1>0, <1>6, <1>7, <1>8, <1>9, ConnsAre DEF OpenPart, SvcReads, Reads, Overs, Asked,
     Mailed, Conn, Live
<1>16. ShutPart'
  BY <1>0, <1>6, <1>7, <1>8, <1>9, ConnsAre DEF ShutPart, Done, SvcReads, Reads, Asked,
     Mailed, Conn, Live
<1>17. UserPart'
  BY <1>0, <1>6, <1>7, <1>8, <1>9, ConnsAre DEF UserPart, Conn, Live
<1>18. WaitPart'
  BY <1>0, <1>6, <1>7, <1>8, <1>9, ConnsAre DEF WaitPart, Watched, Asked, Mailed, Conn, Live
<1>19. OrderPart'

  <2>1. Next1(sendRuntime') = Next1(sendRuntime)
    BY <1>8 DEF Next1
  <2>2. w \o q = Bytes(0, Next1(sendRuntime) - InHand)
    BY <1>0, <1>3 DEF OrderPart
  <2>3. io'.wire \o sendRuntime'.queUnSend = Bytes(0, Next1(sendRuntime) - InHand)
    BY <1>6, <1>7, <1>8, <2>2
  <2>4. sendRuntime'.unSendBytes = Len(sendRuntime'.queUnSend) + seen'
    <3>1. Len(sendRuntime'.queUnSend) = Len(q) - k /\ seen' = k
      BY <1>2, <1>5, <1>8
    <3> QED BY <1>4, <1>8, <3>1
  <2> QED BY <1>0, <1>8, <1>9, <2>1, <2>3, <2>4 DEF OrderPart, InHand, Mine
<1>20. PolledPart'
  BY <1>0, <1>6, <1>7, <1>8, <1>9, ConnsAre DEF PolledPart, Mine, Asked, Mailed, Conn, Live
<1> QED BY <1>10, <1>11, <1>12, <1>13, <1>14, <1>15, <1>16, <1>17, <1>18, <1>19, <1>20
       DEF NetInv

(* ... and counts it off.                                                  *)
LEMMA SubtractOk ==
    ASSUME NetInv, fault = "none", Subtract
    PROVE  NetInv'
<1>0. /\ NetTypes /\ SlotPart /\ HeardPart /\ ClosePart /\ OverPart /\ OpenPart
      /\ ShutPart /\ UserPart /\ WaitPart /\ OrderPart /\ PolledPart
      /\ NoConn \notin known /\ NoConn \notin waiting /\ NoConn \notin closed
      /\ pc # "idle" => alive /\ op \in known /\ op \in Conns /\ op # NoConn
      /\ pc = "idle" => op = NoConn
      /\ cnt \in Nat \ {0} /\ Conn \in Nat /\ 0 <= Conn /\ (Live => Conn \in Conns)
  BY NetNow
<1>1. /\ npc = "subtract" /\ npc' = "sent" /\ seen' = 0
      /\ sendRuntime' = [sendRuntime EXCEPT !.unSendBytes = @ - seen]
      /\ UNCHANGED <<cnt, ctx, readRuntime, slot, queTaskReq, io, evOut, pc, op,
                     isNew, local, inbox, known, waiting, alive, closed, over,
                     closedUnsent, fault>>
  BY <1>0 DEF Subtract, Task, Current, CloseFd, RecycleCtx, svcSide, sockVars, netVars,
     boxVars, svcVars, ghosts, At, Return, Mine
<1>2. PICK n \in Nat : n = Len(sendRuntime.queUnSend)
  BY <1>0, LenProperties DEF NetTypes, SendType
<1>3. sendRuntime.unSendBytes = n + seen /\ sendRuntime.unSendBytes - seen = n
  <2>1. sendRuntime.unSendBytes = n + seen
    BY <1>0, <1>1, <1>2 DEF OrderPart
  <2>2. seen \in Nat
    BY <1>0 DEF NetTypes
  <2> QED BY <2>1, <2>2
<1>4. /\ sendRuntime' \in SendType
      /\ sendRuntime'.sockClosed = sendRuntime.sockClosed
      /\ sendRuntime'.closeCalled4Svc = sendRuntime.closeCalled4Svc
      /\ sendRuntime'.unSendBytes = n
      /\ sendRuntime'.queUnSend = sendRuntime.queUnSend
      /\ sendRuntime'.sends = sendRuntime.sends
  BY <1>0, <1>1, <1>2, <1>3 DEF NetTypes, SendType
<1>5. sendRuntime'.unSendBytes > 0 => sendRuntime.unSendBytes > 0
  BY <1>0, <1>3, <1>4 DEF NetTypes
<1>6. NetTypes'
  BY <1>0, <1>1, <1>2, <1>3, <1>4, <1>5, ConnsAre DEF NetTypes
<1>7. SlotPart'
  BY <1>0, <1>1, <1>2, <1>3, <1>4, <1>5, ConnsAre DEF SlotPart, Asked, Mailed, Conn, Live
<1>8. HeardPart'
  BY <1>0, <1>1, <1>2, <1>3, <1>4, <1>5, ConnsAre DEF HeardPart, Asked, Mailed, Conn, Live
<1>9. ClosePart'
  BY <1>0, <1>1, <1>2, <1>3, <1>4, <1>5, ConnsAre DEF ClosePart, Asked, Mailed, Conn, Live
<1>10. OverPart'
  BY <1>0, <1>1, <1>2, <1>3, <1>4, <1>5, ConnsAre DEF OverPart, Asked, Mailed, Conn, Live
<1>11. OpenPart'
  BY <1>0, <1>1, <1>2, <1>3, <1>4, <1>5, ConnsAre DEF OpenPart, SvcReads, Reads, Overs,
     Asked, Mailed, Conn, Live
<1>12. ShutPart'
  BY <1>0, <1>1, <1>2, <1>3, <1>4, <1>5, ConnsAre DEF ShutPart, Done, SvcReads, Reads,
     Asked, Mailed, Conn, Live
<1>13. UserPart'
  BY <1>0, <1>1, <1>2, <1>3, <1>4, <1>5, ConnsAre DEF UserPart, Conn, Live
<1>14. WaitPart'
  BY <1>0, <1>1, <1>2, <1>3, <1>4, <1>5, ConnsAre DEF WaitPart, Watched, Asked, Mailed,
     Conn, Live
<1>15. OrderPart'

  <2>1. Next1(sendRuntime') = Next1(sendRuntime)
    BY <1>4 DEF Next1
  <2>2. sendRuntime'.unSendBytes = Len(sendRuntime'.queUnSend) + 0
    BY <1>2, <1>4
  <2> QED BY <1>0, <1>1, <1>4, <2>1, <2>2 DEF OrderPart, InHand, Mine
<1>16. PolledPart'
  BY <1>0, <1>1, <1>2, <1>3, <1>4, <1>5, ConnsAre DEF PolledPart, Mine, Asked, Mailed,
     Conn, Live
<1> QED BY <1>6, <1>7, <1>8, <1>9, <1>10, <1>11, <1>12, <1>13, <1>14, <1>15, <1>16
       DEF NetInv

(* Bytes are left, or the read is not over: the slot stays.                *)
LEMMA NotAllSentOk ==
    ASSUME NetInv, fault = "none", SentAll, ctx.pollOut \/ ~ctx.readOver4Net
    PROVE  NetInv'
<1>0. /\ NetTypes /\ SlotPart /\ HeardPart /\ ClosePart /\ OverPart /\ OpenPart
      /\ ShutPart /\ UserPart /\ WaitPart /\ OrderPart /\ PolledPart
      /\ NoConn \notin known /\ NoConn \notin waiting /\ NoConn \notin closed
      /\ pc # "idle" => alive /\ op \in known /\ op \in Conns /\ op # NoConn
      /\ pc = "idle" => op = NoConn
      /\ cnt \in Nat \ {0} /\ Conn \in Nat /\ 0 <= Conn /\ (Live => Conn \in Conns)
  BY NetNow
<1>1. /\ npc = "sent" /\ npc' = "tasks"
      /\ UNCHANGED <<cnt, ctx, readRuntime, sendRuntime, slot, queTaskReq, io,
                     seen, evOut, pc, op, isNew, local, inbox, known, waiting,
                     alive, closed, over, closedUnsent, fault>>
  BY <1>0 DEF SentAll, Task, Current, CloseFd, RecycleCtx, svcSide, sockVars, netVars,
     boxVars, svcVars, ghosts, At, Return, Mine
<1>2. NetTypes'
  BY <1>0, <1>1, ConnsAre DEF NetTypes
<1>3. SlotPart'
  BY <1>0, <1>1, ConnsAre DEF SlotPart, Asked, Mailed, Conn, Live
<1>4. HeardPart'
  BY <1>0, <1>1, ConnsAre DEF HeardPart, Asked, Mailed, Conn, Live
<1>5. ClosePart'
  BY <1>0, <1>1, ConnsAre DEF ClosePart, Asked, Mailed, Conn, Live
<1>6. OverPart'
  BY <1>0, <1>1, ConnsAre DEF OverPart, Asked, Mailed, Conn, Live
<1>7. OpenPart'
  BY <1>0, <1>1, ConnsAre DEF OpenPart, SvcReads, Reads, Overs, Asked, Mailed, Conn, Live
<1>8. ShutPart'
  BY <1>0, <1>1, ConnsAre DEF ShutPart, Done, SvcReads, Reads, Asked, Mailed, Conn, Live
<1>9. UserPart'
  BY <1>0, <1>1, ConnsAre DEF UserPart, Conn, Live
<1>10. WaitPart'
  BY <1>0, <1>1, ConnsAre DEF WaitPart, Watched, Asked, Mailed, Conn, Live
<1>11. OrderPart'
  BY <1>0, <1>1, ConnsAre DEF OrderPart, InHand, Mine, Conn
<1>12. PolledPart'
  BY <1>0, <1>1, ConnsAre DEF PolledPart, Mine, Asked, Mailed, Conn, Live
<1> QED BY <1>2, <1>3, <1>4, <1>5, <1>6, <1>7, <1>8, <1>9, <1>10, <1>11, <1>12 DEF NetInv

(* All is sent and the read was over: the slot is recycled.                *)
LEMMA SentAllOk ==
    ASSUME NetInv, fault = "none", SentAll, ~ctx.pollOut, ctx.readOver4Net
    PROVE  NetInv'
<1>0. /\ NetTypes /\ SlotPart /\ HeardPart /\ ClosePart /\ OverPart /\ OpenPart
      /\ ShutPart /\ UserPart /\ WaitPart /\ OrderPart /\ PolledPart
      /\ NoConn \notin known /\ NoConn \notin waiting /\ NoConn \notin closed
      /\ pc # "idle" => alive /\ op \in known /\ op \in Conns /\ op # NoConn
      /\ pc = "idle" => op = NoConn
      /\ cnt \in Nat \ {0} /\ Conn \in Nat /\ 0 <= Conn /\ (Live => Conn \in Conns)
  BY NetNow
<1>1. /\ npc = "sent" /\ npc' = "tasks" /\ ~ctx.pollOut /\ ctx.readOver4Net
      /\ ~(pc \in {"enqueue", "sendwait"})
      /\ ctx' = [ctx EXCEPT !.pollIn = FALSE, !.pollOut = FALSE, !.inPoll = FALSE, !.fd = FALSE]
      /\ readRuntime' = [readRuntime EXCEPT !.sockClosed = TRUE]
      /\ sendRuntime' = [sendRuntime EXCEPT !.sockClosed = TRUE]
      /\ cnt' = cnt + 1 /\ slot' = "wait"
      /\ UNCHANGED <<queTaskReq, io, seen, evOut, pc, op, isNew, local, inbox,
                     known, waiting, alive, closed, over, closedUnsent, fault>>
  BY <1>0 DEF SentAll, SendLocked, Task, Current, CloseFd, RecycleCtx, svcSide, sockVars,
     netVars, boxVars, svcVars, ghosts, At, Return, Mine
<1>2. /\ ctx' \in CtxType
      /\ ctx'.cnt4Net = ctx.cnt4Net
      /\ ctx'.closeCalled4Net = ctx.closeCalled4Net
      /\ ctx'.readOver4Net = ctx.readOver4Net
      /\ ~ctx'.pollIn
      /\ ~ctx'.pollOut
      /\ ~ctx'.inPoll
      /\ ~ctx'.fd
  BY <1>0, <1>1 DEF NetTypes, CtxType
<1>3. /\ readRuntime' \in ReadType
      /\ readRuntime'.sockClosed
      /\ readRuntime'.onReadWait = readRuntime.onReadWait
      /\ readRuntime'.hasSendReadOver = readRuntime.hasSendReadOver
      /\ readRuntime'.readable = readRuntime.readable
      /\ readRuntime'.wait = readRuntime.wait
  BY <1>0, <1>1 DEF NetTypes, ReadType
<1>4. /\ sendRuntime' \in SendType
      /\ sendRuntime'.sockClosed
      /\ sendRuntime'.closeCalled4Svc = sendRuntime.closeCalled4Svc
      /\ sendRuntime'.unSendBytes = sendRuntime.unSendBytes
      /\ sendRuntime'.queUnSend = sendRuntime.queUnSend
      /\ sendRuntime'.sends = sendRuntime.sends
  BY <1>0, <1>1 DEF NetTypes, SendType
<1>5. /\ Live /\ ~Live' /\ cnt' = Conn + 1 /\ Conn \in Conns /\ Conn \in over
      /\ \A d \in Conns : /\ ~Asked("READ_WAIT", d) /\ ~Asked("TCP_ADD", d)
                          /\ ~Mailed("conn_in", d)
                          /\ Asked("READ_OVER", d) => d \in over /\ d \in closed
      /\ pc # "readwait" /\ (readRuntime.wait => closedUnsent /\ Conn \in closed)
      /\ Conn \notin closed /\ alive => readRuntime.hasSendReadOver
  <2>1. Live /\ Overs /\ Conn \in Conns /\ Conn \in over
    BY <1>0, <1>1 DEF SlotPart, OverPart, Overs
  <2>2. ~Live' /\ cnt' = Conn + 1
    BY <1>0, <1>1, <1>2, <2>1 DEF Live, Conn
  <2>3. Conn \notin closed => /\ ~Reads /\ (alive => readRuntime.hasSendReadOver)
                             /\ ~Asked("READ_OVER", Conn)
    BY <1>0, <1>1, <2>1 DEF OpenPart
  <2>4. \A d \in Conns : ~Asked("READ_WAIT", d)
    BY <1>0, <1>1, <2>1 DEF OverPart, Live
  <2>5. \A d \in Conns : ~Asked("TCP_ADD", d)
    BY <1>0, <1>1 DEF HeardPart
  <2>6. \A d \in Conns : ~Mailed("conn_in", d)
    BY <1>0, <1>1, <2>1, EmptyHas DEF HeardPart, Mailed, Live
  <2>7. \A d \in Conns : Asked("READ_OVER", d) => d \in over /\ d \in closed
    BY <1>0, <2>1, <2>3 DEF OverPart, Live
  <2>8. pc # "readwait"
    BY <1>0, <2>1, <2>3 DEF OverPart, ClosePart, Reads, SvcReads, Live
  <2>9. readRuntime.wait => closedUnsent /\ Conn \in closed
    <3>1. readRuntime.wait => Reads /\ ~Done /\ Conn \in closed
      BY <2>3 DEF Reads, Done
    <3>2. Conn \in closed /\ ~Done => ctx.closeCalled4Net
      BY <1>0, <1>1, <2>1 DEF ClosePart, ShutPart
    <3>3. ctx.closeCalled4Net /\ ~closedUnsent => ~readRuntime.wait
      BY <1>0, <2>1 DEF ShutPart
    <3> QED BY <3>1, <3>2, <3>3
  <2> QED BY <2>1, <2>2, <2>3, <2>4, <2>5, <2>6, <2>7, <2>8, <2>9
<1>6. /\ cnt' \in Nat \ {0} /\ \A d \in known : cnt' > d => d \in closed \union over
  <2>1. \A d \in known : d \in Conns /\ d \in Nat /\ (cnt > d => d \in closed \union over)
    BY <1>0, ConnsAre DEF NetTypes, UserPart
  <2>2. cnt' = cnt + 1 /\ cnt \in Nat /\ cnt \in closed \union over
    BY <1>0, <1>1, <1>5 DEF Live
  <2> QED BY <2>1, <2>2
<1>7. NetTypes'
  BY <1>0, <1>1, <1>2, <1>3, <1>4, <1>5, <1>6, ConnsAre DEF NetTypes
<1>8. SlotPart'
  BY <1>0, <1>1, <1>2, <1>3, <1>4, <1>5, <1>6, ConnsAre DEF SlotPart, Asked, Mailed, Conn,
     Live
<1>9. HeardPart'

  <2>1. \A cmd, d : (Asked(cmd, d)' => Asked(cmd, d)) /\ (Mailed(cmd, d)' <=> Mailed(cmd, d))
    BY <1>1 DEF Asked, Mailed
  <2>2. \A d \in Conns : ~Asked("TCP_ADD", d)' /\ ~Mailed("conn_in", d)'
    BY <2>1, <1>5 DEF Asked
  <2> QED BY <1>0, <1>1, <1>2, <1>3, <1>5, <2>1, <2>2 DEF HeardPart, Conn
<1>10. ClosePart'
  BY <1>0, <1>1, <1>2, <1>3, <1>4, <1>5, <1>6, ConnsAre DEF ClosePart, Asked, Mailed, Conn,
     Live
<1>11. OverPart'

  BY <1>0, <1>1, <1>2, <1>3, <1>5 DEF OverPart, Asked, Conn, Live
<1>12. OpenPart'
  BY <1>0, <1>1, <1>2, <1>3, <1>4, <1>5, <1>6, ConnsAre DEF OpenPart, SvcReads, Reads,
     Overs, Asked, Mailed, Conn, Live
<1>13. ShutPart'
  BY <1>0, <1>1, <1>2, <1>3, <1>4, <1>5, <1>6, ConnsAre DEF ShutPart, Done, SvcReads,
     Reads, Asked, Mailed, Conn, Live
<1>14. UserPart'
  BY <1>0, <1>1, <1>2, <1>3, <1>4, <1>5, <1>6, ConnsAre DEF UserPart, Conn, Live
<1>15. WaitPart'

  BY <1>0, <1>1, <1>2, <1>3, <1>5 DEF WaitPart, Asked, Mailed, Conn, Live
<1>16. OrderPart'
  BY <1>0, <1>1, <1>2, <1>3, <1>4, <1>5, <1>6, ConnsAre DEF OrderPart, InHand, Mine, Conn,
     Next1
<1>17. PolledPart'
  BY <1>0, <1>1, <1>2, <1>3, <1>4, <1>5, <1>6, ConnsAre DEF PolledPart, Mine, Asked,
     Mailed, Conn, Live
<1> QED BY <1>7, <1>8, <1>9, <1>10, <1>11, <1>12, <1>13, <1>14, <1>15, <1>16, <1>17
       DEF NetInv

(* The peer sends a byte.                                                  *)
LEMMA PeerSendOk ==
    ASSUME NetInv, fault = "none", PeerSend
    PROVE  NetInv'
<1>0. /\ NetTypes /\ SlotPart /\ HeardPart /\ ClosePart /\ OverPart /\ OpenPart
      /\ ShutPart /\ UserPart /\ WaitPart /\ OrderPart /\ PolledPart
      /\ NoConn \notin known /\ NoConn \notin waiting /\ NoConn \notin closed
      /\ pc # "idle" => alive /\ op \in known /\ op \in Conns /\ op # NoConn
      /\ pc = "idle" => op = NoConn
      /\ cnt \in Nat \ {0} /\ Conn \in Nat /\ 0 <= Conn /\ (Live => Conn \in Conns)
  BY NetNow
<1>1. /\ ctx.inPoll /\ io' = [io EXCEPT !.in = @ + 1, !.recv = @ + 1]
      /\ UNCHANGED <<cnt, ctx, readRuntime, sendRuntime, slot, queTaskReq, npc,
                     seen, evOut, pc, op, isNew, local, inbox, known, waiting,
                     alive, closed, over, closedUnsent, fault>>
  BY <1>0 DEF PeerSend, Connected, Task, Current, CloseFd, RecycleCtx, svcSide, sockVars,
     netVars, boxVars, svcVars, ghosts, At, Return, Mine
<1>2. PICK a \in Nat, b \in Nat : io' = [io EXCEPT !.in = a, !.recv = b]
  <2>1. io.in \in Nat /\ io.recv \in Nat
    BY <1>0 DEF NetTypes, IoType
  <2>2. io.in + 1 \in Nat /\ io.recv + 1 \in Nat
    BY <2>1
  <2> QED BY <1>1, <2>2
<1>3. /\ io' \in IoType
      /\ io'.peer = io.peer
      /\ io'.wire = io.wire
  BY <1>0, <1>2 DEF NetTypes, IoType
<1>4. NetTypes'
  BY <1>0, <1>1, <1>2, <1>3, ConnsAre DEF NetTypes
<1>5. SlotPart'
  BY <1>0, <1>1, <1>2, <1>3, ConnsAre DEF SlotPart, Asked, Mailed, Conn, Live
<1>6. HeardPart'
  BY <1>0, <1>1, <1>2, <1>3, ConnsAre DEF HeardPart, Asked, Mailed, Conn, Live
<1>7. ClosePart'
  BY <1>0, <1>1, <1>2, <1>3, ConnsAre DEF ClosePart, Asked, Mailed, Conn, Live
<1>8. OverPart'
  BY <1>0, <1>1, <1>2, <1>3, ConnsAre DEF OverPart, Asked, Mailed, Conn, Live
<1>9. OpenPart'
  BY <1>0, <1>1, <1>2, <1>3, ConnsAre DEF OpenPart, SvcReads, Reads, Overs, Asked, Mailed,
     Conn, Live
<1>10. ShutPart'
  BY <1>0, <1>1, <1>2, <1>3, ConnsAre DEF ShutPart, Done, SvcReads, Reads, Asked, Mailed,
     Conn, Live
<1>11. UserPart'
  BY <1>0, <1>1, <1>2, <1>3, ConnsAre DEF UserPart, Conn, Live
<1>12. WaitPart'
  BY <1>0, <1>1, <1>2, <1>3, ConnsAre DEF WaitPart, Watched, Asked, Mailed, Conn, Live
<1>13. OrderPart'
  BY <1>0, <1>1, <1>2, <1>3, ConnsAre DEF OrderPart, InHand, Mine, Conn
<1>14. PolledPart'
  BY <1>0, <1>1, <1>2, <1>3, ConnsAre DEF PolledPart, Mine, Asked, Mailed, Conn, Live
<1> QED BY <1>4, <1>5, <1>6, <1>7, <1>8, <1>9, <1>10, <1>11, <1>12, <1>13, <1>14 DEF NetInv

(* The peer sends no more, or goes.                                        *)
LEMMA PeerEndOk ==
    ASSUME NetInv, fault = "none", PeerEnd
    PROVE  NetInv'
<1>0. /\ NetTypes /\ SlotPart /\ HeardPart /\ ClosePart /\ OverPart /\ OpenPart
      /\ ShutPart /\ UserPart /\ WaitPart /\ OrderPart /\ PolledPart
      /\ NoConn \notin known /\ NoConn \notin waiting /\ NoConn \notin closed
      /\ pc # "idle" => alive /\ op \in known /\ op \in Conns /\ op # NoConn
      /\ pc = "idle" => op = NoConn
      /\ cnt \in Nat \ {0} /\ Conn \in Nat /\ 0 <= Conn /\ (Live => Conn \in Conns)
  BY NetNow
<1>1. /\ \/ io' = [io EXCEPT !.peer = "half"]
         \/ io' = [io EXCEPT !.peer = "gone", !.in = 0]
      /\ UNCHANGED <<cnt, ctx, readRuntime, sendRuntime, slot, queTaskReq, npc,
                     seen, evOut, pc, op, isNew, local, inbox, known, waiting,
                     alive, closed, over, closedUnsent, fault>>
  BY <1>0 DEF PeerEnd, Connected, Task, Current, CloseFd, RecycleCtx, svcSide, sockVars,
     netVars, boxVars, svcVars, ghosts, At, Return, Mine
<1>2. PICK a \in Nat, b \in {"half", "gone"} : io' = [io EXCEPT !.peer = b, !.in = a]
  <2>1. io \in IoType
    BY <1>0 DEF NetTypes
  <2>2. io.in \in Nat /\ [io EXCEPT !.peer = "half"] = [io EXCEPT !.peer = "half", !.in = io.in]
    BY <2>1 DEF IoType
  <2> QED BY <1>1, <2>2
<1>3. /\ io' \in IoType
      /\ io'.recv = io.recv
      /\ io'.wire = io.wire
  BY <1>0, <1>2 DEF NetTypes, IoType
<1>4. NetTypes'
  BY <1>0, <1>1, <1>2, <1>3, ConnsAre DEF NetTypes
<1>5. SlotPart'
  BY <1>0, <1>1, <1>2, <1>3, ConnsAre DEF SlotPart, Asked, Mailed, Conn, Live
<1>6. HeardPart'
  BY <1>0, <1>1, <1>2, <1>3, ConnsAre DEF HeardPart, Asked, Mailed, Conn, Live
<1>7. ClosePart'
  BY <1>0, <1>1, <1>2, <1>3, ConnsAre DEF ClosePart, Asked, Mailed, Conn, Live
<1>8. OverPart'
  BY <1>0, <1>1, <1>2, <1>3, ConnsAre DEF OverPart, Asked, Mailed, Conn, Live
<1>9. OpenPart'
  BY <1>0, <1>1, <1>2, <1>3, ConnsAre DEF OpenPart, SvcReads, Reads, Overs, Asked, Mailed,
     Conn, Live
<1>10. ShutPart'
  BY <1>0, <1>1, <1>2, <1>3, ConnsAre DEF ShutPart, Done, SvcReads, Reads, Asked, Mailed,
     Conn, Live
<1>11. UserPart'
  BY <1>0, <1>1, <1>2, <1>3, ConnsAre DEF UserPart, Conn, Live
<1>12. WaitPart'
  BY <1>0, <1>1, <1>2, <1>3, ConnsAre DEF WaitPart, Watched, Asked, Mailed, Conn, Live
<1>13. OrderPart'
  BY <1>0, <1>1, <1>2, <1>3, ConnsAre DEF OrderPart, InHand, Mine, Conn
<1>14. PolledPart'
  BY <1>0, <1>1, <1>2, <1>3, ConnsAre DEF PolledPart, Mine, Asked, Mailed, Conn, Live
<1> QED BY <1>4, <1>5, <1>6, <1>7, <1>8, <1>9, <1>10, <1>11, <1>12, <1>13, <1>14 DEF NetInv

-----------------------------------------------------------------------------
(* The slot, with the steps of all of them                                 *)

(* The invariant holds of a slot nobody has used,                          *)
LEMMA NetStarts ==
    ASSUME NetInit
    PROVE  NetInv
<1>1. /\ cnt = 1 /\ ctx \in CtxType /\ ctx.cnt4Net = NoConn /\ ~ctx.closeCalled4Net
      /\ ~ctx.readOver4Net /\ ~ctx.pollOut /\ ~ctx.fd /\ ~ctx.inPoll
      /\ readRuntime \in ReadType /\ ~readRuntime.wait
      /\ sendRuntime \in SendType /\ ~sendRuntime.closeCalled4Svc
      /\ sendRuntime.unSendBytes = 0 /\ sendRuntime.queUnSend = << >> /\ sendRuntime.sends = 0
      /\ io \in IoType /\ io.wire = << >>
  <2>1. /\ cnt = 1 /\ ctx = NewCtx(NoConn) /\ readRuntime = NewRead
        /\ sendRuntime = NewSend /\ io = NewIo
    BY DEF NetInit
  <2>2. << >> \in Seq(Int)
    BY EmptySeq
  <2>3. /\ ctx \in CtxType /\ ctx.cnt4Net = NoConn /\ ~ctx.closeCalled4Net
        /\ ~ctx.readOver4Net /\ ~ctx.pollOut /\ ~ctx.fd /\ ~ctx.inPoll
    BY <2>1 DEF NewCtx, CtxType
  <2>4. readRuntime \in ReadType /\ ~readRuntime.wait
    BY <2>1 DEF NewRead, ReadType
  <2>5. /\ sendRuntime \in SendType /\ ~sendRuntime.closeCalled4Svc
        /\ sendRuntime.unSendBytes = 0 /\ sendRuntime.queUnSend = << >>
        /\ sendRuntime.sends = 0
    BY <2>1, <2>2 DEF NewSend, SendType
  <2>6. io \in IoType /\ io.wire = << >>
    BY <2>1, <2>2 DEF NewIo, IoType
  <2> QED BY <2>1, <2>3, <2>4, <2>5, <2>6
<1>2. /\ slot = "free" /\ queTaskReq = << >> /\ npc = "tasks" /\ seen = 0 /\ evOut = FALSE
      /\ pc = "idle" /\ op = NoConn /\ isNew = FALSE /\ local = 0
      /\ inbox = << >> /\ known = {} /\ waiting = {} /\ alive = TRUE
      /\ closed = {} /\ over = {} /\ closedUnsent = FALSE /\ fault = "none"
  BY DEF NetInit
<1>3. /\ queTaskReq \in Seq(RequestType) /\ inbox \in Seq(MailType) /\ Short(queTaskReq)
      /\ \A cmd, c : ~Asked(cmd, c) /\ ~Mailed(cmd, c)
      /\ \A cmd, c : Single(queTaskReq, cmd, c) /\ Single(inbox, cmd, c)
      /\ \A cmd, first, c : NoneBehind(queTaskReq, cmd, first, c)
  BY <1>2, EmptyHas, EmptyBehind DEF Asked, Mailed, Short
<1>4. Conn = 0 /\ ~Live /\ Conn = NoConn /\ NoConn \notin Conns
  BY <1>1, ConnsAre DEF Conn, Live
<1>5. NetTypes
  <2>1. cnt \in Nat \ {0} /\ seen \in Nat /\ local \in Nat
    <3>1. cnt = 1 /\ seen = 0 /\ local = 0
      BY <1>1, <1>2
    <3> QED BY <3>1
  <2>4. /\ alive \in BOOLEAN /\ evOut \in BOOLEAN /\ isNew \in BOOLEAN
        /\ closedUnsent \in BOOLEAN
    BY <1>2, Zenon
  <2>2. op \in Conns \union {NoConn}
    BY <1>2
  <2>3. known \subseteq Conns /\ waiting \subseteq Conns /\ closed \subseteq Conns
        /\ over \subseteq Conns
    BY <1>2
  <2> QED BY <1>1, <1>2, <1>3, <2>1, <2>2, <2>3, <2>4, Zenon DEF NetTypes
<1>6. SlotPart
  BY <1>1, <1>2, <1>3, <1>4, ConnsAre DEF SlotPart
<1>7. HeardPart
  BY <1>1, <1>2, <1>3, <1>4 DEF HeardPart
<1>8. ClosePart
  BY <1>1, <1>2, <1>3, <1>4 DEF ClosePart
<1>9. OverPart
  BY <1>1, <1>2, <1>3, <1>4 DEF OverPart
<1>10. OpenPart /\ ShutPart
  BY <1>4 DEF OpenPart, ShutPart
<1>11. UserPart
  BY <1>1, <1>2 DEF UserPart
<1>12. WaitPart
  BY <1>1, <1>2, <1>3, <1>4 DEF WaitPart
<1>13. OrderPart
  <2>1. Next1(sendRuntime) - InHand = 0
    <3>1. sendRuntime.sends = 0 /\ SendLen \in Nat
      BY <1>1, NetAssumption
    <3> QED BY <1>2, <3>1 DEF Next1, InHand
  <2>2. Bytes(0, 0) = << >> /\ << >> \o << >> = << >>
    <3>1. Bytes(0, 0) \in Seq(Int) /\ Len(Bytes(0, 0)) = 0 /\ << >> \in Seq(Int)
      BY BytesJoin
    <3> QED BY <3>1, EmptySeq, ConcatEmptySeq
  <2>3. sendRuntime.unSendBytes = Len(sendRuntime.queUnSend)
    BY <1>1
  <2> QED BY <1>1, <1>2, <2>1, <2>2, <2>3 DEF OrderPart
<1>14. PolledPart
  BY <1>1, <1>2 DEF PolledPart
<1> QED BY <1>5, <1>6, <1>7, <1>8, <1>9, <1>10, <1>11, <1>12, <1>13, <1>14 DEF NetInv

(* ... when nothing happens,                                               *)
LEMMA NetStays ==
    ASSUME NetInv, UNCHANGED allVars
    PROVE  NetInv'
<1>1. UNCHANGED <<cnt, ctx, readRuntime, sendRuntime, slot, queTaskReq, io, npc, seen, evOut,
                  pc, op, isNew, local, inbox, known, waiting, alive, closed, over,
                  closedUnsent, fault>>
  BY DEF allVars, sockVars, netVars, svcSide, svcVars, boxVars, ghosts
<1>2. NetTypes'
  BY <1>1 DEF NetInv, NetTypes
<1>3. SlotPart'
  BY <1>1 DEF NetInv, SlotPart, Asked, Mailed, Conn, Live
<1>4. HeardPart'
  BY <1>1 DEF NetInv, HeardPart, Asked, Mailed, Conn, Live
<1>5. ClosePart'
  BY <1>1 DEF NetInv, ClosePart, Asked, Mailed, Conn, Live
<1>6. OverPart'
  BY <1>1 DEF NetInv, OverPart, Asked, Mailed, Conn, Live
<1>7. OpenPart'
  BY <1>1 DEF NetInv, OpenPart, SvcReads, Reads, Overs, Asked, Mailed, Conn, Live
<1>8. ShutPart'
  BY <1>1 DEF NetInv, ShutPart, Done, SvcReads, Reads, Asked, Mailed, Conn, Live
<1>9. UserPart'
  BY <1>1 DEF NetInv, UserPart, Conn, Live
<1>10. WaitPart'
  BY <1>1 DEF NetInv, WaitPart, Watched, Asked, Mailed, Conn, Live, Short
<1>11. OrderPart'
  BY <1>1 DEF NetInv, OrderPart, InHand, Mine, Conn, Next1
<1>12. PolledPart'
  BY <1>1 DEF NetInv, PolledPart, Mine, Asked, Mailed, Conn, Live
<1> QED BY <1>2, <1>3, <1>4, <1>5, <1>6, <1>7, <1>8, <1>9, <1>10, <1>11, <1>12 DEF NetInv

(* ... and every step keeps it, the parts it is made of together.          *)
LEMMA NetSteps ==
    ASSUME NetInv, NetNext
    PROVE  NetInv'
<1>1. fault = "none"
  BY DEF NetNext
<1>2. CASE ServiceCalls
  BY <1>1, <1>2, CallOk, ExitOk DEF ServiceCalls
<1>3. CASE ServiceStep
  <2>1. ReadClosed => NetInv'
    BY <1>1, ReadClosedAgainOk, ReadClosedOk
  <2>2. ReadEnd => NetInv'
    BY <1>1, ReadEndAgainOk, ReadEndOk
  <2>3. TakeReadRet => NetInv'
    BY <1>1, TakeReadRetOk, TakeStaleRetOk
  <2>4. SendDirect => NetInv'
    BY <1>1, SendDirectGoneOk, SendDirectOk
  <2>5. CloseMark => NetInv'
    BY <1>1, CloseAgainOk, CloseMarkOk
  <2>6. SendClosed \/ TurnedAway => NetInv'
    BY <1>1, SendClosedOk
  <2> QED BY <1>1, <1>3, <2>1, <2>2, <2>3, <2>4, <2>5, <2>6, TakeConnInOk, ReadRefusedOk,
         ReadDataOk, ReadNothingOk, ReadOpenOk, ReadWaitOk, SendBehindOk, SendEnqueueOk,
         SendWaitOk, CloseSendOk DEF ServiceStep
<1>4. CASE NetStep
  <2>1. DoTcpAdd => NetInv'
    BY <1>1, TcpAddOk, TcpRefusedOk
  <2>2. DoReadWait => NetInv'
    BY <1>1, ReadAnsweredOk, ReadDroppedOk, ReadParkedOk
  <2>3. DoReadOver => NetInv'
    BY <1>1, ReadOverLaterOk, ReadOverNowOk
  <2>4. CloseNow => NetInv'
    BY <1>1, CloseTellsOk, CloseDropsOk, CloseRecyclesOk
  <2>5. FillEnd => NetInv'
    <3>1. io.peer \in {"open", "half", "gone"}
      BY DEF NetInv, NetTypes, IoType
    <3> QED BY <1>1, <3>1, FillEndsOk, FillBrokenOk, FillHalfOk, FillOpenOk
  <2>6. Trigger => NetInv'
    BY <1>1, TriggerTellsOk, TriggerDropsOk, TriggerWaitsOk
  <2>7. SentAll => NetInv'
    BY <1>1, NotAllSentOk, SentAllOk
  <2> QED BY <1>1, <1>4, <2>1, <2>2, <2>3, <2>4, <2>5, <2>6, <2>7, DoSendWaitOk,
         CloseIgnoredOk, CloseLaterOk, SlotFreeOk, NotifiedOk, PollReadOk, PollSendOk,
         FillOk, SendLoadOk, NothingToSendOk, SendSomeOk, SubtractOk, SendFailsOk
         DEF NetStep
<1> QED BY <1>1, <1>2, <1>3, <1>4, UseStaleOk, AcceptOk, TaskStaleOk, PeerSendOk, PeerEndOk
       DEF NetNext

(* NetInv holds of every behaviour of the slot.                            *)
THEOREM NetIsInductive == NetSpec => []NetInv
<1>1. NetInit => NetInv
  BY NetStarts
<1>2. NetInv /\ [NetNext]_allVars => NetInv'
  BY NetSteps, NetStays
<1> QED BY <1>1, <1>2, PTL DEF NetSpec

(* For any number of connections, bytes and sends: a slot and its          *)
(* descriptor go to the next connection only when the service has closed   *)
(* the one before or a read of it is over (recycle_ctx and its callers),   *)
(* and a request for an earlier connection is for one that was closed.     *)
THEOREM SlotIsOfOneUser == NetSpec => []SlotOfOneUser
<1>1. NetInv => SlotOfOneUser
  <2> SUFFICES ASSUME NetInv PROVE SlotOfOneUser
    OBVIOUS
  <2>1. UserPart
    BY DEF NetInv
  <2> QED BY <2>1 DEF UserPart, Live, Conn, SlotOfOneUser, SlotNotTakenFromUser,
         RecycledTwiceOnlyAfterClose, FdClosedWithSlot
<1> QED BY <1>1, NetIsInductive, PTL

(* A read that was answered 0 is answered, in a request, or polled for,    *)
(* or a close found bytes unsent (do_tcp_close).                           *)
THEOREM NoReaderIsLost == NetSpec => []NoLostReader
<1>1. NetInv => NoLostReader
  <2> SUFFICES ASSUME NetInv, NEW c \in waiting, ~closedUnsent, op # c, ~Mailed("read_ret", c)
               PROVE  cnt = c /\ Live /\ (Asked("READ_WAIT", c) \/ readRuntime.wait)
                      /\ WaitPart
    <3>1. NetInv => \A c \in waiting : Mailed("read_ret", c) => InMail("read_ret", c)
      <4> SUFFICES ASSUME NetInv, NEW c \in waiting, NEW i \in 1 .. Len(inbox),
                          inbox[i].cmd = "read_ret", inbox[i].id = c
                   PROVE  inbox[i] = [cmd |-> "read_ret", id |-> c]
        BY DEF Mailed, Has, InMail, Msg
      <4>1. inbox[i] \in MailType
        BY DEF NetInv, NetTypes
      <4> QED BY <4>1 DEF MailType
    <3> QED BY <3>1 DEF NoLostReader, WaitPart, Live, Conn, Watched, Asked, Has, InQueue
  <2>1. WaitPart
    BY DEF NetInv
  <2> QED BY <2>1 DEF WaitPart
<1> QED BY <1>1, NetIsInductive, PTL

(* Bytes go out in the order of the sends, whichever thread writes them,   *)
(* and unsent ones are polled for while the connection lasts.              *)
THEOREM SendsInOrder == NetSpec => []SentInOrder
<1>1. NetInv => SentInOrder
  <2> SUFFICES ASSUME NetInv PROVE SentInOrder
    OBVIOUS
  <2>1. OrderPart /\ PolledPart
    BY DEF NetInv
  <2> QED BY <2>1 DEF OrderPart, InHand, PolledPart, SentInOrder, At, Asked, Has, InQueue,
         Live, Conn
<1> QED BY <1>1, NetIsInductive, PTL
=============================================================================
