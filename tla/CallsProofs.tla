---------------------------- MODULE CallsProofs ----------------------------
(***************************************************************************)
(* What holds of services that call each other, for any number of slots,   *)
(* calls and services: mail is handled by the service it was sent to, its  *)
(* start before all else, and a call has one request or one answer on its  *)
(* way, which finds it waiting.                                            *)
(*                                                                         *)
(* Two facts carry the proof.  An address is of the past, of a service     *)
(* that lives, or leaked (Reached), and a request is always from one that  *)
(* lived (Had): so nothing is under way for a service yet to be made but   *)
(* what was sent to a leaked address.  And a call is in one home (OneHome):*)
(* every step takes a request or an answer from one home and puts it, or   *)
(* the answer to it, into one other.                                       *)
(***************************************************************************)
EXTENDS Calls, FiniteSetTheorems, WellFoundedInduction, TLAPS

Adr     == [idx : Slots, cnt : Nat]
Message == [kind : Kinds, from : Adr, to : Adr, session : Nat]

Types ==
    /\ state \in [Slots -> {"new", "running", "exiting", "exited", "freeing", "free"}]
    /\ svcCnt \in [Slots -> Nat] /\ svcCntLocal \in [Slots -> Nat]
    /\ mqIn \in [Slots -> Seq(Message)] /\ mqWaitSend \in [Slots -> Seq(Message)]
    /\ cursor \in [Slots -> Nat]
    /\ waiting \in [Slots -> SUBSET Sessions] /\ callId \in [Slots -> Sessions]
    /\ taken \in [Slots -> SUBSET Message] /\ heard \in [Slots -> SUBSET Adr]
    /\ leaked \in SUBSET Adr

(* svc_exit changes both counts, and a new service takes the count it      *)
(* finds; the boot service's first count is past once it has exited.       *)
Counts ==
    /\ svcCntLocal = svcCnt
    /\ svcCnt[Boot] = 0 => Alive(Boot)

Had(a) == a.cnt < svcCnt[a.idx] \/ (a.cnt = svcCnt[a.idx] /\ Alive(a.idx))
Reached(a) == Had(a) \/ (a.cnt = svcCnt[a.idx] /\ a \in leaked)

(* A message of the call with which a waits under k.                       *)
OfCall(m, a, k) ==
    \/ m.kind = "req" /\ m.from = a /\ m.session = k
    \/ IsAnswer(m) /\ m.to = a /\ m.session = k

(* The places of messages: mailboxes, mqWaitSends and handlers.            *)
Homes == {"in", "wait", "taken"} \X Slots
Held(h) == CASE h[1] = "in"   -> ToSet(mqIn[h[2]])
             [] h[1] = "wait" -> ToSet(mqWaitSend[h[2]])
             [] OTHER         -> taken[h[2]]
At(h, a, k) == \E m \in Held(h) : OfCall(m, a, k)

Sound(m) ==
    /\ Reached(m.to) /\ Reached(m.from)
    /\ m.kind = "req" => Had(m.from)
    /\ IsAnswer(m) => Had(m.to)
Roads == \A h \in Homes : \A m \in Held(h) : Sound(m)
Ears  == \A s \in Slots : \A a \in heard[s] : Reached(a)
Taken == \A s \in Slots : \A m \in taken[s] : m.kind = "req"

OneHome ==
    \A a \in Adr, k \in Nat : \A h \in Homes : \A g \in Homes :
        At(h, a, k) /\ At(g, a, k) => h = g
Once(q) ==
    \A i \in DOMAIN q : \A j \in DOMAIN q : \A a \in Adr, k \in Nat :
        OfCall(q[i], a, k) /\ OfCall(q[j], a, k) => i = j
OnceSet(S) ==
    \A m \in S : \A n \in S : \A a \in Adr, k \in Nat :
        OfCall(m, a, k) /\ OfCall(n, a, k) => m = n
OnceEach ==
    \A s \in Slots : Once(mqIn[s]) /\ Once(mqWaitSend[s]) /\ OnceSet(taken[s])

(* What is under way for a service that lives is for a call that waits.    *)
Awaited ==
    \A s \in Slots : \A k \in Nat : \A h \in Homes :
        Alive(s) /\ At(h, Self(s), k) => k \in waiting[s]
Waiters ==
    \A s \in Slots :
        /\ callId[s] \notin waiting[s]
        /\ state[s] # "running" => waiting[s] = {}

(* The start message of a service that has not handled it: ahead in its    *)
(* mailbox, or parked ahead of everything else that is parked for it.      *)
StartAhead(s) == mqIn[s] # << >> /\ Head(mqIn[s]).kind = "start"
ParkedAt(s, c, p) ==
    /\ mqWaitSend[c][p].kind = "start" /\ mqWaitSend[c][p].to = Self(s) /\ cursor[c] <= p
    /\ \A t \in Slots : \A i \in DOMAIN mqWaitSend[t] :
         mqWaitSend[t][i].to = Self(s) => t = c /\ i >= p
StartParked(s) ==
    mqIn[s] = << >> /\ \E c \in Slots : \E p \in DOMAIN mqWaitSend[c] : ParkedAt(s, c, p)
Starts ==
    \A s \in Slots : state[s] = "new" /\ Self(s) \notin leaked
                        => StartAhead(s) \/ StartParked(s)

Mail == \A s \in Slots : \A m \in ToSet(mqIn[s]) :
            m.to.idx = s /\ (ToItsService(m, s) \/ ToLateSender(m, s))

Faults == fault \in {"none", "leaked", "dead"}

CallsInv ==
    /\ Types /\ Counts /\ Roads /\ Ears /\ Taken
    /\ OneHome /\ OnceEach /\ Awaited /\ Waiters /\ Starts /\ Mail /\ Faults

----------------------------------------------------------------------------
(* Queues: one more message, and one less                                  *)

LEMMA AppendMsg ==
    ASSUME NEW q \in Seq(Message), NEW m \in Message
    PROVE  /\ Append(q, m) \in Seq(Message)
           /\ ToSet(Append(q, m)) = ToSet(q) \union {m}
           /\ Once(q) /\ (\A a \in Adr, k \in Nat : OfCall(m, a, k) =>
                             \A n \in ToSet(q) : ~OfCall(n, a, k))
                => Once(Append(q, m))
<1>1. /\ Append(q, m) \in Seq(Message) /\ Len(q) \in Nat /\ Len(Append(q, m)) = Len(q) + 1
      /\ \A i \in 1 .. Len(q) : Append(q, m)[i] = q[i]
      /\ Append(q, m)[Len(q) + 1] = m
      /\ DOMAIN q = 1 .. Len(q) /\ DOMAIN Append(q, m) = 1 .. Len(q) + 1
  OBVIOUS
<1>2. ToSet(Append(q, m)) = ToSet(q) \union {m}
  BY <1>1 DEF ToSet
<1>3. ASSUME Once(q), \A a \in Adr, k \in Nat : OfCall(m, a, k) =>
                         \A n \in ToSet(q) : ~OfCall(n, a, k)
      PROVE  Once(Append(q, m))
  <2> DEFINE r == Append(q, m)
  <2> SUFFICES ASSUME NEW i \in DOMAIN r, NEW j \in DOMAIN r, NEW a \in Adr, NEW k \in Nat,
                      OfCall(r[i], a, k), OfCall(r[j], a, k)
               PROVE  i = j
    BY DEF Once
  <2>1. (i \in 1 .. Len(q) /\ r[i] = q[i]) \/ (i = Len(q) + 1 /\ r[i] = m) BY <1>1
  <2>2. (j \in 1 .. Len(q) /\ r[j] = q[j]) \/ (j = Len(q) + 1 /\ r[j] = m) BY <1>1
  <2>3. \A n \in 1 .. Len(q) : q[n] \in ToSet(q) BY <1>1 DEF ToSet
  <2> HIDE DEF r
  <2>4. CASE i \in 1 .. Len(q) /\ j \in 1 .. Len(q) /\ r[i] = q[i] /\ r[j] = q[j]
    BY <1>1, <1>3, <2>4 DEF Once
  <2>5. CASE i \in 1 .. Len(q) /\ r[i] = q[i] /\ r[j] = m BY <1>3, <2>3, <2>5
  <2>6. CASE j \in 1 .. Len(q) /\ r[j] = q[j] /\ r[i] = m BY <1>3, <2>3, <2>6
  <2> QED BY <2>1, <2>2, <2>4, <2>5, <2>6
<1> QED BY <1>1, <1>2, <1>3

(* r is q without its entry at i. *)
Without(q, i, r) ==
    /\ Len(r) = Len(q) - 1
    /\ \A n \in 1 .. Len(r) : r[n] = IF n < i THEN q[n] ELSE q[n + 1]

(* A queue without one message: of its calls only that message was left.   *)
Drops(q, i, r) ==
    /\ r \in Seq(Message) /\ ToSet(r) \subseteq ToSet(q)
    /\ Once(q) => /\ Once(r)
                  /\ \A a \in Adr, k \in Nat : OfCall(q[i], a, k) =>
                        \A n \in ToSet(r) : ~OfCall(n, a, k)

LEMMA WithoutDrops ==
    ASSUME NEW q \in Seq(Message), NEW r \in Seq(Message), NEW i \in 1 .. Len(q),
           Without(q, i, r)
    PROVE  Drops(q, i, r)
<1> DEFINE e(n) == IF n < i THEN n ELSE n + 1
<1>1. /\ Len(q) \in Nat /\ Len(r) \in Nat /\ Len(r) = Len(q) - 1
      /\ DOMAIN q = 1 .. Len(q) /\ DOMAIN r = 1 .. Len(r)
  BY DEF Without
<1>2. \A n \in 1 .. Len(r) : e(n) \in 1 .. Len(q) /\ e(n) # i
  BY <1>1
<1>3. \A n \in 1 .. Len(r) : r[n] = q[e(n)] BY DEF Without
<1>4. \A n \in 1 .. Len(r) : \A l \in 1 .. Len(r) : e(n) = e(l) => n = l BY <1>1
<1> HIDE DEF e
<1>5. ToSet(r) \subseteq ToSet(q) BY <1>1, <1>2, <1>3 DEF ToSet
<1>6. ASSUME Once(q) PROVE Once(r)
  <2> SUFFICES ASSUME NEW n \in DOMAIN r, NEW l \in DOMAIN r, NEW a \in Adr, NEW k \in Nat,
                      OfCall(r[n], a, k), OfCall(r[l], a, k)
               PROVE  n = l
    BY DEF Once
  <2>1. r[n] = q[e(n)] /\ r[l] = q[e(l)] /\ e(n) \in DOMAIN q /\ e(l) \in DOMAIN q
    BY <1>1, <1>2, <1>3
  <2>2. e(n) = e(l) BY <1>6, <2>1 DEF Once
  <2> QED BY <1>1, <1>4, <2>2
<1>7. ASSUME Once(q), NEW a \in Adr, NEW k \in Nat, OfCall(q[i], a, k), NEW x \in ToSet(r)
      PROVE  ~OfCall(x, a, k)
  <2>1. PICK n \in 1 .. Len(r) : x = r[n] BY <1>1 DEF ToSet
  <2>2. x = q[e(n)] /\ e(n) \in DOMAIN q /\ e(n) # i /\ i \in DOMAIN q
    BY <1>1, <1>2, <1>3, <2>1
  <2> QED BY <1>7, <2>2 DEF Once
<1> QED BY <1>5, <1>6, <1>7 DEF Drops

LEMMA TailDrops ==
    ASSUME NEW q \in Seq(Message), q # << >>
    PROVE  Drops(q, 1, Tail(q)) /\ Head(q) = q[1] /\ Head(q) \in ToSet(q)
           /\ Head(q) \in Message
<1>1. Tail(q) \in Seq(Message) /\ 1 \in 1 .. Len(q) /\ Head(q) = q[1] OBVIOUS
<1>2. Without(q, 1, Tail(q)) BY DEF Without
<1>3. \A r \in Seq(Message), i \in 1 .. Len(q) : Without(q, i, r) => Drops(q, i, r)
  BY WithoutDrops
<1>4. Head(q) \in ToSet(q) /\ Head(q) \in Message BY <1>1 DEF ToSet
<1> QED BY <1>1, <1>2, <1>3, <1>4

LEMMA ConcatMsgs ==
    ASSUME NEW q \in Seq(Message), NEW r \in Seq(Message)
    PROVE  q \o r \in Seq(Message) /\ Len(q \o r) = Len(q) + Len(r)
OBVIOUS

LEMMA Shifted ==
    \A n, i, la, lb, lq \in Int : n >= i /\ n <= lq - 1 /\ la = i - 1 /\ lb = lq - i =>
        /\ n - la \in 1 .. lb /\ n - la \in 1 .. lq - i
        /\ i + (n - la) = n + 1 /\ (n - la) + la = n
OBVIOUS

LEMMA RemoveAtDrops ==
    ASSUME NEW q \in Seq(Message), NEW i \in DOMAIN q
    PROVE  Without(q, i, RemoveAt(q, i)) /\ Drops(q, i, RemoveAt(q, i))
<1> DEFINE a == SubSeq(q, 1, i - 1)
           b == SubSeq(q, i + 1, Len(q))
<1>0. Len(q) \in Nat /\ DOMAIN q = 1 .. Len(q) /\ i \in Nat /\ i - 1 \in Nat /\ i \in 1 .. Len(q)
  OBVIOUS
<1>1. a \in Seq(Message) /\ Len(a) = i - 1 /\ \A n \in 1 .. i - 1 : a[n] = q[n]
  <2>1. 1 .. i - 1 \subseteq 1 .. Len(q) BY <1>0
  <2>2. \A n \in 1 .. i - 1 : q[n] \in Message BY <2>1
  <2>3. Len(a) = i - 1 /\ \A n \in 1 .. i - 1 : a[n] = q[n] BY <1>0
  <2> QED BY <1>0, <2>1, <2>2, <2>3
<1>2. /\ b \in Seq(Message) /\ Len(b) = Len(q) - i
      /\ \A n \in 1 .. Len(q) - i : b[n] = q[i + n]
  BY <1>0
<1> HIDE DEF a, b
<1>3. a \o b \in Seq(Message) /\ Len(a \o b) = Len(a) + Len(b)
  BY <1>1, <1>2, ConcatMsgs
<1>4. \A n \in 1 .. Len(a) : (a \o b)[n] = a[n]
  BY <1>1, <1>2
<1>5. \A n \in 1 .. Len(b) : (a \o b)[n + Len(a)] = b[n]
  BY <1>1, <1>2
<1>6. \A n \in 1 .. Len(q) - 1 : (a \o b)[n] = IF n < i THEN q[n] ELSE q[n + 1]
  <2> SUFFICES ASSUME NEW n \in 1 .. Len(q) - 1
               PROVE  (a \o b)[n] = IF n < i THEN q[n] ELSE q[n + 1]
    OBVIOUS
  <2>1. CASE n < i BY <2>1, <1>0, <1>1, <1>4
  <2>2. CASE ~(n < i)
    <3>1. /\ n - Len(a) \in 1 .. Len(b) /\ n - Len(a) \in 1 .. Len(q) - i
          /\ i + (n - Len(a)) = n + 1 /\ (n - Len(a)) + Len(a) = n
      <4>1. Len(a) = i - 1 /\ Len(b) = Len(q) - i /\ n \in Int /\ i \in Nat /\ Len(q) \in Nat
        BY <1>0, <1>1, <1>2
      <4>2. n >= i /\ n <= Len(q) - 1
        BY <2>2, <1>0
      <4>3. i \in Int /\ Len(q) \in Int /\ Len(a) \in Int /\ Len(b) \in Int
        BY <4>1
      <4>4. PICK la, lb, lq : la = Len(a) /\ lb = Len(b) /\ lq = Len(q)
        OBVIOUS
      <4>5. /\ n \in Int /\ i \in Int /\ la \in Int /\ lb \in Int /\ lq \in Int
            /\ n >= i /\ n <= lq - 1 /\ la = i - 1 /\ lb = lq - i
        BY <4>1, <4>2, <4>3, <4>4
      <4> HIDE <4>1, <4>2, <4>3
      <4>6. /\ n - la \in 1 .. lb /\ n - la \in 1 .. lq - i
            /\ i + (n - la) = n + 1 /\ (n - la) + la = n
        BY <4>5, Shifted
      <4> QED BY <4>4, <4>6
    <3>2. (a \o b)[n] = b[n - Len(a)] BY <3>1, <1>5
    <3> QED BY <2>2, <3>1, <3>2, <1>2
  <2> QED BY <2>1, <2>2
<1>7. Len(a \o b) = Len(q) - 1 BY <1>0, <1>1, <1>2, <1>3
<1>8. RemoveAt(q, i) = a \o b BY DEF RemoveAt, a, b
<1>9. Without(q, i, RemoveAt(q, i)) BY <1>6, <1>7, <1>8 DEF Without
<1>10. \A r \in Seq(Message), n \in 1 .. Len(q) : Without(q, n, r) => Drops(q, n, r)
  BY WithoutDrops
<1> QED BY <1>0, <1>3, <1>8, <1>9, <1>10

----------------------------------------------------------------------------
(* Session ids                                                             *)

(* Every set of natural numbers has a least one.                           *)
LEMMA LeastOf ==
    ASSUME NEW T \in SUBSET Nat, T # {}
    PROVE  \E x \in T : \A y \in T : x <= y
<1>1. PICK n \in T : TRUE OBVIOUS
<1> DEFINE S == 0 .. n
           R == {0 .. x : x \in {y \in T : y <= n}}
<1>2. IsFiniteSet(S) BY FS_Interval
<1>3. IsWellFoundedOn(StrictSubsetOrdering(S), SUBSET S)
  BY <1>2, FS_StrictSubsetOrderingWellFounded, FS_FiniteSubsetsOfFinite
<1>4. R \subseteq SUBSET S /\ R # {} BY <1>1
<1>5. PICK r \in R : \A q \in R : <<q, r>> \notin StrictSubsetOrdering(S)
  <2> HIDE DEF R, S
  <2> QED BY <1>3, <1>4, WFMin
<1>6. \A q \in R : ~(q \subseteq r /\ q # r)
  BY <1>4, <1>5 DEF StrictSubsetOrdering
<1>7. PICK x \in T : x <= n /\ r = 0 .. x BY <1>5
<1>8. ASSUME NEW y \in T, y < x PROVE FALSE
  <2>1. 0 .. y \in R BY <1>1, <1>7, <1>8
  <2>2. 0 .. y \subseteq 0 .. x /\ x \in 0 .. x /\ x \notin 0 .. y BY <1>8
  <2> QED BY <2>1, <2>2, <1>6, <1>7
<1> QED BY <1>8

LEMMA RestOf ==
    ASSUME NEW N \in Nat, NEW x \in Nat, x < 2 * N
    PROVE  x % N = IF x < N THEN x ELSE x - N
OBVIOUS

(* The next id is free, and another than the last.                         *)
LEMMA NextIdFree ==
    ASSUME NEW k \in Sessions, NEW busy \in SUBSET Sessions, Sessions \ busy # {k}, k \notin busy
    PROVE  NextId(k, busy) \in Sessions \ busy /\ NextId(k, busy) # k
<1> DEFINE free == Sessions \ busy
           distance(i) == (i - After(k) + MaxCallId) % MaxCallId
           Least(i) == \A j \in free : distance(i) <= distance(j)
<1>1. MaxCallId \in Nat /\ MaxCallId >= 2 /\ k \in 1 .. MaxCallId
  BY CallIdAssumption DEF Sessions
<1>2. \A i \in 1 .. MaxCallId : i # k =>
         distance(i) = IF k >= MaxCallId THEN i - 1 
                       ELSE IF i > k THEN i - k - 1 ELSE i - k - 1 + MaxCallId
  <2> SUFFICES ASSUME NEW i \in 1 .. MaxCallId, i # k
               PROVE distance(i) = IF k >= MaxCallId THEN i - 1 
                       ELSE IF i > k THEN i - k - 1 ELSE i - k - 1 + MaxCallId
    OBVIOUS
  <2> DEFINE x == i - After(k) + MaxCallId
  <2>1. x \in Nat /\ x < 2 * MaxCallId BY <1>1 DEF After
  <2>2. x % MaxCallId = IF x < MaxCallId THEN x ELSE x - MaxCallId BY <1>1, <2>1, RestOf
  <2> QED BY <1>1, <2>2 DEF After
<1>3. distance(k) = MaxCallId - 1
  <2> DEFINE x == k - After(k) + MaxCallId
  <2>1. x \in Nat /\ x < 2 * MaxCallId BY <1>1 DEF After
  <2>2. x % MaxCallId = IF x < MaxCallId THEN x ELSE x - MaxCallId BY <1>1, <2>1, RestOf
  <2> QED BY <1>1, <2>2 DEF After
<1>4. \A i \in free : distance(i) \in Nat /\ (i # k => distance(i) < distance(k))
  BY <1>1, <1>2, <1>3 DEF Sessions
<1>5. \E i \in free : i # k
  OBVIOUS
<1> HIDE DEF distance
<1>6. \E i \in free : Least(i)
  <2> DEFINE T == {distance(i) : i \in free}
  <2>1. T \in SUBSET Nat /\ T # {} BY <1>4, <1>5
  <2>2. \E x \in T : \A y \in T : x <= y BY <2>1, LeastOf
  <2> QED BY <2>2
<1>7. NextId(k, busy) = CHOOSE i \in free : Least(i) BY DEF NextId, distance
<1>8. NextId(k, busy) \in free /\ Least(NextId(k, busy)) BY <1>6, <1>7
<1>9. NextId(k, busy) # k
  BY <1>4, <1>5, <1>8, <1>1, <1>3
<1> QED BY <1>8, <1>9
----------------------------------------------------------------------------
(* The beginning                                                           *)

LEMMA ConstantsFit ==
    /\ Sessions \subseteq Nat /\ 1 \in Sessions /\ Addresses \subseteq Adr
    /\ Nobody \in Adr /\ Boot \in Slots
<1>1. MaxCallId \in Nat /\ MaxCallId >= 1 BY CallIdAssumption
<1>2. Sessions \subseteq Nat /\ 1 \in Sessions BY <1>1 DEF Sessions
<1>3. Addresses \subseteq Adr BY BoundsAssumption DEF Addresses, Adr
<1> QED BY <1>2, <1>3, BootAssumption DEF Nobody, Adr

LEMMA HomesAre ==
    /\ \A s \in Slots : <<"in", s>> \in Homes /\ <<"wait", s>> \in Homes
                        /\ <<"taken", s>> \in Homes
    /\ \A h \in Homes : \E s \in Slots : h = <<"in", s>> \/ h = <<"wait", s>>
                                         \/ h = <<"taken", s>>
BY DEF Homes

LEMMA HeldAre ==
    \A s \in Slots : /\ Held(<<"in", s>>) = ToSet(mqIn[s])
                     /\ Held(<<"wait", s>>) = ToSet(mqWaitSend[s])
                     /\ Held(<<"taken", s>>) = taken[s]
BY DEF Held

LEMMA HeldAreNext ==
    \A s \in Slots : /\ Held(<<"in", s>>)' = ToSet(mqIn[s])'
                     /\ Held(<<"wait", s>>)' = ToSet(mqWaitSend[s])'
                     /\ Held(<<"taken", s>>)' = taken[s]'
BY DEF Held

LEMMA HeldTypes ==
    Types => \A h \in Homes : Held(h) \subseteq Message
<1> SUFFICES ASSUME Types, NEW h \in Homes PROVE Held(h) \subseteq Message
  OBVIOUS
<1>1. \A s \in Slots : mqIn[s] \in Seq(Message) /\ mqWaitSend[s] \in Seq(Message)
                       /\ taken[s] \subseteq Message
  BY DEF Types
<1>2. \A q \in Seq(Message) : ToSet(q) \subseteq Message BY DEF ToSet
<1> QED BY <1>1, <1>2, HomesAre, HeldAre

LEMMA CallsInit ==
    Init => CallsInv
<1> SUFFICES ASSUME Init PROVE CallsInv
  OBVIOUS
<1> DEFINE start == Msg("start", Nobody, [idx |-> Boot, cnt |-> 0], 0)
<1>a. /\ state = [s \in Slots |-> IF s = Boot THEN "new" ELSE "free"]
      /\ svcCnt = [s \in Slots |-> 0] /\ svcCntLocal = [s \in Slots |-> 0]
      /\ mqIn = [s \in Slots |-> IF s = Boot THEN <<start>> ELSE << >>]
      /\ mqWaitSend = [s \in Slots |-> << >>] /\ cursor = [s \in Slots |-> 0]
      /\ waiting = [s \in Slots |-> {}] /\ callId = [s \in Slots |-> 1]
      /\ taken = [s \in Slots |-> {}] /\ heard = [s \in Slots |-> {}]
      /\ leaked = {} /\ fault = "none"
  BY DEF Init
<1>b. /\ start \in Message /\ start.kind = "start" /\ start.from = Nobody
      /\ start.to = [idx |-> Boot, cnt |-> 0] /\ start.to.idx = Boot /\ start.to.cnt = 0
  BY ConstantsFit DEF Msg, Message, Kinds, Adr
<1> HIDE DEF start
<1>c. /\ << >> \in Seq(Message) /\ <<start>> \in Seq(Message) /\ ToSet(<< >>) = {}
      /\ ToSet(<<start>>) = {start} /\ <<start>> # << >> /\ Head(<<start>>) = start
  <2>1. << >> \in Seq(Message) /\ <<start>> \in Seq(Message) BY <1>b
  <2>2. ToSet(<< >>) = {} BY DEF ToSet
  <2>3. ToSet(<<start>>) = {start} BY DEF ToSet
  <2> QED BY <2>1, <2>2, <2>3
<1>1. Types
  <2>1. mqIn \in [Slots -> Seq(Message)] BY <1>a, <1>c
  <2>2. mqWaitSend \in [Slots -> Seq(Message)] BY <1>a, <1>c
  <2>3. /\ state \in [Slots -> {"new", "running", "exiting", "exited", "freeing", "free"}]
        /\ svcCnt \in [Slots -> Nat] /\ svcCntLocal \in [Slots -> Nat]
        /\ cursor \in [Slots -> Nat] /\ leaked \in SUBSET Adr
    BY <1>a
  <2>4. /\ waiting \in [Slots -> SUBSET Sessions] /\ callId \in [Slots -> Sessions]
        /\ taken \in [Slots -> SUBSET Message] /\ heard \in [Slots -> SUBSET Adr]
    BY <1>a, ConstantsFit
  <2> QED BY <2>1, <2>2, <2>3, <2>4 DEF Types
<1>2. Counts BY <1>a, BootAssumption DEF Counts, Alive
<1>3. \A h \in Homes : Held(h) \subseteq {start}
  BY <1>a, <1>c, HomesAre, HeldAre
<1>4. Sound(start)
  <2>1. Nobody.idx = Boot /\ Nobody.cnt = 0 BY DEF Nobody
  <2>2. svcCnt[Boot] = 0 /\ Alive(Boot) BY <1>a, BootAssumption DEF Alive
  <2> QED BY <1>b, <2>1, <2>2 DEF Sound, Reached, Had, IsAnswer
<1>5. Roads BY <1>3, <1>4 DEF Roads
<1>6. \A a, k : ~OfCall(start, a, k) BY <1>b DEF OfCall, IsAnswer
<1>7. OneHome /\ Awaited BY <1>3, <1>6 DEF OneHome, Awaited, At
<1>8. OnceEach
  <2>1. Once(<< >>) BY DEF Once
  <2>2. Once(<<start>>) BY DEF Once
  <2> QED BY <1>a, <2>1, <2>2 DEF OnceEach, OnceSet
<1>9. Ears /\ Taken /\ Waiters /\ Faults BY <1>a DEF Ears, Taken, Waiters, Faults
<1>10. Starts BY <1>a, <1>b, <1>c DEF Starts, StartAhead
<1>11. Mail
  BY <1>a, <1>b, <1>c DEF Mail, ToItsService, Alive
<1> QED BY <1>1, <1>2, <1>5, <1>7, <1>8, <1>9, <1>10, <1>11 DEF CallsInv

----------------------------------------------------------------------------
(* What the steps have in common                                           *)

(* What has been reached stays so, when no service exits.                  *)
LEMMA RoadsStay ==
    ASSUME svcCnt' = svcCnt, \A s \in Slots : Alive(s) => Alive(s)', leaked \subseteq leaked'
    PROVE  /\ \A a \in Adr : (Had(a) => Had(a)') /\ (Reached(a) => Reached(a)')
           /\ \A m \in Message : Sound(m) => Sound(m)'
<1>1. \A a \in Adr : (Had(a) => Had(a)') /\ (Reached(a) => Reached(a)')
  BY DEF Adr, Had, Reached
<1>2. \A m \in Message : m.to \in Adr /\ m.from \in Adr BY DEF Message
<1> QED BY <1>1, <1>2 DEF Sound

(* Of the calls that m is a message of, S has none.                        *)
NoneOf(m, S) == \A a \in Adr, k \in Nat : OfCall(m, a, k) => \A n \in S : ~OfCall(n, a, k)

(* A step that takes messages away, and puts m, if anything, in one home:  *)
(* q and w are the mailboxes and the parked messages without m.            *)
Puts(q, w, s, m) ==
    \/ mqIn' = [q EXCEPT ![m.to.idx] = Append(@, m)] /\ mqWaitSend' = w
    \/ mqWaitSend' = [w EXCEPT ![s] = Append(@, m)] /\ mqIn' = q

(* What is left when nothing is put. *)
Left(q, w) ==
    /\ q \in [Slots -> Seq(Message)] /\ w \in [Slots -> Seq(Message)]
    /\ \A d \in Slots : /\ ToSet(q[d]) \subseteq ToSet(mqIn[d]) /\ Once(q[d])
                        /\ ToSet(w[d]) \subseteq ToSet(mqWaitSend[d]) /\ Once(w[d])
    /\ taken' \in [Slots -> SUBSET Message]
    /\ \A d \in Slots : taken'[d] \subseteq taken[d]

LEMMA AllLeft ==
    ASSUME CallsInv, taken' = taken
    PROVE  Left(mqIn, mqWaitSend)
BY DEF CallsInv, Types, OnceEach, Left

LEMMA LeavesCalls ==
    ASSUME CallsInv, NEW q, NEW w, Left(q, w), mqIn' = q, mqWaitSend' = w
    PROVE  /\ OneHome' /\ OnceEach'
           /\ mqIn' \in [Slots -> Seq(Message)] /\ mqWaitSend' \in [Slots -> Seq(Message)]
           /\ taken' \in [Slots -> SUBSET Message]
           /\ \A h \in Homes : Held(h)' \subseteq Held(h)
<1>1. \A h \in Homes : Held(h)' \subseteq Held(h)
  <2> SUFFICES ASSUME NEW h \in Homes PROVE Held(h)' \subseteq Held(h)
    OBVIOUS
  <2>1. PICK d \in Slots : h = <<"in", d>> \/ h = <<"wait", d>> \/ h = <<"taken", d>>
    BY HomesAre
  <2>2. /\ ToSet(mqIn[d])' \subseteq ToSet(mqIn[d])
        /\ ToSet(mqWaitSend[d])' \subseteq ToSet(mqWaitSend[d])
        /\ taken[d]' \subseteq taken[d]
    BY DEF Left
  <2> QED BY <2>1, <2>2, HeldAre, HeldAreNext
<1>2. OneHome' BY <1>1 DEF CallsInv, OneHome, At
<1>3. OnceEach'
  <2>1. \A d \in Slots : OnceSet(taken[d]) BY DEF CallsInv, OnceEach
  <2>2. \A d \in Slots : OnceSet(taken'[d]) BY <2>1 DEF Left, OnceSet
  <2> QED BY <2>2 DEF OnceEach, Left
<1> QED BY <1>1, <1>2, <1>3 DEF Left

LEMMA PutsCalls ==
    ASSUME CallsInv, NEW q, NEW w, Left(q, w), NEW s \in Slots, NEW m \in Message,
           Puts(q, w, s, m),
           \A d \in Slots : NoneOf(m, ToSet(q[d])) /\ NoneOf(m, ToSet(w[d]))
                            /\ NoneOf(m, taken'[d])
    PROVE  /\ OneHome' /\ OnceEach'
           /\ mqIn' \in [Slots -> Seq(Message)] /\ mqWaitSend' \in [Slots -> Seq(Message)]
           /\ taken' \in [Slots -> SUBSET Message]
           /\ \A h \in Homes : Held(h)' \subseteq Held(h) \union {m}
           /\ \A d \in Slots : ToSet(mqIn'[d]) \subseteq ToSet(mqIn[d])
                                 \/ (d = m.to.idx /\ ToSet(mqIn'[d]) \subseteq ToSet(mqIn[d]) \union {m})
<1>a. m.to.idx \in Slots BY DEF Message, Adr
<1>b. /\ q \in [Slots -> Seq(Message)] /\ w \in [Slots -> Seq(Message)]
      /\ taken' \in [Slots -> SUBSET Message]
  BY DEF Left
<1>c. \A d \in Slots : /\ ToSet(q[d]) \subseteq ToSet(mqIn[d]) /\ Once(q[d])
                       /\ ToSet(w[d]) \subseteq ToSet(mqWaitSend[d]) /\ Once(w[d])
                       /\ taken'[d] \subseteq taken[d]
  BY DEF Left
<1>h. \A a \in Adr, k \in Nat : OfCall(m, a, k) => \A d \in Slots :
        /\ \A n \in ToSet(q[d]) : ~OfCall(n, a, k)
        /\ \A n \in ToSet(w[d]) : ~OfCall(n, a, k)
        /\ \A n \in taken'[d] : ~OfCall(n, a, k)
  BY DEF NoneOf
<1>d. \A d \in Slots : /\ Append(q[d], m) \in Seq(Message) /\ Once(Append(q[d], m))
                       /\ ToSet(Append(q[d], m)) = ToSet(q[d]) \union {m}
  BY <1>b, <1>c, <1>h, AppendMsg
<1>e. \A d \in Slots : /\ Append(w[d], m) \in Seq(Message) /\ Once(Append(w[d], m))
                       /\ ToSet(Append(w[d], m)) = ToSet(w[d]) \union {m}
  BY <1>b, <1>c, <1>h, AppendMsg
<1>f. \A d \in Slots : OnceSet(taken[d]) BY DEF CallsInv, OnceEach
<1>g. \A d \in Slots : OnceSet(taken'[d]) BY <1>c, <1>f DEF OnceSet
<1>1. PICK hn \in Homes :
        /\ \A h \in Homes : Held(h)' \subseteq Held(h) \union {m}
        /\ \A a \in Adr, k \in Nat : OfCall(m, a, k) =>
              \A h \in Homes : h # hn => \A n \in Held(h)' : ~OfCall(n, a, k)
        /\ \A h \in Homes : h # hn => Held(h)' \subseteq Held(h)
        /\ mqIn' \in [Slots -> Seq(Message)] /\ mqWaitSend' \in [Slots -> Seq(Message)]
        /\ \A d \in Slots : Once(mqIn'[d]) /\ Once(mqWaitSend'[d])
        /\ \A d \in Slots : ToSet(mqIn'[d]) \subseteq ToSet(mqIn[d])
                 \/ (d = m.to.idx /\ ToSet(mqIn'[d]) \subseteq ToSet(mqIn[d]) \union {m})
  <2>1. CASE mqIn' = [q EXCEPT ![m.to.idx] = Append(@, m)] /\ mqWaitSend' = w
    <3> DEFINE hn == <<"in", m.to.idx>>
    <3>1. \A d \in Slots : mqIn'[d] = IF d = m.to.idx THEN Append(q[d], m) ELSE q[d]
      BY <1>a, <1>b, <2>1
    <3>2. mqIn' \in [Slots -> Seq(Message)] BY <1>a, <1>b, <1>d, <2>1
    <3>3. \A d \in Slots : Once(mqIn'[d]) /\ Once(mqWaitSend'[d]) BY <1>c, <1>d, <2>1, <3>1
    <3>4. \A d \in Slots : d # m.to.idx => ToSet(mqIn'[d]) = ToSet(q[d]) BY <3>1
    <3>5. ToSet(mqIn'[m.to.idx]) = ToSet(q[m.to.idx]) \union {m} BY <1>a, <1>d, <3>1
    <3>6. \A h \in Homes : h # hn => Held(h)' \subseteq Held(h)
      <4> SUFFICES ASSUME NEW h \in Homes, h # hn PROVE Held(h)' \subseteq Held(h)
        OBVIOUS
      <4>1. PICK d \in Slots : h = <<"in", d>> \/ h = <<"wait", d>> \/ h = <<"taken", d>>
        BY HomesAre
      <4>2. CASE h = <<"in", d>>
        <5>1. d # m.to.idx BY <4>2
        <5>2. ToSet(mqIn[d])' \subseteq ToSet(mqIn[d]) BY <1>c, <3>4, <5>1
        <5> QED BY <4>2, <5>2, HeldAre, HeldAreNext
      <4>3. CASE h = <<"wait", d>>
        <5>1. ToSet(mqWaitSend[d])' \subseteq ToSet(mqWaitSend[d]) BY <1>c, <2>1
        <5> QED BY <4>3, <5>1, HeldAre, HeldAreNext
      <4>4. CASE h = <<"taken", d>> BY <1>c, <4>4, HeldAre, HeldAreNext
      <4> QED BY <4>1, <4>2, <4>3, <4>4
    <3>7. \A h \in Homes : Held(h)' \subseteq Held(h) \union {m}
      BY <1>a, <1>c, <3>5, <3>6, HeldAre, HeldAreNext
    <3>8. \A a \in Adr, k \in Nat : OfCall(m, a, k) =>
              \A h \in Homes : h # hn => \A n \in Held(h)' : ~OfCall(n, a, k)
      <4> SUFFICES ASSUME NEW a \in Adr, NEW k \in Nat, OfCall(m, a, k),
                          NEW h \in Homes, h # hn, NEW n \in Held(h)'
                   PROVE  ~OfCall(n, a, k)
        OBVIOUS
      <4>1. PICK d \in Slots : h = <<"in", d>> \/ h = <<"wait", d>> \/ h = <<"taken", d>>
        BY HomesAre
      <4>2. CASE h = <<"in", d>>
        <5>1. d # m.to.idx BY <4>2
        <5>2. n \in ToSet(q[d]) BY <3>4, <4>2, <5>1, HeldAreNext
        <5> QED BY <1>h, <5>2
      <4>3. CASE h = <<"wait", d>>
        <5>1. n \in ToSet(w[d]) BY <2>1, <4>3, HeldAreNext
        <5> QED BY <1>h, <5>1
      <4>4. CASE h = <<"taken", d>>
        <5>1. n \in taken'[d] BY <4>4, HeldAreNext
        <5> QED BY <1>h, <5>1
      <4> QED BY <4>1, <4>2, <4>3, <4>4
    <3>9. hn \in Homes BY <1>a, HomesAre
    <3>10. \A d \in Slots : ToSet(mqIn'[d]) \subseteq ToSet(mqIn[d])
             \/ (d = m.to.idx /\ ToSet(mqIn'[d]) \subseteq ToSet(mqIn[d]) \union {m})
      BY <1>c, <3>4, <3>5
    <3> HIDE DEF hn
    <3> QED BY <1>b, <2>1, <3>2, <3>3, <3>6, <3>7, <3>8, <3>9, <3>10
  <2>2. CASE mqWaitSend' = [w EXCEPT ![s] = Append(@, m)] /\ mqIn' = q
    <3> DEFINE hn == <<"wait", s>>
    <3>1. \A d \in Slots : mqWaitSend'[d] = IF d = s THEN Append(w[d], m) ELSE w[d]
      BY <1>b, <2>2
    <3>2. mqWaitSend' \in [Slots -> Seq(Message)] BY <1>b, <1>e, <2>2
    <3>3. \A d \in Slots : Once(mqIn'[d]) /\ Once(mqWaitSend'[d]) BY <1>c, <1>e, <2>2, <3>1
    <3>4. \A d \in Slots : d # s => ToSet(mqWaitSend'[d]) = ToSet(w[d]) BY <3>1
    <3>5. ToSet(mqWaitSend'[s]) = ToSet(w[s]) \union {m} BY <1>e, <3>1
    <3>6. \A h \in Homes : h # hn => Held(h)' \subseteq Held(h)
      <4> SUFFICES ASSUME NEW h \in Homes, h # hn PROVE Held(h)' \subseteq Held(h)
        OBVIOUS
      <4>1. PICK d \in Slots : h = <<"in", d>> \/ h = <<"wait", d>> \/ h = <<"taken", d>>
        BY HomesAre
      <4>2. CASE h = <<"wait", d>>
        <5>1. d # s BY <4>2
        <5>2. ToSet(mqWaitSend[d])' \subseteq ToSet(mqWaitSend[d]) BY <1>c, <3>4, <5>1
        <5> QED BY <4>2, <5>2, HeldAre, HeldAreNext
      <4>3. CASE h = <<"in", d>>
        <5>1. ToSet(mqIn[d])' \subseteq ToSet(mqIn[d]) BY <1>c, <2>2
        <5> QED BY <4>3, <5>1, HeldAre, HeldAreNext
      <4>4. CASE h = <<"taken", d>> BY <1>c, <4>4, HeldAre, HeldAreNext
      <4> QED BY <4>1, <4>2, <4>3, <4>4
    <3>7. \A h \in Homes : Held(h)' \subseteq Held(h) \union {m}
      BY <1>c, <3>5, <3>6, HeldAre, HeldAreNext
    <3>8. \A a \in Adr, k \in Nat : OfCall(m, a, k) =>
              \A h \in Homes : h # hn => \A n \in Held(h)' : ~OfCall(n, a, k)
      <4> SUFFICES ASSUME NEW a \in Adr, NEW k \in Nat, OfCall(m, a, k),
                          NEW h \in Homes, h # hn, NEW n \in Held(h)'
                   PROVE  ~OfCall(n, a, k)
        OBVIOUS
      <4>1. PICK d \in Slots : h = <<"in", d>> \/ h = <<"wait", d>> \/ h = <<"taken", d>>
        BY HomesAre
      <4>2. CASE h = <<"wait", d>>
        <5>1. d # s BY <4>2
        <5>2. n \in ToSet(w[d]) BY <3>4, <4>2, <5>1, HeldAreNext
        <5> QED BY <1>h, <5>2
      <4>3. CASE h = <<"in", d>>
        <5>1. n \in ToSet(q[d]) BY <2>2, <4>3, HeldAreNext
        <5> QED BY <1>h, <5>1
      <4>4. CASE h = <<"taken", d>>
        <5>1. n \in taken'[d] BY <4>4, HeldAreNext
        <5> QED BY <1>h, <5>1
      <4> QED BY <4>1, <4>2, <4>3, <4>4
    <3>9. hn \in Homes BY HomesAre
    <3>10. \A d \in Slots : ToSet(mqIn'[d]) \subseteq ToSet(mqIn[d])
      BY <1>c, <2>2
    <3> HIDE DEF hn
    <3> QED BY <1>b, <2>2, <3>2, <3>3, <3>6, <3>7, <3>8, <3>9, <3>10
  <2> QED BY <2>1, <2>2 DEF Puts
<1>2. OneHome'
  <2> SUFFICES ASSUME NEW a \in Adr, NEW k \in Nat, NEW h \in Homes, NEW g \in Homes,
                      At(h, a, k)', At(g, a, k)'
               PROVE  h = g
    BY DEF OneHome
  <2>1. CASE OfCall(m, a, k) BY <1>1, <2>1 DEF At
  <2>2. CASE ~OfCall(m, a, k)
    <3>1. At(h, a, k) /\ At(g, a, k) BY <1>1, <2>2 DEF At
    <3> QED BY <3>1 DEF CallsInv, OneHome
  <2> QED BY <2>1, <2>2
<1>3. OnceEach' BY <1>1, <1>g DEF OnceEach
<1> QED BY <1>1, <1>2, <1>3, <1>b

LEMMA RoadsAfter ==
    ASSUME CallsInv, svcCnt' = svcCnt, \A s \in Slots : Alive(s) => Alive(s)',
           leaked \subseteq leaked',
           \A h \in Homes : \A m \in Held(h)' : m \in Held(h) \/ Sound(m)'
    PROVE  Roads'
<1>1. \A m \in Message : Sound(m) => Sound(m)' BY RoadsStay
<1>2. \A h \in Homes : \A m \in Held(h) : Sound(m) /\ m \in Message
  BY HeldTypes DEF CallsInv, Roads
<1>3. \A h \in Homes : \A m \in Held(h)' : Sound(m)' BY <1>1, <1>2
<1> QED BY <1>3 DEF Roads

LEMMA EarsAfter ==
    ASSUME CallsInv, svcCnt' = svcCnt, \A s \in Slots : Alive(s) => Alive(s)',
           leaked \subseteq leaked',
           \A s \in Slots : \A a \in heard'[s] : a \in heard[s] \/ (a \in Adr /\ Reached(a))
    PROVE  Ears'
<1>1. \A a \in Adr : Reached(a) => Reached(a)' BY RoadsStay
<1>2. \A s \in Slots : \A a \in heard[s] : a \in Adr /\ Reached(a)
  BY DEF CallsInv, Ears, Types
<1>3. \A s \in Slots : \A a \in heard'[s] : Reached(a)' BY <1>1, <1>2
<1> QED BY <1>3 DEF Ears

LEMMA AwaitedAfter ==
    ASSUME CallsInv, \A s \in Slots : Alive(s)' => Alive(s), svcCntLocal' = svcCntLocal,
           \A s \in Slots : waiting[s] \subseteq waiting'[s],
           \A h \in Homes : \A m \in Held(h)' :
               \/ m \in Held(h)
               \/ \A s \in Slots : \A k \in Nat :
                    Alive(s) /\ OfCall(m, Self(s), k) => k \in waiting'[s]
    PROVE  Awaited'
<1> SUFFICES ASSUME NEW s \in Slots, NEW k \in Nat, NEW h \in Homes, Alive(s)',
                    At(h, Self(s), k)'
             PROVE  k \in waiting'[s]
  BY DEF Awaited
<1>1. Self(s)' = Self(s) BY DEF Self
<1>2. PICK m \in Held(h)' : OfCall(m, Self(s), k) BY <1>1 DEF At
<1>a. Alive(s) OBVIOUS
<1>3. CASE m \notin Held(h) BY <1>a, <1>2, <1>3
<1>4. CASE m \in Held(h)
  <2>1. At(h, Self(s), k) BY <1>2, <1>4 DEF At
  <2> QED BY <2>1 DEF CallsInv, Awaited
<1> QED BY <1>3, <1>4

LEMMA MailAfter ==
    ASSUME CallsInv, fault = "none", svcCntLocal' = svcCntLocal,
           \A d \in Slots : Alive(d)' <=> Alive(d),
           \A d \in Slots : state'[d] = "free" => state[d] = "free" \/ mqIn'[d] = << >>,
           \A d \in Slots : \A x \in ToSet(mqIn'[d]) :
               \/ x \in ToSet(mqIn[d])
               \/ /\ x.to.idx = d /\ x.to.cnt = svcCntLocal[d]
                  /\ Alive(d) \/ (x.to \in leaked' /\ fault' = "dead")
    PROVE  Mail'
<1> SUFFICES ASSUME NEW d \in Slots, NEW x \in ToSet(mqIn'[d])
             PROVE  x.to.idx = d /\ (ToItsService(x, d)' \/ ToLateSender(x, d)')
  BY DEF Mail
<1>a. state'[d] = "free" => state[d] = "free"
  <2>1. mqIn'[d] # << >> BY DEF ToSet
  <2> QED BY <2>1
<1>1. CASE x \in ToSet(mqIn[d])
  <2>1. x.to.idx = d /\ ToItsService(x, d)
    BY <1>1 DEF CallsInv, Mail, ToLateSender
  <2> QED BY <1>a, <2>1 DEF ToItsService
<1>2. CASE x.to.idx = d /\ x.to.cnt = svcCntLocal[d] /\ Alive(d)
  <2>1. Alive(d)' BY <1>2
  <2>2. state'[d] # "free" BY <2>1 DEF Alive
  <2> QED BY <1>2, <2>1, <2>2 DEF ToItsService
<1>3. CASE /\ x.to.idx = d /\ x.to.cnt = svcCntLocal[d]
           /\ ~Alive(d) /\ x.to \in leaked' /\ fault' = "dead"
  BY <1>3 DEF ToLateSender
<1> QED BY <1>1, <1>2, <1>3

(* Only a mailbox of a service that lives, or that still was not freed,    *)
(* has mail, as long as nothing went wrong.                                *)
LEMMA OwnMail ==
    ASSUME CallsInv, fault = "none", NEW d \in Slots, NEW x \in ToSet(mqIn[d])
    PROVE  x.to.idx = d /\ state[d] # "free" /\ (Alive(d) => x.to.cnt = svcCntLocal[d])
BY DEF CallsInv, Mail, ToItsService, ToLateSender

(* A start message stays ahead of what is put somewhere, unless that is    *)
(* for the same service, from another slot than the start's.               *)
LEMMA StartStays ==
    ASSUME CallsInv, NEW s0 \in Slots, state[s0] = "new", Self(s0) \notin leaked,
           Self(s0)' = Self(s0), cursor' = cursor,
           NEW q, NEW s \in Slots, NEW m \in Message, Puts(q, mqWaitSend, s, m),
           q \in [Slots -> Seq(Message)], q[s0] = mqIn[s0],
           m.to.cnt = svcCntLocal[m.to.idx],
           \A c \in Slots : \A p \in DOMAIN mqWaitSend[c] :
               ParkedAt(s0, c, p) /\ m.to = Self(s0) => s = c /\ mqIn' = q
    PROVE  StartAhead(s0)' \/ StartParked(s0)'
<1>a. StartAhead(s0) \/ StartParked(s0) BY DEF CallsInv, Starts
<1>b. m.to.idx \in Slots /\ m.to = [idx |-> m.to.idx, cnt |-> m.to.cnt]
  BY DEF Message, Adr
<1>c. mqWaitSend \in [Slots -> Seq(Message)] /\ mqIn \in [Slots -> Seq(Message)]
  BY DEF CallsInv, Types
<1>1. CASE StartAhead(s0)
  <2>1. mqIn[s0] # << >> /\ Head(mqIn[s0]).kind = "start" BY <1>1 DEF StartAhead
  <2>2. mqIn'[s0] = mqIn[s0] \/ mqIn'[s0] = Append(mqIn[s0], m)
    BY <1>b DEF Puts
  <2>3. \A r \in Seq(Message) : r # << >> => Append(r, m) # << >> /\ Head(Append(r, m)) = Head(r)
    OBVIOUS
  <2>4. mqIn'[s0] # << >> /\ Head(mqIn'[s0]).kind = "start" BY <1>c, <2>1, <2>2, <2>3
  <2> QED BY <2>4 DEF StartAhead
<1>2. CASE StartParked(s0)
  <2>0. PICK c \in Slots : \E p \in DOMAIN mqWaitSend[c] : ParkedAt(s0, c, p)
    BY <1>2 DEF StartParked
  <2>1. PICK p \in DOMAIN mqWaitSend[c] : ParkedAt(s0, c, p)
    BY <2>0
  <2>2. mqIn[s0] = << >> BY <1>2 DEF StartParked
  <2>3. mqIn'[s0] = << >>
    <3>1. CASE m.to = Self(s0) BY <2>1, <2>2, <3>1
    <3>2. CASE m.to # Self(s0)
      <4>1. m.to.idx # s0 BY <1>b, <3>2 DEF Self
      <4> QED BY <2>2, <4>1 DEF Puts
    <3> QED BY <3>1, <3>2
  <2>4. \A t \in Slots : \/ mqWaitSend'[t] = mqWaitSend[t]
                         \/ t = s /\ mqWaitSend'[t] = Append(mqWaitSend[t], m)
    BY <1>c DEF Puts
  <2>5. \A r \in Seq(Message) : /\ DOMAIN Append(r, m) = DOMAIN r \union {Len(r) + 1}
                                /\ \A i \in DOMAIN r : i <= Len(r) /\ Append(r, m)[i] = r[i]
                                /\ Append(r, m)[Len(r) + 1] = m /\ Len(r) \in Nat
    OBVIOUS
  <2>b. \A t \in Slots : mqWaitSend[t] \in Seq(Message) BY <1>c
  <2>c. \A i \in DOMAIN mqWaitSend[s] :
          i \in DOMAIN Append(mqWaitSend[s], m) /\ Append(mqWaitSend[s], m)[i] = mqWaitSend[s][i]
    BY <2>b, <2>5
  <2>d. \A t \in Slots : \A i \in DOMAIN mqWaitSend[t] :
          i \in DOMAIN mqWaitSend'[t] /\ mqWaitSend'[t][i] = mqWaitSend[t][i]
    BY <2>4, <2>c
  <2>6. p \in DOMAIN mqWaitSend'[c] /\ mqWaitSend'[c][p] = mqWaitSend[c][p]
    BY <2>d
  <2>e. \A t \in Slots : \A i \in DOMAIN mqWaitSend'[t] :
          i \in DOMAIN mqWaitSend[t]
            \/ (t = s /\ i = Len(mqWaitSend[t]) + 1 /\ mqWaitSend'[t][i] = m)
    <3>1. \A i \in DOMAIN Append(mqWaitSend[s], m) :
            i \in DOMAIN mqWaitSend[s]
              \/ (i = Len(mqWaitSend[s]) + 1 /\ Append(mqWaitSend[s], m)[i] = m)
      BY <2>b, <2>5
    <3> QED BY <2>4, <3>1
  <2>7. \A t \in Slots : \A i \in DOMAIN mqWaitSend'[t] :
          mqWaitSend'[t][i].to = Self(s0) => t = c /\ i >= p
    <3> SUFFICES ASSUME NEW t \in Slots, NEW i \in DOMAIN mqWaitSend'[t],
                        mqWaitSend'[t][i].to = Self(s0)
                 PROVE  t = c /\ i >= p
      OBVIOUS
    <3>1. CASE i \in DOMAIN mqWaitSend[t] /\ mqWaitSend'[t][i] = mqWaitSend[t][i]
      BY <2>1, <3>1 DEF ParkedAt
    <3>2. CASE t = s /\ i = Len(mqWaitSend[t]) + 1 /\ mqWaitSend'[t][i] = m
      <4>1. s = c BY <2>1, <3>2
      <4>2. p <= Len(mqWaitSend[c]) /\ p \in Nat BY <1>c, <2>5
      <4>3. Len(mqWaitSend[c]) \in Nat BY <1>c, <2>5
      <4> QED BY <3>2, <4>1, <4>2, <4>3
    <3> QED BY <2>d, <2>e, <3>1, <3>2
  <2>8. ParkedAt(s0, c, p)' BY <2>1, <2>6, <2>7 DEF ParkedAt
  <2> QED BY <2>3, <2>6, <2>8 DEF StartParked
<1> QED BY <1>a, <1>1, <1>2

(* And it rests where nothing is put.                                      *)
LEMMA StartRests ==
    ASSUME CallsInv, NEW s0 \in Slots, state[s0] = "new", Self(s0) \notin leaked,
           Self(s0)' = Self(s0), mqIn'[s0] = mqIn[s0], mqWaitSend' = mqWaitSend,
           \A c \in Slots : cursor'[c] \in Nat /\ (cursor'[c] <= cursor[c] \/ cursor'[c] <= 1)
    PROVE  StartAhead(s0)' \/ StartParked(s0)'
<1>a. StartAhead(s0) \/ StartParked(s0) BY DEF CallsInv, Starts
<1>1. CASE StartAhead(s0) BY <1>1 DEF StartAhead
<1>2. CASE StartParked(s0)
  <2>0. PICK c \in Slots : \E p \in DOMAIN mqWaitSend[c] : ParkedAt(s0, c, p)
    BY <1>2 DEF StartParked
  <2>1. PICK p \in DOMAIN mqWaitSend[c] : ParkedAt(s0, c, p)
    BY <2>0
  <2>2. p \in Nat /\ p >= 1 /\ cursor[c] \in Nat
    <3>1. mqWaitSend[c] \in Seq(Message) /\ cursor[c] \in Nat BY DEF CallsInv, Types
    <3> QED BY <3>1
  <2>3. cursor'[c] <= p BY <2>1, <2>2 DEF ParkedAt
  <2>4. ParkedAt(s0, c, p)' BY <2>1, <2>3 DEF ParkedAt
  <2> QED BY <1>2, <2>4 DEF StartParked
<1> QED BY <1>a, <1>1, <1>2

----------------------------------------------------------------------------
(* Sending                                                                 *)

LEMMA SendFromPuts ==
    ASSUME NEW s \in Slots, NEW m \in Message, SendFrom(s, m)
    PROVE  /\ Puts(mqIn, mqWaitSend, s, m)
           /\ fault' \in {fault, "dead"}
           /\ mqIn' = mqIn \/ (mqWaitSend[s] = << >> /\ (Alive(m.to.idx) \/ fault' = "dead"))
BY DEF SendFrom, Puts

(* What a message that is put somewhere has to meet for everything but the *)
(* start messages to stay as it is: of its call there is nothing else, and *)
(* the call waits.                                                         *)
LEMMA PutKeeps ==
    ASSUME CallsInv, fault = "none", NEW s \in Slots, NEW m \in Message,
           NEW q, NEW w, Left(q, w), Puts(q, w, s, m),
           UNCHANGED <<serviceVars, heard>>, leaked \subseteq leaked', Sound(m)',
           \A d \in Slots : waiting[d] \subseteq waiting'[d],
           \A d \in Slots : NoneOf(m, ToSet(q[d])) /\ NoneOf(m, ToSet(w[d]))
                            /\ NoneOf(m, taken'[d]),
           \A d \in Slots, k \in Nat : Alive(d) /\ OfCall(m, Self(d), k) => k \in waiting'[d],
           fault' \in {"none", "dead"},
           mqIn' # q => m.to.cnt = svcCnt[m.to.idx] /\ (Alive(m.to.idx) \/ fault' = "dead")
    PROVE  /\ mqIn' \in [Slots -> Seq(Message)] /\ mqWaitSend' \in [Slots -> Seq(Message)]
           /\ Counts' /\ Roads' /\ Ears' /\ Taken' /\ OneHome' /\ OnceEach' /\ Awaited'
           /\ Mail' /\ Faults'
<1>a. state' = state /\ svcCnt' = svcCnt /\ svcCntLocal' = svcCntLocal /\ heard' = heard
  BY DEF serviceVars
<1>b. \A d \in Slots : (Alive(d)' <=> Alive(d)) /\ Self(d)' = Self(d)
  BY <1>a DEF Alive, Self
<1>c. m.to \in Adr /\ m.to.idx \in Slots /\ m \in Message
  BY DEF Message, Adr
<1>d. svcCntLocal = svcCnt BY DEF CallsInv, Counts
<1>1. /\ OneHome' /\ OnceEach'
      /\ mqIn' \in [Slots -> Seq(Message)] /\ mqWaitSend' \in [Slots -> Seq(Message)]
      /\ \A h \in Homes : Held(h)' \subseteq Held(h) \union {m}
      /\ \A d \in Slots : ToSet(mqIn'[d]) \subseteq ToSet(mqIn[d])
                            \/ (d = m.to.idx /\ ToSet(mqIn'[d]) \subseteq ToSet(mqIn[d]) \union {m})
  BY PutsCalls
<1>2. Counts' BY <1>a, <1>b, BootAssumption DEF CallsInv, Counts
<1>3. Roads'
  <2>1. \A h \in Homes : \A x \in Held(h)' : x \in Held(h) \/ Sound(x)' BY <1>1
  <2> QED BY <1>a, <1>b, <2>1, RoadsAfter
<1>4. Ears'
  <2>1. \A d \in Slots : \A a \in heard'[d] : a \in heard[d] BY <1>a
  <2> QED BY <1>a, <1>b, <2>1, EarsAfter
<1>5. Taken' BY DEF CallsInv, Taken, Left
<1>6. Awaited'
  <2>1. \A h \in Homes : \A x \in Held(h)' :
          \/ x \in Held(h)
          \/ \A d \in Slots : \A k \in Nat :
               Alive(d) /\ OfCall(x, Self(d), k) => k \in waiting'[d]
    BY <1>1
  <2> QED BY <1>a, <1>b, <2>1, AwaitedAfter
<1>7. Mail'
  <2>1. ASSUME NEW d \in Slots, NEW x \in ToSet(mqIn'[d])
        PROVE  \/ x \in ToSet(mqIn[d])
               \/ /\ x.to.idx = d /\ x.to.cnt = svcCntLocal[d]
                  /\ Alive(d) \/ (x.to \in leaked' /\ fault' = "dead")
    <3>1. CASE mqIn' = q BY <2>1, <3>1 DEF Left
    <3>2. CASE x = m /\ d = m.to.idx /\ mqIn' # q
      <4>1. m.to.cnt = svcCnt[m.to.idx] /\ (Alive(d) \/ fault' = "dead") BY <1>1, <3>2
      <4>2. Alive(d)' \/ m.to \in leaked'
        <5>1. Reached(m.to)' BY DEF Sound
        <5>2. m.to.cnt = svcCnt'[m.to.idx] /\ svcCnt'[m.to.idx] \in Nat
          BY <1>a, <1>c, <4>1 DEF CallsInv, Types
        <5> QED BY <3>2, <5>1, <5>2 DEF Reached, Had
      <4> QED BY <1>b, <1>c, <1>d, <3>2, <4>1, <4>2
    <3> QED BY <1>1, <2>1, <3>1, <3>2
  <2>2. \A d \in Slots : (Alive(d)' <=> Alive(d)) /\ (state'[d] = "free" => state[d] = "free")
    BY <1>a, <1>b
  <2> QED BY <1>a, <2>1, <2>2, MailAfter
<1>8. Faults' BY DEF Faults
<1> QED BY <1>1, <1>2, <1>3, <1>4, <1>5, <1>6, <1>7, <1>8

(* And so it is for a step that puts no message anywhere.                  *)
LEMMA LeaveKeeps ==
    ASSUME CallsInv, fault = "none", fault' = "none",
           NEW q, NEW w, Left(q, w), mqIn' = q, mqWaitSend' = w,
           svcCnt' = svcCnt, svcCntLocal' = svcCntLocal, heard' = heard, leaked' = leaked,
           waiting' = waiting,
           \A d \in Slots : Alive(d)' <=> Alive(d),
           \A d \in Slots : state'[d] = "free" => state[d] = "free" \/ mqIn'[d] = << >>
    PROVE  /\ mqIn' \in [Slots -> Seq(Message)] /\ mqWaitSend' \in [Slots -> Seq(Message)]
           /\ taken' \in [Slots -> SUBSET Message]
           /\ Counts' /\ Roads' /\ Ears' /\ Taken' /\ OneHome' /\ OnceEach' /\ Awaited'
           /\ Mail' /\ Faults'
<1>1. /\ OneHome' /\ OnceEach'
      /\ mqIn' \in [Slots -> Seq(Message)] /\ mqWaitSend' \in [Slots -> Seq(Message)]
      /\ taken' \in [Slots -> SUBSET Message]
      /\ \A h \in Homes : Held(h)' \subseteq Held(h)
  BY LeavesCalls
<1>2. Counts' BY BootAssumption DEF CallsInv, Counts
<1>3. Roads' BY <1>1, RoadsAfter
<1>4. Ears' BY EarsAfter
<1>5. Taken' BY DEF CallsInv, Taken, Left
<1>6. Awaited' BY <1>1, AwaitedAfter
<1>7. Mail'
  <2>1. \A d \in Slots : \A x \in ToSet(mqIn'[d]) : x \in ToSet(mqIn[d]) BY DEF Left
  <2> QED BY <2>1, MailAfter
<1>8. Faults' BY DEF Faults
<1> QED BY <1>1, <1>2, <1>3, <1>4, <1>5, <1>6, <1>7, <1>8

(* A message that is sent, not to a service that is gone, may not overtake *)
(* a start message to its address that is parked elsewhere.                *)
LEMMA SendKeeps ==
    ASSUME CallsInv, fault = "none", NEW s \in Slots, NEW m \in Message, SendFrom(s, m), ~Gone(m),
           UNCHANGED <<serviceVars, cursor, heard>>, leaked \subseteq leaked', Sound(m)',
           taken' \in [Slots -> SUBSET Message], \A d \in Slots : taken'[d] \subseteq taken[d],
           \A d \in Slots : waiting[d] \subseteq waiting'[d],
           \A d \in Slots : NoneOf(m, ToSet(mqIn[d])) /\ NoneOf(m, ToSet(mqWaitSend[d]))
                            /\ NoneOf(m, taken'[d]),
           \A d \in Slots, k \in Nat : Alive(d) /\ OfCall(m, Self(d), k) => k \in waiting'[d],
           \A d \in Slots, c \in Slots : \A p \in DOMAIN mqWaitSend[c] :
               state[d] = "new" /\ m.to = Self(d) /\ ParkedAt(d, c, p) => c = s
    PROVE  /\ mqIn' \in [Slots -> Seq(Message)] /\ mqWaitSend' \in [Slots -> Seq(Message)]
           /\ Counts' /\ Roads' /\ Ears' /\ Taken' /\ OneHome' /\ OnceEach' /\ Awaited'
           /\ Starts' /\ Mail' /\ Faults'
<1>a. /\ state' = state /\ svcCnt' = svcCnt /\ svcCntLocal' = svcCntLocal
      /\ cursor' = cursor /\ heard' = heard
  BY DEF serviceVars
<1>b. \A d \in Slots : Self(d)' = Self(d)
  BY <1>a DEF Self
<1>c. m.to \in Adr /\ m.to.idx \in Slots /\ m.to.cnt = svcCnt[m.to.idx]
  BY DEF Message, Adr, Gone
<1>d. svcCntLocal = svcCnt BY DEF CallsInv, Counts
<1>1. /\ Puts(mqIn, mqWaitSend, s, m) /\ fault' \in {fault, "dead"}
      /\ mqIn' = mqIn \/ (mqWaitSend[s] = << >> /\ (Alive(m.to.idx) \/ fault' = "dead"))
  BY SendFromPuts
<1>2. Left(mqIn, mqWaitSend)
  BY DEF CallsInv, Types, OnceEach, Left
<1>3. /\ mqIn' \in [Slots -> Seq(Message)] /\ mqWaitSend' \in [Slots -> Seq(Message)]
      /\ Counts' /\ Roads' /\ Ears' /\ Taken' /\ OneHome' /\ OnceEach' /\ Awaited'
      /\ Mail' /\ Faults'
  <2>1. PICK q : q = mqIn OBVIOUS
  <2>2. PICK w : w = mqWaitSend OBVIOUS
  <2>3. Left(q, w) BY <1>2, <2>1, <2>2 DEF Left
  <2>4. Puts(q, w, s, m) BY <1>1, <2>1, <2>2 DEF Puts
  <2>5. \A d \in Slots : NoneOf(m, ToSet(q[d])) /\ NoneOf(m, ToSet(w[d]))
                          /\ NoneOf(m, taken'[d])
    BY <2>1, <2>2
  <2>6. fault' \in {"none", "dead"} BY <1>1
  <2>7. mqIn' # q => m.to.cnt = svcCnt[m.to.idx] /\ (Alive(m.to.idx) \/ fault' = "dead")
    BY <1>1, <1>c, <2>1
  <2>8. UNCHANGED <<serviceVars, heard>> OBVIOUS
  <2> QED BY <2>3, <2>4, <2>5, <2>6, <2>7, <2>8, PutKeeps
<1>4. Starts'
  <2> SUFFICES ASSUME NEW d \in Slots, state'[d] = "new", Self(d)' \notin leaked'
               PROVE  StartAhead(d)' \/ StartParked(d)'
    BY DEF Starts
  <2>1. state[d] = "new" /\ Self(d) \notin leaked /\ Self(d)' = Self(d) BY <1>a, <1>b
  <2>2. ASSUME NEW c \in Slots, NEW p \in DOMAIN mqWaitSend[c], ParkedAt(d, c, p), m.to = Self(d)
        PROVE  s = c /\ mqIn' = mqIn
    <3>1. c = s BY <2>1, <2>2
    <3>2. mqWaitSend[s] # << >> BY <2>2, <3>1
    <3> QED BY <1>1, <3>1, <3>2
  <2>3. mqIn \in [Slots -> Seq(Message)] /\ m.to.cnt = svcCntLocal[m.to.idx]
    BY <1>c, <1>d DEF CallsInv, Types
  <2> QED BY <1>1, <1>a, <2>1, <2>2, <2>3, StartStays
<1> QED BY <1>3, <1>4

LEMMA SelfAdr ==
    Types => \A s \in Slots : Self(s) \in Adr /\ svcCnt[s] \in Nat
BY DEF Types, Self, Adr

(* A message of a kind that is of no call is of no call.                   *)
LEMMA OfNoCall ==
    \A m : m.kind \in {"start", "send"} =>
        /\ \A S : NoneOf(m, S)
        /\ \A a, k : ~OfCall(m, a, k)
BY DEF NoneOf, OfCall, IsAnswer

LEMMA CallsSend ==
    ASSUME CallsInv, NEW s \in Slots, NEW a \in Addresses, Send(s, a)
    PROVE  CallsInv'
<1>m. PICK m : m = Msg("send", Self(s), a, 0) OBVIOUS
<1>a. /\ InLua(s) /\ Known(s, a) /\ ~Gone(m) /\ SendFrom(s, m)
      /\ leaked' = IF Alive(s) THEN leaked ELSE leaked \union {Self(s)}
      /\ UNCHANGED <<serviceVars, cursor, luaVars, services>>
  BY <1>m DEF Send
<1>b. /\ state' = state /\ svcCnt' = svcCnt /\ svcCntLocal' = svcCntLocal
      /\ cursor' = cursor /\ heard' = heard /\ waiting' = waiting /\ callId' = callId
      /\ taken' = taken
  BY <1>a DEF serviceVars, luaVars
<1>c. fault = "none" BY <1>a DEF InLua, Running
<1>d. Self(s) \in Adr /\ a \in Adr /\ Types /\ svcCntLocal = svcCnt
  BY SelfAdr, ConstantsFit DEF CallsInv, Counts
<1>e. /\ m \in Message /\ m.kind = "send" /\ m.from = Self(s) /\ m.to = a
  BY <1>d, <1>m DEF Msg, Message, Kinds
<1>1. leaked \subseteq leaked' /\ leaked' \in SUBSET Adr
  BY <1>a, <1>d DEF Types
<1>2. \A b \in Adr : Reached(b) => Reached(b)'
  BY <1>b, <1>1 DEF Reached, Had, Alive
<1>3. Reached(a)
  BY <1>a, <1>d DEF Known, Reached, Had, CallsInv, Ears
<1>4. Reached(m.from)'
  <2>1. m.from.idx = s /\ m.from.cnt = svcCnt[s] BY <1>d, <1>e DEF Self
  <2>2. Alive(s) \/ m.from \in leaked' BY <1>a, <1>e
  <2> QED BY <1>b, <2>1, <2>2 DEF Reached, Had, Alive
<1>5. Sound(m)' BY <1>2, <1>3, <1>4, <1>d, <1>e DEF Sound, IsAnswer
<1>6. \A d \in Slots, c \in Slots : \A p \in DOMAIN mqWaitSend[c] :
        state[d] = "new" /\ m.to = Self(d) /\ ParkedAt(d, c, p) => c = s
  <2> SUFFICES ASSUME NEW d \in Slots, NEW c \in Slots, NEW p \in DOMAIN mqWaitSend[c],
                      m.to = Self(d), ParkedAt(d, c, p), c # s
               PROVE  FALSE
    OBVIOUS
  <2>1. mqWaitSend[c][p] \in ToSet(mqWaitSend[c]) BY DEF ToSet
  <2>2. mqWaitSend[c][p].kind = "start" /\ mqWaitSend[c][p].to = a
    BY <1>e DEF ParkedAt
  <2> QED BY <1>a, <2>1, <2>2 DEF Known
<1>7. /\ \A S : NoneOf(m, S)
      /\ \A b, k : ~OfCall(m, b, k)
  BY <1>e, OfNoCall
<1>8. /\ \A d \in Slots : NoneOf(m, ToSet(mqIn[d])) /\ NoneOf(m, ToSet(mqWaitSend[d]))
                          /\ NoneOf(m, taken'[d])
      /\ \A d \in Slots, k \in Nat : Alive(d) /\ OfCall(m, Self(d), k) => k \in waiting'[d]
  BY <1>7
<1>9. /\ taken' \in [Slots -> SUBSET Message] /\ \A d \in Slots : taken'[d] \subseteq taken[d]
      /\ \A d \in Slots : waiting[d] \subseteq waiting'[d]
  BY <1>b, <1>d DEF Types
<1>10. /\ mqIn' \in [Slots -> Seq(Message)] /\ mqWaitSend' \in [Slots -> Seq(Message)]
       /\ Counts' /\ Roads' /\ Ears' /\ Taken' /\ OneHome' /\ OnceEach' /\ Awaited'
       /\ Starts' /\ Mail' /\ Faults'
  BY <1>a, <1>b, <1>c, <1>e, <1>1, <1>5, <1>6, <1>8, <1>9, SendKeeps
<1>11. Types' BY <1>b, <1>d, <1>1, <1>10 DEF Types
<1>12. Waiters' BY <1>b DEF CallsInv, Waiters
<1> QED BY <1>10, <1>11, <1>12 DEF CallsInv

LEMMA CallsCall ==
    ASSUME CallsInv, NEW s \in Slots, NEW a \in Addresses, Call(s, a)
    PROVE  CallsInv'
<1>k. PICK k : k = callId[s] OBVIOUS
<1>m. PICK m : m = Msg("req", Self(s), a, k) OBVIOUS
<1>a. /\ Running(s) /\ Known(s, a) /\ ~Gone(m) /\ SendFrom(s, m)
      /\ Sessions \ waiting[s] # {k}
      /\ waiting' = [waiting EXCEPT ![s] = @ \union {k}]
      /\ callId' = [callId EXCEPT ![s] = NextId(k, waiting[s])]
      /\ UNCHANGED <<serviceVars, cursor, taken, heard, services, leaked>>
  BY <1>k, <1>m DEF Call
<1>b. /\ state' = state /\ svcCnt' = svcCnt /\ svcCntLocal' = svcCntLocal
      /\ cursor' = cursor /\ heard' = heard /\ taken' = taken /\ leaked' = leaked
  BY <1>a DEF serviceVars
<1>c. fault = "none" /\ state[s] = "running" /\ Alive(s) BY <1>a DEF Running, Alive
<1>d. Self(s) \in Adr /\ a \in Adr /\ Types /\ svcCntLocal = svcCnt /\ k \in Sessions /\ k \in Nat
  BY <1>k, SelfAdr, ConstantsFit DEF CallsInv, Counts, Types
<1>e. /\ m \in Message /\ m.kind = "req" /\ m.from = Self(s) /\ m.to = a /\ m.session = k
  BY <1>d, <1>m DEF Msg, Message, Kinds
<1>f. k \notin waiting[s] /\ waiting[s] \subseteq Sessions
  BY <1>d, <1>k DEF CallsInv, Waiters, Types
<1>1. leaked \subseteq leaked' /\ leaked' \in SUBSET Adr
  BY <1>b, <1>d DEF Types
<1>2. \A b \in Adr : /\ Reached(b) => Reached(b)'
                     /\ Had(b) => Had(b)'
  BY <1>b DEF Reached, Had, Alive
<1>3. Reached(a)
  BY <1>a, <1>d DEF Known, Reached, Had, CallsInv, Ears
<1>4. Had(m.from) /\ Reached(m.from)
  <2>1. m.from.idx = s /\ m.from.cnt = svcCnt[s] BY <1>d, <1>e DEF Self
  <2> QED BY <1>c, <2>1 DEF Reached, Had
<1>5. Sound(m)' BY <1>2, <1>3, <1>4, <1>d, <1>e DEF Sound, IsAnswer
<1>6. \A d \in Slots, c \in Slots : \A p \in DOMAIN mqWaitSend[c] :
        state[d] = "new" /\ m.to = Self(d) /\ ParkedAt(d, c, p) => c = s
  <2> SUFFICES ASSUME NEW d \in Slots, NEW c \in Slots, NEW p \in DOMAIN mqWaitSend[c],
                      m.to = Self(d), ParkedAt(d, c, p), c # s
               PROVE  FALSE
    OBVIOUS
  <2>1. mqWaitSend[c][p] \in ToSet(mqWaitSend[c]) BY DEF ToSet
  <2>2. mqWaitSend[c][p].kind = "start" /\ mqWaitSend[c][p].to = a
    BY <1>e DEF ParkedAt
  <2> QED BY <1>a, <2>1, <2>2 DEF Known
<1>7. \A b, j : OfCall(m, b, j) <=> b = Self(s) /\ j = k
  BY <1>e DEF OfCall, IsAnswer
<1>8. \A d \in Slots : NoneOf(m, ToSet(mqIn[d])) /\ NoneOf(m, ToSet(mqWaitSend[d]))
                       /\ NoneOf(m, taken'[d])
  <2>1. \A h \in Homes : ~At(h, Self(s), k) BY <1>c, <1>d, <1>f DEF CallsInv, Awaited
  <2>2. \A h \in Homes : \A n \in Held(h) : ~OfCall(n, Self(s), k) BY <2>1 DEF At
  <2>3. \A h \in Homes : NoneOf(m, Held(h)) BY <1>7, <2>2 DEF NoneOf
  <2> QED BY <1>b, <2>3, HomesAre, HeldAre
<1>9. \A d \in Slots, j \in Nat : Alive(d) /\ OfCall(m, Self(d), j) => j \in waiting'[d]
  <2>1. \A d \in Slots : Self(d) = Self(s) => d = s BY DEF Self
  <2>2. k \in waiting'[s] BY <1>a, <1>d DEF Types
  <2> QED BY <1>7, <2>1, <2>2
<1>10. /\ taken' \in [Slots -> SUBSET Message] /\ \A d \in Slots : taken'[d] \subseteq taken[d]
       /\ \A d \in Slots : waiting[d] \subseteq waiting'[d]
  BY <1>a, <1>b, <1>d DEF Types
<1>11. UNCHANGED <<serviceVars, cursor, heard>> BY <1>a
<1>12. /\ mqIn' \in [Slots -> Seq(Message)] /\ mqWaitSend' \in [Slots -> Seq(Message)]
       /\ Counts' /\ Roads' /\ Ears' /\ Taken' /\ OneHome' /\ OnceEach' /\ Awaited'
       /\ Starts' /\ Mail' /\ Faults'
  BY <1>a, <1>c, <1>e, <1>1, <1>5, <1>6, <1>8, <1>9, <1>10, <1>11, SendKeeps
<1>13. NextId(k, waiting[s]) \in Sessions \ waiting[s] /\ NextId(k, waiting[s]) # k
  BY <1>a, <1>d, <1>f, NextIdFree
<1>14. Types'
  <2>1. waiting' \in [Slots -> SUBSET Sessions] /\ callId' \in [Slots -> Sessions]
    BY <1>a, <1>d, <1>13 DEF Types
  <2> QED BY <1>b, <1>d, <1>12, <2>1 DEF Types
<1>15. Waiters'
  <2>1. \A d \in Slots : /\ waiting'[d] = IF d = s THEN waiting[d] \union {k} ELSE waiting[d]
                         /\ callId'[d] = IF d = s THEN NextId(k, waiting[s]) ELSE callId[d]
    BY <1>a, <1>d DEF Types
  <2> QED BY <1>b, <1>c, <1>13, <2>1 DEF CallsInv, Waiters
<1> QED BY <1>12, <1>14, <1>15 DEF CallsInv

(* An answer goes where the request it is for came from, which then has    *)
(* neither the request nor another answer anywhere.                        *)
LEMMA AnswerIsOfCall ==
    ASSUME NEW req, NEW m, req.kind = "req", IsAnswer(m), m.to = req.from, m.session = req.session
    PROVE  \A a, k : OfCall(m, a, k) <=> OfCall(req, a, k)
BY DEF OfCall, IsAnswer

(* A request is from a service that lived, and whose call waits if it does;*)
(* no request is from a service before it has been started.                *)
LEMMA RequestIs ==
    ASSUME CallsInv, NEW h \in Homes, NEW req \in Held(h), req.kind = "req"
    PROVE  /\ req \in Message /\ Sound(req) /\ Had(req.from) /\ OfCall(req, req.from, req.session)
           /\ \A d \in Slots, k \in Nat : Alive(d) /\ OfCall(req, Self(d), k) => k \in waiting[d]
           /\ \A d \in Slots : state[d] = "new" => req.from # Self(d)
<1>1. req \in Message /\ Sound(req) /\ Had(req.from)
  BY HeldTypes DEF CallsInv, Roads, Sound
<1>2. OfCall(req, req.from, req.session) BY DEF OfCall
<1>3. \A d \in Slots, k \in Nat : Alive(d) /\ OfCall(req, Self(d), k) => k \in waiting[d]
  BY DEF CallsInv, Awaited, At
<1>4. ASSUME NEW d \in Slots, state[d] = "new", req.from = Self(d) PROVE FALSE
  <2>1. req.session \in Nat BY <1>1 DEF Message
  <2>2. req.session \in waiting[d] BY <1>2, <1>3, <1>4, <2>1 DEF Alive
  <2>3. waiting[d] = {} BY <1>4 DEF CallsInv, Waiters
  <2> QED BY <2>2, <2>3
<1> QED BY <1>1, <1>2, <1>3, <1>4

LEMMA CallsAnswer ==
    ASSUME CallsInv, NEW s \in Slots, NEW req \in taken[s], Answer(s, req)
    PROVE  CallsInv'
<1>m. PICK m : m = Msg("rsp", Nobody, req.from, req.session) OBVIOUS
<1>a. /\ InLua(s)
      /\ IF Gone(m) THEN UNCHANGED <<queueVars, fault>> ELSE SendFrom(s, m)
      /\ taken' = [taken EXCEPT ![s] = @ \ {req}]
      /\ UNCHANGED <<serviceVars, cursor, waiting, callId, heard, boundVars>>
  BY <1>m DEF Answer
<1>b. /\ state' = state /\ svcCnt' = svcCnt /\ svcCntLocal' = svcCntLocal
      /\ cursor' = cursor /\ heard' = heard /\ waiting' = waiting /\ callId' = callId
      /\ leaked' = leaked
  BY <1>a DEF serviceVars, boundVars
<1>c. fault = "none" BY <1>a DEF InLua, Running
<1>d. Types /\ req.kind = "req" /\ <<"taken", s>> \in Homes /\ Held(<<"taken", s>>) = taken[s]
  BY HomesAre, HeldAre DEF CallsInv, Taken
<1>e. /\ req \in Message /\ Sound(req) /\ Had(req.from) /\ OfCall(req, req.from, req.session)
      /\ \A d \in Slots, k \in Nat : Alive(d) /\ OfCall(req, Self(d), k) => k \in waiting[d]
      /\ \A d \in Slots : state[d] = "new" => req.from # Self(d)
  BY <1>d, RequestIs
<1>f. req.from \in Adr /\ req.session \in Nat BY <1>e DEF Message
<1>g. /\ m \in Message /\ IsAnswer(m) /\ m.from = Nobody /\ m.to = req.from
      /\ m.session = req.session /\ m.kind # "req"
  BY <1>f, <1>m, ConstantsFit DEF Msg, Message, Kinds, IsAnswer
<1>h. \A a, k : OfCall(m, a, k) <=> OfCall(req, a, k) BY <1>d, <1>g, AnswerIsOfCall
<1>1. /\ taken' \in [Slots -> SUBSET Message]
      /\ \A d \in Slots : taken'[d] = IF d = s THEN taken[d] \ {req} ELSE taken[d]
  BY <1>a, <1>d DEF Types
<1>2. CASE Gone(m)
  <2>1. mqIn' = mqIn /\ mqWaitSend' = mqWaitSend /\ fault' = fault
    BY <1>a, <1>2 DEF queueVars
  <2>2. PICK q : q = mqIn OBVIOUS
  <2>3. PICK w : w = mqWaitSend OBVIOUS
  <2>4. Left(q, w) BY <1>1, <2>2, <2>3 DEF CallsInv, Types, OnceEach, Left
  <2>5. \A d \in Slots : (Alive(d)' <=> Alive(d)) /\ Self(d)' = Self(d)
    BY <1>b DEF Alive, Self
  <2>6. /\ Counts' /\ Roads' /\ Ears' /\ Taken' /\ OneHome' /\ OnceEach' /\ Awaited'
        /\ Mail' /\ Faults'
    BY <1>b, <1>c, <2>1, <2>2, <2>3, <2>4, <2>5, LeaveKeeps
  <2>7. Starts'
    <3> SUFFICES ASSUME NEW d \in Slots, state'[d] = "new", Self(d)' \notin leaked'
                 PROVE  StartAhead(d)' \/ StartParked(d)'
      BY DEF Starts
    <3>1. state[d] = "new" /\ Self(d) \notin leaked /\ Self(d)' = Self(d) BY <1>b, <2>5
    <3>2. \A c \in Slots : cursor'[c] \in Nat /\ cursor'[c] <= cursor[c]
      BY <1>b, <1>d DEF Types
    <3> QED BY <2>1, <3>1, <3>2, StartRests
  <2>8. Types' BY <1>b, <1>d, <1>1, <2>1 DEF Types
  <2>9. Waiters' BY <1>b DEF CallsInv, Waiters
  <2> QED BY <2>6, <2>7, <2>8, <2>9 DEF CallsInv
<1>3. CASE ~Gone(m)
  <2>1. SendFrom(s, m) BY <1>a, <1>3
  <2>2. Sound(m)'
    <3>1. Had(Nobody)
      BY <1>d, BootAssumption DEF CallsInv, Counts, Types, Nobody, Had
    <3>2. Had(m.to)' /\ Had(m.from)' BY <1>b, <1>e, <1>g, <3>1 DEF Had, Alive
    <3> QED BY <1>g, <3>2 DEF Sound, Reached
  <2>3. \A d \in Slots : NoneOf(m, ToSet(mqIn[d])) /\ NoneOf(m, ToSet(mqWaitSend[d]))
                         /\ NoneOf(m, taken'[d])
    <3>1. ASSUME NEW h \in Homes, h # <<"taken", s>> PROVE NoneOf(m, Held(h))
      <4> SUFFICES ASSUME NEW a \in Adr, NEW k \in Nat, OfCall(m, a, k),
                          NEW n \in Held(h), OfCall(n, a, k)
                   PROVE  FALSE
        BY DEF NoneOf
      <4>1. At(h, a, k) BY DEF At
      <4>2. At(<<"taken", s>>, a, k) BY <1>d, <1>h DEF At
      <4> QED BY <1>d, <3>1, <4>1, <4>2 DEF CallsInv, OneHome
    <3>2. NoneOf(m, taken'[s])
      <4>1. OnceSet(taken[s]) BY DEF CallsInv, OnceEach
      <4> QED BY <1>1, <1>h, <4>1 DEF NoneOf, OnceSet
    <3>3. ASSUME NEW d \in Slots
          PROVE  NoneOf(m, ToSet(mqIn[d])) /\ NoneOf(m, ToSet(mqWaitSend[d]))
                 /\ NoneOf(m, taken'[d])
      <4>1. <<"in", d>> # <<"taken", s>> /\ <<"wait", d>> # <<"taken", s>> OBVIOUS
      <4>2. NoneOf(m, ToSet(mqIn[d])) /\ NoneOf(m, ToSet(mqWaitSend[d]))
        BY <3>1, <4>1, HomesAre, HeldAre
      <4>3. CASE d = s BY <3>2, <4>2, <4>3
      <4>4. CASE d # s
        <5>1. <<"taken", d>> # <<"taken", s>> BY <4>4
        <5>2. NoneOf(m, taken[d]) BY <3>1, <5>1, HomesAre, HeldAre
        <5> QED BY <1>1, <4>2, <4>4, <5>2
      <4> QED BY <4>3, <4>4
    <3> QED BY <3>3
  <2>4. \A d \in Slots, k \in Nat : Alive(d) /\ OfCall(m, Self(d), k) => k \in waiting'[d]
    BY <1>b, <1>e, <1>h
  <2>5. \A d \in Slots, c \in Slots : \A p \in DOMAIN mqWaitSend[c] :
          state[d] = "new" /\ m.to = Self(d) /\ ParkedAt(d, c, p) => c = s
    BY <1>e, <1>g
  <2>6. /\ UNCHANGED <<serviceVars, cursor, heard>> /\ leaked \subseteq leaked'
        /\ \A d \in Slots : taken'[d] \subseteq taken[d] /\ waiting[d] \subseteq waiting'[d]
    BY <1>a, <1>b, <1>1
  <2>7. /\ mqIn' \in [Slots -> Seq(Message)] /\ mqWaitSend' \in [Slots -> Seq(Message)]
        /\ Counts' /\ Roads' /\ Ears' /\ Taken' /\ OneHome' /\ OnceEach' /\ Awaited'
        /\ Starts' /\ Mail' /\ Faults'
    BY <1>c, <1>g, <1>1, <1>3, <2>1, <2>2, <2>3, <2>4, <2>5, <2>6, SendKeeps
  <2>8. Types' BY <1>b, <1>d, <1>1, <2>7 DEF Types
  <2>9. Waiters' BY <1>b DEF CallsInv, Waiters
  <2> QED BY <2>7, <2>8, <2>9 DEF CallsInv
<1> QED BY <1>2, <1>3

LEMMA CallsExit ==
    ASSUME CallsInv, NEW s \in Slots, Exit(s)
    PROVE  CallsInv'
<1>a. /\ fault = "none" /\ state[s] = "running"
      /\ state' = [state EXCEPT ![s] = "exiting"]
      /\ svcCnt' = [svcCnt EXCEPT ![s] = @ + 1]
      /\ svcCntLocal' = [svcCntLocal EXCEPT ![s] = svcCnt[s] + 1]
      /\ waiting' = [waiting EXCEPT ![s] = {}]
      /\ heard' = [heard EXCEPT ![s] = {}]
      /\ mqIn' = mqIn /\ mqWaitSend' = mqWaitSend /\ cursor' = cursor /\ callId' = callId
      /\ taken' = taken /\ leaked' = leaked /\ fault' = fault
  BY DEF Exit, Running, queueVars, boundVars
<1>b. Types /\ svcCntLocal = svcCnt BY DEF CallsInv, Counts
<1>c. \A d \in Slots : /\ state'[d] = IF d = s THEN "exiting" ELSE state[d]
                       /\ svcCnt'[d] = IF d = s THEN svcCnt[s] + 1 ELSE svcCnt[d]
                       /\ waiting'[d] = IF d = s THEN {} ELSE waiting[d]
                       /\ heard'[d] = IF d = s THEN {} ELSE heard[d]
                       /\ svcCnt[d] \in Nat
  BY <1>a, <1>b DEF Types
<1>d. Alive(s) /\ ~Alive(s)' /\ \A d \in Slots : d # s => (Alive(d)' <=> Alive(d))
  BY <1>a, <1>c DEF Alive
<1>e. \A d \in Slots : d # s => Self(d)' = Self(d)
  <2>1. \A d \in Slots : d # s => svcCntLocal'[d] = svcCntLocal[d] BY <1>a, <1>b DEF Types
  <2> QED BY <2>1 DEF Self
<1>1. Types'
  <2>1. svcCnt[s] + 1 \in Nat /\ {} \in SUBSET Sessions /\ {} \in SUBSET Adr BY <1>c
  <2> QED BY <1>a, <1>b, <2>1 DEF Types
<1>2. Counts'
  <2>1. svcCntLocal' = svcCnt' BY <1>a, <1>b
  <2>2. svcCnt'[Boot] = 0 => Alive(Boot)'
    BY <1>c, <1>d, BootAssumption DEF CallsInv, Counts
  <2> QED BY <2>1, <2>2 DEF Counts
<1>3. \A b \in Adr : (Had(b) => Had(b)') /\ (Reached(b) => Reached(b)')
  BY <1>a, <1>c, <1>d DEF Adr, Had, Reached
<1>4. \A h \in Homes : Held(h)' = Held(h) BY <1>a DEF Held
<1>5. Roads'
  <2>1. \A h \in Homes : \A m \in Held(h) : Sound(m) /\ m \in Message
    BY HeldTypes DEF CallsInv, Roads
  <2>2. \A m \in Message : m.to \in Adr /\ m.from \in Adr BY DEF Message
  <2>3. \A m \in Message : Sound(m) => Sound(m)' BY <1>3, <2>2 DEF Sound
  <2>4. \A h \in Homes : \A m \in Held(h)' : Sound(m)' BY <1>4, <2>1, <2>3
  <2> QED BY <2>4 DEF Roads
<1>6. Ears'
  <2>1. \A d \in Slots : \A b \in heard[d] : b \in Adr /\ Reached(b)
    BY <1>b DEF CallsInv, Ears, Types
  <2>2. \A d \in Slots : \A b \in heard'[d] : Reached(b)' BY <1>3, <1>c, <2>1
  <2> QED BY <2>2 DEF Ears
<1>7. Taken' /\ OnceEach' BY <1>a DEF CallsInv, Taken, OnceEach
<1>8. OneHome' BY <1>4 DEF CallsInv, OneHome, At
<1>9. Awaited'
  <2> SUFFICES ASSUME NEW d \in Slots, NEW k \in Nat, NEW h \in Homes, Alive(d)',
                      At(h, Self(d), k)'
               PROVE  k \in waiting'[d]
    BY DEF Awaited
  <2>1. d # s /\ Alive(d) /\ Self(d)' = Self(d) BY <1>d, <1>e
  <2>2. At(h, Self(d), k) BY <1>4, <2>1 DEF At
  <2> QED BY <1>c, <2>1, <2>2 DEF CallsInv, Awaited
<1>10. Waiters' BY <1>a, <1>c DEF CallsInv, Waiters
<1>11. Starts'
  <2> SUFFICES ASSUME NEW d \in Slots, state'[d] = "new", Self(d)' \notin leaked'
               PROVE  StartAhead(d)' \/ StartParked(d)'
    BY DEF Starts
  <2>1. d # s /\ state[d] = "new" BY <1>c
  <2>2. Self(d) \notin leaked /\ Self(d)' = Self(d) BY <1>a, <1>e, <2>1
  <2>3. \A c \in Slots : cursor'[c] \in Nat /\ cursor'[c] <= cursor[c]
    BY <1>a, <1>b DEF Types
  <2> QED BY <1>a, <2>1, <2>2, <2>3, StartRests
<1>12. Mail'
  <2> SUFFICES ASSUME NEW d \in Slots, NEW x \in ToSet(mqIn'[d])
               PROVE  x.to.idx = d /\ ToItsService(x, d)'
    BY DEF Mail
  <2>1. x.to.idx = d /\ ToItsService(x, d)
    BY <1>a DEF CallsInv, Mail, ToLateSender
  <2>2. CASE d # s
    <3>1. svcCntLocal'[d] = svcCntLocal[d] BY <1>a, <1>b, <2>2 DEF Types
    <3> QED BY <1>c, <1>d, <2>1, <2>2, <3>1 DEF ToItsService
  <2>3. CASE d = s
    <3>1. svcCntLocal'[s] = svcCntLocal[s] + 1 /\ svcCntLocal[s] \in Nat
      BY <1>a, <1>b DEF Types
    <3>2. x.to.cnt = svcCntLocal[s] BY <1>d, <2>1, <2>3 DEF ToItsService
    <3>3. state'[s] # "free" BY <1>c
    <3> QED BY <1>d, <2>1, <2>3, <3>1, <3>2, <3>3 DEF ToItsService
  <2> QED BY <2>2, <2>3
<1>13. Faults' BY <1>a DEF CallsInv, Faults
<1> QED BY <1>1, <1>2, <1>5, <1>6, <1>7, <1>8, <1>9, <1>10, <1>11, <1>12, <1>13 DEF CallsInv

LEMMA CallsNewService ==
    ASSUME CallsInv, NEW s \in Slots, NEW n \in Slots, NewService(s, n)
    PROVE  CallsInv'
<1>b. PICK b : b = [idx |-> n, cnt |-> svcCnt[n]] OBVIOUS
<1>m. PICK m : m = Msg("start", Nobody, b, 0) OBVIOUS
<1>a. /\ Running(s) /\ state[n] = "free"
      /\ state' = [state EXCEPT ![n] = "new"]
      /\ svcCntLocal' = [svcCntLocal EXCEPT ![n] = svcCnt[n]]
      /\ callId' = [callId EXCEPT ![n] = 1]
      /\ taken' = [taken EXCEPT ![n] = {}]
      /\ IF mqWaitSend[s] # << >>
         THEN mqWaitSend' = [mqWaitSend EXCEPT ![s] = Append(@, m)] /\ mqIn' = mqIn
         ELSE mqIn' = [mqIn EXCEPT ![n] = Append(@, m)] /\ mqWaitSend' = mqWaitSend
      /\ svcCnt' = svcCnt /\ cursor' = cursor /\ waiting' = waiting /\ heard' = heard
      /\ leaked' = leaked /\ fault' = fault
  BY <1>b, <1>m DEF NewService
<1>c. fault = "none" /\ cursor[s] = 0 /\ state[s] = "running" /\ s # n BY <1>a DEF Running
<1>d. Types /\ svcCntLocal = svcCnt BY DEF CallsInv, Counts
<1>e. svcCntLocal' = svcCntLocal /\ \A d \in Slots : Self(d)' = Self(d)
  <2>1. svcCntLocal' = svcCntLocal BY <1>a, <1>d DEF Types
  <2> QED BY <2>1 DEF Self
<1>f. b \in Adr /\ b = Self(n) /\ b.idx = n /\ b.cnt = svcCnt[n] /\ svcCnt[n] \in Nat
  BY <1>b, <1>d DEF Types, Adr, Self
<1>g. /\ m \in Message /\ m.kind = "start" /\ m.from = Nobody /\ m.to = b
      /\ m.to.idx = n
  BY <1>f, <1>m, ConstantsFit DEF Msg, Message, Kinds
<1>h. \A d \in Slots : /\ state'[d] = IF d = n THEN "new" ELSE state[d]
                       /\ callId'[d] = IF d = n THEN 1 ELSE callId[d]
                       /\ taken'[d] = IF d = n THEN {} ELSE taken[d]
  BY <1>a, <1>d DEF Types
<1>i. ~Alive(n) /\ Alive(n)' /\ \A d \in Slots : d # n => (Alive(d)' <=> Alive(d))
  BY <1>a, <1>h DEF Alive
<1>j. \A d \in Slots : Alive(d) => Alive(d)' BY <1>i
<1>k. mqIn[n] = << >>
  <2>1. mqIn[n] \in Seq(Message) BY <1>d DEF Types
  <2>2. \A x \in ToSet(mqIn[n]) : FALSE BY <1>a, <1>c, OwnMail
  <2>3. \A q \in Seq(Message) : q # << >> => q[1] \in ToSet(q) BY DEF ToSet
  <2> QED BY <2>1, <2>2, <2>3
<1>l. ~Had(b) BY <1>f, <1>i DEF Had
<1>1. PICK q : q = mqIn OBVIOUS
<1>2. PICK w : w = mqWaitSend OBVIOUS
<1>3. taken' \in [Slots -> SUBSET Message] BY <1>a, <1>d DEF Types
<1>4. Left(q, w)
  BY <1>h, <1>1, <1>2, <1>3 DEF CallsInv, Types, OnceEach, Left
<1>5. Puts(q, w, s, m) BY <1>a, <1>g, <1>1, <1>2 DEF Puts
<1>6. \A S : NoneOf(m, S) BY <1>g, OfNoCall
<1>7. \A a, k : ~OfCall(m, a, k) BY <1>g, OfNoCall
<1>8. /\ OneHome' /\ OnceEach'
      /\ mqIn' \in [Slots -> Seq(Message)] /\ mqWaitSend' \in [Slots -> Seq(Message)]
      /\ \A h \in Homes : Held(h)' \subseteq Held(h) \union {m}
  <2>1. \A d \in Slots : NoneOf(m, ToSet(q[d])) /\ NoneOf(m, ToSet(w[d]))
                         /\ NoneOf(m, taken'[d])
    BY <1>6
  <2> QED BY <1>4, <1>5, <1>g, <2>1, PutsCalls
<1>9. Types'
  <2>1. state' \in [Slots -> {"new", "running", "exiting", "exited", "freeing", "free"}]
    BY <1>a, <1>d DEF Types
  <2>2. callId' \in [Slots -> Sessions] BY <1>a, <1>d, ConstantsFit DEF Types
  <2> QED BY <1>a, <1>d, <1>e, <1>3, <1>8, <2>1, <2>2 DEF Types
<1>10. Counts' BY <1>a, <1>d, <1>e, <1>j, BootAssumption DEF CallsInv, Counts
<1>11. Roads'
  <2>1. Reached(b)' BY <1>a, <1>f, <1>i DEF Reached, Had
  <2>2. Had(Nobody)'
    <3>1. svcCnt[Boot] \in Nat /\ (svcCnt[Boot] = 0 => Alive(Boot)')
      BY <1>d, <1>j, BootAssumption DEF CallsInv, Counts, Types
    <3> QED BY <1>a, <3>1, BootAssumption DEF Nobody, Had
  <2>3. Sound(m)' BY <1>g, <2>1, <2>2 DEF Sound, Reached, IsAnswer
  <2>4. \A h \in Homes : \A x \in Held(h)' : x \in Held(h) \/ Sound(x)' BY <1>8, <2>3
  <2> QED BY <1>a, <1>j, <2>4, RoadsAfter
<1>12. Ears'
  <2>1. \A d \in Slots : \A a \in heard'[d] : a \in heard[d] BY <1>a
  <2> QED BY <1>a, <1>j, <2>1, EarsAfter
<1>13. Taken' BY <1>h DEF CallsInv, Taken
<1>14. Awaited'
  <2> SUFFICES ASSUME NEW d \in Slots, NEW k \in Nat, NEW h \in Homes, Alive(d)',
                      At(h, Self(d), k)'
               PROVE  k \in waiting'[d]
    BY DEF Awaited
  <2>1. PICK x \in Held(h)' : OfCall(x, Self(d), k) BY <1>e DEF At
  <2>2. x \in Held(h) BY <1>7, <1>8, <2>1
  <2>3. CASE d # n
    <3>1. Alive(d) /\ At(h, Self(d), k) BY <1>i, <2>1, <2>2, <2>3 DEF At
    <3> QED BY <1>a, <3>1 DEF CallsInv, Awaited
  <2>4. CASE d = n
    <3>1. Sound(x) BY <2>2 DEF CallsInv, Roads
    <3>2. Had(Self(n)) BY <2>1, <2>4, <3>1 DEF OfCall, Sound
    <3> QED BY <1>f, <1>l, <3>2
  <2> QED BY <2>3, <2>4
<1>15. Waiters'
  <2>1. waiting[n] = {} BY <1>a DEF CallsInv, Waiters
  <2> QED BY <1>a, <1>h, <2>1 DEF CallsInv, Waiters
<1>16. Starts'
  <2> SUFFICES ASSUME NEW d \in Slots, state'[d] = "new", Self(d)' \notin leaked'
               PROVE  StartAhead(d)' \/ StartParked(d)'
    BY DEF Starts
  <2>1. Self(d) \notin leaked /\ Self(d)' = Self(d) BY <1>a, <1>e
  <2>2. CASE d # n
    <3>1. state[d] = "new" BY <1>h, <2>2
    <3>2. m.to # Self(d) /\ m.to.cnt = svcCntLocal[m.to.idx] BY <1>d, <1>f, <1>g, <2>2 DEF Self
    <3>3. q \in [Slots -> Seq(Message)] /\ q[d] = mqIn[d] BY <1>1, <1>d DEF Types
    <3>4. Puts(q, mqWaitSend, s, m) BY <1>2, <1>5 DEF Puts
    <3>5. \A c \in Slots : \A p \in DOMAIN mqWaitSend[c] :
            ParkedAt(d, c, p) /\ m.to = Self(d) => s = c /\ mqIn' = q
      BY <3>2
    <3>6. cursor' = cursor /\ m \in Message BY <1>a, <1>g
    <3> QED BY <2>1, <3>1, <3>2, <3>3, <3>4, <3>5, <3>6, StartStays
  <2>3. CASE d = n /\ mqWaitSend[s] = << >>
    <3>1. mqIn'[n] = Append(<< >>, m) BY <1>a, <1>d, <1>k, <2>3 DEF Types
    <3>2. << >> \in Seq(Message) OBVIOUS
    <3>3. mqIn'[n] # << >> /\ Head(mqIn'[n]) = m BY <1>g, <3>1, <3>2
    <3> QED BY <1>g, <2>3, <3>3 DEF StartAhead
  <2>4. CASE d = n /\ mqWaitSend[s] # << >>
    <3>p. PICK p : p = Len(mqWaitSend[s]) + 1 OBVIOUS
    <3>1. \A t \in Slots : mqWaitSend[t] \in Seq(Message) BY <1>d DEF Types
    <3>2. \A r \in Seq(Message) : /\ DOMAIN Append(r, m) = DOMAIN r \union {Len(r) + 1}
                                  /\ \A i \in DOMAIN r : Append(r, m)[i] = r[i]
                                  /\ Append(r, m)[Len(r) + 1] = m /\ Len(r) \in Nat
      BY <1>g
    <3>3. /\ mqWaitSend'[s] = Append(mqWaitSend[s], m)
          /\ \A t \in Slots : t # s => mqWaitSend'[t] = mqWaitSend[t]
      BY <1>a, <1>d, <2>4 DEF Types
    <3>4. /\ p \in DOMAIN mqWaitSend'[s] /\ mqWaitSend'[s][p] = m /\ p \in Nat
          /\ \A i \in DOMAIN mqWaitSend'[s] :
               i = p \/ (i \in DOMAIN mqWaitSend[s] /\ mqWaitSend'[s][i] = mqWaitSend[s][i])
      <4>1. \A i \in DOMAIN Append(mqWaitSend[s], m) :
               i = p \/ (i \in DOMAIN mqWaitSend[s]
                          /\ Append(mqWaitSend[s], m)[i] = mqWaitSend[s][i])
        BY <3>p, <3>1, <3>2
      <4> QED BY <3>p, <3>1, <3>2, <3>3, <4>1
    <3>5. \A t \in Slots : \A i \in DOMAIN mqWaitSend[t] : mqWaitSend[t][i].to # Self(n)
      <4> SUFFICES ASSUME NEW t \in Slots, NEW i \in DOMAIN mqWaitSend[t],
                          mqWaitSend[t][i].to = Self(n)
                   PROVE  FALSE
        OBVIOUS
      <4>1. mqWaitSend[t][i] \in ToSet(mqWaitSend[t]) BY DEF ToSet
      <4>2. Sound(mqWaitSend[t][i]) BY <4>1, HomesAre, HeldAre DEF CallsInv, Roads
      <4>3. Reached(Self(n)) BY <4>2 DEF Sound
      <4> QED BY <1>f, <1>l, <2>1, <2>4, <4>3 DEF Reached
    <3>6. \A t \in Slots : \A i \in DOMAIN mqWaitSend'[t] :
            mqWaitSend'[t][i].to = Self(n) => t = s /\ i >= p
      <4> SUFFICES ASSUME NEW t \in Slots, NEW i \in DOMAIN mqWaitSend'[t],
                          mqWaitSend'[t][i].to = Self(n)
                   PROVE  t = s /\ i = p
        BY <3>4
      <4>1. CASE t # s BY <3>3, <3>5, <4>1
      <4>2. CASE t = s BY <3>4, <3>5, <4>2
      <4> QED BY <4>1, <4>2
    <3>7. cursor'[s] <= p BY <1>a, <1>c, <3>4
    <3>8. ParkedAt(n, s, p)'
      <4>1. Self(n)' = Self(n) BY <1>e
      <4>2. mqWaitSend'[s][p].kind = "start" /\ mqWaitSend'[s][p].to = Self(n)
        BY <1>f, <1>g, <3>4
      <4> QED BY <3>6, <3>7, <4>1, <4>2 DEF ParkedAt
    <3>9. mqIn'[n] = << >> BY <1>a, <1>k, <2>4
    <3> QED BY <2>4, <3>4, <3>8, <3>9 DEF StartParked
  <2> QED BY <2>2, <2>3, <2>4
<1>17. Mail'
  <2> SUFFICES ASSUME NEW d \in Slots, NEW x \in ToSet(mqIn'[d])
               PROVE  x.to.idx = d /\ ToItsService(x, d)'
    BY DEF Mail
  <2>1. CASE d # n
    <3>1. mqIn'[d] = mqIn[d] BY <1>a, <1>d, <2>1 DEF Types
    <3>2. x.to.idx = d /\ ToItsService(x, d)
      BY <1>c, <3>1 DEF CallsInv, Mail, ToLateSender
    <3> QED BY <1>e, <1>h, <1>i, <2>1, <3>2 DEF ToItsService
  <2>2. CASE d = n
    <3>1. x = m
      <4>1. mqIn'[n] = << >> \/ mqIn'[n] = Append(<< >>, m)
        BY <1>a, <1>d, <1>k DEF Types
      <4>2. << >> \in Seq(Message) OBVIOUS
      <4>3. ToSet(Append(<< >>, m)) = ToSet(<< >>) \union {m} BY <4>2, <1>g, AppendMsg
      <4>4. ToSet(<< >>) = {} BY DEF ToSet
      <4> QED BY <2>2, <4>1, <4>3, <4>4
    <3>2. x.to.cnt = svcCntLocal'[n] BY <1>d, <1>e, <1>f, <1>g, <3>1
    <3>3. state'[n] # "free" BY <1>h
    <3> QED BY <1>g, <1>i, <2>2, <3>1, <3>2, <3>3 DEF ToItsService
  <2> QED BY <2>1, <2>2
<1>18. Faults' BY <1>a DEF CallsInv, Faults
<1> QED BY <1>8, <1>9, <1>10, <1>11, <1>12, <1>13, <1>14, <1>15, <1>16, <1>17, <1>18 DEF CallsInv

----------------------------------------------------------------------------
(* proc_svc and do_svc_free                                                *)

LEMMA CallsHandle ==
    ASSUME CallsInv, NEW s \in Slots, Handle(s)
    PROVE  CallsInv'
<1>m. PICK m : m = Head(mqIn[s]) OBVIOUS
<1>a. /\ fault = "none" /\ Alive(s) /\ mqIn[s] # << >> /\ m.to.cnt = svcCntLocal[s]
      /\ mqIn' = [mqIn EXCEPT ![s] = Tail(@)]
      /\ state' = [state EXCEPT ![s] = IF m.kind = "start" THEN "running" ELSE @]
      /\ taken' = [taken EXCEPT ![s] = IF m.kind = "req" THEN @ \union {m} ELSE @]
      /\ waiting' = [waiting EXCEPT ![s] = IF IsAnswer(m) THEN @ \ {m.session} ELSE @]
      /\ heard' = [heard EXCEPT ![s] =
            IF m.from.cnt = svcCnt[m.from.idx] /\ ~Alive(m.from.idx)
            THEN @ \union {m.from} ELSE @]
      /\ fault' = CASE state[s] = "new" /\ m.kind # "start" ->
                            IF m.to \in leaked THEN "leaked" ELSE "unstarted"
                     [] IsAnswer(m) /\ m.session \notin waiting[s] -> "answer"
                     [] OTHER -> "none"
      /\ svcCnt' = svcCnt /\ svcCntLocal' = svcCntLocal /\ mqWaitSend' = mqWaitSend
      /\ cursor' = cursor /\ callId' = callId /\ leaked' = leaked
  BY <1>m DEF Handle, boundVars
<1>b. Types /\ mqIn[s] \in Seq(Message) BY DEF CallsInv, Types
<1>c. /\ Drops(mqIn[s], 1, Tail(mqIn[s])) /\ m = mqIn[s][1] /\ m \in ToSet(mqIn[s])
      /\ m \in Message
  BY <1>a, <1>b, <1>m, TailDrops
<1>d. /\ m.to.idx = s /\ m.to = Self(s) /\ Sound(m) /\ m.from \in Adr
      /\ m.session \in Nat
  <2>1. m.to.idx = s BY <1>a, <1>c, OwnMail
  <2>2. m.to = [idx |-> m.to.idx, cnt |-> m.to.cnt] BY <1>c DEF Message, Adr
  <2>3. Sound(m) BY <1>c, HomesAre, HeldAre DEF CallsInv, Roads
  <2> QED BY <1>a, <1>c, <2>1, <2>2, <2>3 DEF Self, Message
<1>e. \A d \in Slots :
        /\ mqIn'[d] = IF d = s THEN Tail(mqIn[s]) ELSE mqIn[d]
        /\ state'[d] = IF d = s /\ m.kind = "start" THEN "running" ELSE state[d]
        /\ taken'[d] = IF d = s /\ m.kind = "req" THEN taken[d] \union {m} ELSE taken[d]
        /\ waiting'[d] = IF d = s /\ IsAnswer(m) THEN waiting[d] \ {m.session} ELSE waiting[d]
        /\ heard'[d] \subseteq heard[d] \union {m.from}
  BY <1>a, <1>b DEF Types
<1>f. \A d \in Slots : (Alive(d)' <=> Alive(d)) /\ Self(d)' = Self(d)
  BY <1>a, <1>e DEF Alive, Self
<1>g. state[s] = "new" /\ m.kind # "start" => Self(s) \in leaked
  BY <1>a, <1>m DEF CallsInv, Starts, StartAhead, StartParked
<1>h. \A a, k : OfCall(m, a, k) => At(<<"in", s>>, a, k)
  BY <1>c, HeldAre DEF At
<1>i. IsAnswer(m) => m.session \in waiting[s]
  <2>1. IsAnswer(m) => OfCall(m, Self(s), m.session) BY <1>d DEF OfCall
  <2> QED BY <1>a, <1>d, <1>h, <2>1, HomesAre DEF CallsInv, Awaited
<1>1. Faults' /\ fault' # "dead"
  BY <1>a, <1>d, <1>g, <1>i DEF Faults
<1>2. Types'
  <2>a. \A d \in Slots : waiting[d] \subseteq Sessions /\ taken[d] \subseteq Message
                         /\ heard[d] \subseteq Adr
    BY <1>b DEF Types
  <2>b. \A d \in Slots : waiting'[d] \subseteq waiting[d] /\ taken'[d] \subseteq taken[d] \union {m}
                         /\ heard'[d] \subseteq heard[d] \union {m.from}
    BY <1>e
  <2>1. \A d \in Slots : waiting'[d] \subseteq Sessions /\ taken'[d] \subseteq Message
                         /\ heard'[d] \subseteq Adr
    BY <1>c, <1>d, <2>a, <2>b
  <2>2. /\ waiting' \in [Slots -> SUBSET Sessions] /\ taken' \in [Slots -> SUBSET Message]
        /\ heard' \in [Slots -> SUBSET Adr]
    BY <1>a, <1>b, <2>1 DEF Types
  <2>3. mqIn' \in [Slots -> Seq(Message)] BY <1>a, <1>b, <1>c DEF Types, Drops
  <2>4. state' \in [Slots -> {"new", "running", "exiting", "exited", "freeing", "free"}]
    BY <1>a, <1>b DEF Types
  <2> QED BY <1>a, <1>b, <2>2, <2>3, <2>4 DEF Types
<1>3. Counts' BY <1>a, <1>f, BootAssumption DEF CallsInv, Counts
<1>4. \A h \in Homes : \A x \in Held(h)' :
        x \in Held(h) \/ (h = <<"taken", s>> /\ x = m /\ m.kind = "req")
  <2> SUFFICES ASSUME NEW h \in Homes, NEW x \in Held(h)'
               PROVE  x \in Held(h) \/ (h = <<"taken", s>> /\ x = m /\ m.kind = "req")
    OBVIOUS
  <2>1. PICK d \in Slots : h = <<"in", d>> \/ h = <<"wait", d>> \/ h = <<"taken", d>>
    BY HomesAre
  <2>2. CASE h = <<"in", d>>
    <3>1. ToSet(mqIn'[d]) \subseteq ToSet(mqIn[d]) BY <1>c, <1>e DEF Drops
    <3> QED BY <2>2, <3>1, HeldAre, HeldAreNext
  <2>3. CASE h = <<"wait", d>> BY <1>a, <2>3, HeldAre, HeldAreNext
  <2>4. CASE h = <<"taken", d>>
    <3>1. x \in taken'[d] BY <2>4, HeldAreNext
    <3>2. x \in taken[d] \/ (d = s /\ m.kind = "req" /\ x = m) BY <1>e, <3>1
    <3> QED BY <2>4, <3>2, HeldAre
  <2> QED BY <2>1, <2>2, <2>3, <2>4
<1>5. \A h \in Homes : \A x \in Held(h)' : \E g \in Homes : x \in Held(g)
  BY <1>4, <1>c, HomesAre, HeldAre
<1>6. Roads'
  <2>1. \A x \in Message : Sound(x) => Sound(x)' BY <1>a, <1>f, RoadsStay
  <2>2. \A h \in Homes : \A x \in Held(h) : Sound(x) /\ x \in Message
    BY HeldTypes DEF CallsInv, Roads
  <2>3. \A h \in Homes : \A x \in Held(h)' : Sound(x)' BY <1>5, <2>1, <2>2
  <2> QED BY <2>3 DEF Roads
<1>7. Ears'
  <2>1. \A d \in Slots : \A a \in heard'[d] : a \in heard[d] \/ (a \in Adr /\ Reached(a))
    BY <1>d, <1>e DEF Sound
  <2> QED BY <1>a, <1>f, <2>1, EarsAfter
<1>8. Taken' BY <1>e DEF CallsInv, Taken
<1>9. \A a \in Adr, k \in Nat : OfCall(m, a, k) =>
        \A h \in Homes : At(h, a, k)' => h = <<"taken", s>> /\ m.kind = "req"
  <2> SUFFICES ASSUME NEW a \in Adr, NEW k \in Nat, OfCall(m, a, k), NEW h \in Homes, At(h, a, k)'
               PROVE  h = <<"taken", s>> /\ m.kind = "req"
    OBVIOUS
  <2>1. PICK x \in Held(h)' : OfCall(x, a, k) BY DEF At
  <2>2. CASE x \in Held(h)
    <3>1. At(h, a, k) /\ At(<<"in", s>>, a, k) BY <1>h, <2>1, <2>2 DEF At
    <3>2. h = <<"in", s>> BY <3>1, HomesAre DEF CallsInv, OneHome
    <3>3. x \in ToSet(Tail(mqIn[s])) BY <1>e, <2>1, <3>2, HeldAreNext
    <3>4. Once(mqIn[s]) BY DEF CallsInv, OnceEach
    <3> QED BY <1>c, <2>1, <3>3, <3>4 DEF Drops
  <2> QED BY <1>4, <2>1, <2>2
<1>10. \A a \in Adr, k \in Nat : ~OfCall(m, a, k) =>
        \A h \in Homes : At(h, a, k)' => At(h, a, k)
  BY <1>4 DEF At
<1>11. OneHome'
  <2> SUFFICES ASSUME NEW a \in Adr, NEW k \in Nat, NEW h \in Homes, NEW g \in Homes,
                      At(h, a, k)', At(g, a, k)'
               PROVE  h = g
    BY DEF OneHome
  <2>1. CASE OfCall(m, a, k) BY <1>9, <2>1
  <2>2. CASE ~OfCall(m, a, k)
    <3>1. At(h, a, k) /\ At(g, a, k) BY <1>10, <2>2
    <3> QED BY <3>1 DEF CallsInv, OneHome
  <2> QED BY <2>1, <2>2
<1>12. OnceEach'
  <2>1. \A d \in Slots : Once(mqIn[d]) /\ Once(mqWaitSend[d]) /\ OnceSet(taken[d])
    BY DEF CallsInv, OnceEach
  <2>2. \A d \in Slots : Once(mqIn'[d]) BY <1>c, <1>e, <2>1 DEF Drops
  <2>3. \A a \in Adr, k \in Nat : OfCall(m, a, k) => \A x \in taken[s] : ~OfCall(x, a, k)
    <3> SUFFICES ASSUME NEW a \in Adr, NEW k \in Nat, OfCall(m, a, k),
                        NEW x \in taken[s], OfCall(x, a, k)
                 PROVE  FALSE
      OBVIOUS
    <3>1. At(<<"taken", s>>, a, k) BY HeldAre DEF At
    <3>2. At(<<"in", s>>, a, k) BY <1>h
    <3>3. <<"taken", s>> = <<"in", s>> BY <3>1, <3>2, HomesAre DEF CallsInv, OneHome
    <3> QED BY <3>3
  <2>4. ASSUME NEW d \in Slots PROVE OnceSet(taken'[d])
    <3>1. CASE d = s /\ m.kind = "req"
      <4>1. OnceSet(taken[s] \union {m}) BY <2>1, <2>3 DEF OnceSet
      <4> QED BY <1>e, <3>1, <4>1
    <3>2. CASE ~(d = s /\ m.kind = "req")
      <4>1. taken'[d] = taken[d] BY <1>e, <3>2
      <4> QED BY <2>1, <4>1
    <3> QED BY <3>1, <3>2
  <2> QED BY <1>a, <2>1, <2>2, <2>4 DEF OnceEach
<1>13. Awaited'
  <2> SUFFICES ASSUME NEW d \in Slots, NEW k \in Nat, NEW h \in Homes, Alive(d)',
                      At(h, Self(d), k)'
               PROVE  k \in waiting'[d]
    BY <1>f DEF Awaited
  <2>1. Alive(d) /\ Self(d) \in Adr BY <1>b, <1>f, SelfAdr
  <2>a. At(h, Self(d), k)' <=> \E x \in Held(h)' : OfCall(x, Self(d), k)
    BY <1>f DEF At
  <2>2. CASE OfCall(m, Self(d), k)
    <3>1. PICK x \in Held(h)' : OfCall(x, Self(d), k) BY <2>a
    <3>2. m.kind = "req"
      <4>1. PICK a : a = Self(d) OBVIOUS
      <4>2. At(h, a, k)' BY <3>1, <4>1 DEF At
      <4> QED BY <1>9, <2>1, <2>2, <4>1, <4>2
    <3>3. k \in waiting[d] BY <1>h, <2>1, <2>2, HomesAre DEF CallsInv, Awaited
    <3> QED BY <1>e, <3>2, <3>3 DEF IsAnswer
  <2>3. CASE ~OfCall(m, Self(d), k)
    <3>1. PICK x \in Held(h)' : OfCall(x, Self(d), k) BY <2>a
    <3>2. x \in Held(h) BY <1>4, <2>3, <3>1
    <3>3. k \in waiting[d] BY <2>1, <3>1, <3>2 DEF CallsInv, Awaited, At
    <3>4. d = s /\ IsAnswer(m) => k # m.session BY <1>d, <2>3 DEF OfCall
    <3> QED BY <1>e, <3>3, <3>4
  <2> QED BY <2>2, <2>3
<1>14. Waiters'
  BY <1>a, <1>e DEF CallsInv, Waiters, Alive
<1>15. Starts'
  <2> SUFFICES ASSUME NEW d \in Slots, state'[d] = "new", Self(d)' \notin leaked'
               PROVE  StartAhead(d)' \/ StartParked(d)'
    BY DEF Starts
  <2>1. Self(d) \notin leaked /\ Self(d)' = Self(d) BY <1>a, <1>f
  <2>2. d # s /\ state[d] = "new" BY <1>e, <1>g, <2>1
  <2>3. \A c \in Slots : cursor'[c] \in Nat /\ cursor'[c] <= cursor[c]
    BY <1>a, <1>b DEF Types
  <2> QED BY <1>a, <1>e, <2>1, <2>2, <2>3, StartRests
<1>16. Mail'
  <2>1. \A d \in Slots : \A x \in ToSet(mqIn'[d]) : x \in ToSet(mqIn[d])
    BY <1>c, <1>e DEF Drops
  <2>2. \A d \in Slots : state'[d] = "free" => state[d] = "free" BY <1>e
  <2> QED BY <1>a, <1>f, <2>1, <2>2, MailAfter
<1> QED BY <1>1, <1>2, <1>3, <1>6, <1>7, <1>8, <1>11, <1>12, <1>13, <1>14, <1>15, <1>16 DEF CallsInv

LEMMA CallsEcho ==
    ASSUME CallsInv, NEW s \in Slots, Echo(s)
    PROVE  CallsInv'
<1>m. PICK m : m = Head(mqIn[s]) OBVIOUS
<1>o. PICK echo : echo = Msg("gone", Nobody, m.from, m.session) OBVIOUS
<1>q. PICK q : q = [mqIn EXCEPT ![s] = Tail(@)] OBVIOUS
<1>w. PICK w : w = mqWaitSend OBVIOUS
<1>a. /\ fault = "none" /\ (Alive(s) \/ state[s] = "freeing")
      /\ mqIn[s] # << >> /\ m.to.cnt # svcCntLocal[s]
      /\ \/ /\ m.kind # "req" \/ Gone(echo)
            /\ mqIn' = q /\ mqWaitSend' = w
         \/ /\ m.kind = "req" /\ ~Gone(echo)
            /\ mqIn' = q /\ mqWaitSend' = [mqWaitSend EXCEPT ![s] = Append(@, echo)]
         \/ /\ m.kind = "req" /\ ~Gone(echo)
            /\ mqIn' = [q EXCEPT ![echo.to.idx] = Append(@, echo)] /\ mqWaitSend' = w
      /\ UNCHANGED <<serviceVars, cursor, luaVars, boundVars, fault>>
  BY <1>m, <1>o, <1>q, <1>w DEF Echo
<1>b. /\ state' = state /\ svcCnt' = svcCnt /\ svcCntLocal' = svcCntLocal
      /\ cursor' = cursor /\ heard' = heard /\ waiting' = waiting /\ callId' = callId
      /\ taken' = taken /\ leaked' = leaked /\ fault' = fault
  BY <1>a DEF serviceVars, luaVars, boundVars
<1>c. Types /\ mqIn[s] \in Seq(Message) /\ svcCntLocal = svcCnt
  BY DEF CallsInv, Types, Counts
<1>d. /\ Drops(mqIn[s], 1, Tail(mqIn[s])) /\ m = mqIn[s][1] /\ m \in ToSet(mqIn[s])
      /\ m \in Message
  BY <1>a, <1>c, <1>m, TailDrops
<1>e. state[s] = "freeing" BY <1>a, <1>d, OwnMail
<1>f. \A d \in Slots : (Alive(d)' <=> Alive(d)) /\ Self(d)' = Self(d)
  BY <1>b DEF Alive, Self
<1>g. /\ q \in [Slots -> Seq(Message)]
      /\ \A d \in Slots : q[d] = IF d = s THEN Tail(mqIn[s]) ELSE mqIn[d]
  BY <1>c, <1>d, <1>q DEF Types, Drops
<1>h. Left(q, w)
  <2>1. \A d \in Slots : Once(mqIn[d]) /\ Once(mqWaitSend[d]) BY DEF CallsInv, OnceEach
  <2>2. \A d \in Slots : ToSet(q[d]) \subseteq ToSet(mqIn[d]) /\ Once(q[d])
    BY <1>d, <1>g, <2>1 DEF Drops
  <2> QED BY <1>b, <1>c, <1>g, <1>w, <2>1, <2>2 DEF Left, Types
<1>1. CASE mqIn' = q /\ mqWaitSend' = w
  <2>1. \A d \in Slots : state'[d] = "free" => state[d] = "free" BY <1>b
  <2>2. /\ mqIn' \in [Slots -> Seq(Message)] /\ mqWaitSend' \in [Slots -> Seq(Message)]
        /\ Counts' /\ Roads' /\ Ears' /\ Taken' /\ OneHome' /\ OnceEach' /\ Awaited'
        /\ Mail' /\ Faults'
    BY <1>a, <1>b, <1>f, <1>h, <1>1, <2>1, LeaveKeeps
  <2>3. Starts'
    <3> SUFFICES ASSUME NEW d \in Slots, state'[d] = "new", Self(d)' \notin leaked'
                 PROVE  StartAhead(d)' \/ StartParked(d)'
      BY DEF Starts
    <3>1. state[d] = "new" /\ Self(d) \notin leaked /\ Self(d)' = Self(d) BY <1>b, <1>f
    <3>2. mqIn'[d] = mqIn[d] /\ mqWaitSend' = mqWaitSend BY <1>e, <1>g, <1>w, <1>1, <3>1
    <3>3. \A c \in Slots : cursor'[c] \in Nat /\ cursor'[c] <= cursor[c]
      BY <1>b, <1>c DEF Types
    <3> QED BY <3>1, <3>2, <3>3, StartRests
  <2>4. Types' BY <1>b, <1>c, <2>2 DEF Types
  <2>5. Waiters' BY <1>b DEF CallsInv, Waiters
  <2> QED BY <2>2, <2>3, <2>4, <2>5 DEF CallsInv
<1>2. ASSUME m.kind = "req", ~Gone(echo), Puts(q, w, s, echo)
      PROVE  CallsInv'
  <2>a. <<"in", s>> \in Homes /\ Held(<<"in", s>>) = ToSet(mqIn[s])
    BY HomesAre, HeldAre
  <2>b. /\ Sound(m) /\ Had(m.from) /\ OfCall(m, m.from, m.session)
        /\ \A d \in Slots, k \in Nat : Alive(d) /\ OfCall(m, Self(d), k) => k \in waiting[d]
        /\ \A d \in Slots : state[d] = "new" => m.from # Self(d)
    BY <1>d, <1>2, <2>a, RequestIs
  <2>c. m.from \in Adr /\ m.session \in Nat BY <1>d DEF Message
  <2>d. /\ echo \in Message /\ IsAnswer(echo) /\ echo.from = Nobody /\ echo.to = m.from
        /\ echo.session = m.session /\ echo.kind # "req"
        /\ echo.to.idx \in Slots
    BY <1>o, <2>c, ConstantsFit DEF Msg, Message, Kinds, IsAnswer, Adr
  <2>e. \A a, k : OfCall(echo, a, k) <=> OfCall(m, a, k) BY <1>2, <2>d, AnswerIsOfCall
  <2>1. Sound(echo)'
    <3>1. Had(Nobody)
      BY <1>c, BootAssumption DEF CallsInv, Counts, Types, Nobody, Had
    <3>2. Had(echo.to)' /\ Had(echo.from)' BY <1>b, <2>b, <2>d, <3>1 DEF Had, Alive
    <3> QED BY <2>d, <3>2 DEF Sound, Reached
  <2>2. \A d \in Slots : NoneOf(echo, ToSet(q[d])) /\ NoneOf(echo, ToSet(w[d]))
                         /\ NoneOf(echo, taken'[d])
    <3>1. ASSUME NEW h \in Homes, h # <<"in", s>> PROVE NoneOf(echo, Held(h))
      <4> SUFFICES ASSUME NEW a \in Adr, NEW k \in Nat, OfCall(echo, a, k),
                          NEW n \in Held(h), OfCall(n, a, k)
                   PROVE  FALSE
        BY DEF NoneOf
      <4>1. At(h, a, k) BY DEF At
      <4>2. At(<<"in", s>>, a, k) BY <1>d, <2>a, <2>e DEF At
      <4> QED BY <2>a, <3>1, <4>1, <4>2 DEF CallsInv, OneHome
    <3>2. NoneOf(echo, ToSet(Tail(mqIn[s])))
      <4>1. Once(mqIn[s]) BY DEF CallsInv, OnceEach
      <4> QED BY <1>d, <2>e, <4>1 DEF NoneOf, Drops
    <3>3. ASSUME NEW d \in Slots
          PROVE  NoneOf(echo, ToSet(q[d])) /\ NoneOf(echo, ToSet(w[d]))
                 /\ NoneOf(echo, taken'[d])
      <4>1. <<"wait", d>> # <<"in", s>> /\ <<"taken", d>> # <<"in", s>> OBVIOUS
      <4>2. NoneOf(echo, ToSet(w[d])) /\ NoneOf(echo, taken'[d])
        BY <1>b, <1>w, <3>1, <4>1, HomesAre, HeldAre
      <4>3. CASE d = s BY <1>g, <3>2, <4>2, <4>3
      <4>4. CASE d # s
        <5>1. <<"in", d>> # <<"in", s>> BY <4>4
        <5>2. NoneOf(echo, ToSet(mqIn[d])) BY <3>1, <5>1, HomesAre, HeldAre
        <5> QED BY <1>g, <4>2, <4>4, <5>2
      <4> QED BY <4>3, <4>4
    <3> QED BY <3>3
  <2>3. \A d \in Slots, k \in Nat : Alive(d) /\ OfCall(echo, Self(d), k) => k \in waiting'[d]
    BY <1>b, <2>b, <2>e
  <2>4. echo.to.cnt = svcCnt[echo.to.idx] /\ Alive(echo.to.idx)
    BY <1>2, <1>c, <2>b, <2>d DEF Gone, Had, Types
  <2>5. UNCHANGED <<serviceVars, heard>> BY <1>a, <1>b
  <2>6. /\ leaked \subseteq leaked' /\ fault' \in {"none", "dead"}
        /\ \A d \in Slots : waiting[d] \subseteq waiting'[d]
    BY <1>a, <1>b
  <2>7. mqIn' # q => echo.to.cnt = svcCnt[echo.to.idx] /\ (Alive(echo.to.idx) \/ fault' = "dead")
    BY <2>4
  <2>8. /\ mqIn' \in [Slots -> Seq(Message)] /\ mqWaitSend' \in [Slots -> Seq(Message)]
        /\ Counts' /\ Roads' /\ Ears' /\ Taken' /\ OneHome' /\ OnceEach' /\ Awaited'
        /\ Mail' /\ Faults'
    BY <1>a, <1>h, <1>2, <2>d, <2>1, <2>2, <2>3, <2>5, <2>6, <2>7, PutKeeps
  <2>9. Starts'
    <3> SUFFICES ASSUME NEW d \in Slots, state'[d] = "new", Self(d)' \notin leaked'
                 PROVE  StartAhead(d)' \/ StartParked(d)'
      BY DEF Starts
    <3>1. state[d] = "new" /\ Self(d) \notin leaked /\ Self(d)' = Self(d) BY <1>b, <1>f
    <3>2. q[d] = mqIn[d] /\ q \in [Slots -> Seq(Message)] BY <1>e, <1>g, <3>1
    <3>3. echo.to # Self(d) BY <2>b, <2>d, <3>1
    <3>4. \A c \in Slots : \A p \in DOMAIN mqWaitSend[c] :
            ParkedAt(d, c, p) /\ echo.to = Self(d) => s = c /\ mqIn' = q
      BY <3>3
    <3>5. echo.to.cnt = svcCntLocal[echo.to.idx] /\ cursor' = cursor /\ echo \in Message
      BY <1>b, <1>c, <2>d, <2>4
    <3>6. Puts(q, mqWaitSend, s, echo) BY <1>2, <1>w DEF Puts
    <3> QED BY <3>1, <3>2, <3>4, <3>5, <3>6, StartStays
  <2>10. Types' BY <1>b, <1>c, <2>8 DEF Types
  <2>11. Waiters' BY <1>b DEF CallsInv, Waiters
  <2> QED BY <2>8, <2>9, <2>10, <2>11 DEF CallsInv
<1>3. CASE m.kind = "req" /\ ~Gone(echo) /\ ~(mqIn' = q /\ mqWaitSend' = w)
  <2>1. Puts(q, w, s, echo) BY <1>a, <1>w, <1>3 DEF Puts
  <2> QED BY <1>2, <1>3, <2>1
<1> QED BY <1>a, <1>1, <1>3

(* A step of proc_svc, or of do_svc_free, that moves no message; what a    *)
(* service has taken may go.                                               *)
LEMMA CallsIdle ==
    ASSUME CallsInv, fault = "none", fault' = "none",
           UNCHANGED <<svcCnt, svcCntLocal, queueVars, waiting, callId, heard, leaked>>,
           state' \in [Slots -> {"new", "running", "exiting", "exited", "freeing", "free"}],
           \A d \in Slots : (Alive(d)' <=> Alive(d)) /\ (Alive(d) => state'[d] = state[d]),
           \A d \in Slots : state'[d] = "free" => state[d] = "free" \/ mqIn[d] = << >>,
           taken' \in [Slots -> SUBSET Message], \A d \in Slots : taken'[d] \subseteq taken[d],
           cursor' \in [Slots -> Nat],
           \A c \in Slots : \A d \in Slots : \A p \in DOMAIN mqWaitSend[c] :
               state[d] = "new" /\ mqIn[d] = << >> /\ ParkedAt(d, c, p) => cursor'[c] <= p
    PROVE  CallsInv'
<1>a. Types /\ mqIn' = mqIn /\ mqWaitSend' = mqWaitSend BY DEF CallsInv, queueVars
<1>b. \A d \in Slots : Self(d)' = Self(d) BY DEF Self
<1>1. PICK q : q = mqIn OBVIOUS
<1>2. PICK w : w = mqWaitSend OBVIOUS
<1>3. Left(q, w) BY <1>1, <1>2 DEF CallsInv, Types, OnceEach, Left
<1>4. /\ Counts' /\ Roads' /\ Ears' /\ Taken' /\ OneHome' /\ OnceEach' /\ Awaited'
      /\ Mail' /\ Faults'
  BY <1>a, <1>1, <1>2, <1>3, LeaveKeeps
<1>5. Types' BY <1>a DEF Types
<1>6. Waiters' BY DEF CallsInv, Waiters, Alive
<1>7. Starts'
  <2> SUFFICES ASSUME NEW d \in Slots, state'[d] = "new", Self(d)' \notin leaked'
               PROVE  StartAhead(d)' \/ StartParked(d)'
    BY DEF Starts
  <2>1. Alive(d)' BY DEF Alive
  <2>2. state[d] = "new" /\ Self(d) \notin leaked BY <1>b, <2>1
  <2>3. CASE StartAhead(d) BY <1>a, <2>3 DEF StartAhead
  <2>4. CASE StartParked(d)
    <3>0. mqIn[d] = << >> BY <2>4 DEF StartParked
    <3>1. PICK c \in Slots : \E p \in DOMAIN mqWaitSend[c] : ParkedAt(d, c, p)
      BY <2>4 DEF StartParked
    <3>2. PICK p \in DOMAIN mqWaitSend[c] : ParkedAt(d, c, p) BY <3>1
    <3>3. cursor'[c] <= p BY <2>2, <3>0, <3>2
    <3>4. ParkedAt(d, c, p)' BY <1>a, <1>b, <3>2, <3>3 DEF ParkedAt
    <3> QED BY <1>a, <3>0, <3>2, <3>4 DEF StartParked
  <2> QED BY <2>2, <2>3, <2>4 DEF CallsInv, Starts
<1> QED BY <1>4, <1>5, <1>6, <1>7 DEF CallsInv

LEMMA ParkedIsIn ==
    ASSUME CallsInv, NEW c \in Slots, NEW d \in Slots, NEW p \in DOMAIN mqWaitSend[c],
           ParkedAt(d, c, p)
    PROVE  p \in Nat /\ p >= 1 /\ cursor[c] \in Nat /\ cursor[c] <= p
<1>1. mqWaitSend[c] \in Seq(Message) /\ cursor[c] \in Nat BY DEF CallsInv, Types
<1> QED BY <1>1 DEF ParkedAt

LEMMA CallsRetryBegin ==
    ASSUME CallsInv, NEW s \in Slots, RetryBegin(s)
    PROVE  CallsInv'
<1>a. /\ fault = "none" /\ (Alive(s) \/ state[s] \in {"exiting", "exited"})
      /\ state' = [state EXCEPT ![s] = IF @ = "exiting" THEN "exited" ELSE @]
      /\ taken' = [taken EXCEPT ![s] = IF Alive(s) THEN @ ELSE {}]
      /\ cursor' = [cursor EXCEPT ![s] = 1]
      /\ UNCHANGED <<svcCnt, svcCntLocal, queueVars, waiting, callId, heard, leaked>>
      /\ fault' = "none"
  BY DEF RetryBegin, boundVars
<1>b. Types BY DEF CallsInv
<1>1. \A d \in Slots : /\ state'[d] = IF d = s /\ state[d] = "exiting" THEN "exited" ELSE state[d]
                       /\ taken'[d] \subseteq taken[d]
                       /\ cursor'[d] = IF d = s THEN 1 ELSE cursor[d]
  BY <1>a, <1>b DEF Types
<1>2. /\ state' \in [Slots -> {"new", "running", "exiting", "exited", "freeing", "free"}]
      /\ taken' \in [Slots -> SUBSET Message] /\ cursor' \in [Slots -> Nat]
  BY <1>a, <1>b DEF Types
<1>3. \A d \in Slots : (Alive(d)' <=> Alive(d)) /\ (Alive(d) => state'[d] = state[d])
  BY <1>1 DEF Alive
<1>4. \A d \in Slots : state'[d] = "free" => state[d] = "free" BY <1>1
<1>5. \A c \in Slots : \A d \in Slots : \A p \in DOMAIN mqWaitSend[c] :
        ParkedAt(d, c, p) => cursor'[c] <= p
  BY <1>1, ParkedIsIn
<1> QED BY <1>a, <1>1, <1>2, <1>3, <1>4, <1>5, CallsIdle

LEMMA CallsRetryEnd ==
    ASSUME CallsInv, NEW s \in Slots, RetryEnd(s)
    PROVE  CallsInv'
<1>a. /\ fault = "none" /\ cursor' = [cursor EXCEPT ![s] = 0] /\ state' = state /\ taken' = taken
      /\ UNCHANGED <<svcCnt, svcCntLocal, queueVars, waiting, callId, heard, leaked>>
      /\ fault' = "none"
  BY DEF RetryEnd, boundVars, serviceVars, luaVars
<1>b. Types BY DEF CallsInv
<1>1. \A d \in Slots : (Alive(d)' <=> Alive(d)) BY <1>a DEF Alive
<1>2. /\ state' \in [Slots -> {"new", "running", "exiting", "exited", "freeing", "free"}]
      /\ taken' \in [Slots -> SUBSET Message] /\ cursor' \in [Slots -> Nat]
  BY <1>a, <1>b DEF Types
<1>3. \A c \in Slots : cursor'[c] = IF c = s THEN 0 ELSE cursor[c] BY <1>a, <1>b DEF Types
<1>4. \A c \in Slots : \A d \in Slots : \A p \in DOMAIN mqWaitSend[c] :
        ParkedAt(d, c, p) => cursor'[c] <= p
  BY <1>3, ParkedIsIn
<1> QED BY <1>a, <1>1, <1>2, <1>4, CallsIdle

LEMMA CallsRetryFails ==
    ASSUME CallsInv, NEW s \in Slots, RetryFails(s)
    PROVE  CallsInv'
<1>m. PICK m : m = mqWaitSend[s][cursor[s]] OBVIOUS
<1>a. /\ fault = "none" /\ cursor[s] \in DOMAIN mqWaitSend[s] /\ (Gone(m) \/ Full(m))
      /\ cursor' = [cursor EXCEPT ![s] = @ + 1] /\ state' = state /\ taken' = taken
      /\ UNCHANGED <<svcCnt, svcCntLocal, queueVars, waiting, callId, heard, leaked>>
      /\ fault' = "none"
  BY <1>m DEF RetryFails, AtParked, boundVars, serviceVars, luaVars
<1>b. Types /\ svcCntLocal = svcCnt BY DEF CallsInv, Counts
<1>1. \A d \in Slots : (Alive(d)' <=> Alive(d)) BY <1>a DEF Alive
<1>2. /\ state' \in [Slots -> {"new", "running", "exiting", "exited", "freeing", "free"}]
      /\ taken' \in [Slots -> SUBSET Message] /\ cursor' \in [Slots -> Nat]
  BY <1>a, <1>b DEF Types
<1>3. \A c \in Slots : cursor'[c] = IF c = s THEN cursor[c] + 1 ELSE cursor[c]
  BY <1>a, <1>b DEF Types
<1>4. ASSUME NEW c \in Slots, NEW d \in Slots, NEW p \in DOMAIN mqWaitSend[c],
             state[d] = "new", mqIn[d] = << >>, ParkedAt(d, c, p)
      PROVE  cursor'[c] <= p
  <2>1. p \in Nat /\ cursor[c] \in Nat /\ cursor[c] <= p BY <1>4, ParkedIsIn
  <2>2. CASE c = s /\ cursor[c] = p
    <3>1. m.to = Self(d) BY <1>4, <1>m, <2>2 DEF ParkedAt
    <3>2. m.to.idx = d /\ m.to.cnt = svcCnt[d] BY <1>b, <3>1 DEF Self
    <3>3. ~Gone(m) BY <3>2 DEF Gone
    <3>4. ~Full(m) BY <1>4, <3>2, CapAssumption DEF Full
    <3> QED BY <1>a, <3>3, <3>4
  <2> QED BY <1>3, <2>1, <2>2
<1> QED BY <1>a, <1>1, <1>2, <1>4, CallsIdle

LEMMA CallsFreeBegin ==
    ASSUME CallsInv, NEW s \in Slots, FreeBegin(s)
    PROVE  CallsInv'
<1>a. /\ fault = "none" /\ state[s] \in {"exiting", "exited"}
      /\ state' = [state EXCEPT ![s] = "freeing"]
      /\ taken' = [taken EXCEPT ![s] = {}] /\ cursor' = cursor
      /\ UNCHANGED <<svcCnt, svcCntLocal, queueVars, waiting, callId, heard, leaked>>
      /\ fault' = "none"
  BY DEF FreeBegin, boundVars
<1>b. Types BY DEF CallsInv
<1>1. \A d \in Slots : /\ state'[d] = IF d = s THEN "freeing" ELSE state[d]
                       /\ taken'[d] \subseteq taken[d]
  BY <1>a, <1>b DEF Types
<1>2. /\ state' \in [Slots -> {"new", "running", "exiting", "exited", "freeing", "free"}]
      /\ taken' \in [Slots -> SUBSET Message] /\ cursor' \in [Slots -> Nat]
  BY <1>a, <1>b DEF Types
<1>3. \A d \in Slots : (Alive(d)' <=> Alive(d)) /\ (Alive(d) => state'[d] = state[d])
  BY <1>a, <1>1 DEF Alive
<1>4. \A d \in Slots : state'[d] = "free" => state[d] = "free" BY <1>1
<1>5. \A c \in Slots : \A d \in Slots : \A p \in DOMAIN mqWaitSend[c] :
        ParkedAt(d, c, p) => cursor'[c] <= p
  BY <1>a, ParkedIsIn
<1> QED BY <1>a, <1>1, <1>2, <1>3, <1>4, <1>5, CallsIdle

LEMMA CallsFreeEnd ==
    ASSUME CallsInv, NEW s \in Slots, FreeEnd(s)
    PROVE  CallsInv'
<1>a. /\ fault = "none" /\ state[s] = "freeing" /\ mqIn[s] = << >>
      /\ state' = [state EXCEPT ![s] = "free"]
      /\ taken' = taken /\ cursor' = cursor
      /\ UNCHANGED <<svcCnt, svcCntLocal, queueVars, waiting, callId, heard, leaked>>
      /\ fault' = "none"
  BY DEF FreeEnd, boundVars, luaVars
<1>b. Types BY DEF CallsInv
<1>1. \A d \in Slots : state'[d] = IF d = s THEN "free" ELSE state[d]
  BY <1>a, <1>b DEF Types
<1>2. /\ state' \in [Slots -> {"new", "running", "exiting", "exited", "freeing", "free"}]
      /\ taken' \in [Slots -> SUBSET Message] /\ cursor' \in [Slots -> Nat]
  BY <1>a, <1>b DEF Types
<1>3. \A d \in Slots : (Alive(d)' <=> Alive(d)) /\ (Alive(d) => state'[d] = state[d])
  BY <1>a, <1>1 DEF Alive
<1>4. \A d \in Slots : state'[d] = "free" => state[d] = "free" \/ mqIn[d] = << >>
  BY <1>a, <1>1
<1>5. \A c \in Slots : \A d \in Slots : \A p \in DOMAIN mqWaitSend[c] :
        ParkedAt(d, c, p) => cursor'[c] <= p
  BY <1>a, ParkedIsIn
<1> QED BY <1>a, <1>1, <1>2, <1>3, <1>4, <1>5, CallsIdle

(* A start message stays parked ahead when another message is taken out at *)
(* the cursor, which is not for the same service.                          *)
LEMMA StartUnparked ==
    ASSUME CallsInv, NEW s \in Slots, NEW i \in DOMAIN mqWaitSend[s], i = cursor[s],
           NEW d \in Slots, NEW c \in Slots, NEW p \in DOMAIN mqWaitSend[c], ParkedAt(d, c, p),
           ~(c = s /\ p = i), cursor' = cursor, Self(d)' = Self(d),
           mqWaitSend' = [mqWaitSend EXCEPT ![s] = RemoveAt(@, i)]
    PROVE  /\ mqWaitSend[s][i].to # Self(d)
           /\ \E p1 \in DOMAIN mqWaitSend'[c] : ParkedAt(d, c, p1)'
<1>a. mqWaitSend \in [Slots -> Seq(Message)] /\ mqWaitSend[s] \in Seq(Message)
  BY DEF CallsInv, Types
<1>b. p \in Nat /\ p >= 1 /\ i \in Nat /\ i >= 1 /\ cursor[c] <= p
  BY <1>a, ParkedIsIn
<1>c. PICK q : q = mqWaitSend[s] OBVIOUS
<1>d. PICK r : r = RemoveAt(q, i) OBVIOUS
<1>e. Without(q, i, r) /\ r \in Seq(Message) /\ q \in Seq(Message)
  <2>1. q \in Seq(Message) /\ i \in DOMAIN q BY <1>a, <1>c
  <2> QED BY <1>d, <2>1, RemoveAtDrops DEF Drops
<1>f. /\ Len(q) \in Nat /\ Len(r) = Len(q) - 1 /\ DOMAIN q = 1 .. Len(q)
      /\ DOMAIN r = 1 .. Len(r)
      /\ \A n \in 1 .. Len(r) : r[n] = IF n < i THEN q[n] ELSE q[n + 1]
  BY <1>e DEF Without
<1>g. \A t \in Slots : mqWaitSend'[t] = IF t = s THEN r ELSE mqWaitSend[t]
  BY <1>a, <1>c, <1>d
<1>1. mqWaitSend[s][i].to # Self(d) BY <1>b DEF ParkedAt
<1>2. /\ mqWaitSend[c][p].kind = "start" /\ mqWaitSend[c][p].to = Self(d)
      /\ \A t \in Slots : \A j \in DOMAIN mqWaitSend[t] :
           mqWaitSend[t][j].to = Self(d) => t = c /\ j >= p
  BY DEF ParkedAt
<1>3. CASE c # s
  <2>1. p \in DOMAIN mqWaitSend'[c] /\ mqWaitSend'[c][p] = mqWaitSend[c][p] BY <1>3, <1>g
  <2>2. ASSUME NEW t \in Slots, NEW j \in DOMAIN mqWaitSend'[t],
               mqWaitSend'[t][j].to = Self(d)
        PROVE  t = c /\ j >= p
    <3>1. CASE t # s BY <1>2, <1>g, <2>2, <3>1
    <3>2. CASE t = s
      <4>1. j \in 1 .. Len(r) /\ r[j].to = Self(d) BY <1>f, <1>g, <2>2, <3>2
      <4>2. \E n \in DOMAIN q : r[j] = q[n]
        <5>1. CASE j < i
          <6>1. j \in DOMAIN q /\ r[j] = q[j] BY <1>f, <4>1, <5>1
          <6> QED BY <6>1
        <5>2. CASE ~(j < i)
          <6>1. j + 1 \in DOMAIN q /\ r[j] = q[j + 1] BY <1>f, <4>1, <5>2
          <6> QED BY <6>1
        <5> QED BY <5>1, <5>2
      <4>3. s = c BY <1>2, <1>c, <4>1, <4>2
      <4> QED BY <1>3, <4>3
    <3> QED BY <3>1, <3>2
  <2>3. ParkedAt(d, c, p)' BY <1>2, <1>b, <2>1, <2>2 DEF ParkedAt
  <2> QED BY <1>1, <2>1, <2>3
<1>4. CASE c = s
  <2>0. PICK p1 : p1 = p - 1 OBVIOUS
  <2>1. /\ p1 \in Nat /\ p1 >= i /\ p1 \in 1 .. Len(r) /\ p1 + 1 = p
    BY <1>4, <1>b, <1>c, <1>f, <2>0
  <2>2. p1 \in DOMAIN mqWaitSend'[c] /\ mqWaitSend'[c][p1] = mqWaitSend[c][p]
    BY <1>4, <1>b, <1>c, <1>f, <1>g, <2>1
  <2>3. ASSUME NEW t \in Slots, NEW j \in DOMAIN mqWaitSend'[t],
               mqWaitSend'[t][j].to = Self(d)
        PROVE  t = c /\ j >= p1
    <3>1. CASE t # s BY <1>2, <1>4, <1>g, <2>3, <3>1
    <3>2. CASE t = s
      <4>1. j \in 1 .. Len(r) /\ r[j].to = Self(d) BY <1>f, <1>g, <2>3, <3>2
      <4>2. CASE j < i
        <5>1. j \in DOMAIN q /\ q[j].to = Self(d) BY <1>f, <4>1, <4>2
        <5>2. j >= p BY <1>2, <1>c, <5>1
        <5> QED BY <1>b, <1>f, <2>1, <4>1, <4>2, <5>2
      <4>3. CASE ~(j < i)
        <5>1. j + 1 \in DOMAIN q /\ q[j + 1].to = Self(d) BY <1>f, <4>1, <4>3
        <5>2. j + 1 >= p BY <1>2, <1>c, <5>1
        <5> QED BY <1>4, <2>1, <3>2, <4>1, <5>2
      <4> QED BY <4>2, <4>3
    <3> QED BY <3>1, <3>2
  <2>4. ParkedAt(d, c, p1)' BY <1>2, <1>4, <2>1, <2>2, <2>3 DEF ParkedAt
  <2> QED BY <1>1, <2>2, <2>4
<1> QED BY <1>3, <1>4

LEMMA CallsRetrySent ==
    ASSUME CallsInv, NEW s \in Slots, RetrySent(s)
    PROVE  CallsInv'
<1>i. PICK i : i = cursor[s] OBVIOUS
<1>m. PICK m : m = mqWaitSend[s][i] OBVIOUS
<1>q. PICK q : q = mqIn OBVIOUS
<1>w. PICK w : w = [mqWaitSend EXCEPT ![s] = RemoveAt(@, i)] OBVIOUS
<1>a. /\ fault = "none" /\ i \in DOMAIN mqWaitSend[s] /\ ~Gone(m)
      /\ mqIn' = [q EXCEPT ![m.to.idx] = Append(@, m)] /\ mqWaitSend' = w
      /\ fault' = IF Alive(m.to.idx) THEN "none" ELSE "dead"
      /\ UNCHANGED <<serviceVars, cursor, luaVars, boundVars>>
  BY <1>i, <1>m, <1>q, <1>w DEF RetrySent, AtParked
<1>b. /\ state' = state /\ svcCnt' = svcCnt /\ svcCntLocal' = svcCntLocal
      /\ cursor' = cursor /\ heard' = heard /\ waiting' = waiting /\ callId' = callId
      /\ taken' = taken /\ leaked' = leaked
  BY <1>a DEF serviceVars, luaVars, boundVars
<1>c. Types /\ mqWaitSend[s] \in Seq(Message) /\ svcCntLocal = svcCnt
  BY DEF CallsInv, Types, Counts
<1>d. /\ Drops(mqWaitSend[s], i, RemoveAt(mqWaitSend[s], i))
      /\ m \in ToSet(mqWaitSend[s]) /\ m \in Message
  <2>1. Drops(mqWaitSend[s], i, RemoveAt(mqWaitSend[s], i)) BY <1>a, <1>c, RemoveAtDrops
  <2>2. m \in ToSet(mqWaitSend[s]) BY <1>a, <1>m DEF ToSet
  <2>3. m \in Message BY <1>a, <1>c, <1>m
  <2> QED BY <2>1, <2>2, <2>3
<1>e. \A d \in Slots : (Alive(d)' <=> Alive(d)) /\ Self(d)' = Self(d)
  BY <1>b DEF Alive, Self
<1>f. /\ <<"wait", s>> \in Homes /\ Held(<<"wait", s>>) = ToSet(mqWaitSend[s])
      /\ Sound(m) /\ m.to \in Adr /\ m.from \in Adr /\ m.to.idx \in Slots
      /\ m.to.cnt = svcCnt[m.to.idx]
  <2>1. <<"wait", s>> \in Homes /\ Held(<<"wait", s>>) = ToSet(mqWaitSend[s])
    BY HomesAre, HeldAre
  <2>2. m.to \in Adr /\ m.from \in Adr /\ m.to.idx \in Slots BY <1>d DEF Message, Adr
  <2>3. m.to.cnt = svcCnt[m.to.idx] BY <1>a DEF Gone
  <2>4. Sound(m) BY <1>d, <2>1 DEF CallsInv, Roads
  <2> QED BY <2>1, <2>2, <2>3, <2>4
<1>g. /\ w \in [Slots -> Seq(Message)]
      /\ \A d \in Slots : w[d] = IF d = s THEN RemoveAt(mqWaitSend[s], i) ELSE mqWaitSend[d]
  BY <1>c, <1>d, <1>w DEF Types, Drops
<1>h. Left(q, w)
  <2>1. \A d \in Slots : Once(mqIn[d]) /\ Once(mqWaitSend[d]) BY DEF CallsInv, OnceEach
  <2>2. \A d \in Slots : ToSet(w[d]) \subseteq ToSet(mqWaitSend[d]) /\ Once(w[d])
    BY <1>d, <1>g, <2>1 DEF Drops
  <2> QED BY <1>b, <1>c, <1>g, <1>q, <2>1, <2>2 DEF Left, Types
<1>1. Puts(q, w, s, m) BY <1>a DEF Puts
<1>2. Sound(m)'
  BY <1>b, <1>e, <1>f DEF Sound, Reached, Had, Adr
<1>3. \A d \in Slots : NoneOf(m, ToSet(q[d])) /\ NoneOf(m, ToSet(w[d]))
                       /\ NoneOf(m, taken'[d])
  <2>1. ASSUME NEW h \in Homes, h # <<"wait", s>> PROVE NoneOf(m, Held(h))
    <3> SUFFICES ASSUME NEW a \in Adr, NEW k \in Nat, OfCall(m, a, k),
                        NEW n \in Held(h), OfCall(n, a, k)
                 PROVE  FALSE
      BY DEF NoneOf
    <3>1. At(h, a, k) BY DEF At
    <3>2. At(<<"wait", s>>, a, k) BY <1>d, <1>f DEF At
    <3> QED BY <1>f, <2>1, <3>1, <3>2 DEF CallsInv, OneHome
  <2>2. NoneOf(m, ToSet(RemoveAt(mqWaitSend[s], i)))
    <3>1. Once(mqWaitSend[s]) BY DEF CallsInv, OnceEach
    <3> QED BY <1>d, <1>m, <3>1 DEF NoneOf, Drops
  <2>3. ASSUME NEW d \in Slots
        PROVE  NoneOf(m, ToSet(q[d])) /\ NoneOf(m, ToSet(w[d])) /\ NoneOf(m, taken'[d])
    <3>1. <<"in", d>> # <<"wait", s>> /\ <<"taken", d>> # <<"wait", s>> OBVIOUS
    <3>2. NoneOf(m, ToSet(q[d])) /\ NoneOf(m, taken'[d])
      BY <1>b, <1>q, <2>1, <3>1, HomesAre, HeldAre
    <3>3. CASE d = s BY <1>g, <2>2, <3>2, <3>3
    <3>4. CASE d # s
      <4>1. <<"wait", d>> # <<"wait", s>> BY <3>4
      <4>2. NoneOf(m, ToSet(mqWaitSend[d])) BY <2>1, <4>1, HomesAre, HeldAre
      <4> QED BY <1>g, <3>2, <3>4, <4>2
    <3> QED BY <3>3, <3>4
  <2> QED BY <2>3
<1>4. \A d \in Slots, k \in Nat : Alive(d) /\ OfCall(m, Self(d), k) => k \in waiting'[d]
  BY <1>b, <1>d, <1>f DEF CallsInv, Awaited, At
<1>5. /\ UNCHANGED <<serviceVars, heard>> /\ leaked \subseteq leaked'
      /\ fault' \in {"none", "dead"} /\ \A d \in Slots : waiting[d] \subseteq waiting'[d]
      /\ mqIn' # q => m.to.cnt = svcCnt[m.to.idx] /\ (Alive(m.to.idx) \/ fault' = "dead")
  BY <1>a, <1>b, <1>f
<1>6. /\ mqIn' \in [Slots -> Seq(Message)] /\ mqWaitSend' \in [Slots -> Seq(Message)]
      /\ Counts' /\ Roads' /\ Ears' /\ Taken' /\ OneHome' /\ OnceEach' /\ Awaited'
      /\ Mail' /\ Faults'
  BY <1>a, <1>d, <1>h, <1>1, <1>2, <1>3, <1>4, <1>5, PutKeeps
<1>7. Types' BY <1>b, <1>c, <1>6 DEF Types
<1>8. Waiters' BY <1>b DEF CallsInv, Waiters
<1>9. Starts'
  <2> SUFFICES ASSUME NEW d \in Slots, state'[d] = "new", Self(d)' \notin leaked'
               PROVE  StartAhead(d)' \/ StartParked(d)'
    BY DEF Starts
  <2>1. state[d] = "new" /\ Self(d) \notin leaked /\ Self(d)' = Self(d) BY <1>b, <1>e
  <2>2. mqIn[d] \in Seq(Message) /\ mqIn'[d] = IF d = m.to.idx THEN Append(mqIn[d], m) ELSE mqIn[d]
    BY <1>a, <1>c, <1>q DEF Types
  <2>3. \A r \in Seq(Message) : /\ Append(r, m) # << >>
                                /\ r # << >> => Head(Append(r, m)) = Head(r)
                                /\ r = << >> => Head(Append(r, m)) = m
    <3>1. m \in Message BY <1>d
    <3>2. \A r \in Seq(Message) :
            Append(r, m) # << >> /\ (r # << >> => Head(Append(r, m)) = Head(r))
      BY <3>1
    <3>3. Head(Append(<< >>, m)) = m BY <3>1
    <3> QED BY <3>2, <3>3
  <2>4. CASE StartAhead(d)
    <3>1. mqIn'[d] # << >> /\ Head(mqIn'[d]).kind = "start" BY <2>2, <2>3, <2>4 DEF StartAhead
    <3> QED BY <3>1 DEF StartAhead
  <2>5. CASE StartParked(d)
    <3>0. mqIn[d] = << >> BY <2>5 DEF StartParked
    <3>1. PICK c \in Slots : \E p \in DOMAIN mqWaitSend[c] : ParkedAt(d, c, p)
      BY <2>5 DEF StartParked
    <3>2. PICK p \in DOMAIN mqWaitSend[c] : ParkedAt(d, c, p) BY <3>1
    <3>3. CASE c = s /\ p = i
      <4>1. m.kind = "start" /\ m.to = Self(d) BY <1>m, <3>2, <3>3 DEF ParkedAt
      <4>2. mqIn'[d] # << >> /\ Head(mqIn'[d]) = m BY <2>2, <2>3, <3>0, <4>1 DEF Self
      <4> QED BY <4>1, <4>2 DEF StartAhead
    <3>4. CASE ~(c = s /\ p = i)
      <4>1. /\ m.to # Self(d)
            /\ \E p1 \in DOMAIN mqWaitSend'[c] : ParkedAt(d, c, p1)'
        BY <1>a, <1>b, <1>i, <1>m, <1>w, <2>1, <3>2, <3>4, StartUnparked
      <4>2. m.to.idx # d
        <5>1. m.to = [idx |-> m.to.idx, cnt |-> m.to.cnt] BY <1>f DEF Adr
        <5> QED BY <1>c, <1>f, <4>1, <5>1 DEF Self
      <4>3. mqIn'[d] = << >> BY <2>2, <3>0, <4>2
      <4> QED BY <4>1, <4>3 DEF StartParked
    <3> QED BY <3>3, <3>4
  <2> QED BY <2>1, <2>4, <2>5 DEF CallsInv, Starts
<1> QED BY <1>6, <1>7, <1>8, <1>9 DEF CallsInv

LEMMA CallsRetryDestroyed ==
    ASSUME CallsInv, NEW s \in Slots, RetryDestroyed(s)
    PROVE  CallsInv'
<1>i. PICK i : i = cursor[s] OBVIOUS
<1>q. PICK q : q = mqIn OBVIOUS
<1>w. PICK w : w = [mqWaitSend EXCEPT ![s] = RemoveAt(@, i)] OBVIOUS
<1>a. /\ fault = "none" /\ i \in DOMAIN mqWaitSend[s] /\ mqWaitSend[s][i].kind = "req"
      /\ mqIn' = q /\ mqWaitSend' = w
      /\ UNCHANGED <<serviceVars, cursor, luaVars, boundVars, fault>>
  BY <1>i, <1>q, <1>w DEF RetryDestroyed, AtParked, Abandoned
<1>b. /\ state' = state /\ svcCnt' = svcCnt /\ svcCntLocal' = svcCntLocal
      /\ cursor' = cursor /\ heard' = heard /\ waiting' = waiting /\ callId' = callId
      /\ taken' = taken /\ leaked' = leaked /\ fault' = fault
  BY <1>a DEF serviceVars, luaVars, boundVars
<1>c. Types /\ mqWaitSend[s] \in Seq(Message) BY DEF CallsInv, Types
<1>d. Drops(mqWaitSend[s], i, RemoveAt(mqWaitSend[s], i)) BY <1>a, <1>c, RemoveAtDrops
<1>e. \A d \in Slots : (Alive(d)' <=> Alive(d)) /\ Self(d)' = Self(d)
  BY <1>b DEF Alive, Self
<1>g. /\ w \in [Slots -> Seq(Message)]
      /\ \A d \in Slots : w[d] = IF d = s THEN RemoveAt(mqWaitSend[s], i) ELSE mqWaitSend[d]
  BY <1>c, <1>d, <1>w DEF Types, Drops
<1>h. Left(q, w)
  <2>1. \A d \in Slots : Once(mqIn[d]) /\ Once(mqWaitSend[d]) BY DEF CallsInv, OnceEach
  <2>2. \A d \in Slots : ToSet(w[d]) \subseteq ToSet(mqWaitSend[d]) /\ Once(w[d])
    BY <1>d, <1>g, <2>1 DEF Drops
  <2> QED BY <1>b, <1>c, <1>g, <1>q, <2>1, <2>2 DEF Left, Types
<1>1. \A d \in Slots : state'[d] = "free" => state[d] = "free" BY <1>b
<1>2. /\ mqIn' \in [Slots -> Seq(Message)] /\ mqWaitSend' \in [Slots -> Seq(Message)]
      /\ Counts' /\ Roads' /\ Ears' /\ Taken' /\ OneHome' /\ OnceEach' /\ Awaited'
      /\ Mail' /\ Faults'
  BY <1>a, <1>b, <1>e, <1>h, <1>1, LeaveKeeps
<1>3. Types' BY <1>b, <1>c, <1>2 DEF Types
<1>4. Waiters' BY <1>b DEF CallsInv, Waiters
<1>5. Starts'
  <2> SUFFICES ASSUME NEW d \in Slots, state'[d] = "new", Self(d)' \notin leaked'
               PROVE  StartAhead(d)' \/ StartParked(d)'
    BY DEF Starts
  <2>1. state[d] = "new" /\ Self(d) \notin leaked /\ Self(d)' = Self(d) /\ mqIn' = mqIn
    BY <1>a, <1>b, <1>e, <1>q
  <2>2. CASE StartAhead(d) BY <2>1, <2>2 DEF StartAhead
  <2>3. CASE StartParked(d)
    <3>0. mqIn[d] = << >> BY <2>3 DEF StartParked
    <3>1. PICK c \in Slots : \E p \in DOMAIN mqWaitSend[c] : ParkedAt(d, c, p)
      BY <2>3 DEF StartParked
    <3>2. PICK p \in DOMAIN mqWaitSend[c] : ParkedAt(d, c, p) BY <3>1
    <3>3. ~(c = s /\ p = i) BY <1>a, <3>2 DEF ParkedAt
    <3>4. \E p1 \in DOMAIN mqWaitSend'[c] : ParkedAt(d, c, p1)'
      BY <1>a, <1>b, <1>i, <1>w, <2>1, <3>2, <3>3, StartUnparked
    <3> QED BY <2>1, <3>0, <3>4 DEF StartParked
  <2> QED BY <2>1, <2>2, <2>3 DEF CallsInv, Starts
<1> QED BY <1>2, <1>3, <1>4, <1>5 DEF CallsInv

LEMMA CallsNext ==
    CallsInv /\ [Next]_vars => CallsInv'
<1> SUFFICES ASSUME CallsInv, [Next]_vars PROVE CallsInv'
  OBVIOUS
<1>1. CASE UNCHANGED vars
  <2>1. /\ state' = state /\ svcCnt' = svcCnt /\ svcCntLocal' = svcCntLocal /\ mqIn' = mqIn
        /\ mqWaitSend' = mqWaitSend /\ cursor' = cursor /\ waiting' = waiting
        /\ callId' = callId /\ taken' = taken /\ heard' = heard /\ leaked' = leaked
        /\ fault' = fault
    BY <1>1 DEF vars, serviceVars, queueVars, luaVars, boundVars
  <2>2. /\ \A d \in Slots : (Alive(d)' <=> Alive(d)) /\ Self(d)' = Self(d)
        /\ \A h \in Homes : Held(h)' = Held(h)
    BY <2>1 DEF Alive, Self, Held
  <2>3. Types' /\ Faults' /\ Taken' /\ OnceEach'
    BY <2>1 DEF CallsInv, Types, Faults, Taken, OnceEach
  <2>4. Counts' BY <2>1, <2>2, BootAssumption DEF CallsInv, Counts
  <2>5. Roads' BY <2>1, <2>2, RoadsAfter
  <2>6. Ears' BY <2>1, <2>2, EarsAfter
  <2>7. OneHome' BY <2>2 DEF CallsInv, OneHome, At
  <2>8. Awaited' BY <2>1, <2>2, AwaitedAfter
  <2>9. Waiters' BY <2>1 DEF CallsInv, Waiters
  <2>10. Starts'
    <3>1. \A c \in Slots : cursor'[c] \in Nat /\ cursor'[c] <= cursor[c]
      BY <2>1 DEF CallsInv, Types
    <3> QED BY <2>1, <2>2, <3>1, StartRests DEF Starts
  <2>11. Mail' BY <2>1, <2>2 DEF CallsInv, Mail, ToItsService, ToLateSender
  <2> QED BY <2>3, <2>4, <2>5, <2>6, <2>7, <2>8, <2>9, <2>10, <2>11 DEF CallsInv
<1>2. CASE Next
  <2>1. PICK s \in Slots :
          \/ \E n \in Slots : NewService(s, n)
          \/ \E a \in Addresses : Send(s, a) \/ Call(s, a)
          \/ \E req \in taken[s] : Answer(s, req)
          \/ Exit(s) \/ Handle(s) \/ Echo(s) \/ FreeBegin(s) \/ FreeEnd(s)
          \/ RetryBegin(s) \/ RetryFails(s) \/ RetrySent(s) \/ RetryDestroyed(s) \/ RetryEnd(s)
    BY <1>2 DEF Next, ServiceStep, RetryStep, AnswerStep
  <2>2. CASE \E n \in Slots : NewService(s, n) BY <2>2, CallsNewService
  <2>3. CASE \E a \in Addresses : Send(s, a) BY <2>3, CallsSend
  <2>4. CASE \E a \in Addresses : Call(s, a) BY <2>4, CallsCall
  <2>5. CASE \E req \in taken[s] : Answer(s, req) BY <2>5, CallsAnswer
  <2>6. CASE Exit(s) BY <2>6, CallsExit
  <2>7. CASE Handle(s) BY <2>7, CallsHandle
  <2>8. CASE Echo(s) BY <2>8, CallsEcho
  <2>9. CASE FreeBegin(s) BY <2>9, CallsFreeBegin
  <2>10. CASE FreeEnd(s) BY <2>10, CallsFreeEnd
  <2>11. CASE RetryBegin(s) BY <2>11, CallsRetryBegin
  <2>12. CASE RetryFails(s) BY <2>12, CallsRetryFails
  <2>13. CASE RetrySent(s) BY <2>13, CallsRetrySent
  <2>14. CASE RetryDestroyed(s) BY <2>14, CallsRetryDestroyed
  <2>15. CASE RetryEnd(s) BY <2>15, CallsRetryEnd
  <2> QED
    BY <2>1, <2>2, <2>3, <2>4, <2>5, <2>6, <2>7, <2>8, <2>9, <2>10, <2>11, <2>12, <2>13,
       <2>14, <2>15
<1> QED BY <1>1, <1>2

LEMMA CallsAlways ==
    Spec => []CallsInv
BY CallsInit, CallsNext, PTL DEF Spec

----------------------------------------------------------------------------
(* Mail is handled by the service it was sent to, its start first.         *)

(* svc_sendmsg and proc_svc_msg_in compare counts: a mailbox never holds   *)
(* mail for another service than the one that has the slot, but for mail   *)
(* to an address that svc_exit has leaked; and a service handles its start *)
(* message before all else, wherever svc_newservice had to park it.        *)
THEOREM MailIsOfItsService == Spec => []MailOfItsService
<1>1. CallsInv => MailOfItsService
  BY DEF CallsInv, Mail, Faults, MailOfItsService, OwnMailOnly, StartFirst
<1> QED BY <1>1, CallsAlways, PTL

----------------------------------------------------------------------------
(* A call has one request or one answer.                                   *)

LEMMA AtMostOne ==
    ASSUME NEW S, \A x \in S : \A y \in S : x = y
    PROVE  Cardinality(S) = IF S = {} THEN 0 ELSE 1
<1>1. CASE S = {} BY <1>1, FS_EmptySet
<1>2. CASE S # {}
  <2>1. PICK x \in S : S = {x} BY <1>2
  <2> QED BY <1>2, <2>1, FS_Singleton
<1> QED BY <1>1, <1>2

LEMMA PlacesAre ==
    \A q, s, k, p : p \in Places(q, s, k) <=>
        \E d \in Slots : \E i \in DOMAIN q[d] : p = <<d, i>> /\ IsOfCall(q[d][i], s, k)
BY DEF Places

(* The tokens of a call are the homes that have a message of it.           *)
LEMMA TokensAre ==
    ASSUME CallsInv, NEW s \in Slots, NEW k \in Nat
    PROVE  Tokens(s, k) = IF \E h \in Homes : At(h, Self(s), k) THEN 1 ELSE 0
<1> DEFINE I == Places(mqIn, s, k)
           W == Places(mqWaitSend, s, k)
           T == Holders(s, k)
           In(d)   == At(<<"in", d>>, Self(s), k)
           Wait(d) == At(<<"wait", d>>, Self(s), k)
           Took(d) == At(<<"taken", d>>, Self(s), k)
<1>a. Self(s) \in Adr BY SelfAdr DEF CallsInv
<1>b. \A m : IsOfCall(m, s, k) <=> OfCall(m, Self(s), k) BY DEF IsOfCall, OfCall
<1>c. \A h \in Homes : \A g \in Homes : At(h, Self(s), k) /\ At(g, Self(s), k) => h = g
  BY <1>a DEF CallsInv, OneHome
<1>d. \A d \in Slots : \A e \in Slots :
        /\ In(d) /\ In(e) => d = e
        /\ Wait(d) /\ Wait(e) => d = e
        /\ Took(d) /\ Took(e) => d = e
        /\ ~(In(d) /\ Wait(e)) /\ ~(In(d) /\ Took(e)) /\ ~(Wait(d) /\ Took(e))
  BY <1>c, HomesAre
<1>e. /\ \A p : p \in I <=> \E d \in Slots : \E i \in DOMAIN mqIn[d] :
                              p = <<d, i>> /\ OfCall(mqIn[d][i], Self(s), k)
      /\ \A p : p \in W <=> \E d \in Slots : \E i \in DOMAIN mqWaitSend[d] :
                              p = <<d, i>> /\ OfCall(mqWaitSend[d][i], Self(s), k)
  BY <1>b, PlacesAre
<1>f. \A d : d \in T <=> d \in Slots /\ Took(d)
  BY <1>b, HeldAre DEF Holders, At
<1>g. /\ \A d \in Slots : \A i \in DOMAIN mqIn[d] : OfCall(mqIn[d][i], Self(s), k) => In(d)
      /\ \A d \in Slots : In(d) => \E i \in DOMAIN mqIn[d] : OfCall(mqIn[d][i], Self(s), k)
      /\ \A d \in Slots : \A i \in DOMAIN mqWaitSend[d] :
           OfCall(mqWaitSend[d][i], Self(s), k) => Wait(d)
      /\ \A d \in Slots : Wait(d) =>
           \E i \in DOMAIN mqWaitSend[d] : OfCall(mqWaitSend[d][i], Self(s), k)
  <2>1. \A d \in Slots : /\ In(d) <=> \E m \in ToSet(mqIn[d]) : OfCall(m, Self(s), k)
                         /\ Wait(d) <=> \E m \in ToSet(mqWaitSend[d]) : OfCall(m, Self(s), k)
    BY HeldAre DEF At
  <2>2. \A q : /\ \A i \in DOMAIN q : q[i] \in ToSet(q)
               /\ \A m \in ToSet(q) : \E i \in DOMAIN q : m = q[i]
    BY DEF ToSet
  <2> HIDE DEF In, Wait
  <2> QED BY <2>1, <2>2
<1>h. \A d \in Slots : Once(mqIn[d]) /\ Once(mqWaitSend[d]) BY DEF CallsInv, OnceEach
<1> HIDE DEF I, W, T, In, Wait, Took
<1>1. \A x \in I : \A y \in I : x = y
  BY <1>a, <1>d, <1>e, <1>g, <1>h DEF Once
<1>2. \A x \in W : \A y \in W : x = y
  BY <1>a, <1>d, <1>e, <1>g, <1>h DEF Once
<1>3. \A x \in T : \A y \in T : x = y BY <1>d, <1>f
<1>4. /\ I = {} <=> \A d \in Slots : ~In(d)
      /\ W = {} <=> \A d \in Slots : ~Wait(d)
      /\ T = {} <=> \A d \in Slots : ~Took(d)
  BY <1>e, <1>f, <1>g
<1>5. /\ Cardinality(I) = IF I = {} THEN 0 ELSE 1
      /\ Cardinality(W) = IF W = {} THEN 0 ELSE 1
      /\ Cardinality(T) = IF T = {} THEN 0 ELSE 1
  BY <1>1, <1>2, <1>3, AtMostOne
<1>6. I = {} \/ W = {} BY <1>4, <1>d
<1>7. I = {} \/ T = {} BY <1>4, <1>d
<1>8. W = {} \/ T = {} BY <1>4, <1>d
<1>9. (\E h \in Homes : At(h, Self(s), k)) <=> (I # {} \/ W # {} \/ T # {})
  BY <1>4, HomesAre DEF In, Wait, Took
<1>10. Tokens(s, k) = Cardinality(I) + Cardinality(W) + Cardinality(T)
  BY DEF Tokens, I, W, T
<1> QED BY <1>5, <1>6, <1>7, <1>8, <1>9, <1>10

(* However sessions and slots are used again, messages parked, and answers *)
(* given by services on behalf of others: a call has one request or one    *)
(* answer on its way, and no answer comes to a service that does not wait  *)
(* for it.                                                                 *)
THEOREM CallHasOneAnswer == Spec => []OneAnswer
<1>1. CallsInv => OneAnswer
  <2> SUFFICES ASSUME CallsInv PROVE OneAnswer
    OBVIOUS
  <2>1. fault # "answer" BY DEF CallsInv, Faults
  <2>2. \A s \in Slots : waiting[s] \subseteq Nat BY ConstantsFit DEF CallsInv, Types
  <2>3. \A s \in Slots : \A k \in waiting[s] : Tokens(s, k) <= 1
    <3> SUFFICES ASSUME NEW s \in Slots, NEW k \in waiting[s] PROVE Tokens(s, k) <= 1
      OBVIOUS
    <3>1. k \in Nat BY <2>2
    <3>2. Tokens(s, k) = 0 \/ Tokens(s, k) = 1 BY <3>1, TokensAre
    <3> QED BY <3>2
  <2>4. ASSUME NEW s \in Slots, Alive(s), NEW d \in Slots,
               NEW m \in ToSet(mqIn[d]) \union ToSet(mqWaitSend[d]),
               IsAnswer(m), m.to = Self(s)
        PROVE  m.session \in waiting[s]
    <3>1. PICK h \in Homes : m \in Held(h) BY HomesAre, HeldAre
    <3>2. m \in Message BY <3>1, HeldTypes DEF CallsInv
    <3>3. m.session \in Nat BY <3>2 DEF Message
    <3>4. At(h, Self(s), m.session) BY <2>4, <3>1 DEF At, OfCall
    <3> QED BY <2>4, <3>3, <3>4 DEF CallsInv, Awaited
  <2> QED BY <2>1, <2>3, <2>4 DEF OneAnswer
<1> QED BY <1>1, CallsAlways, PTL


----------------------------------------------------------------------------
(* A call is lost in one way only                                          *)

(* A service parks its own requests; what a service has taken is dropped   *)
(* before its slot is free.                                                *)
Parked   == \A s \in Slots : \A m \in ToSet(mqWaitSend[s]) : m.kind = "req" => m.from.idx = s
Finished == \A s \in Slots : state[s] \in {"freeing", "free"} => taken[s] = {}
LostInv  == Parked /\ Finished

LEMMA ParkedAfter ==
    ASSUME Types, Parked, NEW s \in Slots, NEW m \in Message, m.kind = "req" => m.from.idx = s,
           mqWaitSend' = mqWaitSend \/ mqWaitSend' = [mqWaitSend EXCEPT ![s] = Append(@, m)]
    PROVE  Parked'
<1>1. \A d \in Slots : mqWaitSend[d] \in Seq(Message) BY DEF Types
<1>2. \A d \in Slots : ToSet(mqWaitSend'[d]) \subseteq ToSet(mqWaitSend[d])
                         \/ (d = s /\ ToSet(mqWaitSend'[d]) \subseteq ToSet(mqWaitSend[d]) \union {m})
  <2>1. ToSet(Append(mqWaitSend[s], m)) = ToSet(mqWaitSend[s]) \union {m} BY <1>1, AppendMsg
  <2>2. CASE mqWaitSend' = mqWaitSend BY <2>2
  <2>3. CASE mqWaitSend' = [mqWaitSend EXCEPT ![s] = Append(@, m)]
    BY <2>1, <2>3 DEF Types
  <2> QED BY <2>2, <2>3
<1> QED BY <1>2 DEF Parked

LEMMA LostInit ==
    Init => LostInv
<1>1. ToSet(<< >>) = {} BY DEF ToSet
<1> QED BY <1>1 DEF Init, LostInv, Parked, Finished

LEMMA LostNext ==
    CallsInv /\ LostInv /\ [Next]_vars => LostInv'
<1> SUFFICES ASSUME CallsInv, LostInv, [Next]_vars PROVE LostInv'
  OBVIOUS
<1>a. Types /\ Parked /\ Finished BY DEF CallsInv, LostInv
<1>b. \A s \in Slots : /\ Self(s) \in Adr /\ Self(s).idx = s
                       /\ mqWaitSend[s] \in Seq(Message) /\ mqIn[s] \in Seq(Message)
  BY <1>a, SelfAdr DEF Types, Self
<1>c. ASSUME mqWaitSend' = mqWaitSend PROVE Parked' BY <1>a, <1>c DEF Parked
<1>1. CASE UNCHANGED vars
  BY <1>1, <1>a, <1>c DEF Finished, LostInv, vars, serviceVars, queueVars, luaVars
<1>2. CASE Next
  <2>1. PICK s \in Slots :
          \/ \E n \in Slots : NewService(s, n)
          \/ \E a \in Addresses : Send(s, a) \/ Call(s, a)
          \/ \E req \in taken[s] : Answer(s, req)
          \/ Exit(s) \/ Handle(s) \/ Echo(s) \/ FreeBegin(s) \/ FreeEnd(s)
          \/ RetryBegin(s) \/ RetryFails(s) \/ RetrySent(s) \/ RetryDestroyed(s) \/ RetryEnd(s)
    BY <1>2 DEF Next, ServiceStep, RetryStep, AnswerStep
  <2>2. ASSUME NEW n \in Slots, NewService(s, n) PROVE LostInv'
    <3>1. PICK m : m = Msg("start", Nobody, [idx |-> n, cnt |-> svcCnt[n]], 0) OBVIOUS
    <3>2. /\ state[n] = "free" /\ state' = [state EXCEPT ![n] = "new"]
          /\ taken' = [taken EXCEPT ![n] = {}]
          /\ mqWaitSend' = mqWaitSend \/ mqWaitSend' = [mqWaitSend EXCEPT ![s] = Append(@, m)]
      BY <2>2, <3>1 DEF NewService
    <3>3. m \in Message /\ m.kind = "start"
      BY <1>a, <3>1, ConstantsFit DEF Types, Msg, Message, Kinds, Adr
    <3>4. Parked' BY <1>a, <3>2, <3>3, ParkedAfter
    <3>5. Finished' BY <1>a, <3>2 DEF Finished, Types
    <3> QED BY <3>4, <3>5 DEF LostInv
  <2>3. ASSUME NEW a \in Addresses, Send(s, a) PROVE LostInv'
    <3>1. PICK m : m = Msg("send", Self(s), a, 0) OBVIOUS
    <3>2. /\ state' = state /\ taken' = taken
          /\ mqWaitSend' = mqWaitSend \/ mqWaitSend' = [mqWaitSend EXCEPT ![s] = Append(@, m)]
      BY <2>3, <3>1 DEF Send, SendFrom, serviceVars, luaVars
    <3>3. m \in Message /\ m.from.idx = s
      BY <1>b, <3>1, ConstantsFit DEF Msg, Message, Kinds
    <3> QED BY <1>a, <3>2, <3>3, ParkedAfter DEF LostInv, Finished
  <2>4. ASSUME NEW a \in Addresses, Call(s, a) PROVE LostInv'
    <3>1. PICK m : m = Msg("req", Self(s), a, callId[s]) OBVIOUS
    <3>2. /\ state' = state /\ taken' = taken
          /\ mqWaitSend' = mqWaitSend \/ mqWaitSend' = [mqWaitSend EXCEPT ![s] = Append(@, m)]
      BY <2>4, <3>1 DEF Call, SendFrom, serviceVars
    <3>3. callId[s] \in Nat BY <1>a, ConstantsFit DEF Types
    <3>4. m \in Message /\ m.from.idx = s
      BY <1>b, <3>1, <3>3, ConstantsFit DEF Msg, Message, Kinds
    <3> QED BY <1>a, <3>2, <3>4, ParkedAfter DEF LostInv, Finished
  <2>5. ASSUME NEW req \in taken[s], Answer(s, req) PROVE LostInv'
    <3>1. PICK m : m = Msg("rsp", Nobody, req.from, req.session) OBVIOUS
    <3>2. /\ state' = state /\ taken' = [taken EXCEPT ![s] = @ \ {req}]
          /\ mqWaitSend' = mqWaitSend \/ mqWaitSend' = [mqWaitSend EXCEPT ![s] = Append(@, m)]
      BY <2>5, <3>1 DEF Answer, SendFrom, serviceVars, queueVars
    <3>3. req \in Message BY <1>a DEF Types
    <3>4. m \in Message /\ m.kind = "rsp"
      BY <3>1, <3>3, ConstantsFit DEF Msg, Message, Kinds
    <3>5. Parked' BY <1>a, <3>2, <3>4, ParkedAfter
    <3>6. Finished' BY <1>a, <3>2 DEF Finished, Types
    <3> QED BY <3>5, <3>6 DEF LostInv
  <2>6. CASE Exit(s)
    <3>1. /\ mqWaitSend' = mqWaitSend /\ taken' = taken
          /\ state' = [state EXCEPT ![s] = "exiting"]
      BY <2>6 DEF Exit, queueVars
    <3>2. Finished' BY <1>a, <3>1 DEF Finished, Types
    <3> QED BY <1>c, <3>1, <3>2 DEF LostInv
  <2>7. CASE Handle(s)
    <3>1. PICK m : m = Head(mqIn[s]) OBVIOUS
    <3>2. /\ mqWaitSend' = mqWaitSend /\ Alive(s)
          /\ state' = [state EXCEPT ![s] = IF m.kind = "start" THEN "running" ELSE @]
          /\ taken' = [taken EXCEPT ![s] = IF m.kind = "req" THEN @ \union {m} ELSE @]
      BY <2>7, <3>1 DEF Handle
    <3>3. \A d \in Slots : d # s => state'[d] = state[d] /\ taken'[d] = taken[d]
      BY <1>a, <3>2 DEF Types
    <3>4. state'[s] \in {"new", "running"} BY <1>a, <3>2 DEF Types, Alive
    <3>5. Finished' BY <1>a, <3>3, <3>4 DEF Finished
    <3> QED BY <1>c, <3>2, <3>5 DEF LostInv
  <2>8. CASE Echo(s)
    <3>1. PICK m : m = Head(mqIn[s]) OBVIOUS
    <3>2. PICK echo : echo = Msg("gone", Nobody, m.from, m.session) OBVIOUS
    <3>3. /\ state' = state /\ taken' = taken /\ mqIn[s] # << >>
          /\ mqWaitSend' = mqWaitSend \/ mqWaitSend' = [mqWaitSend EXCEPT ![s] = Append(@, echo)]
      BY <2>8, <3>1, <3>2 DEF Echo, serviceVars, luaVars
    <3>4. m \in Message BY <1>b, <3>1, <3>3, TailDrops
    <3>5. echo \in Message /\ echo.kind = "gone"
      BY <3>2, <3>4, ConstantsFit DEF Msg, Message, Kinds
    <3>6. Parked' BY <1>a, <3>3, <3>5, ParkedAfter
    <3> QED BY <1>a, <3>3, <3>6 DEF LostInv, Finished
  <2>9. CASE FreeBegin(s)
    <3>1. /\ mqWaitSend' = mqWaitSend /\ taken' = [taken EXCEPT ![s] = {}]
          /\ state' = [state EXCEPT ![s] = "freeing"]
      BY <2>9 DEF FreeBegin, queueVars
    <3>2. Finished' BY <1>a, <3>1 DEF Finished, Types
    <3> QED BY <1>c, <3>1, <3>2 DEF LostInv
  <2>10. CASE FreeEnd(s)
    <3>1. /\ mqWaitSend' = mqWaitSend /\ taken' = taken /\ state[s] = "freeing"
          /\ state' = [state EXCEPT ![s] = "free"]
      BY <2>10 DEF FreeEnd, queueVars, luaVars
    <3>2. Finished' BY <1>a, <3>1 DEF Finished, Types
    <3> QED BY <1>c, <3>1, <3>2 DEF LostInv
  <2>11. CASE RetryBegin(s)
    <3>1. /\ mqWaitSend' = mqWaitSend
          /\ taken' = [taken EXCEPT ![s] = IF Alive(s) THEN @ ELSE {}]
          /\ state' = [state EXCEPT ![s] = IF @ = "exiting" THEN "exited" ELSE @]
      BY <2>11 DEF RetryBegin, queueVars
    <3>2. \A d \in Slots :
            /\ state'[d] \in {"freeing", "free"} => state[d] \in {"freeing", "free"}
            /\ taken'[d] \subseteq taken[d]
      BY <1>a, <3>1 DEF Types
    <3>3. Finished' BY <1>a, <3>2 DEF Finished
    <3> QED BY <1>c, <3>1, <3>3 DEF LostInv
  <2>12. CASE RetryFails(s) \/ RetryEnd(s)
    BY <1>a, <1>c, <2>12 DEF RetryFails, RetryEnd, LostInv, Finished, serviceVars, queueVars, luaVars
  <2>13. CASE RetrySent(s) \/ RetryDestroyed(s)
    <3>1. PICK i : i = cursor[s] OBVIOUS
    <3>2. /\ i \in DOMAIN mqWaitSend[s] /\ state' = state /\ taken' = taken
          /\ mqWaitSend' = [mqWaitSend EXCEPT ![s] = RemoveAt(@, i)]
      BY <2>13, <3>1 DEF RetrySent, RetryDestroyed, AtParked, serviceVars, luaVars
    <3>3. ToSet(RemoveAt(mqWaitSend[s], i)) \subseteq ToSet(mqWaitSend[s])
      BY <1>b, <3>2, RemoveAtDrops DEF Drops
    <3>4. \A d \in Slots : ToSet(mqWaitSend'[d]) \subseteq ToSet(mqWaitSend[d])
      BY <1>a, <3>2, <3>3 DEF Types
    <3>5. Parked' BY <1>a, <3>4 DEF Parked
    <3> QED BY <1>a, <3>2, <3>5 DEF LostInv, Finished
  <2> QED
    BY <2>1, <2>2, <2>3, <2>4, <2>5, <2>6, <2>7, <2>8, <2>9, <2>10, <2>11, <2>12, <2>13
<1> QED BY <1>1, <1>2


(* What a queue keeps when one message is taken out.                       *)
LEMMA WithoutKeeps ==
    ASSUME NEW q \in Seq(Message), NEW r \in Seq(Message), NEW i \in 1 .. Len(q),
           Without(q, i, r), NEW m \in ToSet(q), m # q[i]
    PROVE  m \in ToSet(r)
<1>1. /\ Len(q) \in Nat /\ Len(r) = Len(q) - 1 /\ DOMAIN r = 1 .. Len(r)
      /\ \A n \in 1 .. Len(r) : r[n] = IF n < i THEN q[n] ELSE q[n + 1]
  BY DEF Without
<1>2. PICK n \in 1 .. Len(q) : m = q[n] BY DEF ToSet
<1>3. n # i BY <1>2
<1>4. CASE n < i
  <2>1. n \in DOMAIN r /\ r[n] = m BY <1>1, <1>2, <1>4
  <2> QED BY <2>1 DEF ToSet
<1>5. CASE n > i
  <2>1. n - 1 \in DOMAIN r /\ r[n - 1] = m BY <1>1, <1>2, <1>5
  <2> QED BY <2>1 DEF ToSet
<1> QED BY <1>2, <1>3, <1>4, <1>5

LEMMA TailKeeps ==
    ASSUME NEW q \in Seq(Message), q # << >>, NEW m \in ToSet(q), m # Head(q)
    PROVE  m \in ToSet(Tail(q))
<1>1. Tail(q) \in Seq(Message) /\ 1 \in 1 .. Len(q) /\ Head(q) = q[1] OBVIOUS
<1>2. Without(q, 1, Tail(q)) BY DEF Without
<1>3. \A r \in Seq(Message), i \in 1 .. Len(q) :
        Without(q, i, r) /\ m # q[i] => m \in ToSet(r)
  BY WithoutKeeps
<1> QED BY <1>1, <1>2, <1>3

LEMMA RemoveAtKeeps ==
    ASSUME NEW q \in Seq(Message), NEW i \in DOMAIN q, NEW m \in ToSet(q), m # q[i]
    PROVE  m \in ToSet(RemoveAt(q, i))
<1>1. Without(q, i, RemoveAt(q, i)) /\ RemoveAt(q, i) \in Seq(Message) /\ i \in 1 .. Len(q)
  BY RemoveAtDrops DEF Drops
<1>2. \A r \in Seq(Message), n \in 1 .. Len(q) :
        Without(q, n, r) /\ m # q[n] => m \in ToSet(r)
  BY WithoutKeeps
<1> QED BY <1>1, <1>2

(* A message stays where it is when nothing is taken from its home.        *)
LEMMA StaysHome ==
    ASSUME NEW h \in Homes, NEW m \in Held(h),
           \A d \in Slots : /\ h = <<"in", d>> => ToSet(mqIn[d]) \subseteq ToSet(mqIn'[d])
                            /\ h = <<"wait", d>> => ToSet(mqWaitSend[d]) \subseteq ToSet(mqWaitSend'[d])
                            /\ h = <<"taken", d>> => taken[d] \subseteq taken'[d]
    PROVE  m \in Held(h)'
<1>1. PICK d \in Slots : h = <<"in", d>> \/ h = <<"wait", d>> \/ h = <<"taken", d>>
  BY HomesAre
<1>2. CASE h = <<"in", d>> BY <1>2, HeldAre, HeldAreNext
<1>3. CASE h = <<"wait", d>> BY <1>3, HeldAre, HeldAreNext
<1>4. CASE h = <<"taken", d>> BY <1>4, HeldAre, HeldAreNext
<1> QED BY <1>1, <1>2, <1>3, <1>4

LEMMA SendFromAdds ==
    ASSUME Types, NEW s \in Slots, NEW m \in Message, SendFrom(s, m)
    PROVE  /\ \A d \in Slots : /\ ToSet(mqIn[d]) \subseteq ToSet(mqIn'[d])
                               /\ ToSet(mqWaitSend[d]) \subseteq ToSet(mqWaitSend'[d])
           /\ \E g \in Homes : m \in Held(g)'
<1>1. m.to.idx \in Slots BY DEF Message, Adr
<1>2. \A d \in Slots : /\ ToSet(Append(mqIn[d], m)) = ToSet(mqIn[d]) \union {m}
                       /\ ToSet(Append(mqWaitSend[d], m)) = ToSet(mqWaitSend[d]) \union {m}
  <2>1. \A d \in Slots : mqIn[d] \in Seq(Message) /\ mqWaitSend[d] \in Seq(Message)
    BY DEF Types
  <2> QED BY <2>1, AppendMsg
<1>3. CASE mqWaitSend' = [mqWaitSend EXCEPT ![s] = Append(@, m)] /\ mqIn' = mqIn
  <2>1. \A d \in Slots : mqWaitSend'[d] = IF d = s THEN Append(mqWaitSend[s], m) ELSE mqWaitSend[d]
    BY <1>3 DEF Types
  <2>2. m \in ToSet(mqWaitSend'[s]) BY <1>2, <2>1
  <2>3. <<"wait", s>> \in Homes /\ m \in Held(<<"wait", s>>)' BY <2>2, HomesAre, HeldAreNext
  <2> QED BY <1>2, <1>3, <2>1, <2>3
<1>4. CASE mqIn' = [mqIn EXCEPT ![m.to.idx] = Append(@, m)] /\ mqWaitSend' = mqWaitSend
  <2>1. \A d \in Slots : mqIn'[d] = IF d = m.to.idx THEN Append(mqIn[d], m) ELSE mqIn[d]
    BY <1>4 DEF Types
  <2>2. m \in ToSet(mqIn'[m.to.idx]) BY <1>1, <1>2, <2>1
  <2>3. <<"in", m.to.idx>> \in Homes /\ m \in Held(<<"in", m.to.idx>>)'
    BY <1>1, <2>2, HomesAre, HeldAreNext
  <2> QED BY <1>2, <1>4, <2>1, <2>3
<1> QED BY <1>3, <1>4 DEF SendFrom

(* What becomes of the message m of a call that goes on waiting: it stays, *)
(* its answer is put somewhere, or who had it has dropped it all.          *)
Dropped(d) == taken'[d] = {} /\ state'[d] \in {"exited", "freeing"}

LEMMA CallGoesOn ==
    ASSUME CallsInv, LostInv, Next, NEW s0 \in Slots, NEW k \in waiting[s0], k \in waiting'[s0],
           NEW self, self = Self(s0),
           NEW h \in Homes, NEW m \in Held(h), OfCall(m, self, k)
    PROVE  /\ svcCntLocal'[s0] = svcCntLocal[s0]
           /\ \/ \E g \in Homes : \E x \in Held(g)' : OfCall(x, self, k)
              \/ \E d \in Slots : h = <<"taken", d>> /\ Dropped(d)
<1> DEFINE Lives == \E g \in Homes : \E x \in Held(g)' : OfCall(x, self, k)
           Lost  == \E d \in Slots : h = <<"taken", d>> /\ Dropped(d)
           Same  == svcCntLocal'[s0] = svcCntLocal[s0]
<1>a. Types /\ Parked /\ Finished /\ svcCntLocal = svcCnt BY DEF CallsInv, LostInv, Counts
<1>b. state[s0] = "running" /\ Alive(s0) BY DEF CallsInv, Waiters, Alive
<1>c. \A s \in Slots : mqWaitSend[s] \in Seq(Message) /\ mqIn[s] \in Seq(Message)
                       /\ waiting[s] \subseteq Nat /\ taken[s] \subseteq Message
  BY <1>a, ConstantsFit DEF Types
<1>d. self \in Adr /\ self.idx = s0 /\ self.cnt = svcCnt[s0] BY <1>a, SelfAdr DEF Self
<1>e. m \in Message BY HeldTypes DEF CallsInv
<1>f. m \in Held(h)' => Lives OBVIOUS
<1>g. ASSUME \A d \in Slots : /\ h = <<"in", d>> => ToSet(mqIn[d]) \subseteq ToSet(mqIn'[d])
                              /\ h = <<"wait", d>> => ToSet(mqWaitSend[d]) \subseteq ToSet(mqWaitSend'[d])
                              /\ h = <<"taken", d>> => taken[d] \subseteq taken'[d]
      PROVE  Lives
  <2>1. m \in Held(h)' BY <1>g, StaysHome
  <2> QED BY <1>f, <2>1
<1> HIDE DEF Lives, Lost, Same
<1>1. PICK s \in Slots :
        \/ \E n \in Slots : NewService(s, n)
        \/ \E a \in Addresses : Send(s, a) \/ Call(s, a)
        \/ \E req \in taken[s] : Answer(s, req)
        \/ Exit(s) \/ Handle(s) \/ Echo(s) \/ FreeBegin(s) \/ FreeEnd(s)
        \/ RetryBegin(s) \/ RetryFails(s) \/ RetrySent(s) \/ RetryDestroyed(s) \/ RetryEnd(s)
  BY DEF Next, ServiceStep, RetryStep, AnswerStep
<1>2. ASSUME NEW n \in Slots, NewService(s, n) PROVE Same /\ Lives
  <2>1. PICK x : x = Msg("start", Nobody, [idx |-> n, cnt |-> svcCnt[n]], 0) OBVIOUS
  <2>2. /\ state[n] = "free" /\ taken' = [taken EXCEPT ![n] = {}]
        /\ svcCntLocal' = [svcCntLocal EXCEPT ![n] = svcCnt[n]]
        /\ IF mqWaitSend[s] # << >>
           THEN mqWaitSend' = [mqWaitSend EXCEPT ![s] = Append(@, x)] /\ mqIn' = mqIn
           ELSE mqIn' = [mqIn EXCEPT ![n] = Append(@, x)] /\ mqWaitSend' = mqWaitSend
    BY <1>2, <2>1 DEF NewService
  <2>3. x \in Message
    BY <1>a, <2>1, ConstantsFit DEF Types, Msg, Message, Kinds, Adr
  <2>4. \A d \in Slots : /\ ToSet(Append(mqIn[d], x)) = ToSet(mqIn[d]) \union {x}
                         /\ ToSet(Append(mqWaitSend[d], x)) = ToSet(mqWaitSend[d]) \union {x}
    BY <1>c, <2>3, AppendMsg
  <2>5. \A d \in Slots : /\ mqIn'[d] = mqIn[d] \/ mqIn'[d] = Append(mqIn[d], x)
                         /\ mqWaitSend'[d] = mqWaitSend[d] \/ mqWaitSend'[d] = Append(mqWaitSend[d], x)
                         /\ taken'[d] = IF d = n THEN {} ELSE taken[d]
    BY <1>a, <2>2 DEF Types
  <2>6. taken[n] = {} BY <1>a, <2>2 DEF Finished
  <2>7. \A d \in Slots : /\ ToSet(mqIn[d]) \subseteq ToSet(mqIn'[d])
                         /\ ToSet(mqWaitSend[d]) \subseteq ToSet(mqWaitSend'[d])
                         /\ taken[d] \subseteq taken'[d]
    BY <2>4, <2>5, <2>6
  <2>8. Same BY <1>a, <2>2 DEF Types, Same
  <2> QED BY <1>g, <2>7, <2>8
<1>3. ASSUME NEW a \in Addresses, Send(s, a) \/ Call(s, a) PROVE Same /\ Lives
  <2>1. PICK x : /\ x = Msg("send", Self(s), a, 0) \/ x = Msg("req", Self(s), a, callId[s])
                 /\ SendFrom(s, x) /\ taken' = taken /\ svcCntLocal' = svcCntLocal
    BY <1>3 DEF Send, Call, serviceVars, luaVars
  <2>2. callId[s] \in Nat /\ Self(s) \in Adr BY <1>a, ConstantsFit, SelfAdr DEF Types
  <2>3. x \in Message
    BY <2>1, <2>2, ConstantsFit DEF Msg, Message, Kinds
  <2>4. \A d \in Slots : /\ ToSet(mqIn[d]) \subseteq ToSet(mqIn'[d])
                         /\ ToSet(mqWaitSend[d]) \subseteq ToSet(mqWaitSend'[d])
    BY <1>a, <2>1, <2>3, SendFromAdds
  <2> QED BY <1>g, <2>1, <2>4 DEF Same
<1>4. ASSUME NEW req \in taken[s], Answer(s, req) PROVE Same /\ Lives
  <2>1. PICK x : x = Msg("rsp", Nobody, req.from, req.session) OBVIOUS
  <2>2. /\ taken' = [taken EXCEPT ![s] = @ \ {req}] /\ svcCntLocal' = svcCntLocal
        /\ IF Gone(x) THEN mqIn' = mqIn /\ mqWaitSend' = mqWaitSend ELSE SendFrom(s, x)
    BY <1>4, <2>1 DEF Answer, serviceVars, queueVars
  <2>3. req \in Message /\ req.kind = "req" BY <1>c DEF CallsInv, Taken
  <2>4. x \in Message /\ IsAnswer(x) /\ x.to = req.from /\ x.session = req.session
    BY <2>1, <2>3, ConstantsFit DEF Msg, Message, Kinds, IsAnswer
  <2>5. \A d \in Slots : /\ ToSet(mqIn[d]) \subseteq ToSet(mqIn'[d])
                         /\ ToSet(mqWaitSend[d]) \subseteq ToSet(mqWaitSend'[d])
    BY <1>a, <2>2, <2>4, SendFromAdds
  <2>6. \A d \in Slots : taken'[d] = IF d = s THEN taken[s] \ {req} ELSE taken[d]
    BY <1>a, <2>2 DEF Types
  <2>7. Lives
    <3>1. CASE m = req
      <4>1. OfCall(x, self, k) /\ req.from = self BY <2>3, <2>4, <3>1 DEF OfCall, IsAnswer
      <4>2. ~Gone(x) BY <1>d, <2>4, <4>1 DEF Gone
      <4>3. \E g \in Homes : x \in Held(g)' BY <1>a, <2>2, <2>4, <4>2, SendFromAdds
      <4> QED BY <4>1, <4>3 DEF Lives
    <3>2. CASE m # req /\ h = <<"taken", s>>
      <4>1. m \in taken'[s] BY <2>6, <3>2, HeldAre
      <4>2. m \in Held(h)' BY <3>2, <4>1, HeldAreNext
      <4> QED BY <1>f, <4>2
    <3>3. CASE h # <<"taken", s>> BY <1>g, <2>5, <2>6, <3>3
    <3> QED BY <3>1, <3>2, <3>3
  <2> QED BY <2>2, <2>7 DEF Same
<1>5. ASSUME Exit(s) PROVE Same /\ Lives
  <2>1. /\ mqIn' = mqIn /\ mqWaitSend' = mqWaitSend /\ taken' = taken
        /\ waiting' = [waiting EXCEPT ![s] = {}]
        /\ svcCntLocal' = [svcCntLocal EXCEPT ![s] = svcCnt[s] + 1]
    BY <1>5 DEF Exit, queueVars
  <2>2. s # s0 BY <1>a, <2>1 DEF Types
  <2>3. Same BY <1>a, <2>1, <2>2 DEF Types, Same
  <2> QED BY <1>g, <2>1, <2>3
<1>6. ASSUME Handle(s) PROVE Same /\ Lives
  <2>1. PICK x : x = Head(mqIn[s]) OBVIOUS
  <2>2. /\ mqIn[s] # << >> /\ mqIn' = [mqIn EXCEPT ![s] = Tail(@)]
        /\ mqWaitSend' = mqWaitSend /\ svcCntLocal' = svcCntLocal
        /\ taken' = [taken EXCEPT ![s] = IF x.kind = "req" THEN @ \union {x} ELSE @]
        /\ waiting' = [waiting EXCEPT ![s] = IF IsAnswer(x) THEN @ \ {x.session} ELSE @]
        /\ fault = "none"
    BY <1>6, <2>1 DEF Handle
  <2>3. \A d \in Slots :
          /\ mqIn'[d] = IF d = s THEN Tail(mqIn[s]) ELSE mqIn[d]
          /\ taken'[d] = IF d = s /\ x.kind = "req" THEN taken[d] \union {x} ELSE taken[d]
          /\ waiting'[d] = IF d = s /\ IsAnswer(x) THEN waiting[d] \ {x.session} ELSE waiting[d]
    BY <1>a, <2>2 DEF Types
  <2>4. Lives
    <3>1. CASE h = <<"in", s>> /\ m = x
      <4>1. m.to.idx = s BY <2>2, <3>1, HeldAre, OwnMail
      <4>2. m.kind = "req"
        <5>1. ASSUME IsAnswer(m), m.to = self, m.session = k PROVE FALSE
          <6>1. s = s0 BY <1>d, <4>1, <5>1
          <6> QED BY <2>3, <3>1, <5>1, <6>1
        <5> QED BY <5>1 DEF OfCall
      <4>3. m \in taken'[s] BY <2>3, <3>1, <4>2
      <4>4. <<"taken", s>> \in Homes /\ m \in Held(<<"taken", s>>)'
        BY <4>3, HomesAre, HeldAreNext
      <4> QED BY <4>4 DEF Lives
    <3>2. CASE h = <<"in", s>> /\ m # x
      <4>1. m \in ToSet(mqIn[s]) BY <3>2, HeldAre
      <4>2. m \in ToSet(mqIn'[s]) BY <1>c, <2>1, <2>2, <2>3, <3>2, <4>1, TailKeeps
      <4>3. m \in Held(h)' BY <3>2, <4>2, HeldAreNext
      <4> QED BY <1>f, <4>3
    <3>3. CASE h # <<"in", s>>
      <4>1. \A d \in Slots : taken[d] \subseteq taken'[d] BY <2>3
      <4>2. \A d \in Slots : h = <<"in", d>> => mqIn'[d] = mqIn[d] BY <2>3, <3>3
      <4> QED BY <1>g, <2>2, <4>1, <4>2
    <3> QED BY <3>1, <3>2, <3>3
  <2> QED BY <2>2, <2>4 DEF Same
<1>7. ASSUME Echo(s) PROVE Same /\ Lives
  <2>1. PICK x : x = Head(mqIn[s]) OBVIOUS
  <2>2. PICK echo : echo = Msg("gone", Nobody, x.from, x.session) OBVIOUS
  <2>q. PICK q : q = [mqIn EXCEPT ![s] = Tail(@)] OBVIOUS
  <2>3. /\ mqIn[s] # << >> /\ x.to.cnt # svcCntLocal[s] /\ fault = "none"
        /\ taken' = taken /\ svcCntLocal' = svcCntLocal
        /\ \/ /\ x.kind # "req" \/ Gone(echo)
              /\ mqIn' = q /\ mqWaitSend' = mqWaitSend
           \/ /\ mqIn' = q /\ mqWaitSend' = [mqWaitSend EXCEPT ![s] = Append(@, echo)]
           \/ /\ mqIn' = [q EXCEPT ![echo.to.idx] = Append(@, echo)] /\ mqWaitSend' = mqWaitSend
    BY <1>7, <2>1, <2>2, <2>q DEF Echo, serviceVars, luaVars
  <2>4. x \in Message /\ x \in ToSet(mqIn[s]) /\ Tail(mqIn[s]) \in Seq(Message)
    BY <1>c, <2>1, <2>3, TailDrops DEF Drops
  <2>5. echo \in Message /\ IsAnswer(echo) /\ echo.to = x.from /\ echo.session = x.session
    BY <2>2, <2>4, ConstantsFit DEF Msg, Message, Kinds, IsAnswer
  <2>6. echo.to.idx \in Slots BY <2>5 DEF Message, Adr
  <2>7. /\ q \in [Slots -> Seq(Message)]
        /\ \A d \in Slots : q[d] = IF d = s THEN Tail(mqIn[s]) ELSE mqIn[d]
    BY <1>a, <2>4, <2>q DEF Types
  <2>8. \A d \in Slots : /\ ToSet(Append(q[d], echo)) = ToSet(q[d]) \union {echo}
                         /\ ToSet(Append(mqWaitSend[d], echo)) = ToSet(mqWaitSend[d]) \union {echo}
    BY <1>c, <2>5, <2>7, AppendMsg
  <2>9. \A d \in Slots : /\ ToSet(q[d]) \subseteq ToSet(mqIn'[d])
                         /\ ToSet(mqWaitSend[d]) \subseteq ToSet(mqWaitSend'[d])
    <3>1. \A d \in Slots :
            /\ mqIn'[d] = q[d] \/ mqIn'[d] = Append(q[d], echo)
            /\ mqWaitSend'[d] = mqWaitSend[d] \/ mqWaitSend'[d] = Append(mqWaitSend[d], echo)
      BY <1>a, <2>3, <2>7 DEF Types
    <3> QED BY <2>8, <3>1
  <2>10. Lives
    <3>1. CASE h = <<"in", s>> /\ m = x
      <4>1. m.to.idx = s /\ (Alive(s) => m.to.cnt = svcCntLocal[s])
        BY <2>3, <2>4, <3>1, OwnMail
      <4>2. m.kind = "req" /\ m.from = self /\ m.session = k
        <5>1. ASSUME IsAnswer(m), m.to = self PROVE FALSE
          <6>1. s = s0 BY <1>d, <4>1, <5>1
          <6> QED BY <1>b, <2>3, <3>1, <4>1, <6>1
        <5> QED BY <5>1 DEF OfCall
      <4>3. OfCall(echo, self, k) BY <2>5, <3>1, <4>2 DEF OfCall
      <4>4. ~Gone(echo) BY <1>d, <2>5, <3>1, <4>2 DEF Gone
      <4>5. CASE mqWaitSend' = [mqWaitSend EXCEPT ![s] = Append(@, echo)]
        <5>1. mqWaitSend'[s] = Append(mqWaitSend[s], echo) BY <1>a, <4>5 DEF Types
        <5>2. echo \in ToSet(mqWaitSend'[s]) BY <2>8, <5>1
        <5>3. <<"wait", s>> \in Homes /\ echo \in Held(<<"wait", s>>)'
          BY <5>2, HomesAre, HeldAreNext
        <5> QED BY <4>3, <5>3 DEF Lives
      <4>6. CASE mqIn' = [q EXCEPT ![echo.to.idx] = Append(@, echo)]
        <5>1. mqIn'[echo.to.idx] = Append(q[echo.to.idx], echo) BY <2>6, <2>7, <4>6
        <5>2. echo \in ToSet(mqIn'[echo.to.idx]) BY <2>6, <2>8, <5>1
        <5>3. <<"in", echo.to.idx>> \in Homes /\ echo \in Held(<<"in", echo.to.idx>>)'
          BY <2>6, <5>2, HomesAre, HeldAreNext
        <5> QED BY <4>3, <5>3 DEF Lives
      <4> QED BY <2>3, <3>1, <4>2, <4>4, <4>5, <4>6
    <3>2. CASE h = <<"in", s>> /\ m # x
      <4>1. m \in ToSet(mqIn[s]) BY <3>2, HeldAre
      <4>2. m \in ToSet(q[s]) BY <1>c, <2>1, <2>3, <2>7, <3>2, <4>1, TailKeeps
      <4>3. m \in Held(h)' BY <2>9, <3>2, <4>2, HeldAreNext
      <4> QED BY <1>f, <4>3
    <3>3. CASE h # <<"in", s>>
      <4>1. \A d \in Slots : h = <<"in", d>> => q[d] = mqIn[d] BY <2>7, <3>3
      <4> QED BY <1>g, <2>3, <2>9, <4>1
    <3> QED BY <3>1, <3>2, <3>3
  <2> QED BY <2>3, <2>10 DEF Same
<1>8. ASSUME FreeBegin(s) \/ RetryBegin(s) PROVE Same /\ (Lives \/ Lost)
  <2>1. /\ mqIn' = mqIn /\ mqWaitSend' = mqWaitSend /\ svcCntLocal' = svcCntLocal
        /\ \/ taken' = taken
           \/ /\ taken' = [taken EXCEPT ![s] = {}]
              /\ state'[s] \in {"exited", "freeing"}
    <3>1. CASE FreeBegin(s) BY <1>a, <3>1 DEF FreeBegin, queueVars, Types
    <3>2. CASE RetryBegin(s) /\ Alive(s)
      <4>1. taken' = [taken EXCEPT ![s] = @] BY <3>2 DEF RetryBegin
      <4>2. taken' = taken BY <1>a, <4>1 DEF Types
      <4> QED BY <3>2, <4>2 DEF RetryBegin, queueVars
    <3>3. CASE RetryBegin(s) /\ ~Alive(s)
      <4>1. taken' = [taken EXCEPT ![s] = {}] BY <3>3 DEF RetryBegin
      <4>2. state'[s] = "exited" BY <1>a, <3>3 DEF RetryBegin, Types
      <4> QED BY <3>3, <4>1, <4>2 DEF RetryBegin, queueVars
    <3> QED BY <1>8, <3>1, <3>2, <3>3
  <2>2. CASE taken' = taken BY <1>g, <2>1, <2>2 DEF Same
  <2>3. CASE taken' = [taken EXCEPT ![s] = {}] /\ state'[s] \in {"exited", "freeing"}
    <3>1. \A d \in Slots : taken'[d] = IF d = s THEN {} ELSE taken[d] BY <1>a, <2>3 DEF Types
    <3>2. CASE h = <<"taken", s>> BY <2>1, <2>3, <3>1, <3>2 DEF Lost, Dropped, Same
    <3>3. CASE h # <<"taken", s>> BY <1>g, <2>1, <3>1, <3>3 DEF Same
    <3> QED BY <3>2, <3>3
  <2> QED BY <2>1, <2>2, <2>3
<1>9. ASSUME FreeEnd(s) \/ RetryFails(s) \/ RetryEnd(s) PROVE Same /\ Lives
  <2>1. /\ mqIn' = mqIn /\ mqWaitSend' = mqWaitSend /\ svcCntLocal' = svcCntLocal
        /\ taken' = taken
    BY <1>9 DEF FreeEnd, RetryFails, RetryEnd, queueVars, luaVars, serviceVars
  <2> QED BY <1>g, <2>1 DEF Same
<1>10. ASSUME RetrySent(s) \/ RetryDestroyed(s) PROVE Same /\ Lives
  <2>1. PICK i : i = cursor[s] OBVIOUS
  <2>2. PICK x : x = mqWaitSend[s][i] OBVIOUS
  <2>3. /\ i \in DOMAIN mqWaitSend[s] /\ svcCntLocal' = svcCntLocal /\ taken' = taken
        /\ mqWaitSend' = [mqWaitSend EXCEPT ![s] = RemoveAt(@, i)]
        /\ \/ mqIn' = [mqIn EXCEPT ![x.to.idx] = Append(@, x)]
           \/ mqIn' = mqIn /\ state[s] = "exited" /\ x.kind = "req"
    BY <1>10, <2>1, <2>2 DEF RetrySent, RetryDestroyed, AtParked, Abandoned, serviceVars, luaVars
  <2>4. x \in Message /\ x \in ToSet(mqWaitSend[s])
    <3>1. mqWaitSend[s] \in Seq(Message) /\ i \in DOMAIN mqWaitSend[s] BY <1>c, <2>3
    <3>2. PICK q : q = mqWaitSend[s] OBVIOUS
    <3>3. q[i] \in Message /\ q[i] \in ToSet(q) BY <3>1, <3>2 DEF ToSet
    <3> QED BY <2>2, <3>2, <3>3
  <2>5. x.to.idx \in Slots BY <2>4 DEF Message, Adr
  <2>6. \A d \in Slots : ToSet(Append(mqIn[d], x)) = ToSet(mqIn[d]) \union {x}
    BY <1>c, <2>4, AppendMsg
  <2>7. \A d \in Slots :
          /\ mqIn'[d] = mqIn[d] \/ mqIn'[d] = Append(mqIn[d], x)
          /\ mqWaitSend'[d] = IF d = s THEN RemoveAt(mqWaitSend[s], i) ELSE mqWaitSend[d]
    BY <1>a, <2>3 DEF Types
  <2>8. \A d \in Slots : ToSet(mqIn[d]) \subseteq ToSet(mqIn'[d]) BY <2>6, <2>7
  <2>9. Lives
    <3>1. CASE h = <<"wait", s>> /\ m = x
      <4>1. mqIn' = [mqIn EXCEPT ![x.to.idx] = Append(@, x)]
        <5>1. ASSUME state[s] = "exited", x.kind = "req" PROVE FALSE
          <6>1. x.from = self BY <3>1, <5>1 DEF OfCall, IsAnswer
          <6>2. x.from.idx = s BY <1>a, <2>4, <5>1 DEF Parked
          <6> QED BY <1>b, <1>d, <5>1, <6>1, <6>2
        <5> QED BY <2>3, <5>1
      <4>2. mqIn'[x.to.idx] = Append(mqIn[x.to.idx], x) BY <1>a, <2>5, <4>1 DEF Types
      <4>3. x \in ToSet(mqIn'[x.to.idx]) BY <2>5, <2>6, <4>2
      <4>4. <<"in", x.to.idx>> \in Homes /\ x \in Held(<<"in", x.to.idx>>)'
        BY <2>5, <4>3, HomesAre, HeldAreNext
      <4> QED BY <3>1, <4>4 DEF Lives
    <3>2. CASE h = <<"wait", s>> /\ m # x
      <4>1. m \in ToSet(mqWaitSend[s]) BY <3>2, HeldAre
      <4>2. m \in ToSet(mqWaitSend'[s]) BY <1>c, <2>2, <2>3, <2>7, <3>2, <4>1, RemoveAtKeeps
      <4>3. m \in Held(h)' BY <3>2, <4>2, HeldAreNext
      <4> QED BY <1>f, <4>3
    <3>3. CASE h # <<"wait", s>>
      <4>1. \A d \in Slots : h = <<"wait", d>> => mqWaitSend'[d] = mqWaitSend[d] BY <2>7, <3>3
      <4> QED BY <1>g, <2>3, <2>8, <4>1
    <3> QED BY <3>1, <3>2, <3>3
  <2> QED BY <2>3, <2>9 DEF Same
<1>11. Same /\ (Lives \/ Lost)
  BY <1>1, <1>2, <1>3, <1>4, <1>5, <1>6, <1>7, <1>8, <1>9, <1>10
<1> QED BY <1>11 DEF Same, Lives, Lost


TokensInHomes ==
    CallsInv => \A s \in Slots, k \in Nat :
        Tokens(s, k) = IF \E h \in Homes : At(h, Self(s), k) THEN 1 ELSE 0

LEMMA TokensAlways == []TokensInHomes
<1>1. TokensInHomes BY TokensAre DEF TokensInHomes
<1> QED BY <1>1, PTL

LEMMA CallsStep ==
    ASSUME CallsInv, CallsInv', LostInv, Next, NEW s \in Slots, NEW k \in waiting[s],
           Tokens(s, k) = 1, k \in waiting'[s]
    PROVE  \/ Tokens(s, k)' = 1
           \/ \E d \in Holders(s, k) : Dropped(d)
<1>1. k \in Nat BY ConstantsFit DEF CallsInv, Types
<1>2. PICK h \in Homes : At(h, Self(s), k) BY <1>1, TokensAre
<1>3. PICK self : self = Self(s) OBVIOUS
<1>4. PICK m \in Held(h) : OfCall(m, self, k) BY <1>2, <1>3 DEF At
<1>5. /\ svcCntLocal'[s] = svcCntLocal[s]
      /\ \/ \E g \in Homes : \E x \in Held(g)' : OfCall(x, self, k)
         \/ \E d \in Slots : h = <<"taken", d>> /\ Dropped(d)
  BY <1>3, <1>4, CallGoesOn
<1>6. Self(s)' = self BY <1>3, <1>5 DEF Self
<1>7. CASE \E g \in Homes : \E x \in Held(g)' : OfCall(x, self, k)
  <2>1. \E g \in Homes : At(g, Self(s), k)' BY <1>6, <1>7 DEF At
  <2>2. TokensInHomes' BY TokensAlways, PTL
  <2> QED BY <1>1, <2>1, <2>2 DEF TokensInHomes
<1>8. CASE \E d \in Slots : h = <<"taken", d>> /\ Dropped(d)
  <2>1. PICK d \in Slots : h = <<"taken", d>> /\ Dropped(d) BY <1>8
  <2>2. IsOfCall(m, s, k) BY <1>3, <1>4 DEF IsOfCall, OfCall
  <2>3. d \in Holders(s, k) BY <1>4, <2>1, <2>2, HeldAre DEF Holders
  <2> QED BY <2>1, <2>3
<1> QED BY <1>5, <1>7, <1>8

(* Messages are parked and sent again, refused, and answered by services   *)
(* that take over a slot: as long as a call waits, its request or answer   *)
(* is not lost, unless the service that has taken the request exits.       *)
THEOREM CallIsNotLost == Spec => CallNotLost
<1>1. CallsInv /\ CallsInv' /\ LostInv /\ [Next]_vars =>
        [\A s \in Slots : \A k \in waiting[s] :
           Tokens(s, k) = 1 /\ k \in waiting'[s] =>
             \/ Tokens(s, k)' = 1
             \/ \E d \in Holders(s, k) : taken'[d] = {} /\ state'[d] \in {"exited", "freeing"}]_vars
  BY CallsStep DEF Dropped
<1>2. Spec => []LostInv
  <2>1. CallsInv /\ CallsInv' /\ LostInv /\ [Next]_vars => LostInv' BY LostNext
  <2> QED BY <2>1, LostInit, CallsAlways, PTL DEF Spec
<1> QED BY <1>1, <1>2, CallsAlways, PTL DEF Spec, CallNotLost
=============================================================================
