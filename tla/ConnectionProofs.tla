-------------------------- MODULE ConnectionProofs --------------------------
(***************************************************************************)
(* Proofs about connections: Connect for any connects and timeouts,        *)
(* DbClient for any calls of any kinds, WebSocket for any streams of       *)
(* frames, any lengths of heads and any cuts of the stream.                *)
(*                                                                         *)
(* The argument for Connect.  A connect that has succeeded, or is still in *)
(* progress, has one holder: the job until its result is taken, then a     *)
(* request to the net thread, then a slot of the pool.  A request is in    *)
(* the queue once, and a connect is in the heap of timeouts only while it  *)
(* has a slot, so each of them is taken, answered and given back once      *)
(* (ConnInv: Before and After the result is taken, what was Told).         *)
(*                                                                         *)
(* The argument for DbClient.  While calls do not overlap and replies are  *)
(* read to their end, one call at a time is between its command and the    *)
(* end of its reply; what has come in, and what will, are pieces of that   *)
(* reply and no more than are still to be read.  So nobody waits when a    *)
(* call reads, the buffer is empty when it ends, and a queue of calls runs *)
(* the next one only then (DbInv).                                         *)
(*                                                                         *)
(* The argument for WebSocket.  The read under way is in one place, so one *)
(* thread is in the decoder, and what the net thread counted is so while   *)
(* it is there.  The decoder's state says where in the frames it is, the   *)
(* two counts how far that is from what has come in; a body is done when   *)
(* all of it is unmasked, and no byte is taken that is not there but by    *)
(* the net thread's older count (WsInv).  Where the n-th frame starts is a *)
(* recursive function; that it exists is proved by a least counterexample. *)
(***************************************************************************)
EXTENDS Connect, DbClient, WebSocket, FiniteSetTheorems, TLAPS

-----------------------------------------------------------------------------

Requests == [conn : Conns, inProgress : BOOLEAN]
Asks(q, c) == \E i \in 1..Len(q) : q[i].conn = c
Has(q, c) == \E i \in 1..Len(q) : q[i] = c
Queued(c) == Asks(queTaskReq, c)
InHeap(c) == Has(queConnTimeout, c)
OnceQueued(q) == \A i, j \in 1..Len(q) : q[i].conn = q[j].conn => i = j
OnceIn(q) == \A i, j \in 1..Len(q) : q[i] = q[j] => i = j

ConnTypes ==
    /\ now \in Nat /\ expiration \in [Conns -> Nat \union {NoTime}]
    /\ ctrl \in [Conns -> {"none", "wait", "end"}]
    /\ job \in [Conns -> {"none", "run", "freed"} \union JobDone]
    /\ retGotByCtrl \in [Conns -> BOOLEAN]
    /\ queTaskReq \in Seq(Requests) /\ queConnTimeout \in Seq(Conns)
    /\ holding \subseteq Conns
    /\ waitInfo \in [Conns -> {"none", "open", "succ", "failed"}]
    /\ fd \in [Conns -> {"none", "open", "closed"}]
    /\ answers \in [Conns -> Seq({"ok"} \union Failures)]
    /\ alive \in BOOLEAN
    /\ OnceQueued(queTaskReq) /\ OnceIn(queConnTimeout)

(* The job thread and the control thread, before the result is taken.      *)
Before(c) ==
    /\ ctrl[c] = "none" => job[c] = "none"
    /\ job[c] = "none" => ctrl[c] = "none"
    /\ job[c] = "freed" => ctrl[c] = "end"
    /\ retGotByCtrl[c] => ctrl[c] = "end" /\ job[c] \notin {"none", "run"}
    /\ ~retGotByCtrl[c] =>
          /\ ~Queued(c) /\ c \notin holding /\ waitInfo[c] = "none"
          /\ answers[c] # << >> => ctrl[c] = "end"

(* A result that was taken is in the queue, then in the pool.              *)
After(c) ==
    /\ Queued(c) => c \notin holding /\ waitInfo[c] = "none" /\ answers[c] = << >>
    /\ waitInfo[c] = "open" => c \in holding /\ answers[c] = << >>
    /\ waitInfo[c] = "failed" => c \in holding
    /\ InHeap(c) => waitInfo[c] # "none" /\ Timed(c)

JobHolds(c) == job[c] \in {"connected", "progress"} /\ ~retGotByCtrl[c]
SlotHolds(c) == c \in holding /\ waitInfo[c] # "failed"

Told(c) ==
    /\ Len(answers[c]) <= 1
    /\ answers[c] # << >> /\ Head(answers[c]) \in Failures /\ retGotByCtrl[c] => fd[c] # "open"

ConnOk(c) ==
    /\ Before(c) /\ After(c) /\ Told(c)
    /\ fd[c] = "open" <=> JobHolds(c) \/ Queued(c) \/ SlotHolds(c)

ConnInv == ConnTypes /\ fault \notin {"fd", "slot"} /\ \A c \in Conns : ConnOk(c)

-----------------------------------------------------------------------------
LEMMA RequestAppended ==
    ASSUME NEW q \in Seq(Requests), NEW r \in Requests, OnceQueued(q), ~Asks(q, r.conn)
    PROVE  /\ Append(q, r) \in Seq(Requests) /\ OnceQueued(Append(q, r))
           /\ \A c : Asks(Append(q, r), c) <=> Asks(q, c) \/ c = r.conn
<1>1. /\ Append(q, r) \in Seq(Requests) /\ Len(Append(q, r)) = Len(q) + 1
      /\ \A i \in 1..Len(q) : Append(q, r)[i] = q[i]
      /\ Append(q, r)[Len(q) + 1] = r /\ Len(q) \in Nat
  OBVIOUS
<1> DEFINE p == Append(q, r)
<1> HIDE DEF p
<1>2. /\ p \in Seq(Requests) /\ Len(p) = Len(q) + 1 /\ \A i \in 1..Len(q) : p[i] = q[i]
      /\ p[Len(q) + 1] = r
  BY <1>1 DEF p
<1>3. OnceQueued(p)
  BY <1>1, <1>2 DEF OnceQueued, Asks
<1>4. \A c : Asks(p, c) <=> Asks(q, c) \/ c = r.conn
  BY <1>1, <1>2 DEF Asks
<1> QED BY <1>2, <1>3, <1>4 DEF p

LEMMA RequestTaken ==
    ASSUME NEW q \in Seq(Requests), q # << >>, OnceQueued(q)
    PROVE  /\ Tail(q) \in Seq(Requests) /\ OnceQueued(Tail(q)) /\ Head(q) \in Requests
           /\ Asks(q, Head(q).conn)
           /\ \A c : Asks(Tail(q), c) <=> Asks(q, c) /\ c # Head(q).conn
<1>1. /\ Tail(q) \in Seq(Requests) /\ Len(Tail(q)) = Len(q) - 1 /\ Len(q) \in Nat \ {0}
      /\ \A i \in 1 .. Len(q) - 1 : Tail(q)[i] = q[i + 1]
      /\ Head(q) = q[1] /\ Head(q) \in Requests
  OBVIOUS
<1> DEFINE p == Tail(q)
           h == Head(q)
<1> HIDE DEF p, h
<1>2. /\ p \in Seq(Requests) /\ Len(p) = Len(q) - 1 /\ \A i \in 1 .. Len(q) - 1 : p[i] = q[i + 1]
      /\ h = q[1] /\ h \in Requests
  BY <1>1 DEF p, h
<1>3. OnceQueued(p)
  BY <1>1, <1>2 DEF OnceQueued
<1>4. Asks(q, h.conn)
  BY <1>1, <1>2 DEF Asks
<1>5. ASSUME NEW c PROVE Asks(p, c) <=> Asks(q, c) /\ c # h.conn
  <2>1. ASSUME Asks(p, c) PROVE Asks(q, c) /\ c # h.conn
    <3>1. PICK i \in 1 .. Len(q) - 1 : q[i + 1].conn = c
      BY <1>1, <1>2, <2>1 DEF Asks
    <3>2. i + 1 \in 1 .. Len(q) /\ i + 1 # 1 /\ 1 \in 1 .. Len(q)
      BY <1>1
    <3> QED BY <1>2, <3>1, <3>2 DEF Asks, OnceQueued
  <2>2. ASSUME Asks(q, c), c # h.conn PROVE Asks(p, c)
    <3>1. PICK i \in 1 .. Len(q) : q[i].conn = c
      BY <2>2 DEF Asks
    <3>2. i # 1
      BY <3>1, <1>2, <2>2
    <3>3. i - 1 \in 1 .. Len(q) - 1 /\ (i - 1) + 1 = i
      BY <3>2, <1>1
    <3>4. p[i - 1] = q[i]
      BY <3>3, <1>2
    <3> QED BY <3>1, <3>3, <3>4, <1>2 DEF Asks
  <2> QED BY <2>1, <2>2
<1> QED BY <1>2, <1>3, <1>4, <1>5 DEF p, h

LEMMA Popped ==
    ASSUME NEW S, NEW q \in Seq(S), q # << >>, OnceIn(q)
    PROVE  /\ Tail(q) \in Seq(S) /\ OnceIn(Tail(q)) /\ Head(q) \in S
           /\ Has(q, Head(q))
           /\ \A c : Has(Tail(q), c) <=> Has(q, c) /\ c # Head(q)
<1>1. /\ Tail(q) \in Seq(S) /\ Len(Tail(q)) = Len(q) - 1 /\ Len(q) \in Nat \ {0}
      /\ \A i \in 1 .. Len(q) - 1 : Tail(q)[i] = q[i + 1]
      /\ Head(q) = q[1] /\ Head(q) \in S
  OBVIOUS
<1> DEFINE p == Tail(q)
           h == Head(q)
<1> HIDE DEF p, h
<1>2. /\ p \in Seq(S) /\ Len(p) = Len(q) - 1 /\ \A i \in 1 .. Len(q) - 1 : p[i] = q[i + 1]
      /\ h = q[1] /\ h \in S
  BY <1>1 DEF p, h
<1>3. OnceIn(p)
  BY <1>1, <1>2 DEF OnceIn
<1>4. Has(q, h)
  BY <1>1, <1>2 DEF Has
<1>5. ASSUME NEW c PROVE Has(p, c) <=> Has(q, c) /\ c # h
  <2>1. ASSUME Has(p, c) PROVE Has(q, c) /\ c # h
    <3>1. PICK i \in 1 .. Len(q) - 1 : q[i + 1] = c
      BY <1>1, <1>2, <2>1 DEF Has
    <3>2. i + 1 \in 1 .. Len(q) /\ i + 1 # 1 /\ 1 \in 1 .. Len(q)
      BY <1>1
    <3> QED BY <1>2, <3>1, <3>2 DEF Has, OnceIn
  <2>2. ASSUME Has(q, c), c # h PROVE Has(p, c)
    <3>1. PICK i \in 1 .. Len(q) : q[i] = c
      BY <2>2 DEF Has
    <3>2. i # 1
      BY <3>1, <1>2, <2>2
    <3>3. i - 1 \in 1 .. Len(q) - 1 /\ (i - 1) + 1 = i
      BY <3>2, <1>1
    <3>4. p[i - 1] = q[i]
      BY <3>3, <1>2
    <3> QED BY <3>1, <3>3, <3>4, <1>2 DEF Has
  <2> QED BY <2>1, <2>2
<1> QED BY <1>2, <1>3, <1>4, <1>5 DEF p, h

LEMMA Joined ==
    ASSUME NEW S, NEW a \in Seq(S), NEW b \in Seq(S)
    PROVE  /\ a \o b \in Seq(S) /\ Len(a \o b) = Len(a) + Len(b)
           /\ \A i \in 1 .. Len(a) : (a \o b)[i] = a[i]
           /\ \A i \in 1 .. Len(b) : (a \o b)[Len(a) + i] = b[i]
OBVIOUS

LEMMA Pushed ==
    ASSUME NEW S, NEW q \in Seq(S), NEW e \in S
    PROVE  /\ Append(q, e) \in Seq(S) /\ Len(Append(q, e)) = Len(q) + 1
           /\ \A d : Has(Append(q, e), d) <=> Has(q, d) \/ d = e
           /\ OnceIn(q) /\ ~Has(q, e) => OnceIn(Append(q, e))
           /\ Append(q, e) # << >> /\ Append(q, e)[Len(Append(q, e))] = e
<1>1. /\ Append(q, e) \in Seq(S) /\ Len(Append(q, e)) = Len(q) + 1
      /\ \A i \in 1 .. Len(q) : Append(q, e)[i] = q[i]
      /\ Append(q, e)[Len(q) + 1] = e /\ Len(q) \in Nat
  OBVIOUS
<1> DEFINE p == Append(q, e)
<1> HIDE DEF p
<1>2. /\ p \in Seq(S) /\ Len(p) = Len(q) + 1 /\ \A i \in 1 .. Len(q) : p[i] = q[i]
      /\ p[Len(q) + 1] = e
  BY <1>1 DEF p
<1>3. OnceIn(q) /\ ~Has(q, e) => OnceIn(p)
  BY <1>1, <1>2 DEF OnceIn, Has
<1>4. \A d : Has(p, d) <=> Has(q, d) \/ d = e
  BY <1>1, <1>2 DEF Has
<1>5. p # << >>
  BY <1>1, <1>2
<1> QED BY <1>2, <1>3, <1>4, <1>5 DEF p

(* A sequence without its last element.                                    *)
LEMMA Shortened ==
    ASSUME NEW S, NEW q \in Seq(S), q # << >>, OnceIn(q)
    PROVE  /\ SubSeq(q, 1, Len(q) - 1) \in Seq(S) /\ OnceIn(SubSeq(q, 1, Len(q) - 1))
           /\ q[Len(q)] \in S /\ Has(q, q[Len(q)])
           /\ \A d : Has(SubSeq(q, 1, Len(q) - 1), d) <=> Has(q, d) /\ d # q[Len(q)]
<1> DEFINE p == SubSeq(q, 1, Len(q) - 1)
<1>0. Len(q) \in Nat \ {0} /\ q \in [1 .. Len(q) -> S] /\ Len(q) \in 1 .. Len(q)
  OBVIOUS
<1>1. /\ p \in Seq(S) /\ Len(p) = Len(q) - 1 /\ Len(q) \in Nat \ {0}
      /\ \A i \in 1 .. Len(q) - 1 : p[i] = q[i]
      /\ q[Len(q)] \in S
  <2>1. p \in Seq(S) /\ Len(p) = Len(q) - 1
    BY <1>0
  <2>2. \A i \in 1 .. Len(q) - 1 : p[i] = q[i]
    BY <1>0
  <2> QED BY <1>0, <2>1, <2>2
<1> HIDE DEF p
<1>2. OnceIn(p)
  BY <1>1 DEF OnceIn
<1>3. Has(q, q[Len(q)])
  BY <1>1 DEF Has
<1>4. ASSUME NEW d PROVE Has(p, d) <=> Has(q, d) /\ d # q[Len(q)]
  <2>1. ASSUME Has(p, d) PROVE Has(q, d) /\ d # q[Len(q)]
    <3>1. PICK i \in 1 .. Len(q) - 1 : q[i] = d
      BY <1>1, <2>1 DEF Has
    <3>2. i \in 1 .. Len(q) /\ i # Len(q) /\ Len(q) \in 1 .. Len(q)
      BY <1>1
    <3> QED BY <3>1, <3>2 DEF Has, OnceIn
  <2>2. ASSUME Has(q, d), d # q[Len(q)] PROVE Has(p, d)
    <3>1. PICK i \in 1 .. Len(q) : q[i] = d
      BY <2>2 DEF Has
    <3>2. i \in 1 .. Len(q) - 1 /\ i \in 1 .. Len(p)
      BY <3>1, <2>2, <1>1
    <3> QED BY <3>1, <3>2, <1>1 DEF Has
  <2> QED BY <2>1, <2>2
<1> QED BY <1>1, <1>2, <1>3, <1>4 DEF p

(* Wherever minheap_add leaves a new entry.                                *)
LEMMA HeapAdded ==
    ASSUME NEW q \in Seq(Conns), NEW c \in Conns, OnceIn(q), ~Has(q, c),
           NEW k \in 1 .. Len(q) + 1
    PROVE  /\ InsertAt(q, k, c) \in Seq(Conns) /\ OnceIn(InsertAt(q, k, c))
           /\ \A d : Has(InsertAt(q, k, c), d) <=> Has(q, d) \/ d = c
<1> DEFINE a == SubSeq(q, 1, k - 1)
           b == SubSeq(q, k, Len(q))
           p == InsertAt(q, k, c)
<1>1. Len(q) \in Nat /\ q \in [1 .. Len(q) -> Conns]
  OBVIOUS
<1>2. a \in Seq(Conns) /\ Len(a) = k - 1 /\ \A i \in 1 .. k - 1 : a[i] = q[i]
  BY <1>1
<1>3. b \in Seq(Conns) /\ Len(b) = Len(q) - k + 1
      /\ \A i \in 1 .. Len(q) - k + 1 : b[i] = q[k + i - 1]
  BY <1>1
<1>4. p = a \o <<c>> \o b
  BY DEF InsertAt
<1>5. a \o <<c>> \in Seq(Conns) /\ Len(a \o <<c>>) = k
      /\ (\A i \in 1 .. k - 1 : (a \o <<c>>)[i] = q[i]) /\ (a \o <<c>>)[k] = c
  <2>1. <<c>> \in Seq(Conns) /\ Len(<<c>>) = 1 /\ <<c>>[1] = c
    OBVIOUS
  <2> QED BY <1>1, <1>2, <2>1
<1>6. p \in Seq(Conns) /\ Len(p) = Len(q) + 1
      /\ (\A i \in 1 .. k - 1 : p[i] = q[i]) /\ p[k] = c
      /\ \A i \in k + 1 .. Len(q) + 1 : p[i] = q[i - 1]
  <2> HIDE DEF a, b, p
  <2>1. PICK e : e = a \o <<c>>
    OBVIOUS
  <2>2. e \in Seq(Conns) /\ Len(e) = k /\ (\A i \in 1 .. k - 1 : e[i] = q[i]) /\ e[k] = c
    BY <1>5, <2>1
  <2>3. p = e \o b
    BY <1>4, <2>1
  <2>4. p \in Seq(Conns) /\ Len(p) = k + (Len(q) - k + 1)
        /\ (\A i \in 1 .. k : p[i] = e[i])
        /\ \A i \in 1 .. Len(q) - k + 1 : p[k + i] = b[i]
    <3>1. /\ e \o b \in Seq(Conns) /\ Len(e \o b) = Len(e) + Len(b)
          /\ \A i \in 1 .. Len(e) : (e \o b)[i] = e[i]
          /\ \A i \in 1 .. Len(b) : (e \o b)[Len(e) + i] = b[i]
      <4>1. e \in Seq(Conns) /\ b \in Seq(Conns)
        BY <2>2, <1>3
      <4> QED BY <4>1, Joined
    <3> QED BY <3>1, <1>3, <2>2, <2>3
  <2>5. ASSUME NEW i \in k + 1 .. Len(q) + 1 PROVE p[i] = q[i - 1]
    <3>1. i - k \in 1 .. Len(q) - k + 1 /\ k + (i - k) = i /\ k + (i - k) - 1 = i - 1
      BY <1>1
    <3> QED BY <3>1, <2>4, <1>3
  <2> QED BY <1>1, <2>2, <2>4, <2>5
<1> HIDE DEF a, b, p
<1>7. ASSUME NEW i \in 1 .. Len(p), i # k
      PROVE \E j \in 1 .. Len(q) : p[i] = q[j] /\ j = (IF i < k THEN i ELSE i - 1)
  <2>1. CASE i < k
    BY <2>1, <1>1, <1>6
  <2>2. CASE i > k
    <3>1. i \in k + 1 .. Len(q) + 1 /\ i - 1 \in 1 .. Len(q)
      BY <2>2, <1>1, <1>6
    <3> QED BY <3>1, <2>2, <1>6
  <2> QED BY <2>1, <2>2, <1>1, <1>6, <1>7
<1>8. OnceIn(p)
  <2> SUFFICES ASSUME NEW i \in 1 .. Len(p), NEW j \in 1 .. Len(p), p[i] = p[j] PROVE i = j
    BY DEF OnceIn
  <2>1. CASE i = k /\ j # k
    BY <2>1, <1>6, <1>7 DEF Has
  <2>2. CASE j = k /\ i # k
    BY <2>2, <1>6, <1>7 DEF Has
  <2>3. CASE i # k /\ j # k
    BY <2>3, <1>7, <1>1, <1>6 DEF OnceIn
  <2> QED BY <2>1, <2>2, <2>3
<1>9. ASSUME NEW d PROVE Has(p, d) <=> Has(q, d) \/ d = c
  <2>1. ASSUME Has(p, d) PROVE Has(q, d) \/ d = c
    BY <2>1, <1>6, <1>7 DEF Has
  <2>2. k \in 1 .. Len(p)
    BY <1>1, <1>6
  <2>3. ASSUME NEW j \in 1 .. Len(q) PROVE \E i \in 1 .. Len(p) : p[i] = q[j]
    <3>1. CASE j < k
      BY <3>1, <1>1, <1>6
    <3>2. CASE j >= k
      <4>1. j + 1 \in k + 1 .. Len(q) + 1 /\ j + 1 \in 1 .. Len(p) /\ (j + 1) - 1 = j
        BY <3>2, <1>1, <1>6
      <4> QED BY <4>1, <1>6
    <3> QED BY <3>1, <3>2, <1>1
  <2> QED BY <2>1, <2>2, <2>3, <1>6 DEF Has
<1> QED BY <1>6, <1>8, <1>9 DEF p
-----------------------------------------------------------------------------
(* What a step of one connect leaves as it was for another.                *)
Same(d) ==
    /\ expiration'[d] = expiration[d] /\ ctrl'[d] = ctrl[d] /\ job'[d] = job[d]
    /\ retGotByCtrl'[d] = retGotByCtrl[d]
    /\ waitInfo'[d] = waitInfo[d] /\ fd'[d] = fd[d] /\ answers'[d] = answers[d]
    /\ (Queued(d)' <=> Queued(d)) /\ (InHeap(d)' <=> InHeap(d))
    /\ (d \in holding' <=> d \in holding)

LEMMA SameIsOk == ASSUME NEW d, ConnOk(d), Same(d) PROVE ConnOk(d)'
BY DEF ConnOk, Before, After, Told, JobHolds, SlotHolds, Same, Timed

(* A step about connect c keeps the rest.                                  *)
LEMMA OneChanges ==
    ASSUME ConnInv, NEW c \in Conns, ConnTypes', fault' \notin {"fd", "slot"}, ConnOk(c)',
           \A d \in Conns \ {c} : Same(d)
    PROVE  ConnInv'
<1>1. \A d \in Conns : ConnOk(d)'
  BY SameIsOk DEF ConnInv
<1> QED BY <1>1 DEF ConnInv

LEMMA InitConn == Init => ConnInv
<1> SUFFICES ASSUME Init PROVE ConnInv
  OBVIOUS
<1>1. ConnTypes
  BY DEF ConnTypes, Init, NoTime, OnceQueued, OnceIn, JobDone
<1>2. \A c \in Conns : ConnOk(c)
  BY DEF Init, ConnOk, Before, After, Told, Timed, JobHolds, SlotHolds, Queued, InHeap, Asks, Has
<1> QED BY <1>1, <1>2 DEF ConnInv, Init

LEMMA Appended ==
    ASSUME NEW c \in Conns, NEW ret \in {"ok"} \union Failures, ConnTypes, Answer(c, ret)
    PROVE  /\ answers' \in [Conns -> Seq({"ok"} \union Failures)]
           /\ \A d \in Conns \ {c} : answers'[d] = answers[d]
           /\ answers[c] = << >> => Len(answers'[c]) <= 1
           /\ answers[c] = << >> /\ answers'[c] # << >> =>
                 answers'[c] = <<ret>> /\ Head(answers'[c]) = ret
           /\ alive /\ answers[c] = << >> => answers'[c] = <<ret>>
<1>1. answers[c] \in Seq({"ok"} \union Failures)
  BY DEF ConnTypes
<1>2. Append(answers[c], ret) \in Seq({"ok"} \union Failures)
  BY <1>1
<1>3. answers[c] = << >> => Append(answers[c], ret) = <<ret>> /\ Len(Append(answers[c], ret)) = 1
  BY <1>1
<1>4. Head(<<ret>>) = ret /\ Len(<<ret>>) = 1
  OBVIOUS
<1> QED BY <1>2, <1>3, <1>4 DEF ConnTypes, Answer

LEMMA CallOk == ASSUME ConnInv, NEW c \in Conns, Call(c) PROVE ConnInv'
<1>1. ConnTypes'
  <2>1. expiration' \in [Conns -> Nat \union {NoTime}]
    <3>1. Timeout[c] \in Nat /\ now \in Nat /\ expiration \in [Conns -> Nat \union {NoTime}]
      BY ConnectAssumption DEF ConnInv, ConnTypes
    <3>2. now + Timeout[c] \in Nat
      BY <3>1
    <3> QED BY <3>1, <3>2 DEF Call
  <2> QED BY <2>1 DEF ConnInv, ConnTypes, Call, netVars
<1>2. Queued(c)' = Queued(c) /\ InHeap(c)' = InHeap(c)
  BY DEF Queued, InHeap, Call, netVars
<1>3. ConnOk(c)'
  BY <1>2 DEF ConnInv, ConnTypes, ConnOk, Before, After, Told, Timed, JobHolds, SlotHolds, Call,
              netVars
<1>4. \A d \in Conns \ {c} : Same(d)
  BY DEF Same, ConnInv, ConnTypes, Call, netVars, Queued, InHeap
<1> QED BY <1>1, <1>3, <1>4, OneChanges DEF Call, ConnInv

LEMMA JobEndsOk == ASSUME ConnInv, NEW c \in Conns, JobEnds(c) PROVE ConnInv'
<1>1. ConnTypes'
  BY DEF ConnInv, ConnTypes, JobEnds, netVars, JobDone
<1>2. (Queued(c)' <=> Queued(c)) /\ (InHeap(c)' <=> InHeap(c))
  BY DEF Queued, InHeap, JobEnds, netVars
<1>3. ConnOk(c)'
  BY <1>2 DEF ConnInv, ConnTypes, ConnOk, Before, After, Told, Timed, JobHolds, SlotHolds, JobEnds,
              netVars, JobDone
<1>4. \A d \in Conns \ {c} : Same(d)
  BY DEF Same, ConnInv, ConnTypes, JobEnds, netVars, Queued, InHeap
<1> QED BY <1>1, <1>3, <1>4, OneChanges DEF JobEnds, ConnInv

LEMMA JobFinalizeOk == ASSUME ConnInv, NEW c \in Conns, JobFinalize(c) PROVE ConnInv'
<1>1. ConnTypes'
  BY DEF ConnInv, ConnTypes, JobFinalize, netVars, JobDone, Release
<1>2. (Queued(c)' <=> Queued(c)) /\ (InHeap(c)' <=> InHeap(c))
  BY DEF Queued, InHeap, JobFinalize, netVars
<1>3. holding' = holding
  BY DEF JobFinalize, Release
<1>4. ConnOk(c)' /\ fault' \notin {"fd", "slot"}
  BY <1>2, <1>3 DEF ConnInv, ConnTypes, ConnOk, Before, After, Told, Timed, JobHolds, SlotHolds,
        JobFinalize, netVars, JobDone, Release, Taken
<1>5. \A d \in Conns \ {c} : Same(d)
  BY <1>3 DEF Same, ConnInv, ConnTypes, JobFinalize, netVars, Queued, InHeap, Release
<1> QED BY <1>1, <1>4, <1>5, OneChanges

LEMMA CtrlGetsOk == ASSUME ConnInv, NEW c \in Conns, CtrlGets(c) PROVE ConnInv'
<1>1. ConnOk(c) /\ ConnTypes /\ ~Queued(c)
  BY DEF ConnInv, CtrlGets, ConnOk, Before
<1>2. retGotByCtrl[c] = FALSE /\ answers[c] = << >>
  BY <1>1 DEF ConnTypes, CtrlGets, ConnOk, Before
<1>3. CASE job[c] = "failed"
  <2>1. Answer(c, "failed") /\ UNCHANGED queTaskReq
    BY <1>3 DEF CtrlGets
  <2>2. /\ answers' \in [Conns -> Seq({"ok"} \union Failures)]
        /\ (\A d \in Conns \ {c} : answers'[d] = answers[d]) /\ Len(answers'[c]) <= 1
    BY <1>1, <1>2, <2>1, Appended DEF Failures
  <2>3. ConnTypes'
    BY <2>1, <2>2 DEF ConnInv, ConnTypes, CtrlGets, netVars
  <2>4. (Queued(c)' <=> Queued(c)) /\ (InHeap(c)' <=> InHeap(c))
    BY <2>1 DEF Queued, InHeap, CtrlGets, netVars
  <2>5. ConnOk(c)'
    BY <1>3, <2>4, <1>1, <1>2, <2>2
       DEF ConnTypes, ConnOk, Before, After, Told, Timed, JobHolds, SlotHolds, CtrlGets, netVars
  <2>6. \A d \in Conns \ {c} : Same(d)
    BY <1>1, <2>1, <2>2 DEF Same, ConnTypes, CtrlGets, netVars, Queued, InHeap
  <2> QED BY <2>3, <2>5, <2>6, OneChanges DEF CtrlGets, ConnInv
<1>4. CASE job[c] # "failed"
  <2> DEFINE r == [conn |-> c, inProgress |-> job[c] = "progress"]
  <2>1. queTaskReq' = Append(queTaskReq, r) /\ answers' = answers /\ r \in Requests /\ r.conn = c
    BY <1>4 DEF CtrlGets, Requests
  <2> HIDE DEF r
  <2>2. /\ queTaskReq' \in Seq(Requests) /\ OnceQueued(queTaskReq')
        /\ \A d : Asks(queTaskReq', d) <=> Asks(queTaskReq, d) \/ d = c
    <3>1. queTaskReq \in Seq(Requests) /\ OnceQueued(queTaskReq) /\ ~Asks(queTaskReq, r.conn)
      BY <1>1, <2>1 DEF ConnTypes, Queued
    <3> QED BY <2>1, <3>1, RequestAppended
  <2>3. ConnTypes'
    BY <1>1, <2>1, <2>2 DEF ConnTypes, CtrlGets, netVars
  <2>4. Queued(c)' /\ (InHeap(c)' <=> InHeap(c))
    BY <2>2 DEF Queued, InHeap, CtrlGets, netVars
  <2>5. ConnOk(c)'
    BY <1>4, <2>4, <2>1, <1>1, <1>2
       DEF ConnTypes, ConnOk, Before, After, Told, Timed, JobHolds, SlotHolds, CtrlGets,
           netVars, JobDone
  <2>6. \A d \in Conns \ {c} : Same(d)
    BY <1>1, <2>1, <2>2 DEF Same, ConnTypes, CtrlGets, netVars, Queued, InHeap
  <2> QED BY <2>3, <2>5, <2>6, OneChanges DEF CtrlGets, ConnInv
<1> QED BY <1>3, <1>4

LEMMA CtrlTimesOutOk == ASSUME ConnInv, NEW c \in Conns, CtrlTimesOut(c) PROVE ConnInv'
<1>1. ConnOk(c) /\ ConnTypes
  BY DEF ConnInv
<1>2. retGotByCtrl[c] = FALSE /\ answers[c] = << >>
  BY <1>1 DEF ConnTypes, CtrlTimesOut, ConnOk, Before
<1>3. /\ answers' \in [Conns -> Seq({"ok"} \union Failures)]
      /\ (\A d \in Conns \ {c} : answers'[d] = answers[d]) /\ Len(answers'[c]) <= 1
  BY <1>1, <1>2, Appended DEF Failures, CtrlTimesOut
<1>4. ConnTypes'
  BY <1>1, <1>3 DEF ConnTypes, CtrlTimesOut, netVars
<1>5. (Queued(c)' <=> Queued(c)) /\ (InHeap(c)' <=> InHeap(c))
  BY DEF Queued, InHeap, CtrlTimesOut, netVars
<1>6. ConnOk(c)'
  BY <1>5, <1>1, <1>2, <1>3
     DEF ConnTypes, ConnOk, Before, After, Told, Timed, JobHolds, SlotHolds, CtrlTimesOut, netVars
<1>7. \A d \in Conns \ {c} : Same(d)
  BY <1>1, <1>3 DEF Same, ConnTypes, CtrlTimesOut, netVars, Queued, InHeap
<1> QED BY <1>4, <1>6, <1>7, OneChanges DEF CtrlTimesOut, ConnInv
-----------------------------------------------------------------------------
(* A request is taken off the queue.                                       *)
LEMMA TakesOne ==
    ASSUME ConnInv, NEW p \in BOOLEAN, Takes(p)
    PROVE  \E c \in Conns :
              /\ c = Request.conn /\ Queued(c) /\ ~Queued(c)'
              /\ queTaskReq' \in Seq(Requests) /\ OnceQueued(queTaskReq')
              /\ \A d \in Conns \ {c} : Queued(d)' <=> Queued(d)
<1>1. queTaskReq \in Seq(Requests) /\ queTaskReq # << >> /\ OnceQueued(queTaskReq)
      /\ queTaskReq' = Tail(queTaskReq)
  BY DEF ConnInv, ConnTypes, Takes
<1>2. PICK r : r = Head(queTaskReq)
  OBVIOUS
<1>3. /\ Tail(queTaskReq) \in Seq(Requests) /\ OnceQueued(Tail(queTaskReq)) /\ r \in Requests
      /\ Asks(queTaskReq, r.conn)
      /\ \A c : Asks(Tail(queTaskReq), c) <=> Asks(queTaskReq, c) /\ c # r.conn
  BY <1>1, <1>2, RequestTaken
<1>4. r.conn \in Conns
  BY <1>3 DEF Requests
<1>5. PICK c : c = r.conn
  OBVIOUS
<1>6. Request.conn = c
  BY <1>2, <1>5 DEF Request
<1>7. ~Queued(c)' /\ \A d \in Conns \ {c} : Queued(d)' <=> Queued(d)
  BY <1>1, <1>3, <1>5 DEF Queued
<1>8. c \in Conns /\ Queued(c) /\ queTaskReq' \in Seq(Requests) /\ OnceQueued(queTaskReq')
  BY <1>1, <1>3, <1>4, <1>5 DEF Queued
<1> QED BY <1>6, <1>7, <1>8

LEMMA ConnFullOk == ASSUME ConnInv, ConnFull PROVE ConnInv'
<1>1. PICK p \in BOOLEAN : Takes(p)
  BY DEF ConnFull
<1>2. PICK c \in Conns :
        /\ c = Request.conn /\ Queued(c) /\ ~Queued(c)'
        /\ queTaskReq' \in Seq(Requests) /\ OnceQueued(queTaskReq')
        /\ \A d \in Conns \ {c} : Queued(d)' <=> Queued(d)
  BY <1>1, TakesOne
<1>3. /\ c \in Conns /\ Queued(c) /\ queTaskReq' \in Seq(Requests) /\ OnceQueued(queTaskReq')
      /\ ~Queued(c)' /\ \A d \in Conns \ {c} : Queued(d)' <=> Queued(d)
  BY <1>2
<1>4. ConnOk(c) /\ ConnTypes /\ retGotByCtrl[c] /\ answers[c] = << >> /\ Answer(c, "full")
  BY <1>2, <1>3 DEF ConnInv, ConnFull, ConnOk, Before, After
<1>5. /\ answers' \in [Conns -> Seq({"ok"} \union Failures)]
      /\ (\A d \in Conns \ {c} : answers'[d] = answers[d]) /\ Len(answers'[c]) <= 1
  BY <1>3, <1>4, Appended DEF Failures
<1>6. fd' = [fd EXCEPT ![c] = "closed"] /\ fault' \notin {"fd", "slot"}
      /\ UNCHANGED <<now, callVars, netVars, holding, alive>>
  BY <1>2 DEF ConnFull, ConnInv
<1>7. ConnTypes'
  BY <1>3, <1>4, <1>5, <1>6 DEF ConnTypes, netVars, callVars
<1>8. \A d \in Conns \ {c} : Same(d)
  BY <1>3, <1>4, <1>5, <1>6 DEF ConnTypes, Same, netVars, callVars, InHeap
<1>9. ConnOk(c)'
  <2>1. InHeap(c)' <=> InHeap(c)
    BY <1>6 DEF InHeap, netVars
  <2> QED BY <2>1, <1>3, <1>4, <1>5, <1>6
          DEF ConnTypes, ConnOk, Before, After, Told, Timed, JobHolds, SlotHolds, callVars, netVars
<1> QED BY <1>3, <1>6, <1>7, <1>8, <1>9, OneChanges

LEMMA ConnDoneOk == ASSUME ConnInv, ConnDone PROVE ConnInv'
<1>1. Takes(FALSE)
  BY DEF ConnDone
<1>2. PICK c \in Conns :
        /\ c = Request.conn /\ Queued(c) /\ ~Queued(c)'
        /\ queTaskReq' \in Seq(Requests) /\ OnceQueued(queTaskReq')
        /\ \A d \in Conns \ {c} : Queued(d)' <=> Queued(d)
  BY <1>1, TakesOne
<1>3. /\ c \in Conns /\ Queued(c) /\ queTaskReq' \in Seq(Requests) /\ OnceQueued(queTaskReq')
      /\ ~Queued(c)' /\ \A d \in Conns \ {c} : Queued(d)' <=> Queued(d)
  BY <1>2
<1>4. ConnOk(c) /\ ConnTypes /\ retGotByCtrl[c] /\ answers[c] = << >> /\ Answer(c, "ok")
      /\ fd[c] = "open" /\ c \notin holding /\ waitInfo[c] = "none"
  BY <1>2, <1>3 DEF ConnInv, ConnDone, ConnOk, Before, After
<1>5. /\ answers' \in [Conns -> Seq({"ok"} \union Failures)]
      /\ (\A d \in Conns \ {c} : answers'[d] = answers[d]) /\ Len(answers'[c]) <= 1
      /\ answers'[c] # << >> => Head(answers'[c]) = "ok"
  BY <1>3, <1>4, Appended DEF Failures
<1>6. UNCHANGED <<now, callVars, netVars, alive>>
  BY DEF ConnDone
<1>7. CASE alive
  <2>1. holding' = holding \union {c} /\ UNCHANGED <<fd, fault>>
    BY <1>2, <1>7 DEF ConnDone
  <2>2. ConnTypes'
    BY <1>3, <1>4, <1>5, <1>6, <2>1 DEF ConnTypes, netVars, callVars
  <2>3. \A d \in Conns \ {c} : Same(d)
    BY <1>3, <1>4, <1>5, <1>6, <2>1 DEF ConnTypes, Same, netVars, callVars, InHeap
  <2>4. InHeap(c)' <=> InHeap(c)
    BY <1>6 DEF InHeap, netVars
  <2>5. ConnOk(c)'
    BY <2>1, <2>4, <1>3, <1>4, <1>5, <1>6
       DEF ConnTypes, ConnOk, Before, After, Told, Timed, JobHolds, SlotHolds, callVars,
           netVars, Failures
  <2> QED BY <1>3, <2>1, <2>2, <2>3, <2>5, OneChanges DEF ConnInv
<1>8. CASE ~alive
  <2>1. /\ fd' = [d \in Conns |-> IF d = c THEN "closed" ELSE fd[d]]
        /\ holding' = holding /\ UNCHANGED fault
    BY <1>2, <1>4, <1>8 DEF ConnDone, Release
  <2>2. ConnTypes'
    BY <1>3, <1>4, <1>5, <1>6, <2>1 DEF ConnTypes, netVars, callVars
  <2>3. \A d \in Conns \ {c} : Same(d)
    BY <1>3, <1>4, <1>5, <1>6, <2>1 DEF ConnTypes, Same, netVars, callVars, InHeap
  <2>4. InHeap(c)' <=> InHeap(c)
    BY <1>6 DEF InHeap, netVars
  <2>5. ConnOk(c)'
    BY <2>1, <2>4, <1>3, <1>4, <1>5, <1>6
       DEF ConnTypes, ConnOk, Before, After, Told, Timed, JobHolds, SlotHolds, callVars,
           netVars, Failures
  <2> QED BY <1>3, <2>1, <2>2, <2>3, <2>5, OneChanges DEF ConnInv
<1> QED BY <1>7, <1>8

LEMMA ConnWaitOk == ASSUME ConnInv, ConnWait PROVE ConnInv'
<1>1. Takes(TRUE)
  BY DEF ConnWait
<1>2. PICK c \in Conns :
        /\ c = Request.conn /\ Queued(c) /\ ~Queued(c)'
        /\ queTaskReq' \in Seq(Requests) /\ OnceQueued(queTaskReq')
        /\ \A d \in Conns \ {c} : Queued(d)' <=> Queued(d)
  BY <1>1, TakesOne
<1>3. ConnOk(c) /\ ConnTypes /\ retGotByCtrl[c] /\ answers[c] = << >>
      /\ fd[c] = "open" /\ c \notin holding /\ waitInfo[c] = "none" /\ ~InHeap(c)
  BY <1>2 DEF ConnInv, ConnOk, Before, After
<1>4. UNCHANGED <<now, callVars, npc, sleepLeft, fd, answers, alive, fault>>
      /\ holding' = holding \union {c} /\ waitInfo' = [waitInfo EXCEPT ![c] = "open"]
  BY <1>2 DEF ConnWait
<1>5. /\ queConnTimeout' \in Seq(Conns) /\ OnceIn(queConnTimeout')
      /\ (\A d \in Conns \ {c} : InHeap(d)' <=> InHeap(d)) /\ (InHeap(c)' => Timed(c))
  <2>1. CASE ~Timed(c)
    BY <2>1, <1>2, <1>3 DEF ConnWait, ConnTypes, InHeap
  <2>2. CASE Timed(c)
    <3>1. PICK i \in 1..Len(queConnTimeout) + 1 : queConnTimeout' = InsertAt(queConnTimeout, i, c)
      BY <2>2, <1>2 DEF ConnWait
    <3>2. queConnTimeout \in Seq(Conns) /\ OnceIn(queConnTimeout) /\ ~Has(queConnTimeout, c)
      BY <1>3 DEF ConnTypes, InHeap
    <3>3. /\ queConnTimeout' \in Seq(Conns) /\ OnceIn(queConnTimeout')
          /\ \A d : Has(queConnTimeout', d) <=> Has(queConnTimeout, d) \/ d = c
      BY <3>1, <3>2, HeapAdded
    <3> QED BY <3>3, <2>2 DEF InHeap
  <2> QED BY <2>1, <2>2
<1>6. ConnTypes'
  BY <1>2, <1>3, <1>4, <1>5 DEF ConnTypes, callVars
<1>7. \A d \in Conns \ {c} : Same(d)
  BY <1>2, <1>3, <1>4, <1>5 DEF ConnTypes, Same, callVars
<1>8. ConnOk(c)'
  BY <1>2, <1>3, <1>4, <1>5
     DEF ConnTypes, ConnOk, Before, After, Told, Timed, JobHolds, SlotHolds, callVars
<1> QED BY <1>4, <1>6, <1>7, <1>8, OneChanges DEF ConnInv

LEMMA OnTcpConnDoneOk ==
    ASSUME ConnInv, NEW c \in Conns, NEW ok \in BOOLEAN, OnTcpConnDone(c, ok) PROVE ConnInv'
<1> DEFINE ret == IF ok THEN "ok" ELSE "failed"
           keep == ok /\ alive
<1>1. ConnOk(c) /\ ConnTypes /\ waitInfo[c] = "open" /\ fd[c] = "open" /\ c \in holding
      /\ answers[c] = << >> /\ retGotByCtrl[c] /\ ~Queued(c)
  BY DEF ConnInv, OnTcpConnDone, Waiting, ConnOk, Before, After
<1>3. Answer(c, ret) /\ ret \in {"ok"} \union Failures
  BY DEF OnTcpConnDone, Failures
<1>4. /\ answers' \in [Conns -> Seq({"ok"} \union Failures)]
      /\ (\A d \in Conns \ {c} : answers'[d] = answers[d]) /\ Len(answers'[c]) <= 1
      /\ (answers'[c] # << >> => Head(answers'[c]) = ret)
  BY <1>1, <1>3, Appended
<1>5. UNCHANGED <<now, callVars, queTaskReq, queConnTimeout, alive>>
  BY DEF OnTcpConnDone
<1>6. /\ waitInfo' = [waitInfo EXCEPT ![c] =
                 IF ~Timed(c) THEN "none" ELSE IF keep THEN "succ" ELSE "failed"]
      /\ fd' = [d \in Conns |-> IF ~keep /\ d = c THEN "closed" ELSE fd[d]]
      /\ holding' = (IF keep \/ Timed(c) THEN holding ELSE holding \ {c})
      /\ fault' = fault
  BY <1>1 DEF OnTcpConnDone, Release
<1>7. ConnTypes'
  BY <1>1, <1>4, <1>5, <1>6 DEF ConnTypes, callVars
<1>8. \A d \in Conns \ {c} : Same(d)
  BY <1>1, <1>4, <1>5, <1>6 DEF ConnTypes, Same, callVars, Queued, InHeap
<1>9. (Queued(c)' <=> Queued(c)) /\ (InHeap(c)' <=> InHeap(c))
  BY <1>5 DEF Queued, InHeap
<1>10. ConnOk(c)'
  BY <1>9, <1>1, <1>4, <1>5, <1>6
     DEF ConnTypes, ConnOk, Before, After, Told, Timed, JobHolds, SlotHolds, callVars, Failures
<1> QED BY <1>6, <1>7, <1>8, <1>10, OneChanges DEF ConnInv

LEMMA PopTimeoutOk == ASSUME ConnInv, PopTimeout PROVE ConnInv'
<1>1. ConnTypes /\ queConnTimeout \in Seq(Conns) /\ queConnTimeout # << >>
      /\ OnceIn(queConnTimeout) /\ queConnTimeout' = Tail(queConnTimeout)
  BY DEF ConnInv, ConnTypes, PopTimeout
<1>2. PICK c : c = Head(queConnTimeout)
  OBVIOUS
<1>3. /\ Tail(queConnTimeout) \in Seq(Conns) /\ OnceIn(Tail(queConnTimeout)) /\ c \in Conns
      /\ Has(queConnTimeout, c)
      /\ \A d : Has(Tail(queConnTimeout), d) <=> Has(queConnTimeout, d) /\ d # c
  BY <1>1, <1>2, Popped
<1>4. InHeap(c) /\ ~InHeap(c)' /\ \A d \in Conns \ {c} : InHeap(d)' <=> InHeap(d)
  BY <1>1, <1>3 DEF InHeap
<1>5. UNCHANGED <<now, callVars, queTaskReq, npc, pollWait, sleepLeft, alive>>
      /\ waitInfo' = [waitInfo EXCEPT ![c] = "none"]
  BY <1>2 DEF PopTimeout
<1>6. ConnOk(c) /\ waitInfo[c] # "none" /\ retGotByCtrl[c] /\ ~Queued(c)
  BY <1>3, <1>4 DEF ConnInv, ConnOk, Before, After
<1>7. Queued(c)' <=> Queued(c)
  BY <1>5 DEF Queued
<1>8. CASE waitInfo[c] = "open"
  <2>1. Answer(c, "timeout") /\ Release({c}, {c}) /\ answers[c] = << >> /\ c \in holding
        /\ fd[c] = "open"
    BY <1>2, <1>8, <1>6 DEF PopTimeout, IsDone, ConnOk, After, SlotHolds
  <2>2. /\ answers' \in [Conns -> Seq({"ok"} \union Failures)]
        /\ (\A d \in Conns \ {c} : answers'[d] = answers[d]) /\ Len(answers'[c]) <= 1
    BY <1>1, <1>3, <2>1, Appended DEF Failures
  <2>3. /\ fd' = [d \in Conns |-> IF d = c THEN "closed" ELSE fd[d]]
        /\ holding' = holding \ {c} /\ fault' = fault
    BY <2>1, <1>3 DEF Release
  <2>4. ConnTypes'
    BY <1>1, <1>3, <1>5, <2>2, <2>3 DEF ConnTypes, callVars
  <2>5. \A d \in Conns \ {c} : Same(d)
    BY <1>1, <1>4, <1>5, <2>2, <2>3 DEF ConnTypes, Same, callVars, Queued
  <2>6. ConnOk(c)'
    BY <1>1, <1>3, <1>4, <1>5, <1>6, <1>7, <2>1, <2>2, <2>3
       DEF ConnTypes, ConnOk, Before, After, Told, Timed, JobHolds, SlotHolds, callVars
  <2> QED BY <1>3, <2>3, <2>4, <2>5, <2>6, OneChanges DEF ConnInv
<1>9. CASE waitInfo[c] # "open"
  <2>1. Release({}, IF GivesBack(c) THEN {c} ELSE {}) /\ answers' = answers
    BY <1>2, <1>9 DEF PopTimeout, IsDone
  <2>2. /\ fd' = fd /\ fault' = fault
        /\ holding' = (IF waitInfo[c] = "failed" THEN holding \ {c} ELSE holding)
    <3>1. waitInfo[c] = "failed" => c \in holding
      BY <1>6 DEF ConnOk, After
    <3> QED BY <2>1, <3>1, <1>1 DEF Release, GivesBack, ConnTypes
  <2>3. ConnTypes'
    BY <1>1, <1>3, <1>5, <2>1, <2>2 DEF ConnTypes, callVars
  <2>4. \A d \in Conns \ {c} : Same(d)
    BY <1>1, <1>4, <1>5, <2>1, <2>2 DEF ConnTypes, Same, callVars, Queued
  <2>5. ConnOk(c)'
    BY <1>1, <1>3, <1>4, <1>5, <1>6, <1>7, <1>9, <2>1, <2>2
       DEF ConnTypes, ConnOk, Before, After, Told, Timed, JobHolds, SlotHolds, callVars
  <2> QED BY <1>3, <2>2, <2>3, <2>4, <2>5, OneChanges DEF ConnInv
<1> QED BY <1>8, <1>9

LEMMA SvcCloseOk == ASSUME ConnInv, NEW c \in Conns, SvcClose(c) PROVE ConnInv'
<1>1. ConnOk(c) /\ ConnTypes /\ c \in holding /\ fd[c] = "open" /\ retGotByCtrl[c] /\ ~Queued(c)
      /\ answers[c] # << >>
  BY DEF ConnInv, SvcClose, Owned, ConnOk, Before, After
<1>2. waitInfo[c] \notin {"open", "failed"}
  BY <1>1 DEF ConnOk, After, JobHolds, SlotHolds
<1>3. /\ fd' = [d \in Conns |-> IF d = c THEN "closed" ELSE fd[d]]
      /\ holding' = holding \ {c} /\ fault' = fault
      /\ UNCHANGED <<now, callVars, queTaskReq, netVars, answers, alive>>
  BY <1>1 DEF SvcClose, Release
<1>4. (Queued(c)' <=> Queued(c)) /\ (InHeap(c)' <=> InHeap(c))
  BY <1>3 DEF Queued, InHeap, netVars
<1>5. ConnTypes'
  BY <1>1, <1>3 DEF ConnTypes, callVars, netVars
<1>6. \A d \in Conns \ {c} : Same(d)
  BY <1>1, <1>3 DEF ConnTypes, Same, callVars, netVars, Queued, InHeap
<1>7. ConnOk(c)'
  BY <1>1, <1>2, <1>3, <1>4
     DEF ConnTypes, ConnOk, Before, After, Told, Timed, JobHolds, SlotHolds, callVars, netVars
<1> QED BY <1>3, <1>5, <1>6, <1>7, OneChanges DEF ConnInv

(* The clock, the end of the service and of a round of the net thread      *)
(* leave all connects alone.                                               *)
LEMMA OthersOk ==
    ASSUME ConnInv, StartPoll \/ PollEnds \/ TimeoutsEnd \/ SvcGone \/ Tick PROVE ConnInv'
<1>1. UNCHANGED <<callVars, queTaskReq, waitInfo, queConnTimeout, holding, fd, answers, fault>>
  BY DEF StartPoll, PollEnds, TimeoutsEnd, SvcGone, Tick, callVars, netVars
<1>2. now' \in Nat /\ alive' \in BOOLEAN
  <2>1. CASE Tick
    <3>1. now \in Nat /\ MaxTime \in Nat /\ alive \in BOOLEAN /\ alive' = alive
          /\ now' = Min({now + 1, MaxTime})
      BY <2>1, ConnectAssumption DEF ConnInv, ConnTypes, Tick
    <3>2. \E m \in {now + 1, MaxTime} : \A y \in {now + 1, MaxTime} : m <= y
      BY <3>1
    <3>3. Min({now + 1, MaxTime}) \in {now + 1, MaxTime}
      BY <3>2 DEF Min
    <3> QED BY <3>1, <3>3
  <2> QED BY <2>1 DEF ConnInv, ConnTypes, StartPoll, PollEnds, TimeoutsEnd, SvcGone
<1>3. ConnTypes'
  BY <1>1, <1>2 DEF ConnInv, ConnTypes, callVars
<1>4. \A d \in Conns : Same(d)
  BY <1>1 DEF Same, callVars, Queued, InHeap
<1> QED BY <1>1, <1>3, <1>4, SameIsOk DEF ConnInv

LEMMA NextConn == ConnInv /\ [Next]_vars => ConnInv'
<1> SUFFICES ASSUME ConnInv, [Next]_vars PROVE ConnInv'
  OBVIOUS
<1>1. ASSUME NEW c \in Conns, Call(c) \/ JobEnds(c) \/ JobFinalize(c) \/ SvcClose(c)
      PROVE ConnInv'
  BY <1>1, CallOk, JobEndsOk, JobFinalizeOk, SvcCloseOk
<1>2. ASSUME CtrlStep PROVE ConnInv'
  BY <1>2, CtrlGetsOk, CtrlTimesOutOk DEF CtrlStep
<1>3. ASSUME NetStep PROVE ConnInv'
  BY <1>3, ConnFullOk, ConnDoneOk, ConnWaitOk, PopTimeoutOk, OthersOk DEF NetStep
<1>4. ASSUME NEW c \in Conns, NEW ok \in BOOLEAN, OnTcpConnDone(c, ok) PROVE ConnInv'
  BY <1>4, OnTcpConnDoneOk
<1>5. ASSUME SvcGone \/ Tick PROVE ConnInv'
  BY <1>5, OthersOk
<1>6. ASSUME UNCHANGED vars PROVE ConnInv'
  <2>1. ConnTypes'
    BY <1>6 DEF vars, callVars, netVars, ConnInv, ConnTypes
  <2>2. \A d \in Conns : Same(d)
    BY <1>6 DEF vars, callVars, netVars, Same, Queued, InHeap
  <2>3. fault' = fault
    BY <1>6 DEF vars
  <2> QED BY <2>1, <2>2, <2>3, SameIsOk DEF ConnInv
<1> QED BY <1>1, <1>2, <1>3, <1>4, <1>5, <1>6 DEF Next

LEMMA ConnAlways == Spec => []ConnInv
BY InitConn, NextConn, PTL DEF Spec

(* A descriptor is open for exactly one holder, and never closed twice:    *)
(* for any number of connects, any timeouts and any interleaving of the    *)
(* job, control and net threads (FdOfOneHolder of Connect).                *)
THEOREM FdIsOfOneHolder == Spec => []FdOfOneHolder
<1>1. ConnInv => FdOfOneHolder
  <2> SUFFICES ASSUME ConnInv, NEW c \in Conns
               PROVE  Cardinality(Holders(c)) = IF fd[c] = "open" THEN 1 ELSE 0
    BY DEF ConnInv, FdOfOneHolder
  <2>1. ConnOk(c)
    BY DEF ConnInv
  <2> DEFINE H == {h \in {"job", "request", "slot"} :
                     \/ h = "job" /\ JobHolds(c)
                     \/ h = "request" /\ Queued(c)
                     \/ h = "slot" /\ SlotHolds(c)}
  <2>2. Holders(c) = H
    BY DEF Holders, JobHolds, SlotHolds, Queued, Asks
  <2>3. /\ ~(JobHolds(c) /\ Queued(c)) /\ ~(JobHolds(c) /\ SlotHolds(c))
        /\ ~(Queued(c) /\ SlotHolds(c))
    BY <2>1 DEF ConnOk, Before, After, JobHolds, SlotHolds
  <2>4. CASE fd[c] = "open"
    <3>1. H = {"job"} \/ H = {"request"} \/ H = {"slot"}
      BY <2>1, <2>3, <2>4 DEF ConnOk
    <3> QED BY <2>2, <2>4, <3>1, FS_Singleton
  <2>5. CASE fd[c] # "open"
    <3>1. H = {}
      BY <2>1, <2>5 DEF ConnOk
    <3> QED BY <2>2, <2>5, <3>1, FS_EmptySet
  <2> QED BY <2>4, <2>5
<1> QED BY <1>1, ConnAlways, PTL

(* A service is told once how its connect ended, and what it was told is   *)
(* true of its socket (ToldOnce of Connect).                               *)
THEOREM ServiceIsToldOnce == Spec => []ToldOnce
<1>1. ConnInv => ToldOnce
  <2> SUFFICES ASSUME ConnInv, NEW c \in Conns
               PROVE  /\ Len(answers[c]) <= 1
                      /\ answers[c] # << >> /\ Head(answers[c]) \in Failures
                              => fd[c] # "open" \/ (ctrl[c] = "end" /\ job[c] # "freed")
    BY DEF ConnInv, ToldOnce
  <2> QED BY DEF ConnInv, ConnTypes, ConnOk, Told, Before, JobHolds, SlotHolds
<1> QED BY <1>1, ConnAlways, PTL
-----------------------------------------------------------------------------
(* The database clients.  As long as calls do not overlap and replies are  *)
(* read to their end, one call at a time is under way, and the stream      *)
(* holds the rest of its reply and nothing else.                           *)

(* The calls that keep a queue of calls busy.                              *)
Active == {c \in Co : call[c] \in {"begin", "asleep", "reply", "after"}}

DbTypes ==
    /\ chain \in Seq(Co) /\ tbRdWait \in Co \union {None} /\ rdwt \in BOOLEAN
    /\ got \in [Co -> Co \union {None, Gone, Error, Other}]
    /\ qrd \in Seq(Co) /\ fns \in Seq(Co) /\ batch \in Seq(Co \union {Other})
    /\ inbuf \in Seq(Co \union {Other}) /\ coming \in Seq(Co \union {Other})
    /\ queued \in BOOLEAN /\ idle \in BOOLEAN /\ closed \in BOOLEAN
    /\ call \in [Co -> {"new", "queued", "begin", "asleep", "reply", "after", "done", "raised"}]
    /\ left \in [Co -> Int] /\ ppcnt \in Int
    /\ overlapped \in BOOLEAN /\ shared \in BOOLEAN /\ abandoned \in BOOLEAN /\ crossed \in BOOLEAN

(* One call at a time is between its command and the end of its reply.     *)
OneUnder == \A c, d \in Under : c = d

QueueOfCalls ==
    /\ OnceIn(fns) /\ \A d \in Co : Has(fns, d) => call[d] = "queued"
    /\ queued => (\A c, d \in Active : c = d) /\ (idle => Active = {})
    /\ ~queued => fns = << >> /\ idle

(* Who runs, and who waits for the network: never the same coroutine.      *)
OneWaits ==
    /\ OnceIn(chain) /\ \A d \in Co : Has(chain, d) => call[d] \in {"begin", "reply", "after"}
    /\ qrd = << >> /\ (rdwt => tbRdWait # None)
    /\ tbRdWait # None =>
          call[tbRdWait] = "reply" /\ got[tbRdWait] = None /\ ~Has(chain, tbRdWait)

(* What has come in, and what will, is the rest of the present reply.      *)
Held(c) == IF got[c] = c THEN 1 ELSE 0
RestOfReply(c) ==
    /\ \A d : Has(inbuf, d) \/ Has(coming, d) => d = c
    /\ Len(inbuf) + Len(coming) + Held(c) <= left[c]
StreamOfCall ==
    /\ \A c \in Co : call[c] = "reply" => RestOfReply(c)
    /\ (\A c \in Co : call[c] # "reply") => inbuf = << >> /\ coming = << >>
    /\ closed => coming = << >>

GotItsOwn ==
    \A c \in Co : /\ got[c] \in {None, Gone, c}
                  /\ got[c] # None => call[c] = "reply"
                  /\ got[c] = Gone => closed /\ inbuf = << >>

(* A pipeline has its first command in the buffer while it waits.          *)
PipeOfOne ==
    /\ ppcnt # NoPipe => \E c \in Co : call[c] = "asleep"
    /\ \A c \in Co : call[c] = "asleep" => batch = <<c>> /\ ppcnt = 1

InOrder == OneUnder /\ QueueOfCalls /\ OneWaits /\ StreamOfCall /\ GotItsOwn /\ PipeOfOne
DbInv == /\ DbTypes /\ (overlapped => ~queued)
         /\ ~overlapped /\ ~shared /\ ~abandoned => InOrder /\ ~crossed

LEMMA NumbersOfCalls == None \notin Co /\ Gone \notin Co /\ Error \notin Co /\ Other \notin Co
                        /\ Co \subseteq Int
BY DEF Co, None, Gone, Error, Other

LEMMA InitDb == DbInit => DbInv
<1> SUFFICES ASSUME DbInit PROVE DbInv
  OBVIOUS
<1>1. DbTypes
  <2>1. /\ chain = << >> /\ fns = << >> /\ qrd = << >> /\ batch = << >> /\ inbuf = << >>
        /\ coming = << >>
    BY DEF DbInit, SockInit
  <2>2. \A S : << >> \in Seq(S)
    OBVIOUS
  <2>3. got = [c \in Co |-> None] /\ tbRdWait = None
    BY DEF DbInit, SockInit
  <2>4. /\ ppcnt \in Int /\ left \in [Co -> Int]
        /\ call \in [Co -> {"new", "queued", "begin", "asleep", "reply", "after", "done", "raised"}]
    BY DEF DbInit, NoPipe
  <2> QED BY <2>1, <2>2, <2>3, <2>4 DEF DbInit, SockInit, DbTypes
<1>2. Under = {} /\ Active = {}
  BY DEF DbInit, Under, Active
<1>3. (\A d : ~Has(<< >>, d)) /\ OnceIn(<< >>)
  BY DEF Has, OnceIn
<1>4. OneUnder /\ QueueOfCalls /\ OneWaits
  BY <1>2, <1>3 DEF OneUnder, QueueOfCalls, OneWaits, DbInit, SockInit
<1>5. StreamOfCall
  BY <1>3 DEF StreamOfCall, DbInit, SockInit
<1>6. GotItsOwn
  BY DEF GotItsOwn, DbInit, SockInit, None, Gone
<1>7. PipeOfOne
  BY DEF PipeOfOne, DbInit
<1> QED BY <1>1, <1>4, <1>5, <1>6, <1>7 DEF DbInv, DbInit, InOrder

(* The coroutine that runs is the last of the chain, and does not wait.    *)
LEMMA RunningOne ==
    ASSUME DbTypes, InOrder, NEW c \in Co, Top = c
    PROVE  /\ chain # << >> /\ Has(chain, c) /\ tbRdWait # c
           /\ Yields \in Seq(Co) /\ OnceIn(Yields)
           /\ \A d : Has(Yields, d) <=> Has(chain, d) /\ d # c
<1>1. chain # << >> /\ chain \in Seq(Co) /\ OnceIn(chain) /\ chain[Len(chain)] = c
  BY NumbersOfCalls DEF Top, DbTypes, InOrder, OneWaits
<1>2. PICK q : q = chain
  OBVIOUS
<1>3. /\ SubSeq(q, 1, Len(q) - 1) \in Seq(Co) /\ OnceIn(SubSeq(q, 1, Len(q) - 1))
      /\ Has(q, c)
      /\ \A d : Has(SubSeq(q, 1, Len(q) - 1), d) <=> Has(q, d) /\ d # c
  BY <1>1, <1>2, Shortened
<1>4. tbRdWait # c
  BY <1>2, <1>3, NumbersOfCalls DEF InOrder, OneWaits
<1> QED BY <1>1, <1>2, <1>3, <1>4 DEF Yields

LEMMA BeginOk ==
    ASSUME DbInv, ~crossed, NEW c \in Co, NEW k \in Kinds, Begin(c, k) PROVE DbInv'
<1>1. call[c] = "new" /\ DbTypes
  BY DEF Begin, DbInv
<1>2. UNCHANGED <<handler, readVars, closed, queued, left, connAlive, ppcnt, batch, coming,
                  shared, abandoned, crossed>>
  BY DEF Begin
<1>3. CASE /\ MayRun /\ chain' = Append(chain, c) /\ Goto(c, "begin") /\ idle' = ~queued
           /\ overlapped' = (overlapped \/ (~queued /\ Under # {})) /\ UNCHANGED fns
  <2>1. PICK q : q = chain
    OBVIOUS
  <2>2. q \in Seq(Co) /\ chain' = Append(q, c)
    BY <1>1, <1>3, <2>1 DEF DbTypes
  <2>3. /\ Append(q, c) \in Seq(Co) /\ (\A d : Has(Append(q, c), d) <=> Has(q, d) \/ d = c)
        /\ (OnceIn(q) /\ ~Has(q, c) => OnceIn(Append(q, c)))
    BY <2>2, Pushed
  <2>4. DbTypes'
    BY <1>1, <1>2, <1>3, <2>2, <2>3 DEF DbTypes, readVars, Goto
  <2>5. SUFFICES ASSUME ~overlapped', ~shared', ~abandoned' PROVE InOrder'
    BY <1>2, <1>3, <2>4 DEF DbInv
  <2>6. InOrder /\ (~queued => Under = {}) /\ (queued => Active = {})
    BY <1>2, <1>3, <2>5 DEF DbInv, MayRun, InOrder, QueueOfCalls
  <2>7. call' = [call EXCEPT ![c] = "begin"] /\ call \in [Co -> {"new", "queued", "begin",
             "asleep", "reply", "after", "done", "raised"}]
    BY <1>1, <1>3 DEF Goto, DbTypes
  <2>8. Under = {} /\ Under' = {c} /\ (queued => Active' = {c})
    BY <2>6, <2>7 DEF Under, Active
  <2>9. OneUnder'
    BY <2>8 DEF OneUnder
  <2>10. QueueOfCalls'
    <3>1. OnceIn(fns') /\ \A d \in Co : Has(fns', d) => call'[d] = "queued"
      BY <1>1, <1>3, <2>6, <2>7 DEF InOrder, QueueOfCalls
    <3>2. queued' => (\A d, e \in Active' : d = e) /\ (idle' => Active' = {})
      BY <1>2, <1>3, <2>8
    <3>3. ~queued' => fns' = << >> /\ idle'
      BY <1>2, <1>3, <2>6 DEF InOrder, QueueOfCalls
    <3> QED BY <3>1, <3>2, <3>3 DEF QueueOfCalls
  <2>11. OneWaits'
    BY <1>1, <1>2, <2>1, <2>2, <2>3, <2>6, <2>7 DEF InOrder, OneWaits, readVars, DbTypes
  <2>12. StreamOfCall'
    BY <1>1, <1>2, <2>6, <2>7 DEF InOrder, StreamOfCall, RestOfReply, Held, readVars
  <2>13. GotItsOwn'
    BY <1>1, <1>2, <2>6, <2>7 DEF InOrder, GotItsOwn, readVars
  <2>14. PipeOfOne'
    BY <1>1, <1>2, <2>6, <2>7 DEF InOrder, PipeOfOne
  <2> QED BY <2>9, <2>10, <2>11, <2>12, <2>13, <2>14 DEF InOrder
<1>4. CASE /\ ~MayRun /\ fns' = Append(fns, c) /\ Goto(c, "queued")
           /\ UNCHANGED <<chain, idle, overlapped>>
  <2>1. PICK q : q = fns
    OBVIOUS
  <2>2. q \in Seq(Co) /\ fns' = Append(q, c)
    BY <1>1, <1>4, <2>1 DEF DbTypes
  <2>3. /\ Append(q, c) \in Seq(Co) /\ (\A d : Has(Append(q, c), d) <=> Has(q, d) \/ d = c)
        /\ (OnceIn(q) /\ ~Has(q, c) => OnceIn(Append(q, c)))
    BY <2>2, Pushed
  <2>4. DbTypes'
    BY <1>1, <1>2, <1>4, <2>2, <2>3 DEF DbTypes, readVars, Goto
  <2>5. SUFFICES ASSUME ~overlapped', ~shared', ~abandoned' PROVE InOrder'
    BY <1>2, <1>4, <2>4 DEF DbInv
  <2>6. InOrder /\ queued /\ ~idle
    BY <1>2, <1>4, <2>5 DEF DbInv, MayRun
  <2>7. call' = [call EXCEPT ![c] = "queued"] /\ call \in [Co -> {"new", "queued", "begin",
             "asleep", "reply", "after", "done", "raised"}]
    BY <1>1, <1>4 DEF Goto, DbTypes
  <2>8. Under' = Under /\ Active' = Active
    BY <1>1, <2>7 DEF Under, Active
  <2>9. OneUnder'
    BY <2>6, <2>8 DEF InOrder, OneUnder
  <2>10. QueueOfCalls'
    BY <1>1, <1>2, <1>4, <2>1, <2>2, <2>3, <2>6, <2>7, <2>8 DEF InOrder, QueueOfCalls
  <2>11. OneWaits'
    BY <1>1, <1>2, <1>4, <2>6, <2>7 DEF InOrder, OneWaits, readVars, DbTypes
  <2>12. StreamOfCall'
    BY <1>1, <1>2, <2>6, <2>7 DEF InOrder, StreamOfCall, RestOfReply, Held, readVars
  <2>13. GotItsOwn'
    BY <1>1, <1>2, <2>6, <2>7 DEF InOrder, GotItsOwn, readVars
  <2>14. PipeOfOne'
    BY <1>1, <1>2, <2>6, <2>7 DEF InOrder, PipeOfOne
  <2> QED BY <2>9, <2>10, <2>11, <2>12, <2>13, <2>14 DEF InOrder
<1> QED BY <1>3, <1>4 DEF Begin

LEMMA AddToPipelineOk == ASSUME DbInv, NEW c \in Co, AddToPipeline(c) PROVE DbInv'
<1>1. DbTypes /\ call[c] = "begin" /\ ppcnt # NoPipe /\ overlapped' = overlapped
      /\ shared' = shared /\ abandoned' = abandoned /\ queued' = queued
  BY DEF DbInv, AddToPipeline, Runs, historyVars, StayOfCall
<1>2. overlapped \/ shared \/ abandoned
  <2> SUFFICES ASSUME InOrder PROVE FALSE
    BY DEF DbInv
  <2>1. PICK d \in Co : call[d] = "asleep"
    BY <1>1 DEF InOrder, PipeOfOne
  <2> QED BY <1>1, <2>1 DEF InOrder, OneUnder, Under
<1>3. DbTypes'
  <2>1. Append(batch, c) \in Seq(Co \union {Other}) /\ ppcnt + 1 \in Int
    BY <1>1 DEF DbTypes
  <2> QED BY <1>1, <2>1 DEF DbTypes, AddToPipeline, Goto, StayOfCall, historyVars
<1> QED BY <1>1, <1>2, <1>3 DEF DbInv

LEMMA RefuseOk == ASSUME DbInv, ~crossed, NEW c \in Co, Refuse(c) PROVE DbInv'
<1>1. DbTypes /\ call[c] = "begin" /\ Top = c /\ call' = [call EXCEPT ![c] = "after"]
      /\ call \in [Co -> {"new", "queued", "begin", "asleep", "reply", "after", "done", "raised"}]
  BY DEF DbInv, Refuse, Runs, Goto, DbTypes
<1>2. UNCHANGED <<StayOfCall, kind, chain, got, inbuf, closed, idle, fns, left, ppcnt, batch,
                  coming, historyVars>>
  BY DEF Refuse
<1>3. DbTypes'
  BY <1>1, <1>2 DEF DbTypes, StayOfCall, historyVars
<1>4. SUFFICES ASSUME ~overlapped, ~shared, ~abandoned PROVE InOrder'
  BY <1>2, <1>3 DEF DbInv, StayOfCall, historyVars
<1>5. InOrder
  BY <1>4 DEF DbInv
<1>6. Under' \subseteq Under /\ Active' = Active
  BY <1>1 DEF Under, Active
<1>7. OneUnder' /\ QueueOfCalls'
  BY <1>1, <1>2, <1>5, <1>6 DEF InOrder, OneUnder, QueueOfCalls, StayOfCall
<1>8. OneWaits'
  BY <1>1, <1>2, <1>5 DEF InOrder, OneWaits, StayOfCall, DbTypes
<1>9. StreamOfCall'
  BY <1>1, <1>2, <1>5 DEF InOrder, StreamOfCall, RestOfReply, Held
<1>10. GotItsOwn'
  BY <1>1, <1>2, <1>5 DEF InOrder, GotItsOwn
<1>11. PipeOfOne'
  BY <1>1, <1>2, <1>5 DEF InOrder, PipeOfOne
<1> QED BY <1>7, <1>8, <1>9, <1>10, <1>11 DEF InOrder

LEMMA SendCmdOk == ASSUME DbInv, ~crossed, NEW c \in Co, SendCmd(c) PROVE DbInv'
<1> DEFINE r == IF kind[c] = "line" THEN <<c>> ELSE <<c, c>>
<1>1. DbTypes /\ call[c] = "begin" /\ Top = c /\ call' = [call EXCEPT ![c] = "reply"]
      /\ call \in [Co -> {"new", "queued", "begin", "asleep", "reply", "after", "done", "raised"}]
  BY DEF DbInv, SendCmd, Runs, Goto, DbTypes
<1>2. UNCHANGED <<StayOfCall, kind, chain, got, inbuf, closed, idle, fns, connAlive, ppcnt, batch,
                   historyVars>>
  BY DEF SendCmd
<1>3. r \in Seq(Co \union {Other}) /\ Len(r) = Pieces(kind[c]) /\ (\A d : Has(r, d) => d = c)
  <2>1. CASE kind[c] = "line"
    BY <2>1 DEF Pieces, Has
  <2>2. CASE kind[c] # "line"
    <3>1. <<c, c>> \in Seq(Co \union {Other}) /\ Len(<<c, c>>) = 2
      OBVIOUS
    <3>2. \A d : Has(<<c, c>>, d) => d = c
      BY DEF Has
    <3> QED BY <2>2, <3>1, <3>2 DEF Pieces
  <2> QED BY <2>1, <2>2
<1> HIDE DEF r
<1>4. coming' = (IF closed THEN coming ELSE coming \o r)
      /\ left' = [left EXCEPT ![c] = Pieces(kind[c])]
  BY DEF SendCmd, Sends, r
<1>5. coming' \in Seq(Co \union {Other})
  BY <1>1, <1>3, <1>4 DEF DbTypes
<1>6. DbTypes'
  BY <1>1, <1>2, <1>4, <1>5 DEF DbTypes, StayOfCall, historyVars, Pieces
<1>7. SUFFICES ASSUME ~overlapped, ~shared, ~abandoned PROVE InOrder'
  BY <1>2, <1>6 DEF DbInv, StayOfCall, historyVars
<1>8. InOrder
  BY <1>7 DEF DbInv
<1>9. Under' = Under /\ Active' = Active /\ c \in Under
  BY <1>1 DEF Under, Active
<1>10. OneUnder' /\ QueueOfCalls'
  BY <1>1, <1>2, <1>8, <1>9 DEF InOrder, OneUnder, QueueOfCalls, StayOfCall
<1>11. OneWaits'
  BY <1>1, <1>2, <1>8 DEF InOrder, OneWaits, StayOfCall, DbTypes
<1>12. \A d \in Co : d # c => call[d] # "reply"
  BY <1>1, <1>8, <1>9 DEF InOrder, OneUnder, Under
<1>13. inbuf = << >> /\ coming = << >> /\ got[c] = None
  BY <1>1, <1>8, <1>12 DEF InOrder, StreamOfCall, GotItsOwn
<1>14. StreamOfCall'
  <2>1. coming' = << >> \/ coming' = r
    BY <1>3, <1>4, <1>13
  <2>2. Len(coming') <= Pieces(kind[c]) /\ \A d : Has(coming', d) => d = c
    <3>1. Pieces(kind[c]) \in {1, 2}
      BY DEF Pieces
    <3>2. CASE coming' = << >>
      BY <3>1, <3>2 DEF Has
    <3>3. CASE coming' = r
      BY <3>1, <3>3, <1>3
    <3> QED BY <2>1, <3>2, <3>3
  <2>3. inbuf' = << >> /\ got'[c] = None /\ left'[c] = Pieces(kind[c]) /\ None # c
        /\ Len(coming') \in Nat
    BY <1>1, <1>2, <1>4, <1>5, <1>13, NumbersOfCalls DEF DbTypes
  <2>4. RestOfReply(c)'
    BY <2>2, <2>3 DEF RestOfReply, Held, Has
  <2>5. closed' => coming' = << >>
    BY <1>2, <1>4, <1>13
  <2> QED BY <1>1, <1>12, <2>4, <2>5 DEF StreamOfCall
<1>15. GotItsOwn'
  BY <1>1, <1>2, <1>8 DEF InOrder, GotItsOwn
<1>16. PipeOfOne'
  BY <1>1, <1>2, <1>8 DEF InOrder, PipeOfOne
<1> QED BY <1>10, <1>11, <1>14, <1>15, <1>16 DEF InOrder

LEMMA PipelineOk == ASSUME DbInv, ~crossed, NEW c \in Co, Pipeline(c) PROVE DbInv'
<1>1. DbTypes /\ call[c] = "begin" /\ Top = c /\ call' = [call EXCEPT ![c] = "asleep"]
      /\ call \in [Co -> {"new", "queued", "begin", "asleep", "reply", "after", "done", "raised"}]
      /\ ppcnt = NoPipe
  BY DEF DbInv, Pipeline, Runs, Goto, DbTypes
<1>2. UNCHANGED <<StayOfCall, kind, got, inbuf, closed, idle, fns, left, connAlive, coming,
                   historyVars>>
      /\ ppcnt' = 1 /\ batch' = <<c>> /\ chain' = Yields
  BY DEF Pipeline
<1>3. DbTypes'
  <2>1. <<c>> \in Seq(Co \union {Other}) /\ Yields \in Seq(Co)
    BY <1>1 DEF DbTypes, Yields
  <2> QED BY <1>1, <1>2, <2>1 DEF DbTypes, StayOfCall, historyVars
<1>4. SUFFICES ASSUME ~overlapped, ~shared, ~abandoned PROVE InOrder'
  BY <1>2, <1>3 DEF DbInv, StayOfCall, historyVars
<1>5. InOrder
  BY <1>4 DEF DbInv
<1>6. Under' = Under /\ Active' = Active /\ c \in Under
  BY <1>1 DEF Under, Active
<1>7. OneUnder' /\ QueueOfCalls'
  BY <1>1, <1>2, <1>5, <1>6 DEF InOrder, OneUnder, QueueOfCalls, StayOfCall
<1>8. OnceIn(Yields) /\ \A d : Has(Yields, d) <=> Has(chain, d) /\ d # c
  BY <1>1, <1>5, RunningOne
<1>9. OneWaits'
  BY <1>1, <1>2, <1>5, <1>8 DEF InOrder, OneWaits, StayOfCall, DbTypes
<1>10. StreamOfCall'
  BY <1>1, <1>2, <1>5 DEF InOrder, StreamOfCall, RestOfReply, Held
<1>11. GotItsOwn'
  BY <1>1, <1>2, <1>5 DEF InOrder, GotItsOwn
<1>12. PipeOfOne'
  BY <1>1, <1>2, <1>5, <1>6 DEF InOrder, PipeOfOne, OneUnder, Under
<1> QED BY <1>7, <1>9, <1>10, <1>11, <1>12 DEF InOrder

LEMMA OtherSendsOk == ASSUME DbInv, OtherSends PROVE DbInv'
<1>1. shared' = TRUE /\ batch' = <<Other>>
      /\ UNCHANGED <<sockVars, queueVars, call, kind, left, connAlive, ppcnt, coming, overlapped,
                     abandoned, crossed>>
  BY DEF OtherSends
<1>2. <<Other>> \in Seq(Co \union {Other})
  OBVIOUS
<1> QED BY <1>1, <1>2 DEF DbInv, DbTypes, sockVars, readVars, queueVars

LEMMA SyncOk == ASSUME DbInv, ~crossed, NEW c \in Co, Sync(c) PROVE DbInv'
<1>1. DbTypes /\ call[c] = "asleep" /\ chain = << >> /\ chain' = <<c>> /\ ppcnt' = NoPipe
      /\ call \in [Co -> {"new", "queued", "begin", "asleep", "reply", "after", "done", "raised"}]
      /\ batch' = << >>
  BY DEF DbInv, Sync, Idle, DbTypes
<1>2. UNCHANGED <<StayOfCall, kind, got, inbuf, closed, idle, fns, historyVars>>
  BY DEF Sync
<1>3. <<c>> \in Seq(Co) /\ OnceIn(<<c>>) /\ (\A d : Has(<<c>>, d) <=> d = c)
      /\ NoPipe \in Int /\ << >> \in Seq(Co \union {Other})
  BY DEF OnceIn, Has, NoPipe
<1>4. CASE /\ Sends(Append(batch, c)) /\ left' = [left EXCEPT ![c] = ppcnt + 1]
           /\ Goto(c, "reply") /\ UNCHANGED connAlive
  <2>1. /\ call' = [call EXCEPT ![c] = "reply"] /\ left' = [left EXCEPT ![c] = ppcnt + 1]
        /\ coming' = IF closed THEN coming ELSE coming \o Append(batch, c)
    BY <1>4 DEF Goto, Sends
  <2>2. Append(batch, c) \in Seq(Co \union {Other})
    BY <1>1 DEF DbTypes
  <2>3. coming' \in Seq(Co \union {Other}) /\ ppcnt + 1 \in Int
    BY <1>1, <2>1, <2>2 DEF DbTypes
  <2>4. DbTypes'
    BY <1>1, <1>2, <1>3, <2>1, <2>3 DEF DbTypes, StayOfCall, historyVars
  <2>5. SUFFICES ASSUME ~overlapped, ~shared, ~abandoned PROVE InOrder'
    BY <1>2, <2>4 DEF DbInv, StayOfCall, historyVars
  <2>6. InOrder
    BY <2>5 DEF DbInv
  <2>7. Under' = Under /\ Active' = Active /\ c \in Under
    BY <1>1, <2>1 DEF Under, Active
  <2>8. OneUnder' /\ QueueOfCalls'
    BY <1>1, <1>2, <2>1, <2>6, <2>7 DEF InOrder, OneUnder, QueueOfCalls, StayOfCall
  <2>9. tbRdWait # c /\ OneWaits'
    BY <1>1, <1>2, <1>3, <2>1, <2>6, <2>7, NumbersOfCalls
       DEF InOrder, OneWaits, OneUnder, Under, StayOfCall, DbTypes
  <2>10. \A d \in Co : d # c => call[d] \notin {"reply", "asleep"}
    BY <1>1, <2>6, <2>7 DEF InOrder, OneUnder, Under
  <2>11. inbuf = << >> /\ coming = << >> /\ got[c] = None /\ batch = <<c>> /\ ppcnt = 1
    BY <1>1, <2>6, <2>10 DEF InOrder, StreamOfCall, GotItsOwn, PipeOfOne
  <2>12. StreamOfCall'
    <3>1. PICK r : r = Append(<<c>>, c)
      OBVIOUS
    <3>2. Len(r) = 2 /\ r \in Seq(Co) /\ \A d : Has(r, d) => d = c
      <4>1. PICK q : q = <<c>>
        OBVIOUS
      <4>2. Len(q) = 1 /\ q \in Seq(Co) /\ \A d : Has(q, d) <=> d = c
        BY <1>3, <4>1
      <4>3. /\ Append(q, c) \in Seq(Co) /\ Len(Append(q, c)) = Len(q) + 1
            /\ \A d : Has(Append(q, c), d) <=> Has(q, d) \/ d = c
        BY <4>2, Pushed
      <4> QED BY <3>1, <4>1, <4>2, <4>3
    <3>4. coming' = << >> \/ coming' = r
      BY <2>1, <2>11, <3>1, <3>2
    <3>5. Len(coming') <= 2 /\ Len(coming') \in Nat /\ \A d : Has(coming', d) => d = c
      <4>1. CASE coming' = << >>
        BY <4>1 DEF Has
      <4>2. CASE coming' = r
        BY <4>2, <3>2
      <4> QED BY <3>4, <4>1, <4>2
    <3>6. inbuf' = << >> /\ got'[c] = None /\ left'[c] = 2 /\ None # c
      BY <1>1, <1>2, <2>1, <2>11, NumbersOfCalls DEF DbTypes
    <3>7. RestOfReply(c)'
      BY <3>5, <3>6 DEF RestOfReply, Held, Has
    <3>8. closed' => coming' = << >>
      BY <1>2, <2>1, <2>11
    <3> QED BY <1>1, <2>1, <2>10, <3>7, <3>8 DEF StreamOfCall
  <2>13. GotItsOwn'
    BY <1>1, <1>2, <2>1, <2>6 DEF InOrder, GotItsOwn
  <2>14. PipeOfOne'
    BY <1>1, <2>1, <2>10 DEF PipeOfOne
  <2> QED BY <2>8, <2>9, <2>12, <2>13, <2>14 DEF InOrder
<1>5. CASE closed /\ connAlive' = FALSE /\ Goto(c, "after") /\ UNCHANGED <<left, coming>>
  <2>1. call' = [call EXCEPT ![c] = "after"] /\ UNCHANGED <<left, coming>>
    BY <1>5 DEF Goto
  <2>2. DbTypes'
    BY <1>1, <1>2, <1>3, <2>1 DEF DbTypes, StayOfCall, historyVars
  <2>3. SUFFICES ASSUME ~overlapped, ~shared, ~abandoned PROVE InOrder'
    BY <1>2, <2>2 DEF DbInv, StayOfCall, historyVars
  <2>4. InOrder
    BY <2>3 DEF DbInv
  <2>5. Under' \subseteq Under /\ Active' = Active /\ c \in Under
    BY <1>1, <2>1 DEF Under, Active
  <2>6. OneUnder' /\ QueueOfCalls'
    BY <1>1, <1>2, <2>1, <2>4, <2>5 DEF InOrder, OneUnder, QueueOfCalls, StayOfCall
  <2>7. OneWaits'
    BY <1>1, <1>2, <1>3, <2>1, <2>4, NumbersOfCalls DEF InOrder, OneWaits, StayOfCall, DbTypes
  <2>8. StreamOfCall'
    BY <1>1, <1>2, <2>1, <2>4 DEF InOrder, StreamOfCall, RestOfReply, Held
  <2>9. GotItsOwn'
    BY <1>1, <1>2, <2>1, <2>4 DEF InOrder, GotItsOwn
  <2>10. PipeOfOne'
    BY <1>1, <2>1, <2>4, <2>5 DEF InOrder, PipeOfOne, OneUnder, Under
  <2> QED BY <2>6, <2>7, <2>8, <2>9, <2>10 DEF InOrder
<1> QED BY <1>4, <1>5 DEF Sync

LEMMA TakePieceOk == ASSUME DbInv, ~crossed, NEW c \in Co, TakePiece(c) PROVE DbInv'
<1>1. DbTypes /\ call[c] = "reply" /\ Top = c /\ got[c] \in Co \union {Other}
      /\ call \in [Co -> {"new", "queued", "begin", "asleep", "reply", "after", "done", "raised"}]
      /\ got' = [got EXCEPT ![c] = None] /\ left' = [left EXCEPT ![c] = @ - 1]
      /\ crossed' = (got[c] # c)
  BY DEF DbInv, TakePiece, Runs, DbTypes
<1>2. UNCHANGED <<StayOfCall, kind, chain, inbuf, closed, idle, fns, connAlive, ppcnt, batch,
                  coming, overlapped, shared>>
  BY DEF TakePiece
<1>3. \/ left[c] = 1 /\ call' = [call EXCEPT ![c] = "after"] /\ abandoned' = abandoned
      \/ left[c] > 1 /\ UNCHANGED <<call, abandoned>>
      \/ call' = [call EXCEPT ![c] = "after"] /\ abandoned' = TRUE
  BY DEF TakePiece, Goto
<1>4. DbTypes'
  <2>1. call' \in [Co -> {"new", "queued", "begin", "asleep", "reply", "after", "done", "raised"}]
        /\ abandoned' \in BOOLEAN
    BY <1>1, <1>3 DEF DbTypes
  <2>2. left' \in [Co -> Int] /\ got' \in [Co -> Co \union {None, Gone, Error, Other}]
    BY <1>1 DEF DbTypes
  <2>3. crossed' \in BOOLEAN
    BY <1>1
  <2> QED BY <1>1, <1>2, <2>1, <2>2, <2>3 DEF DbTypes, StayOfCall
<1>5. SUFFICES ASSUME ~overlapped, ~shared, ~abandoned' PROVE InOrder' /\ ~crossed'
  BY <1>2, <1>4 DEF DbInv, StayOfCall
<1>6. InOrder /\ ~abandoned
  BY <1>1, <1>3, <1>5 DEF DbInv, DbTypes
<1>7. got[c] = c /\ ~crossed'
  <2>1. got[c] \in {None, Gone, c}
    BY <1>6 DEF InOrder, GotItsOwn
  <2>2. got[c] # None /\ got[c] # Gone
    BY <1>1, NumbersOfCalls DEF Other, None, Gone
  <2> QED BY <1>1, <2>1, <2>2
<1>8. Under' \subseteq Under /\ Active' = Active /\ c \in Under
  BY <1>1, <1>3 DEF Under, Active
<1>9. OneUnder'
  BY <1>6, <1>8 DEF InOrder, OneUnder
<1>10. QueueOfCalls'
  <2>1. \A d \in Co : call[d] = "queued" => call'[d] = "queued"
    BY <1>1, <1>3
  <2> QED BY <2>1, <1>2, <1>6, <1>8 DEF InOrder, QueueOfCalls, StayOfCall
<1>11. OneWaits'
  <2>1. tbRdWait # c
    BY <1>1, <1>6, RunningOne
  <2>2. \A d \in Co : d # c => call'[d] = call[d] /\ got'[d] = got[d]
    BY <1>1, <1>3 DEF DbTypes
  <2>3. call'[c] \in {"reply", "after"}
    BY <1>1, <1>3
  <2>4. /\ OnceIn(chain)' /\ qrd' = << >> /\ (rdwt' => tbRdWait' # None)
        /\ tbRdWait' = tbRdWait /\ chain' = chain
    BY <1>2, <1>6 DEF InOrder, OneWaits, StayOfCall
  <2>5. \A d \in Co : Has(chain, d)' => call'[d] \in {"begin", "reply", "after"}
    BY <2>2, <2>3, <2>4, <1>6 DEF InOrder, OneWaits, Has
  <2>6. tbRdWait' # None => call'[tbRdWait'] = "reply" /\ got'[tbRdWait'] = None
                              /\ ~Has(chain, tbRdWait)'
    <3>1. PICK w : w = tbRdWait
      OBVIOUS
    <3>2. w \in Co \union {None} /\ w # c
      BY <1>1, <2>1, <3>1 DEF DbTypes
    <3>3. w # None => call[w] = "reply" /\ got[w] = None /\ ~Has(chain, w)
      BY <3>1, <1>6 DEF InOrder, OneWaits
    <3>4. w # None => call'[w] = "reply" /\ got'[w] = None
      BY <2>2, <3>2, <3>3
    <3>5. w # None => ~Has(chain', w)
      BY <2>4, <3>3
    <3> QED BY <2>4, <3>1, <3>4, <3>5 DEF Has
  <2> QED BY <2>4, <2>5, <2>6 DEF OneWaits
<1>12. /\ RestOfReply(c) /\ Held(c) = 1
       /\ \A d \in Co : d # c => call[d] # "reply" /\ call'[d] # "reply"
  BY <1>1, <1>3, <1>6, <1>7, <1>8 DEF InOrder, StreamOfCall, Held, OneUnder, Under
<1>13. Len(inbuf) \in Nat /\ Len(coming) \in Nat /\ left[c] \in Int /\ left'[c] = left[c] - 1
       /\ inbuf \in Seq(Co \union {Other}) /\ coming \in Seq(Co \union {Other})
  BY <1>1 DEF DbTypes
<1>14. StreamOfCall'
  <2>1. Held(c)' = 0
    BY <1>1, NumbersOfCalls DEF Held, DbTypes
  <2>2. RestOfReply(c)'
    BY <2>1, <1>2, <1>12, <1>13 DEF RestOfReply
  <2>3. CASE left[c] = 1
    <3>1. Len(inbuf) = 0 /\ Len(coming) = 0
      BY <2>3, <1>12, <1>13 DEF RestOfReply
    <3>2. inbuf' = << >> /\ coming' = << >>
      BY <3>1, <1>2, <1>13
    <3> QED BY <3>2, <2>2, <1>12 DEF StreamOfCall
  <2>4. CASE left[c] # 1
    <3>1. call'[c] = "reply"
      BY <2>4, <1>1, <1>3, <1>5
    <3> QED BY <3>1, <2>2, <1>2, <1>6, <1>12 DEF StreamOfCall, InOrder
  <2> QED BY <2>3, <2>4
<1>15. GotItsOwn'
  <2>1. \A d \in Co : d # c => call'[d] = call[d] /\ got'[d] = got[d]
    BY <1>1, <1>3 DEF DbTypes
  <2>2. got'[c] = None
    BY <1>1 DEF DbTypes
  <2> QED BY <2>1, <2>2, <1>2, <1>6 DEF InOrder, GotItsOwn, None, Gone
<1>16. PipeOfOne'
  BY <1>1, <1>2, <1>3, <1>6 DEF InOrder, PipeOfOne
<1> QED BY <1>7, <1>9, <1>10, <1>11, <1>14, <1>15, <1>16 DEF InOrder

LEMMA TakeGoneOk == ASSUME DbInv, ~crossed, NEW c \in Co, TakeGone(c) PROVE DbInv'
<1>1. DbTypes /\ call[c] = "reply" /\ Top = c /\ got[c] = Gone
      /\ call \in [Co -> {"new", "queued", "begin", "asleep", "reply", "after", "done", "raised"}]
      /\ got' = [got EXCEPT ![c] = None] /\ call' = [call EXCEPT ![c] = "after"]
  BY DEF DbInv, TakeGone, Runs, DbTypes, Goto
<1>2. UNCHANGED <<StayOfCall, kind, chain, inbuf, closed, idle, fns, left, ppcnt, batch, coming,
                   historyVars>>
  BY DEF TakeGone
<1>3. DbTypes'
  BY <1>1, <1>2 DEF DbTypes, StayOfCall, historyVars
<1>4. SUFFICES ASSUME ~overlapped, ~shared, ~abandoned PROVE InOrder'
  BY <1>2, <1>3 DEF DbInv, StayOfCall, historyVars
<1>5. InOrder
  BY <1>4 DEF DbInv
<1>6. Under' \subseteq Under /\ Active' = Active /\ c \in Under
  BY <1>1 DEF Under, Active
<1>7. OneUnder' /\ QueueOfCalls'
  BY <1>1, <1>2, <1>5, <1>6 DEF InOrder, OneUnder, QueueOfCalls, StayOfCall
<1>8. OneWaits'
  <2>1. tbRdWait # c
    BY <1>1, <1>5, RunningOne
  <2> QED BY <2>1, <1>1, <1>2, <1>5, NumbersOfCalls DEF InOrder, OneWaits, StayOfCall, DbTypes
<1>9. inbuf = << >> /\ coming = << >>
  BY <1>1, <1>5, NumbersOfCalls DEF InOrder, GotItsOwn, StreamOfCall, None, Gone
<1>10. StreamOfCall'
  <2>1. \A d \in Co : call'[d] # "reply"
    BY <1>1, <1>5, <1>6 DEF InOrder, OneUnder, Under
  <2> QED BY <2>1, <1>2, <1>9 DEF StreamOfCall
<1>11. GotItsOwn'
  BY <1>1, <1>2, <1>5 DEF InOrder, GotItsOwn, DbTypes, None, Gone
<1>12. PipeOfOne'
  BY <1>1, <1>2, <1>5 DEF InOrder, PipeOfOne
<1> QED BY <1>7, <1>8, <1>10, <1>11, <1>12 DEF InOrder

(* What a read finds is of the types, and belongs to the call that reads.  *)
LEMMA GetsTypes ==
    ASSUME DbTypes, NEW c \in Co, Gets(c)
    PROVE  /\ got' \in [Co -> Co \union {None, Gone, Error, Other}]
           /\ inbuf' \in Seq(Co \union {Other})
           /\ \A d \in Co : d # c => got'[d] = got[d]
<1>1. CASE inbuf # << >> /\ got' = [got EXCEPT ![c] = Head(inbuf)] /\ inbuf' = Tail(inbuf)
  <2>1. Head(inbuf) \in Co \union {Other} /\ Tail(inbuf) \in Seq(Co \union {Other})
    BY <1>1 DEF DbTypes
  <2> QED BY <1>1, <2>1 DEF DbTypes
<1>2. CASE inbuf = << >> /\ closed /\ got' = [got EXCEPT ![c] = Gone] /\ UNCHANGED inbuf
  BY <1>2 DEF DbTypes
<1> QED BY <1>1, <1>2 DEF Gets

LEMMA GetsOwn ==
    ASSUME DbTypes, InOrder, NEW c \in Co, Gets(c), call[c] = "reply", got[c] = None,
           UNCHANGED <<call, left, coming, closed>>
    PROVE  StreamOfCall' /\ GotItsOwn'
<1>1. c \in Under /\ \A d \in Co : d # c => call[d] # "reply" /\ got[d] = None
  BY DEF InOrder, OneUnder, Under, GotItsOwn
<1>2. RestOfReply(c) /\ Held(c) = 0 /\ (closed => coming = << >>)
  BY NumbersOfCalls DEF InOrder, StreamOfCall, Held
<1>3. \A d \in Co : d # c => call'[d] # "reply" /\ got'[d] = None
  BY <1>1, GetsTypes
<1>4. CASE inbuf # << >> /\ got' = [got EXCEPT ![c] = Head(inbuf)] /\ inbuf' = Tail(inbuf)
  <2>1. PICK q : q = inbuf
    OBVIOUS
  <2>2. q \in Seq(Co \union {Other}) /\ q # << >>
    BY <1>4, <2>1 DEF DbTypes
  <2>3. /\ Len(Tail(q)) = Len(q) - 1 /\ Len(q) \in Nat /\ Has(q, Head(q))
        /\ \A d : Has(Tail(q), d) => Has(q, d)
    <3>1. /\ Len(Tail(q)) = Len(q) - 1 /\ Len(q) \in Nat \ {0} /\ Head(q) = q[1]
          /\ \A i \in 1 .. Len(q) - 1 : Tail(q)[i] = q[i + 1]
      BY <2>2
    <3> QED BY <3>1 DEF Has
  <2>4. Head(q) = c /\ \A d : Has(Tail(q), d) => d = c
    BY <1>2, <2>1, <2>3 DEF RestOfReply
  <2>5. got'[c] = c /\ inbuf' = Tail(q)
    BY <1>4, <2>1, <2>4 DEF DbTypes
  <2>6. Held(c)' = 1 /\ Len(coming) \in Nat /\ left[c] \in Int
    BY <2>5 DEF Held, DbTypes
  <2>7. Len(inbuf') + Len(coming') + Held(c)' <= left'[c]
    BY <1>2, <2>1, <2>3, <2>5, <2>6 DEF RestOfReply
  <2>8. \A d : Has(inbuf', d) \/ Has(coming', d) => d = c
    BY <1>2, <2>4, <2>5 DEF RestOfReply
  <2>9. RestOfReply(c)'
    BY <2>7, <2>8 DEF RestOfReply, Has
  <2>10. StreamOfCall'
    BY <1>2, <1>3, <2>9 DEF StreamOfCall
  <2>11. GotItsOwn'
    BY <1>3, <2>5, NumbersOfCalls DEF GotItsOwn, None, Gone
  <2> QED BY <2>10, <2>11
<1>5. CASE inbuf = << >> /\ closed /\ got' = [got EXCEPT ![c] = Gone] /\ UNCHANGED inbuf
  <2>1. got'[c] = Gone /\ inbuf' = << >>
    BY <1>5 DEF DbTypes
  <2>2. Held(c)' = 0
    BY <2>1, NumbersOfCalls DEF Held
  <2>3. RestOfReply(c)'
    BY <1>2, <1>5, <2>2 DEF RestOfReply
  <2>4. StreamOfCall'
    BY <1>2, <1>3, <2>3 DEF StreamOfCall
  <2>5. GotItsOwn'
    BY <1>3, <1>5, <2>1 DEF GotItsOwn, None, Gone
  <2> QED BY <2>4, <2>5
<1> QED BY <1>4, <1>5 DEF Gets

LEMMA ReadPieceOk == ASSUME DbInv, ~crossed, NEW c \in Co, ReadPiece(c) PROVE DbInv'
<1>1. DbTypes /\ call[c] = "reply" /\ Top = c /\ got[c] = None
  BY DEF DbInv, ReadPiece, Runs
<1>2. UNCHANGED <<queueVars, call, kind, left, connAlive, ppcnt, batch, coming, historyVars,
                  handler, closed>>
  BY DEF ReadPiece, Read
<1>3. Yields \in Seq(Co)
  BY <1>1, NumbersOfCalls DEF DbTypes, Yields, Top
<1>4. ReadQueues(c) \/ ReadRefused(c) \/ ReadNow(c) \/ ReadWaits(c)
  BY DEF ReadPiece, Read
<1>5. DbTypes'
  <2>1. CASE ReadQueues(c)
    <3>1. Append(qrd, c) \in Seq(Co)
      BY <1>1 DEF DbTypes
    <3> QED BY <1>1, <1>2, <1>3, <2>1, <3>1 DEF DbTypes, ReadQueues, queueVars, historyVars
  <2>2. CASE ReadRefused(c)
    BY <1>1, <1>2, <2>2 DEF DbTypes, ReadRefused, queueVars, historyVars
  <2>3. CASE ReadNow(c)
    <3>1. Gets(c) /\ UNCHANGED <<chain, rdwt, qrd, tbRdWait, forgotten>>
      BY <2>3 DEF ReadNow
    <3>2. got' \in [Co -> Co \union {None, Gone, Error, Other}] /\ inbuf' \in Seq(Co \union {Other})
      BY <1>1, <3>1, GetsTypes
    <3> QED BY <1>1, <1>2, <3>1, <3>2 DEF DbTypes, queueVars, historyVars
  <2>4. CASE ReadWaits(c)
    BY <1>1, <1>2, <1>3, <2>4 DEF DbTypes, ReadWaits, queueVars, historyVars
  <2> QED BY <1>4, <2>1, <2>2, <2>3, <2>4
<1>6. SUFFICES ASSUME ~overlapped, ~shared, ~abandoned PROVE InOrder'
  BY <1>2, <1>5 DEF DbInv, queueVars, historyVars
<1>7. InOrder
  BY <1>6 DEF DbInv
<1>8. tbRdWait = None /\ ~rdwt
  <2>1. tbRdWait # c /\ tbRdWait \in Co \union {None}
    BY <1>1, <1>7, RunningOne DEF DbTypes
  <2> QED BY <1>1, <1>7, <2>1 DEF InOrder, OneWaits, OneUnder, Under
<1>9. Under' = Under /\ Active' = Active
  BY <1>2 DEF Under, Active
<1>10. OneUnder' /\ QueueOfCalls' /\ PipeOfOne'
  BY <1>2, <1>7, <1>9 DEF InOrder, OneUnder, QueueOfCalls, PipeOfOne, queueVars
<1>11. CASE ReadNow(c)
  <2>1. Gets(c) /\ UNCHANGED <<chain, rdwt, qrd, tbRdWait, forgotten>>
    BY <1>11 DEF ReadNow
  <2>2. StreamOfCall' /\ GotItsOwn'
    BY <1>1, <1>2, <1>7, <2>1, GetsOwn
  <2>3. OneWaits'
    BY <1>2, <1>7, <1>8, <2>1 DEF InOrder, OneWaits
  <2> QED BY <1>10, <2>2, <2>3 DEF InOrder
<1>12. CASE ReadWaits(c)
  <2>1. rdwt' = TRUE /\ tbRdWait' = c /\ chain' = Yields /\ UNCHANGED <<qrd, got, inbuf, forgotten>>
    BY <1>12 DEF ReadWaits
  <2>2. StreamOfCall' /\ GotItsOwn'
    BY <1>2, <1>7, <2>1 DEF InOrder, StreamOfCall, GotItsOwn, RestOfReply, Held
  <2>3. OnceIn(Yields) /\ \A d : Has(Yields, d) <=> Has(chain, d) /\ d # c
    BY <1>1, <1>7, RunningOne
  <2>4. OneWaits'
    BY <1>1, <1>2, <1>7, <2>1, <2>3, NumbersOfCalls DEF InOrder, OneWaits
  <2> QED BY <1>10, <2>2, <2>4 DEF InOrder
<1> QED BY <1>4, <1>8, <1>11, <1>12 DEF ReadQueues, ReadRefused, Beside

LEMMA EndOk == ASSUME DbInv, ~crossed, NEW c \in Co, End(c) PROVE DbInv'
<1>1. DbTypes /\ call[c] = "after" /\ Top = c
      /\ call \in [Co -> {"new", "queued", "begin", "asleep", "reply", "after", "done", "raised"}]
      /\ left' = [left EXCEPT ![c] = 0]
  BY DEF DbInv, End, Runs, DbTypes, Forget
<1>2. UNCHANGED <<StayOfCall, got, inbuf, closed, connAlive, ppcnt, batch, coming, historyVars>>
  BY DEF End
<1>3. Yields \in Seq(Co)
  BY <1>1, NumbersOfCalls DEF DbTypes, Yields, Top
<1>4. CASE fns = << >> /\ Goto(c, "done") /\ chain' = Yields /\ idle' = TRUE /\ UNCHANGED fns
  <2>1. call' = [call EXCEPT ![c] = "done"]
    BY <1>4 DEF Goto
  <2>2. DbTypes'
    BY <1>1, <1>2, <1>3, <1>4, <2>1 DEF DbTypes, StayOfCall, historyVars
  <2>3. SUFFICES ASSUME ~overlapped, ~shared, ~abandoned PROVE InOrder'
    BY <1>2, <2>2 DEF DbInv, StayOfCall, historyVars
  <2>4. InOrder
    BY <2>3 DEF DbInv
  <2>5. Under' = Under /\ Active' = Active \ {c} /\ c \in Active
    BY <1>1, <2>1 DEF Under, Active
  <2>6. OneUnder' /\ QueueOfCalls'
    BY <1>1, <1>2, <1>4, <2>1, <2>4, <2>5 DEF InOrder, OneUnder, QueueOfCalls, StayOfCall
  <2>7. OnceIn(Yields) /\ tbRdWait # c /\ \A d : Has(Yields, d) <=> Has(chain, d) /\ d # c
    BY <1>1, <2>4, RunningOne
  <2>8. OneWaits'
    BY <1>1, <1>2, <1>4, <2>1, <2>4, <2>7 DEF InOrder, OneWaits, StayOfCall, DbTypes
  <2>9. StreamOfCall'
    BY <1>1, <1>2, <2>1, <2>4 DEF InOrder, StreamOfCall, RestOfReply, Held
  <2>10. GotItsOwn'
    BY <1>1, <1>2, <2>1, <2>4 DEF InOrder, GotItsOwn
  <2>11. PipeOfOne'
    BY <1>1, <1>2, <2>1, <2>4 DEF InOrder, PipeOfOne
  <2> QED BY <2>6, <2>8, <2>9, <2>10, <2>11 DEF InOrder
<1>5. CASE /\ fns # << >> /\ chain' = Append(Yields, Head(fns)) /\ fns' = Tail(fns)
           /\ call' = [call EXCEPT ![c] = "done", ![Head(fns)] = "begin"]
           /\ UNCHANGED idle
  <2>1. PICK f : f = fns
    OBVIOUS
  <2>2. PICK h : h = Head(f)
    OBVIOUS
  <2>3. f \in Seq(Co) /\ f # << >> /\ Tail(f) \in Seq(Co) /\ h \in Co
    BY <1>1, <1>5, <2>1, <2>2 DEF DbTypes
  <2>4. PICK y : y = Yields
    OBVIOUS
  <2>5. /\ Append(y, h) \in Seq(Co) /\ \A d : Has(Append(y, h), d) <=> Has(y, d) \/ d = h
        /\ OnceIn(y) /\ ~Has(y, h) => OnceIn(Append(y, h))
    BY <1>3, <2>3, <2>4, Pushed
  <2>6. /\ chain' = Append(y, h) /\ fns' = Tail(f) /\ idle' = idle
        /\ call' = [call EXCEPT ![c] = "done", ![h] = "begin"]
    BY <1>5, <2>1, <2>2, <2>4
  <2>7. DbTypes'
    <3>1. chain' \in Seq(Co) /\ fns' \in Seq(Co) /\ idle' = idle
      BY <2>3, <2>5, <2>6
    <3>2. call' \in [Co -> {"new", "queued", "begin", "asleep", "reply", "after", "done", "raised"}]
      BY <1>1, <2>3, <2>6
    <3>3. left' \in [Co -> Int]
      BY <1>1 DEF DbTypes
    <3> QED BY <1>1, <1>2, <3>1, <3>2, <3>3 DEF DbTypes, StayOfCall, historyVars
  <2>8. SUFFICES ASSUME ~overlapped, ~shared, ~abandoned PROVE InOrder'
    BY <1>2, <2>7 DEF DbInv, StayOfCall, historyVars
  <2>9. InOrder
    BY <2>8 DEF DbInv
  <2>10. /\ OnceIn(Tail(f)) /\ Has(f, h)
         /\ \A d : Has(Tail(f), d) <=> Has(f, d) /\ d # h
    BY <2>1, <2>2, <2>3, <2>9, Popped DEF InOrder, QueueOfCalls
  <2>11. call[h] = "queued" /\ queued = TRUE /\ h # c
    BY <1>1, <1>5, <2>1, <2>3, <2>9, <2>10 DEF InOrder, QueueOfCalls, DbTypes
  <2>12. Active = {c} /\ Under = {} /\ ~idle
    BY <1>1, <2>9, <2>11 DEF InOrder, QueueOfCalls, Active, Under
  <2>13. Active' = {h} /\ Under' = {h}
    BY <1>1, <2>3, <2>6, <2>11, <2>12 DEF Active, Under
  <2>14. OneUnder'
    BY <2>13 DEF OneUnder
  <2>15. QueueOfCalls'
    <3>1. fns' = Tail(f) /\ queued' = TRUE /\ ~idle'
      BY <1>2, <2>6, <2>11, <2>12 DEF StayOfCall
    <3>2. \A d \in Co : Has(f, d) /\ d # h => call'[d] = "queued"
      BY <1>1, <2>1, <2>6, <2>9 DEF InOrder, QueueOfCalls
    <3>3. OnceIn(fns)' /\ \A d \in Co : Has(fns, d)' => call'[d] = "queued"
      BY <2>10, <3>1, <3>2 DEF OnceIn, Has
    <3> QED BY <2>13, <3>1, <3>3 DEF QueueOfCalls
  <2>16. OnceIn(y) /\ tbRdWait # c /\ \A d : Has(y, d) <=> Has(chain, d) /\ d # c
    BY <1>1, <2>4, <2>9, RunningOne
  <2>17. ~Has(y, h) /\ tbRdWait = None
    BY <1>1, <2>3, <2>9, <2>11, <2>12, <2>16 DEF InOrder, OneWaits, Under, DbTypes
  <2>18. OneWaits'
    <3>1. OnceIn(chain)' /\ \A d : Has(chain, d)' <=> Has(y, d) \/ d = h
      BY <2>5, <2>6, <2>16, <2>17 DEF OnceIn, Has
    <3>2. \A d \in Co : Has(y, d) \/ d = h => call'[d] \in {"begin", "reply", "after"}
      BY <1>1, <2>3, <2>6, <2>9, <2>16 DEF InOrder, OneWaits
    <3>3. qrd' = << >> /\ tbRdWait' = None /\ ~rdwt'
      BY <1>2, <2>9, <2>17 DEF InOrder, OneWaits, StayOfCall, DbTypes
    <3> QED BY <3>1, <3>2, <3>3 DEF OneWaits
  <2>19. \A d \in Co : call'[d] = "reply" <=> call[d] = "reply"
    BY <1>1, <2>3, <2>6, <2>11
  <2>20. \A d \in Co : call[d] # "reply" /\ call'[d] # "reply"
    BY <2>12, <2>19 DEF Under
  <2>21. StreamOfCall'
    BY <1>2, <2>9, <2>20 DEF InOrder, StreamOfCall
  <2>22. GotItsOwn'
    BY <1>2, <2>9, <2>20 DEF InOrder, GotItsOwn
  <2>23. PipeOfOne'
    <3>1. \A d \in Co : call'[d] = "asleep" <=> call[d] = "asleep"
      BY <1>1, <2>3, <2>6, <2>11
    <3> QED BY <1>2, <2>9, <3>1 DEF InOrder, PipeOfOne
  <2> QED BY <2>14, <2>15, <2>18, <2>21, <2>22, <2>23 DEF InOrder
<1> QED BY <1>4, <1>5 DEF End

LEMMA RaiseOk == ASSUME DbInv, ~crossed, NEW c \in Co, Raise(c) PROVE DbInv'
<1>1. DbTypes /\ Top = c /\ (call[c] = "after" \/ got[c] = Error)
      /\ call \in [Co -> {"new", "queued", "begin", "asleep", "reply", "after", "done", "raised"}]
      /\ call' = [call EXCEPT ![c] = "raised"] /\ chain' = Yields
      /\ left' = [left EXCEPT ![c] = 0] /\ got' = [got EXCEPT ![c] = None]
  BY DEF DbInv, Raise, DbTypes, Forget, Goto
<1>2. UNCHANGED <<StayOfCall, inbuf, closed, idle, fns, connAlive, ppcnt, batch, coming,
                  historyVars>>
  BY DEF Raise
<1>3. Yields \in Seq(Co)
  BY <1>1, NumbersOfCalls DEF DbTypes, Yields, Top
<1>4. DbTypes'
  BY <1>1, <1>2, <1>3 DEF DbTypes, StayOfCall, historyVars
<1>5. SUFFICES ASSUME ~overlapped, ~shared, ~abandoned PROVE InOrder'
  BY <1>2, <1>4 DEF DbInv, StayOfCall, historyVars
<1>6. InOrder
  BY <1>5 DEF DbInv
<1>7. call[c] = "after" /\ got[c] = None
  <2>1. got[c] \in {None, Gone, c} /\ (got[c] # None => call[c] = "reply")
    BY <1>6 DEF InOrder, GotItsOwn
  <2>2. Error # None /\ Error # Gone /\ Error # c
    BY NumbersOfCalls DEF Error, None, Gone
  <2> QED BY <1>1, <2>1, <2>2
<1>8. Under' = Under /\ Active' = Active \ {c} /\ c \in Active
  BY <1>1, <1>7 DEF Under, Active
<1>9. OneUnder' /\ QueueOfCalls'
  BY <1>1, <1>2, <1>6, <1>7, <1>8 DEF InOrder, OneUnder, QueueOfCalls, StayOfCall
<1>10. OnceIn(Yields) /\ tbRdWait # c /\ \A d : Has(Yields, d) <=> Has(chain, d) /\ d # c
  BY <1>1, <1>6, RunningOne
<1>11. got' = got
  BY <1>1, <1>7 DEF DbTypes
<1>12. OneWaits'
  BY <1>1, <1>2, <1>6, <1>10, <1>11 DEF InOrder, OneWaits, StayOfCall, DbTypes
<1>13. StreamOfCall'
  BY <1>1, <1>2, <1>6, <1>7, <1>11 DEF InOrder, StreamOfCall, RestOfReply, Held
<1>14. GotItsOwn'
  BY <1>1, <1>2, <1>6, <1>7, <1>11 DEF InOrder, GotItsOwn
<1>15. PipeOfOne'
  BY <1>1, <1>2, <1>6, <1>7 DEF InOrder, PipeOfOne
<1> QED BY <1>9, <1>12, <1>13, <1>14, <1>15 DEF InOrder

LEMMA CloseOk == ASSUME DbInv, ~crossed, NEW c \in Co, Close(c) PROVE DbInv'
<1>1. closed' = TRUE /\ inbuf' = << >> /\ coming' = << >>
      /\ UNCHANGED <<rdwt, qrd, tbRdWait, queued, kind, chain, got, idle, fns, call, left, ppcnt,
                     batch, historyVars>>
  BY DEF Close
<1>2. DbTypes'
  BY <1>1 DEF DbInv, DbTypes, StayOfCall, historyVars
<1>3. SUFFICES ASSUME ~overlapped, ~shared, ~abandoned PROVE InOrder'
  BY <1>1, <1>2 DEF DbInv, historyVars
<1>4. InOrder /\ DbTypes
  BY <1>3 DEF DbInv
<1>5. OneUnder' /\ QueueOfCalls' /\ OneWaits' /\ PipeOfOne'
  BY <1>1, <1>4 DEF InOrder, OneUnder, Under, QueueOfCalls, Active, OneWaits, PipeOfOne, StayOfCall
<1>6. StreamOfCall' /\ GotItsOwn'
  <2>1. ASSUME NEW d \in Co, call[d] = "reply" PROVE RestOfReply(d)'
    <3>1. RestOfReply(d)
      BY <1>4, <2>1 DEF InOrder, StreamOfCall
    <3>2. Len(inbuf) \in Nat /\ Len(coming) \in Nat /\ left[d] \in Int /\ Held(d) \in {0, 1}
      BY <1>4 DEF DbTypes, Held
    <3>3. Held(d)' = Held(d) /\ left'[d] = left[d] /\ Len(inbuf') = 0 /\ Len(coming') = 0
      BY <1>1 DEF Held
    <3>4. Len(inbuf') + Len(coming') + Held(d)' <= left'[d]
      BY <3>1, <3>2, <3>3 DEF RestOfReply
    <3> QED BY <1>1, <3>4 DEF RestOfReply, Has
  <2> QED BY <1>1, <1>4, <2>1 DEF InOrder, StreamOfCall, GotItsOwn
<1> QED BY <1>5, <1>6 DEF InOrder

LEMMA ArriveOk == ASSUME DbInv, ~crossed, Arrive PROVE DbInv'
<1>1. UNCHANGED <<chain, rdwt, qrd, tbRdWait, got, closed, queueVars, call, left, ppcnt, batch,
                  historyVars>>
  BY DEF Arrive
<1>2. PICK q : q = coming
  OBVIOUS
<1>3. PICK b : b = inbuf
  OBVIOUS
<1>4. DbTypes /\ q # << >> /\ inbuf' = Append(b, Head(q)) /\ coming' = Tail(q)
      /\ q \in Seq(Co \union {Other}) /\ b \in Seq(Co \union {Other})
  BY <1>2, <1>3 DEF DbInv, DbTypes, Arrive
<1>5. /\ Tail(q) \in Seq(Co \union {Other}) /\ Head(q) \in Co \union {Other} /\ Has(q, Head(q))
      /\ Len(Tail(q)) = Len(q) - 1 /\ Len(q) \in Nat /\ \A d : Has(Tail(q), d) => Has(q, d)
  <2>1. /\ Len(Tail(q)) = Len(q) - 1 /\ Len(q) \in Nat \ {0} /\ Head(q) = q[1]
        /\ \A i \in 1 .. Len(q) - 1 : Tail(q)[i] = q[i + 1]
    BY <1>4
  <2>2. Tail(q) \in Seq(Co \union {Other}) /\ Head(q) \in Co \union {Other}
    BY <1>4
  <2> QED BY <2>1, <2>2 DEF Has
<1>6. PICK h : h = Head(q)
  OBVIOUS
<1>7. /\ Append(b, h) \in Seq(Co \union {Other}) /\ Len(Append(b, h)) = Len(b) + 1
      /\ \A d : Has(Append(b, h), d) <=> Has(b, d) \/ d = h
  BY <1>4, <1>5, <1>6, Pushed
<1>8. inbuf' = Append(b, h)
  BY <1>4, <1>6
<1>9. DbTypes'
  BY <1>1, <1>4, <1>5, <1>7, <1>8 DEF DbTypes, queueVars, historyVars
<1>10. SUFFICES ASSUME ~overlapped, ~shared, ~abandoned PROVE InOrder'
  BY <1>1, <1>9 DEF DbInv, queueVars, historyVars
<1>11. InOrder
  BY <1>10 DEF DbInv
<1>12. OneUnder' /\ QueueOfCalls' /\ OneWaits' /\ PipeOfOne'
  BY <1>1, <1>11 DEF InOrder, OneUnder, Under, QueueOfCalls, Active, OneWaits, PipeOfOne, queueVars
<1>13. ~closed /\ \E c \in Co : call[c] = "reply"
  BY <1>2, <1>4, <1>11 DEF InOrder, StreamOfCall
<1>14. ASSUME NEW c \in Co, call[c] = "reply" PROVE RestOfReply(c)'
  <2>1. RestOfReply(c) /\ Len(b) \in Nat
    BY <1>4, <1>11, <1>14 DEF InOrder, StreamOfCall
  <2>2. \A d : Has(inbuf', d) \/ Has(coming', d) => d = c
    BY <2>1, <1>2, <1>3, <1>4, <1>5, <1>6, <1>7, <1>8 DEF RestOfReply
  <2>3. Len(inbuf') = Len(b) + 1 /\ Len(coming') = Len(q) - 1 /\ Held(c)' = Held(c)
        /\ Held(c) \in {0, 1} /\ left'[c] = left[c] /\ left[c] \in Int
    BY <1>1, <1>4, <1>5, <1>7, <1>8 DEF Held, DbTypes
  <2>4. Len(inbuf') + Len(coming') + Held(c)' <= left'[c]
    BY <2>1, <2>3, <1>2, <1>3, <1>5 DEF RestOfReply
  <2> QED BY <2>2, <2>4 DEF RestOfReply, Has
<1>15. StreamOfCall' /\ GotItsOwn'
  BY <1>1, <1>11, <1>13, <1>14 DEF InOrder, StreamOfCall, GotItsOwn
<1> QED BY <1>12, <1>15 DEF InOrder

LEMMA PeerEndsOk == ASSUME DbInv, ~crossed, PeerEnds PROVE DbInv'
<1>1. closed' = TRUE /\ coming' = << >>
      /\ UNCHANGED <<chain, readVars, queueVars, call, left, ppcnt, batch, historyVars>>
  BY DEF PeerEnds
<1>2. DbTypes'
  BY <1>1 DEF DbInv, DbTypes, readVars, queueVars, historyVars
<1>3. SUFFICES ASSUME ~overlapped, ~shared, ~abandoned PROVE InOrder'
  BY <1>1, <1>2 DEF DbInv, queueVars, historyVars
<1>4. InOrder /\ DbTypes
  BY <1>3 DEF DbInv
<1>5. OneUnder' /\ QueueOfCalls' /\ OneWaits' /\ PipeOfOne'
  BY <1>1, <1>4 DEF InOrder, OneUnder, Under, QueueOfCalls, Active, OneWaits, PipeOfOne, readVars,
     queueVars
<1>6. ASSUME NEW d \in Co, call[d] = "reply" PROVE RestOfReply(d)'
  <2>1. RestOfReply(d)
    BY <1>4, <1>6 DEF InOrder, StreamOfCall
  <2>2. Len(inbuf) \in Nat /\ Len(coming) \in Nat /\ left[d] \in Int /\ Held(d) \in {0, 1}
    BY <1>4 DEF DbTypes, Held
  <2>3. Held(d)' = Held(d) /\ left'[d] = left[d] /\ inbuf' = inbuf /\ Len(coming') = 0
    BY <1>1 DEF Held, readVars
  <2>4. Len(inbuf') + Len(coming') + Held(d)' <= left'[d]
    BY <2>1, <2>2, <2>3 DEF RestOfReply
  <2>5. \A e : Has(inbuf', e) \/ Has(coming', e) => e = d
    BY <2>1, <2>3, <1>1 DEF RestOfReply, Has
  <2> QED BY <2>4, <2>5 DEF RestOfReply, Has
<1>7. StreamOfCall'
  BY <1>1, <1>4, <1>6 DEF InOrder, StreamOfCall, readVars
<1>8. GotItsOwn'
  BY <1>1, <1>4 DEF InOrder, GotItsOwn, readVars
<1> QED BY <1>5, <1>7, <1>8 DEF InOrder

LEMMA HandleStepOk == ASSUME DbInv, ~crossed, HandleStep PROVE DbInv'
<1>1. DbTypes /\ UNCHANGED <<queueVars, call, left, ppcnt, batch, coming, historyVars>>
  BY DEF DbInv, HandleStep
<1>2. \/ Notice \/ NoticeGoneEnds \/ QueueServed \/ ServeRefused \/ ServeData \/ ServeWaits
  BY DEF HandleStep, Handle
<1>3. Under' = Under /\ Active' = Active
  BY <1>1 DEF Under, Active
<1>4. ASSUME ~overlapped', ~shared', ~abandoned' PROVE InOrder /\ OneUnder' /\ QueueOfCalls' /\ PipeOfOne'
  BY <1>1, <1>3, <1>4 DEF DbInv, InOrder, OneUnder, QueueOfCalls, PipeOfOne, historyVars, queueVars
<1>5. CASE Notice
  <2>1. PICK w : w = tbRdWait
    OBVIOUS
  <2>2. /\ chain = << >> /\ w \in Co /\ Gets(w) /\ tbRdWait' = None /\ chain' = <<w>>
        /\ rdwt' = (inbuf # << >> /\ qrd # << >>) /\ UNCHANGED <<qrd, closed, forgotten>>
    BY <1>1, <1>5, <2>1 DEF Notice, Idle, DbTypes
  <2>3. got' \in [Co -> Co \union {None, Gone, Error, Other}] /\ inbuf' \in Seq(Co \union {Other})
        /\ \A d \in Co : d # w => got'[d] = got[d]
    BY <1>1, <2>2, GetsTypes
  <2>4. <<w>> \in Seq(Co) /\ OnceIn(<<w>>) /\ (\A d : Has(<<w>>, d) <=> d = w)
    BY <2>2 DEF OnceIn, Has
  <2>5. DbTypes'
    BY <1>1, <2>2, <2>3, <2>4 DEF DbTypes, queueVars, historyVars
  <2>6. SUFFICES ASSUME ~overlapped', ~shared', ~abandoned' PROVE InOrder'
    BY <1>1, <2>5 DEF DbInv, queueVars, historyVars
  <2>7. InOrder /\ OneUnder' /\ QueueOfCalls' /\ PipeOfOne'
    BY <1>4, <2>6
  <2>8. call[w] = "reply" /\ got[w] = None /\ qrd = << >>
    BY <2>1, <2>2, <2>7, NumbersOfCalls DEF InOrder, OneWaits
  <2>9. StreamOfCall' /\ GotItsOwn'
    BY <1>1, <2>2, <2>7, <2>8, GetsOwn
  <2>10. OneWaits'
    <3>1. OnceIn(chain)' /\ \A d \in Co : Has(chain, d)' => call'[d] = "reply"
      BY <1>1, <2>2, <2>4, <2>8 DEF OnceIn, Has
    <3> QED BY <3>1, <2>2, <2>8 DEF OneWaits
  <2> QED BY <2>7, <2>9, <2>10 DEF InOrder
<1>6. CASE NoticeGoneEnds \/ QueueServed
  <2>1. UNCHANGED <<chain, qrd, tbRdWait, got, inbuf, closed>> /\ rdwt' \in {rdwt, FALSE}
    BY <1>6 DEF NoticeGoneEnds, QueueServed
  <2>2. DbTypes'
    BY <1>1, <2>1 DEF DbTypes, queueVars, historyVars
  <2>3. SUFFICES ASSUME ~overlapped', ~shared', ~abandoned' PROVE InOrder'
    BY <1>1, <2>2 DEF DbInv, queueVars, historyVars
  <2>4. InOrder /\ OneUnder' /\ QueueOfCalls' /\ PipeOfOne'
    BY <1>4, <2>3
  <2>5. OneWaits'
    <3>1. rdwt' => rdwt
      BY <2>1
    <3>2. OneWaits
      BY <2>4 DEF InOrder
    <3> QED BY <1>1, <2>1, <3>1, <3>2 DEF OneWaits, Has, OnceIn
  <2>6. StreamOfCall' /\ GotItsOwn'
    BY <1>1, <2>1, <2>4 DEF InOrder, StreamOfCall, GotItsOwn, RestOfReply, Held
  <2> QED BY <2>4, <2>5, <2>6 DEF InOrder
<1>7. CASE ServeRefused \/ ServeData \/ ServeWaits
  <2>1. PICK q : q = qrd
    OBVIOUS
  <2>2. PICK h : h = Head(q)
    OBVIOUS
  <2>3. q # << >> /\ qrd' = Tail(q) /\ q \in Seq(Co) /\ h \in Co /\ Tail(q) \in Seq(Co)
        /\ UNCHANGED <<rdwt, closed>>
    BY <1>1, <1>7, <2>1, <2>2 DEF DbTypes, ServeRefused, ServeData, ServeWaits
  <2>4. DbTypes'
    <3>1. CASE ServeRefused
      <4>1. UNCHANGED <<chain, tbRdWait, got, inbuf>>
        BY <3>1 DEF ServeRefused
      <4> QED BY <1>1, <2>3, <4>1 DEF DbTypes, queueVars, historyVars
    <3>2. CASE ServeData
      <4>1. Gets(h) /\ chain' = <<h>> /\ tbRdWait' = tbRdWait /\ <<h>> \in Seq(Co)
        BY <3>2, <2>1, <2>2, <2>3 DEF ServeData
      <4>2. got' \in [Co -> Co \union {None, Gone, Error, Other}]
            /\ inbuf' \in Seq(Co \union {Other})
        BY <1>1, <2>3, <4>1, GetsTypes
      <4> QED BY <1>1, <2>3, <4>1, <4>2 DEF DbTypes, queueVars, historyVars
    <3>3. CASE ServeWaits
      <4>1. tbRdWait' = h /\ UNCHANGED <<chain, got, inbuf>>
        BY <3>3, <2>1, <2>2 DEF ServeWaits
      <4> QED BY <1>1, <2>3, <4>1 DEF DbTypes, queueVars, historyVars
    <3> QED BY <1>7, <3>1, <3>2, <3>3
  <2>5. SUFFICES ASSUME ~overlapped', ~shared', ~abandoned' PROVE InOrder'
    BY <1>1, <2>4 DEF DbInv, queueVars, historyVars
  <2> QED BY <1>4, <2>1, <2>3, <2>5 DEF InOrder, OneWaits
<1> QED BY <1>2, <1>5, <1>6, <1>7

LEMMA NextDb == DbInv /\ [DbNext]_dbVars => DbInv'
<1> SUFFICES ASSUME DbInv, [DbNext]_dbVars PROVE DbInv'
  OBVIOUS
<1>1. CASE UNCHANGED dbVars
  <2>1. UNCHANGED <<chain, handler, rdwt, qrd, tbRdWait, got, inbuf, forgotten, closed, queued,
                    idle, fns, call, left, ppcnt, batch, coming, overlapped, shared, abandoned, crossed>>
    BY <1>1 DEF dbVars, sockVars, readVars, queueVars, historyVars
  <2>2. DbTypes'
    BY <2>1 DEF DbInv, DbTypes
  <2>3. InOrder => InOrder'
    BY <2>1 DEF InOrder, OneUnder, Under, QueueOfCalls, Active, OneWaits, StreamOfCall, RestOfReply,
                Held, GotItsOwn, PipeOfOne
  <2> QED BY <2>1, <2>2, <2>3 DEF DbInv
<1>2. CASE ~crossed /\ ServiceStep
  BY <1>2, HandleStepOk, AddToPipelineOk, RefuseOk, SendCmdOk, PipelineOk, ReadPieceOk, TakePieceOk,
     TakeGoneOk, EndOk, RaiseOk DEF ServiceStep
<1>3. CASE ~crossed /\ (OtherSends \/ Arrive \/ PeerEnds)
  BY <1>3, OtherSendsOk, ArriveOk, PeerEndsOk
<1>4. CASE ~crossed /\ \E c \in Co : Sync(c) \/ Close(c) \/ \E k \in Kinds : Begin(c, k)
  BY <1>4, SyncOk, CloseOk, BeginOk
<1> QED BY <1>1, <1>2, <1>3, <1>4 DEF DbNext

LEMMA DbAlways == DbSpec => []DbInv
BY InitDb, NextDb, PTL DEF DbSpec

(* A reply is read by the call that asked for it, for any number of calls  *)
(* of any kinds, whatever the server sends and whenever it goes, as long   *)
(* as calls do not overlap, which under a queue they never do, no other    *)
(* service of the worker uses the buffer of an open pipeline, and replies  *)
(* are read to their end (AnswerOfItsCall of DbClient).                    *)
THEOREM AnswerIsOfItsCall == DbSpec => []AnswerOfItsCall
<1>1. DbInv => AnswerOfItsCall
  BY DEF DbInv, AnswerOfItsCall
<1> QED BY <1>1, DbAlways, PTL

-----------------------------------------------------------------------------
(* WebSocket.                                                              *)
Chan == [readable : Int, readable4Dec : Int, sockClosed : BOOLEAN, onReadWait : BOOLEAN,
         wait : BOOLEAN, recvd : Nat, size4Read : Nat, size4Decode : Nat,
         state : {"conn", "head", "body", "ready", "inner"}, metaRcvd : Nat,
         bodyLen : Nat, bodyDecCnt : Nat, n : Nat, err : BOOLEAN,
         fault : {"none", "overrun", "desync", "reentered"}]
Reads == [n : Nat, from : Nat, to : Nat]
Reading == {"head", "body", "msg", "readwait"}

WsTypes ==
    /\ frames \in Seq(Frame) /\ sent \in Nat /\ peer \in {"open", "gone"}
    /\ chan \in Chan /\ pollIn \in BOOLEAN
    /\ netPc \in {"poll", "fill", "fill4dec", "trigger"}
    /\ fill \in Nat /\ readable \in Int /\ readable4Dec \in Int
    /\ task \in Seq(Int) /\ pc \in Reading \union {"new", "idle", "over"}
    /\ used \in Int /\ last \in BOOLEAN
    /\ inbox \in Seq({"conn_in", "read_ret"}) /\ OnceIn(inbox)
    /\ reads \in Seq(Reads)

(* What has been looked at: of a body what is unmasked, else what is read. *)
InFrame(c) == c.state \in {"body", "ready", "inner"}
Pos(c) == IF InFrame(c) THEN c.size4Decode ELSE c.size4Read

(* The frame behind a ping whose payload is left in the stream.            *)
OffFrame(c) ==
    /\ c.metaRcvd = 0 /\ c.size4Read # Start(c.n) /\ c.n \in 2 .. Len(frames) + 1
    /\ frames[c.n - 1].op # "data" /\ frames[c.n - 1].body > 0

(* Where the decoder is in the stream, by its state.                       *)
AtHead(c) ==
    \/ OffFrame(c)
    \/ c.metaRcvd = 0 /\ c.size4Read = Start(c.n)
    \/ /\ c.n <= Len(frames) /\ c.size4Read = Start(c.n) + c.metaRcvd
       /\ c.metaRcvd <= Head_(frames[c.n])
       /\ c.metaRcvd = Head_(frames[c.n]) => ~frames[c.n].masked

AtBody(c) ==
    /\ c.n <= Len(frames) /\ frames[c.n].masked
    /\ c.size4Read = BodyStart(c.n) /\ c.bodyLen = BodyLen(frames[c.n])
    /\ c.size4Decode = c.size4Read + c.bodyDecCnt
    /\ c.state = "inner" => frames[c.n].op # "data" /\ c.bodyDecCnt = 0
    /\ c.state # "inner" => frames[c.n].op = "data"
    /\ c.state = "body" => c.bodyDecCnt < c.bodyLen \/ c.bodyLen = 0
    /\ c.state = "ready" => c.bodyDecCnt = c.bodyLen /\ c.bodyLen > 0

At(c) ==
    /\ c.n \in 1 .. Len(frames) + 1
    /\ Pos(c) <= c.recvd
    /\ c.state = "conn" => c.size4Read <= Hello /\ c.n = 1 /\ c.metaRcvd = 0
    /\ c.state = "head" => AtHead(c)
    /\ InFrame(c) => AtBody(c)

(* The two counts, while bytes are being added to the second one.          *)
Counts(c, more) ==
    /\ c.readable = c.recvd - c.size4Read
    /\ c.readable4Dec + more = c.recvd - Pos(c)

Adding == IF netPc = "fill4dec" THEN fill ELSE 0

(* The read under way is in one place: the service's call, a request to    *)
(* the net thread, its wait, or a notification.                            *)
ReadInOnePlace ==
    /\ Len(task) <= 1
    /\ task # << >> => ~chan.wait /\ ~Has(inbox, "read_ret")
    /\ chan.wait => ~Has(inbox, "read_ret")
    /\ task # << >> \/ chan.wait \/ Has(inbox, "read_ret") => pc = "idle" /\ chan.onReadWait
    /\ pc \in Reading => chan.onReadWait \/ (last /\ pc # "readwait")

(* What the net thread counted is so, while it has the decoder.            *)
SameCounts == readable = chan.readable /\ readable4Dec = chan.readable4Dec
LocalsKnown ==
    chan.wait \/ chan.state = "conn" =>
        /\ netPc = "fill" => SameCounts \/ sent > chan.recvd \/ peer = "gone"
        /\ netPc = "fill4dec" => readable = chan.readable
        /\ netPc = "trigger" /\ ~chan.sockClosed => SameCounts

Bounds == chan.recvd <= sent /\ sent <= Start(Len(frames) + 1)

(* What a fault leaves: an overrun is one of a body too short or cut.      *)
OverrunOf(c) == c.bodyLen = 0 \/ c.recvd < Start(c.n + 1)
FaultOf(c) ==
    /\ c.fault = "desync" => LET f == frames[c.n - 1] IN f.op # "data" /\ f.body > 0
    /\ c.fault = "reentered" => ~frames[c.n].masked
    /\ c.fault = "overrun" => OverrunOf(c)

DecoderPart ==
    /\ chan.fault # "overrun" => At(chan)
    /\ Counts(chan, Adding) /\ FaultOf(chan) /\ Bounds
    /\ FramesReadWhole

ThreadPart ==
    /\ ReadInOnePlace /\ LocalsKnown
    /\ chan.state = "conn" => inbox = << >> /\ pc = "new"
    /\ chan.fault = "overrun" => netPc = "poll" /\ pc = "idle" /\ chan.onReadWait

WsInv == WsTypes /\ DecoderPart /\ ThreadPart

-----------------------------------------------------------------------------
(* Where frames start: the recursive definition of Start is of a function. *)
LEMMA LeastIs ==
    ASSUME NEW T \in SUBSET Nat, T # {}
    PROVE  \E x \in T : \A y \in T : x <= y
<1>1. PICK x \in T : \A y \in T : <<y, x>> \notin OpToRel(<, Nat)
  BY NatLessThanWellFounded, WFMin
<1>2. \A y \in T : ~(y < x)
  BY <1>1 DEF OpToRel
<1> QED BY <1>2

NextStart(at, j) == at[j - 1] + Head_(frames[j - 1]) + frames[j - 1].body
IsStart(at, m) == at = [j \in 1 .. m |-> IF j = 1 THEN Hello ELSE NextStart(at, j)]

LEMMA StartExists ==
    ASSUME NEW m \in Nat PROVE \E at : IsStart(at, m)
<1> DEFINE T == {k \in Nat : ~\E at : IsStart(at, k)}
<1> SUFFICES ASSUME T # {} PROVE FALSE
  OBVIOUS
<1>1. PICK x \in T : \A y \in T : x <= y
  BY LeastIs
<1>2. x # 0
  <2>1. IsStart(<< >>, 0)
    BY DEF IsStart
  <2> QED BY <2>1
<1>3. x - 1 \in Nat /\ x - 1 \notin T
  BY <1>1, <1>2
<1>4. PICK at : IsStart(at, x - 1)
  BY <1>3
<1> DEFINE next == [j \in 1 .. x |-> IF j = 1 THEN Hello ELSE NextStart(at, j)]
<1>5. \A j \in 1 .. x - 1 : next[j] = at[j]
  BY <1>3, <1>4 DEF IsStart
<1>6. \A j \in 1 .. x : j # 1 => NextStart(next, j) = NextStart(at, j)
  <2> SUFFICES ASSUME NEW j \in 1 .. x, j # 1 PROVE NextStart(next, j) = NextStart(at, j)
    OBVIOUS
  <2>1. j - 1 \in 1 .. x - 1
    BY <1>3
  <2> QED BY <1>5, <2>1 DEF NextStart
<1>7. next = [j \in 1 .. x |-> IF j = 1 THEN Hello ELSE NextStart(next, j)]
  <2> HIDE DEF NextStart
  <2> QED BY <1>6
<1>8. IsStart(next, x)
  BY <1>7 DEF IsStart
<1> QED BY <1>8

LEMMA Starts ==
    ASSUME frames \in Seq(Frame)
    PROVE  /\ Start(1) = Hello
           /\ \A i \in 1 .. Len(frames) :
                 /\ Start(i + 1) = Start(i) + Head_(frames[i]) + frames[i].body
                 /\ Head_(frames[i]) \in Nat \ {0} /\ frames[i] \in Frame
           /\ \A i \in 1 .. Len(frames) + 1 : Start(i) \in Nat
<1> DEFINE N == Len(frames) + 1
           at == CHOOSE at : IsStart(at, N)
<1>1. N \in Nat /\ N >= 1
  OBVIOUS
<1>2. IsStart(at, N)
  BY <1>1, StartExists
<1>3. ASSUME NEW i PROVE Start(i) = at[i]
  BY DEF Start, IsStart, NextStart
<1> HIDE DEF at
<1>4. at[1] = Hello /\ \A j \in 1 .. N : j # 1 => at[j] = NextStart(at, j)
  BY <1>1, <1>2 DEF IsStart
<1>5. \A i \in 1 .. Len(frames) : frames[i] \in Frame /\ Head_(frames[i]) \in Nat \ {0}
  <2> SUFFICES ASSUME NEW i \in 1 .. Len(frames)
               PROVE  frames[i] \in Frame /\ Head_(frames[i]) \in Nat \ {0}
    OBVIOUS
  <2>1. frames[i] \in Frame
    OBVIOUS
  <2>2. frames[i].flag \in LenFlags
    BY <2>1 DEF Frame
  <2> QED BY <2>1, <2>2, WebSocketAssumption DEF Head_
<1>6. \A i \in 1 .. Len(frames) : at[i + 1] = at[i] + Head_(frames[i]) + frames[i].body
  BY <1>4 DEF NextStart
<1>7. \A i \in 1 .. N : at[i] \in Nat
  <2> DEFINE T == {k \in 1 .. N : at[k] \notin Nat}
  <2> SUFFICES ASSUME T # {} PROVE FALSE
    OBVIOUS
  <2>0. T \in SUBSET Nat
    OBVIOUS
  <2>1. PICK x \in T : \A y \in T : x <= y
    BY <2>0, LeastIs
  <2>2. x # 1
    BY <1>4, WebSocketAssumption
  <2>3. x - 1 \in 1 .. Len(frames) /\ x - 1 \in 1 .. N /\ (x - 1) + 1 = x /\ x - 1 \notin T
    BY <2>1, <2>2
  <2>4. at[x] = at[x - 1] + Head_(frames[x - 1]) + frames[x - 1].body
    BY <1>6, <2>3
  <2>5. at[x - 1] \in Nat /\ frames[x - 1].body \in Nat /\ Head_(frames[x - 1]) \in Nat
    BY <1>5, <2>3 DEF Frame
  <2> QED BY <2>4, <2>5
<1> QED BY <1>3, <1>4, <1>5, <1>6, <1>7
-----------------------------------------------------------------------------
(* The decoder, on any channel.                                            *)
SameUse(c, d) ==
    /\ d.recvd = c.recvd /\ d.sockClosed = c.sockClosed /\ d.onReadWait = c.onReadWait
    /\ d.wait = c.wait /\ d.n = c.n /\ (d.state = "conn" <=> c.state = "conn")

(* What a step leaves alone.                                               *)
SameLink(c, d) ==
    /\ d.sockClosed = c.sockClosed /\ d.onReadWait = c.onReadWait /\ d.wait = c.wait
    /\ d.recvd = c.recvd
SamePack(c, d) ==
    /\ d.state = c.state /\ d.n = c.n /\ d.metaRcvd = c.metaRcvd /\ d.bodyLen = c.bodyLen
    /\ d.bodyDecCnt = c.bodyDecCnt /\ d.size4Decode = c.size4Decode
SameCount(c, d) ==
    /\ d.readable = c.readable /\ d.readable4Dec = c.readable4Dec /\ d.size4Read = c.size4Read

LEMMA EatIs ==
    ASSUME NEW c \in Chan, NEW k \in Int, c.size4Read + k \in Nat, NEW e, e = Eat(c, k)
    PROVE  /\ e \in Chan /\ SameLink(c, e) /\ SamePack(c, e)
           /\ e.size4Read = c.size4Read + k /\ e.readable = c.readable - k
           /\ e.readable4Dec = c.readable4Dec - k /\ e.err = c.err /\ e.fault = c.fault
<1>1. /\ c.size4Read + k \in Nat /\ c.readable - k \in Int /\ c.readable4Dec - k \in Int
  BY DEF Chan
<1>2. PICK x \in Nat, y \in Int, z \in Int :
          x = c.size4Read + k /\ y = c.readable - k /\ z = c.readable4Dec - k
  BY <1>1
<1>3. e = [c EXCEPT !.size4Read = x, !.readable = y, !.readable4Dec = z]
  BY <1>2, Zenon DEF Eat
<1>4. /\ e \in Chan /\ SameLink(c, e) /\ SamePack(c, e)
      /\ e.size4Read = x /\ e.readable = y /\ e.readable4Dec = z
      /\ e.err = c.err /\ e.fault = c.fault
  BY <1>3 DEF Chan, SameLink, SamePack
<1> QED BY <1>2, <1>4

(* A channel whose decoder is in step.                                     *)
Sound(c, more) ==
    /\ c \in Chan /\ more \in Nat /\ At(c) /\ Counts(c, more)
    /\ c.recvd <= Start(Len(frames) + 1) /\ frames \in Seq(Frame)

(* A byte of the head of a frame is there.                                 *)
HeadByte(c) ==
    c.state = "head" /\ c.readable >= 1 /\ (c.metaRcvd # 0 \/ c.size4Read = Start(c.n))

LEMMA HeadPart ==
    ASSUME NEW c, NEW more, Sound(c, more), HeadByte(c)
    PROVE  /\ c.n \in 1 .. Len(frames) /\ c.size4Read = Start(c.n) + c.metaRcvd
           /\ c.metaRcvd <= Head_(frames[c.n])
           /\ c.metaRcvd = Head_(frames[c.n]) => ~frames[c.n].masked
<1>1. /\ c.n \in 1 .. Len(frames) + 1 /\ AtHead(c) /\ c.size4Read \in Nat /\ c.metaRcvd \in Nat
      /\ c.recvd \in Nat /\ c.readable = c.recvd - c.size4Read /\ c.readable >= 1
      /\ c.recvd <= Start(Len(frames) + 1) /\ frames \in Seq(Frame)
      /\ c.metaRcvd # 0 \/ c.size4Read = Start(c.n)
  BY DEF Sound, HeadByte, At, Chan, Counts
<1>2. ~OffFrame(c)
  BY <1>1 DEF OffFrame
<1>3. CASE c.metaRcvd = 0 /\ c.size4Read = Start(c.n)
  <2>1. c.n # Len(frames) + 1
    BY <1>1, <1>3
  <2>2. c.n \in 1 .. Len(frames)
    BY <1>1, <2>1
  <2>3. Head_(frames[c.n]) \in Nat \ {0} /\ Start(c.n) \in Nat
    BY <2>2, <1>1, Starts
  <2> QED BY <1>3, <2>2, <2>3
<1>4. CASE ~(c.metaRcvd = 0 /\ c.size4Read = Start(c.n))
  BY <1>1, <1>2, <1>4 DEF AtHead
<1> QED BY <1>3, <1>4

LEMMA BodySet ==
    ASSUME NEW e \in Chan, NEW b \in Nat, NEW s \in Nat,
           NEW st \in {"conn", "head", "body", "ready", "inner"}, NEW h,
           h = [e EXCEPT !.state = st, !.bodyLen = b, !.bodyDecCnt = 0, !.size4Decode = s]
    PROVE  h \in Chan
BY DEF Chan

LEMMA HeadTaken ==
    ASSUME NEW c, NEW more, Sound(c, more), HeadByte(c), c.fault = "none",
           c.metaRcvd # Head_(frames[c.n]), NEW h, h = PackHead(c, c.readable)
    PROVE  h \in Chan /\ SameUse(c, h) /\ At(h) /\ Counts(h, more) /\ h.fault = "none"
<1>1. /\ c.n \in 1 .. Len(frames) /\ c.size4Read = Start(c.n) + c.metaRcvd
      /\ c.metaRcvd <= Head_(frames[c.n])
  BY HeadPart
<1>2. PICK f : f = frames[c.n]
  OBVIOUS
<1>3. Start(c.n) \in Nat /\ Head_(f) \in Nat \ {0} /\ f \in Frame
  BY Starts, <1>1, <1>2 DEF Sound
<1>4. /\ c \in Chan /\ c.metaRcvd \in Nat /\ c.recvd \in Nat /\ c.size4Read \in Nat
      /\ c.readable4Dec \in Int /\ more \in Nat
      /\ c.readable = c.recvd - c.size4Read /\ c.readable >= 1
      /\ c.readable4Dec + more = c.recvd - c.size4Read
      /\ c.state = "head" /\ (c.metaRcvd # 0 \/ c.size4Read = Start(c.n))
  BY DEF Sound, HeadByte, Chan, Counts, Pos, InFrame
<1>5. PICK from \in Nat, size \in Nat, s \in Nat, r \in Nat, md \in Nat, d \in Int, o \in Nat :
          /\ from = Start(c.n) /\ size = Head_(f) /\ s = c.size4Read /\ r = c.recvd
          /\ md = c.metaRcvd /\ d = c.readable4Dec /\ o = more
  BY <1>3, <1>4
<1>6. s = from + md /\ md < size /\ r - s >= 1 /\ d + o = r - s /\ c.readable = r - s
  <2>1. s = from + md /\ md <= size /\ md # size
    BY <1>1, <1>2, <1>5
  <2> QED BY <2>1, <1>4, <1>5
<1>7. PICK m \in Nat : m = Lesser(r - s, size - md)
  BY <1>6 DEF Lesser
<1>8. m # 0 /\ m <= r - s /\ m <= size - md
  BY <1>6, <1>7 DEF Lesser
<1>9. PICK s1 \in Nat, k1 \in Int, d1 \in Int, md1 \in Nat :
          s1 = s + m /\ k1 = (r - s) - m /\ d1 = d - m /\ md1 = md + m
  OBVIOUS
<1>10. s1 = from + md1 /\ md1 <= size /\ k1 = r - s1 /\ d1 + o = r - s1 /\ s1 <= r
  BY <1>6, <1>8, <1>9
<1>11. PICK t : t = Eat(c, m)
  OBVIOUS
<1>12. /\ t \in Chan /\ SameLink(c, t) /\ SamePack(c, t) /\ t.fault = "none"
       /\ t.size4Read = s1 /\ t.readable = k1 /\ t.readable4Dec = d1
  <2>1. c.size4Read + m = s1 /\ c.readable - m = k1 /\ c.readable4Dec - m = d1 /\ m \in Int
    BY <1>5, <1>6, <1>9
  <2>2. c \in Chan /\ c.size4Read + m \in Nat
    BY <2>1, <1>4
  <2> QED BY EatIs, <2>1, <2>2, <1>11
<1>13. PICK e : e = [t EXCEPT !.metaRcvd = @ + m, !.err = FALSE]
  OBVIOUS
<1>14. /\ e \in Chan /\ SameLink(c, e) /\ e.size4Read = s1 /\ e.readable = k1
       /\ e.readable4Dec = d1 /\ e.metaRcvd = md1 /\ e.n = c.n /\ e.state = "head"
       /\ e.fault = "none"
  <2>1. t.metaRcvd + m = md1 /\ t.n = c.n /\ t.state = "head"
    BY <1>4, <1>5, <1>9, <1>12 DEF SamePack
  <2>2. e = [t EXCEPT !.metaRcvd = md1, !.err = FALSE]
    BY <1>13, <2>1
  <2>3. /\ e \in Chan /\ SameLink(t, e) /\ SameCount(t, e) /\ e.metaRcvd = md1
        /\ e.n = t.n /\ e.state = t.state /\ e.fault = t.fault
    BY <2>2, <1>12 DEF Chan, SameLink, SameCount
  <2> QED BY <2>1, <2>3, <1>12 DEF SameLink, SameCount
<1>15. h = IF md1 < size THEN e ELSE HeadDone(e, f)
  <2>1. m # 0 /\ ~(r - s < 1)
    BY <1>6, <1>8
  <2> QED BY <2>1, <1>2, <1>4, <1>5, <1>6, <1>7, <1>11, <1>13, <1>14 DEF PackHead
<1>16. c.n \in 1 .. Len(frames) + 1 /\ c.n <= Len(frames) /\ e.recvd = r
  <2>1. e.recvd = r
    BY <1>5, <1>14 DEF SameLink
  <2> QED BY <2>1, <1>1
<1>17. ASSUME NEW g, g \in Chan, SameLink(e, g), SameCount(e, g), g.n = e.n,
              g.state = "head", g.fault = "none", g.metaRcvd = md1,
              md1 = size => ~f.masked
       PROVE  g \in Chan /\ SameUse(c, g) /\ At(g) /\ Counts(g, more) /\ g.fault = "none"
  <2>1. /\ g.size4Read = s1 /\ g.readable = k1 /\ g.readable4Dec = d1 /\ g.recvd = r
        /\ g.n = c.n
    BY <1>14, <1>16, <1>17 DEF SameCount, SameLink
  <2>2. AtHead(g)
    BY <2>1, <1>2, <1>5, <1>10, <1>16, <1>17 DEF AtHead
  <2>3. Pos(g) = s1
    BY <2>1, <1>17 DEF Pos, InFrame
  <2>4. At(g)
    BY <2>1, <2>2, <2>3, <1>10, <1>16, <1>17 DEF At, InFrame
  <2>5. Counts(g, more)
    BY <2>1, <2>3, <1>5, <1>10 DEF Counts
  <2>6. SameUse(c, g)
    BY <2>1, <1>4, <1>14, <1>17 DEF SameUse, SameLink
  <2> QED BY <2>4, <2>5, <2>6, <1>17
<1>18. CASE md1 < size
  <2>1. h = e /\ md1 # size
    BY <1>15, <1>18
  <2>2. SameLink(e, e) /\ SameCount(e, e)
    BY DEF SameLink, SameCount
  <2> QED BY <2>1, <2>2, <1>14, <1>17
<1>19. CASE ~(md1 < size) /\ ~f.masked
  <2>1. h = [e EXCEPT !.err = TRUE]
    BY <1>15, <1>19 DEF HeadDone
  <2>2. /\ h \in Chan /\ SameLink(e, h) /\ SameCount(e, h) /\ h.n = e.n /\ h.state = e.state
        /\ h.fault = e.fault /\ h.metaRcvd = e.metaRcvd
    BY <2>1, <1>14 DEF Chan, SameLink, SameCount
  <2> QED BY <2>2, <1>14, <1>17, <1>19
<1>20. CASE ~(md1 < size) /\ f.masked
  <2>0. f.op \in {"data", "inner", "cont"} /\ f.body \in Nat
    BY <1>3 DEF Frame
  <2>1. PICK b \in Nat : b = BodyLen(f)
    BY <2>0 DEF BodyLen
  <2>2. PICK st \in {"body", "inner"} : st = IF f.op = "data" THEN "body" ELSE "inner"
    OBVIOUS
  <2>3. h = [e EXCEPT !.state = st, !.bodyLen = b, !.bodyDecCnt = 0, !.size4Decode = s1]
    BY <2>1, <2>2, <1>14, <1>15, <1>20 DEF HeadDone
  <2>4. /\ h \in Chan /\ SameLink(e, h) /\ SameCount(e, h) /\ h.n = e.n /\ h.fault = e.fault
        /\ h.state = st /\ h.bodyLen = b /\ h.bodyDecCnt = 0 /\ h.size4Decode = s1
    <3>1. e \in Chan /\ st \in {"conn", "head", "body", "ready", "inner"}
      BY <1>14
    <3>2. h \in Chan
      BY <2>3, <3>1, BodySet
    <3> QED BY <2>3, <3>1, <3>2 DEF Chan, SameLink, SameCount
  <2>5. /\ h.size4Read = s1 /\ h.readable = k1 /\ h.readable4Dec = d1 /\ h.recvd = r
        /\ h.n = c.n /\ InFrame(h)
    BY <2>2, <2>4, <1>14, <1>16 DEF SameCount, SameLink, InFrame
  <2>6. BodyStart(h.n) = s1
    BY <2>5, <1>2, <1>5, <1>10, <1>20 DEF BodyStart
  <2>7. AtBody(h)
    <3>1. b = 0 \/ 0 < b
      OBVIOUS
    <3>2. s1 = s1 + 0
      OBVIOUS
    <3> QED BY <3>1, <3>2, <2>0, <2>1, <2>2, <2>4, <2>5, <2>6, <1>2, <1>16, <1>20 DEF AtBody
  <2>8. Pos(h) = s1
    BY <2>4, <2>5 DEF Pos
  <2>9. At(h)
    BY <2>4, <2>5, <2>7, <2>8, <1>10, <1>16 DEF At
  <2>10. Counts(h, more)
    BY <2>5, <2>8, <1>5, <1>10 DEF Counts
  <2>11. SameUse(c, h)
    BY <2>4, <2>5, <1>4, <1>14 DEF SameUse, SameLink
  <2> QED BY <2>4, <2>9, <2>10, <2>11, <1>14
<1> QED BY <1>18, <1>19, <1>20

LEMMA HeadOk ==
    ASSUME NEW c, NEW more, Sound(c, more), c.fault = "none",
           NEW h, h = PackHead(c, c.readable)
    PROVE  /\ h \in Chan /\ SameUse(c, h) /\ At(h) /\ Counts(h, more)
           /\ h.fault \in {"none", "desync", "reentered"} /\ FaultOf(h)
           /\ h.fault # "none" => h.state = "head"
<1>0. c \in Chan /\ At(c) /\ Counts(c, more) /\ frames \in Seq(Frame)
  BY DEF Sound
<1>1. CASE c.state # "head" \/ c.readable < 1
  <2>1. h = [c EXCEPT !.err = FALSE]
    BY <1>1 DEF PackHead
  <2>2. /\ h \in Chan /\ SameUse(c, h) /\ h.fault = "none" /\ h.state = c.state
        /\ h.size4Read = c.size4Read /\ h.readable = c.readable /\ h.recvd = c.recvd
        /\ h.readable4Dec = c.readable4Dec /\ h.size4Decode = c.size4Decode
        /\ h.bodyLen = c.bodyLen /\ h.bodyDecCnt = c.bodyDecCnt /\ h.metaRcvd = c.metaRcvd
        /\ h.n = c.n
    BY <2>1, <1>0 DEF Chan, SameUse
  <2>3. At(h)
    BY <2>2, <1>0 DEF At, Pos, InFrame, AtBody, AtHead, OffFrame
  <2>4. Counts(h, more)
    BY <2>2, <1>0 DEF Counts, Pos, InFrame
  <2> QED BY <2>2, <2>3, <2>4 DEF FaultOf
<1>2. ASSUME c.state = "head", c.readable >= 1, NEW x \in {"desync", "reentered"},
             h = [c EXCEPT !.fault = x], FaultOf(h)
      PROVE  /\ h \in Chan /\ SameUse(c, h) /\ At(h) /\ Counts(h, more)
             /\ h.fault = x /\ h.state = "head"
  <2>1. /\ h \in Chan /\ SameUse(c, h) /\ h.fault = x /\ h.state = c.state
        /\ h.size4Read = c.size4Read /\ h.readable = c.readable /\ h.recvd = c.recvd
        /\ h.readable4Dec = c.readable4Dec /\ h.metaRcvd = c.metaRcvd /\ h.n = c.n
    BY <1>2, <1>0 DEF Chan, SameUse
  <2>2. At(h)
    BY <2>1, <1>2, <1>0 DEF At, Pos, InFrame, AtHead, OffFrame
  <2>3. Counts(h, more)
    BY <2>1, <1>2, <1>0 DEF Counts, Pos, InFrame
  <2> QED BY <2>1, <2>2, <2>3, <1>2
<1>3. c.readable \in Int /\ c.metaRcvd \in Nat
  BY <1>0 DEF Chan
<1>4. CASE c.state = "head" /\ c.readable >= 1 /\ c.metaRcvd = 0 /\ c.size4Read # Start(c.n)
  <2>1. h = [c EXCEPT !.fault = "desync"]
    BY <1>3, <1>4 DEF PackHead
  <2>2. OffFrame(c)
    <3>1. c.n \in 1 .. Len(frames) + 1 /\ AtHead(c)
      BY <1>4, <1>0 DEF At
    <3>2. Start(c.n) \in Nat
      BY <3>1, <1>0, Starts
    <3> QED BY <3>1, <3>2, <1>4 DEF AtHead
  <2>3. FaultOf(h)
    BY <2>1, <2>2 DEF FaultOf, OffFrame, Chan
  <2> QED BY <1>2, <1>4, <2>1, <2>3
<1>5. CASE c.state = "head" /\ c.readable >= 1 /\ (c.metaRcvd # 0 \/ c.size4Read = Start(c.n))
  <2>1. /\ c.n \in 1 .. Len(frames) /\ c.metaRcvd <= Head_(frames[c.n])
        /\ c.metaRcvd = Head_(frames[c.n]) => ~frames[c.n].masked
    BY HeadPart, <1>5 DEF HeadByte
  <2>2. Head_(frames[c.n]) \in Nat \ {0}
    BY <2>1, <1>0, Starts
  <2>3. CASE c.metaRcvd < Head_(frames[c.n])
    <3>1. c.metaRcvd # Head_(frames[c.n])
      BY <2>2, <2>3, <1>3
    <3> QED BY HeadTaken, <1>5, <3>1 DEF FaultOf, HeadByte
  <2>4. CASE c.metaRcvd = Head_(frames[c.n])
    <3>1. Lesser(c.readable, Head_(frames[c.n]) - c.metaRcvd) = 0
      BY <2>2, <2>4, <1>3, <1>5 DEF Lesser
    <3>2. h = [c EXCEPT !.fault = "reentered"]
      BY <3>1, <1>3, <1>5 DEF PackHead
    <3>3. FaultOf(h)
      BY <3>2, <2>1, <2>4 DEF FaultOf, Chan
    <3> QED BY <1>2, <1>5, <3>2, <3>3
  <2> QED BY <2>1, <2>2, <2>3, <2>4, <1>3
<1> QED BY <1>1, <1>3, <1>4, <1>5
LEMMA BodyOk ==
    ASSUME NEW c, NEW more, Sound(c, more), c.fault = "none", NEW k \in Int,
           NEW d, d = DecBody(c, k)
    PROVE  /\ d \in Chan /\ SameUse(c, d) /\ Counts(d, more)
           /\ (d.fault = "none" /\ At(d)) \/ (d.fault = "overrun" /\ OverrunOf(d))
           /\ k <= c.readable4Dec => d.fault = "none"
<1>0. c \in Chan /\ At(c) /\ Counts(c, more) /\ frames \in Seq(Frame) /\ more \in Nat
  BY DEF Sound
<1>1. CASE c.state # "body" \/ k < 1
  <2>1. d = c
    BY <1>1 DEF DecBody
  <2>2. SameUse(c, c)
    BY DEF SameUse
  <2> QED BY <2>1, <2>2, <1>0
<1>2. CASE c.state = "body" /\ k >= 1
  <2>1. /\ c.n \in 1 .. Len(frames) /\ frames[c.n].masked /\ frames[c.n].op = "data"
        /\ c.size4Read = BodyStart(c.n) /\ c.bodyLen = BodyLen(frames[c.n])
        /\ c.size4Decode = c.size4Read + c.bodyDecCnt
        /\ c.bodyDecCnt < c.bodyLen \/ c.bodyLen = 0
        /\ c.n \in 1 .. Len(frames) + 1 /\ c.n <= Len(frames)
    BY <1>0, <1>2 DEF At, AtBody, InFrame
  <2>2. PICK s \in Nat, p \in Nat, b \in Nat, len \in Nat, r \in Nat, d4 \in Int, o \in Nat,
             rd \in Int :
            /\ s = c.size4Read /\ p = c.size4Decode /\ b = c.bodyDecCnt /\ len = c.bodyLen
            /\ r = c.recvd /\ d4 = c.readable4Dec /\ o = more /\ rd = c.readable
    BY <1>0 DEF Chan
  <2>3. p = s + b /\ p <= r /\ d4 + o = r - p /\ rd = r - s /\ (b < len \/ len = 0)
    BY <2>1, <2>2, <1>0, <1>2 DEF At, Counts, Pos, InFrame
  <2>4. PICK m : m = IF len = 0 THEN k ELSE Lesser(k, len - b)
    OBVIOUS
  <2>5. m \in Nat \ {0} /\ m <= k /\ (len # 0 => b + m <= len)
    BY <2>3, <2>4, <1>2 DEF Lesser
  <2>6. PICK p1 \in Nat, d1 \in Int, b1 \in Nat : p1 = p + m /\ d1 = d4 - m /\ b1 = b + m
    BY <2>5
  <2>7. PICK st \in {"conn", "head", "body", "ready", "inner"} :
            st = IF b1 = len THEN "ready" ELSE "body"
    OBVIOUS
  <2>8. PICK x \in {"none", "overrun", "desync", "reentered"} :
            x = IF p1 > r THEN "overrun" ELSE "none"
    OBVIOUS
  <2>9. d = [c EXCEPT !.size4Decode = p1, !.readable4Dec = d1, !.bodyDecCnt = b1,
                      !.state = st, !.fault = x]
    <3>1. d = [c EXCEPT !.size4Decode = @ + m, !.readable4Dec = @ - m, !.bodyDecCnt = @ + m,
                        !.state = IF b1 = len THEN "ready" ELSE @,
                        !.fault = IF p1 > r THEN "overrun" ELSE @]
      BY <2>2, <2>4, <2>6, <1>2 DEF DecBody
    <3> QED BY <3>1, <2>2, <2>6, <2>7, <2>8, <1>2
  <2>10. /\ d \in Chan /\ SameLink(c, d) /\ d.readable = rd
         /\ d.size4Read = s /\ d.n = c.n /\ d.bodyLen = len
         /\ d.size4Decode = p1 /\ d.readable4Dec = d1 /\ d.bodyDecCnt = b1
         /\ d.state = st /\ d.fault = x
    <3>1. /\ d \in Chan /\ SameLink(c, d) /\ d.readable = c.readable
          /\ d.size4Read = c.size4Read /\ d.n = c.n /\ d.bodyLen = c.bodyLen
          /\ d.size4Decode = p1 /\ d.readable4Dec = d1 /\ d.bodyDecCnt = b1
          /\ d.state = st /\ d.fault = x
      <4>1. c \in Chan
        BY <1>0
      <4>2. d \in Chan
        BY <4>1, <2>9 DEF Chan
      <4> QED BY <4>1, <4>2, <2>9 DEF Chan, SameLink
    <3> QED BY <3>1, <2>2
  <2>11. d.recvd = r /\ SameUse(c, d)
    BY <2>2, <2>7, <2>10, <1>2 DEF SameLink, SameUse
  <2>12. Pos(d) = p1 /\ InFrame(d)
    BY <2>7, <2>10 DEF Pos, InFrame
  <2>13. Counts(d, more)
    <3>1. rd = r - s /\ d1 + o = r - p1
      BY <2>3, <2>5, <2>6
    <3> QED BY <3>1, <2>2, <2>10, <2>11, <2>12 DEF Counts
  <2>14. CASE p1 <= r
    <3>1. x = "none"
      BY <2>8, <2>14
    <3>2. /\ p1 = s + b1 /\ b1 # 0 /\ (b1 = len => len > 0)
          /\ b1 # len => b1 < len \/ len = 0
      BY <2>3, <2>5, <2>6
    <3>3. AtBody(d)
      BY <3>2, <2>1, <2>2, <2>7, <2>10 DEF AtBody
    <3>4. At(d)
      BY <3>3, <2>1, <2>7, <2>10, <2>11, <2>12, <2>14 DEF At
    <3>5. d.fault = "none"
      BY <3>1, <2>10
    <3> QED BY <3>4, <3>5, <2>10, <2>11, <2>13
  <2>15. CASE p1 > r
    <3>1. x = "overrun"
      BY <2>8, <2>15
    <3>2. ~(k <= c.readable4Dec)
      BY <2>2, <2>3, <2>5, <2>6, <2>15
    <3>3. OverrunOf(d)
      <4>1. PICK f : f = frames[c.n]
        OBVIOUS
      <4>2. /\ Start(c.n + 1) = Start(c.n) + Head_(f) + f.body /\ Head_(f) \in Nat
            /\ f.body \in Nat /\ Start(c.n) \in Nat
        BY <2>1, <4>1, <1>0, Starts DEF Frame
      <4>3. s = Start(c.n) + Head_(f)
        BY <2>1, <2>2, <4>1 DEF BodyStart
      <4>4. len = 0 \/ len = f.body
        BY <2>1, <2>2, <4>1 DEF BodyLen
      <4>5. len = 0 \/ r < Start(c.n + 1)
        BY <4>2, <4>3, <4>4, <2>3, <2>5, <2>6, <2>15
      <4> QED BY <4>5, <2>10, <2>11 DEF OverrunOf
    <3> QED BY <3>1, <3>2, <3>3, <2>10, <2>11, <2>13
  <2> QED BY <2>14, <2>15
<1>3. c.state \in {"conn", "head", "body", "ready", "inner"}
  BY <1>0 DEF Chan
<1> QED BY <1>1, <1>2, <1>3

(* A look at what is there: the head, then the body.                       *)
LEMMA LookOk ==
    ASSUME NEW c, NEW more, Sound(c, more), c.fault = "none", NEW h,
           h = PackHead(c, c.readable), NEW k \in Int, NEW d, d = DecBody(h, k)
    PROVE  /\ d \in Chan /\ SameUse(c, d) /\ Counts(d, more) /\ FaultOf(d)
           /\ d.fault # "overrun" => At(d)
           /\ k <= h.readable4Dec => d.fault # "overrun"
<1>1. /\ h \in Chan /\ SameUse(c, h) /\ At(h) /\ Counts(h, more)
      /\ h.fault \in {"none", "desync", "reentered"} /\ FaultOf(h)
      /\ h.fault # "none" => h.state = "head"
  BY HeadOk
<1>2. CASE h.fault = "none"
  <2>1. Sound(h, more)
    BY <1>1 DEF Sound, SameUse
  <2>2. /\ d \in Chan /\ SameUse(h, d) /\ Counts(d, more)
        /\ (d.fault = "none" /\ At(d)) \/ (d.fault = "overrun" /\ OverrunOf(d))
        /\ k <= h.readable4Dec => d.fault = "none"
    BY <2>1, <1>2, BodyOk
  <2>3. SameUse(c, d)
    BY <2>2, <1>1 DEF SameUse
  <2> QED BY <2>2, <2>3 DEF FaultOf
<1>3. CASE h.fault # "none"
  <2>1. d = h
    BY <1>1, <1>3 DEF DecBody
  <2> QED BY <2>1, <1>1
<1> QED BY <1>2, <1>3
-----------------------------------------------------------------------------
(* The steps.  The frames stay, so what is said of a channel is too.       *)
LEMMA FramesStay ==
    ASSUME frames' = frames, NEW d
    PROVE  /\ \A i : Start(i)' = Start(i) /\ BodyStart(i)' = BodyStart(i)
           /\ At(d)' <=> At(d)
           /\ FaultOf(d)' <=> FaultOf(d)
<1>1. ASSUME NEW i PROVE Start(i)' = Start(i)
  BY DEF Start, Head_
<1>2. ASSUME NEW i PROVE BodyStart(i)' = BodyStart(i)
  BY <1>1 DEF BodyStart, Head_
<1> QED BY <1>1, <1>2 DEF At, AtHead, AtBody, OffFrame, FaultOf, OverrunOf, Head_

(* The channel after a step, for the step's own lemma to say what it is.   *)
LEMMA DecoderKept ==
    ASSUME WsInv, frames' = frames, reads' = reads, NEW d \in Chan, chan' = d,
           d.recvd >= chan.recvd, d.n = chan.n,
           d.fault # "overrun" => At(d), Counts(d, Adding'), FaultOf(d),
           d.recvd <= sent', sent' <= Start(Len(frames) + 1)
    PROVE  DecoderPart'
<1>1. /\ At(d)' <=> At(d)
      /\ FaultOf(d)' <=> FaultOf(d)
      /\ \A i : Start(i)' = Start(i) /\ BodyStart(i)' = BodyStart(i)
  BY FramesStay
<1>2. (chan.fault # "overrun" => At(chan))' /\ FaultOf(chan)'
  BY <1>1
<1>3. Counts(chan, Adding)'
  BY DEF Counts, Pos, InFrame
<1>4. Bounds'
  BY <1>1 DEF Bounds
<1>5. FramesReadWhole'
  <2>1. FramesReadWhole /\ reads \in Seq(Reads) /\ chan.recvd \in Nat /\ d.recvd \in Nat
    BY DEF WsInv, WsTypes, DecoderPart, Chan
  <2>2. ASSUME NEW i \in 1 .. Len(reads) PROVE reads[i].to <= d.recvd
    <3>1. reads[i].to <= chan.recvd /\ reads[i] \in Reads
      BY <2>1 DEF FramesReadWhole
    <3>2. reads[i].to \in Nat
      BY <3>1 DEF Reads
    <3> QED BY <3>1, <3>2, <2>1
  <2>3. \A i : Payload(i)' = Payload(i)
    BY DEF Payload
  <2> QED BY <1>1, <2>1, <2>2, <2>3 DEF FramesReadWhole
<1> QED BY <1>2, <1>3, <1>4, <1>5 DEF DecoderPart

LEMMA DecoderSame ==
    ASSUME WsInv, chan.fault = "none", frames' = frames, reads' = reads, NEW d \in Chan,
           chan' = d, SamePack(chan, d), SameCount(chan, d), d.recvd = chan.recvd,
           d.fault = "none", Adding' = Adding, sent <= sent', sent' <= Start(Len(frames) + 1),
           sent' \in Nat
    PROVE  DecoderPart'
<1>1. /\ At(chan) /\ Counts(chan, Adding) /\ chan.recvd <= sent
      /\ chan \in Chan /\ sent \in Nat /\ chan.recvd \in Nat
  BY DEF WsInv, DecoderPart, Bounds, WsTypes, Chan
<1>2. At(d)
  BY <1>1 DEF At, AtHead, AtBody, OffFrame, Pos, InFrame, SamePack, SameCount
<1>3. Counts(d, Adding')
  BY <1>1 DEF Counts, Pos, InFrame, SamePack, SameCount
<1>4. FaultOf(d)
  BY DEF FaultOf
<1>5. d.n = chan.n
  BY DEF SamePack
<1>6. d.recvd >= chan.recvd /\ d.recvd <= sent'
  BY <1>1
<1> QED BY <1>2, <1>3, <1>4, <1>5, <1>6, DecoderKept

LEMMA InitWs == WsInit => WsInv
<1> SUFFICES ASSUME WsInit PROVE WsInv
  OBVIOUS
<1>1. frames \in Seq(Frame)
  BY WebSocketAssumption DEF WsInit
<1>2. \A q : q = << >> => Len(q) = 0 /\ (\A c : ~Has(q, c)) /\ OnceIn(q)
  BY DEF Has, OnceIn
<1>3. /\ chan \in Chan /\ chan.state = "conn" /\ chan.size4Read = 0 /\ chan.recvd = 0
      /\ chan.readable = 0 /\ chan.readable4Dec = 0 /\ chan.n = 1 /\ chan.metaRcvd = 0
      /\ ~chan.wait /\ chan.fault = "none" /\ ~chan.onReadWait
  BY DEF WsInit, Chan
<1>4. WsTypes
  <2>1. task \in Seq(Int) /\ reads \in Seq(Reads) /\ inbox \in Seq({"conn_in", "read_ret"})
    BY DEF WsInit
  <2>2. OnceIn(inbox)
    BY <1>2 DEF WsInit
  <2>3. /\ sent \in Nat /\ peer \in {"open", "gone"} /\ pollIn \in BOOLEAN
        /\ netPc \in {"poll", "fill", "fill4dec", "trigger"}
        /\ fill \in Nat /\ readable \in Int /\ readable4Dec \in Int
    BY DEF WsInit
  <2>4. pc \in Reading \union {"new", "idle", "over"} /\ used \in Int
    BY DEF WsInit
  <2>5. last \in BOOLEAN
    BY DEF WsInit
  <2> QED BY <1>1, <1>3, <2>1, <2>2, <2>3, <2>4, <2>5 DEF WsTypes
<1>5. Hello \in Nat /\ Start(Len(frames) + 1) \in Nat /\ Len(frames) \in Nat
  <2>1. Len(frames) \in Nat /\ Len(frames) + 1 \in 1 .. Len(frames) + 1
    BY <1>1
  <2> QED BY <2>1, <1>1, Starts, WebSocketAssumption
<1>6. At(chan) /\ Counts(chan, Adding) /\ FaultOf(chan)
  BY <1>3, <1>5 DEF WsInit, At, Counts, Adding, Pos, InFrame, FaultOf
<1>7. Bounds /\ FramesReadWhole
  BY <1>2, <1>3, <1>5 DEF WsInit, Bounds, FramesReadWhole
<1>8. ReadInOnePlace
  BY <1>2, <1>3 DEF WsInit, ReadInOnePlace, Reading
<1>9. LocalsKnown
  BY <1>3 DEF WsInit, LocalsKnown
<1> QED BY <1>3, <1>4, <1>6, <1>7, <1>8, <1>9 DEF WsInv, DecoderPart, ThreadPart, WsInit

(* Where the read under way is.                                            *)
InTask == task # << >>
InNotice == Has(inbox, "read_ret")

LEMMA DecoderStill ==
    ASSUME WsInv, chan.fault = "none", UNCHANGED <<frames, reads, sent, netLocals>>,
           NEW d \in Chan, chan' = d, SamePack(chan, d), SameCount(chan, d),
           d.recvd = chan.recvd, d.fault = "none"
    PROVE  DecoderPart'
<1>1. Adding' = Adding /\ sent <= sent' /\ sent' <= Start(Len(frames) + 1) /\ sent' \in Nat
  BY DEF Adding, netLocals, WsInv, WsTypes, DecoderPart, Bounds
<1> QED BY <1>1, DecoderSame

LEMMA TakeConnInOk == ASSUME WsInv, chan.fault = "none", TakeConnIn PROVE WsInv'
<1>1. /\ inbox # << >> /\ Head(inbox) = "conn_in" /\ inbox' = Tail(inbox) /\ pc = "new"
      /\ pc' = "idle" /\ UNCHANGED <<frames, sent, peer, chan, pollIn, netLocals, task, used, last, reads>>
  BY DEF TakeConnIn, wire
<1>2. /\ inbox' \in Seq({"conn_in", "read_ret"}) /\ OnceIn(inbox')
      /\ InNotice' <=> InNotice
  BY <1>1, Popped DEF WsInv, WsTypes, InNotice
<1>3. chan \in Chan /\ SamePack(chan, chan) /\ SameCount(chan, chan)
  BY DEF WsInv, WsTypes, SamePack, SameCount
<1>4. PICK d : d = chan
  OBVIOUS
<1>5. DecoderPart'
  BY <1>1, <1>3, <1>4, DecoderStill
<1>6. WsTypes'
  BY <1>1, <1>2 DEF WsInv, WsTypes, netLocals
<1>7. ReadInOnePlace'
  BY <1>1, <1>2 DEF WsInv, ThreadPart, ReadInOnePlace, InNotice, Reading
<1>8. LocalsKnown'
  BY <1>1 DEF WsInv, ThreadPart, LocalsKnown, SameCounts, netLocals
<1>9. chan.state # "conn"
  BY <1>1 DEF WsInv, ThreadPart
<1> QED BY <1>1, <1>5, <1>6, <1>7, <1>8, <1>9 DEF WsInv, ThreadPart
LEMMA ReadNewOk == ASSUME WsInv, chan.fault = "none", ReadNew PROVE WsInv'
<1>1. /\ pc = "idle" /\ ~chan.onReadWait /\ pc' = "head"
      /\ UNCHANGED <<frames, sent, peer, pollIn, netLocals, task, used, last, inbox, reads>>
  BY DEF ReadNew, wire
<1>2. PICK d : d = [chan EXCEPT !.onReadWait = TRUE]
  OBVIOUS
<1>3. /\ d \in Chan /\ SamePack(chan, d) /\ SameCount(chan, d) /\ d.recvd = chan.recvd
      /\ d.fault = "none" /\ d.onReadWait /\ d.wait = chan.wait
      /\ d.sockClosed = chan.sockClosed
  BY <1>2 DEF WsInv, WsTypes, Chan, SamePack, SameCount
<1>4. chan' = d
  BY <1>2 DEF ReadNew
<1>5. DecoderPart'
  BY <1>1, <1>3, <1>4, DecoderStill
<1>6. WsTypes'
  BY <1>1, <1>3, <1>4 DEF WsInv, WsTypes, netLocals, Reading
<1>7. ReadInOnePlace'
  BY <1>1, <1>3, <1>4 DEF WsInv, ThreadPart, ReadInOnePlace, Reading
<1>8. LocalsKnown'
  BY <1>1, <1>3, <1>4 DEF WsInv, ThreadPart, LocalsKnown, SameCounts, netLocals, SameCount, SamePack
<1>9. chan.state # "conn" /\ d.state = chan.state
  BY <1>1, <1>3 DEF WsInv, ThreadPart, SamePack
<1> QED BY <1>1, <1>3, <1>4, <1>5, <1>6, <1>7, <1>8, <1>9 DEF WsInv, ThreadPart

LEMMA TakeReadRetOk == ASSUME WsInv, chan.fault = "none", TakeReadRet PROVE WsInv'
<1>1. /\ inbox # << >> /\ Head(inbox) = "read_ret" /\ inbox' = Tail(inbox) /\ pc = "idle"
      /\ pc' = "head"
      /\ UNCHANGED <<frames, sent, peer, chan, pollIn, netLocals, task, used, last, reads>>
  BY DEF TakeReadRet, wire
<1>2. inbox' \in Seq({"conn_in", "read_ret"}) /\ OnceIn(inbox') /\ InNotice /\ ~InNotice'
  BY <1>1, Popped DEF WsInv, WsTypes, InNotice
<1>3. chan \in Chan /\ SamePack(chan, chan) /\ SameCount(chan, chan)
  BY DEF WsInv, WsTypes, SamePack, SameCount
<1>4. PICK d : d = chan
  OBVIOUS
<1>5. DecoderPart'
  BY <1>1, <1>3, <1>4, DecoderStill
<1>6. WsTypes'
  BY <1>1, <1>2 DEF WsInv, WsTypes, netLocals, Reading
<1>7. ReadInOnePlace'
  BY <1>1, <1>2 DEF WsInv, ThreadPart, ReadInOnePlace, InNotice, Reading
<1>8. LocalsKnown'
  BY <1>1 DEF WsInv, ThreadPart, LocalsKnown, SameCounts, netLocals
<1>9. chan.state # "conn"
  BY <1>1 DEF WsInv, ThreadPart
<1> QED BY <1>1, <1>5, <1>6, <1>7, <1>8, <1>9 DEF WsInv, ThreadPart

(* The end of a call that read nothing, and the request to wait.           *)
LEMMA ReadEndOk == ASSUME WsInv, chan.fault = "none", ReadEnd PROVE WsInv'
<1>1. /\ pc = "msg" /\ UNCHANGED <<frames, sent, peer, pollIn, netLocals, task, used, inbox, reads>>
      /\ (pc' = "head" /\ last') \/ (pc' = "over" /\ (last' <=> last))
  BY DEF ReadEnd, NothingRead, wire
<1>2. PICK d : d = [chan EXCEPT !.onReadWait = FALSE]
  OBVIOUS
<1>3. /\ d \in Chan /\ SamePack(chan, d) /\ SameCount(chan, d) /\ d.recvd = chan.recvd
      /\ d.fault = "none" /\ ~d.onReadWait /\ d.wait = chan.wait
      /\ d.sockClosed = chan.sockClosed
  BY <1>2 DEF WsInv, WsTypes, Chan, SamePack, SameCount
<1>4. chan' = d /\ last' \in BOOLEAN
  BY <1>2 DEF ReadEnd, WsInv, WsTypes
<1>5. DecoderPart'
  BY <1>1, <1>3, <1>4, DecoderStill
<1>6. WsTypes'
  BY <1>1, <1>3, <1>4 DEF WsInv, WsTypes, netLocals, Reading
<1>7. ReadInOnePlace'
  BY <1>1, <1>3, <1>4 DEF WsInv, ThreadPart, ReadInOnePlace, Reading
<1>8. LocalsKnown'
  BY <1>1, <1>3, <1>4 DEF WsInv, ThreadPart, LocalsKnown, SameCounts, netLocals, SameCount, SamePack
<1>9. chan.state # "conn" /\ d.state = chan.state
  BY <1>1, <1>3 DEF WsInv, ThreadPart, SamePack
<1> QED BY <1>1, <1>3, <1>4, <1>5, <1>6, <1>7, <1>8, <1>9 DEF WsInv, ThreadPart

LEMMA ReadWaitOk == ASSUME WsInv, chan.fault = "none", ReadOpen \/ ReadWait PROVE WsInv'
<1>1. UNCHANGED <<frames, sent, peer, chan, pollIn, netLocals, last, inbox, reads>>
  BY DEF ReadOpen, ReadWait, wire
<1>2. chan \in Chan /\ SamePack(chan, chan) /\ SameCount(chan, chan)
  BY DEF WsInv, WsTypes, SamePack, SameCount
<1>3. PICK d : d = chan
  OBVIOUS
<1>4. DecoderPart'
  BY <1>1, <1>2, <1>3, DecoderStill
<1>5. LocalsKnown'
  BY <1>1 DEF WsInv, ThreadPart, LocalsKnown, SameCounts, netLocals
<1>6. CASE ReadOpen
  <2>1. pc = "msg" /\ ~last /\ pc' = "readwait" /\ UNCHANGED <<task, used>>
    BY <1>6 DEF ReadOpen, NothingRead
  <2>2. WsTypes'
    BY <1>1, <2>1 DEF WsInv, WsTypes, netLocals, Reading
  <2>3. ReadInOnePlace'
    BY <1>1, <2>1 DEF WsInv, ThreadPart, ReadInOnePlace, Reading
  <2>4. chan.state # "conn"
    BY <2>1 DEF WsInv, ThreadPart
  <2> QED BY <1>1, <1>4, <1>5, <2>2, <2>3, <2>4 DEF WsInv, ThreadPart
<1>7. CASE ReadWait
  <2>1. pc = "readwait" /\ task' = Append(task, used) /\ pc' = "idle" /\ used' = 0
    BY <1>7 DEF ReadWait
  <2>2. task = << >> /\ ~chan.wait /\ ~InNotice /\ chan.onReadWait
    BY <2>1 DEF WsInv, ThreadPart, ReadInOnePlace, InNotice, Reading
  <2>3. used \in Int
    BY DEF WsInv, WsTypes
  <2>4. task' \in Seq(Int) /\ Len(task') = 1
    BY <2>1, <2>2, <2>3
  <2>5. WsTypes'
    BY <1>1, <2>1, <2>4 DEF WsInv, WsTypes, netLocals
  <2>6. ReadInOnePlace'
    BY <1>1, <2>1, <2>2, <2>4 DEF ReadInOnePlace, InNotice, Reading
  <2>7. chan.state # "conn"
    BY <2>1 DEF WsInv, ThreadPart
  <2> QED BY <1>1, <1>4, <1>5, <2>5, <2>6, <2>7 DEF WsInv, ThreadPart
<1> QED BY <1>6, <1>7

LEMMA SoundNow == ASSUME WsInv, chan.fault = "none" PROVE Sound(chan, Adding)
<1>1. /\ chan \in Chan /\ fill \in Nat /\ frames \in Seq(Frame) /\ sent \in Nat
      /\ Counts(chan, Adding) /\ chan.recvd <= sent /\ sent <= Start(Len(frames) + 1)
  BY DEF WsInv, WsTypes, DecoderPart, Bounds
<1>2. At(chan)
  BY DEF WsInv, DecoderPart
<1>3. Adding \in Nat
  BY <1>1 DEF Adding
<1>4. Len(frames) \in Nat /\ Len(frames) + 1 \in 1 .. Len(frames) + 1
  BY <1>1
<1>5. Start(Len(frames) + 1) \in Nat /\ chan.recvd \in Nat
  BY <1>1, <1>4, Starts DEF Chan
<1>6. chan.recvd <= Start(Len(frames) + 1)
  BY <1>1, <1>5
<1> QED BY <1>1, <1>2, <1>3, <1>6 DEF Sound

(* While a call reads, the net thread leaves the decoder alone.            *)
LEMMA CallReads ==
    ASSUME WsInv, pc \in Reading, pc' \in Reading \union {"idle", "over"},
           UNCHANGED <<netLocals, task, inbox>>, SameLink(chan, chan'), chan'.fault # "overrun",
           chan'.state = "conn" <=> chan.state = "conn",
           pc' \in Reading => pc' # "readwait" /\ (last' <=> last) /\ pc # "readwait"
    PROVE  ThreadPart'
<1>1. /\ task = << >> /\ ~chan.wait /\ ~InNotice /\ chan.state # "conn"
      /\ chan.onReadWait \/ (last /\ pc # "readwait")
  BY DEF WsInv, ThreadPart, ReadInOnePlace, InNotice, Reading
<1>2. task' = << >> /\ ~chan'.wait /\ ~InNotice' /\ chan'.state # "conn"
  BY <1>1 DEF SameLink, InNotice
<1>3. pc' \in Reading => chan'.onReadWait \/ (last' /\ pc' # "readwait")
  BY <1>1 DEF SameLink
<1>4. ReadInOnePlace'
  BY <1>2, <1>3 DEF ReadInOnePlace, InNotice
<1>5. LocalsKnown'
  BY <1>2 DEF LocalsKnown
<1> QED BY <1>2, <1>4, <1>5 DEF ThreadPart

LEMMA ReadHeadOk == ASSUME WsInv, chan.fault = "none", ReadHead PROVE WsInv'
<1>1. /\ pc = "head" /\ pc' = "body" /\ used' = chan.readable
      /\ UNCHANGED <<frames, sent, peer, pollIn, netLocals, task, last, inbox, reads>>
  BY DEF ReadHead, wire
<1>2. PICK c, more, h : c = chan /\ more = Adding /\ h = PackHead(c, c.readable)
  OBVIOUS
<1>3. chan' = h
  BY <1>2 DEF ReadHead
<1>4. Sound(c, more)
  BY <1>2, SoundNow
<1>5. /\ h \in Chan /\ SameUse(c, h) /\ At(h) /\ Counts(h, more)
      /\ h.fault \in {"none", "desync", "reentered"} /\ FaultOf(h)
  BY <1>2, <1>4, HeadOk
<1>6. DecoderPart'
  <2>1. Adding' = more /\ chan.recvd <= sent' /\ sent' <= Start(Len(frames) + 1)
    BY <1>1, <1>2 DEF Adding, netLocals, WsInv, DecoderPart, Bounds
  <2>2. h.recvd = chan.recvd /\ h.n = chan.n /\ chan.recvd \in Nat
    BY <1>2, <1>5 DEF SameUse, WsInv, WsTypes, Chan
  <2>3. h.recvd >= chan.recvd /\ h.recvd <= sent' /\ Counts(h, Adding')
    BY <2>1, <2>2, <1>5
  <2> QED BY <2>1, <2>2, <2>3, <1>1, <1>3, <1>5, DecoderKept
<1>7. WsTypes'
  <2>1. chan' \in Chan /\ used' \in Int
    BY <1>1, <1>3, <1>5 DEF WsInv, WsTypes, Chan
  <2> QED BY <2>1, <1>1 DEF WsInv, WsTypes, netLocals, Reading
<1>8. ThreadPart'
  <2>1. SameLink(chan, chan') /\ (chan'.state = "conn" <=> chan.state = "conn")
    BY <1>2, <1>3, <1>5 DEF SameUse, SameLink
  <2>2. chan'.fault # "overrun"
    BY <1>3, <1>5
  <2> QED BY <2>1, <2>2, <1>1, CallReads DEF Reading
<1> QED BY <1>6, <1>7, <1>8 DEF WsInv

LEMMA ReadDecodeOk == ASSUME WsInv, chan.fault = "none", ReadDecode PROVE WsInv'
<1>1. /\ pc = "body" /\ pc' = "msg"
      /\ UNCHANGED <<frames, sent, peer, pollIn, netLocals, task, used, last, inbox, reads>>
  BY DEF ReadDecode, wire
<1>2. PICK c, more, d : c = chan /\ more = Adding /\ d = DecBody(c, c.readable4Dec)
  OBVIOUS
<1>3. chan' = d
  BY <1>2 DEF ReadDecode, Decodable
<1>4. Sound(c, more) /\ c.readable4Dec \in Int /\ c.fault = "none"
  BY <1>2, SoundNow DEF Sound, Chan
<1>5. d \in Chan /\ SameUse(c, d) /\ At(d) /\ Counts(d, more) /\ d.fault = "none"
  <2>1. c.readable4Dec <= c.readable4Dec
    BY <1>4
  <2> QED BY <2>1, <1>2, <1>4, BodyOk
<1>6. DecoderPart'
  <2>1. Adding' = more /\ chan.recvd <= sent' /\ sent' <= Start(Len(frames) + 1)
    BY <1>1, <1>2 DEF Adding, netLocals, WsInv, DecoderPart, Bounds
  <2>2. d.recvd = chan.recvd /\ d.n = chan.n /\ chan.recvd \in Nat
    BY <1>2, <1>5 DEF SameUse, WsInv, WsTypes, Chan
  <2>3. d.recvd >= chan.recvd /\ d.recvd <= sent' /\ Counts(d, Adding') /\ FaultOf(d)
    BY <2>1, <2>2, <1>5 DEF FaultOf
  <2> QED BY <2>1, <2>2, <2>3, <1>1, <1>3, <1>5, DecoderKept
<1>7. WsTypes'
  BY <1>1, <1>3, <1>5 DEF WsInv, WsTypes, netLocals, Reading
<1>8. ThreadPart'
  <2>1. SameLink(chan, chan') /\ (chan'.state = "conn" <=> chan.state = "conn")
    BY <1>2, <1>3, <1>5 DEF SameUse, SameLink
  <2>2. chan'.fault # "overrun"
    BY <1>3, <1>5
  <2> QED BY <2>1, <2>2, <1>1, CallReads DEF Reading
<1> QED BY <1>6, <1>7, <1>8 DEF WsInv

LEMMA HeadSet ==
    ASSUME NEW e \in Chan, NEW n1 \in Nat, NEW w \in BOOLEAN, NEW d,
           d = [e EXCEPT !.state = "head", !.metaRcvd = 0, !.n = n1, !.onReadWait = w]
    PROVE  d \in Chan
BY DEF Chan

(* A frame is handed over or dropped, and the next head is due; w says     *)
(* whether the read goes on.                                               *)
Passed(c, w) ==
    [IF c.state = "ready" THEN ReadBody(c) ELSE PackReset(c) EXCEPT !.onReadWait = w]

LEMMA MessageRead ==
    ASSUME NEW c, NEW more, Sound(c, more), c.fault = "none", HasMsg(c),
           NEW w \in BOOLEAN, NEW d, d = Passed(c, w)
    PROVE  /\ d \in Chan /\ d.recvd = c.recvd /\ d.wait = c.wait
           /\ d.sockClosed = c.sockClosed /\ d.fault = "none" /\ d.state = "head"
           /\ At(d) /\ Counts(d, more) /\ d.n = c.n + 1 /\ c.n \in 1 .. Len(frames)
           /\ c.size4Read = BodyStart(c.n) /\ c.size4Decode <= c.recvd
           /\ c.size4Decode = c.size4Read + Payload(c.n) /\ d.onReadWait = w
           /\ c.state = "ready" => frames[c.n].op = "data"
<1>1. /\ c \in Chan /\ At(c) /\ Counts(c, more) /\ frames \in Seq(Frame) /\ more \in Nat
      /\ c.state \in {"ready", "inner"} /\ InFrame(c)
  BY DEF Sound, HasMsg, InFrame
<1>2. /\ c.n \in 1 .. Len(frames) /\ AtBody(c) /\ c.size4Decode <= c.recvd
      /\ c.n + 1 \in 1 .. Len(frames) + 1 /\ c.n \in Nat \ {0}
  <2>1. c.n \in 1 .. Len(frames) + 1 /\ AtBody(c) /\ Pos(c) <= c.recvd
    BY <1>1 DEF At
  <2>2. c.n <= Len(frames) /\ c.size4Decode <= c.recvd
    BY <2>1, <1>1 DEF AtBody, Pos
  <2> QED BY <2>1, <2>2, <1>1
<1>3. PICK f : f = frames[c.n]
  OBVIOUS
<1>4. /\ Start(c.n + 1) = Start(c.n) + Head_(f) + f.body /\ Head_(f) \in Nat
      /\ f.body \in Nat /\ Start(c.n) \in Nat /\ Start(c.n + 1) \in Nat
      /\ f.op \in {"data", "inner", "cont"}
  <2>1. f \in Frame /\ c.n \in 1 .. Len(frames) + 1
    BY <1>1, <1>2, <1>3
  <2> QED BY <2>1, <1>1, <1>2, <1>3, Starts DEF Frame
<1>5. PICK s \in Nat, p \in Nat, b \in Nat, len \in Nat, r \in Nat, d4 \in Int, o \in Nat,
           rd \in Int :
          /\ s = c.size4Read /\ p = c.size4Decode /\ b = c.bodyDecCnt /\ len = c.bodyLen
          /\ r = c.recvd /\ d4 = c.readable4Dec /\ o = more /\ rd = c.readable
  BY <1>1 DEF Chan
<1>6. /\ s = Start(c.n) + Head_(f) /\ p = s + b /\ p <= r /\ rd = r - s /\ d4 + o = r - p
      /\ c.state = "ready" => b = len /\ len > 0 /\ len = BodyLen(f) /\ f.op = "data"
      /\ c.state = "inner" => b = 0 /\ f.op # "data"
  BY <1>1, <1>2, <1>3, <1>5 DEF AtBody, BodyStart, Counts, Pos
<1>7. c.state = "ready" => len = f.body
  BY <1>6 DEF BodyLen
<1>8. p = s + (IF f.op = "data" THEN f.body ELSE 0)
  BY <1>1, <1>6, <1>7
<1>9. PICK s1 \in Nat, k1 \in Int, n1 \in Nat :
          s1 = p /\ k1 = rd - (p - s) /\ n1 = c.n + 1
  BY <1>2
<1>10. /\ k1 = r - s1 /\ d4 + o = r - s1 /\ s1 <= r
       /\ s1 = Start(n1) \/ (s1 # Start(n1) /\ f.op # "data" /\ f.body > 0)
  <2>1. k1 = r - s1 /\ d4 + o = r - s1 /\ s1 <= r
    BY <1>6, <1>9
  <2>2. PICK x \in Nat, y \in Nat : x = Start(n1) /\ y = f.body
    BY <1>4, <1>9
  <2>3. x = s + y
    BY <2>2, <1>4, <1>6, <1>9
  <2>4. CASE f.op = "data"
    BY <2>1, <2>2, <2>3, <2>4, <1>8, <1>9
  <2>5. CASE f.op # "data"
    <3>1. s1 = s
      BY <2>5, <1>8, <1>9
    <3>2. s1 = x \/ (s1 # x /\ y > 0)
      BY <3>1, <2>3
    <3> QED BY <3>2, <2>1, <2>2, <2>5
  <2> QED BY <2>4, <2>5, <1>4
<1>11. PICK e : e = IF c.state = "ready" THEN [c EXCEPT !.size4Read = s1, !.readable = k1]
                     ELSE c
  OBVIOUS
<1>12. /\ e \in Chan /\ SameLink(c, e) /\ e.fault = "none" /\ e.size4Read = s1
       /\ e.readable = k1 /\ e.readable4Dec = d4 /\ e.n = c.n
       /\ d = [PackReset(e) EXCEPT !.onReadWait = w]
  <2>1. CASE c.state = "ready"
    <3>1. s + len = s1 /\ rd - len = k1
      BY <1>6, <1>9, <2>1
    <3>2. e = [c EXCEPT !.size4Read = s1, !.readable = k1]
      BY <1>11, <2>1
    <3>3. d = [PackReset(e) EXCEPT !.onReadWait = w]
      BY <3>1, <3>2, <1>5, <2>1 DEF ReadBody, Passed
    <3> QED BY <3>2, <3>3, <1>1, <1>5 DEF Chan, SameLink
  <2>2. CASE c.state = "inner"
    <3>1. s = s1 /\ rd = k1
      BY <1>6, <1>9, <2>2
    <3>2. e = c /\ d = [PackReset(e) EXCEPT !.onReadWait = w]
      BY <1>11, <2>2 DEF Passed
    <3> QED BY <3>1, <3>2, <1>1, <1>5 DEF SameLink
  <2> QED BY <1>1, <2>1, <2>2
<1>13. /\ d \in Chan /\ d.recvd = c.recvd /\ d.wait = c.wait /\ d.sockClosed = c.sockClosed
       /\ d.onReadWait = w /\ d.fault = "none" /\ d.state = "head" /\ d.n = n1 /\ d.size4Read = s1
       /\ d.readable = k1 /\ d.readable4Dec = d4 /\ d.metaRcvd = 0
  <2>1. d = [e EXCEPT !.state = "head", !.metaRcvd = 0, !.n = n1, !.onReadWait = w]
    BY <1>9, <1>12 DEF PackReset
  <2>2. d \in Chan
    BY <2>1, <1>12, HeadSet
  <2> QED BY <2>1, <2>2, <1>12 DEF Chan, SameLink
<1>14. ~InFrame(d) /\ Pos(d) = s1
  BY <1>13 DEF InFrame, Pos
<1>15. AtHead(d)
  <2>1. n1 - 1 = c.n /\ n1 \in 2 .. Len(frames) + 1
    BY <1>1, <1>2, <1>9
  <2> QED BY <2>1, <1>3, <1>10, <1>13 DEF AtHead, OffFrame
<1>16. At(d)
  BY <1>2, <1>5, <1>9, <1>10, <1>13, <1>14, <1>15 DEF At
<1>17. Counts(d, more)
  BY <1>5, <1>10, <1>13, <1>14 DEF Counts
<1>18. c.size4Read = BodyStart(c.n)
  BY <1>2 DEF AtBody
<1>19. c.size4Decode = c.size4Read + Payload(c.n)
  BY <1>3, <1>5, <1>8 DEF Payload
<1> QED BY <1>2, <1>3, <1>5, <1>6, <1>9, <1>13, <1>16, <1>17, <1>18, <1>19

(* The frame is behind the decoder: it was read, or a continuation.        *)
LEMMA FramePassed ==
    ASSUME WsInv, chan.fault = "none", HasMsg(chan), UNCHANGED <<frames, sent, netLocals>>,
           NEW w \in BOOLEAN, NEW d, d = Passed(chan, w), chan' = d, NEW m,
           m = [n |-> chan.n, from |-> chan.size4Read, to |-> chan.size4Decode],
           \/ reads' = Append(reads, m)
           \/ reads' = reads /\ frames[chan.n].op = "cont"
    PROVE  /\ DecoderPart' /\ d \in Chan /\ reads' \in Seq(Reads)
           /\ d.wait = chan.wait /\ d.sockClosed = chan.sockClosed /\ d.fault = "none"
           /\ d.state = "head" /\ d.onReadWait = w
<1>1. PICK c, more : c = chan /\ more = Adding
  OBVIOUS
<1>2. Sound(c, more) /\ c \in Chan /\ c.fault = "none" /\ HasMsg(c) /\ d = Passed(c, w)
  BY <1>1, SoundNow DEF Sound
<1>3. /\ d \in Chan /\ d.recvd = c.recvd /\ d.wait = c.wait /\ d.onReadWait = w
      /\ d.sockClosed = c.sockClosed /\ d.fault = "none" /\ d.state = "head"
      /\ At(d) /\ Counts(d, more) /\ d.n = c.n + 1 /\ c.n \in 1 .. Len(frames)
      /\ c.size4Read = BodyStart(c.n) /\ c.size4Decode <= c.recvd
      /\ c.size4Decode = c.size4Read + Payload(c.n)
  BY <1>2, MessageRead
<1>4. /\ m \in Reads /\ m.n = c.n /\ m.from = c.size4Read /\ m.to = c.size4Decode
  BY <1>1, <1>2 DEF Chan, Reads
<1>5. /\ reads \in Seq(Reads) /\ FramesReadWhole
      /\ c.recvd <= sent /\ sent <= Start(Len(frames) + 1)
  BY <1>1 DEF WsInv, WsTypes, DecoderPart, Bounds
<1>6. /\ At(chan)' /\ FaultOf(chan)'
      /\ \A i : BodyStart(i)' = BodyStart(i) /\ Start(i)' = Start(i)
      /\ \A i : Payload(i)' = Payload(i)
  BY <1>3, FramesStay DEF FaultOf, Payload
<1>7. Counts(chan, Adding)' /\ Bounds'
  <2>1. Adding' = more /\ Len(frames') = Len(frames) /\ sent' = sent
    BY <1>1 DEF Adding, netLocals
  <2>2. Counts(d, Adding')
    BY <2>1, <1>3
  <2> QED BY <2>1, <2>2, <1>3, <1>5, <1>6 DEF Bounds, Counts, Pos, InFrame
<1>8. /\ \A i \in 1 .. Len(reads) :
            /\ reads[i].n \in 1 .. c.n - 1 /\ reads[i].from = BodyStart(reads[i].n)
            /\ reads[i].to <= c.recvd /\ reads[i].to = reads[i].from + Payload(reads[i].n)
      /\ \A i, j \in 1 .. Len(reads) : i < j => reads[i].n < reads[j].n
      /\ \A k \in 1 .. c.n - 1 :
            frames[k].op # "cont" => \E i \in 1 .. Len(reads) : reads[i].n = k
  BY <1>1, <1>5 DEF FramesReadWhole
<1>9. PICK q : q = reads'
  OBVIOUS
<1>10. PICK len \in Nat : len = Len(reads)
  BY <1>5
<1>11. /\ q \in Seq(Reads) /\ Len(q) \in len .. len + 1
       /\ \A i \in 1 .. len : q[i] = reads[i]
       /\ Len(q) = len + 1 => q[len + 1] = m
       /\ Len(q) = len => frames[c.n].op = "cont"
  <2>1. m \in Reads /\ reads \in Seq(Reads)
    BY <1>4, <1>5
  <2>2. CASE reads' = Append(reads, m)
    <3>1. /\ Append(reads, m) \in Seq(Reads) /\ Len(Append(reads, m)) = Len(reads) + 1
          /\ \A i \in 1 .. Len(reads) : Append(reads, m)[i] = reads[i]
          /\ Append(reads, m)[Len(reads) + 1] = m
      BY <2>1
    <3> QED BY <3>1, <2>2, <1>9, <1>10
  <2>3. CASE reads' = reads /\ frames[chan.n].op = "cont"
    BY <2>1, <2>3, <1>1, <1>9, <1>10
  <2> QED BY <2>2, <2>3
<1>12. /\ \A i \in 1 .. Len(q) :
             /\ q[i].n \in 1 .. c.n /\ q[i].from = BodyStart(q[i].n)
             /\ q[i].to <= c.recvd /\ q[i].to = q[i].from + Payload(q[i].n)
       /\ \A i, j \in 1 .. Len(q) : i < j => q[i].n < q[j].n
       /\ \A k \in 1 .. c.n :
             frames[k].op # "cont" => \E i \in 1 .. Len(q) : q[i].n = k
  <2>1. ASSUME NEW i \in 1 .. Len(q)
        PROVE  /\ q[i].n \in 1 .. c.n /\ q[i].from = BodyStart(q[i].n)
               /\ q[i].to <= c.recvd /\ q[i].to = q[i].from + Payload(q[i].n)
    <3>1. CASE i \in 1 .. len
      BY <3>1, <1>3, <1>8, <1>10, <1>11
    <3>2. CASE i = len + 1 /\ Len(q) = len + 1
      BY <3>2, <1>3, <1>4, <1>11
    <3> QED BY <3>1, <3>2, <1>11
  <2>2. ASSUME NEW i \in 1 .. Len(q), NEW j \in 1 .. Len(q), i < j PROVE q[i].n < q[j].n
    <3>1. i \in 1 .. len
      BY <2>2, <1>11
    <3>2. q[i].n \in 1 .. c.n - 1 /\ q[i] = reads[i]
      BY <3>1, <1>8, <1>10, <1>11
    <3>3. CASE j \in 1 .. len
      BY <3>1, <3>3, <2>2, <1>8, <1>10, <1>11
    <3>4. CASE j = len + 1 /\ Len(q) = len + 1
      BY <3>2, <3>4, <1>3, <1>4, <1>11
    <3> QED BY <3>3, <3>4, <1>11
  <2>3. ASSUME NEW k \in 1 .. c.n, frames[k].op # "cont"
        PROVE  \E i \in 1 .. Len(q) : q[i].n = k
    <3>1. CASE k \in 1 .. c.n - 1
      <4>1. PICK i \in 1 .. len : reads[i].n = k
        BY <3>1, <2>3, <1>8, <1>10
      <4> QED BY <4>1, <1>11
    <3>2. CASE k = c.n
      <4>1. Len(q) = len + 1 /\ q[len + 1].n = k /\ len + 1 \in 1 .. Len(q)
        BY <3>2, <2>3, <1>4, <1>11
      <4> QED BY <4>1
    <3> QED BY <3>1, <3>2, <1>3
  <2> QED BY <2>1, <2>2, <2>3
<1>13. FramesReadWhole'
  <2>1. chan'.n - 1 = c.n /\ chan'.recvd = c.recvd
    BY <1>3
  <2> QED BY <2>1, <1>6, <1>9, <1>12 DEF FramesReadWhole
<1> QED BY <1>1, <1>3, <1>6, <1>7, <1>9, <1>11, <1>13 DEF DecoderPart


LEMMA CallEnded ==
    ASSUME WsInv, pc = "msg", pc' \in {"idle", "over"},
           UNCHANGED <<netLocals, task, inbox>>, chan'.wait = chan.wait,
           chan'.fault # "overrun", chan'.state = "conn" <=> chan.state = "conn"
    PROVE  ThreadPart'
<1>1. /\ task = << >> /\ ~chan.wait /\ ~InNotice /\ chan.state # "conn"
  BY DEF WsInv, ThreadPart, ReadInOnePlace, InNotice, Reading
<1>2. task' = << >> /\ ~chan'.wait /\ ~InNotice' /\ chan'.state # "conn" /\ pc' \notin Reading
  BY <1>1 DEF InNotice, Reading
<1>3. ReadInOnePlace'
  BY <1>2 DEF ReadInOnePlace, InNotice
<1>4. LocalsKnown'
  BY <1>2 DEF LocalsKnown
<1> QED BY <1>2, <1>3, <1>4 DEF ThreadPart

LEMMA ReadMsgOk == ASSUME WsInv, chan.fault = "none", ReadMsg PROVE WsInv'
<1>1. /\ pc = "msg" /\ pc' \in {"idle", "over"} /\ (HasMsg(chan) \/ chan.err) /\ ~AtContinuation
      /\ UNCHANGED <<frames, sent, peer, pollIn, netLocals, task, used, last, inbox>>
  BY DEF ReadMsg, wire
<1>2. PICK c, more : c = chan /\ more = Adding
  OBVIOUS
<1>3. Sound(c, more) /\ c \in Chan
  BY <1>2, SoundNow DEF Sound
<1>4. WsTypes' <=> chan' \in Chan /\ reads' \in Seq(Reads)
  BY <1>1 DEF WsInv, WsTypes, netLocals, Reading
<1>5. CASE chan.err
  <2>1. PICK d : d = [c EXCEPT !.onReadWait = FALSE]
    OBVIOUS
  <2>2. chan' = d /\ reads' = reads
    BY <2>1, <1>2, <1>5 DEF ReadMsg
  <2>3. /\ d \in Chan /\ SamePack(c, d) /\ SameCount(c, d) /\ d.recvd = c.recvd
        /\ d.fault = c.fault /\ d.wait = c.wait /\ d.sockClosed = c.sockClosed
        /\ d.state = c.state
    BY <2>1, <1>3 DEF Chan, SamePack, SameCount
  <2>4. DecoderPart'
    BY <2>2, <2>3, <1>1, <1>2, DecoderStill
  <2>5. WsTypes'
    BY <2>2, <2>3, <1>4 DEF WsInv, WsTypes
  <2>6. ThreadPart'
    BY <2>2, <2>3, <1>1, <1>2, CallEnded
  <2> QED BY <2>4, <2>5, <2>6 DEF WsInv
<1>6. CASE ~chan.err
  <2>1. PICK d, m : /\ m = [n |-> chan.n, from |-> chan.size4Read, to |-> chan.size4Decode]
                    /\ d = Passed(chan, FALSE)
    OBVIOUS
  <2>2. chan' = d /\ reads' = Append(reads, m) /\ HasMsg(chan)
    BY <2>1, <1>1, <1>6 DEF ReadMsg, Passed
  <2>3. /\ DecoderPart' /\ d \in Chan /\ reads' \in Seq(Reads) /\ d.wait = chan.wait
        /\ d.fault = "none" /\ d.state = "head"
    BY <2>1, <2>2, <1>1, FramePassed
  <2>4. chan.state # "conn"
    BY <2>2 DEF HasMsg
  <2> QED BY <2>2, <2>3, <2>4, <1>1, <1>4, CallEnded DEF WsInv
<1> QED BY <1>5, <1>6

(* A continuation is dropped, and the call goes on.                        *)
LEMMA ReadDropOk == ASSUME WsInv, chan.fault = "none", ReadDrop PROVE WsInv'
<1>1. /\ pc = "msg" /\ HasMsg(chan) /\ frames[chan.n].op = "cont"
      /\ UNCHANGED <<frames, sent, peer, pollIn, netLocals, task, pc, used, last, inbox, reads>>
      /\ chan' = PackReset(chan)
  BY DEF ReadDrop, AtContinuation, wire, svcVars
<1>2. chan \in Chan /\ chan.onReadWait \in BOOLEAN
  BY DEF WsInv, WsTypes, Chan
<1>3. chan.state # "ready"
  <2>1. PICK c, more : c = chan /\ more = Adding
    OBVIOUS
  <2>2. Sound(c, more) /\ c.fault = "none" /\ HasMsg(c)
    BY <2>1, <1>1, SoundNow
  <2>3. c.state = "ready" => frames[c.n].op = "data"
    BY <2>2, MessageRead
  <2> QED BY <2>1, <2>3, <1>1
<1>4. PICK d, m, w : /\ m = [n |-> chan.n, from |-> chan.size4Read, to |-> chan.size4Decode]
                     /\ w = chan.onReadWait /\ d = Passed(chan, w)
  OBVIOUS
<1>5. chan' = d
  <2>1. [PackReset(chan) EXCEPT !.onReadWait = w] = PackReset(chan)
    BY <1>2, <1>4 DEF PackReset, Chan
  <2> QED BY <2>1, <1>1, <1>3, <1>4 DEF Passed
<1>6. /\ DecoderPart' /\ d \in Chan /\ reads' \in Seq(Reads) /\ d.wait = chan.wait
      /\ d.fault = "none" /\ d.state = "head" /\ d.onReadWait = chan.onReadWait
  BY <1>1, <1>2, <1>4, <1>5, FramePassed
<1>7. WsTypes'
  BY <1>1, <1>5, <1>6 DEF WsInv, WsTypes, netLocals
<1>8. ReadInOnePlace' /\ ~chan.wait
  BY <1>1, <1>5, <1>6 DEF WsInv, ThreadPart, ReadInOnePlace, Reading
<1>9. LocalsKnown'
  BY <1>5, <1>6, <1>8 DEF LocalsKnown
<1> QED BY <1>5, <1>6, <1>7, <1>8, <1>9 DEF WsInv, ThreadPart
-----------------------------------------------------------------------------
(* What the net thread reads from the socket.                              *)
LEMMA PlaceKept ==
    ASSUME WsInv, chan.fault = "none", UNCHANGED <<task, pc, last, inbox>>,
           chan'.wait = chan.wait, chan'.onReadWait = chan.onReadWait,
           chan'.fault = "none", chan'.state = chan.state, LocalsKnown'
    PROVE  ThreadPart'
<1>1. ReadInOnePlace'
  BY DEF WsInv, ThreadPart, ReadInOnePlace
<1> QED BY <1>1 DEF WsInv, ThreadPart

LEMMA PollReadOk == ASSUME WsInv, chan.fault = "none", PollRead PROVE WsInv'
<1>1. /\ netPc = "poll" /\ netPc' = "fill" /\ readable' = 0 /\ readable4Dec' = 0
      /\ sent > chan.recvd \/ peer = "gone"
      /\ UNCHANGED <<frames, sent, peer, chan, pollIn, fill, task, pc, used, last, inbox, reads>>
  BY DEF PollRead, wire, svcVars
<1>2. chan \in Chan /\ SamePack(chan, chan) /\ SameCount(chan, chan)
  BY DEF WsInv, WsTypes, SamePack, SameCount
<1>3. PICK d : d = chan
  OBVIOUS
<1>4. Adding' = Adding /\ sent <= sent' /\ sent' <= Start(Len(frames) + 1) /\ sent' \in Nat
  BY <1>1 DEF Adding, WsInv, WsTypes, DecoderPart, Bounds
<1>5. DecoderPart'
  BY <1>1, <1>2, <1>3, <1>4, DecoderSame
<1>6. WsTypes'
  BY <1>1 DEF WsInv, WsTypes
<1>7. LocalsKnown'
  BY <1>1 DEF LocalsKnown
<1> QED BY <1>1, <1>5, <1>6, <1>7, PlaceKept DEF WsInv

LEMMA FillOk == ASSUME WsInv, chan.fault = "none", Fill PROVE WsInv'
<1>1. /\ netPc = "fill" /\ sent > chan.recvd /\ fill' = sent - chan.recvd
      /\ netPc' = "fill4dec" /\ readable' = chan'.readable
      /\ UNCHANGED <<frames, sent, peer, pollIn, readable4Dec, task, pc, used, last, inbox, reads>>
  BY DEF Fill, wire, svcVars
<1>2. PICK more \in Nat, r \in Nat, top \in Nat :
          more = sent - chan.recvd /\ r = chan.recvd /\ top = sent
  BY <1>1 DEF WsInv, WsTypes, Chan
<1>3. /\ chan \in Chan /\ At(chan) /\ Counts(chan, 0) /\ top <= Start(Len(frames) + 1)
  BY <1>1, <1>2 DEF WsInv, WsTypes, DecoderPart, Adding, Bounds
<1>4. PICK k \in Int : k = chan.readable + more
  BY <1>3 DEF Chan
<1>5. PICK d : d = [chan EXCEPT !.recvd = top, !.readable = k]
  OBVIOUS
<1>6. chan' = d
  BY <1>1, <1>2, <1>4, <1>5 DEF Fill
<1>7. /\ d \in Chan /\ SamePack(chan, d) /\ d.readable = k /\ d.recvd = top
      /\ d.readable4Dec = chan.readable4Dec /\ d.size4Read = chan.size4Read
      /\ d.fault = "none" /\ d.wait = chan.wait /\ d.onReadWait = chan.onReadWait
      /\ d.state = chan.state
  BY <1>3, <1>5 DEF Chan, SamePack
<1>8. PICK p \in Nat, s \in Nat, d4 \in Int :
          p = Pos(chan) /\ s = chan.size4Read /\ d4 = chan.readable4Dec
  BY <1>3 DEF Chan, Pos
<1>9. Pos(d) = p
  BY <1>7, <1>8 DEF Pos, InFrame, SamePack
<1>10. top = r + more /\ p <= r /\ p <= top /\ d4 = r - p /\ k = top - s /\ d4 + more = top - p
  <2>1. p <= r
    BY <1>2, <1>3, <1>8 DEF At
  <2>2. chan.readable = r - s /\ d4 + 0 = r - p
    BY <1>2, <1>3, <1>8 DEF Counts
  <2>3. more = top - r /\ k = chan.readable + more
    BY <1>2, <1>4
  <2> QED BY <2>1, <2>2, <2>3
<1>11. At(d)
  BY <1>3, <1>7, <1>9, <1>10 DEF At, AtHead, AtBody, OffFrame, InFrame, SamePack
<1>12. Counts(d, Adding')
  BY <1>1, <1>2, <1>7, <1>8, <1>9, <1>10 DEF Counts, Adding
<1>13. d.recvd >= chan.recvd /\ d.recvd <= sent' /\ sent' <= Start(Len(frames) + 1)
  <2>1. d.recvd = top /\ chan.recvd = r /\ sent' = top /\ top >= r /\ top <= top
    BY <1>1, <1>2, <1>7, <1>10
  <2> QED BY <2>1, <1>3
<1>14. DecoderPart'
  BY <1>1, <1>6, <1>7, <1>11, <1>12, <1>13, DecoderKept DEF FaultOf, SamePack
<1>15. WsTypes'
  BY <1>1, <1>2, <1>6, <1>7 DEF WsInv, WsTypes, Chan
<1>16. LocalsKnown'
  BY <1>1 DEF LocalsKnown
<1> QED BY <1>1, <1>6, <1>7, <1>14, <1>15, <1>16, PlaceKept DEF WsInv

LEMMA Fill4DecOk == ASSUME WsInv, chan.fault = "none", Fill4Dec PROVE WsInv'
<1>1. /\ netPc = "fill4dec" /\ netPc' = "fill" /\ fill' = 0
      /\ readable4Dec' = chan'.readable4Dec
      /\ UNCHANGED <<frames, sent, peer, pollIn, readable, task, pc, used, last, inbox, reads>>
  BY DEF Fill4Dec, wire, svcVars
<1>2. /\ chan \in Chan /\ At(chan) /\ Counts(chan, fill) /\ fill \in Nat
      /\ chan.recvd <= sent /\ sent <= Start(Len(frames) + 1)
  BY <1>1 DEF WsInv, WsTypes, DecoderPart, Adding, Bounds
<1>3. PICK d4 \in Int : d4 = chan.readable4Dec + fill
  BY <1>2 DEF Chan
<1>4. PICK d : d = [chan EXCEPT !.readable4Dec = d4]
  OBVIOUS
<1>5. chan' = d
  BY <1>3, <1>4 DEF Fill4Dec
<1>6. /\ d \in Chan /\ SamePack(chan, d) /\ d.readable = chan.readable
      /\ d.recvd = chan.recvd /\ d.readable4Dec = d4 /\ d.size4Read = chan.size4Read
      /\ d.fault = "none" /\ d.wait = chan.wait /\ d.onReadWait = chan.onReadWait
      /\ d.state = chan.state
  BY <1>2, <1>4 DEF Chan, SamePack
<1>7. At(d)
  BY <1>2, <1>6 DEF At, AtHead, AtBody, OffFrame, Pos, InFrame, SamePack
<1>8. Counts(d, Adding')
  <2>1. Pos(d) = Pos(chan)
    BY <1>6 DEF Pos, InFrame, SamePack
  <2>2. d4 + 0 = chan.recvd - Pos(chan) /\ chan.readable = chan.recvd - chan.size4Read
    BY <1>2, <1>3 DEF Counts
  <2> QED BY <2>1, <2>2, <1>1, <1>6 DEF Counts, Adding
<1>9. d.recvd >= chan.recvd /\ d.recvd <= sent' /\ sent' <= Start(Len(frames) + 1)
  BY <1>1, <1>2, <1>6 DEF Chan
<1>10. DecoderPart'
  BY <1>1, <1>5, <1>6, <1>7, <1>8, <1>9, DecoderKept DEF FaultOf, SamePack
<1>11. WsTypes'
  BY <1>1, <1>5, <1>6 DEF WsInv, WsTypes, Chan
<1>12. LocalsKnown'
  BY <1>1, <1>5, <1>6 DEF WsInv, ThreadPart, LocalsKnown, SameCounts
<1> QED BY <1>1, <1>5, <1>6, <1>10, <1>11, <1>12, PlaceKept DEF WsInv

LEMMA FillEndOk == ASSUME WsInv, chan.fault = "none", FillEnd PROVE WsInv'
<1>1. /\ netPc = "fill" /\ sent = chan.recvd /\ netPc' = "trigger"
      /\ pollIn' = (pollIn /\ peer = "open")
      /\ UNCHANGED <<frames, sent, peer, fill, readable, readable4Dec, task, pc, used, last, inbox, reads>>
  BY DEF FillEnd, wire, svcVars
<1>2. PICK gone \in BOOLEAN : gone = (peer = "gone")
  OBVIOUS
<1>3. PICK d : d = [chan EXCEPT !.sockClosed = gone]
  OBVIOUS
<1>4. chan' = d
  BY <1>2, <1>3 DEF FillEnd
<1>5. /\ d \in Chan /\ SamePack(chan, d) /\ SameCount(chan, d) /\ d.recvd = chan.recvd
      /\ d.fault = "none" /\ d.wait = chan.wait /\ d.onReadWait = chan.onReadWait
      /\ d.state = chan.state /\ (d.sockClosed <=> gone)
  BY <1>3 DEF WsInv, WsTypes, Chan, SamePack, SameCount
<1>6. Adding' = Adding /\ sent <= sent' /\ sent' <= Start(Len(frames) + 1) /\ sent' \in Nat
  BY <1>1 DEF Adding, WsInv, WsTypes, DecoderPart, Bounds
<1>7. DecoderPart'
  BY <1>1, <1>4, <1>5, <1>6, DecoderSame
<1>8. WsTypes'
  <2>1. pollIn' \in BOOLEAN
    BY <1>1
  <2> QED BY <2>1, <1>1, <1>4, <1>5 DEF WsInv, WsTypes
<1>9. LocalsKnown'
  <2>1. ~(sent > chan.recvd)
    BY <1>1 DEF WsInv, WsTypes, Chan
  <2>2. chan.wait \/ chan.state = "conn" => SameCounts \/ peer = "gone"
    BY <2>1, <1>1 DEF WsInv, ThreadPart, LocalsKnown
  <2>3. SameCounts => SameCounts'
    BY <1>1, <1>4, <1>5 DEF SameCounts, SameCount
  <2> QED BY <2>2, <2>3, <1>1, <1>2, <1>4, <1>5 DEF LocalsKnown
<1> QED BY <1>1, <1>4, <1>5, <1>7, <1>8, <1>9, PlaceKept DEF WsInv

LEMMA PeerOk == ASSUME WsInv, chan.fault = "none", PeerSend \/ PeerEnd PROVE WsInv'
<1>1. /\ sent' = sent \/ (sent < Start(Len(frames) + 1) /\ sent' = sent + 1)
      /\ peer' = peer \/ peer' = "gone"
      /\ UNCHANGED <<frames, chan, pollIn, netLocals, task, pc, used, last, inbox, reads>>
  BY DEF PeerSend, PeerEnd, svcVars
<1>2. chan \in Chan /\ SamePack(chan, chan) /\ SameCount(chan, chan)
  BY DEF WsInv, WsTypes, SamePack, SameCount
<1>3. PICK d : d = chan
  OBVIOUS
<1>4. /\ sent \in Nat /\ sent <= Start(Len(frames) + 1) /\ Start(Len(frames) + 1) \in Nat
      /\ chan.recvd \in Nat
  <2>1. frames \in Seq(Frame) /\ sent \in Nat /\ sent <= Start(Len(frames) + 1)
    BY DEF WsInv, WsTypes, DecoderPart, Bounds
  <2>2. Len(frames) \in Nat /\ Len(frames) + 1 \in 1 .. Len(frames) + 1
    BY <2>1
  <2> QED BY <2>1, <2>2, <1>2, Starts DEF Chan
<1>5. Adding' = Adding /\ sent <= sent' /\ sent' <= Start(Len(frames) + 1) /\ sent' \in Nat
  BY <1>1, <1>4 DEF Adding, netLocals
<1>6. DecoderPart'
  BY <1>1, <1>2, <1>3, <1>5, DecoderSame
<1>7. WsTypes'
  BY <1>1, <1>5 DEF WsInv, WsTypes, netLocals
<1>8. LocalsKnown'
  <2>1. sent > chan.recvd => sent' > chan.recvd
    BY <1>4, <1>5
  <2>2. peer = "gone" => peer' = "gone"
    BY <1>1
  <2> QED BY <2>1, <2>2, <1>1 DEF WsInv, ThreadPart, LocalsKnown, SameCounts, netLocals
<1> QED BY <1>1, <1>6, <1>7, <1>8, PlaceKept DEF WsInv
-----------------------------------------------------------------------------
(* The net thread in the decoder.                                          *)
LEMMA SameAt ==
    ASSUME NEW c, NEW d, NEW more, SamePack(c, d), SameCount(c, d), d.recvd = c.recvd,
           d.fault = c.fault
    PROVE  (At(c) => At(d)) /\ (Counts(c, more) => Counts(d, more)) /\ (FaultOf(c) => FaultOf(d))
<1>1. At(c) => At(d)
  BY DEF At, AtHead, AtBody, OffFrame, Pos, InFrame, SamePack, SameCount
<1>2. Counts(c, more) => Counts(d, more)
  BY DEF Counts, Pos, InFrame, SamePack, SameCount
<1>3. FaultOf(c) => FaultOf(d)
  BY DEF FaultOf, OverrunOf, SamePack
<1> QED BY <1>1, <1>2, <1>3

(* The decoder after a look, when the net thread was at no count.          *)
LEMMA LookedAt ==
    ASSUME WsInv, chan.fault = "none", Adding = 0, Adding' = 0,
           UNCHANGED <<frames, sent, reads>>, NEW c, c = chan, NEW e \in Chan, SameUse(c, e),
           Counts(e, 0), FaultOf(e), e.fault # "overrun" => At(e),
           NEW d \in Chan, chan' = d, SamePack(e, d), SameCount(e, d), d.recvd = e.recvd,
           d.fault = e.fault
    PROVE  DecoderPart'
<1>1. (At(e) => At(d)) /\ Counts(d, 0) /\ FaultOf(d)
  BY SameAt
<1>2. chan.recvd <= sent /\ sent <= Start(Len(frames) + 1) /\ chan.recvd \in Nat
  BY DEF WsInv, WsTypes, DecoderPart, Bounds, Chan
<1>3. d.recvd = chan.recvd /\ d.n = chan.n
  BY DEF SameUse, SamePack
<1>4. d.recvd >= chan.recvd /\ d.recvd <= sent' /\ sent' <= Start(Len(frames) + 1)
  BY <1>2, <1>3
<1> QED BY <1>1, <1>3, <1>4, DecoderKept

LEMMA DoReadWaitOk == ASSUME WsInv, chan.fault = "none", DoReadWait PROVE WsInv'
<1>1. /\ netPc = "poll" /\ task # << >> /\ task' = Tail(task)
      /\ UNCHANGED <<frames, sent, peer, netLocals, pc, used, last, reads>>
  BY DEF DoReadWait, wire, svcVars
<1>2. PICK look \in BOOLEAN : look <=> Newer(chan.readable, Head(task))
  OBVIOUS
<1>3. PICK c, h, k, e :
          /\ c = chan
          /\ h = (IF look THEN PackHead(c, c.readable) ELSE c) /\ k = h.readable4Dec
          /\ e = (IF look THEN DecBody(h, k) ELSE c)
  OBVIOUS
<1>4. \/ look /\ h.err /\ chan' = h /\ UNCHANGED <<inbox, pollIn>>
      \/ chan' = e /\ SendReadNotify /\ UNCHANGED pollIn
      \/ chan' = [e EXCEPT !.wait = TRUE] /\ pollIn' = TRUE /\ UNCHANGED inbox
  BY <1>2, <1>3 DEF DoReadWait
<1>5. /\ Sound(c, 0) /\ c.fault = "none" /\ c \in Chan /\ At(c) /\ Counts(c, 0)
      /\ Adding = 0 /\ Adding' = 0
  <2>1. Adding = 0 /\ Adding' = 0
    BY <1>1 DEF Adding, netLocals
  <2> QED BY <2>1, <1>3, SoundNow DEF Sound
<1>6. /\ h \in Chan /\ SameUse(c, h) /\ At(h) /\ Counts(h, 0)
      /\ h.fault # "overrun" /\ FaultOf(h)
  <2>1. CASE look
    <3>1. h = PackHead(c, c.readable)
      BY <2>1, <1>3
    <3> QED BY <3>1, <1>5, HeadOk
  <2>2. CASE ~look
    <3>1. h = c
      BY <2>2, <1>3
    <3> QED BY <3>1, <1>5 DEF SameUse, FaultOf
  <2> QED BY <2>1, <2>2
<1>7. /\ e \in Chan /\ SameUse(c, e) /\ At(e) /\ Counts(e, 0)
      /\ e.fault # "overrun" /\ FaultOf(e)
  <2>1. CASE look
    <3>1. h = PackHead(c, c.readable) /\ e = DecBody(h, k)
      BY <2>1, <1>3
    <3>2. k \in Int /\ k <= h.readable4Dec
      BY <1>3, <1>6 DEF Chan
    <3> QED BY <3>1, <3>2, <1>5, LookOk
  <2>2. CASE ~look
    <3>1. e = c
      BY <2>2, <1>3
    <3> QED BY <3>1, <1>5 DEF SameUse, FaultOf
  <2> QED BY <2>1, <2>2
<1>8. /\ ~c.wait /\ ~InNotice /\ pc = "idle" /\ c.onReadWait /\ c.state # "conn"
      /\ task' = << >>
  <2>1. ~c.wait /\ ~InNotice /\ pc = "idle" /\ c.onReadWait /\ c.state # "conn" /\ Len(task) <= 1
    BY <1>1, <1>3 DEF WsInv, ThreadPart, ReadInOnePlace, InNotice
  <2>2. task \in Seq(Int)
    BY DEF WsInv, WsTypes
  <2>3. Tail(task) = << >>
    BY <2>1, <2>2, <1>1
  <2> QED BY <2>1, <2>3, <1>1
<1>9. /\ inbox \in Seq({"conn_in", "read_ret"}) /\ OnceIn(inbox) /\ pollIn \in BOOLEAN
  BY DEF WsInv, WsTypes
<1>10. ASSUME NEW g \in Chan, SameUse(c, g), At(g), Counts(g, 0), g.fault # "overrun", FaultOf(g),
              NEW d \in Chan, chan' = d, SamePack(g, d), SameCount(g, d), d.recvd = g.recvd,
              d.fault = g.fault, d.onReadWait = g.onReadWait, d.state = g.state,
              inbox' \in Seq({"conn_in", "read_ret"}), OnceIn(inbox'), pollIn' \in BOOLEAN,
              d.wait => ~InNotice'
       PROVE  WsInv'
  <2>1. DecoderPart'
    BY <1>1, <1>3, <1>5, <1>10, LookedAt
  <2>2. WsTypes'
    BY <1>1, <1>8, <1>10 DEF WsInv, WsTypes, netLocals
  <2>3. d.onReadWait /\ d.state # "conn"
    BY <1>8, <1>10 DEF SameUse
  <2>4. ReadInOnePlace'
    <3>0. task' = << >> /\ Len(<< >>) <= 1
      BY <1>8
    <3>1. Len(task') <= 1 /\ ~(task' # << >>) /\ pc' = "idle" /\ pc' \notin Reading
      <4>1. pc' = "idle" /\ "idle" \notin Reading
        BY <1>1, <1>8 DEF Reading
      <4> QED BY <3>0, <4>1
    <3>2. chan'.onReadWait /\ (chan'.wait => ~Has(inbox, "read_ret")')
      BY <2>3, <1>10 DEF InNotice
    <3> QED BY <3>1, <3>2 DEF ReadInOnePlace
  <2>5. LocalsKnown'
    BY <1>1 DEF LocalsKnown, netLocals
  <2> QED BY <2>1, <2>2, <2>3, <2>4, <2>5, <1>10 DEF WsInv, ThreadPart
<1>11. CASE look /\ h.err /\ chan' = h /\ UNCHANGED <<inbox, pollIn>>
  <2>1. SamePack(h, h) /\ SameCount(h, h)
    BY DEF SamePack, SameCount
  <2>2. ~InNotice'
    BY <1>8, <1>11 DEF InNotice
  <2> QED BY <2>1, <2>2, <1>6, <1>9, <1>10, <1>11
<1>12. CASE chan' = e /\ SendReadNotify /\ UNCHANGED pollIn
  <2>1. SamePack(e, e) /\ SameCount(e, e)
    BY DEF SamePack, SameCount
  <2>2. inbox' \in Seq({"conn_in", "read_ret"}) /\ OnceIn(inbox')
    <3>1. inbox' = Append(inbox, "read_ret") /\ ~Has(inbox, "read_ret")
      BY <1>8, <1>12 DEF SendReadNotify, InNotice
    <3> QED BY <3>1, <1>9, Pushed
  <2>3. ~e.wait
    BY <1>7, <1>8 DEF SameUse, Chan
  <2> QED BY <2>1, <2>2, <2>3, <1>7, <1>9, <1>10, <1>12
<1>13. CASE chan' = [e EXCEPT !.wait = TRUE] /\ pollIn' = TRUE /\ UNCHANGED inbox
  <2>1. PICK d : d = [e EXCEPT !.wait = TRUE]
    OBVIOUS
  <2>2. /\ d \in Chan /\ SamePack(e, d) /\ SameCount(e, d) /\ d.recvd = e.recvd
        /\ d.fault = e.fault /\ d.onReadWait = e.onReadWait /\ d.state = e.state
    BY <2>1, <1>7 DEF Chan, SamePack, SameCount
  <2>3. ~InNotice' /\ chan' = d
    BY <2>1, <1>8, <1>13 DEF InNotice
  <2> QED BY <2>2, <2>3, <1>7, <1>9, <1>10, <1>13
<1> QED BY <1>4, <1>11, <1>12, <1>13

(* What the net thread has once it took the bytes of the handshake off.    *)
LEMMA Greeted ==
    ASSUME WsInv, chan.fault = "none", netPc = "trigger", ~chan.sockClosed, chan.state = "conn",
           NEW e, e = Eat(chan, Lesser(readable, Hello - chan.size4Read))
    PROVE  /\ e \in Chan /\ SameLink(chan, e) /\ SamePack(chan, e) /\ e.fault = "none"
           /\ e.size4Read <= Hello /\ e.size4Read <= chan.recvd
           /\ e.readable = chan.recvd - e.size4Read /\ e.readable4Dec = chan.recvd - e.size4Read
           /\ chan.n = 1 /\ chan.metaRcvd = 0 /\ pc = "new" /\ inbox = << >>
           /\ chan.recvd <= sent /\ sent <= Start(Len(frames) + 1) /\ frames \in Seq(Frame)
<1>1. /\ readable = chan.readable /\ pc = "new" /\ inbox = << >>
  BY DEF WsInv, ThreadPart, LocalsKnown, SameCounts
<1>2. PICK c, k : c = chan /\ k = Lesser(c.readable, Hello - c.size4Read)
  OBVIOUS
<1>3. Adding = 0
  BY DEF Adding
<1>4. /\ c \in Chan /\ At(c) /\ Counts(c, 0) /\ c.state = "conn" /\ c.fault = "none"
      /\ frames \in Seq(Frame) /\ chan.recvd <= sent /\ sent <= Start(Len(frames) + 1)
  BY <1>2, <1>3 DEF WsInv, WsTypes, DecoderPart, Bounds
<1>5. PICK s \in Nat, r \in Nat, top \in Nat, d4 \in Int, rd \in Int :
          /\ s = c.size4Read /\ r = c.recvd /\ top = Hello /\ d4 = c.readable4Dec
          /\ rd = c.readable
  BY <1>4, WebSocketAssumption DEF Chan
<1>6. s <= top /\ s <= r /\ rd = r - s /\ d4 + 0 = r - s /\ c.n = 1 /\ c.metaRcvd = 0
  <2>1. Pos(c) = c.size4Read
    BY <1>4 DEF Pos, InFrame
  <2> QED BY <2>1, <1>4, <1>5 DEF At, Counts
<1>7. k \in Nat /\ s + k <= top /\ s + k <= r
  BY <1>2, <1>5, <1>6 DEF Lesser
<1>8. PICK s1 \in Nat, d1 \in Int, r1 \in Int : s1 = s + k /\ d1 = d4 - k /\ r1 = rd - k
  BY <1>7
<1>9. /\ e \in Chan /\ SameLink(c, e) /\ SamePack(c, e) /\ e.size4Read = s1
      /\ e.readable = r1 /\ e.readable4Dec = d1 /\ e.fault = c.fault
  <2>1. k \in Int /\ c.size4Read + k \in Nat
    BY <1>5, <1>7, <1>8
  <2>2. c.size4Read + k = s1 /\ c.readable - k = r1 /\ c.readable4Dec - k = d1
    BY <1>5, <1>8
  <2> QED BY <2>1, <2>2, <1>1, <1>2, <1>4, EatIs
<1>10. r1 = r - s1 /\ d1 = r - s1 /\ s1 <= top /\ s1 <= r
  BY <1>6, <1>7, <1>8
<1> QED BY <1>1, <1>2, <1>4, <1>5, <1>6, <1>9, <1>10

LEMMA HandshakeOk == ASSUME WsInv, chan.fault = "none", Handshake PROVE WsInv'
<1>1. /\ netPc = "trigger" /\ ~chan.sockClosed /\ chan.state = "conn"
      /\ netPc' = "poll" /\ readable' = 0 /\ readable4Dec' = 0 /\ fill' = fill
      /\ UNCHANGED <<frames, sent, peer, pollIn, task, pc, used, last, reads>>
  BY DEF Handshake, wire, svcVars, AfterRead
<1>2. PICK c, e : c = chan /\ e = Eat(chan, Lesser(readable, Hello - chan.size4Read))
  OBVIOUS
<1>3. Adding = 0 /\ Adding' = 0
  BY <1>1 DEF Adding
<1>4. /\ e \in Chan /\ SameLink(c, e) /\ SamePack(c, e) /\ e.fault = "none" /\ c \in Chan
      /\ e.size4Read <= Hello /\ e.size4Read <= c.recvd
      /\ e.readable = c.recvd - e.size4Read /\ e.readable4Dec = c.recvd - e.size4Read
      /\ c.n = 1 /\ c.metaRcvd = 0 /\ pc = "new" /\ inbox = << >>
      /\ c.recvd <= sent /\ sent <= Start(Len(frames) + 1) /\ frames \in Seq(Frame)
      /\ c.state = "conn" /\ c.fault = "none"
  BY <1>1, <1>2, Greeted DEF WsInv, WsTypes
<1>5. pc = "new" /\ inbox = << >>
  BY <1>4
<1>6. PICK r \in Nat, top \in Nat, s1 \in Nat, r1 \in Int, d1 \in Int :
          /\ r = c.recvd /\ top = Hello /\ s1 = e.size4Read /\ r1 = e.readable
          /\ d1 = e.readable4Dec
  BY <1>4, WebSocketAssumption DEF Chan
<1>7. /\ e.size4Read = s1 /\ e.readable = r1 /\ e.readable4Dec = d1
  BY <1>6
<1>8. r1 = r - s1 /\ d1 + 0 = r - s1 /\ s1 <= top /\ s1 <= r
  BY <1>4, <1>6
<1>9. PICK d : d = IF s1 = top THEN [e EXCEPT !.state = "head"] ELSE e
  OBVIOUS
<1>10. /\ chan' = d
       /\ inbox' = IF s1 = top THEN Append(inbox, "conn_in") ELSE inbox
  BY <1>2, <1>6, <1>9 DEF Handshake
<1>11. /\ d \in Chan /\ d.size4Read = s1 /\ d.readable = r1 /\ d.readable4Dec = d1
       /\ SameLink(e, d) /\ d.n = e.n /\ d.metaRcvd = e.metaRcvd /\ d.fault = e.fault
       /\ d.state = IF s1 = top THEN "head" ELSE "conn"
  <2>1. e.state = "conn"
    BY <1>4 DEF SamePack
  <2>2. CASE s1 = top
    <3>1. d = [e EXCEPT !.state = "head"]
      BY <2>2, <1>9
    <3> QED BY <3>1, <2>2, <1>4, <1>7 DEF Chan, SameLink
  <2>3. CASE s1 # top
    <3>1. d = e
      BY <2>3, <1>9
    <3> QED BY <3>1, <2>1, <2>3, <1>4, <1>7 DEF SameLink
  <2> QED BY <2>2, <2>3
<1>12. /\ d.recvd = r /\ d.n = 1 /\ d.metaRcvd = 0 /\ d.fault = "none"
       /\ d.wait = c.wait /\ d.onReadWait = c.onReadWait
  BY <1>4, <1>6, <1>11 DEF SameLink, SamePack
<1>13. ~InFrame(d) /\ Pos(d) = s1 /\ d.state \in {"head", "conn"}
  BY <1>11 DEF InFrame, Pos
<1>14. At(d)
  <2>1. d.n \in 1 .. Len(frames) + 1
    BY <1>4, <1>12
  <2>2. Start(1) = top
    BY <1>4, <1>6, Starts
  <2>3. d.state = "head" => AtHead(d)
    BY <2>2, <1>11, <1>12 DEF AtHead
  <2> QED BY <2>1, <2>3, <1>6, <1>8, <1>11, <1>12, <1>13 DEF At
<1>15. Counts(d, Adding')
  BY <1>3, <1>8, <1>11, <1>12, <1>13 DEF Counts
<1>16. DecoderPart'
  <2>1. d.n = chan.n /\ d.recvd = chan.recvd /\ FaultOf(d)
    BY <1>2, <1>4, <1>6, <1>12 DEF FaultOf
  <2>2. d.recvd >= chan.recvd
    BY <2>1, <1>6, <1>12
  <2>3. d.recvd <= sent' /\ sent' <= Start(Len(frames) + 1)
    BY <2>1, <1>1, <1>2, <1>4
  <2> QED BY <2>1, <2>2, <2>3, <1>1, <1>10, <1>11, <1>14, <1>15, DecoderKept
<1>17. /\ inbox' \in Seq({"conn_in", "read_ret"}) /\ OnceIn(inbox') /\ ~InNotice'
       /\ d.state = "conn" => inbox' = << >>
  <2>1. << >> \in Seq({"conn_in", "read_ret"}) /\ OnceIn(<< >>) /\ \A x : ~Has(<< >>, x)
    BY DEF OnceIn, Has
  <2>2. CASE s1 = top
    <3>1. inbox' = Append(inbox, "conn_in") /\ ~Has(inbox, "conn_in") /\ ~Has(inbox, "read_ret")
      BY <2>1, <2>2, <1>5, <1>10
    <3>2. inbox \in Seq({"conn_in", "read_ret"}) /\ OnceIn(inbox)
      BY <2>1, <1>5
    <3>3. /\ inbox' \in Seq({"conn_in", "read_ret"}) /\ OnceIn(inbox')
          /\ \A x : Has(inbox', x) <=> Has(inbox, x) \/ x = "conn_in"
      BY <3>1, <3>2, Pushed
    <3>4. ~InNotice'
      BY <3>1, <3>3 DEF InNotice, Has
    <3> QED BY <3>3, <3>4, <2>2, <1>11
  <2>3. CASE s1 # top
    <3>1. inbox' = << >>
      BY <2>3, <1>5, <1>10
    <3> QED BY <3>1, <2>1 DEF InNotice
  <2> QED BY <2>2, <2>3
<1>18. WsTypes'
  BY <1>1, <1>10, <1>11, <1>17 DEF WsInv, WsTypes
<1>19. ReadInOnePlace'
  <2>1. task = << >> /\ ~chan.wait
    BY <1>5 DEF WsInv, ThreadPart, ReadInOnePlace
  <2>2. task' = << >> /\ Len(<< >>) <= 1 /\ ~d.wait /\ pc' = "new" /\ pc' \notin Reading
    BY <2>1, <1>1, <1>5, <1>2, <1>12 DEF Reading
  <2> QED BY <2>2, <1>10, <1>17 DEF ReadInOnePlace, InNotice
<1>20. LocalsKnown'
  BY <1>1 DEF LocalsKnown
<1> QED BY <1>1, <1>5, <1>10, <1>12, <1>16, <1>17, <1>18, <1>19, <1>20 DEF WsInv, ThreadPart

(* The handshake failed: nobody knows of the connection.                   *)
LEMMA HandshakeFailsOk == ASSUME WsInv, chan.fault = "none", HandshakeFails PROVE WsInv'
<1>1. /\ netPc = "trigger" /\ ~chan.sockClosed /\ chan.state = "conn"
      /\ netPc' = "poll" /\ readable' = 0 /\ readable4Dec' = 0 /\ fill' = fill /\ ~pollIn'
      /\ UNCHANGED <<frames, sent, peer, task, pc, used, last, inbox, reads>>
  BY DEF HandshakeFails, wire, svcVars, AfterRead
<1>2. PICK c, e, d : /\ c = chan /\ e = Eat(chan, Lesser(readable, Hello - chan.size4Read))
                     /\ d = [e EXCEPT !.sockClosed = TRUE]
  OBVIOUS
<1>3. chan' = d /\ pollIn' \in BOOLEAN
  BY <1>2 DEF HandshakeFails
<1>4. Adding' = 0
  BY <1>1 DEF Adding
<1>5. /\ e \in Chan /\ SameLink(c, e) /\ SamePack(c, e) /\ e.fault = "none" /\ c \in Chan
      /\ e.size4Read <= Hello /\ e.size4Read <= c.recvd
      /\ e.readable = c.recvd - e.size4Read /\ e.readable4Dec = c.recvd - e.size4Read
      /\ c.n = 1 /\ c.metaRcvd = 0 /\ pc = "new" /\ inbox = << >>
      /\ c.recvd <= sent /\ sent <= Start(Len(frames) + 1) /\ frames \in Seq(Frame)
      /\ c.state = "conn"
  BY <1>1, <1>2, Greeted DEF WsInv, WsTypes
<1>6. /\ d \in Chan /\ d.recvd = c.recvd /\ d.wait = c.wait /\ d.onReadWait = c.onReadWait
      /\ d.fault = "none" /\ d.size4Read = e.size4Read /\ d.readable = e.readable
      /\ d.readable4Dec = e.readable4Dec /\ d.n = 1 /\ d.metaRcvd = 0 /\ d.state = "conn"
  BY <1>2, <1>5 DEF Chan, SameLink, SamePack
<1>7. ~InFrame(d) /\ Pos(d) = d.size4Read /\ d.recvd \in Nat /\ d.size4Read \in Nat
      /\ d.readable4Dec \in Int
  BY <1>6 DEF InFrame, Pos, Chan
<1>8. At(d)
  BY <1>5, <1>6, <1>7 DEF At
<1>9. Counts(d, Adding')
  BY <1>4, <1>5, <1>6, <1>7 DEF Counts
<1>10. DecoderPart'
  <2>1. d.n = chan.n /\ FaultOf(d) /\ d.recvd >= chan.recvd /\ d.recvd <= sent'
        /\ sent' <= Start(Len(frames) + 1)
    BY <1>1, <1>2, <1>5, <1>6, <1>7 DEF FaultOf
  <2> QED BY <2>1, <1>1, <1>3, <1>6, <1>8, <1>9, DecoderKept
<1>11. WsTypes'
  BY <1>1, <1>3, <1>6 DEF WsInv, WsTypes
<1>12. ReadInOnePlace'
  BY <1>1, <1>2, <1>3, <1>6 DEF WsInv, ThreadPart, ReadInOnePlace
<1>13. LocalsKnown'
  BY <1>1 DEF LocalsKnown
<1> QED BY <1>1, <1>3, <1>5, <1>6, <1>10, <1>11, <1>12, <1>13 DEF WsInv, ThreadPart

LEMMA TriggerOk == ASSUME WsInv, chan.fault = "none", Trigger PROVE WsInv'
<1>1. /\ netPc = "trigger" /\ (chan.sockClosed \/ chan.state # "conn")
      /\ netPc' = "poll" /\ readable' = 0 /\ readable4Dec' = 0 /\ fill' = fill
      /\ UNCHANGED <<frames, sent, peer, task, pc, used, last, reads>>
  BY DEF Trigger, wire, svcVars, AfterRead
<1>2. PICK c, decode, h, k, e :
          /\ c = chan /\ decode = (c.wait /\ ~c.sockClosed) /\ k = readable4Dec
          /\ h = (IF decode THEN PackHead(c, readable) ELSE c)
          /\ e = (IF decode THEN DecBody(h, k) ELSE c)
  OBVIOUS
<1>3. PICK trig, ended, pause :
          /\ trig = (decode /\ Triggers(e)) /\ ended = (c.sockClosed \/ (decode /\ h.err))
          /\ pause = (/\ readable - (h.size4Read - c.size4Read) >= RecvBufLen
                      /\ ~c.wait \/ trig)
  OBVIOUS
<1>4. /\ chan' = [e EXCEPT !.sockClosed = ended, !.wait = @ /\ ~(trig \/ ended)]
      /\ pollIn' = (pollIn /\ ~ended /\ ~pause)
      /\ IF c.wait /\ (trig \/ ended) THEN SendReadNotify ELSE inbox' = inbox
  BY <1>2, <1>3 DEF Trigger
<1>5. /\ Sound(c, 0) /\ c.fault = "none" /\ c \in Chan /\ At(c) /\ Counts(c, 0)
      /\ Adding = 0 /\ Adding' = 0 /\ k \in Int
  <2>1. Adding = 0 /\ Adding' = 0
    BY <1>1 DEF Adding
  <2>2. k \in Int
    BY <1>2 DEF WsInv, WsTypes
  <2> QED BY <2>1, <2>2, <1>2, SoundNow DEF Sound
<1>6. /\ h \in Chan /\ e \in Chan /\ SameUse(c, e) /\ Counts(e, 0) /\ FaultOf(e)
      /\ e.fault # "overrun" => At(e)
      /\ e.fault = "overrun" => c.wait
  <2>1. CASE decode
    <3>1. c.wait /\ ~c.sockClosed /\ readable = c.readable
      BY <2>1, <1>1, <1>2 DEF WsInv, ThreadPart, LocalsKnown, SameCounts
    <3>2. h = PackHead(c, c.readable) /\ e = DecBody(h, k)
      BY <2>1, <3>1, <1>2
    <3>3. h \in Chan
      BY <3>2, <1>5, HeadOk
    <3> QED BY <3>1, <3>2, <3>3, <1>5, LookOk
  <2>2. CASE ~decode
    <3>1. h = c /\ e = c
      BY <2>2, <1>2
    <3> QED BY <3>1, <1>5 DEF SameUse, FaultOf
  <2> QED BY <2>1, <2>2
<1>7. PICK w \in BOOLEAN, cl \in BOOLEAN :
          (w <=> e.wait /\ ~(trig \/ ended)) /\ (cl <=> ended)
  OBVIOUS
<1>8. ended \in BOOLEAN /\ (e.wait /\ ~(trig \/ ended)) \in BOOLEAN
  BY <1>3
<1>9. PICK d : d = [e EXCEPT !.sockClosed = cl, !.wait = w]
  OBVIOUS
<1>10. chan' = d
  BY <1>4, <1>7, <1>8, <1>9
<1>11. /\ d \in Chan /\ SamePack(e, d) /\ SameCount(e, d) /\ d.recvd = e.recvd
       /\ d.fault = e.fault /\ d.onReadWait = e.onReadWait /\ d.state = e.state
       /\ (d.wait <=> w)
  BY <1>6, <1>9 DEF Chan, SamePack, SameCount
<1>12. DecoderPart'
  BY <1>1, <1>2, <1>5, <1>6, <1>10, <1>11, LookedAt
<1>13. /\ c.wait => task = << >> /\ ~InNotice /\ pc = "idle" /\ c.onReadWait /\ c.state # "conn"
       /\ d.onReadWait = c.onReadWait /\ (d.state = "conn" <=> c.state = "conn")
       /\ (e.wait <=> c.wait)
  BY <1>2, <1>6, <1>11 DEF WsInv, ThreadPart, ReadInOnePlace, InNotice, SameUse
<1>14. inbox \in Seq({"conn_in", "read_ret"}) /\ OnceIn(inbox) /\ pollIn \in BOOLEAN
  BY DEF WsInv, WsTypes
<1>15. /\ inbox' \in Seq({"conn_in", "read_ret"}) /\ OnceIn(inbox')
       /\ InNotice' => InNotice \/ (c.wait /\ ~w)
       /\ inbox' # inbox => c.wait
  <2>1. CASE c.wait /\ (trig \/ ended)
    <3>1. inbox' = Append(inbox, "read_ret") /\ ~Has(inbox, "read_ret")
      BY <2>1, <1>4, <1>13 DEF SendReadNotify, InNotice
    <3>2. inbox' \in Seq({"conn_in", "read_ret"}) /\ OnceIn(inbox')
      BY <3>1, <1>14, Pushed
    <3> QED BY <3>2, <2>1, <1>7
  <2>2. CASE ~(c.wait /\ (trig \/ ended))
    <3>1. inbox' = inbox
      BY <2>2, <1>4
    <3> QED BY <3>1, <1>14 DEF InNotice
  <2> QED BY <2>1, <2>2
<1>16. pollIn' \in BOOLEAN
  BY <1>4
<1>17. WsTypes'
  BY <1>1, <1>10, <1>11, <1>15, <1>16 DEF WsInv, WsTypes
<1>18. ReadInOnePlace'
  <2>1. CASE c.wait
    <3>1. task' = << >> /\ Len(<< >>) <= 1 /\ pc' = "idle" /\ pc' \notin Reading
      BY <2>1, <1>1, <1>13 DEF Reading
    <3>2. d.onReadWait /\ (d.wait => ~InNotice')
      BY <2>1, <1>11, <1>13, <1>15
    <3> QED BY <3>1, <3>2, <1>10 DEF ReadInOnePlace, InNotice
  <2>2. CASE ~c.wait
    <3>1. inbox' = inbox /\ ~d.wait /\ UNCHANGED <<task, pc, last>>
      BY <2>2, <1>1, <1>7, <1>11, <1>13, <1>15
    <3> QED BY <3>1, <2>2, <1>2, <1>10, <1>13 DEF WsInv, ThreadPart, ReadInOnePlace
  <2> QED BY <2>1, <2>2
<1>19. LocalsKnown'
  BY <1>1 DEF LocalsKnown
<1>20. chan'.state = "conn" => inbox' = << >> /\ pc' = "new"
  BY <1>1, <1>2, <1>10, <1>13, <1>15 DEF WsInv, ThreadPart
<1>21. chan'.fault = "overrun" => netPc' = "poll" /\ pc' = "idle" /\ chan'.onReadWait
  BY <1>1, <1>6, <1>10, <1>11, <1>13
<1> QED BY <1>12, <1>17, <1>18, <1>19, <1>20, <1>21 DEF WsInv, ThreadPart

-----------------------------------------------------------------------------
LEMMA NextWs == WsInv /\ [WsNext]_wsVars => WsInv'
<1>1. ASSUME WsInv, UNCHANGED wsVars PROVE WsInv'
  <2>1. UNCHANGED <<frames, sent, peer, chan, pollIn, netPc, fill, readable, readable4Dec, task,
                    pc, used, last, inbox, reads>>
    BY <1>1 DEF wsVars, wire, netLocals, svcVars
  <2>2. PICK d : d = chan
    OBVIOUS
  <2>3. At(d)' <=> At(d)
    BY <2>1, FramesStay
  <2>4. FaultOf(d)' <=> FaultOf(d)
    BY <2>1, FramesStay
  <2>5. \A i : Start(i)' = Start(i) /\ BodyStart(i)' = BodyStart(i)
    BY <2>1, FramesStay
  <2>6. (At(chan)' <=> At(chan)) /\ (FaultOf(chan)' <=> FaultOf(chan))
    BY <2>1, <2>2, <2>3, <2>4
  <2>7. (Counts(chan, Adding)' <=> Counts(chan, Adding)) /\ (Bounds' <=> Bounds)
    BY <2>1, <2>5 DEF Counts, Pos, InFrame, Adding, Bounds
  <2>8. FramesReadWhole' <=> FramesReadWhole
    BY <2>1, <2>5 DEF FramesReadWhole, Payload
  <2>9. DecoderPart'
    BY <1>1, <2>1, <2>6, <2>7, <2>8 DEF WsInv, DecoderPart
  <2>10. ThreadPart'
    BY <1>1, <2>1 DEF WsInv, ThreadPart, ReadInOnePlace, LocalsKnown, SameCounts
  <2>11. WsTypes'
    BY <1>1, <2>1 DEF WsInv, WsTypes
  <2> QED BY <2>9, <2>10, <2>11 DEF WsInv
<1>2. ASSUME WsInv, WsNext PROVE WsInv'
  <2>1. chan.fault = "none" /\ (Service \/ NetThread \/ PeerSend \/ PeerEnd)
    BY <1>2 DEF WsNext
  <2>2. CASE Service
    BY <2>1, <2>2, <1>2, TakeConnInOk, ReadNewOk, TakeReadRetOk, ReadHeadOk, ReadDecodeOk,
       ReadDropOk, ReadMsgOk, ReadEndOk, ReadWaitOk DEF Service
  <2>3. CASE NetThread
    BY <2>1, <2>3, <1>2, DoReadWaitOk, PollReadOk, FillOk, Fill4DecOk, FillEndOk, HandshakeOk,
       HandshakeFailsOk, TriggerOk DEF NetThread
  <2> QED BY <2>1, <2>2, <2>3, <1>2, PeerOk
<1> QED BY <1>1, <1>2

LEMMA WsAlways == WsSpec => []WsInv
<1>1. WsInit => WsInv BY InitWs
<1>2. WsInv /\ [WsNext]_wsVars => WsInv' BY NextWs
<1> QED BY <1>1, <1>2, PTL DEF WsSpec

(* A decoder in step hands over whole frames, one thread of two at a time, *)
(* and leaves the stream only where it is known to (do_read, on_tcp_read,  *)
(* do_read_wait and the decws functions).                                  *)
THEOREM DecoderStaysInStep == WsSpec => []DecoderInStep
<1>1. WsInv => DecoderInStep
  <2> SUFFICES ASSUME WsInv PROVE DecoderInStep
    OBVIOUS
  <2>1. FramesReadWhole
    BY DEF WsInv, DecoderPart
  <2>2. DecoderOfOneThread
    BY DEF WsInv, ThreadPart, ReadInOnePlace, Reading, DecoderOfOneThread
  <2>3. FaultsKnown
    BY DEF WsInv, DecoderPart, ThreadPart, FaultOf, OverrunOf, FaultsKnown
  <2> QED BY <2>1, <2>2, <2>3 DEF DecoderInStep
<1>2. WsSpec => []WsInv BY WsAlways
<1> QED BY <1>1, <1>2, PTL
=============================================================================
