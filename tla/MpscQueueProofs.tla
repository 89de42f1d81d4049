--------------------------- MODULE MpscQueueProofs ---------------------------
(***************************************************************************)
(* Proofs about MpscQueue for every set of producers, every set of         *)
(* messages and every capacity: its types, the safety invariants that the  *)
(* model checker verifies on a small ring, and that the ring implements    *)
(* BoundedFifo.                                                            *)
(*                                                                         *)
(* The argument.  unReadNum over-counts: it is the number of tickets not   *)
(* yet counted out, plus the producers admitted but without a ticket, plus *)
(* those about to undo their count.  So a push that reads less than        *)
(* Capacity leaves the tickets outstanding at most Capacity (Counting).    *)
(* Hence two outstanding tickets never share a slot, a slot whose flag is  *)
(* set belongs to one outstanding ticket and holds its message, and a slot *)
(* being written belongs to another one whose flag is clear (Slotting).    *)
(* First the arithmetic of the ring: tickets that share a slot are a       *)
(* capacity apart, and the walking index of a pop meets the slots in the   *)
(* order of the tickets.                                                   *)
(***************************************************************************)
EXTENDS MpscQueue, FiniteSetTheorems, SequenceTheorems, TLAPS

(* Tickets less than Capacity apart that share a slot are the same ticket. *)
LEMMA SameSlot ==
    ASSUME NEW a \in Nat, NEW b \in Nat, a <= b, b - a < Capacity,
           SlotOf(a) = SlotOf(b)
    PROVE  a = b
<1> DEFINE C == Capacity
           qa == a \div C
           qb == b \div C
<1>1. C \in Nat /\ C > 0
  BY CapacityAssumption
<1>2. qa \in Int /\ qb \in Int /\ a = C * qa + (a % C) /\ b = C * qb + (b % C)
                        /\ a % C = b % C
  BY <1>1 DEF SlotOf
<1>3. b - a = C * (qb - qa)
  <2>1. b - a = C * qb - C * qa
    BY <1>1, <1>2
  <2> QED BY <2>1, <1>1, <1>2
<1>4. CASE qb - qa >= 1
  <2>1. C * (qb - qa) >= C
    BY <1>1, <1>2, <1>4
  <2> QED BY <2>1, <1>3, <1>1
<1>5. CASE qb - qa <= -1
  <2>1. C * (qb - qa) <= -C
    BY <1>1, <1>2, <1>5
  <2> QED BY <2>1, <1>3, <1>1
<1>6. CASE qb - qa = 0
  BY <1>3, <1>6, <1>1
<1> QED BY <1>2, <1>4, <1>5, <1>6

(* Quotient and remainder by the capacity are unique. *)
LEMMA RemainderUnique ==
    ASSUME NEW t \in Nat, NEW q \in Int, NEW r \in Slots, t = Capacity * q + r
    PROVE  t % Capacity = r
<1> DEFINE C == Capacity
           u == t \div C
           v == t % C
<1>1. C \in Nat /\ C > 0 /\ r \in 0 .. (C - 1)
  BY CapacityAssumption DEF Slots
<1>2. u \in Int /\ v \in 0 .. (C - 1) /\ t = C * u + v
  BY <1>1
<1>3. C * (q - u) = v - r
  <2>1. C * q - C * u = v - r
    BY <1>1, <1>2
  <2> QED BY <2>1, <1>1, <1>2
<1>4. CASE q - u >= 1
  <2>1. C * (q - u) >= C
    BY <1>1, <1>2, <1>4
  <2> QED BY <2>1, <1>3, <1>1, <1>2
<1>5. CASE q - u <= -1
  <2>1. C * (q - u) <= -C
    BY <1>1, <1>2, <1>5
  <2> QED BY <2>1, <1>3, <1>1, <1>2
<1>6. CASE q - u = 0
  BY <1>3, <1>6, <1>1, <1>2
<1> QED BY <1>2, <1>4, <1>5, <1>6

(* The ring's wrap-around is the remainder by the capacity. *)
LEMMA NextSlot ==
    ASSUME NEW t \in Nat
    PROVE  SlotOf(t + 1) = After(SlotOf(t))
<1> DEFINE C == Capacity
           q == t \div C
           r == t % C
<1>1. C \in Nat /\ C > 0
  BY CapacityAssumption
<1>2. q \in Int /\ r \in 0 .. (C - 1) /\ t = C * q + r
  BY <1>1
<1>3. CASE r + 1 >= C
  <2>1. t + 1 = C * (q + 1) + 0
    <3>1. t + 1 = C * q + C
      BY <1>1, <1>2, <1>3
    <3> QED BY <3>1, <1>1, <1>2
  <2>2. 0 \in Slots
    BY <1>1 DEF Slots
  <2>3. (t + 1) % C = 0
    BY <2>1, <2>2, <1>2, RemainderUnique
  <2> QED BY <2>3, <1>3 DEF SlotOf, After
<1>4. CASE r + 1 < C
  <2>1. t + 1 = C * q + (r + 1)
    BY <1>1, <1>2
  <2>2. r + 1 \in Slots
    BY <1>1, <1>2, <1>4 DEF Slots
  <2>3. (t + 1) % C = r + 1
    BY <2>1, <2>2, <1>2, RemainderUnique
  <2> QED BY <2>3, <1>4, <1>1, <1>2 DEF SlotOf, After
<1> QED BY <1>1, <1>2, <1>3, <1>4

(* Every ticket has a slot. *)
LEMMA SlotOfIsSlot == \A t \in Nat : SlotOf(t) \in Slots
BY CapacityAssumption DEF Slots, SlotOf

-----------------------------------------------------------------------------
Ticketless == {p \in Producers : pc[p] = "ticket"}
Undoing    == {p \in Producers : pc[p] = "undo"}
Writing    == {p \in Producers : pc[p] \in {"write", "publish"}}

(* Tickets are numbered from 0; ticket t carries accepted[t + 1]. *)
Taken      == Len(delivered)
CountedOut == IF cpc \in {"clear", "uncount"} THEN Taken - 1 ELSE Taken
Cleared    == IF cpc = "clear" THEN Taken - 1 ELSE Taken

(* A push past its first step carries a message. *)
Carrying ==
    \A p \in Producers : pc[p] \in {"ticket", "write", "publish"} => val[p] \in Msgs

(* unReadNum accounts for every outstanding ticket and every push that has *)
(* counted itself in.                                                      *)
Counting ==
    /\ head = Len(accepted)
    /\ Taken <= head
    /\ cpc \in {"clear", "uncount"} => Taken > 0
    /\ unReadNum = (head - CountedOut) + Cardinality(Ticketless) + Cardinality(Undoing)
    /\ (head - CountedOut) + Cardinality(Ticketless) <= Capacity

(* Where the consumer is. *)
Tailing ==
    /\ tail = SlotOf(Taken)
    /\ cpc = "copy" => cidx = tail /\ arrCanRead[tail]
    /\ cpc \in {"clear", "uncount"} => cidx = SlotOf(Taken - 1)

(* Each slot in use belongs to one outstanding ticket. *)
Slotting ==
    /\ \A p \in Writing :
          /\ ~arrCanRead[idx[p]]
          /\ pc[p] = "publish" => slots[idx[p]] = val[p]
          /\ \E t \in Taken .. (head - 1) :
                idx[p] = SlotOf(t) /\ val[p] = accepted[t + 1]
    /\ \A p, q \in Writing : p # q => idx[p] # idx[q]
    /\ \A t \in Taken .. (head - 1) :
          arrCanRead[SlotOf(t)] => slots[SlotOf(t)] = accepted[t + 1]
    /\ \A i \in Slots : arrCanRead[i] =>
          \E t \in Cleared .. (head - 1) : i = SlotOf(t)

IInv == TypeOK /\ Carrying /\ Counting /\ Tailing /\ Slotting

----------------------------------------------------------------------------
(* The sets of producers that Counting counts are finite. *)
LEMMA CountsAreFinite ==
    /\ IsFiniteSet(Ticketless) /\ Cardinality(Ticketless) \in Nat
    /\ IsFiniteSet(Undoing) /\ Cardinality(Undoing) \in Nat
<1>1. Ticketless \in SUBSET Producers /\ Undoing \in SUBSET Producers
  BY DEF Ticketless, Undoing
<1> QED BY <1>1, ProducersAssumption, FS_Subset, FS_CardinalityType

----------------------------------------------------------------------------
LEMMA InitIInv == Init => IInv
<1> SUFFICES ASSUME Init PROVE IInv
  OBVIOUS
<1> USE DEF Init
<1>1. TypeOK
  BY CapacityAssumption DEF TypeOK, Slots
<1>2. Carrying
  BY DEF Carrying
<1>3. Counting
  <2>1. Ticketless = {} /\ Undoing = {}
    BY DEF Ticketless, Undoing
  <2> QED
    BY <2>1, FS_EmptySet, CapacityAssumption DEF Counting, CountedOut, Taken
<1>4. Tailing
  <2>1. SlotOf(0) = 0
    <3>1. 0 = Capacity * 0 + 0 /\ 0 \in Slots
      BY CapacityAssumption DEF Slots
    <3> QED BY <3>1, RemainderUnique DEF SlotOf
  <2> QED BY <2>1 DEF Tailing, Taken
<1>5. Slotting
  BY DEF Slotting, Writing, Taken, Cleared
<1> QED BY <1>1, <1>2, <1>3, <1>4, <1>5 DEF IInv

LEMMA NextTypeOK == ASSUME TypeOK, Carrying, Counting, Tailing, [Next]_vars
                    PROVE  TypeOK' /\ Carrying'
<1> USE DEF TypeOK, Carrying
<1>1. ASSUME NEW p \in Producers, NEW m \in Msgs, PushCount(p, m)
      PROVE  TypeOK' /\ Carrying'
  BY <1>1 DEF PushCount, consumerVars
<1>2. ASSUME NEW p \in Producers, PushUndo(p)
      PROVE  TypeOK' /\ Carrying'
  <2>1. p \in Undoing
    BY <1>2 DEF PushUndo, Undoing
  <2>2. unReadNum > 0
    BY <2>1, CountsAreFinite, FS_EmptySet DEF Counting, CountedOut, Taken
  <2> QED BY <1>2, <2>2 DEF PushUndo, consumerVars
<1>3. ASSUME NEW p \in Producers, PushTicket(p)
      PROVE  TypeOK' /\ Carrying'
  BY <1>3, SlotOfIsSlot DEF PushTicket, consumerVars
<1>4. ASSUME NEW p \in Producers, PushWrite(p)
      PROVE  TypeOK' /\ Carrying'
  BY <1>4 DEF PushWrite, consumerVars
<1>5. ASSUME NEW p \in Producers, PushPublish(p)
      PROVE  TypeOK' /\ Carrying'
  BY <1>5, CapacityAssumption DEF PushPublish, consumerVars, Slots
<1>6. CASE PopEmpty
  BY <1>6 DEF PopEmpty, producerVars
<1>7. CASE PopCheck
  BY <1>7 DEF PopCheck, producerVars
<1>8. CASE PopCopy
  BY <1>8, CapacityAssumption DEF PopCopy, producerVars, Slots, After
<1>9. CASE PopClear
  BY <1>9 DEF PopClear, producerVars
<1>10. CASE PopUncount
  <2>1. unReadNum > 0
    BY <1>10, CountsAreFinite DEF PopUncount, Counting, CountedOut, Taken
  <2> QED BY <1>10, <2>1, CapacityAssumption DEF PopUncount, producerVars, Slots
<1>11. CASE UNCHANGED vars
  BY <1>11 DEF vars, producerVars, consumerVars
<1> QED
  BY <1>1, <1>2, <1>3, <1>4, <1>5, <1>6, <1>7, <1>8, <1>9, <1>10, <1>11
     DEF Next, Push, Pop

LEMMA NextCounting == ASSUME TypeOK, Carrying, Counting, Slotting, Tailing, [Next]_vars
                      PROVE  Counting'
<1> USE CountsAreFinite
<1>0. /\ head \in Nat /\ unReadNum \in Nat /\ Capacity \in Nat
      /\ Len(accepted) \in Nat /\ Taken \in Nat /\ CountedOut \in Int
  BY CapacityAssumption DEF TypeOK, Taken, CountedOut
<1>1. ASSUME NEW p \in Producers, NEW m \in Msgs, PushCount(p, m)
      PROVE  Counting'
  <2>1. CASE unReadNum >= Capacity
    <3>1. Ticketless' = Ticketless /\ Undoing' = Undoing \cup {p} /\ p \notin Undoing
      BY <1>1, <2>1 DEF PushCount, Ticketless, Undoing, TypeOK
    <3>2. Cardinality(Undoing') = Cardinality(Undoing) + 1
      BY <3>1, FS_AddElement
    <3>3. /\ unReadNum' = unReadNum + 1 /\ head' = head /\ accepted' = accepted
          /\ Taken' = Taken /\ CountedOut' = CountedOut /\ cpc' = cpc
      BY <1>1 DEF PushCount, consumerVars, CountedOut, Taken
    <3> QED BY <1>0, <3>1, <3>2, <3>3 DEF Counting
  <2>2. CASE unReadNum < Capacity
    <3>1. Undoing' = Undoing /\ Ticketless' = Ticketless \cup {p} /\ p \notin Ticketless
      BY <1>0, <1>1, <2>2 DEF PushCount, Ticketless, Undoing, TypeOK
    <3>2. Cardinality(Ticketless') = Cardinality(Ticketless) + 1
      BY <3>1, FS_AddElement
    <3>3. /\ unReadNum' = unReadNum + 1 /\ head' = head /\ accepted' = accepted
          /\ Taken' = Taken /\ CountedOut' = CountedOut /\ cpc' = cpc
      BY <1>1 DEF PushCount, consumerVars, CountedOut, Taken
    <3> QED BY <1>0, <2>2, <3>1, <3>2, <3>3 DEF Counting
  <2> QED BY <1>0, <2>1, <2>2
<1>2. ASSUME NEW p \in Producers, PushUndo(p)
      PROVE  Counting'
  <2>1. Ticketless' = Ticketless /\ Undoing' = Undoing \ {p} /\ p \in Undoing
    BY <1>2 DEF PushUndo, Ticketless, Undoing, TypeOK
  <2>2. Cardinality(Undoing') = Cardinality(Undoing) - 1
    BY <2>1, FS_RemoveElement
  <2>3. /\ unReadNum' = unReadNum - 1 /\ head' = head /\ accepted' = accepted
        /\ Taken' = Taken /\ CountedOut' = CountedOut /\ cpc' = cpc
    BY <1>2 DEF PushUndo, consumerVars, CountedOut, Taken
  <2> QED BY <1>0, <2>1, <2>2, <2>3 DEF Counting
<1>3. ASSUME NEW p \in Producers, PushTicket(p)
      PROVE  Counting'
  <2>1. Undoing' = Undoing /\ Ticketless' = Ticketless \ {p} /\ p \in Ticketless
    BY <1>3 DEF PushTicket, Ticketless, Undoing, TypeOK
  <2>2. Cardinality(Ticketless') = Cardinality(Ticketless) - 1
    BY <2>1, FS_RemoveElement
  <2>3. /\ unReadNum' = unReadNum /\ head' = head + 1
        /\ Taken' = Taken /\ CountedOut' = CountedOut /\ cpc' = cpc
    BY <1>3 DEF PushTicket, consumerVars, CountedOut, Taken
  <2>4. Len(accepted') = Len(accepted) + 1
    <3>1. val[p] \in Msgs /\ accepted' = Append(accepted, val[p])
      BY <1>3 DEF PushTicket, Carrying
    <3> QED BY <3>1, AppendProperties DEF TypeOK
  <2> QED BY <1>0, <2>1, <2>2, <2>3, <2>4 DEF Counting
<1>4. ASSUME NEW p \in Producers, PushWrite(p) \/ PushPublish(p)
      PROVE  Counting'
  <2>1. Undoing' = Undoing /\ Ticketless' = Ticketless
    BY <1>4 DEF PushWrite, PushPublish, Ticketless, Undoing, TypeOK
  <2> QED
    BY <1>4, <2>1
       DEF Counting, PushWrite, PushPublish, consumerVars, CountedOut, Taken
<1>5. ASSUME Pop \/ UNCHANGED vars
      PROVE  /\ Undoing' = Undoing /\ Ticketless' = Ticketless
             /\ head' = head /\ accepted' = accepted
  BY <1>5 DEF Pop, PopEmpty, PopCheck, PopCopy, PopClear, PopUncount, vars,
              producerVars, Ticketless, Undoing
<1>6. CASE PopEmpty \/ PopCheck \/ PopClear \/ UNCHANGED vars
  BY <1>5, <1>6 DEF Pop, Counting, PopEmpty, PopCheck, PopClear, vars, consumerVars,
                    CountedOut, Taken
<1>7. CASE PopCopy
  <2>1. Len(delivered') = Len(delivered) + 1
    BY <1>7 DEF PopCopy, TypeOK
  <2>2. Taken < head
    <3>1. arrCanRead[tail] /\ tail = SlotOf(Taken) /\ Cleared = Taken
      BY <1>7 DEF PopCopy, Tailing, Cleared
    <3>2. PICK t \in Taken .. (head - 1) : SlotOf(Taken) = SlotOf(t)
      BY <3>1 DEF Slotting, TypeOK
    <3> QED BY <3>2, <1>0 DEF Taken
  <2> QED
    BY <1>0, <1>5, <1>7, <2>1, <2>2 DEF Pop, Counting, PopCopy, CountedOut, Taken
<1>8. CASE PopUncount
  <2>1. /\ unReadNum' = unReadNum - 1 /\ cpc' = "idle"
        /\ Taken' = Taken /\ CountedOut = Taken - 1 /\ CountedOut' = Taken
    BY <1>8 DEF PopUncount, CountedOut, Taken
  <2> QED BY <1>0, <1>5, <1>8, <2>1 DEF Pop, Counting
<1> QED
  BY <1>1, <1>2, <1>3, <1>4, <1>6, <1>7, <1>8 DEF Next, Push, Pop

LEMMA NextTailing == ASSUME TypeOK, Counting, Tailing, Slotting, [Next]_vars
                     PROVE  Tailing'
<1>1. ASSUME NEW p \in Producers,
             \/ \E m \in Msgs : PushCount(p, m)
             \/ PushUndo(p) \/ PushTicket(p) \/ PushWrite(p)
      PROVE  Tailing'
  BY <1>1 DEF PushCount, PushUndo, PushTicket, PushWrite, consumerVars, Tailing, Taken
<1>2. ASSUME NEW p \in Producers, PushPublish(p)
      PROVE  Tailing'
  BY <1>2 DEF PushPublish, consumerVars, Tailing, Taken, TypeOK
<1>3. CASE PopEmpty \/ PopCheck \/ PopUncount \/ UNCHANGED vars
  BY <1>3 DEF PopEmpty, PopCheck, PopUncount, vars, consumerVars, Tailing, Taken
<1>4. CASE PopCopy
  <2>1. Taken \in Nat /\ Taken' = Taken + 1
    BY <1>4 DEF PopCopy, TypeOK, Taken
  <2>2. SlotOf(Taken + 1) = After(SlotOf(Taken))
    BY <2>1, NextSlot
  <2>3. Taken' - 1 = Taken
    BY <2>1
  <2>4. tail' = SlotOf(Taken') /\ cidx' = SlotOf(Taken) /\ cpc' = "clear"
    BY <1>4, <2>1, <2>2 DEF PopCopy, Tailing
  <2> QED BY <2>3, <2>4 DEF Tailing
<1>5. CASE PopClear
  <2>1. /\ cpc = "clear" /\ cpc' = "uncount" /\ tail' = tail /\ cidx' = cidx
        /\ Taken' = Taken
    BY <1>5 DEF PopClear, Taken
  <2> QED BY <2>1 DEF Tailing
<1> QED
  BY <1>1, <1>2, <1>3, <1>4, <1>5 DEF Next, Push, Pop

(* A ticket outstanding now and one drawn before the ring has lapped it    *)
(* share no slot.                                                          *)
LEMMA OutstandingApart ==
    ASSUME TypeOK, Counting
    PROVE  \A t, u \in CountedOut .. (head - 1) : SlotOf(t) = SlotOf(u) => t = u
<1> SUFFICES ASSUME NEW t \in CountedOut .. (head - 1), NEW u \in CountedOut .. (head - 1),
                    SlotOf(t) = SlotOf(u)
             PROVE  t = u
  OBVIOUS
<1>1. /\ CountedOut \in Nat /\ head \in Nat /\ Cardinality(Ticketless) \in Nat
      /\ head - CountedOut <= Capacity /\ Capacity \in Nat
  <2>1. Taken \in Nat /\ Capacity \in Nat /\ Cardinality(Ticketless) \in Nat
    BY CountsAreFinite, CapacityAssumption DEF TypeOK, Taken
  <2>2. /\ head \in Nat /\ Taken <= head
        /\ cpc \in {"clear", "uncount"} => Taken > 0
        /\ head - CountedOut + Cardinality(Ticketless) <= Capacity
    BY DEF TypeOK, Counting
  <2>3. CountedOut \in Nat
    BY <2>1, <2>2 DEF CountedOut
  <2> QED BY <2>1, <2>2, <2>3
<1>2. t \in Nat /\ u \in Nat /\ t - u < Capacity /\ u - t < Capacity
  BY <1>1
<1>3. CASE t <= u
  BY <1>2, <1>3, SameSlot
<1>4. CASE u <= t
  BY <1>2, <1>4, SameSlot
<1> QED BY <1>2, <1>3, <1>4

LEMMA NextSlotting == ASSUME IInv, [Next]_vars
                      PROVE  Slotting'
<1> USE DEF IInv
<1>0. /\ head \in Nat /\ Taken \in Nat /\ CountedOut \in Nat /\ Cleared \in Nat
      /\ CountedOut <= Cleared /\ Cleared <= Taken /\ Taken <= head
      /\ Len(accepted) = head
  BY DEF TypeOK, Counting, CountedOut, Cleared, Taken
<1>1. \A t, u \in CountedOut .. (head - 1) : SlotOf(t) = SlotOf(u) => t = u
  BY OutstandingApart
<1>2. ASSUME NEW p \in Producers, (\E m \in Msgs : PushCount(p, m)) \/ PushUndo(p)
      PROVE  Slotting'
  <2>1. /\ Writing' = Writing /\ Taken' = Taken /\ Cleared' = Cleared
        /\ head' = head /\ slots' = slots /\ arrCanRead' = arrCanRead
        /\ accepted' = accepted /\ idx' = idx
        /\ \A q \in Writing : pc'[q] = pc[q] /\ val'[q] = val[q]
    BY <1>2 DEF PushCount, PushUndo, consumerVars, Writing, Taken, Cleared, TypeOK
  <2> QED BY <2>1 DEF Slotting
<1>3. ASSUME NEW p \in Producers, PushTicket(p)
      PROVE  Slotting'
  <2>1. /\ Writing' = Writing \cup {p} /\ p \notin Writing
        /\ Taken' = Taken /\ Cleared' = Cleared
        /\ head' = head + 1 /\ slots' = slots /\ arrCanRead' = arrCanRead
        /\ pc'[p] = "write" /\ idx'[p] = SlotOf(head) /\ val' = val
        /\ \A q \in Writing : pc'[q] = pc[q] /\ idx'[q] = idx[q]
    BY <1>3 DEF PushTicket, consumerVars, Writing, Taken, Cleared, TypeOK
  <2>2. /\ accepted'[head + 1] = val[p]
        /\ \A t \in 0 .. (head - 1) : accepted'[t + 1] = accepted[t + 1]
    <3>1. val[p] \in Msgs /\ accepted' = Append(accepted, val[p])
      BY <1>3 DEF PushTicket, Carrying
    <3> QED BY <3>1, <1>0, AppendProperties DEF TypeOK
  <2>3. \A t \in CountedOut .. (head - 1) : SlotOf(t) # SlotOf(head)
    <3>1. p \in Ticketless
      BY <1>3 DEF PushTicket, Ticketless
    <3>2. Cardinality(Ticketless) \in Nat /\ Cardinality(Ticketless) # 0
      BY <3>1, CountsAreFinite, FS_EmptySet
    <3>3. head - CountedOut < Capacity /\ Capacity \in Nat
      BY <3>2, <1>0, CapacityAssumption DEF Counting
    <3> QED BY <3>3, <1>0, SameSlot
  <2>4. ~arrCanRead[SlotOf(head)]
    BY <2>3, <1>0, SlotOfIsSlot DEF Slotting
  <2>5. \A q \in Writing : idx[q] # SlotOf(head)
    BY <2>3, <1>0 DEF Slotting
  <2>6. ASSUME NEW q \in Writing'
        PROVE  /\ ~arrCanRead'[idx'[q]]
               /\ pc'[q] = "publish" => slots'[idx'[q]] = val'[q]
               /\ \E t \in Taken' .. (head' - 1) :
                     idx'[q] = SlotOf(t) /\ val'[q] = accepted'[t + 1]
    <3>1. CASE q = p
      <4>1. head \in Taken' .. (head' - 1)
        BY <1>0, <2>1
      <4> QED BY <3>1, <4>1, <2>1, <2>2, <2>4
    <3>2. CASE q \in Writing
      <4>1. PICK t \in Taken .. (head - 1) : idx[q] = SlotOf(t) /\ val[q] = accepted[t + 1]
        BY <3>2 DEF Slotting
      <4>2. t \in Taken' .. (head' - 1) /\ accepted'[t + 1] = accepted[t + 1]
        BY <1>0, <2>1, <2>2
      <4> QED BY <3>2, <4>1, <4>2, <2>1 DEF Slotting
    <3> QED BY <2>1, <3>1, <3>2
  <2>7. \A q, r \in Writing' : q # r => idx'[q] # idx'[r]
    BY <2>1, <2>5 DEF Slotting
  <2>8. \A t \in Taken' .. (head' - 1) :
           arrCanRead'[SlotOf(t)] => slots'[SlotOf(t)] = accepted'[t + 1]
    <3> SUFFICES ASSUME NEW t \in Taken .. head, arrCanRead[SlotOf(t)]
                 PROVE  slots[SlotOf(t)] = accepted'[t + 1]
      BY <1>0, <2>1
    <3>1. t \in Taken .. (head - 1)
      BY <1>0, <2>4
    <3> QED BY <3>1, <1>0, <2>2 DEF Slotting
  <2>9. \A i \in Slots : arrCanRead'[i] => \E t \in Cleared' .. (head' - 1) : i = SlotOf(t)
    BY <1>0, <2>1 DEF Slotting
  <2> QED BY <2>6, <2>7, <2>8, <2>9 DEF Slotting
<1>4. ASSUME NEW p \in Producers, PushWrite(p)
      PROVE  Slotting'
  <2>1. /\ Writing' = Writing /\ p \in Writing /\ Taken' = Taken /\ Cleared' = Cleared
        /\ head' = head /\ arrCanRead' = arrCanRead
        /\ accepted' = accepted /\ idx' = idx /\ val' = val
        /\ idx[p] \in Slots /\ slots'[idx[p]] = val[p]
        /\ \A i \in Slots : i # idx[p] => slots'[i] = slots[i]
        /\ \A q \in Writing : q # p => pc'[q] = pc[q]
    BY <1>4 DEF PushWrite, consumerVars, Writing, Taken, Cleared, TypeOK
  <2>2. ASSUME NEW q \in Writing, pc'[q] = "publish"
        PROVE  slots'[idx[q]] = val[q]
    <3>1. CASE q = p
      BY <2>1, <3>1
    <3>2. CASE q # p
      <4>1. idx[q] \in Slots /\ idx[q] # idx[p] /\ slots[idx[q]] = val[q]
        BY <2>1, <2>2, <3>2 DEF Slotting, Writing, TypeOK
      <4> QED BY <4>1, <2>1
    <3> QED BY <3>1, <3>2
  <2>3. ASSUME NEW t \in Taken .. (head - 1), arrCanRead[SlotOf(t)]
        PROVE  slots'[SlotOf(t)] = accepted[t + 1]
    <3>1. SlotOf(t) \in Slots /\ SlotOf(t) # idx[p] /\ slots[SlotOf(t)] = accepted[t + 1]
      BY <1>0, <2>1, <2>3, SlotOfIsSlot DEF Slotting
    <3> QED BY <3>1, <2>1
  <2> QED BY <2>1, <2>2, <2>3 DEF Slotting
<1>5. ASSUME NEW p \in Producers, PushPublish(p)
      PROVE  Slotting'
  <2>1. /\ Writing' = Writing \ {p} /\ p \in Writing /\ Taken' = Taken
        /\ Cleared' = Cleared /\ head' = head /\ slots' = slots
        /\ accepted' = accepted
        /\ idx[p] \in Slots /\ arrCanRead'[idx[p]] = TRUE
        /\ \A i \in Slots : i # idx[p] => arrCanRead'[i] = arrCanRead[i]
        /\ \A q \in Writing' : pc'[q] = pc[q] /\ idx'[q] = idx[q] /\ val'[q] = val[q]
    BY <1>5 DEF PushPublish, consumerVars, Writing, Taken, Cleared, TypeOK
  <2>2. PICK u \in Taken .. (head - 1) :
           /\ idx[p] = SlotOf(u) /\ val[p] = accepted[u + 1]
           /\ slots[idx[p]] = val[p]
    BY <1>5, <2>1 DEF PushPublish, Slotting
  <2>3. ASSUME NEW q \in Writing'
        PROVE  ~arrCanRead'[idx'[q]]
    <3>1. idx[q] \in Slots /\ idx[q] # idx[p] /\ ~arrCanRead[idx[q]]
      BY <2>1, <2>3 DEF Slotting, Writing, TypeOK
    <3> QED BY <3>1, <2>1, <2>3
  <2>4. ASSUME NEW t \in Taken .. (head - 1), arrCanRead'[SlotOf(t)]
        PROVE  slots[SlotOf(t)] = accepted[t + 1]
    <3>1. CASE SlotOf(t) = idx[p]
      <4>1. t = u
        BY <1>0, <1>1, <2>2, <3>1
      <4> QED BY <4>1, <2>2
    <3>2. CASE SlotOf(t) # idx[p]
      BY <1>0, <2>1, <2>4, <3>2, SlotOfIsSlot DEF Slotting
    <3> QED BY <3>1, <3>2
  <2>5. ASSUME NEW i \in Slots, arrCanRead'[i]
        PROVE  \E t \in Cleared .. (head - 1) : i = SlotOf(t)
    <3>1. CASE i = idx[p]
      BY <1>0, <2>2, <3>1
    <3>2. CASE i # idx[p]
      BY <2>1, <2>5, <3>2 DEF Slotting
    <3> QED BY <3>1, <3>2
  <2> QED BY <2>1, <2>3, <2>4, <2>5 DEF Slotting
<1>6. CASE PopEmpty \/ PopCheck \/ PopUncount \/ UNCHANGED vars
  <2>1. /\ Writing' = Writing /\ Taken' = Taken /\ Cleared' = Cleared
        /\ head' = head /\ slots' = slots /\ arrCanRead' = arrCanRead
        /\ accepted' = accepted /\ idx' = idx /\ pc' = pc /\ val' = val
    BY <1>6 DEF PopEmpty, PopCheck, PopUncount, vars, producerVars, consumerVars,
                Writing, Taken, Cleared
  <2> QED BY <2>1 DEF Slotting
<1>7. CASE PopCopy
  <2>1. /\ Writing' = Writing /\ Taken' = Taken + 1 /\ Cleared' = Cleared
        /\ head' = head /\ slots' = slots /\ arrCanRead' = arrCanRead
        /\ accepted' = accepted /\ idx' = idx /\ pc' = pc /\ val' = val
    BY <1>7 DEF PopCopy, producerVars, Writing, Taken, Cleared, TypeOK
  <2>2. arrCanRead[SlotOf(Taken)]
    BY <1>7 DEF PopCopy, Tailing
  <2>3. ASSUME NEW q \in Writing
        PROVE  \E t \in (Taken + 1) .. (head - 1) :
                  idx[q] = SlotOf(t) /\ val[q] = accepted[t + 1]
    <3>1. PICK t \in Taken .. (head - 1) : idx[q] = SlotOf(t) /\ val[q] = accepted[t + 1]
      BY DEF Slotting
    <3>2. t # Taken
      BY <2>2, <3>1 DEF Slotting
    <3> QED BY <1>0, <3>1, <3>2
  <2>4. \A t \in (Taken + 1) .. (head - 1) : t \in Taken .. (head - 1)
    BY <1>0
  <2> QED BY <2>1, <2>3, <2>4 DEF Slotting
<1>8. CASE PopClear
  <2>1. /\ Writing' = Writing /\ Taken' = Taken /\ Cleared' = Taken
        /\ Cleared = Taken - 1 /\ cidx = SlotOf(Taken - 1)
        /\ head' = head /\ slots' = slots
        /\ accepted' = accepted /\ idx' = idx /\ pc' = pc /\ val' = val
        /\ arrCanRead' = [arrCanRead EXCEPT ![cidx] = FALSE]
    BY <1>8 DEF PopClear, producerVars, Writing, Taken, Cleared, Tailing
  <2>2. \A i \in Slots : arrCanRead'[i] <=> arrCanRead[i] /\ i # cidx
    BY <2>1 DEF TypeOK
  <2>3. \A q \in Writing : ~arrCanRead'[idx[q]]
    BY <2>2 DEF Slotting, Writing, TypeOK
  <2>4. ASSUME NEW t \in Taken .. (head - 1), arrCanRead'[SlotOf(t)]
        PROVE  slots[SlotOf(t)] = accepted[t + 1]
    BY <1>0, <2>2, <2>4, SlotOfIsSlot DEF Slotting
  <2>5. ASSUME NEW i \in Slots, arrCanRead'[i]
        PROVE  \E t \in Taken .. (head - 1) : i = SlotOf(t)
    <3>1. PICK t \in (Taken - 1) .. (head - 1) : i = SlotOf(t)
      BY <2>1, <2>2, <2>5 DEF Slotting
    <3>2. t # Taken - 1
      BY <2>1, <2>2, <2>5, <3>1
    <3> QED BY <1>0, <3>1, <3>2
  <2> QED BY <2>1, <2>3, <2>4, <2>5 DEF Slotting
<1> QED
  BY <1>2, <1>3, <1>4, <1>5, <1>6, <1>7, <1>8 DEF Next, Push, Pop

----------------------------------------------------------------------------
LEMMA NextIInv == ASSUME IInv, [Next]_vars PROVE IInv'
BY NextTypeOK, NextCounting, NextTailing, NextSlotting DEF IInv

LEMMA Inductive == Spec => []IInv
<1>1. IInv /\ [Next]_vars => IInv'
  BY NextIInv
<1> QED BY InitIInv, <1>1, PTL DEF Spec

(* mpsc_push and mpsc_pop keep every variable within its type: unReadNum,  *)
(* an unsigned word, is never decremented below zero.                      *)
THEOREM TypeCorrect == Spec => []TypeOK
BY Inductive, PTL DEF IInv

(* The assertion of mpsc_push holds for every number of producers and      *)
(* every capacity: publication never meets an unread slot.                 *)
THEOREM PublishSafe == Spec => []PublishFindsSlotFree
<1>1. IInv => PublishFindsSlotFree
  BY DEF IInv, Slotting, Writing, PublishFindsSlotFree
<1> QED BY <1>1, Inductive, PTL

LEMMA Exclusion == IInv => MailSlotExclusive
BY DEF IInv, Slotting, Writing, Tailing, MailSlotExclusive

(* The plain accesses to the slots never race. *)
THEOREM SlotsRaceFree == Spec => []MailSlotExclusive
BY Exclusion, Inductive, PTL

(* mpsc_size accounts for every message a consumer has not popped. *)
THEOREM SizeSafe == Spec => []SizeCoversUnread
<1>1. IInv => SizeCoversUnread
  <2> SUFFICES ASSUME IInv PROVE SizeCoversUnread
    OBVIOUS
  <2>1. /\ Cardinality(Ticketless) \in Nat /\ Cardinality(Undoing) \in Nat
        /\ Capacity \in Nat
    BY CountsAreFinite, CapacityAssumption
  <2> QED
    BY <2>1 DEF IInv, TypeOK, Counting, CountedOut, Taken, SizeCoversUnread, mpsc_size
<1> QED BY <1>1, Inductive, PTL

LEMMA StepKeepsFifo == IInv /\ [Next]_vars => [Fifo!FifoNext]_(Fifo!fifoVars)
<1> SUFFICES ASSUME IInv, [Next]_vars
             PROVE  [Fifo!FifoNext]_(Fifo!fifoVars)
  OBVIOUS
<1> USE DEF IInv, Fifo!FifoNext, Fifo!fifoVars
<1>1. ASSUME NEW p \in Producers, PushTicket(p)
      PROVE  Fifo!FifoNext
  <2>1. val[p] \in Msgs
    BY <1>1 DEF PushTicket, Carrying
  <2>2. Len(accepted) - Len(delivered) < Capacity
    <3>1. p \in Ticketless
      BY <1>1 DEF PushTicket, Ticketless
    <3>2. Cardinality(Ticketless) \in Nat /\ Cardinality(Ticketless) # 0
      BY <3>1, CountsAreFinite, FS_EmptySet
    <3> QED
      BY <3>2, CapacityAssumption DEF TypeOK, Counting, CountedOut, Taken
  <2>3. Fifo!Accept(val[p])
    BY <1>1, <2>2 DEF PushTicket, consumerVars, Fifo!Accept, Fifo!Waiting
  <2> QED BY <2>1, <2>3
<1>2. ASSUME NEW p \in Producers,
             \/ \E m \in Msgs : PushCount(p, m)
             \/ PushUndo(p) \/ PushWrite(p) \/ PushPublish(p)
      PROVE  UNCHANGED Fifo!fifoVars
  BY <1>2 DEF PushCount, PushUndo, PushWrite, PushPublish, consumerVars
<1>3. CASE PopCopy
  <2>1. arrCanRead[SlotOf(Taken)] /\ tail = SlotOf(Taken) /\ Cleared = Taken
    BY <1>3 DEF PopCopy, Tailing, Cleared
  <2>2. SlotOf(Taken) \in Slots /\ Taken \in Nat /\ head = Len(accepted) /\ head \in Nat
    BY SlotOfIsSlot DEF TypeOK, Taken, Counting
  <2>3. Taken \in Taken .. (head - 1)
    <3>1. PICK t \in Taken .. (head - 1) : SlotOf(Taken) = SlotOf(t)
      BY <2>1, <2>2 DEF Slotting
    <3> QED BY <2>2, <3>1
  <2>4. slots[tail] = accepted[Taken + 1]
    BY <2>1, <2>3 DEF Slotting
  <2>5. Fifo!Deliver
    BY <1>3, <2>2, <2>3, <2>4 DEF PopCopy, Fifo!Deliver, Fifo!Waiting, Taken
  <2> QED BY <2>5
<1>4. CASE PopEmpty \/ PopCheck \/ PopClear \/ PopUncount \/ UNCHANGED vars
  BY <1>4 DEF PopEmpty, PopCheck, PopClear, PopUncount, vars, consumerVars
<1> QED
  BY <1>1, <1>2, <1>3, <1>4 DEF Next, Push, Pop

(* The ring implements the bounded FIFO: drawing a ticket accepts the      *)
(* message, copying the slot out delivers the oldest one, and every other  *)
(* step leaves the FIFO as it is.                                          *)
THEOREM Refinement == Spec => MailIsFifo
<1>1. Init => Fifo!FifoInit
  BY DEF Init, Fifo!FifoInit
<1> QED
  BY <1>1, StepKeepsFifo, Inductive, PTL DEF Spec, MailIsFifo, Fifo!FifoSpec
=============================================================================
