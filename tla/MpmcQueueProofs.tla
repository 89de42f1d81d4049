--------------------------- MODULE MpmcQueueProofs ---------------------------
(***************************************************************************)
(* Proofs about MpmcQueue for every set of producers and consumers, every  *)
(* set of messages and every capacity.                                     *)
(*                                                                         *)
(* The argument.  The exchange on readLock lets one consumer at a time in  *)
(* (Locking), so tail is the slot of the oldest ticket but between the     *)
(* copy of a message and the advance (Tailing).  unReadNum counts the      *)
(* tickets not yet delivered, the consumers that have delivered theirs and *)
(* not counted it out, and the pushes counted in without a ticket; a push  *)
(* is admitted below Capacity, so a ticket never meets the slot of another *)
(* one, nor the slot a consumer is about to clear (Counting, Slotting).    *)
(* An outstanding ticket is published or about to be (Covered).            *)
(*                                                                         *)
(* MCRings holds this ring and the mailbox's.  A behaviour of MCSpec is    *)
(* one of the mailbox when the other ring is forgotten, so what            *)
(* MpscQueueProofs proves of the mailbox alone (Proved) holds of it there. *)
(***************************************************************************)
EXTENDS MCRings, FiniteSetTheorems, SequenceTheorems, TLAPS

Proved == INSTANCE MpscQueueProofs WITH
            unReadNum <- mUnRead, head <- mHead, tail <- mTail, slots <- mSlots,
            arrCanRead <- mCanRead, pc <- mPc, val <- mVal, idx <- mIdx,
            cpc <- mCpc, cidx <- mCidx, left <- mLeft,
            accepted <- mAccepted, delivered <- mDelivered

(* The mailbox's slot numbers are those of this ring, and so is their      *)
(* arithmetic.                                                             *)
LEMMA SameSlots == /\ Slots = Proved!Slots /\ \A t : SlotOf(t) = Proved!SlotOf(t)
                   /\ \A i : After(i) = Proved!After(i)
BY DEF Slots, Proved!Slots, SlotOf, Proved!SlotOf, After, Proved!After

(* The assumption on the producers, as the proved module states it. *)
LEMMA ProducersAreFinite == Proved!IsFiniteSet(Producers)
BY ProducersAssumption DEF IsFiniteSet, Proved!IsFiniteSet

LEMMA SameSlot ==
    ASSUME NEW a \in Nat, NEW b \in Nat, a <= b, b - a < Capacity,
           SlotOf(a) = SlotOf(b)
    PROVE  a = b
BY Proved!SameSlot, SameSlots, ProducersAreFinite, CapacityAssumption, NoMsgAssumption,
   MaxTicketsAssumption

LEMMA RemainderUnique ==
    ASSUME NEW t \in Nat, NEW q \in Int, NEW r \in Slots, t = Capacity * q + r
    PROVE  t % Capacity = r
BY Proved!RemainderUnique, SameSlots, ProducersAreFinite, CapacityAssumption, NoMsgAssumption,
   MaxTicketsAssumption

LEMMA NextSlot ==
    ASSUME NEW t \in Nat
    PROVE  SlotOf(t + 1) = After(SlotOf(t))
BY Proved!NextSlot, SameSlots, ProducersAreFinite, CapacityAssumption, NoMsgAssumption,
   MaxTicketsAssumption

LEMMA SlotOfIsSlot == \A t \in Nat : SlotOf(t) \in Slots
BY CapacityAssumption DEF Slots, SlotOf

-----------------------------------------------------------------------------
Ticketless == {p \in Producers : pc[p] = "ticket"}
Undoing    == {p \in Producers : pc[p] = "undo"}
Writing    == {p \in Producers : pc[p] \in {"write", "publish"}}
Uncounting == {c \in Consumers : cpc[c] \in {"clear", "advance", "uncount"}}
Clearing   == \E c \in Consumers : cpc[c] = "clear"

(* Tickets are numbered from 0; ticket t carries accepted[t + 1]. *)
Taken   == Len(delivered)
Cleared == IF Clearing THEN Taken - 1 ELSE Taken

Carrying ==
    \A p \in Producers : pc[p] \in {"ticket", "write", "publish"} => val[p] \in Msgs

Counting ==
    /\ head = Len(accepted)
    /\ Taken <= head
    /\ unReadNum = (head - Taken) + Cardinality(Uncounting)
                     + Cardinality(Ticketless) + Cardinality(Undoing)
    /\ (head - Taken) + Cardinality(Uncounting) + Cardinality(Ticketless) <= Capacity

Locking ==
    /\ \A c, d \in Consumers : cpc[c] \in Inside /\ cpc[d] \in Inside => c = d
    /\ \A c \in Consumers : cpc[c] \in Inside => readLock

Tailing ==
    /\ (\A c \in Consumers : cpc[c] \notin {"clear", "advance"}) => tail = SlotOf(Taken)
    /\ \A c \in Consumers :
          cpc[c] \in {"clear", "advance"} => Taken > 0 /\ tail = SlotOf(Taken - 1)
    /\ \A c \in Consumers : cpc[c] = "copy" => arrSlotStat[tail] = "CANREAD"

Slotting ==
    /\ \A p \in Writing :
          /\ arrSlotStat[idx[p]] # "CANREAD"
          /\ pc[p] = "publish" => slots[idx[p]] = val[p]
          /\ \E t \in Taken .. (head - 1) :
                idx[p] = SlotOf(t) /\ val[p] = accepted[t + 1]
    /\ \A p, q \in Writing : p # q => idx[p] # idx[q]
    /\ \A t \in Taken .. (head - 1) :
          arrSlotStat[SlotOf(t)] = "CANREAD" => slots[SlotOf(t)] = accepted[t + 1]
    /\ \A i \in Slots : arrSlotStat[i] = "CANREAD" =>
          \E t \in Cleared .. (head - 1) : i = SlotOf(t)

Covered ==
    \A t \in Taken .. (head - 1) :
       arrSlotStat[SlotOf(t)] = "CANREAD" \/ \E p \in Writing : idx[p] = SlotOf(t)

IInv == TypeOK /\ Carrying /\ Counting /\ Locking /\ Tailing /\ Slotting /\ Covered

----------------------------------------------------------------------------
(* The sets of threads that Counting counts are finite. *)
LEMMA CountsAreFinite ==
    /\ IsFiniteSet(Ticketless) /\ Cardinality(Ticketless) \in Nat
    /\ IsFiniteSet(Undoing) /\ Cardinality(Undoing) \in Nat
    /\ IsFiniteSet(Uncounting) /\ Cardinality(Uncounting) \in Nat
<1>1. /\ Ticketless \in SUBSET Producers /\ Undoing \in SUBSET Producers
      /\ Uncounting \in SUBSET Consumers
  BY DEF Ticketless, Undoing, Uncounting
<1> QED BY <1>1, ProducersAssumption, ConsumersAssumption, FS_Subset, FS_CardinalityType

LEMMA InitIInv == Init => IInv
<1> SUFFICES ASSUME Init PROVE IInv
  OBVIOUS
<1> USE DEF Init
<1>1. TypeOK
  <2>1. tail \in Slots /\ idx \in [Producers -> Slots]
    BY CapacityAssumption DEF Slots
  <2>2. cpc \in [Consumers -> {"idle", "lock", "uncount"} \cup Inside]
    OBVIOUS
  <2>3. arrSlotStat \in [Slots -> {"EMPTY", "CANREAD"}] /\ slots \in [Slots -> Msgs \cup {NoMsg}]
    OBVIOUS
  <2>4. accepted \in Seq(Msgs) /\ delivered \in Seq(Msgs \cup {NoMsg})
    OBVIOUS
  <2> QED BY <2>1, <2>2, <2>3, <2>4 DEF TypeOK
<1>2. Carrying /\ Locking
  BY DEF Carrying, Locking, Inside
<1>3. Counting
  <2>1. Ticketless = {} /\ Undoing = {} /\ Uncounting = {}
    BY DEF Ticketless, Undoing, Uncounting
  <2> QED BY <2>1, FS_EmptySet, CapacityAssumption DEF Counting, Taken
<1>4. Tailing
  <2>1. SlotOf(0) = 0
    <3>1. 0 = Capacity * 0 + 0 /\ 0 \in Slots
      BY CapacityAssumption DEF Slots
    <3> QED BY <3>1, RemainderUnique DEF SlotOf
  <2> QED BY <2>1 DEF Tailing, Taken
<1>5. Slotting /\ Covered
  BY DEF Slotting, Covered, Writing, Taken, Cleared, Clearing
<1> QED BY <1>1, <1>2, <1>3, <1>4, <1>5 DEF IInv

LEMMA NextTypeOK == ASSUME TypeOK, Carrying, Counting, [Next]_vars
                    PROVE  TypeOK' /\ Carrying'
<1> USE DEF TypeOK, Carrying
<1>1. ASSUME NEW p \in Producers, NEW m \in Msgs, PushCount(p, m)
      PROVE  TypeOK' /\ Carrying'
  BY <1>1 DEF PushCount
<1>2. ASSUME NEW p \in Producers, PushUndo(p)
      PROVE  TypeOK' /\ Carrying'
  <2>1. p \in Undoing
    BY <1>2 DEF PushUndo, Undoing
  <2>2. unReadNum > 0
    BY <2>1, CountsAreFinite, FS_EmptySet DEF Counting, Taken
  <2> QED BY <1>2, <2>2 DEF PushUndo
<1>3. ASSUME NEW p \in Producers, PushTicket(p)
      PROVE  TypeOK' /\ Carrying'
  BY <1>3, SlotOfIsSlot DEF PushTicket
<1>4. ASSUME NEW p \in Producers, PushWrite(p)
      PROVE  TypeOK' /\ Carrying'
  BY <1>4 DEF PushWrite
<1>5. ASSUME NEW p \in Producers, PushPublish(p)
      PROVE  TypeOK' /\ Carrying'
  BY <1>5, CapacityAssumption DEF PushPublish, Slots
<1>6. ASSUME NEW c \in Consumers,
             \/ PopLook(c) \/ PopLock(c) \/ PopNoData(c) \/ PopGiveUp(c) \/ PopCheck(c)
      PROVE  TypeOK' /\ Carrying'
  BY <1>6 DEF PopLook, PopLock, PopNoData, PopGiveUp, PopCheck, producerVars, Inside
<1>7. ASSUME NEW c \in Consumers, PopCopy(c)
      PROVE  TypeOK' /\ Carrying'
  <2>1. delivered' = Append(delivered, slots[tail]) /\ slots[tail] \in Msgs \cup {NoMsg}
    BY <1>7 DEF PopCopy
  <2>2. delivered' \in Seq(Msgs \cup {NoMsg})
    BY <2>1, AppendProperties
  <2>3. cpc' \in [Consumers -> {"idle", "lock", "uncount"} \cup Inside]
    BY <1>7 DEF PopCopy, Inside
  <2> QED BY <1>7, <2>2, <2>3 DEF PopCopy, producerVars
<1>8. ASSUME NEW c \in Consumers, PopClear(c)
      PROVE  TypeOK' /\ Carrying'
  BY <1>8 DEF PopClear, producerVars, Inside
<1>9. ASSUME NEW c \in Consumers, PopAdvance(c)
      PROVE  TypeOK' /\ Carrying'
  <2>1. tail' \in Slots
    BY <1>9, CapacityAssumption DEF PopAdvance, After, Slots
  <2> QED BY <1>9, <2>1 DEF PopAdvance, producerVars, Inside
<1>10. ASSUME NEW c \in Consumers, PopUncount(c)
       PROVE  TypeOK' /\ Carrying'
  <2>1. c \in Uncounting
    BY <1>10 DEF PopUncount, Uncounting
  <2>2. unReadNum > 0
    BY <2>1, CountsAreFinite, FS_EmptySet DEF Counting, Taken
  <2> QED BY <1>10, <2>2 DEF PopUncount, producerVars
<1>11. CASE UNCHANGED vars
  BY <1>11 DEF vars, producerVars
<1> QED
  BY <1>1, <1>2, <1>3, <1>4, <1>5, <1>6, <1>7, <1>8, <1>9, <1>10, <1>11
     DEF Next, Push, Pop

LEMMA NextLocking == ASSUME TypeOK, Locking, [Next]_vars
                     PROVE  Locking'
<1> USE DEF TypeOK, Locking
<1>1. ASSUME NEW p \in Producers, Push(p)
      PROVE  Locking'
  BY <1>1 DEF Push, PushCount, PushUndo, PushTicket, PushWrite, PushPublish
<1>2. ASSUME NEW c \in Consumers, Pop(c)
      PROVE  Locking'
  BY <1>2 DEF Pop, PopLook, PopLock, PopNoData, PopGiveUp, PopCheck, PopCopy, PopClear,
              PopAdvance, PopUncount, Inside
<1>3. CASE UNCHANGED vars
  BY <1>3 DEF vars
<1> QED BY <1>1, <1>2, <1>3 DEF Next

(* What the steps of a consumer that move no message leave alone. *)
LEMMA QuietPop ==
    ASSUME TypeOK, NEW c \in Consumers,
           \/ PopLook(c) \/ PopLock(c) \/ PopNoData(c) \/ PopGiveUp(c) \/ PopCheck(c)
    PROVE  /\ UNCHANGED <<unReadNum, tail, arrSlotStat, slots, head, producerVars,
                          accepted, delivered>>
           /\ Uncounting' = Uncounting /\ Clearing' = Clearing
           /\ \A d \in Consumers :
                 cpc'[d] \in {"clear", "advance"} <=> cpc[d] \in {"clear", "advance"}
           /\ \A d \in Consumers :
                 cpc'[d] = "copy" => cpc[d] = "copy" \/ arrSlotStat[tail] = "CANREAD"
<1>1. /\ cpc' \in [Consumers -> {"idle", "lock", "uncount"} \cup Inside]
      /\ \A d \in Consumers \ {c} : cpc'[d] = cpc[d]
      /\ cpc[c] \notin {"clear", "advance", "uncount", "copy"}
      /\ cpc'[c] \notin {"clear", "advance", "uncount"}
      /\ cpc'[c] = "copy" => arrSlotStat[tail] = "CANREAD"
  BY DEF TypeOK, PopLook, PopLock, PopNoData, PopGiveUp, PopCheck, Inside
<1>2. UNCHANGED <<unReadNum, tail, arrSlotStat, slots, head, producerVars,
                  accepted, delivered>>
  BY DEF PopLook, PopLock, PopNoData, PopGiveUp, PopCheck
<1> QED BY <1>1, <1>2 DEF Uncounting, Clearing

(* The oldest ticket's slot is readable when a consumer copies it. *)
LEMMA CopyReads ==
    ASSUME IInv, NEW c \in Consumers, cpc[c] = "copy"
    PROVE  /\ tail = SlotOf(Taken) /\ arrSlotStat[tail] = "CANREAD"
           /\ ~Clearing /\ Taken \in Nat /\ head \in Nat /\ Taken < head
<1>1. \A d \in Consumers : cpc[d] \notin {"clear", "advance"}
  BY DEF IInv, Locking, Inside
<1>2. tail = SlotOf(Taken) /\ arrSlotStat[tail] = "CANREAD"
  BY <1>1 DEF IInv, Tailing
<1>3. ~Clearing /\ Cleared = Taken
  BY <1>1 DEF Clearing, Cleared
<1>4. Taken \in Nat /\ head \in Nat /\ tail \in Slots
  BY DEF IInv, TypeOK, Taken
<1>5. PICK t \in Taken .. (head - 1) : tail = SlotOf(t)
  BY <1>2, <1>3, <1>4 DEF IInv, Slotting
<1> QED BY <1>2, <1>3, <1>4, <1>5

LEMMA NextCounting == ASSUME IInv, [Next]_vars
                      PROVE  Counting'
<1> USE CountsAreFinite DEF IInv
<1>0. /\ head \in Nat /\ unReadNum \in Nat /\ Capacity \in Nat
      /\ Len(accepted) \in Nat /\ Taken \in Nat
  BY CapacityAssumption DEF TypeOK, Taken
<1>1. ASSUME NEW p \in Producers, NEW m \in Msgs, PushCount(p, m)
      PROVE  Counting'
  <2>0. /\ unReadNum' = unReadNum + 1 /\ head' = head /\ accepted' = accepted
        /\ Taken' = Taken /\ Uncounting' = Uncounting
    BY <1>1 DEF PushCount, Taken, Uncounting
  <2>1. CASE unReadNum >= Capacity
    <3>1. Ticketless' = Ticketless /\ Undoing' = Undoing \cup {p} /\ p \notin Undoing
      BY <1>1, <2>1 DEF PushCount, Ticketless, Undoing, TypeOK
    <3>2. Cardinality(Undoing') = Cardinality(Undoing) + 1
      BY <3>1, FS_AddElement
    <3> QED BY <1>0, <2>0, <3>1, <3>2 DEF Counting
  <2>2. CASE unReadNum < Capacity
    <3>1. Undoing' = Undoing /\ Ticketless' = Ticketless \cup {p} /\ p \notin Ticketless
      BY <1>0, <1>1, <2>2 DEF PushCount, Ticketless, Undoing, TypeOK
    <3>2. Cardinality(Ticketless') = Cardinality(Ticketless) + 1
      BY <3>1, FS_AddElement
    <3> QED BY <1>0, <2>0, <2>2, <3>1, <3>2 DEF Counting
  <2> QED BY <1>0, <2>1, <2>2
<1>2. ASSUME NEW p \in Producers, PushUndo(p)
      PROVE  Counting'
  <2>1. Ticketless' = Ticketless /\ Undoing' = Undoing \ {p} /\ p \in Undoing
    BY <1>2 DEF PushUndo, Ticketless, Undoing, TypeOK
  <2>2. Cardinality(Undoing') = Cardinality(Undoing) - 1
    BY <2>1, FS_RemoveElement
  <2>3. /\ unReadNum' = unReadNum - 1 /\ head' = head /\ accepted' = accepted
        /\ Taken' = Taken /\ Uncounting' = Uncounting
    BY <1>2 DEF PushUndo, Taken, Uncounting
  <2> QED BY <1>0, <2>1, <2>2, <2>3 DEF Counting
<1>3. ASSUME NEW p \in Producers, PushTicket(p)
      PROVE  Counting'
  <2>1. Undoing' = Undoing /\ Ticketless' = Ticketless \ {p} /\ p \in Ticketless
    BY <1>3 DEF PushTicket, Ticketless, Undoing, TypeOK
  <2>2. Cardinality(Ticketless') = Cardinality(Ticketless) - 1
    BY <2>1, FS_RemoveElement
  <2>3. /\ unReadNum' = unReadNum /\ head' = head + 1
        /\ Taken' = Taken /\ Uncounting' = Uncounting
    BY <1>3 DEF PushTicket, Taken, Uncounting
  <2>4. Len(accepted') = Len(accepted) + 1
    <3>1. val[p] \in Msgs /\ accepted' = Append(accepted, val[p])
      BY <1>3 DEF PushTicket, Carrying
    <3> QED BY <3>1, AppendProperties DEF TypeOK
  <2> QED BY <1>0, <2>1, <2>2, <2>3, <2>4 DEF Counting
<1>4. ASSUME NEW p \in Producers, PushWrite(p) \/ PushPublish(p)
      PROVE  Counting'
  <2>1. /\ Undoing' = Undoing /\ Ticketless' = Ticketless /\ Uncounting' = Uncounting
        /\ unReadNum' = unReadNum /\ head' = head /\ accepted' = accepted
        /\ Taken' = Taken
    BY <1>4 DEF PushWrite, PushPublish, Ticketless, Undoing, Uncounting, Taken, TypeOK
  <2> QED BY <2>1 DEF Counting
<1>5. ASSUME NEW c \in Consumers,
             \/ PopLook(c) \/ PopLock(c) \/ PopNoData(c) \/ PopGiveUp(c) \/ PopCheck(c)
      PROVE  Counting'
  BY <1>5, QuietPop DEF Counting, Ticketless, Undoing, Taken, producerVars
<1>6. ASSUME NEW c \in Consumers, PopCopy(c)
      PROVE  Counting'
  <2>1. Uncounting' = Uncounting \cup {c} /\ c \notin Uncounting
    BY <1>6 DEF PopCopy, Uncounting, TypeOK
  <2>2. Cardinality(Uncounting') = Cardinality(Uncounting) + 1
    BY <2>1, FS_AddElement
  <2>3. /\ unReadNum' = unReadNum /\ head' = head /\ accepted' = accepted
        /\ Undoing' = Undoing /\ Ticketless' = Ticketless
    BY <1>6 DEF PopCopy, producerVars, Undoing, Ticketless
  <2>4. Taken' = Taken + 1 /\ Taken < head
    BY <1>6, CopyReads DEF PopCopy, Taken, TypeOK
  <2> QED BY <1>0, <2>2, <2>3, <2>4 DEF Counting
<1>7. ASSUME NEW c \in Consumers, PopClear(c) \/ PopAdvance(c)
      PROVE  Counting'
  <2>1. /\ Undoing' = Undoing /\ Ticketless' = Ticketless /\ Uncounting' = Uncounting
        /\ unReadNum' = unReadNum /\ head' = head /\ accepted' = accepted
        /\ Taken' = Taken
    BY <1>7 DEF PopClear, PopAdvance, producerVars, Ticketless, Undoing, Uncounting,
                Taken, TypeOK
  <2> QED BY <2>1 DEF Counting
<1>8. ASSUME NEW c \in Consumers, PopUncount(c)
      PROVE  Counting'
  <2>1. Uncounting' = Uncounting \ {c} /\ c \in Uncounting
    BY <1>8 DEF PopUncount, Uncounting, TypeOK
  <2>2. Cardinality(Uncounting') = Cardinality(Uncounting) - 1
    BY <2>1, FS_RemoveElement
  <2>3. /\ unReadNum' = unReadNum - 1 /\ head' = head /\ accepted' = accepted
        /\ Undoing' = Undoing /\ Ticketless' = Ticketless /\ Taken' = Taken
    BY <1>8 DEF PopUncount, producerVars, Undoing, Ticketless, Taken
  <2>4. unReadNum' = (head' - Taken') + Cardinality(Uncounting')
                       + Cardinality(Ticketless') + Cardinality(Undoing')
    BY <1>0, <2>2, <2>3 DEF Counting
  <2>5. (head' - Taken') + Cardinality(Uncounting') + Cardinality(Ticketless') <= Capacity
    BY <1>0, <2>2, <2>3 DEF Counting
  <2> QED BY <2>3, <2>4, <2>5 DEF Counting
<1>9. CASE UNCHANGED vars
  <2>1. /\ Undoing' = Undoing /\ Ticketless' = Ticketless /\ Uncounting' = Uncounting
        /\ unReadNum' = unReadNum /\ head' = head /\ accepted' = accepted
        /\ Taken' = Taken
    BY <1>9 DEF vars, producerVars, Ticketless, Undoing, Uncounting, Taken
  <2> QED BY <2>1 DEF Counting
<1> QED
  BY <1>1, <1>2, <1>3, <1>4, <1>5, <1>6, <1>7, <1>8, <1>9 DEF Next, Push, Pop

LEMMA NextTailing == ASSUME IInv, [Next]_vars
                     PROVE  Tailing'
<1> USE DEF IInv
<1>0. Taken \in Nat /\ tail \in Slots
  BY DEF TypeOK, Taken
<1>1. ASSUME NEW p \in Producers, Push(p)
      PROVE  Tailing'
  <2>1. cpc' = cpc /\ tail' = tail /\ Taken' = Taken
    BY <1>1 DEF Push, PushCount, PushUndo, PushTicket, PushWrite, PushPublish, Taken
  <2>2. arrSlotStat[tail] = "CANREAD" => arrSlotStat'[tail] = "CANREAD"
    BY <1>0, <1>1
       DEF Push, PushCount, PushUndo, PushTicket, PushWrite, PushPublish, TypeOK
  <2> QED BY <2>1, <2>2 DEF Tailing
<1>2. ASSUME NEW c \in Consumers,
             \/ PopLook(c) \/ PopLock(c) \/ PopNoData(c) \/ PopGiveUp(c) \/ PopCheck(c)
      PROVE  Tailing'
  <2>1. Taken' = Taken /\ tail' = tail /\ arrSlotStat' = arrSlotStat
    BY <1>2, QuietPop DEF Taken
  <2>2. \A d \in Consumers :
           cpc'[d] \in {"clear", "advance"} <=> cpc[d] \in {"clear", "advance"}
    BY <1>2, QuietPop
  <2>3. \A d \in Consumers : cpc'[d] = "copy" => arrSlotStat[tail] = "CANREAD"
    BY <1>2, QuietPop DEF Tailing
  <2> QED BY <2>1, <2>2, <2>3 DEF Tailing
<1>3. ASSUME NEW c \in Consumers, PopCopy(c)
      PROVE  Tailing'
  <2>1. cpc[c] = "copy"
    BY <1>3 DEF PopCopy
  <2>2. tail = SlotOf(Taken) /\ arrSlotStat[tail] = "CANREAD"
    BY <2>1, CopyReads
  <2>3. Taken' = Taken + 1 /\ tail' = tail /\ arrSlotStat' = arrSlotStat
    BY <1>3 DEF PopCopy, Taken, TypeOK
  <2>4. Taken' > 0 /\ Taken' - 1 = Taken
    BY <1>0, <2>3
  <2>5. cpc'[c] = "clear"
    BY <1>3 DEF PopCopy, TypeOK
  <2> QED BY <2>2, <2>3, <2>4, <2>5 DEF Tailing
<1>4. ASSUME NEW c \in Consumers, PopClear(c)
      PROVE  Tailing'
  <2>1. /\ cpc[c] = "clear" /\ cpc' = [cpc EXCEPT ![c] = "advance"]
        /\ tail' = tail /\ Taken' = Taken
    BY <1>4 DEF PopClear, Taken
  <2>2. cpc'[c] = "advance" /\ \A d \in Consumers \ {c} : cpc[d] \notin Inside
    BY <2>1 DEF TypeOK, Locking, Inside
  <2>3. \A d \in Consumers : cpc'[d] # "copy"
    BY <2>1, <2>2 DEF TypeOK, Inside
  <2>4. Taken > 0 /\ tail = SlotOf(Taken - 1)
    BY <2>1 DEF Tailing
  <2> QED BY <2>1, <2>2, <2>3, <2>4 DEF Tailing
<1>5. ASSUME NEW c \in Consumers, PopAdvance(c)
      PROVE  Tailing'
  <2>1. /\ cpc[c] = "advance" /\ cpc' = [cpc EXCEPT ![c] = "uncount"]
        /\ tail' = After(tail) /\ Taken' = Taken
    BY <1>5 DEF PopAdvance, Taken
  <2>2. \A d \in Consumers \ {c} : cpc[d] \notin Inside
    BY <2>1 DEF Locking, Inside
  <2>3. \A d \in Consumers : cpc'[d] \notin {"clear", "advance", "copy"}
    BY <2>1, <2>2 DEF TypeOK, Inside
  <2>4. Taken > 0 /\ tail = SlotOf(Taken - 1)
    BY <2>1 DEF Tailing
  <2>5. Taken - 1 \in Nat /\ (Taken - 1) + 1 = Taken
    BY <1>0, <2>4
  <2>6. tail' = SlotOf(Taken)
    <3>1. SlotOf((Taken - 1) + 1) = After(SlotOf(Taken - 1))
      BY <2>5, NextSlot
    <3> QED BY <2>1, <2>4, <2>5, <3>1
  <2> QED BY <2>1, <2>3, <2>6 DEF Tailing
<1>6. ASSUME NEW c \in Consumers, PopUncount(c)
      PROVE  Tailing'
  <2>1. /\ cpc[c] = "uncount" /\ cpc' = [cpc EXCEPT ![c] = "idle"]
        /\ tail' = tail /\ Taken' = Taken /\ arrSlotStat' = arrSlotStat
    BY <1>6 DEF PopUncount, Taken
  <2>2. \A d \in Consumers :
           /\ cpc'[d] \in {"clear", "advance"} <=> cpc[d] \in {"clear", "advance"}
           /\ cpc'[d] = "copy" => cpc[d] = "copy"
    BY <2>1 DEF TypeOK
  <2> QED BY <2>1, <2>2 DEF Tailing
<1>7. CASE UNCHANGED vars
  BY <1>7 DEF vars, Tailing, Taken
<1> QED
  BY <1>1, <1>2, <1>3, <1>4, <1>5, <1>6, <1>7 DEF Next, Pop

(* Tickets neither delivered nor still to be cleared have slots of their   *)
(* own, and the next ticket finds one that is free.                        *)
LEMMA OutstandingApart ==
    ASSUME IInv
    PROVE  /\ Cleared \in Nat /\ Taken \in Nat /\ head \in Nat
           /\ Cleared <= Taken /\ Taken <= head /\ Len(accepted) = head
           /\ \A t, u \in Cleared .. (head - 1) : SlotOf(t) = SlotOf(u) => t = u
           /\ Ticketless # {} =>
                 \A t \in Cleared .. (head - 1) : SlotOf(t) # SlotOf(head)
<1> USE CountsAreFinite DEF IInv
<1>1. Taken \in Nat /\ head \in Nat /\ Taken <= head /\ Len(accepted) = head
  BY DEF TypeOK, Taken, Counting
<1>2. /\ Cleared \in Nat /\ Cleared <= Taken
      /\ head - Cleared + Cardinality(Ticketless) <= Capacity
  <2>1. CASE Clearing
    <3>1. PICK c \in Consumers : cpc[c] = "clear"
      BY <2>1 DEF Clearing
    <3>2. Taken > 0 /\ c \in Uncounting
      BY <3>1 DEF Tailing, Uncounting
    <3>3. Cardinality(Uncounting) >= 1
      BY <3>2, FS_EmptySet
    <3>4. Cleared = Taken - 1
      BY <2>1 DEF Cleared
    <3> QED BY <1>1, <3>2, <3>3, <3>4, CapacityAssumption DEF Counting
  <2>2. CASE ~Clearing
    <3>1. Cleared = Taken
      BY <2>2 DEF Cleared
    <3> QED BY <1>1, <3>1, CapacityAssumption DEF Counting
  <2> QED BY <2>1, <2>2
<1>3. ASSUME NEW t \in Cleared .. (head - 1), NEW u \in Cleared .. (head - 1),
             SlotOf(t) = SlotOf(u)
      PROVE  t = u
  <2>1. t \in Nat /\ u \in Nat /\ t - u < Capacity /\ u - t < Capacity
    BY <1>1, <1>2, CapacityAssumption
  <2>2. CASE t <= u
    BY <1>3, <2>1, <2>2, SameSlot
  <2>3. CASE u <= t
    BY <1>3, <2>1, <2>3, SameSlot
  <2> QED BY <2>1, <2>2, <2>3
<1>4. ASSUME Ticketless # {}, NEW t \in Cleared .. (head - 1)
      PROVE  SlotOf(t) # SlotOf(head)
  <2>1. Cardinality(Ticketless) >= 1
    BY <1>4, FS_EmptySet
  <2>2. t \in Nat /\ t < head /\ head - t < Capacity
    BY <1>1, <1>2, <2>1, CapacityAssumption
  <2> QED BY <1>1, <2>2, SameSlot
<1> QED BY <1>1, <1>2, <1>3, <1>4

(* What Slotting and Covered read, for the steps that leave it alone. *)
LEMMA SlottingUnchanged ==
    ASSUME Slotting, Covered, Writing' = Writing,
           UNCHANGED <<Taken, Cleared, head, slots, arrSlotStat, accepted>>,
           \A q \in Writing : pc'[q] = pc[q] /\ idx'[q] = idx[q] /\ val'[q] = val[q]
    PROVE  Slotting' /\ Covered'
BY DEF Slotting, Covered

LEMMA NextSlotting == ASSUME IInv, [Next]_vars
                      PROVE  Slotting' /\ Covered'
<1> USE DEF IInv
<1>0. /\ Cleared \in Nat /\ Taken \in Nat /\ head \in Nat
      /\ Cleared <= Taken /\ Taken <= head /\ Len(accepted) = head
      /\ \A t, u \in Cleared .. (head - 1) : SlotOf(t) = SlotOf(u) => t = u
  BY OutstandingApart
<1>1. ASSUME NEW p \in Producers, (\E m \in Msgs : PushCount(p, m)) \/ PushUndo(p)
      PROVE  Slotting' /\ Covered'
  <2>1. /\ Writing' = Writing /\ UNCHANGED <<head, slots, arrSlotStat, accepted>>
        /\ \A q \in Writing : pc'[q] = pc[q] /\ idx'[q] = idx[q] /\ val'[q] = val[q]
    BY <1>1 DEF PushCount, PushUndo, Writing, TypeOK
  <2>2. UNCHANGED <<Taken, Cleared>>
    BY <1>1 DEF PushCount, PushUndo, Taken, Cleared, Clearing
  <2> QED BY <2>1, <2>2, SlottingUnchanged
<1>2. ASSUME NEW p \in Producers, PushTicket(p)
      PROVE  Slotting' /\ Covered'
  <2>1. /\ Writing' = Writing \cup {p} /\ p \notin Writing
        /\ head' = head + 1 /\ slots' = slots /\ arrSlotStat' = arrSlotStat
        /\ pc'[p] = "write" /\ idx'[p] = SlotOf(head) /\ val' = val
        /\ \A q \in Writing : pc'[q] = pc[q] /\ idx'[q] = idx[q]
    BY <1>2 DEF PushTicket, Writing, TypeOK
  <2>2. Taken' = Taken /\ Cleared' = Cleared
    BY <1>2 DEF PushTicket, Taken, Cleared, Clearing
  <2>3. /\ accepted'[head + 1] = val[p]
        /\ \A t \in 0 .. (head - 1) : accepted'[t + 1] = accepted[t + 1]
    <3>1. val[p] \in Msgs /\ accepted' = Append(accepted, val[p])
      BY <1>2 DEF PushTicket, Carrying
    <3> QED BY <3>1, <1>0, AppendProperties DEF TypeOK
  <2>4. \A t \in Cleared .. (head - 1) : SlotOf(t) # SlotOf(head)
    BY <1>2, OutstandingApart DEF PushTicket, Ticketless
  <2>5. arrSlotStat[SlotOf(head)] # "CANREAD"
    BY <2>4, <1>0, SlotOfIsSlot DEF Slotting
  <2>6. \A q \in Writing : idx[q] # SlotOf(head)
    BY <2>4, <1>0 DEF Slotting
  <2>7. ASSUME NEW q \in Writing'
        PROVE  /\ arrSlotStat'[idx'[q]] # "CANREAD"
               /\ pc'[q] = "publish" => slots'[idx'[q]] = val'[q]
               /\ \E t \in Taken' .. (head' - 1) :
                     idx'[q] = SlotOf(t) /\ val'[q] = accepted'[t + 1]
    <3>1. CASE q = p
      <4>1. head \in Taken' .. (head' - 1)
        BY <1>0, <2>1, <2>2
      <4> QED BY <3>1, <4>1, <2>1, <2>3, <2>5
    <3>2. CASE q \in Writing
      <4>1. PICK t \in Taken .. (head - 1) : idx[q] = SlotOf(t) /\ val[q] = accepted[t + 1]
        BY <3>2 DEF Slotting
      <4>2. t \in Taken' .. (head' - 1) /\ accepted'[t + 1] = accepted[t + 1]
        BY <1>0, <2>1, <2>2, <2>3
      <4> QED BY <3>2, <4>1, <4>2, <2>1 DEF Slotting
    <3> QED BY <2>1, <3>1, <3>2
  <2>8. \A q, r \in Writing' : q # r => idx'[q] # idx'[r]
    BY <2>1, <2>6 DEF Slotting
  <2>9. \A t \in Taken' .. (head' - 1) : t \in Taken .. (head - 1) \/ t = head
    BY <1>0, <2>1, <2>2
  <2>10. \A t \in Taken' .. (head' - 1) :
            arrSlotStat'[SlotOf(t)] = "CANREAD" => slots'[SlotOf(t)] = accepted'[t + 1]
    <3> SUFFICES ASSUME NEW t \in Taken' .. (head' - 1), arrSlotStat[SlotOf(t)] = "CANREAD"
                 PROVE  slots[SlotOf(t)] = accepted'[t + 1]
      BY <2>1
    <3>1. t \in Taken .. (head - 1)
      BY <2>5, <2>9
    <3> QED BY <3>1, <1>0, <2>3 DEF Slotting
  <2>11. \A i \in Slots : arrSlotStat'[i] = "CANREAD" =>
            \E t \in Cleared' .. (head' - 1) : i = SlotOf(t)
    BY <1>0, <2>1, <2>2 DEF Slotting
  <2>12. Covered'
    <3> SUFFICES ASSUME NEW t \in Taken' .. (head' - 1)
                 PROVE  \/ arrSlotStat'[SlotOf(t)] = "CANREAD"
                        \/ \E q \in Writing' : idx'[q] = SlotOf(t)
      BY DEF Covered
    <3>1. CASE t = head
      BY <2>1, <3>1
    <3>2. CASE t \in Taken .. (head - 1)
      BY <2>1, <3>2 DEF Covered
    <3> QED BY <2>9, <3>1, <3>2
  <2> QED BY <2>7, <2>8, <2>10, <2>11, <2>12 DEF Slotting
<1>3. ASSUME NEW p \in Producers, PushWrite(p)
      PROVE  Slotting' /\ Covered'
  <2>1. /\ Writing' = Writing /\ p \in Writing
        /\ head' = head /\ arrSlotStat' = arrSlotStat
        /\ accepted' = accepted /\ idx' = idx /\ val' = val
        /\ idx[p] \in Slots /\ slots'[idx[p]] = val[p]
        /\ \A i \in Slots : i # idx[p] => slots'[i] = slots[i]
        /\ \A q \in Writing : q # p => pc'[q] = pc[q]
    BY <1>3 DEF PushWrite, Writing, TypeOK
  <2>2. Taken' = Taken /\ Cleared' = Cleared
    BY <1>3 DEF PushWrite, Taken, Cleared, Clearing
  <2>3. ASSUME NEW q \in Writing, pc'[q] = "publish"
        PROVE  slots'[idx[q]] = val[q]
    <3>1. CASE q = p
      BY <2>1, <3>1
    <3>2. CASE q # p
      <4>1. idx[q] \in Slots /\ idx[q] # idx[p] /\ slots[idx[q]] = val[q]
        BY <2>1, <2>3, <3>2 DEF Slotting, Writing, TypeOK
      <4> QED BY <4>1, <2>1
    <3> QED BY <3>1, <3>2
  <2>4. ASSUME NEW t \in Taken .. (head - 1), arrSlotStat[SlotOf(t)] = "CANREAD"
        PROVE  slots'[SlotOf(t)] = accepted[t + 1]
    <3>1. SlotOf(t) \in Slots /\ SlotOf(t) # idx[p] /\ slots[SlotOf(t)] = accepted[t + 1]
      BY <1>0, <2>1, <2>4, SlotOfIsSlot DEF Slotting
    <3> QED BY <3>1, <2>1
  <2> QED BY <2>1, <2>2, <2>3, <2>4 DEF Slotting, Covered
<1>4. ASSUME NEW p \in Producers, PushPublish(p)
      PROVE  Slotting' /\ Covered'
  <2>1. /\ Writing' = Writing \ {p} /\ p \in Writing
        /\ head' = head /\ slots' = slots /\ accepted' = accepted
        /\ idx[p] \in Slots /\ arrSlotStat'[idx[p]] = "CANREAD"
        /\ \A i \in Slots : i # idx[p] => arrSlotStat'[i] = arrSlotStat[i]
        /\ \A q \in Writing' : pc'[q] = pc[q] /\ idx'[q] = idx[q] /\ val'[q] = val[q]
    BY <1>4 DEF PushPublish, Writing, TypeOK
  <2>2. Taken' = Taken /\ Cleared' = Cleared
    BY <1>4 DEF PushPublish, Taken, Cleared, Clearing
  <2>3. PICK u \in Taken .. (head - 1) :
           /\ idx[p] = SlotOf(u) /\ val[p] = accepted[u + 1]
           /\ slots[idx[p]] = val[p]
    BY <1>4, <2>1 DEF PushPublish, Slotting
  <2>4. ASSUME NEW q \in Writing'
        PROVE  arrSlotStat'[idx'[q]] # "CANREAD"
    <3>1. idx[q] \in Slots /\ idx[q] # idx[p] /\ arrSlotStat[idx[q]] # "CANREAD"
      BY <2>1, <2>4 DEF Slotting, Writing, TypeOK
    <3> QED BY <3>1, <2>1, <2>4
  <2>5. ASSUME NEW t \in Taken .. (head - 1), arrSlotStat'[SlotOf(t)] = "CANREAD"
        PROVE  slots[SlotOf(t)] = accepted[t + 1]
    <3>1. CASE SlotOf(t) = idx[p]
      <4>1. t = u
        BY <1>0, <2>3, <3>1
      <4> QED BY <4>1, <2>3
    <3>2. CASE SlotOf(t) # idx[p]
      BY <1>0, <2>1, <2>5, <3>2, SlotOfIsSlot DEF Slotting
    <3> QED BY <3>1, <3>2
  <2>6. ASSUME NEW i \in Slots, arrSlotStat'[i] = "CANREAD"
        PROVE  \E t \in Cleared .. (head - 1) : i = SlotOf(t)
    <3>1. CASE i = idx[p]
      BY <1>0, <2>3, <3>1
    <3>2. CASE i # idx[p]
      BY <2>1, <2>6, <3>2 DEF Slotting
    <3> QED BY <3>1, <3>2
  <2>7. ASSUME NEW t \in Taken .. (head - 1)
        PROVE  \/ arrSlotStat'[SlotOf(t)] = "CANREAD"
               \/ \E q \in Writing' : idx'[q] = SlotOf(t)
    <3>1. CASE SlotOf(t) = idx[p]
      BY <2>1, <3>1
    <3>2. CASE SlotOf(t) # idx[p]
      BY <1>0, <2>1, <3>2, SlotOfIsSlot DEF Covered
    <3> QED BY <3>1, <3>2
  <2>8. Covered'
    BY <2>1, <2>2, <2>7 DEF Covered
  <2> QED BY <2>1, <2>2, <2>4, <2>5, <2>6, <2>8 DEF Slotting
<1>5. ASSUME NEW c \in Consumers,
             \/ PopLook(c) \/ PopLock(c) \/ PopNoData(c) \/ PopGiveUp(c) \/ PopCheck(c)
      PROVE  Slotting' /\ Covered'
  <2>1. UNCHANGED <<head, slots, arrSlotStat, accepted, delivered, producerVars>>
    BY <1>5, QuietPop
  <2>2. Writing' = Writing /\ Taken' = Taken /\ Cleared' = Cleared
    BY <1>5, <2>1, QuietPop DEF Writing, Taken, Cleared, producerVars
  <2> QED BY <2>1, <2>2, SlottingUnchanged DEF producerVars
<1>6. ASSUME NEW c \in Consumers, PopCopy(c)
      PROVE  Slotting' /\ Covered'
  <2>1. /\ Writing' = Writing /\ head' = head /\ slots' = slots
        /\ arrSlotStat' = arrSlotStat /\ accepted' = accepted
        /\ idx' = idx /\ pc' = pc /\ val' = val /\ Taken' = Taken + 1
    BY <1>6 DEF PopCopy, producerVars, Writing, Taken, TypeOK
  <2>2. arrSlotStat[SlotOf(Taken)] = "CANREAD" /\ ~Clearing
    BY <1>6, CopyReads DEF PopCopy
  <2>3. Cleared' = Taken /\ Cleared = Taken
    <3>1. cpc'[c] = "clear"
      BY <1>6 DEF PopCopy, TypeOK
    <3>2. Clearing'
      BY <3>1 DEF Clearing
    <3> QED BY <3>2, <2>1, <2>2, <1>0 DEF Cleared
  <2>4. ASSUME NEW q \in Writing
        PROVE  \E t \in (Taken + 1) .. (head - 1) :
                  idx[q] = SlotOf(t) /\ val[q] = accepted[t + 1]
    <3>1. PICK t \in Taken .. (head - 1) : idx[q] = SlotOf(t) /\ val[q] = accepted[t + 1]
      BY DEF Slotting
    <3>2. t # Taken
      BY <2>2, <3>1 DEF Slotting
    <3> QED BY <1>0, <3>1, <3>2
  <2>5. \A t \in (Taken + 1) .. (head - 1) : t \in Taken .. (head - 1)
    BY <1>0
  <2> QED BY <2>1, <2>3, <2>4, <2>5 DEF Slotting, Covered
<1>7. ASSUME NEW c \in Consumers, PopClear(c)
      PROVE  Slotting' /\ Covered'
  <2>1. /\ Writing' = Writing /\ Taken' = Taken /\ head' = head /\ slots' = slots
        /\ accepted' = accepted /\ idx' = idx /\ pc' = pc /\ val' = val
        /\ arrSlotStat' = [arrSlotStat EXCEPT ![tail] = "EMPTY"]
        /\ cpc[c] = "clear" /\ cpc' = [cpc EXCEPT ![c] = "advance"]
    BY <1>7 DEF PopClear, producerVars, Writing, Taken
  <2>2. Cleared = Taken - 1 /\ Taken > 0 /\ tail = SlotOf(Taken - 1)
    BY <2>1 DEF Clearing, Cleared, Tailing
  <2>3. Cleared' = Taken
    <3>1. \A d \in Consumers \ {c} : cpc[d] \notin Inside
      BY <2>1 DEF Locking, Inside
    <3>2. ~Clearing'
      BY <2>1, <3>1 DEF Clearing, TypeOK, Inside
    <3> QED BY <2>1, <3>2 DEF Cleared
  <2>4. \A i \in Slots : arrSlotStat'[i] = "CANREAD" <=>
                         arrSlotStat[i] = "CANREAD" /\ i # tail
    BY <2>1 DEF TypeOK
  <2>5. \A q \in Writing : arrSlotStat'[idx[q]] # "CANREAD"
    BY <2>4 DEF Slotting, Writing, TypeOK
  <2>6. \A t \in Taken .. (head - 1) : SlotOf(t) \in Slots /\ SlotOf(t) # tail
    <3> SUFFICES ASSUME NEW t \in Taken .. (head - 1), SlotOf(t) = tail
                 PROVE  FALSE
      BY <1>0, SlotOfIsSlot
    <3>1. t \in Cleared .. (head - 1) /\ Taken - 1 \in Cleared .. (head - 1) /\ t # Taken - 1
      BY <1>0, <2>2
    <3> QED BY <1>0, <2>2, <3>1
  <2>7. ASSUME NEW i \in Slots, arrSlotStat'[i] = "CANREAD"
        PROVE  \E t \in Taken .. (head - 1) : i = SlotOf(t)
    <3>1. PICK t \in (Taken - 1) .. (head - 1) : i = SlotOf(t)
      BY <2>2, <2>4, <2>7 DEF Slotting
    <3>2. t # Taken - 1
      BY <2>2, <2>4, <2>7, <3>1
    <3> QED BY <1>0, <3>1, <3>2
  <2>8. Covered'
    BY <2>1, <2>4, <2>6 DEF Covered
  <2> QED BY <2>1, <2>3, <2>4, <2>5, <2>6, <2>7, <2>8 DEF Slotting
<1>8. ASSUME NEW c \in Consumers, PopAdvance(c) \/ PopUncount(c)
      PROVE  Slotting' /\ Covered'
  <2>1. /\ UNCHANGED <<head, slots, arrSlotStat, accepted, delivered, producerVars>>
        /\ cpc[c] # "clear" /\ cpc'[c] # "clear"
        /\ \A d \in Consumers \ {c} : cpc'[d] = cpc[d]
    BY <1>8 DEF PopAdvance, PopUncount, TypeOK
  <2>2. Writing' = Writing /\ Taken' = Taken /\ Clearing' = Clearing
    BY <2>1 DEF Writing, Taken, Clearing, producerVars
  <2> QED BY <2>1, <2>2, SlottingUnchanged DEF producerVars, Cleared
<1>9. CASE UNCHANGED vars
  BY <1>9, SlottingUnchanged DEF vars, producerVars, Writing, Taken, Cleared, Clearing
<1> QED
  BY <1>1, <1>2, <1>3, <1>4, <1>5, <1>6, <1>7, <1>8, <1>9 DEF Next, Push, Pop

----------------------------------------------------------------------------
LEMMA Inductive == Spec => []IInv
<1>1. IInv /\ [Next]_vars => IInv'
  BY NextTypeOK, NextCounting, NextLocking, NextTailing, NextSlotting DEF IInv
<1> QED BY InitIInv, <1>1, PTL DEF Spec

(* mpmc_push and mpmc_pop keep every variable within its type: unReadNum,  *)
(* an unsigned word, is never decremented below zero.                      *)
THEOREM TypeCorrect == Spec => []TypeOK
BY Inductive, PTL DEF IInv

(* One thread at a time is inside mpmc_pop's lock, and the plain accesses  *)
(* to the slots never race.                                                *)
THEOREM SlotsRaceFree == Spec => []SlotAccessExclusive
<1>1. IInv => SlotAccessExclusive
  <2> SUFFICES ASSUME IInv
               PROVE  \A c \in Consumers, p \in Producers :
                         cpc[c] = "copy" /\ pc[p] = "write" => idx[p] # tail
    BY DEF IInv, Locking, Slotting, Writing, SlotAccessExclusive
  <2> QED BY DEF IInv, Tailing, Slotting, Writing
<1> QED BY <1>1, Inductive, PTL

(* A consumer with the lock misses no published task. *)
THEOREM MissesNothing == Spec => []NothingOnlyIfUnpublished
<1>1. IInv => NothingOnlyIfUnpublished
  <2> SUFFICES ASSUME IInv, NEW c \in Consumers, cpc[c] = "check",
                      arrSlotStat[tail] # "CANREAD", Taken < Len(accepted)
               PROVE  \E p \in Producers : pc[p] \in {"write", "publish"} /\ idx[p] = tail
    BY DEF NothingOnlyIfUnpublished, Taken
  <2>1. \A d \in Consumers : cpc[d] \notin {"clear", "advance"}
    BY DEF IInv, Locking, Inside
  <2>2. tail = SlotOf(Taken)
    BY <2>1 DEF IInv, Tailing
  <2>3. Taken \in Taken .. (head - 1)
    BY DEF IInv, TypeOK, Counting, Taken
  <2>4. PICK p \in Writing : idx[p] = tail
    BY <2>2, <2>3 DEF IInv, Covered
  <2> QED BY <2>4 DEF Writing
<1> QED BY <1>1, Inductive, PTL

(* The queue implements the bounded FIFO: drawing a ticket accepts the     *)
(* message, copying the slot out delivers the oldest one, and every other  *)
(* step leaves the FIFO as it is.                                          *)
THEOREM Refinement == Spec => ImplementsFifo
<1>1. Init => Fifo!FifoInit
  BY DEF Init, Fifo!FifoInit
<1>2. IInv /\ [Next]_vars => [Fifo!FifoNext]_(Fifo!fifoVars)
  <2> SUFFICES ASSUME IInv, [Next]_vars
               PROVE  [Fifo!FifoNext]_(Fifo!fifoVars)
    OBVIOUS
  <2> USE DEF Fifo!FifoNext, Fifo!fifoVars
  <2>1. ASSUME NEW p \in Producers, PushTicket(p)
        PROVE  Fifo!FifoNext
    <3>1. val[p] \in Msgs
      BY <2>1 DEF PushTicket, IInv, Carrying
    <3>2. Len(accepted) - Len(delivered) < Capacity
      <4>1. p \in Ticketless
        BY <2>1 DEF PushTicket, Ticketless
      <4>2. Cardinality(Ticketless) >= 1 /\ Cardinality(Uncounting) \in Nat
        BY <4>1, CountsAreFinite, FS_EmptySet
      <4> QED BY <4>2, CountsAreFinite, CapacityAssumption DEF IInv, TypeOK, Counting, Taken
    <3>3. Fifo!Accept(val[p])
      BY <2>1, <3>2 DEF PushTicket, Fifo!Accept, Fifo!Waiting
    <3> QED BY <3>1, <3>3
  <2>2. ASSUME NEW p \in Producers,
               \/ \E m \in Msgs : PushCount(p, m)
               \/ PushUndo(p) \/ PushWrite(p) \/ PushPublish(p)
        PROVE  UNCHANGED Fifo!fifoVars
    BY <2>2 DEF PushCount, PushUndo, PushWrite, PushPublish
  <2>3. ASSUME NEW c \in Consumers, PopCopy(c)
        PROVE  Fifo!FifoNext
    <3>1. /\ tail = SlotOf(Taken) /\ arrSlotStat[tail] = "CANREAD"
          /\ Taken \in Nat /\ head \in Nat /\ Taken < head
      BY <2>3, CopyReads DEF PopCopy
    <3>2. Taken \in Taken .. (head - 1) /\ head = Len(accepted)
      BY <3>1 DEF IInv, Counting
    <3>3. slots[tail] = accepted[Taken + 1]
      BY <3>1, <3>2 DEF IInv, Slotting
    <3>4. Fifo!Deliver
      BY <2>3, <3>1, <3>2, <3>3 DEF PopCopy, Fifo!Deliver, Fifo!Waiting, Taken
    <3> QED BY <3>4
  <2>4. ASSUME NEW c \in Consumers,
               \/ PopLook(c) \/ PopLock(c) \/ PopNoData(c) \/ PopGiveUp(c) \/ PopCheck(c)
               \/ PopClear(c) \/ PopAdvance(c) \/ PopUncount(c)
        PROVE  UNCHANGED Fifo!fifoVars
    BY <2>4 DEF PopLook, PopLock, PopNoData, PopGiveUp, PopCheck, PopClear, PopAdvance,
                PopUncount
  <2>5. CASE UNCHANGED vars
    BY <2>5 DEF vars
  <2> QED
    BY <2>1, <2>2, <2>3, <2>4, <2>5 DEF Next, Push, Pop
<1> QED
  BY <1>1, <1>2, Inductive, PTL DEF Spec, ImplementsFifo, Fifo!FifoSpec

-----------------------------------------------------------------------------
(* A step of either ring is a step of the mailbox or leaves it alone. *)
LEMMA MailboxSteps == MCSpec => Proved!Spec
<1>1. MCInit => Proved!Init
  BY DEF MCInit, Mpsc!Init, Proved!Init, Mpsc!Slots, Proved!Slots
<1>2. Mpsc!Next => Proved!Next
  <2>1. ASSUME NEW p, NEW m PROVE Mpsc!PushCount(p, m) => Proved!PushCount(p, m)
    BY DEF Mpsc!PushCount, Proved!PushCount, Mpsc!Cardinality, Proved!Cardinality,
           Mpsc!consumerVars, Proved!consumerVars
  <2>2. ASSUME NEW p, Mpsc!Push(p) PROVE Proved!Push(p)
    BY <2>1, <2>2
       DEF Mpsc!Push, Proved!Push, Mpsc!PushUndo, Proved!PushUndo, Mpsc!PushTicket,
           Proved!PushTicket, Mpsc!PushWrite, Proved!PushWrite, Mpsc!PushPublish,
           Proved!PushPublish, Mpsc!SlotOf, Proved!SlotOf, Mpsc!consumerVars, Proved!consumerVars
  <2>3. Mpsc!Pop => Proved!Pop
    BY DEF Mpsc!Pop, Proved!Pop, Mpsc!PopEmpty, Proved!PopEmpty, Mpsc!PopCheck, Proved!PopCheck,
           Mpsc!PopCopy, Proved!PopCopy, Mpsc!PopClear, Proved!PopClear, Mpsc!PopUncount,
           Proved!PopUncount, Mpsc!After, Proved!After, Mpsc!producerVars, Proved!producerVars
  <2> QED BY <2>2, <2>3 DEF Mpsc!Next, Proved!Next
<1>3. UNCHANGED mailVars => UNCHANGED Proved!vars
  BY DEF mailVars, Proved!vars, Proved!producerVars, Proved!consumerVars
<1>4. [MCNext]_<<ring, vars, mailVars>> => [Proved!Next]_(Proved!vars)
  BY <1>2, <1>3 DEF MCNext
<1> QED BY <1>1, <1>4, PTL DEF MCSpec, Proved!Spec

(* The inductive invariant of the mailbox ring holds here too. *)
LEMMA MailboxInvariant == MCSpec => []Proved!IInv
<1> USE CapacityAssumption, ProducersAreFinite, NoMsgAssumption, MaxTicketsAssumption
<1>1. Proved!Init => Proved!IInv
  BY Proved!InitIInv
<1>2. Proved!IInv /\ [Proved!Next]_(Proved!vars) => Proved!IInv'
  BY Proved!NextIInv
<1> QED BY <1>1, <1>2, MailboxSteps, PTL DEF Proved!Spec

(* The slots of a mailbox are not raced for, whatever the task queue does. *)
THEOREM MailSlotsRaceFree == MCSpec => []MailSlotExclusive
<1> USE CapacityAssumption, ProducersAreFinite, NoMsgAssumption, MaxTicketsAssumption
<1>1. Proved!IInv => MailSlotExclusive
  BY Proved!Exclusion
     DEF Proved!MailSlotExclusive, MailSlotExclusive, Mpsc!MailSlotExclusive
<1> QED BY <1>1, MailboxInvariant, PTL

(* The mailbox is a bounded FIFO, whatever the task queue does. *)
THEOREM MailRefinement == MCSpec => MailIsFifo
<1> USE CapacityAssumption, ProducersAreFinite, NoMsgAssumption, MaxTicketsAssumption
<1>1. MCInit => Mpsc!Fifo!FifoInit
  BY DEF MCInit, Mpsc!Init, Mpsc!Fifo!FifoInit
<1>2. Proved!IInv /\ [Proved!Next]_(Proved!vars)
      => [Mpsc!Fifo!FifoNext]_(Mpsc!Fifo!fifoVars)
  <2>1. Proved!Fifo!FifoNext => Mpsc!Fifo!FifoNext
    BY DEF Mpsc!Fifo!FifoNext, Proved!Fifo!FifoNext, Mpsc!Fifo!Accept, Proved!Fifo!Accept,
           Mpsc!Fifo!Deliver, Proved!Fifo!Deliver, Mpsc!Fifo!Waiting, Proved!Fifo!Waiting
  <2>2. Proved!IInv /\ [Proved!Next]_(Proved!vars)
        => [Proved!Fifo!FifoNext]_(Proved!Fifo!fifoVars)
    BY Proved!StepKeepsFifo
  <2> QED BY <2>1, <2>2 DEF Mpsc!Fifo!fifoVars, Proved!Fifo!fifoVars
<1> QED
  BY <1>1, <1>2, MailboxInvariant, MailboxSteps, PTL
     DEF MCSpec, Proved!Spec, MailIsFifo, Mpsc!MailIsFifo, Mpsc!Fifo!FifoSpec
=============================================================================
