----------------------------- MODULE MpscQueue -----------------------------
(***************************************************************************)
(* The multi-producer single-consumer ring of mq_mpsc.h, the mailbox of    *)
(* every service (mqIn, mqNet) and the task queue of the timer and the net *)
(* threads.  Each access to an atomic of struct mq_mpsc is one step, so    *)
(* producers and the consumer interleave between any two of them.          *)
(*                                                                         *)
(* The 64-bit ticket counter head never wraps in practice and is a natural *)
(* number; `headIdx = ticket & (capacity - 1)` is the remainder by the     *)
(* capacity, which mpsc_create requires to be a power of two.  accepted    *)
(* and delivered are history variables: the messages in the order of their *)
(* tickets, and the messages mpsc_pop has copied out.                      *)
(***************************************************************************)
EXTENDS Ring, Sequences

VARIABLES unReadNum,   \* messages counted in, and not yet counted out
          head,        \* the next ticket
          tail,        \* the slot the consumer reads next
          slots,
          arrCanRead,
          pc,          \* each producer's place in mpsc_push
          val,         \* its argument
          idx,         \* its headIdx
          cpc,         \* the consumer's place in mpsc_pop
          cidx,        \* the slot whose canRead flag mpsc_pop refers to
          left,        \* the last value mpsc_pop stored in *pLeft
          accepted, delivered

producerVars == <<pc, val, idx>>
consumerVars == <<tail, cpc, cidx, left, delivered>>
vars == <<unReadNum, head, slots, arrCanRead, accepted, producerVars, consumerVars>>

(* mpsc_size: what a consumer sees of unReadNum, clipped at the capacity. *)
mpsc_size == IF unReadNum < Capacity THEN unReadNum ELSE Capacity

----------------------------------------------------------------------------
(* Wrong variants of the steps below, each a bug of the kind this code     *)
(* could have.  No specification uses them: they show that the properties  *)
(* at the end of the module can fail.                                      *)

(* The slot is taken from the count instead of the ticket. *)
PushTicketFromCount(p) ==
    /\ pc[p] = "ticket"
    /\ head' = head + 1
    /\ idx' = [idx EXCEPT ![p] = SlotOf(unReadNum)]
    /\ accepted' = Append(accepted, val[p])
    /\ pc' = [pc EXCEPT ![p] = "write"]
    /\ UNCHANGED <<unReadNum, slots, arrCanRead, val, consumerVars>>

(* The slot is published before it is written. *)
PushTicketPublishFirst(p) ==
    /\ pc[p] = "ticket"
    /\ head' = head + 1
    /\ idx' = [idx EXCEPT ![p] = SlotOf(head)]
    /\ arrCanRead' = [arrCanRead EXCEPT ![SlotOf(head)] = TRUE]
    /\ accepted' = Append(accepted, val[p])
    /\ pc' = [pc EXCEPT ![p] = "write"]
    /\ UNCHANGED <<unReadNum, slots, val, consumerVars>>

----------------------------------------------------------------------------
(* mpsc_create *)
Init ==
    /\ unReadNum = 0
    /\ head = 0
    /\ tail = 0
    /\ slots = [i \in Slots |-> NoMsg]
    /\ arrCanRead = [i \in Slots |-> FALSE]
    /\ pc = [p \in Producers |-> "idle"]
    /\ val = [p \in Producers |-> NoMsg]
    /\ idx = [p \in Producers |-> 0]
    /\ cpc = "idle"
    /\ cidx = 0
    /\ left = 0
    /\ accepted = << >>
    /\ delivered = << >>

(* unReadNum.fetch_add: the push is admitted when the count it replaces is *)
(* below the capacity, and must be undone otherwise.                       *)
PushCount(p, m) ==
    /\ pc[p] = "idle"
    /\ head + Cardinality({q \in Producers : pc[q] = "ticket"}) < MaxTickets
    /\ unReadNum' = unReadNum + 1
    /\ pc' = [pc EXCEPT ![p] = IF unReadNum >= Capacity THEN "undo" ELSE "ticket"]
    /\ val' = [val EXCEPT ![p] = m]
    /\ UNCHANGED <<head, slots, arrCanRead, accepted, idx, consumerVars>>

(* The queue is full: fetch_sub, return 0. *)
PushUndo(p) ==
    /\ pc[p] = "undo"
    /\ unReadNum' = unReadNum - 1
    /\ pc' = [pc EXCEPT ![p] = "idle"]
    /\ val' = [val EXCEPT ![p] = NoMsg]
    /\ UNCHANGED <<head, slots, arrCanRead, accepted, idx, consumerVars>>

(* head.fetch_add: the ticket fixes the slot and the message's place. *)
PushTicket(p) ==
    /\ pc[p] = "ticket"
    /\ head' = head + 1
    /\ idx' = [idx EXCEPT ![p] = SlotOf(head)]
    /\ accepted' = Append(accepted, val[p])
    /\ pc' = [pc EXCEPT ![p] = "write"]
    /\ UNCHANGED <<unReadNum, slots, arrCanRead, val, consumerVars>>

(* slots[headIdx] = val *)
PushWrite(p) ==
    /\ pc[p] = "write"
    /\ slots' = [slots EXCEPT ![idx[p]] = val[p]]
    /\ pc' = [pc EXCEPT ![p] = "publish"]
    /\ UNCHANGED <<unReadNum, head, arrCanRead, accepted, val, idx, consumerVars>>

(* canRead.exchange(true); return 1 *)
PushPublish(p) ==
    /\ pc[p] = "publish"
    /\ arrCanRead' = [arrCanRead EXCEPT ![idx[p]] = TRUE]
    /\ pc' = [pc EXCEPT ![p] = "idle"]
    /\ val' = [val EXCEPT ![p] = NoMsg]
    /\ idx' = [idx EXCEPT ![p] = 0]
    /\ UNCHANGED <<unReadNum, head, slots, accepted, consumerVars>>

(* canRead.load finds nothing: *pLeft = 0, return 0. *)
PopEmpty ==
    /\ cpc = "idle"
    /\ ~arrCanRead[tail]
    /\ left' = 0
    /\ UNCHANGED <<unReadNum, head, slots, arrCanRead, accepted, producerVars,
                   tail, cpc, cidx, delivered>>

(* canRead.load succeeds. *)
PopCheck ==
    /\ cpc = "idle"
    /\ arrCanRead[tail]
    /\ cpc' = "copy"
    /\ cidx' = tail
    /\ UNCHANGED <<unReadNum, head, slots, arrCanRead, accepted, producerVars,
                   tail, left, delivered>>

(* *ptr = slots[tail]; tail moves on, back to 0 at the capacity. *)
PopCopy ==
    /\ cpc = "copy"
    /\ delivered' = Append(delivered, slots[tail])
    /\ tail' = After(tail)
    /\ cpc' = "clear"
    /\ UNCHANGED <<unReadNum, head, slots, arrCanRead, accepted, producerVars,
                   cidx, left>>

(* canRead.store(false): the slot may be written again. *)
PopClear ==
    /\ cpc = "clear"
    /\ arrCanRead' = [arrCanRead EXCEPT ![cidx] = FALSE]
    /\ cpc' = "uncount"
    /\ UNCHANGED <<unReadNum, head, slots, accepted, producerVars,
                   tail, cidx, left, delivered>>

(* unReadNum.fetch_sub; *pLeft is what remains, clipped; return 1. *)
PopUncount ==
    /\ cpc = "uncount"
    /\ unReadNum' = unReadNum - 1
    /\ left' = IF unReadNum - 1 > Capacity THEN Capacity ELSE unReadNum - 1
    /\ cpc' = "idle"
    /\ cidx' = 0
    /\ UNCHANGED <<head, slots, arrCanRead, accepted, producerVars, tail, delivered>>

Push(p) == \/ \E m \in Msgs : PushCount(p, m)
           \/ PushUndo(p)
           \/ PushTicket(p)
           \/ PushWrite(p)
           \/ PushPublish(p)

Pop == PopEmpty \/ PopCheck \/ PopCopy \/ PopClear \/ PopUncount

Next == Pop \/ \E p \in Producers : Push(p)

Spec == Init /\ [][Next]_vars

----------------------------------------------------------------------------
TypeOK ==
    /\ unReadNum \in Nat
    /\ head \in Nat
    /\ tail \in Slots
    /\ slots \in [Slots -> Msgs \cup {NoMsg}]
    /\ arrCanRead \in [Slots -> BOOLEAN]
    /\ pc \in [Producers -> {"idle", "undo", "ticket", "write", "publish"}]
    /\ val \in [Producers -> Msgs \cup {NoMsg}]
    /\ idx \in [Producers -> Slots]
    /\ cpc \in {"idle", "copy", "clear", "uncount"}
    /\ cidx \in Slots
    /\ left \in Nat
    /\ accepted \in Seq(Msgs)
    /\ delivered \in Seq(Msgs \cup {NoMsg})

(* `assert(canRead.exchange(true) == false)` never fails: a producer about *)
(* to publish a slot finds it unpublished, so no unread message is lost.   *)
PublishFindsSlotFree ==
    \A p \in Producers : pc[p] \in {"write", "publish"} => ~arrCanRead[idx[p]]

(* No slot is written by two producers at once, nor while mpsc_pop copies  *)
(* it: the plain (non-atomic) accesses to slots[] never race.              *)
MailSlotExclusive ==
    /\ \A p, q \in Producers :
          /\ p # q
          /\ pc[p] \in {"write", "publish"}
          /\ pc[q] \in {"write", "publish"}
          => idx[p] # idx[q]
    /\ cpc = "copy" => \A p \in Producers : pc[p] = "write" => idx[p] # tail

(* mpsc_size never hides a message: when worker_thread reads 0 after a     *)
(* push has drawn its ticket, that message has been popped.                *)
SizeCoversUnread ==
    Len(accepted) - Len(delivered) <= mpsc_size

(* The ring implements a bounded FIFO with the history variables as the    *)
(* abstract state: order, exactly-once delivery and the bound.             *)
Fifo == INSTANCE BoundedFifo WITH Msgs <- Msgs, Capacity <- Capacity,
                                  accepted <- accepted, delivered <- delivered
MailIsFifo == Fifo!FifoSpec

=============================================================================
