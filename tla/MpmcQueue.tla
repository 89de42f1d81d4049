----------------------------- MODULE MpmcQueue -----------------------------
(***************************************************************************)
(* The multi-producer multi-consumer ring of mq_mpmc.h: the task queue of  *)
(* a worker, into which any thread puts a service that has work and from   *)
(* which the worker and the workers that steal from it take it.  Producers *)
(* are those of mq_mpsc.h; consumers take turns under readLock, a try-lock *)
(* a thread does not wait for: mpmc_pop answers 0 when it is held.         *)
(*                                                                         *)
(* Each access to an atomic of struct mq_mpmc is one step; a plain access  *)
(* made under readLock goes with the atomic one that follows it.  As in    *)
(* MpscQueue head is a natural number, and accepted and delivered are      *)
(* history variables.                                                      *)
(***************************************************************************)
EXTENDS Ring, Sequences

CONSTANT Consumers   \* threads that call mpmc_pop

ASSUME ConsumersAssumption == IsFiniteSet(Consumers)

VARIABLES readLock,
          unReadNum,   \* messages counted in, and not yet counted out
          tail,        \* the slot read next
          arrSlotStat, \* MPMC_SLOTSTAT_EMPTY or MPMC_SLOTSTAT_CANREAD
          slots,
          head,        \* the next ticket
          pc,          \* each producer's place in mpmc_push
          val,         \* its argument
          idx,         \* its headIdx
          cpc,         \* each consumer's place in mpmc_pop
          accepted, delivered

producerVars == <<pc, val, idx>>
vars == <<readLock, unReadNum, tail, arrSlotStat, slots, head, producerVars,
          cpc, accepted, delivered>>

(* The places of mpmc_pop in which the thread holds readLock. *)
Inside == {"check", "giveup", "copy", "clear", "advance"}

----------------------------------------------------------------------------
(* Wrong variants, each a bug this code could have; no specification uses  *)
(* them.                                                                   *)

(* The lock is not taken by the exchange but by a store after the load. *)
PopLockStores(c) ==
    /\ cpc[c] = "lock"
    /\ readLock' = TRUE
    /\ cpc' = [cpc EXCEPT ![c] = "check"]
    /\ UNCHANGED <<unReadNum, tail, arrSlotStat, slots, head, producerVars,
                   accepted, delivered>>

(* The test of the count lets one task too many in. *)
PushCountOneMore(p, m) ==
    /\ pc[p] = "idle"
    /\ head + Cardinality({q \in Producers : pc[q] = "ticket"}) < MaxTickets
    /\ unReadNum' = unReadNum + 1
    /\ pc' = [pc EXCEPT ![p] = IF unReadNum > Capacity THEN "undo" ELSE "ticket"]
    /\ val' = [val EXCEPT ![p] = m]
    /\ UNCHANGED <<readLock, tail, arrSlotStat, slots, head, idx, cpc, accepted, delivered>>

(* The lock is released as soon as the slot is empty; tail moves after it. *)
PopClearUnlocks(c) ==
    /\ cpc[c] = "clear"
    /\ arrSlotStat' = [arrSlotStat EXCEPT ![tail] = "EMPTY"]
    /\ readLock' = FALSE
    /\ cpc' = [cpc EXCEPT ![c] = "advance"]
    /\ UNCHANGED <<unReadNum, tail, slots, head, producerVars, accepted, delivered>>

----------------------------------------------------------------------------
(* mpmc_create *)
Init ==
    /\ readLock = FALSE
    /\ unReadNum = 0
    /\ tail = 0
    /\ arrSlotStat = [i \in Slots |-> "EMPTY"]
    /\ slots = [i \in Slots |-> NoMsg]
    /\ head = 0
    /\ pc = [p \in Producers |-> "idle"]
    /\ val = [p \in Producers |-> NoMsg]
    /\ idx = [p \in Producers |-> 0]
    /\ cpc = [c \in Consumers |-> "idle"]
    /\ accepted = << >>
    /\ delivered = << >>

(* unReadNum.fetch_add, and the test of the count it replaced. *)
PushCount(p, m) ==
    /\ pc[p] = "idle"
    /\ head + Cardinality({q \in Producers : pc[q] = "ticket"}) < MaxTickets
    /\ unReadNum' = unReadNum + 1
    /\ pc' = [pc EXCEPT ![p] = IF unReadNum >= Capacity THEN "undo" ELSE "ticket"]
    /\ val' = [val EXCEPT ![p] = m]
    /\ UNCHANGED <<readLock, tail, arrSlotStat, slots, head, idx, cpc, accepted, delivered>>

(* The queue is full: fetch_sub, return 0. *)
PushUndo(p) ==
    /\ pc[p] = "undo"
    /\ unReadNum' = unReadNum - 1
    /\ pc' = [pc EXCEPT ![p] = "idle"]
    /\ val' = [val EXCEPT ![p] = NoMsg]
    /\ UNCHANGED <<readLock, tail, arrSlotStat, slots, head, idx, cpc, accepted, delivered>>

(* head.fetch_add: the ticket fixes the slot and the message's place. *)
PushTicket(p) ==
    /\ pc[p] = "ticket"
    /\ head' = head + 1
    /\ idx' = [idx EXCEPT ![p] = SlotOf(head)]
    /\ accepted' = Append(accepted, val[p])
    /\ pc' = [pc EXCEPT ![p] = "write"]
    /\ UNCHANGED <<readLock, unReadNum, tail, arrSlotStat, slots, val, cpc, delivered>>

(* slots[headIdx] = *ptr *)
PushWrite(p) ==
    /\ pc[p] = "write"
    /\ slots' = [slots EXCEPT ![idx[p]] = val[p]]
    /\ pc' = [pc EXCEPT ![p] = "publish"]
    /\ UNCHANGED <<readLock, unReadNum, tail, arrSlotStat, head, val, idx, cpc,
                   accepted, delivered>>

(* stat.store(MPMC_SLOTSTAT_CANREAD); return 1 *)
PushPublish(p) ==
    /\ pc[p] = "publish"
    /\ arrSlotStat' = [arrSlotStat EXCEPT ![idx[p]] = "CANREAD"]
    /\ pc' = [pc EXCEPT ![p] = "idle"]
    /\ val' = [val EXCEPT ![p] = NoMsg]
    /\ idx' = [idx EXCEPT ![p] = 0]
    /\ UNCHANGED <<readLock, unReadNum, tail, slots, head, cpc, accepted, delivered>>

(* read_trylock loads the lock and finds it free; when it is held mpmc_pop *)
(* answers 0 and nothing has changed.                                      *)
PopLook(c) ==
    /\ cpc[c] = "idle"
    /\ ~readLock
    /\ cpc' = [cpc EXCEPT ![c] = "lock"]
    /\ UNCHANGED <<readLock, unReadNum, tail, arrSlotStat, slots, head, producerVars,
                   accepted, delivered>>

(* read_trylock exchanges the lock: another thread may have been faster. *)
PopLock(c) ==
    /\ cpc[c] = "lock"
    /\ readLock' = TRUE
    /\ cpc' = [cpc EXCEPT ![c] = IF readLock THEN "idle" ELSE "check"]
    /\ UNCHANGED <<unReadNum, tail, arrSlotStat, slots, head, producerVars,
                   accepted, delivered>>

(* stat.load: the slot at tail holds nothing to read. *)
PopNoData(c) ==
    /\ cpc[c] = "check"
    /\ arrSlotStat[tail] # "CANREAD"
    /\ cpc' = [cpc EXCEPT ![c] = "giveup"]
    /\ UNCHANGED <<readLock, unReadNum, tail, arrSlotStat, slots, head, producerVars,
                   accepted, delivered>>

(* read_unlock; return 0 *)
PopGiveUp(c) ==
    /\ cpc[c] = "giveup"
    /\ readLock' = FALSE
    /\ cpc' = [cpc EXCEPT ![c] = "idle"]
    /\ UNCHANGED <<unReadNum, tail, arrSlotStat, slots, head, producerVars,
                   accepted, delivered>>

(* stat.load: the slot at tail can be read. *)
PopCheck(c) ==
    /\ cpc[c] = "check"
    /\ arrSlotStat[tail] = "CANREAD"
    /\ cpc' = [cpc EXCEPT ![c] = "copy"]
    /\ UNCHANGED <<readLock, unReadNum, tail, arrSlotStat, slots, head, producerVars,
                   accepted, delivered>>

(* *ptr = slots[tailIdx] *)
PopCopy(c) ==
    /\ cpc[c] = "copy"
    /\ delivered' = Append(delivered, slots[tail])
    /\ cpc' = [cpc EXCEPT ![c] = "clear"]
    /\ UNCHANGED <<readLock, unReadNum, tail, arrSlotStat, slots, head, producerVars,
                   accepted>>

(* stat.store(MPMC_SLOTSTAT_EMPTY): the slot may be written again. *)
PopClear(c) ==
    /\ cpc[c] = "clear"
    /\ arrSlotStat' = [arrSlotStat EXCEPT ![tail] = "EMPTY"]
    /\ cpc' = [cpc EXCEPT ![c] = "advance"]
    /\ UNCHANGED <<readLock, unReadNum, tail, slots, head, producerVars,
                   accepted, delivered>>

(* tail moves on, back to 0 at the capacity; read_unlock. *)
PopAdvance(c) ==
    /\ cpc[c] = "advance"
    /\ tail' = After(tail)
    /\ readLock' = FALSE
    /\ cpc' = [cpc EXCEPT ![c] = "uncount"]
    /\ UNCHANGED <<unReadNum, arrSlotStat, slots, head, producerVars, accepted, delivered>>

(* Only now unReadNum.fetch_sub, when other threads may be popping; return 1. *)
PopUncount(c) ==
    /\ cpc[c] = "uncount"
    /\ unReadNum' = unReadNum - 1
    /\ cpc' = [cpc EXCEPT ![c] = "idle"]
    /\ UNCHANGED <<readLock, tail, arrSlotStat, slots, head, producerVars,
                   accepted, delivered>>

Push(p) == \/ \E m \in Msgs : PushCount(p, m)
           \/ PushUndo(p)
           \/ PushTicket(p)
           \/ PushWrite(p)
           \/ PushPublish(p)

Pop(c) == \/ PopLook(c) \/ PopLock(c)
          \/ PopNoData(c) \/ PopGiveUp(c)
          \/ PopCheck(c) \/ PopCopy(c) \/ PopClear(c) \/ PopAdvance(c)
          \/ PopUncount(c)

Next == \/ \E p \in Producers : Push(p)
        \/ \E c \in Consumers : Pop(c)

Spec == Init /\ [][Next]_vars

----------------------------------------------------------------------------
TypeOK ==
    /\ readLock \in BOOLEAN
    /\ unReadNum \in Nat
    /\ tail \in Slots
    /\ arrSlotStat \in [Slots -> {"EMPTY", "CANREAD"}]
    /\ slots \in [Slots -> Msgs \cup {NoMsg}]
    /\ head \in Nat
    /\ pc \in [Producers -> {"idle", "undo", "ticket", "write", "publish"}]
    /\ val \in [Producers -> Msgs \cup {NoMsg}]
    /\ idx \in [Producers -> Slots]
    /\ cpc \in [Consumers -> {"idle", "lock", "uncount"} \cup Inside]
    /\ accepted \in Seq(Msgs)
    /\ delivered \in Seq(Msgs \cup {NoMsg})

(* The plain accesses to slots[] and to tail never race: two threads are   *)
(* never inside mpmc_pop's lock together, two producers never hold one     *)
(* slot, and none writes the slot a consumer copies.                       *)
SlotAccessExclusive ==
    /\ \A c, d \in Consumers : cpc[c] \in Inside /\ cpc[d] \in Inside => c = d
    /\ \A p, q \in Producers :
          /\ p # q
          /\ pc[p] \in {"write", "publish"}
          /\ pc[q] \in {"write", "publish"}
          => idx[p] # idx[q]
    /\ \A c \in Consumers, p \in Producers :
          cpc[c] = "copy" /\ pc[p] = "write" => idx[p] # tail

(* A thread that holds the lock and finds nothing to read has missed no    *)
(* published task: the queue is empty, or the push of the oldest task has  *)
(* its ticket and has not stored CANREAD yet.  With a held lock, these are *)
(* the only reasons for mpmc_pop to answer 0, as Scheduler!Contended says. *)
NothingOnlyIfUnpublished ==
    \A c \in Consumers :
       /\ cpc[c] = "check"
       /\ arrSlotStat[tail] # "CANREAD"
       /\ Len(delivered) < Len(accepted)
       => \E p \in Producers : pc[p] \in {"write", "publish"} /\ idx[p] = tail

(* Whichever threads push and pop, the queue is a bounded FIFO: each task  *)
(* is taken once, by one thread, in the order of the tickets.              *)
Fifo == INSTANCE BoundedFifo WITH Msgs <- Msgs, Capacity <- Capacity,
                                  accepted <- accepted, delivered <- delivered
ImplementsFifo == Fifo!FifoSpec
=============================================================================
