---------------------------- MODULE BoundedFifo ----------------------------
(***************************************************************************)
(* What a mailbox promises to the actors that share it: messages leave it  *)
(* in the order in which they were accepted, each exactly once, and never  *)
(* more than Capacity accepted messages are waiting.  mq_mpsc.h is shown   *)
(* to implement this module (MpscQueue, MpscQueueProofs).                  *)
(***************************************************************************)
EXTENDS Integers, Sequences

CONSTANTS Msgs,      \* the messages producers may push
          Capacity   \* the largest number of waiting messages

VARIABLES accepted,  \* every message accepted so far, in the order of acceptance
          delivered  \* every message handed to the consumer so far

fifoVars == <<accepted, delivered>>

Waiting == Len(accepted) - Len(delivered)

FifoInit == /\ accepted = << >>
            /\ delivered = << >>

Accept(m) == /\ Waiting < Capacity
             /\ accepted' = Append(accepted, m)
             /\ UNCHANGED delivered

Deliver == /\ Waiting > 0
           /\ delivered' = Append(delivered, accepted[Len(delivered) + 1])
           /\ UNCHANGED accepted

FifoNext == \/ \E m \in Msgs : Accept(m)
            \/ Deliver

FifoSpec == FifoInit /\ [][FifoNext]_fifoVars
=============================================================================
