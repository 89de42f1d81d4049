------------------------------ MODULE MCRings ------------------------------
(***************************************************************************)
(* The two rings, MpmcQueue and MpscQueue, with three producers and two    *)
(* slots: a third push finds the ring full, and four tickets make the head *)
(* lap the tail.  A behaviour uses one of them, by the initial value of    *)
(* ring, and leaves the other as created.                                  *)
(***************************************************************************)
EXTENDS MpmcQueue

VARIABLES ring,
          mUnRead, mHead, mTail, mSlots, mCanRead, mPc, mVal, mIdx,
          mCpc, mCidx, mLeft, mAccepted, mDelivered

Mpsc == INSTANCE MpscQueue WITH
            unReadNum <- mUnRead, head <- mHead, tail <- mTail, slots <- mSlots,
            arrCanRead <- mCanRead, pc <- mPc, val <- mVal, idx <- mIdx,
            cpc <- mCpc, cidx <- mCidx, left <- mLeft,
            accepted <- mAccepted, delivered <- mDelivered

mailVars == <<mUnRead, mHead, mTail, mSlots, mCanRead, mPc, mVal, mIdx,
              mCpc, mCidx, mLeft, mAccepted, mDelivered>>

MCInit == Init /\ Mpsc!Init /\ ring \in {"mpsc", "mpmc"}

MCNext == \/ ring = "mpmc" /\ Next /\ UNCHANGED <<ring, mailVars>>
          \/ ring = "mpsc" /\ Mpsc!Next /\ UNCHANGED <<ring, vars>>

MCSpec == MCInit /\ [][MCNext]_<<ring, vars, mailVars>>

(* The slots of a mailbox are not raced for (MpscQueue). *)
MailSlotExclusive == Mpsc!MailSlotExclusive

(* A mailbox is a bounded FIFO (MpscQueue). *)
MailIsFifo == Mpsc!MailIsFifo
=============================================================================
