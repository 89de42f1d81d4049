--------------------------- MODULE ExclusiveProofs ---------------------------
(***************************************************************************)
(* What holds of exclusive services for any number of slots, threads and   *)
(* senders.                                                                *)
(*                                                                         *)
(* ExclInv says whose each slot is: a context belongs to the one thread of *)
(* its slot that runs, calledCnt counts the senders that use the slot, and *)
(* an address that a sender has found valid is the running thread's, which *)
(* waits for that sender before it frees anything.  On top of it, CountInv *)
(* says what msgNum counts and who notifies a thread that waits.           *)
(***************************************************************************)
EXTENDS Exclusive, FiniteSetTheorems, TLAPS

Types ==
    /\ svcCnt \in [Slots -> Nat]
    /\ calledCnt \in [Slots -> Int]
    /\ mqIn \in [Slots -> Seq(Senders \union {Ready})]
    /\ exitCalled \in [Slots -> BOOLEAN]
    /\ exclusiveCtx \in [Slots -> Threads \union {NoThread}]
    /\ quIdxFree \subseteq Slots
    /\ tpc \in [Threads -> ThreadPlaces]
    /\ home \in [Threads -> Slots]
    /\ cnt \in [Threads -> Nat]
    /\ loop \in [Threads -> BOOLEAN]
    /\ created \in 0 .. MaxThreads
    /\ spc \in [Senders -> SenderPlaces]
    /\ dst \in [Senders -> Threads \union {NoThread}]
    /\ made \in [Senders -> Threads \union {NoThread}]
    /\ plkCtx \subseteq 1 .. created
    /\ todo \subseteq 1 .. created

(* The places of a thread whose service has its slot. *)
Serving == {"loop", "proc", "uncount", "idle", "checkidle", "wait", "sleep", "unidle"}
Alives  == Serving \union {"stop", "drain", "free"}
Runs(t) == tpc[t] \in Alives

(* A sender's places between callsvc_begin and callsvc_end. *)
Using == {"check", "push", "publish", "count", "look", "notify", "end"}

(* A slot has the context of the one thread of it that runs, if any. *)
Contexts ==
    /\ \A t \in Threads : t > created <=> tpc[t] = "none"
    /\ \A s \in Slots : exclusiveCtx[s] # NoThread =>
          home[exclusiveCtx[s]] = s /\ Runs(exclusiveCtx[s])
    /\ \A t \in Threads : Runs(t) => exclusiveCtx[home[t]] = t
    /\ \A s \in Slots : s \in quIdxFree <=> exclusiveCtx[s] = NoThread

(* Who knows which address: only its maker until svc_newservice returns. *)
Names ==
    /\ \A p \in Senders : dst[p] # NoThread <=> spc[p] \in Using
    /\ \A p \in Senders : dst[p] <= created /\ made[p] <= created
    /\ \A p \in Senders : spc[p] \in {"list", "start"} => made[p] # NoThread
    /\ \A p \in Senders : spc[p] = "idle" => made[p] = NoThread
    /\ \A p, q \in Senders : made[p] # NoThread /\ made[p] = made[q] => p = q
    /\ \A p, q \in Senders : dst[p] # NoThread /\ dst[p] = made[q] => p = q

(* An address is valid at most until its thread stops. *)
Valid ==
    \A t \in 1 .. created :
        /\ cnt[t] <= svcCnt[home[t]]
        /\ tpc[t] \in {"drain", "free", "remove", "ended"} => cnt[t] < svcCnt[home[t]]
        /\ Runs(t) /\ exitCalled[home[t]] => cnt[t] < svcCnt[home[t]]

Callers(s) == {p \in Senders : dst[p] # NoThread /\ home[dst[p]] = s}
Called == \A s \in Slots : calledCnt[s] = Cardinality(Callers(s))

(* A thread that a sender has found does not get past its wait for it. *)
Used == \A p \in Inside : tpc[dst[p]] \in Serving \union {"stop", "drain"}

(* A mailbox holds what is published and what senders are about to publish,*)
(* and nothing when the slot is free.                                      *)
Mail ==
    \A s \in Slots :
        /\ \A i \in DOMAIN mqIn[s] : mqIn[s][i] # Ready =>
              spc[mqIn[s][i]] = "publish" /\ home[dst[mqIn[s][i]]] = s
        /\ exclusiveCtx[s] = NoThread => mqIn[s] = << >>
        /\ Len(mqIn[s]) <= MqInCap

(* Until it is listed, a thread cannot end: nobody can tell it to. *)
Unlisted(t) ==
    /\ t \notin plkCtx /\ t \notin todo /\ loop[t]
    /\ tpc[t] \in Serving /\ ~exitCalled[home[t]] /\ mqIn[home[t]] = << >>
Listed == \A p \in Senders : spc[p] = "list" => Unlisted(made[p])

ExclInv ==
    /\ Types /\ Contexts /\ Names /\ Valid /\ Called /\ Used /\ Mail /\ Listed
    /\ ListedUntilEnd

(* What a thread counts, and who wakes it. *)
CountTypes ==
    /\ isIdle \in [Threads -> BOOLEAN]
    /\ msgNum \in [Threads -> Int]
    /\ procMsgNum \in [Threads -> Int]
    /\ missed \in [Threads -> BOOLEAN]
    /\ \A t \in Threads : isIdle[t] <=> tpc[t] \in {"checkidle", "wait", "sleep", "unidle"}
    /\ \A t \in Threads : tpc[t] \notin {"proc", "uncount"} => procMsgNum[t] = 0
    /\ \A t \in Threads : tpc[t] = "none" => msgNum[t] = 0

Pushing(t) == {p \in Senders : spc[p] \in {"publish", "count"} /\ dst[p] = t}
Counted ==
    \A t \in Threads : tpc[t] \in Serving =>
        msgNum[t] = Len(mqIn[home[t]]) + procMsgNum[t] - Cardinality(Pushing(t))

(* Whoever will look at isIdle, or has seen it. *)
Announcing(t) ==
    {p \in Senders : spc[p] \in {"publish", "count", "look", "notify"} /\ dst[p] = t}
Roused ==
    \A t \in Threads :
        tpc[t] \in {"wait", "sleep"} /\ mqIn[home[t]] # << >> => missed[t] \/ Announcing(t) # {}

CountInv == ExclInv /\ CountTypes /\ Counted /\ Roused


----------------------------------------------------------------------------
(* Steps that change nobody's hold on a slot                               *)

(* Threads go on serving or begin to stop, senders leave one after the     *)
(* other what they have found.                                             *)
ThreadsSteady ==
    /\ tpc' \in [Threads -> ThreadPlaces]
    /\ \A t \in Threads :
          \/ tpc'[t] = tpc[t]
          \/ /\ tpc[t] \in Serving /\ tpc'[t] \in Serving \union {"stop"}
             /\ tpc'[t] = "stop" => ~loop[t] \/ exitCalled[home[t]]

SendersSteady ==
    /\ spc' \in [Senders -> SenderPlaces]
    /\ \A p \in Senders :
          \/ spc'[p] = spc[p]
          \/ /\ spc[p] \in Using \ {"publish"} /\ spc'[p] \in Using \ {"publish"}
             /\ p \in Inside' => p \in Inside

Steady ==
    /\ ThreadsSteady /\ SendersSteady
    /\ UNCHANGED <<slotVars, loop, placeVars, dst, made, plkCtx, todo>>

LEMMA PlacesApart ==
    /\ Serving \subseteq Alives /\ Alives \subseteq ThreadPlaces
    /\ Serving \intersect {"none", "stop", "drain", "free", "remove", "ended"} = {}
    /\ Alives \intersect {"none", "remove", "ended"} = {}
    /\ ThreadPlaces = Alives \union {"none", "remove", "ended"}
    /\ Using \subseteq SenderPlaces
    /\ Using \intersect {"idle", "list", "start"} = {}
    /\ NoThread \notin Threads
BY DEF Serving, Alives, ThreadPlaces, Using, SenderPlaces, NoThread, Threads

LEMMA SteadyInv == ASSUME ExclInv, Steady PROVE ExclInv'
<1> USE DEF Steady, slotVars, placeVars
<1>1. Types' BY DEF ExclInv, Types, ThreadsSteady, SendersSteady
<1>2. \A t \in Threads : Runs(t)' <=> Runs(t)
  BY DEF ThreadsSteady, Runs, Serving, Alives
<1>3. Contexts'
  <2>1. \A t \in Threads : tpc'[t] = "none" <=> tpc[t] = "none"
    BY DEF ThreadsSteady, Serving
  <2>2. \A s \in Slots : exclusiveCtx[s] # NoThread => exclusiveCtx[s] \in Threads
    BY DEF ExclInv, Types
  <2> QED BY <1>2, <2>1, <2>2 DEF ExclInv, Contexts
<1>4. Names' BY DEF ExclInv, Names, SendersSteady, Using
<1>5. \A t \in Threads : tpc'[t] \in {"drain", "free", "remove", "ended"} =>
        tpc[t] \in {"drain", "free", "remove", "ended"}
  BY DEF ThreadsSteady, Serving
<1>6. 1 .. created \subseteq Threads
  BY MaxThreadsAssumption DEF ExclInv, Types, Threads
<1>7. Valid' BY <1>2, <1>5, <1>6 DEF ExclInv, Valid
<1>8. Called' BY DEF ExclInv, Called, Callers
<1>9. Inside' \subseteq Inside BY DEF Inside, SendersSteady
<1>10. \A p \in Inside : dst[p] \in Threads
  BY DEF ExclInv, Types, Names, Inside, Using
<1>11. Used' BY <1>9, <1>10 DEF ExclInv, Used, ThreadsSteady
<1>12. \A p \in Senders : spc[p] = "publish" => spc'[p] = "publish"
  BY DEF SendersSteady
<1>13. Mail'
  <2> SUFFICES ASSUME NEW s \in Slots
               PROVE  /\ \A i \in DOMAIN mqIn[s] : mqIn[s][i] # Ready =>
                            spc'[mqIn[s][i]] = "publish" /\ home[dst[mqIn[s][i]]] = s
                      /\ exclusiveCtx[s] = NoThread => mqIn[s] = << >>
                      /\ Len(mqIn[s]) <= MqInCap
    BY DEF Mail
  <2>1. \A i \in DOMAIN mqIn[s] : mqIn[s][i] # Ready => mqIn[s][i] \in Senders
    BY DEF ExclInv, Types
  <2> QED BY <2>1, <1>12 DEF ExclInv, Mail
<1>14. \A p \in Senders : spc'[p] = "list" => spc[p] = "list"
  BY DEF SendersSteady, Using
<1>15. Listed'
  <2> SUFFICES ASSUME NEW p \in Senders, spc'[p] = "list" PROVE Unlisted(made[p])'
    BY DEF Listed
  <2>1. Unlisted(made[p]) /\ made[p] \in Threads
    BY <1>14 DEF ExclInv, Listed, Types, Names
  <2> QED BY <2>1 DEF Unlisted, ThreadsSteady
<1>16. \A t \in Threads : tpc'[t] = "ended" <=> tpc[t] = "ended"
  BY DEF ThreadsSteady, Serving
<1>17. \A p \in Senders : spc'[p] = "list" <=> spc[p] = "list"
  BY DEF SendersSteady, Using
<1>18. ListedUntilEnd'
  BY <1>6, <1>16, <1>17 DEF ExclInv, Types, ListedUntilEnd
<1> QED BY <1>1, <1>3, <1>4, <1>7, <1>8, <1>11, <1>13, <1>15, <1>18 DEF ExclInv

LEMMA SteadySenders ==
    ASSUME ExclInv, NEW p \in Senders,
           SendGone(p) \/ SendFull(p) \/ SendCount(p) \/ SendLook(p) \/ SendNotify(p)
    PROVE  Steady
<1> USE DEF ExclInv, Types, SenderAt, SenderGoto, ThreadGoto, slotVars, placeVars, threadVars,
            idleVars, senderVars, mgrVars
<1>1. SendersSteady
  BY DEF SendersSteady, SendGone, SendFull, SendCount, SendLook, SendNotify, Refuse, Using,
         Inside, SenderPlaces
<1>2. tpc' = tpc \/ (tpc[dst[p]] = "sleep" /\ tpc' = [tpc EXCEPT ![dst[p]] = "unidle"])
  BY DEF SendGone, SendFull, SendCount, SendLook, SendNotify, Refuse, Notify
<1>3. ThreadsSteady BY <1>2 DEF ThreadsSteady, Serving, ThreadPlaces
<1> QED
  BY <1>1, <1>3 DEF Steady, SendGone, SendFull, SendCount, SendLook, SendNotify, Refuse, Notify

LEMMA SteadyThreads ==
    ASSUME ExclInv, NEW t \in Threads,
           \/ LoopTop(t) \/ NoMsg(t) \/ Uncount(t) \/ SetIdle(t) \/ CheckIdle(t) \/ Wait(t)
           \/ SpuriousWake(t) \/ Unidle(t)
    PROVE  Steady
<1> USE DEF ExclInv, Types, ThreadAt, ThreadGoto, slotVars, placeVars, threadVars,
            idleVars, senderVars, mgrVars
<1>1. SendersSteady
  BY DEF SendersSteady, LoopTop, NoMsg, Uncount, SetIdle, CheckIdle, Wait, SpuriousWake, Unidle
<1>2. ThreadsSteady
  <2>1. CASE LoopTop(t) BY <2>1 DEF ThreadsSteady, Serving, ThreadPlaces, LoopTop
  <2>2. CASE NoMsg(t) BY <2>2 DEF ThreadsSteady, Serving, ThreadPlaces, NoMsg
  <2>3. CASE Uncount(t) BY <2>3 DEF ThreadsSteady, Serving, ThreadPlaces, Uncount
  <2>4. CASE SetIdle(t) BY <2>4 DEF ThreadsSteady, Serving, ThreadPlaces, SetIdle
  <2>5. CASE CheckIdle(t) BY <2>5 DEF ThreadsSteady, Serving, ThreadPlaces, CheckIdle
  <2>6. CASE Wait(t) BY <2>6 DEF ThreadsSteady, Serving, ThreadPlaces, Wait
  <2>7. CASE SpuriousWake(t) BY <2>7 DEF ThreadsSteady, Serving, ThreadPlaces, SpuriousWake
  <2>8. CASE Unidle(t) BY <2>8 DEF ThreadsSteady, Serving, ThreadPlaces, Unidle
  <2> QED BY <2>1, <2>2, <2>3, <2>4, <2>5, <2>6, <2>7, <2>8
<1> QED
  BY <1>1, <1>2 DEF Steady, LoopTop, NoMsg, Uncount, SetIdle, CheckIdle, Wait, SpuriousWake,
                    Unidle

LEMMA SteadyShutdown ==
    ASSUME ExclInv, ShutdownNotify \/ ShutdownEnd \/ WaitLock \/ WaitUnlock
    PROVE  Steady
<1> USE DEF ExclInv, Types, ThreadGoto, slotVars, placeVars, threadVars,
            idleVars, senderVars, mgrVars
<1>1. SendersSteady
  BY DEF SendersSteady, ShutdownNotify, ShutdownEnd, WaitLock, WaitUnlock
<1>2. tpc' = tpc \/ (tpc[stopping] = "sleep" /\ tpc' = [tpc EXCEPT ![stopping] = "unidle"])
  BY DEF ShutdownNotify, ShutdownEnd, WaitLock, WaitUnlock, Notify
<1>3. ThreadsSteady BY <1>2 DEF ThreadsSteady, Serving, ThreadPlaces
<1> QED
  BY <1>1, <1>3 DEF Steady, ShutdownNotify, ShutdownEnd, WaitLock, WaitUnlock, Notify


----------------------------------------------------------------------------
(* Senders                                                                 *)

LEMMA CallersFinite == \A s \in Slots : IsFiniteSet(Callers(s))
BY ThreadsAssumption, FS_Subset DEF Callers

LEMMA CreatedThreads == Types => 1 .. created \subseteq Threads
BY MaxThreadsAssumption DEF Types, Threads

(* callsvc_begin on an address that nobody else's svc_newservice returned. *)
LEMMA CallBegins ==
    ASSUME ExclInv, NEW p \in Senders, NEW t \in 1 .. created, CallBegin(p, t),
           spc[p] \in {"idle", "start"}, spc[p] = "start" => made[p] = t,
           \A q \in Senders : made[q] = t => q = p
    PROVE  ExclInv'
<1> USE DEF CallBegin, SenderGoto, threadVars, placeVars, mgrVars
<1>0. t \in Threads /\ t # NoThread BY CreatedThreads DEF ExclInv, Threads, NoThread
<1>a. dst[p] = NoThread BY DEF ExclInv, Names, Using
<1>1. Types'
  <2>1. home[t] \in Slots /\ calledCnt \in [Slots -> Int] BY <1>0 DEF ExclInv, Types
  <2>1a. calledCnt' \in [Slots -> Int] BY <2>1
  <2>2. spc' \in [Senders -> SenderPlaces] BY DEF ExclInv, Types, SenderPlaces
  <2>3. dst' \in [Senders -> Threads \union {NoThread}] BY <1>0 DEF ExclInv, Types
  <2> QED BY <2>1a, <2>2, <2>3 DEF ExclInv, Types
<1>2. Contexts' BY DEF ExclInv, Contexts, Runs
<1>3. Names' BY <1>0, <1>a DEF ExclInv, Types, Names, Using
<1>4. Valid' BY DEF ExclInv, Valid, Runs
<1>5. Called'
  <2>1. Callers(home[t])' = Callers(home[t]) \union {p} /\ p \notin Callers(home[t])
    BY <1>0, <1>a DEF ExclInv, Types, Callers
  <2>2. \A s \in Slots : s # home[t] => Callers(s)' = Callers(s)
    BY <1>0, <1>a DEF ExclInv, Types, Callers
  <2>3. home[t] \in Slots BY <1>0 DEF ExclInv, Types
  <2>4. Cardinality(Callers(home[t])') = Cardinality(Callers(home[t])) + 1
    BY <2>1, <2>3, CallersFinite, FS_AddElement
  <2> QED BY <2>2, <2>3, <2>4 DEF ExclInv, Types, Called
<1>6. Used' BY <1>a DEF ExclInv, Types, Used, Inside
<1>7. Mail'
  <2>1. \A s \in Slots : \A i \in DOMAIN mqIn[s] : mqIn[s][i] # Ready =>
           mqIn[s][i] \in Senders /\ mqIn[s][i] # p
    BY DEF ExclInv, Types, Mail
  <2> QED BY <2>1 DEF ExclInv, Types, Mail
<1>8. Listed' BY DEF ExclInv, Types, Listed, Unlisted
<1>9. ListedUntilEnd' BY DEF ExclInv, Types, ListedUntilEnd
<1> QED BY <1>1, <1>2, <1>3, <1>4, <1>5, <1>6, <1>7, <1>8, <1>9 DEF ExclInv

LEMMA CallEnds ==
    ASSUME ExclInv, NEW p \in Senders, NEW t \in Threads, dst[p] = t, SendEnd(p)
    PROVE  ExclInv'
<1> USE DEF SendEnd, SenderAt, SenderGoto, threadVars, placeVars, mgrVars
<1>0. t # NoThread BY DEF Threads, NoThread
<1>1. Types' BY <1>0 DEF ExclInv, Types, SenderPlaces
<1>2. Contexts' BY DEF ExclInv, Contexts, Runs
<1>3. Names' BY <1>0 DEF ExclInv, Types, Names, Using, NoThread
<1>4. Valid' BY DEF ExclInv, Valid, Runs
<1>5. Called'
  <2>1. Callers(home[t])' = Callers(home[t]) \ {p} /\ p \in Callers(home[t])
    BY <1>0 DEF ExclInv, Types, Callers
  <2>2. \A s \in Slots : s # home[t] => Callers(s)' = Callers(s)
    BY <1>0 DEF ExclInv, Types, Callers
  <2>3. home[t] \in Slots BY <1>0 DEF ExclInv, Types
  <2>4. Cardinality(Callers(home[t])') = Cardinality(Callers(home[t])) - 1
    <3>1. PICK H : H = Callers(home[t]) OBVIOUS
    <3>2. IsFiniteSet(H) /\ p \in H /\ Callers(home[t])' = H \ {p}
      BY <2>1, <2>3, <3>1, CallersFinite
    <3>3. Cardinality(H \ {p}) = Cardinality(H) - 1 BY <3>2, FS_RemoveElement
    <3> QED BY <3>1, <3>2, <3>3
  <2> QED BY <2>2, <2>3, <2>4 DEF ExclInv, Types, Called
<1>6. Used' BY DEF ExclInv, Types, Used, Inside
<1>7. Mail'
  <2>1. \A s \in Slots : \A i \in DOMAIN mqIn[s] : mqIn[s][i] # Ready =>
           mqIn[s][i] \in Senders /\ mqIn[s][i] # p
    BY DEF ExclInv, Types, Mail
  <2> QED BY <2>1 DEF ExclInv, Types, Mail
<1>8. Listed' BY DEF ExclInv, Types, Listed, Unlisted
<1>9. ListedUntilEnd' BY DEF ExclInv, Types, ListedUntilEnd
<1> QED BY <1>1, <1>2, <1>3, <1>4, <1>5, <1>6, <1>7, <1>8, <1>9 DEF ExclInv


LEMMA Lists == ASSUME ExclInv, NEW p \in Senders, ListContext(p) PROVE ExclInv'
<1> USE DEF ListContext, SenderAt, SenderGoto, slotVars, threadVars, placeVars
<1>0. /\ made[p] \in 1 .. created /\ Unlisted(made[p])
      /\ \A q \in Senders : made[q] = made[p] => q = p
  BY DEF ExclInv, Types, Names, Listed, Threads, NoThread
<1>1. Types' BY <1>0 DEF ExclInv, Types, SenderPlaces
<1>2. Contexts' BY DEF ExclInv, Contexts, Runs
<1>3. Names' BY <1>0 DEF ExclInv, Types, Names, Using
<1>4. Valid' BY DEF ExclInv, Valid, Runs
<1>5. Called' BY DEF ExclInv, Called, Callers
<1>6. Used' BY DEF ExclInv, Types, Used, Inside
<1>7. Mail'
  <2>1. \A s \in Slots : \A i \in DOMAIN mqIn[s] : mqIn[s][i] # Ready =>
           mqIn[s][i] \in Senders /\ mqIn[s][i] # p
    BY DEF ExclInv, Types, Mail
  <2> QED BY <2>1 DEF ExclInv, Types, Mail
<1>8. Listed' BY <1>0 DEF ExclInv, Types, Listed, Unlisted
<1>9. ListedUntilEnd' BY <1>0 DEF ExclInv, Types, ListedUntilEnd, Unlisted, Serving
<1> QED BY <1>1, <1>2, <1>3, <1>4, <1>5, <1>6, <1>7, <1>8, <1>9 DEF ExclInv

(* The address is valid: its thread cannot have stopped, and will wait.    *)
LEMMA Checks == ASSUME ExclInv, NEW p \in Senders, SendCheck(p) PROVE ExclInv'
<1> USE DEF SendCheck, SenderAt, SenderGoto, threadVars, placeVars, mgrVars, slotVars
<1>0. dst[p] \in 1 .. created /\ dst[p] \in Threads
  BY CreatedThreads DEF ExclInv, Types, Names, Using, Threads, NoThread
<1>1. Types' BY DEF ExclInv, Types, SenderPlaces
<1>2. Contexts' BY DEF ExclInv, Contexts, Runs
<1>3. Names' BY DEF ExclInv, Types, Names, Using
<1>4. Valid' BY DEF ExclInv, Valid, Runs
<1>5. Called' BY DEF ExclInv, Called, Callers
<1>6. Used'
  <2>1. tpc[dst[p]] \notin {"none", "drain", "free", "remove", "ended"} \/ tpc[dst[p]] = "drain"
    BY <1>0 DEF ExclInv, Types, Contexts, Valid
  <2>2. tpc[dst[p]] \in Serving \union {"stop", "drain"}
    BY <1>0, <2>1 DEF ExclInv, Types, ThreadPlaces, Serving
  <2> QED BY <2>2 DEF ExclInv, Types, Used, Inside
<1>7. Mail'
  <2>1. \A s \in Slots : \A i \in DOMAIN mqIn[s] : mqIn[s][i] # Ready =>
           mqIn[s][i] \in Senders /\ mqIn[s][i] # p
    BY DEF ExclInv, Types, Mail
  <2> QED BY <2>1 DEF ExclInv, Types, Mail
<1>8. Listed' BY DEF ExclInv, Types, Listed, Unlisted
<1>9. ListedUntilEnd' BY DEF ExclInv, Types, ListedUntilEnd
<1> QED BY <1>1, <1>2, <1>3, <1>4, <1>5, <1>6, <1>7, <1>8, <1>9 DEF ExclInv

(* Whom a sender inside uses has its slot, and nobody else made it.        *)
LEMMA UsesItsSlot ==
    ASSUME ExclInv, NEW p \in Inside
    PROVE  /\ dst[p] \in 1 .. created /\ dst[p] \in Threads /\ home[dst[p]] \in Slots
           /\ Runs(dst[p]) /\ exclusiveCtx[home[dst[p]]] = dst[p]
           /\ \A q \in Senders : spc[q] = "list" => home[made[q]] # home[dst[p]]
<1>1. dst[p] \in 1 .. created /\ dst[p] \in Threads /\ dst[p] # NoThread
  BY CreatedThreads DEF ExclInv, Types, Names, Using, Threads, NoThread, Inside
<1>2. Runs(dst[p]) BY <1>1 DEF ExclInv, Used, Runs, Alives
<1>3. exclusiveCtx[home[dst[p]]] = dst[p] BY <1>1, <1>2 DEF ExclInv, Contexts
<1>4. ASSUME NEW q \in Senders, spc[q] = "list" PROVE home[made[q]] # home[dst[p]]
  <2>1. made[q] \in Threads /\ Runs(made[q])
    BY <1>4 DEF ExclInv, Types, Names, Listed, Unlisted, Runs, Alives, Serving
  <2>2. exclusiveCtx[home[made[q]]] = made[q] BY <2>1 DEF ExclInv, Contexts
  <2>3. made[q] # dst[p]
    <3>1. spc[p] # "list" /\ p \in Senders BY DEF Inside
    <3> QED BY <3>1, <1>1, <1>4 DEF ExclInv, Names
  <2> QED BY <1>3, <2>2, <2>3
<1> QED BY <1>1, <1>2, <1>3, <1>4 DEF ExclInv, Types

LEMMA Pushes == ASSUME ExclInv, NEW p \in Senders, SendPush(p) PROVE ExclInv'
<1> USE DEF SendPush, SenderAt, SenderGoto, threadVars, placeVars, mgrVars
<1>0. p \in Inside BY DEF Inside
<1>a. PICK s \in Slots : s = home[dst[p]] BY <1>0, UsesItsSlot
<1>b. mqIn[s] \in Seq(Senders \union {Ready}) BY DEF ExclInv, Types
<1>1. Types' BY <1>a, <1>b DEF ExclInv, Types, SenderPlaces
<1>2. Contexts' BY DEF ExclInv, Contexts, Runs
<1>3. Names' BY DEF ExclInv, Types, Names, Using
<1>4. Valid' BY DEF ExclInv, Valid, Runs
<1>5. Called' BY DEF ExclInv, Called, Callers
<1>6. Used' BY DEF ExclInv, Types, Used, Inside
<1>7. Mail'
  <2>1. \A r \in Slots : \A i \in DOMAIN mqIn[r] : mqIn[r][i] # Ready =>
           mqIn[r][i] \in Senders /\ mqIn[r][i] # p
    BY DEF ExclInv, Types, Mail
  <2>2. ASSUME NEW r \in Slots, r # s
        PROVE  /\ mqIn'[r] = mqIn[r]
               /\ \A i \in DOMAIN mqIn[r] : mqIn[r][i] # Ready =>
                     spc'[mqIn[r][i]] = "publish" /\ home[dst[mqIn[r][i]]] = r
    BY <1>a, <2>1, <2>2 DEF ExclInv, Types, Mail
  <2>3. mqIn'[s] = Append(mqIn[s], p) BY <1>a DEF ExclInv, Types
  <2>4. /\ DOMAIN mqIn'[s] = DOMAIN mqIn[s] \union {Len(mqIn[s]) + 1}
        /\ \A i \in DOMAIN mqIn[s] : mqIn'[s][i] = mqIn[s][i]
        /\ mqIn'[s][Len(mqIn[s]) + 1] = p
        /\ Len(mqIn'[s]) = Len(mqIn[s]) + 1
    BY <1>b, <2>3
  <2>a. /\ spc \in [Senders -> SenderPlaces] /\ spc' = [spc EXCEPT ![p] = "publish"]
        /\ UNCHANGED <<home, dst, exclusiveCtx>> /\ Len(mqIn[s]) < MqInCap
    BY <1>a DEF ExclInv, Types
  <2> HIDE DEF SendPush
  <2>5. ASSUME NEW i \in DOMAIN mqIn'[s], mqIn'[s][i] # Ready
        PROVE  spc'[mqIn'[s][i]] = "publish" /\ home[dst[mqIn'[s][i]]] = s
    <3>1. CASE i \in DOMAIN mqIn[s]
      BY <3>1, <2>a, <2>1, <2>4, <2>5 DEF ExclInv, Mail
    <3>2. CASE i = Len(mqIn[s]) + 1
      BY <3>2, <1>a, <2>a, <2>4
    <3> QED BY <3>1, <3>2, <2>4
  <2>6. Len(mqIn'[s]) <= MqInCap BY <1>b, <2>a, <2>4, BoundsAssumption
  <2>7. exclusiveCtx[s] # NoThread
    BY <1>0, <1>a, UsesItsSlot DEF Threads, NoThread
  <2> QED
    <3> SUFFICES ASSUME NEW r \in Slots
                 PROVE  /\ \A i \in DOMAIN mqIn'[r] : mqIn'[r][i] # Ready =>
                              spc'[mqIn'[r][i]] = "publish" /\ home[dst[mqIn'[r][i]]] = r
                        /\ exclusiveCtx[r] = NoThread => mqIn'[r] = << >>
                        /\ Len(mqIn'[r]) <= MqInCap
      BY <2>a DEF Mail
    <3>1. CASE r = s BY <3>1, <2>5, <2>6, <2>7, <2>a
    <3>2. CASE r # s BY <3>2, <2>2, <2>a DEF ExclInv, Mail
    <3> QED BY <3>1, <3>2
<1>8. Listed'
  <2>1. \A q \in Senders : spc'[q] = "list" => spc[q] = "list" BY DEF ExclInv, Types
  <2>2. \A q \in Senders : spc[q] = "list" => home[made[q]] # s
    BY <1>0, <1>a, UsesItsSlot
  <2> QED BY <1>a, <2>1, <2>2 DEF ExclInv, Types, Listed, Unlisted
<1>9. ListedUntilEnd' BY DEF ExclInv, Types, ListedUntilEnd
<1> QED BY <1>1, <1>2, <1>3, <1>4, <1>5, <1>6, <1>7, <1>8, <1>9 DEF ExclInv


LEMMA Publishes == ASSUME ExclInv, NEW p \in Senders, SendPublish(p) PROVE ExclInv'
<1> USE DEF SendPublish, SenderAt, SenderGoto, threadVars, placeVars, mgrVars
<1>0. p \in Inside BY DEF Inside
<1>a. PICK s \in Slots : s = home[dst[p]] BY <1>0, UsesItsSlot
<1>b. mqIn[s] \in Seq(Senders \union {Ready}) BY DEF ExclInv, Types
<1>c. mqIn'[s] = [i \in DOMAIN mqIn[s] |-> IF mqIn[s][i] = p THEN Ready ELSE mqIn[s][i]]
  BY <1>a DEF ExclInv, Types
<1>d. /\ mqIn'[s] \in Seq(Senders \union {Ready})
      /\ Len(mqIn'[s]) = Len(mqIn[s]) /\ DOMAIN mqIn'[s] = DOMAIN mqIn[s]
  BY <1>b, <1>c
<1>e. \A r \in Slots : r # s => mqIn'[r] = mqIn[r] BY <1>a DEF ExclInv, Types
<1>1. Types'
  <2>1. mqIn' \in [Slots -> Seq(Senders \union {Ready})] BY <1>d, <1>e DEF ExclInv, Types
  <2>2. spc' \in [Senders -> SenderPlaces] BY DEF ExclInv, Types, SenderPlaces
  <2> QED BY <2>1, <2>2 DEF ExclInv, Types
<1>2. Contexts' BY DEF ExclInv, Contexts, Runs
<1>3. Names' BY DEF ExclInv, Types, Names, Using
<1>4. Valid' BY DEF ExclInv, Valid, Runs
<1>5. Called' BY DEF ExclInv, Called, Callers
<1>6. Used' BY DEF ExclInv, Types, Used, Inside
<1>7. Mail'
  <2> SUFFICES ASSUME NEW r \in Slots
               PROVE  /\ \A i \in DOMAIN mqIn'[r] : mqIn'[r][i] # Ready =>
                            spc'[mqIn'[r][i]] = "publish" /\ home[dst[mqIn'[r][i]]] = r
                      /\ exclusiveCtx[r] = NoThread => mqIn'[r] = << >>
                      /\ Len(mqIn'[r]) <= MqInCap
    BY DEF Mail
  <2>a. /\ spc \in [Senders -> SenderPlaces] /\ spc' = [spc EXCEPT ![p] = "count"]
        /\ UNCHANGED <<home, dst, exclusiveCtx>>
    BY DEF ExclInv, Types
  <2> HIDE DEF SendPublish
  <2>1. CASE r = s
    <3>1. \A i \in DOMAIN mqIn'[s] : mqIn'[s][i] # Ready =>
             mqIn'[s][i] = mqIn[s][i] /\ mqIn[s][i] # p /\ mqIn[s][i] \in Senders
      BY <1>b, <1>c, <1>d
    <3>2. \A i \in DOMAIN mqIn'[s] : mqIn'[s][i] # Ready =>
             spc'[mqIn'[s][i]] = "publish" /\ home[dst[mqIn'[s][i]]] = s
      BY <3>1, <1>d, <2>a DEF ExclInv, Mail
    <3>3. exclusiveCtx[s] # NoThread
      BY <1>0, <1>a, UsesItsSlot DEF Threads, NoThread
    <3>4. Len(mqIn'[s]) <= MqInCap BY <1>d DEF ExclInv, Mail
    <3> QED BY <2>1, <2>a, <3>2, <3>3, <3>4
  <2>2. CASE r # s
    <3>1. \A i \in DOMAIN mqIn[r] : mqIn[r][i] # Ready =>
             mqIn[r][i] \in Senders /\ mqIn[r][i] # p
      BY <2>2, <1>a DEF ExclInv, Types, Mail
    <3> QED BY <3>1, <2>2, <2>a, <1>e DEF ExclInv, Mail
  <2> QED BY <2>1, <2>2
<1>8. Listed'
  <2>1. \A q \in Senders : spc'[q] = "list" => spc[q] = "list" BY DEF ExclInv, Types
  <2>2. \A q \in Senders : spc[q] = "list" => home[made[q]] # s
    BY <1>0, <1>a, UsesItsSlot
  <2> QED BY <1>a, <2>1, <2>2 DEF ExclInv, Types, Listed, Unlisted
<1>9. ListedUntilEnd' BY DEF ExclInv, Types, ListedUntilEnd
<1> QED BY <1>1, <1>2, <1>3, <1>4, <1>5, <1>6, <1>7, <1>8, <1>9 DEF ExclInv

----------------------------------------------------------------------------
(* svc_newservice *)

LEMMA Makes ==
    ASSUME ExclInv, NEW p \in Senders, NEW s \in Slots, NewService(p, s)
    PROVE  ExclInv'
<1> USE DEF SenderAt, SenderGoto, ThreadGoto, placeVars, mgrVars
<1> DEFINE t == created + 1
<1>0. /\ t \in Threads /\ t # NoThread /\ t \notin 1 .. created
      /\ tpc[t] = "none" /\ exclusiveCtx[s] = NoThread /\ mqIn[s] = << >> /\ made[p] = NoThread
      /\ created \in Nat
  BY MaxThreadsAssumption
  DEF NewService, ExclInv, Types, Contexts, Names, Mail, Threads, NoThread
<1>a. /\ tpc' = [tpc EXCEPT ![t] = "loop"] /\ home' = [home EXCEPT ![t] = s]
      /\ cnt' = [cnt EXCEPT ![t] = svcCnt[s]] /\ loop' = [loop EXCEPT ![t] = TRUE]
      /\ exclusiveCtx' = [exclusiveCtx EXCEPT ![s] = t] /\ created' = t
      /\ exitCalled' = [exitCalled EXCEPT ![s] = FALSE] /\ quIdxFree' = quIdxFree \ {s}
      /\ made' = [made EXCEPT ![p] = t] /\ spc' = [spc EXCEPT ![p] = "list"]
      /\ UNCHANGED <<svcCnt, calledCnt, mqIn, dst, plkCtx, todo>>
      /\ spc[p] = "idle" /\ t <= MaxThreads
  BY MaxThreadsAssumption DEF NewService, ExclInv, Types
<1> HIDE DEF t
<1>1. Types'
  <2>1. created' \in 0 .. MaxThreads /\ 1 .. created \subseteq 1 .. created'
    BY <1>0, <1>a, MaxThreadsAssumption DEF ExclInv, Types, t
  <2>2. tpc' \in [Threads -> ThreadPlaces] /\ spc' \in [Senders -> SenderPlaces]
    BY <1>a DEF ExclInv, Types, ThreadPlaces, SenderPlaces
  <2>3. cnt' \in [Threads -> Nat] BY <1>a DEF ExclInv, Types
  <2> QED BY <1>0, <1>a, <2>1, <2>2, <2>3 DEF ExclInv, Types
<1>b. \A u \in Threads : u \in 1 .. created => u # t /\ home'[u] = home[u] /\ cnt'[u] = cnt[u]
                                               /\ tpc'[u] = tpc[u]
  BY <1>0, <1>a DEF ExclInv, Types
<1>c. \A u \in 1 .. created' : u = t \/ u \in 1 .. created BY <1>0, <1>a DEF t
<1>d. \A u \in Threads : Runs(u) => u \in 1 .. created /\ home[u] # s
  BY <1>0 DEF ExclInv, Types, Contexts, Runs, Alives, Serving, Threads, NoThread
<1>e. \A q \in Senders : dst[q] # t /\ made[q] # t
  BY <1>0 DEF ExclInv, Types, Names, t
<1>2. Contexts'
  <2>1. \A u \in Threads : u > created' <=> tpc'[u] = "none"
    BY <1>0, <1>a DEF ExclInv, Types, Contexts, Threads, t
  <2>2. \A u \in Threads : tpc'[u] \in Alives <=> u = t \/ Runs(u)
    BY <1>0, <1>a DEF ExclInv, Types, Runs, Alives, Serving
  <2>3. \A u \in Threads : tpc'[u] \in Alives => exclusiveCtx'[home'[u]] = u
    BY <1>0, <1>a, <1>b, <1>d, <2>2 DEF ExclInv, Types, Contexts
  <2>4. \A r \in Slots : exclusiveCtx'[r] # NoThread =>
           home'[exclusiveCtx'[r]] = r /\ tpc'[exclusiveCtx'[r]] \in Alives
    <3> SUFFICES ASSUME NEW r \in Slots, exclusiveCtx'[r] # NoThread
                 PROVE  home'[exclusiveCtx'[r]] = r /\ tpc'[exclusiveCtx'[r]] \in Alives
      OBVIOUS
    <3>1. CASE r = s
      <4>1. exclusiveCtx'[r] = t /\ home'[t] = s BY <3>1, <1>0, <1>a DEF ExclInv, Types
      <4> QED BY <3>1, <4>1, <1>0, <2>2
    <3>2. CASE r # s
      <4>1. exclusiveCtx'[r] = exclusiveCtx[r] /\ exclusiveCtx[r] \in Threads
        BY <3>2, <1>a DEF ExclInv, Types
      <4>2. home[exclusiveCtx[r]] = r /\ Runs(exclusiveCtx[r])
        BY <4>1 DEF ExclInv, Contexts
      <4> QED BY <4>1, <4>2, <1>b, <1>d, <2>2
    <3> QED BY <3>1, <3>2
  <2>5. \A r \in Slots : r \in quIdxFree' <=> exclusiveCtx'[r] = NoThread
    BY <1>0, <1>a DEF ExclInv, Types, Contexts
  <2> QED BY <2>1, <2>3, <2>4, <2>5 DEF Contexts, Runs
<1>3. Names'
  <2>1. \A q \in Senders : /\ q # p => spc'[q] = spc[q] /\ made'[q] = made[q]
                           /\ dst[q] \in Nat /\ made[q] \in Nat
    BY <1>a DEF ExclInv, Types, Threads, NoThread
  <2>2. spc'[p] = "list" /\ made'[p] = t /\ dst[p] = NoThread
    BY <1>a DEF ExclInv, Types, Names, Using
  <2>3. \A q \in Senders : dst[q] # NoThread <=> spc'[q] \in Using
    BY <1>a, <2>1, <2>2 DEF ExclInv, Names, Using
  <2>4. \A q \in Senders : dst[q] <= created' /\ made'[q] <= created'
    BY <1>0, <1>a, <2>1, <2>2 DEF ExclInv, Names, t
  <2>5. \A q \in Senders : /\ spc'[q] \in {"list", "start"} => made'[q] # NoThread
                           /\ spc'[q] = "idle" => made'[q] = NoThread
    BY <1>0, <2>1, <2>2 DEF ExclInv, Names
  <2>6. \A q, r \in Senders : made'[q] # NoThread /\ made'[q] = made'[r] => q = r
    BY <1>e, <2>1, <2>2 DEF ExclInv, Names
  <2>7. \A q, r \in Senders : dst[q] # NoThread /\ dst[q] = made'[r] => q = r
    BY <1>e, <2>1, <2>2 DEF ExclInv, Names
  <2> QED BY <1>a, <2>3, <2>4, <2>5, <2>6, <2>7 DEF Names
<1>4. Valid'
  <2>1. \A u \in 1 .. created : Runs(u)' /\ exitCalled'[home'[u]] =>
           Runs(u) /\ exitCalled[home[u]]
    BY <1>a, <1>b, <1>d, CreatedThreads DEF ExclInv, Types, Runs
  <2>2. CASE TRUE
    <3> SUFFICES ASSUME NEW u \in 1 .. created'
                 PROVE  /\ cnt'[u] <= svcCnt'[home'[u]]
                        /\ tpc'[u] \in {"drain", "free", "remove", "ended"} =>
                              cnt'[u] < svcCnt'[home'[u]]
                        /\ Runs(u)' /\ exitCalled'[home'[u]] => cnt'[u] < svcCnt'[home'[u]]
      BY DEF Valid
    <3>1. CASE u = t
      BY <3>1, <1>0, <1>a DEF ExclInv, Types
    <3>2. CASE u \in 1 .. created
      BY <3>2, <2>1, <1>a, <1>b, CreatedThreads DEF ExclInv, Valid
    <3> QED BY <3>1, <3>2, <1>c
  <2> QED BY <2>2
<1>5. Called'
  <2>1. \A q \in Senders : dst[q] # NoThread => home'[dst[q]] = home[dst[q]]
    BY <1>0, <1>a, <1>e DEF ExclInv, Types
  <2>2. \A r \in Slots : Callers(r)' = Callers(r) BY <2>1, <1>a DEF Callers
  <2> QED BY <2>2, <1>a DEF ExclInv, Called
<1>6. Used'
  <2>1. Inside' = Inside BY <1>a DEF ExclInv, Types, Inside
  <2> QED BY <2>1, <1>a, <1>b, UsesItsSlot DEF ExclInv, Used
<1>7. Mail'
  <2>1. \A r \in Slots : \A i \in DOMAIN mqIn[r] : mqIn[r][i] # Ready =>
           /\ mqIn[r][i] \in Senders /\ mqIn[r][i] # p /\ spc[mqIn[r][i]] = "publish"
           /\ dst[mqIn[r][i]] \in Threads
    BY <1>a DEF ExclInv, Types, Mail, Names, Using
  <2>2. \A r \in Slots : \A i \in DOMAIN mqIn[r] : mqIn[r][i] # Ready =>
           spc'[mqIn[r][i]] = "publish" /\ home'[dst[mqIn[r][i]]] = r
    BY <2>1, <1>a, <1>e DEF ExclInv, Types, Mail
  <2>3. \A r \in Slots : exclusiveCtx'[r] = NoThread => exclusiveCtx[r] = NoThread
    BY <1>0, <1>a DEF ExclInv, Types
  <2> QED BY <2>2, <2>3, <1>a DEF ExclInv, Mail
<1>8. Listed'
  <2> SUFFICES ASSUME NEW q \in Senders, spc'[q] = "list" PROVE Unlisted(made[q])'
    BY DEF Listed
  <2>1. CASE q = p
    BY <2>1, <1>0, <1>a DEF ExclInv, Types, Unlisted, Serving
  <2>2. CASE q # p
    <3>1. /\ made'[q] = made[q] /\ Unlisted(made[q]) /\ made[q] \in Threads
          /\ Runs(made[q])
      BY <2>2, <1>a DEF ExclInv, Types, Names, Listed, Unlisted, Runs, Alives, Serving
    <3>2. made[q] \in 1 .. created /\ home[made[q]] # s BY <3>1, <1>d
    <3> QED BY <3>1, <3>2, <1>a, <1>b DEF ExclInv, Types, Unlisted
  <2> QED BY <2>1, <2>2
<1>9. ListedUntilEnd'
  <2>1. \A u \in plkCtx : u \in Threads BY CreatedThreads DEF ExclInv, Types
  <2>2. ASSUME NEW u \in plkCtx' PROVE tpc'[u] # "ended"
    BY <2>1, <1>a DEF ExclInv, Types, ListedUntilEnd
  <2>3. ASSUME NEW u \in 1 .. created', tpc'[u] # "ended"
        PROVE  u \in plkCtx' \/ \E q \in Senders : made'[q] = u /\ spc'[q] = "list"
    <3>1. CASE u = t BY <3>1, <1>a DEF ExclInv, Types
    <3>2. CASE u \in 1 .. created
      <4>1. \A q \in Senders : spc[q] = "list" => q # p BY <1>a
      <4> QED
        BY <3>2, <2>3, <4>1, <1>a, <1>b, CreatedThreads DEF ExclInv, Types, ListedUntilEnd
    <3> QED BY <3>1, <3>2, <1>c
  <2> QED BY <2>2, <2>3 DEF ListedUntilEnd
<1> QED BY <1>1, <1>2, <1>3, <1>4, <1>5, <1>6, <1>7, <1>8, <1>9 DEF ExclInv


----------------------------------------------------------------------------
(* The thread of a slot                                                    *)

LEMMA OwnsItsSlot ==
    ASSUME ExclInv, NEW t \in Threads, Runs(t)
    PROVE  /\ t \in 1 .. created /\ home[t] \in Slots /\ exclusiveCtx[home[t]] = t
           /\ t # NoThread
           /\ \A u \in Threads : Runs(u) /\ home[u] = home[t] => u = t
           /\ \A p \in Senders : spc[p] = "list" =>
                 made[p] = t \/ home[made[p]] # home[t]
<1>1. t \in 1 .. created /\ t # NoThread
  BY DEF ExclInv, Types, Contexts, Runs, Alives, Serving, Threads, NoThread
<1>2. \A u \in Threads : Runs(u) => exclusiveCtx[home[u]] = u BY DEF ExclInv, Contexts
<1>3. ASSUME NEW p \in Senders, spc[p] = "list"
      PROVE  made[p] \in Threads /\ Runs(made[p])
  BY <1>3 DEF ExclInv, Types, Names, Listed, Unlisted, Runs, Alives
<1> QED BY <1>1, <1>2, <1>3 DEF ExclInv, Types

LEMMA Handles ==
    ASSUME ExclInv, NEW t \in Threads, NEW exits \in BOOLEAN, HandleMsg(t, exits)
    PROVE  ExclInv'
<1> USE DEF ThreadAt, ThreadGoto, placeVars
<1> DEFINE s == home[t]
           q == mqIn[s]
<1>0. /\ Runs(t) /\ tpc[t] = "proc"
      /\ q # << >> /\ q \in Seq(Senders \union {Ready}) /\ s \in Slots /\ Head(q) = Ready
  BY DEF HandleMsg, ExclInv, Types, Runs, Alives, Serving, Readable
<1>a. PICK to \in {"proc", "uncount"} :
      /\ tpc' = [tpc EXCEPT ![t] = to]
      /\ mqIn' = [mqIn EXCEPT ![s] = Tail(q)]
      /\ exitCalled' = [exitCalled EXCEPT ![s] = exits]
      /\ svcCnt' = [svcCnt EXCEPT ![s] = @ + (IF exits THEN 1 ELSE 0)]
      /\ UNCHANGED <<calledCnt, exclusiveCtx, quIdxFree, loop, home, cnt, created, spc, dst,
                     made, plkCtx, todo>>
  BY DEF HandleMsg, senderVars, mgrVars
<1>b. /\ t \in 1 .. created /\ exclusiveCtx[s] = t /\ t # NoThread
      /\ \A u \in Threads : Runs(u) /\ home[u] = s => u = t
      /\ \A p \in Senders : spc[p] = "list" => made[p] = t \/ home[made[p]] # s
  BY <1>0, OwnsItsSlot
<1> HIDE DEF s, q
<1>c. /\ Tail(q) \in Seq(Senders \union {Ready}) /\ Len(Tail(q)) = Len(q) - 1
      /\ \A i \in DOMAIN Tail(q) : i + 1 \in DOMAIN q /\ Tail(q)[i] = q[i + 1]
      /\ Len(q) \in Nat
  BY <1>0
<1>d. /\ mqIn'[s] = Tail(q) /\ mqIn[s] = q
      /\ \A r \in Slots : r # s => mqIn'[r] = mqIn[r] /\ svcCnt'[r] = svcCnt[r]
                               /\ exitCalled'[r] = exitCalled[r]
      /\ svcCnt'[s] = IF exits THEN svcCnt[s] + 1 ELSE svcCnt[s]
      /\ exitCalled'[s] = exits
  BY <1>0, <1>a DEF ExclInv, Types, q
<1>e. \A u \in Threads : tpc'[u] = tpc[u] \/ (u = t /\ tpc'[u] \in Serving)
  BY <1>a DEF ExclInv, Types, Serving
<1>f. \A u \in Threads : tpc'[u] \in Alives <=> Runs(u)
  BY <1>0, <1>a DEF ExclInv, Types, Runs, Serving, Alives
<1>1. Types'
  <2>1. svcCnt' \in [Slots -> Nat]
    BY <1>0, <1>a, BOOLEAN = {TRUE, FALSE} DEF ExclInv, Types
  <2> QED BY <1>0, <1>a, <1>c, <2>1 DEF ExclInv, Types, ThreadPlaces
<1>2. Contexts'
  <2>1. \A u \in Threads : tpc'[u] = "none" <=> tpc[u] = "none"
    BY <1>0, <1>a DEF ExclInv, Types
  <2>2. \A r \in Slots : exclusiveCtx[r] # NoThread => exclusiveCtx[r] \in Threads
    BY DEF ExclInv, Types
  <2> QED BY <1>a, <1>f, <2>1, <2>2 DEF ExclInv, Contexts, Runs
<1>3. Names' BY <1>a DEF ExclInv, Names
<1>4. Valid'
  <2> SUFFICES ASSUME NEW u \in 1 .. created
               PROVE  /\ cnt[u] <= svcCnt'[home[u]]
                      /\ tpc'[u] \in {"drain", "free", "remove", "ended"} =>
                            cnt[u] < svcCnt'[home[u]]
                      /\ tpc'[u] \in Alives /\ exitCalled'[home[u]] => cnt[u] < svcCnt'[home[u]]
    BY <1>a DEF Valid, Runs
  <2>1. u \in Threads /\ cnt[u] \in Nat /\ home[u] \in Slots /\ svcCnt[home[u]] \in Nat
    BY CreatedThreads DEF ExclInv, Types
  <2>2. cnt[u] <= svcCnt[home[u]] /\ svcCnt[home[u]] <= svcCnt'[home[u]]
    BY <2>1, <1>d DEF ExclInv, Valid
  <2>3. tpc'[u] \in {"drain", "free", "remove", "ended"} =>
          tpc[u] \in {"drain", "free", "remove", "ended"}
    BY <2>1, <1>e DEF Serving
  <2>4. tpc'[u] \in Alives /\ exitCalled'[home[u]] => cnt[u] < svcCnt'[home[u]]
    <3>1. CASE home[u] = s /\ exits BY <3>1, <2>1, <2>2, <1>d
    <3>2. CASE home[u] = s /\ ~exits BY <3>2, <1>d
    <3>3. CASE home[u] # s BY <3>3, <2>1, <1>d, <1>f DEF ExclInv, Valid
    <3> QED BY <3>1, <3>2, <3>3
  <2>5. svcCnt'[home[u]] \in Nat BY <2>1, <1>1 DEF Types
  <2>6. tpc[u] \in {"drain", "free", "remove", "ended"} => cnt[u] < svcCnt[home[u]]
    BY DEF ExclInv, Valid
  <2> QED BY <2>1, <2>2, <2>3, <2>4, <2>5, <2>6
<1>5. Called' BY <1>a DEF ExclInv, Called, Callers
<1>6. Used'
  <2>1. \A p \in Inside : dst[p] \in Threads BY UsesItsSlot
  <2> QED BY <2>1, <1>a, <1>e DEF ExclInv, Used, Inside
<1>7. Mail'
  <2> SUFFICES ASSUME NEW r \in Slots
               PROVE  /\ \A i \in DOMAIN mqIn'[r] : mqIn'[r][i] # Ready =>
                            spc[mqIn'[r][i]] = "publish" /\ home[dst[mqIn'[r][i]]] = r
                      /\ exclusiveCtx[r] = NoThread => mqIn'[r] = << >>
                      /\ Len(mqIn'[r]) <= MqInCap
    BY <1>a DEF Mail
  <2>1. CASE r = s
    <3>1. \A i \in DOMAIN q : q[i] # Ready => spc[q[i]] = "publish" /\ home[dst[q[i]]] = s
      BY <1>0, <1>d DEF ExclInv, Mail
    <3>2. Len(q) <= MqInCap BY <1>0, <1>d DEF ExclInv, Mail
    <3> QED BY <2>1, <3>1, <3>2, <1>b, <1>c, <1>d, BoundsAssumption
  <2>2. CASE r # s BY <2>2, <1>d DEF ExclInv, Mail
  <2> QED BY <2>1, <2>2
<1>8. Listed'
  <2> SUFFICES ASSUME NEW p \in Senders, spc[p] = "list" PROVE Unlisted(made[p])'
    BY <1>a DEF Listed
  <2>1. Unlisted(made[p]) /\ made[p] \in Threads
    BY DEF ExclInv, Listed, Types, Names
  <2>2. home[made[p]] # s BY <1>0, <1>b, <1>d, <2>1 DEF Unlisted, s
  <2>3. home[made[p]] \in Slots BY <2>1 DEF ExclInv, Types
  <2> QED BY <2>1, <2>2, <2>3, <1>a, <1>d, <1>e DEF Unlisted
<1>9. ListedUntilEnd'
  <2>1. \A u \in Threads : tpc'[u] = "ended" <=> tpc[u] = "ended"
    BY <1>0, <1>a DEF ExclInv, Types
  <2> QED BY <2>1, <1>a, CreatedThreads DEF ExclInv, Types, ListedUntilEnd
<1> QED BY <1>1, <1>2, <1>3, <1>4, <1>5, <1>6, <1>7, <1>8, <1>9 DEF ExclInv

LEMMA Stops == ASSUME ExclInv, NEW t \in Threads, Stop(t) PROVE ExclInv'
<1> USE DEF ThreadAt, ThreadGoto, placeVars
<1> DEFINE s == home[t]
<1>0. Runs(t) /\ tpc[t] = "stop" /\ s \in Slots
  BY DEF Stop, ExclInv, Types, Runs, Alives
<1>a. /\ tpc' = [tpc EXCEPT ![t] = "drain"]
      /\ svcCnt' = [svcCnt EXCEPT ![s] = @ + (IF exitCalled[s] THEN 0 ELSE 1)]
      /\ UNCHANGED <<calledCnt, mqIn, exitCalled, exclusiveCtx, quIdxFree, loop, home, cnt,
                     created, spc, dst, made, plkCtx, todo>>
  BY DEF Stop, senderVars, mgrVars
<1>b. /\ t \in 1 .. created /\ exclusiveCtx[s] = t
      /\ \A u \in Threads : Runs(u) /\ home[u] = s => u = t
  BY <1>0, OwnsItsSlot
<1>d. /\ svcCnt'[s] = IF exitCalled[s] THEN svcCnt[s] ELSE svcCnt[s] + 1
      /\ \A r \in Slots : r # s => svcCnt'[r] = svcCnt[r]
      /\ exitCalled[s] \in BOOLEAN
  BY <1>0, <1>a DEF ExclInv, Types
<1>c. t \in Threads /\ cnt[t] \in Nat /\ svcCnt[s] \in Nat /\ cnt[t] <= svcCnt[s]
      /\ (exitCalled[s] => cnt[t] < svcCnt[s])
  BY <1>0, <1>b DEF ExclInv, Types, Valid
<1> HIDE DEF s
<1>f. \A u \in Threads : tpc'[u] \in Alives <=> Runs(u)
  BY <1>0, <1>a DEF ExclInv, Types, Runs, Serving, Alives
<1>g. \A u \in Threads : tpc'[u] = tpc[u] \/ (u = t /\ tpc'[u] = "drain")
  BY <1>a DEF ExclInv, Types
<1>1. Types'
  <2>1. svcCnt' \in [Slots -> Nat] BY <1>0, <1>a, <1>d DEF ExclInv, Types
  <2> QED BY <1>0, <1>a, <2>1 DEF ExclInv, Types, ThreadPlaces
<1>2. Contexts'
  <2>1. \A u \in Threads : tpc'[u] = "none" <=> tpc[u] = "none"
    BY <1>0, <1>a DEF ExclInv, Types
  <2>2. \A r \in Slots : exclusiveCtx[r] # NoThread => exclusiveCtx[r] \in Threads
    BY DEF ExclInv, Types
  <2> QED BY <1>a, <1>f, <2>1, <2>2 DEF ExclInv, Contexts, Runs
<1>3. Names' BY <1>a DEF ExclInv, Names
<1>4. Valid'
  <2> SUFFICES ASSUME NEW u \in 1 .. created
               PROVE  /\ cnt[u] <= svcCnt'[home[u]]
                      /\ tpc'[u] \in {"drain", "free", "remove", "ended"} =>
                            cnt[u] < svcCnt'[home[u]]
                      /\ tpc'[u] \in Alives /\ exitCalled[home[u]] => cnt[u] < svcCnt'[home[u]]
    BY <1>a DEF Valid, Runs
  <2>1. u \in Threads /\ cnt[u] \in Nat /\ home[u] \in Slots /\ svcCnt[home[u]] \in Nat
    BY CreatedThreads DEF ExclInv, Types
  <2>5. svcCnt[home[u]] <= svcCnt'[home[u]] /\ svcCnt'[home[u]] \in Nat
    BY <2>1, <1>d
  <2>2. /\ cnt[u] <= svcCnt[home[u]]
        /\ tpc[u] \in {"drain", "free", "remove", "ended"} => cnt[u] < svcCnt[home[u]]
        /\ Runs(u) /\ exitCalled[home[u]] => cnt[u] < svcCnt[home[u]]
    BY DEF ExclInv, Valid
  <2>3. CASE u = t
    <3>1. cnt[t] < svcCnt'[s] BY <1>c, <1>d
    <3> QED BY <2>1, <2>2, <2>3, <2>5, <3>1 DEF s
  <2>4. CASE u # t BY <2>1, <2>2, <2>4, <2>5, <1>f, <1>g
  <2> QED BY <2>3, <2>4
<1>5. Called' BY <1>a DEF ExclInv, Called, Callers
<1>6. Used'
  <2>1. \A p \in Inside : dst[p] \in Threads BY UsesItsSlot
  <2> QED BY <2>1, <1>a, <1>g DEF ExclInv, Used, Inside
<1>7. Mail' BY <1>a DEF ExclInv, Mail
<1>8. Listed'
  <2> SUFFICES ASSUME NEW p \in Senders, spc[p] = "list" PROVE Unlisted(made[p])'
    BY <1>a DEF Listed
  <2>1. Unlisted(made[p]) /\ made[p] \in Threads
    BY DEF ExclInv, Listed, Types, Names
  <2> QED BY <2>1, <1>0, <1>a, <1>g DEF Unlisted, Serving
<1>9. ListedUntilEnd'
  <2>1. \A u \in Threads : tpc'[u] = "ended" <=> tpc[u] = "ended"
    BY <1>0, <1>a DEF ExclInv, Types
  <2> QED BY <2>1, <1>a, CreatedThreads DEF ExclInv, Types, ListedUntilEnd
<1> QED BY <1>1, <1>2, <1>3, <1>4, <1>5, <1>6, <1>7, <1>8, <1>9 DEF ExclInv


(* Nobody who counts calls of the slot is left, so nobody is inside.       *)
LEMMA Drains == ASSUME ExclInv, NEW t \in Threads, Drained(t) PROVE ExclInv'
<1> USE DEF ThreadAt, ThreadGoto, placeVars
<1>0. Runs(t) /\ tpc[t] = "drain" /\ home[t] \in Slots /\ calledCnt[home[t]] = 0
  BY DEF Drained, ExclInv, Types, Runs, Alives
<1>a. /\ tpc' = [tpc EXCEPT ![t] = "free"]
      /\ UNCHANGED <<slotVars, loop, home, cnt, created, spc, dst, made, plkCtx, todo>>
  BY DEF Drained, senderVars, mgrVars
<1>b. \A p \in Inside : dst[p] # t
  <2>1. Callers(home[t]) = {}
    BY <1>0, CallersFinite, FS_EmptySet DEF ExclInv, Called
  <2> QED BY <2>1, UsesItsSlot DEF Callers, Inside, Threads, NoThread
<1>f. \A u \in Threads : tpc'[u] \in Alives <=> Runs(u)
  BY <1>0, <1>a DEF ExclInv, Types, Runs, Serving, Alives
<1>g. \A u \in Threads : tpc'[u] = tpc[u] \/ (u = t /\ tpc'[u] = "free")
  BY <1>a DEF ExclInv, Types
<1> USE DEF slotVars
<1>1. Types' BY <1>a DEF ExclInv, Types, ThreadPlaces
<1>2. Contexts'
  <2>1. \A u \in Threads : tpc'[u] = "none" <=> tpc[u] = "none"
    BY <1>0, <1>a DEF ExclInv, Types
  <2>2. \A r \in Slots : exclusiveCtx[r] # NoThread => exclusiveCtx[r] \in Threads
    BY DEF ExclInv, Types
  <2> QED BY <1>a, <1>f, <2>1, <2>2 DEF ExclInv, Contexts, Runs
<1>3. Names' BY <1>a DEF ExclInv, Names
<1>4. Valid'
  <2>1. \A u \in 1 .. created : u \in Threads BY CreatedThreads DEF ExclInv
  <2> QED BY <2>1, <1>0, <1>a, <1>f, <1>g DEF ExclInv, Valid, Runs
<1>5. Called' BY <1>a DEF ExclInv, Called, Callers
<1>6. Used'
  <2>1. \A p \in Inside : dst[p] \in Threads BY UsesItsSlot
  <2> QED BY <2>1, <1>a, <1>b, <1>g DEF ExclInv, Used, Inside
<1>7. Mail' BY <1>a DEF ExclInv, Mail
<1>8. Listed'
  <2> SUFFICES ASSUME NEW p \in Senders, spc[p] = "list" PROVE Unlisted(made[p])'
    BY <1>a DEF Listed
  <2>1. Unlisted(made[p]) /\ made[p] \in Threads
    BY DEF ExclInv, Listed, Types, Names
  <2> QED BY <2>1, <1>0, <1>a, <1>g DEF Unlisted, Serving
<1>9. ListedUntilEnd'
  <2>1. \A u \in Threads : tpc'[u] = "ended" <=> tpc[u] = "ended"
    BY <1>0, <1>a DEF ExclInv, Types
  <2> QED BY <2>1, <1>a, CreatedThreads DEF ExclInv, Types, ListedUntilEnd
<1> QED BY <1>1, <1>2, <1>3, <1>4, <1>5, <1>6, <1>7, <1>8, <1>9 DEF ExclInv

LEMMA DropAll ==
    ASSUME NEW q, \A i \in DOMAIN q : q[i] = Ready
    PROVE  DropReadable(q) = << >>
BY DEF DropReadable

LEMMA Frees ==
    ASSUME ExclInv, NEW t \in Threads, NEW exits \in BOOLEAN, Free(t, exits)
    PROVE  ExclInv'
<1> USE DEF ThreadAt, ThreadGoto, placeVars
<1> DEFINE s == home[t]
<1>0. Runs(t) /\ tpc[t] = "free" /\ s \in Slots
  BY DEF Free, ExclInv, Types, Runs, Alives
<1>a. /\ tpc' = [tpc EXCEPT ![t] = "remove"]
      /\ mqIn' = [mqIn EXCEPT ![s] = DropReadable(@)]
      /\ exitCalled' = [exitCalled EXCEPT ![s] = @ \/ exits]
      /\ svcCnt' = [svcCnt EXCEPT ![s] = @ + (IF exits THEN 1 ELSE 0)]
      /\ exclusiveCtx' = [exclusiveCtx EXCEPT ![s] = NoThread]
      /\ quIdxFree' = quIdxFree \union {s}
      /\ UNCHANGED <<calledCnt, loop, home, cnt, created, spc, dst, made, plkCtx, todo>>
  BY DEF Free, senderVars, mgrVars
<1>b. /\ t \in 1 .. created /\ exclusiveCtx[s] = t
      /\ \A u \in Threads : Runs(u) /\ home[u] = s => u = t
  BY <1>0, OwnsItsSlot
<1> HIDE DEF s
(* A message on its way would have a sender inside, and so a thread that   *)
(* has not come this far.                                                  *)
<1>c. \A i \in DOMAIN mqIn[s] : mqIn[s][i] = Ready
  <2> SUFFICES ASSUME NEW i \in DOMAIN mqIn[s], mqIn[s][i] # Ready PROVE FALSE
    OBVIOUS
  <2>1. mqIn[s][i] \in Senders BY <1>0 DEF ExclInv, Types
  <2>2. spc[mqIn[s][i]] = "publish" /\ home[dst[mqIn[s][i]]] = s
    BY <1>0 DEF ExclInv, Mail
  <2>3. mqIn[s][i] \in Inside BY <2>1, <2>2 DEF Inside
  <2>4. dst[mqIn[s][i]] = t BY <1>b, <2>2, <2>3, UsesItsSlot
  <2> QED BY <1>0, <2>3, <2>4 DEF ExclInv, Used, Serving
<1>d. /\ mqIn'[s] = << >>
      /\ \A r \in Slots : r # s => /\ mqIn'[r] = mqIn[r] /\ svcCnt'[r] = svcCnt[r]
                                /\ exitCalled'[r] = exitCalled[r]
                                /\ exclusiveCtx'[r] = exclusiveCtx[r]
      /\ svcCnt'[s] = IF exits THEN svcCnt[s] + 1 ELSE svcCnt[s]
      /\ exclusiveCtx'[s] = NoThread
  BY <1>0, <1>a, <1>c, DropAll DEF ExclInv, Types
<1>f. \A u \in Threads : tpc'[u] \in Alives <=> Runs(u) /\ u # t
  BY <1>0, <1>a DEF ExclInv, Types, Runs, Serving, Alives
<1>g. \A u \in Threads : tpc'[u] = tpc[u] \/ (u = t /\ tpc'[u] = "remove")
  BY <1>a DEF ExclInv, Types
<1>1. Types'
  <2>1. mqIn' \in [Slots -> Seq(Senders \union {Ready})]
    <3>1. << >> \in Seq(Senders \union {Ready}) OBVIOUS
    <3>2. \A r \in Slots : mqIn'[r] \in Seq(Senders \union {Ready})
      BY <1>d, <3>1 DEF ExclInv, Types
    <3> QED BY <1>a, <3>2 DEF ExclInv, Types
  <2>2. svcCnt' \in [Slots -> Nat]
    BY <1>0, <1>a, <1>d, BOOLEAN = {TRUE, FALSE} DEF ExclInv, Types
  <2>3. exitCalled' \in [Slots -> BOOLEAN] BY <1>0, <1>a DEF ExclInv, Types
  <2>4. exclusiveCtx' \in [Slots -> Threads \union {NoThread}] BY <1>a DEF ExclInv, Types
  <2>5. tpc' \in [Threads -> ThreadPlaces] BY <1>a DEF ExclInv, Types, ThreadPlaces
  <2>6. quIdxFree' \subseteq Slots BY <1>0, <1>a DEF ExclInv, Types
  <2> QED BY <1>a, <2>1, <2>2, <2>3, <2>4, <2>5, <2>6 DEF ExclInv, Types
<1>2. Contexts'
  <2>1. \A u \in Threads : u > created <=> tpc'[u] = "none"
    BY <1>0, <1>a DEF ExclInv, Types, Contexts
  <2>2. ASSUME NEW r \in Slots, exclusiveCtx'[r] # NoThread
        PROVE  home[exclusiveCtx'[r]] = r /\ tpc'[exclusiveCtx'[r]] \in Alives
    <3>1. r # s /\ exclusiveCtx'[r] = exclusiveCtx[r] /\ exclusiveCtx[r] \in Threads
      BY <1>0, <1>d, <2>2 DEF ExclInv, Types
    <3>2. home[exclusiveCtx[r]] = r /\ Runs(exclusiveCtx[r])
      BY <2>2, <3>1 DEF ExclInv, Contexts
    <3> QED BY <3>1, <3>2, <1>f DEF s
  <2>3. ASSUME NEW u \in Threads, tpc'[u] \in Alives PROVE exclusiveCtx'[home[u]] = u
    <3>1. Runs(u) /\ u # t BY <1>f, <2>3
    <3>2. home[u] # s /\ home[u] \in Slots BY <1>b, <3>1 DEF ExclInv, Types
    <3> QED BY <3>1, <3>2, <1>d DEF ExclInv, Contexts
  <2>4. \A r \in Slots : r \in quIdxFree' <=> exclusiveCtx'[r] = NoThread
    BY <1>0, <1>a, <1>d DEF ExclInv, Types, Contexts
  <2> QED BY <1>a, <2>1, <2>2, <2>3, <2>4 DEF Contexts, Runs
<1>3. Names' BY <1>a DEF ExclInv, Names
<1>4. Valid'
  <2> SUFFICES ASSUME NEW u \in 1 .. created
               PROVE  /\ cnt[u] <= svcCnt'[home[u]]
                      /\ tpc'[u] \in {"drain", "free", "remove", "ended"} =>
                            cnt[u] < svcCnt'[home[u]]
                      /\ tpc'[u] \in Alives /\ exitCalled'[home[u]] => cnt[u] < svcCnt'[home[u]]
    BY <1>a DEF Valid, Runs
  <2>1. u \in Threads /\ cnt[u] \in Nat /\ home[u] \in Slots /\ svcCnt[home[u]] \in Nat
    BY CreatedThreads DEF ExclInv, Types
  <2>2. /\ cnt[u] <= svcCnt[home[u]]
        /\ tpc[u] \in {"drain", "free", "remove", "ended"} => cnt[u] < svcCnt[home[u]]
        /\ Runs(u) /\ exitCalled[home[u]] => cnt[u] < svcCnt[home[u]]
    BY DEF ExclInv, Valid
  <2>3. svcCnt[home[u]] <= svcCnt'[home[u]] /\ svcCnt'[home[u]] \in Nat
    BY <2>1, <1>d
  <2>4. tpc'[u] \in {"drain", "free", "remove", "ended"} =>
          tpc[u] \in {"drain", "free", "remove", "ended"}
    BY <2>1, <1>0, <1>g
  <2>5. tpc'[u] \in Alives => Runs(u) /\ exitCalled'[home[u]] = exitCalled[home[u]]
    BY <2>1, <1>b, <1>d, <1>f
  <2> QED BY <2>1, <2>2, <2>3, <2>4, <2>5
<1>5. Called' BY <1>a DEF ExclInv, Called, Callers
<1>6. Used'
  <2>1. \A p \in Inside : dst[p] \in Threads /\ dst[p] # t
    BY <1>0, UsesItsSlot DEF ExclInv, Used, Serving
  <2> QED BY <2>1, <1>a, <1>g DEF ExclInv, Used, Inside
<1>7. Mail'
  <2> SUFFICES ASSUME NEW r \in Slots
               PROVE  /\ \A i \in DOMAIN mqIn'[r] : mqIn'[r][i] # Ready =>
                            spc[mqIn'[r][i]] = "publish" /\ home[dst[mqIn'[r][i]]] = r
                      /\ exclusiveCtx'[r] = NoThread => mqIn'[r] = << >>
                      /\ Len(mqIn'[r]) <= MqInCap
    BY <1>a DEF Mail
  <2>1. CASE r = s
    <3>1. mqIn'[r] = << >> BY <2>1, <1>d
    <3>2. Len(<< >>) = 0 /\ DOMAIN << >> = {} OBVIOUS
    <3> QED BY <3>1, <3>2, BoundsAssumption
  <2>2. CASE r # s BY <2>2, <1>d DEF ExclInv, Mail
  <2> QED BY <2>1, <2>2
<1>8. Listed'
  <2> SUFFICES ASSUME NEW p \in Senders, spc[p] = "list" PROVE Unlisted(made[p])'
    BY <1>a DEF Listed
  <2>1. Unlisted(made[p]) /\ made[p] \in Threads
    BY DEF ExclInv, Listed, Types, Names
  <2>2. made[p] # t /\ Runs(made[p]) /\ home[made[p]] \in Slots
    BY <2>1, <1>0 DEF Unlisted, Runs, Serving, Alives, ExclInv, Types
  <2>3. home[made[p]] # s BY <1>b, <2>1, <2>2
  <2> QED BY <2>1, <2>2, <2>3, <1>a, <1>d, <1>g DEF Unlisted
<1>9. ListedUntilEnd'
  <2>1. \A u \in Threads : tpc'[u] = "ended" <=> tpc[u] = "ended"
    BY <1>0, <1>a DEF ExclInv, Types
  <2> QED BY <2>1, <1>a, CreatedThreads DEF ExclInv, Types, ListedUntilEnd
<1> QED BY <1>1, <1>2, <1>3, <1>4, <1>5, <1>6, <1>7, <1>8, <1>9 DEF ExclInv


LEMMA Removes == ASSUME ExclInv, NEW t \in Threads, Remove(t) PROVE ExclInv'
<1> USE DEF ThreadAt, ThreadGoto, placeVars, slotVars
<1>0. tpc[t] = "remove" /\ ~Runs(t) BY DEF Remove, Runs, Alives, Serving
<1>a. /\ tpc' = [tpc EXCEPT ![t] = "ended"] /\ plkCtx' = plkCtx \ {t}
      /\ UNCHANGED <<slotVars, loop, home, cnt, created, spc, dst, made, todo>>
  BY DEF Remove, senderVars
<1>f. \A u \in Threads : tpc'[u] \in Alives <=> Runs(u)
  BY <1>0, <1>a DEF ExclInv, Types, Runs, Serving, Alives
<1>g. \A u \in Threads : tpc'[u] = tpc[u] \/ (u = t /\ tpc'[u] = "ended")
  BY <1>a DEF ExclInv, Types
<1>1. Types' BY <1>a DEF ExclInv, Types, ThreadPlaces
<1>2. Contexts'
  <2>1. \A u \in Threads : tpc'[u] = "none" <=> tpc[u] = "none"
    BY <1>0, <1>a DEF ExclInv, Types
  <2>2. \A r \in Slots : exclusiveCtx[r] # NoThread => exclusiveCtx[r] \in Threads
    BY DEF ExclInv, Types
  <2> QED BY <1>a, <1>f, <2>1, <2>2 DEF ExclInv, Contexts, Runs
<1>3. Names' BY <1>a DEF ExclInv, Names
<1>4. Valid'
  <2>1. \A u \in 1 .. created : u \in Threads BY CreatedThreads DEF ExclInv
  <2> QED BY <2>1, <1>0, <1>a, <1>f, <1>g DEF ExclInv, Valid, Runs
<1>5. Called' BY <1>a DEF ExclInv, Called, Callers
<1>6. Used'
  <2>1. \A p \in Inside : dst[p] \in Threads /\ dst[p] # t
    BY <1>0, UsesItsSlot DEF ExclInv, Used, Serving
  <2> QED BY <2>1, <1>a, <1>g DEF ExclInv, Used, Inside
<1>7. Mail' BY <1>a DEF ExclInv, Mail
<1>8. Listed'
  <2> SUFFICES ASSUME NEW p \in Senders, spc[p] = "list" PROVE Unlisted(made[p])'
    BY <1>a DEF Listed
  <2>1. Unlisted(made[p]) /\ made[p] \in Threads
    BY DEF ExclInv, Listed, Types, Names
  <2> QED BY <2>1, <1>0, <1>a, <1>g DEF Unlisted, Serving
<1>9. ListedUntilEnd'
  <2>1. \A u \in Threads : u # t => tpc'[u] = tpc[u] BY <1>g
  <2>2. tpc'[t] = "ended" /\ t \notin plkCtx' BY <1>a DEF ExclInv, Types
  <2>3. plkCtx \subseteq Threads /\ 1 .. created \subseteq Threads
    BY CreatedThreads DEF ExclInv, Types
  <2> QED BY <2>1, <2>2, <2>3, <1>a DEF ExclInv, ListedUntilEnd
<1> QED BY <1>1, <1>2, <1>3, <1>4, <1>5, <1>6, <1>7, <1>8, <1>9 DEF ExclInv

----------------------------------------------------------------------------
(* Shutdown *)

LEMMA Asks ==
    ASSUME ExclInv, ShutdownBegin \/ \E t \in Threads : ShutdownLoop(t)
    PROVE  ExclInv'
<1> USE DEF placeVars, slotVars, threadVars, senderVars
<1>a. /\ todo' = plkCtx /\ loop' = loop
      \/ \E t \in todo : todo' = todo \ {t} /\ loop' = [loop EXCEPT ![t] = FALSE]
  BY DEF ShutdownBegin, ShutdownLoop
<1>b. UNCHANGED <<slotVars, tpc, home, cnt, created, spc, dst, made, plkCtx>>
  BY DEF ShutdownBegin, ShutdownLoop
<1>1. Types' BY <1>a, <1>b DEF ExclInv, Types
<1>2. Contexts' BY <1>b DEF ExclInv, Contexts, Runs
<1>3. Names' BY <1>b DEF ExclInv, Names
<1>4. Valid' BY <1>b DEF ExclInv, Valid, Runs
<1>5. Called' BY <1>b DEF ExclInv, Called, Callers
<1>6. Used' BY <1>b DEF ExclInv, Used, Inside
<1>7. Mail' BY <1>b DEF ExclInv, Mail
<1>8. Listed'
  <2> SUFFICES ASSUME NEW p \in Senders, spc[p] = "list" PROVE Unlisted(made[p])'
    BY <1>b DEF Listed
  <2>1. Unlisted(made[p]) /\ made[p] \in Threads
    BY DEF ExclInv, Listed, Types, Names
  <2> QED BY <2>1, <1>a, <1>b DEF Unlisted, ExclInv, Types
<1>9. ListedUntilEnd' BY <1>b DEF ExclInv, ListedUntilEnd
<1> QED BY <1>1, <1>2, <1>3, <1>4, <1>5, <1>6, <1>7, <1>8, <1>9 DEF ExclInv

----------------------------------------------------------------------------
LEMMA InitExclInv == Init => ExclInv
<1> SUFFICES ASSUME Init PROVE ExclInv OBVIOUS
<1> USE DEF Init
<1>0. (CHOOSE s \in Slots : TRUE) \in Slots BY ThreadsAssumption
<1>a. << >> \in Seq(Senders \union {Ready}) OBVIOUS
<1>1. Types
  BY <1>0, <1>a, MaxThreadsAssumption DEF Types, ThreadPlaces, SenderPlaces, NoThread
<1>2. Contexts
  BY MaxThreadsAssumption DEF Contexts, Runs, Alives, Serving, Threads, NoThread
<1>3. Names BY DEF Names, Using, NoThread
<1>4. Valid BY DEF Valid
<1>5. Called
  <2>1. \A s \in Slots : Callers(s) = {} BY DEF Callers
  <2> QED BY <2>1, FS_EmptySet DEF Called
<1>6. Used BY DEF Used, Inside
<1>7. Mail
  <2>1. Len(<< >>) = 0 /\ DOMAIN << >> = {} OBVIOUS
  <2> QED BY <2>1, BoundsAssumption DEF Mail
<1>8. Listed BY DEF Listed
<1>9. ListedUntilEnd BY DEF ListedUntilEnd
<1> QED BY <1>1, <1>2, <1>3, <1>4, <1>5, <1>6, <1>7, <1>8, <1>9 DEF ExclInv

LEMMA StutterExclInv == ExclInv /\ UNCHANGED vars => ExclInv'
BY DEF ExclInv, Types, Contexts, Names, Valid, Called, Used, Mail, Listed, Unlisted,
       ListedUntilEnd, Runs, Callers, Inside, vars, slotVars, threadVars, placeVars,
       senderVars, mgrVars

LEMMA SenderExclInv == ASSUME ExclInv, NEW p \in Senders, SenderStep(p) PROVE ExclInv'
<1>1. CASE ListContext(p) BY <1>1, Lists
<1>2. CASE SendStart(p)
  <2>1. /\ made[p] \in 1 .. created /\ spc[p] = "start" /\ CallBegin(p, made[p])
        /\ \A q \in Senders : made[q] = made[p] => q = p
    BY <1>2 DEF SendStart, SenderAt, ExclInv, Types, Names, Threads, NoThread
  <2> QED BY <2>1, CallBegins
<1>3. CASE SendCheck(p) BY <1>3, Checks
<1>4. CASE SendPush(p) BY <1>4, Pushes
<1>5. CASE SendPublish(p) BY <1>5, Publishes
<1>6. CASE SendEnd(p)
  <2>1. dst[p] \in Threads
    BY <1>6 DEF SendEnd, SenderAt, ExclInv, Types, Names, Using
  <2> QED BY <1>6, <2>1, CallEnds
<1>7. CASE SendGone(p) \/ SendFull(p) \/ SendCount(p) \/ SendLook(p) \/ SendNotify(p)
  BY <1>7, SteadySenders, SteadyInv
<1> QED BY <1>1, <1>2, <1>3, <1>4, <1>5, <1>6, <1>7 DEF SenderStep

LEMMA ThreadExclInv == ASSUME ExclInv, NEW t \in Threads, ThreadStep(t) PROVE ExclInv'
<1>1. CASE \E exits \in BOOLEAN : HandleMsg(t, exits) BY <1>1, Handles
<1>2. CASE Stop(t) BY <1>2, Stops
<1>3. CASE Drained(t) BY <1>3, Drains
<1>4. CASE \E exits \in BOOLEAN : Free(t, exits) BY <1>4, Frees
<1>5. CASE Remove(t) BY <1>5, Removes
<1>6. CASE LoopTop(t) \/ NoMsg(t) \/ Uncount(t) \/ SetIdle(t) \/ CheckIdle(t) \/ Wait(t) \/ Unidle(t)
  BY <1>6, SteadyThreads, SteadyInv
<1> QED BY <1>1, <1>2, <1>3, <1>4, <1>5, <1>6 DEF ThreadStep

LEMMA NextExclInv == ExclInv /\ [Next]_vars => ExclInv'
<1> SUFFICES ASSUME ExclInv, [Next]_vars PROVE ExclInv' OBVIOUS
<1>1. CASE \E p \in Senders, s \in Slots : NewService(p, s) BY <1>1, Makes
<1>2. ASSUME NEW p \in Senders, NEW t \in Threads, SendBegin(p, t) PROVE ExclInv'
  <2>1. /\ t \in 1 .. created /\ spc[p] = "idle" /\ CallBegin(p, t)
        /\ \A q \in Senders : made[q] # t
    BY <1>2 DEF SendBegin, SenderAt, Threads, ExclInv, Types
  <2> QED BY <2>1, CallBegins
<1>3. CASE \E p \in Senders : SenderStep(p) BY <1>3, SenderExclInv
<1>4. CASE \E t \in Threads : ThreadStep(t) BY <1>4, ThreadExclInv
<1>5. CASE \E t \in Threads : SpuriousWake(t) BY <1>5, SteadyThreads, SteadyInv
<1>6. CASE ShutdownBegin \/ \E t \in Threads : ShutdownLoop(t) BY <1>6, Asks
<1>7. CASE ShutdownNotify \/ ShutdownEnd \/ WaitLock \/ WaitUnlock
  BY <1>7, SteadyShutdown, SteadyInv
<1>8. CASE UNCHANGED vars BY <1>8, StutterExclInv
<1> QED BY <1>1, <1>2, <1>3, <1>4, <1>5, <1>6, <1>7, <1>8 DEF Next, ShutdownStep

LEMMA ExclInvariant == Spec => []ExclInv
BY InitExclInv, NextExclInv, PTL DEF Spec

LEMMA ExclInvSlots == ExclInv => SlotOfOneService
<1> SUFFICES ASSUME ExclInv PROVE SlotOfOneService OBVIOUS
<1>1. ContextAliveUnderSender BY UsesItsSlot DEF ContextAliveUnderSender, Alive
<1>2. FreeSlotUnused
  <2> SUFFICES ASSUME NEW s \in quIdxFree
               PROVE  /\ mqIn[s] = << >> /\ exclusiveCtx[s] = NoThread
                      /\ \A t \in Threads : home[t] = s =>
                            tpc[t] \in {"none", "remove", "ended"}
    BY DEF FreeSlotUnused
  <2>1. s \in Slots /\ exclusiveCtx[s] = NoThread BY DEF ExclInv, Types, Contexts
  <2>2. mqIn[s] = << >> BY <2>1 DEF ExclInv, Mail
  <2>3. \A t \in Threads : Runs(t) => exclusiveCtx[home[t]] = t /\ t # NoThread
    BY OwnsItsSlot
  <2>4. \A t \in Threads : ~Runs(t) => tpc[t] \in {"none", "remove", "ended"}
    BY DEF ExclInv, Types, Runs, Alives, Serving, ThreadPlaces
  <2> QED BY <2>1, <2>2, <2>3, <2>4
<1> QED BY <1>1, <1>2 DEF SlotOfOneService, ExclInv

(* However slots are reused, a sender that has found an address valid uses *)
(* the context and the mailbox of that service, a slot that has been given *)
(* back is in nobody's hands, and the manager lists exactly the threads    *)
(* that have not ended (svc_sendmsg, worker_exclusive_thread and           *)
(* exclusive_mgr_svcexit).                                                 *)
THEOREM SlotsAreOfOneService == Spec => []SlotOfOneService
BY ExclInvariant, ExclInvSlots, PTL


----------------------------------------------------------------------------
(* What msgNum counts, and who wakes whom                                  *)

LEMMA PushingFinite == \A t : IsFiniteSet(Pushing(t))
BY ThreadsAssumption, FS_Subset DEF Pushing

LEMMA MailLength ==
    ASSUME ExclInv, NEW t \in Threads
    PROVE  Len(mqIn[home[t]]) \in Nat /\ Len(mqIn[home[t]]) <= MqInCap
<1>1. home[t] \in Slots /\ mqIn[home[t]] \in Seq(Senders \union {Ready})
  BY DEF ExclInv, Types
<1> QED BY <1>1 DEF ExclInv, Mail

LEMMA TailLength ==
    ASSUME NEW S, NEW q \in Seq(S), q # << >>
    PROVE  Len(Tail(q)) = Len(q) - 1 /\ Len(q) \in Nat
OBVIOUS

LEMMA CountTypesSenders ==
    ASSUME CountInv, NEW p \in Senders,
           \/ ListContext(p) \/ SendStart(p) \/ SendGone(p) \/ SendCheck(p) \/ SendFull(p)
           \/ SendPush(p) \/ SendPublish(p) \/ SendCount(p) \/ SendLook(p) \/ SendNotify(p)
           \/ SendEnd(p) \/ (\E t \in Threads : SendBegin(p, t))
    PROVE  CountTypes'
<1> USE DEF CountInv, CountTypes, SenderAt, SenderGoto, ThreadGoto, threadVars, idleVars
<1>1. CASE SendNotify(p)
  <2>1. /\ tpc' = tpc \/ (tpc[dst[p]] = "sleep" /\ tpc' = [tpc EXCEPT ![dst[p]] = "unidle"])
        /\ missed' \in [Threads -> BOOLEAN]
        /\ UNCHANGED <<isIdle, msgNum, procMsgNum>>
    BY <1>1 DEF SendNotify, Notify
  <2> QED BY <2>1 DEF ExclInv, Types
<1>2. CASE SendCount(p) 
  <2>1. dst[p] \in Threads /\ tpc[dst[p]] # "none"
    BY <1>2, UsesItsSlot DEF SendCount, Inside, Runs, Alives, Serving
  <2> QED BY <1>2, <2>1 DEF SendCount
<1>3. CASE \/ ListContext(p) \/ SendStart(p) \/ SendGone(p) \/ SendCheck(p) \/ SendFull(p)
           \/ SendPush(p) \/ SendPublish(p) \/ SendLook(p)
           \/ SendEnd(p) \/ (\E t \in Threads : SendBegin(p, t))
  BY <1>3 DEF ListContext, SendStart, SendGone, SendCheck, SendFull, SendPush, SendPublish,
              SendLook, SendEnd, SendBegin, Refuse, CallBegin
<1> QED BY <1>1, <1>2, <1>3

LEMMA CountTypesThreads ==
    ASSUME CountInv, NEW t \in Threads, ThreadStep(t) \/ SpuriousWake(t)
    PROVE  CountTypes'
<1> USE DEF CountInv, CountTypes, ThreadAt, ThreadGoto, idleVars, ExclInv, Types
<1>1. CASE LoopTop(t)
  <2>1. tpc' = [tpc EXCEPT ![t] = "proc"] \/ tpc' = [tpc EXCEPT ![t] = "stop"]
    BY <1>1 DEF LoopTop
  <2>2. /\ tpc[t] = "loop" /\ missed' \in [Threads -> BOOLEAN]
        /\ UNCHANGED <<isIdle, msgNum, procMsgNum>>
    BY <1>1 DEF LoopTop
  <2> QED BY <2>1, <2>2
<1>10. CASE NoMsg(t) BY <1>10 DEF NoMsg
<1>6. CASE CheckIdle(t) \/ Wait(t) \/ SpuriousWake(t)
  BY <1>6 DEF CheckIdle, Wait, SpuriousWake
<1>7. CASE SetIdle(t)
  <2>1. \A u \in Threads : isIdle'[u] <=> tpc'[u] \in {"checkidle", "wait", "sleep", "unidle"}
    BY <1>7 DEF SetIdle
  <2> QED BY <1>7, <2>1 DEF SetIdle
<1>11. CASE Unidle(t)
  <2>1. \A u \in Threads : isIdle'[u] <=> tpc'[u] \in {"checkidle", "wait", "sleep", "unidle"}
    BY <1>11 DEF Unidle
  <2> QED BY <1>11, <2>1 DEF Unidle
<1>2. CASE Uncount(t) BY <1>2 DEF Uncount
<1>3. CASE \E exits \in BOOLEAN : HandleMsg(t, exits)
  <2>1. tpc' = [tpc EXCEPT ![t] = "proc"] \/ tpc' = [tpc EXCEPT ![t] = "uncount"]
    BY <1>3 DEF HandleMsg
  <2>2. /\ tpc[t] = "proc" /\ procMsgNum' = [procMsgNum EXCEPT ![t] = @ + 1]
        /\ UNCHANGED <<isIdle, msgNum, missed>>
    BY <1>3 DEF HandleMsg
  <2>3. procMsgNum' \in [Threads -> Int] BY <2>2
  <2>4. tpc'[t] \in {"proc", "uncount"} /\ \A u \in Threads : u # t =>
           tpc'[u] = tpc[u] /\ procMsgNum'[u] = procMsgNum[u]
    BY <2>1, <2>2
  <2> QED BY <2>2, <2>3, <2>4
<1>4. CASE Stop(t) BY <1>4 DEF Stop
<1>8. CASE Drained(t) BY <1>8 DEF Drained
<1>9. CASE Remove(t) BY <1>9 DEF Remove
<1>5. CASE \E exits \in BOOLEAN : Free(t, exits)
  <2>1. tpc[t] = "free" /\ tpc' = [tpc EXCEPT ![t] = "remove"]
        /\ UNCHANGED <<isIdle, msgNum, missed, procMsgNum>>
    BY <1>5 DEF Free
  <2> QED BY <2>1
<1> QED BY <1>1, <1>2, <1>3, <1>4, <1>5, <1>6, <1>7, <1>8, <1>9, <1>10,
          <1>11 DEF ThreadStep

LEMMA CountTypesOthers ==
    ASSUME CountInv,
           \/ ShutdownBegin \/ ShutdownStep \/ WaitLock \/ WaitUnlock
           \/ \E p \in Senders, s \in Slots : NewService(p, s)
    PROVE  CountTypes'
<1> USE DEF CountInv, CountTypes, SenderAt, ThreadGoto, threadVars, idleVars, ExclInv, Types
<1>1. CASE ShutdownBegin \/ ShutdownEnd \/ WaitLock \/ WaitUnlock
           \/ \E t \in Threads : ShutdownLoop(t)
  BY <1>1 DEF ShutdownBegin, ShutdownEnd, WaitLock, WaitUnlock, ShutdownLoop
<1>2. CASE ShutdownNotify
  <2>1. /\ \/ tpc' = tpc
           \/ tpc[stopping] = "sleep" /\ tpc' = [tpc EXCEPT ![stopping] = "unidle"]
        /\ missed' \in [Threads -> BOOLEAN]
        /\ UNCHANGED <<isIdle, msgNum, procMsgNum>>
    BY <1>2 DEF ShutdownNotify, Notify
  <2> QED BY <2>1
<1>3. CASE \E p \in Senders, s \in Slots : NewService(p, s)
  <2>1. PICK t \in Threads : t = created + 1 /\ tpc' = [tpc EXCEPT ![t] = "loop"]
                             /\ UNCHANGED <<isIdle, msgNum, procMsgNum, missed>>
    <3>1. created + 1 \in Threads
      BY <1>3, MaxThreadsAssumption DEF NewService, Threads
    <3> QED BY <1>3, <3>1 DEF NewService
  <2>2. tpc[t] = "none" BY <2>1 DEF Contexts
  <2>3. isIdle[t] = FALSE /\ procMsgNum[t] = 0 BY <2>2
  <2>4. \A u \in Threads : isIdle'[u] <=> tpc'[u] \in {"checkidle", "wait", "sleep", "unidle"}
    BY <2>1, <2>3
  <2> QED BY <2>1, <2>3, <2>4
<1> QED BY <1>1, <1>2, <1>3 DEF ShutdownStep

(* Steps that neither count nor move mail. *)
CountSteady ==
    /\ \A t \in Threads : tpc'[t] \in Serving =>
          /\ tpc[t] \in Serving /\ home'[t] = home[t] /\ mqIn'[home[t]] = mqIn[home[t]]
          /\ msgNum'[t] = msgNum[t] /\ procMsgNum'[t] = procMsgNum[t]
    /\ \A p \in Senders, t \in Threads : p \in Pushing(t)' <=> p \in Pushing(t)

LEMMA CountSteadyCounted == ASSUME CountInv, CountSteady PROVE Counted'
<1>1. \A t \in Threads : Pushing(t)' = Pushing(t) BY DEF CountSteady, Pushing
<1> QED BY <1>1 DEF CountInv, Counted, CountSteady

LEMMA CountedSteadySenders ==
    ASSUME CountInv, NEW p \in Senders,
           \/ ListContext(p) \/ SendStart(p) \/ SendGone(p) \/ SendCheck(p) \/ SendFull(p)
           \/ SendLook(p) \/ SendNotify(p)
           \/ SendEnd(p) \/ (\E t \in Threads : SendBegin(p, t))
    PROVE  CountSteady
<1> USE DEF CountInv, ExclInv, Types, SenderAt, SenderGoto, ThreadGoto, slotVars, threadVars,
            placeVars, idleVars
<1>1. \A q \in Senders, t \in Threads : q \in Pushing(t)' <=> q \in Pushing(t)
  <2>1. CASE \/ ListContext(p) \/ SendGone(p) \/ SendCheck(p) \/ SendFull(p)
             \/ SendLook(p) \/ SendNotify(p)
    <3>1. \E place \in {"start", "end", "push", "notify"} : spc' = [spc EXCEPT ![p] = place]
      BY <2>1 DEF ListContext, SendGone, SendCheck, SendFull, SendLook, SendNotify, Refuse
    <3>2. dst' = dst /\ spc[p] \notin {"publish", "count"}
      BY <2>1 DEF ListContext, SendGone, SendCheck, SendFull, SendLook, SendNotify, Refuse
    <3> QED BY <3>1, <3>2 DEF Pushing
  <2>2. CASE SendStart(p) \/ (\E t \in Threads : SendBegin(p, t))
    BY <2>2 DEF Pushing, SendStart, SendBegin, CallBegin
  <2>3. CASE SendEnd(p) BY <2>3 DEF Pushing, SendEnd
  <2> QED BY <2>1, <2>2, <2>3
<1>2. \/ tpc' = tpc
      \/ tpc[dst[p]] = "sleep" /\ tpc' = [tpc EXCEPT ![dst[p]] = "unidle"]
  BY DEF ListContext, SendStart, SendGone, SendCheck, SendFull, SendLook, SendNotify,
         SendEnd, SendBegin, Refuse, CallBegin, Notify
<1>3. \A t \in Threads : tpc'[t] \in Serving => tpc[t] \in Serving
  BY <1>2 DEF Serving
<1>4. UNCHANGED <<mqIn, home, msgNum, procMsgNum>>
  BY DEF ListContext, SendStart, SendGone, SendCheck, SendFull, SendLook, SendNotify,
         SendEnd, SendBegin, Refuse, CallBegin
<1> QED BY <1>1, <1>3, <1>4 DEF CountSteady

LEMMA CountedSteadyThreads ==
    ASSUME CountInv, NEW t \in Threads,
           \/ LoopTop(t) \/ NoMsg(t) \/ SetIdle(t) \/ CheckIdle(t) \/ Wait(t) \/ Unidle(t)
           \/ SpuriousWake(t) \/ Stop(t) \/ Drained(t) \/ Remove(t)
    PROVE  CountSteady
<1> USE DEF CountInv, ExclInv, Types, ThreadAt, ThreadGoto, slotVars, senderVars,
            placeVars, idleVars
<1>1. UNCHANGED <<spc, dst, mqIn, home, msgNum, procMsgNum>>
  BY DEF LoopTop, NoMsg, SetIdle, CheckIdle, Wait, Unidle, SpuriousWake, Stop, Drained, Remove
<1>2. \A u \in Threads : tpc'[u] \in Serving => tpc[u] \in Serving
  BY DEF LoopTop, NoMsg, SetIdle, CheckIdle, Wait, Unidle, SpuriousWake, Stop, Drained, Remove,
         Serving
<1> QED BY <1>1, <1>2 DEF CountSteady, Pushing

LEMMA CountedSteadyShutdown ==
    ASSUME CountInv, ShutdownBegin \/ ShutdownStep \/ WaitLock \/ WaitUnlock
    PROVE  CountSteady
<1> USE DEF CountInv, ExclInv, Types, ThreadGoto, slotVars, senderVars, threadVars,
            placeVars, idleVars
<1>1. UNCHANGED <<spc, dst, mqIn, home, msgNum, procMsgNum>>
  BY DEF ShutdownBegin, ShutdownStep, ShutdownNotify, ShutdownEnd, ShutdownLoop, WaitLock,
         WaitUnlock
<1>2. \/ tpc' = tpc
      \/ tpc[stopping] = "sleep" /\ tpc' = [tpc EXCEPT ![stopping] = "unidle"]
  BY DEF ShutdownBegin, ShutdownStep, ShutdownNotify, ShutdownEnd, ShutdownLoop, WaitLock,
         WaitUnlock, Notify
<1>3. \A u \in Threads : tpc'[u] \in Serving => tpc[u] \in Serving
  BY <1>2 DEF Serving
<1> QED BY <1>1, <1>3 DEF CountSteady, Pushing


(* A sender's message, from svc_sendmsg's push to its count.               *)
LEMMA CountedPush == ASSUME CountInv, NEW p \in Senders, SendPush(p) PROVE Counted'
<1> USE DEF SenderAt, SenderGoto
<1>0. PICK u \in Threads : u = dst[p] BY UsesItsSlot DEF CountInv, SendPush, Inside
<1>1. /\ home[u] \in Slots /\ exclusiveCtx[home[u]] = u
      /\ \A t \in Threads : Runs(t) => exclusiveCtx[home[t]] = t
  BY <1>0, UsesItsSlot DEF CountInv, SendPush, Inside, ExclInv, Contexts
<1>2. /\ mqIn' = [mqIn EXCEPT ![home[u]] = Append(@, p)]
      /\ spc[p] = "push" /\ spc' = [spc EXCEPT ![p] = "publish"]
      /\ UNCHANGED <<tpc, home, dst, msgNum, procMsgNum>>
  BY <1>0 DEF SendPush, threadVars, placeVars, idleVars
<1>3. /\ mqIn[home[u]] \in Seq(Senders \union {Ready})
      /\ mqIn'[home[u]] = Append(mqIn[home[u]], p)
  BY <1>1, <1>2 DEF CountInv, ExclInv, Types
<1>4. Len(mqIn'[home[u]]) = Len(mqIn[home[u]]) + 1 /\ Len(mqIn[home[u]]) \in Nat BY <1>3
<1>5. Pushing(u)' = Pushing(u) \union {p} /\ p \notin Pushing(u)
  BY <1>0, <1>2 DEF CountInv, ExclInv, Types, Pushing
<1>6. /\ Cardinality(Pushing(u)') = Cardinality(Pushing(u)) + 1
      /\ Cardinality(Pushing(u)) \in Nat
  BY <1>5, PushingFinite, FS_AddElement, FS_CardinalityType
<1> SUFFICES ASSUME NEW t \in Threads, tpc[t] \in Serving
             PROVE  msgNum[t] = Len(mqIn'[home[t]]) + procMsgNum[t] - Cardinality(Pushing(t)')
  BY <1>2 DEF Counted
<1>7. msgNum[t] = Len(mqIn[home[t]]) + procMsgNum[t] - Cardinality(Pushing(t))
  BY DEF CountInv, Counted
<1>8. CASE t = u
  <2>1. procMsgNum[t] \in Int BY DEF CountInv, CountTypes
  <2>2. /\ Cardinality(Pushing(t)') = Cardinality(Pushing(t)) + 1
        /\ Cardinality(Pushing(t)) \in Nat
    BY <1>6, <1>8
  <2>3. Len(mqIn'[home[t]]) = Len(mqIn[home[t]]) + 1 /\ Len(mqIn[home[t]]) \in Nat
    BY <1>4, <1>8
  <2>4. \A l, n, c \in Int : l + n - c = (l + 1) + n - (c + 1) OBVIOUS
  <2>5. Len(mqIn[home[t]]) \in Int /\ Cardinality(Pushing(t)) \in Int BY <2>2, <2>3
  <2>6. PICK l, n, c : l = Len(mqIn[home[t]]) /\ n = procMsgNum[t] /\ c = Cardinality(Pushing(t))
    OBVIOUS
  <2>7. /\ l \in Int /\ n \in Int /\ c \in Int /\ msgNum[t] = l + n - c
        /\ Len(mqIn'[home[t]]) = l + 1 /\ Cardinality(Pushing(t)') = c + 1
    BY <1>7, <2>1, <2>2, <2>3, <2>5, <2>6
  <2>8. msgNum[t] = (l + 1) + procMsgNum[t] - (c + 1)
    <3>1. l \in Int /\ n \in Int /\ c \in Int /\ msgNum[t] = l + n - c BY <2>7
    <3>2. l + n - c = (l + 1) + n - (c + 1) BY <2>4, <3>1
    <3> QED BY <2>6, <3>1, <3>2
  <2> QED BY <2>7, <2>8
<1>9. CASE t # u
  <2>1. home[t] # home[u] BY <1>1, <1>9 DEF Runs, Alives
  <2>2. mqIn'[home[t]] = mqIn[home[t]] BY <2>1, <1>2 DEF CountInv, ExclInv, Types
  <2>3. Pushing(t)' = Pushing(t)
    BY <1>0, <1>2, <1>9 DEF CountInv, ExclInv, Types, Pushing
  <2> QED BY <1>7, <2>2, <2>3
<1> QED BY <1>8, <1>9

LEMMA CountedPublish == ASSUME CountInv, NEW p \in Senders, SendPublish(p) PROVE Counted'
<1> USE DEF SenderAt, SenderGoto
<1>1. /\ mqIn' = [mqIn EXCEPT ![home[dst[p]]] =
                    [i \in DOMAIN @ |-> IF @[i] = p THEN Ready ELSE @[i]]]
      /\ spc[p] = "publish" /\ spc' = [spc EXCEPT ![p] = "count"]
      /\ UNCHANGED <<tpc, home, dst, msgNum, procMsgNum>>
  BY DEF SendPublish, threadVars, placeVars, idleVars
<1>2. \A s \in Slots : Len(mqIn'[s]) = Len(mqIn[s])
  <2> SUFFICES ASSUME NEW s \in Slots PROVE Len(mqIn'[s]) = Len(mqIn[s])
    OBVIOUS
  <2>1. mqIn[s] \in Seq(Senders \union {Ready}) BY DEF CountInv, ExclInv, Types
  <2>2. \/ mqIn'[s] = mqIn[s]
        \/ mqIn'[s] = [i \in DOMAIN mqIn[s] |-> IF mqIn[s][i] = p THEN Ready ELSE mqIn[s][i]]
    BY <1>1 DEF CountInv, ExclInv, Types
  <2> QED BY <2>1, <2>2
<1>3. \A t \in Threads : Pushing(t)' = Pushing(t)
  BY <1>1 DEF CountInv, ExclInv, Types, Pushing
<1>4. \A t \in Threads : home[t] \in Slots BY DEF CountInv, ExclInv, Types
<1> QED BY <1>1, <1>2, <1>3, <1>4 DEF CountInv, Counted

LEMMA CountedCount == ASSUME CountInv, NEW p \in Senders, SendCount(p) PROVE Counted'
<1> USE DEF SenderAt, SenderGoto
<1>0. PICK u \in Threads : u = dst[p] BY UsesItsSlot DEF CountInv, SendCount, Inside
<1>2. /\ msgNum' = [msgNum EXCEPT ![u] = @ + 1]
      /\ spc[p] = "count" /\ spc' = [spc EXCEPT ![p] = "look"]
      /\ UNCHANGED <<tpc, home, dst, mqIn, procMsgNum>>
  BY <1>0 DEF SendCount, slotVars, placeVars
<1>3. msgNum \in [Threads -> Int] /\ procMsgNum \in [Threads -> Int]
  BY DEF CountInv, CountTypes
<1>4. \A t \in Threads : Len(mqIn[home[t]]) \in Nat
  BY MailLength DEF CountInv
<1>5. Pushing(u)' = Pushing(u) \ {p} /\ p \in Pushing(u)
  BY <1>0, <1>2 DEF CountInv, ExclInv, Types, Pushing
<1>6. /\ Cardinality(Pushing(u)') = Cardinality(Pushing(u)) - 1
      /\ Cardinality(Pushing(u)) \in Nat
  BY <1>5, PushingFinite, FS_RemoveElement, FS_CardinalityType
<1> SUFFICES ASSUME NEW t \in Threads, tpc[t] \in Serving
             PROVE  msgNum'[t] = Len(mqIn[home[t]]) + procMsgNum[t] - Cardinality(Pushing(t)')
  BY <1>2 DEF Counted
<1>7. msgNum[t] = Len(mqIn[home[t]]) + procMsgNum[t] - Cardinality(Pushing(t))
  BY DEF CountInv, Counted
<1>8. CASE t = u BY <1>2, <1>3, <1>4, <1>6, <1>7, <1>8
<1>9. CASE t # u
  <2>3. Pushing(t)' = Pushing(t)
    BY <1>0, <1>2, <1>9 DEF CountInv, ExclInv, Types, Pushing
  <2> QED BY <1>2, <1>3, <1>7, <1>9, <2>3
<1> QED BY <1>8, <1>9

LEMMA CountedHandle ==
    ASSUME CountInv, NEW u \in Threads, NEW exits \in BOOLEAN, HandleMsg(u, exits)
    PROVE  Counted'
<1> USE DEF ThreadAt, ThreadGoto
<1>1. /\ home[u] \in Slots /\ exclusiveCtx[home[u]] = u /\ tpc[u] \in Serving
      /\ \A t \in Threads : Runs(t) => exclusiveCtx[home[t]] = t
  BY OwnsItsSlot DEF CountInv, HandleMsg, Runs, Alives, Serving, ExclInv, Contexts
<1>2. /\ mqIn' = [mqIn EXCEPT ![home[u]] = Tail(@)]
      /\ procMsgNum' = [procMsgNum EXCEPT ![u] = @ + 1]
      /\ mqIn[home[u]] # << >>
      /\ UNCHANGED <<spc, home, dst, msgNum>>
  BY DEF HandleMsg, Readable, senderVars, placeVars
<1>a. \A t \in Threads : tpc'[t] \in Serving => tpc[t] \in Serving
  BY <1>1 DEF HandleMsg, CountInv, ExclInv, Types
<1>3. procMsgNum \in [Threads -> Int] /\ msgNum \in [Threads -> Int]
  BY DEF CountInv, CountTypes
<1>4. /\ mqIn[home[u]] \in Seq(Senders \union {Ready})
      /\ mqIn'[home[u]] = Tail(mqIn[home[u]])
  BY <1>1, <1>2 DEF CountInv, ExclInv, Types
<1>5. Len(mqIn'[home[u]]) = Len(mqIn[home[u]]) - 1 /\ Len(mqIn[home[u]]) \in Nat
  BY <1>2, <1>4, TailLength
<1>6. \A t \in Threads : Pushing(t)' = Pushing(t) BY <1>2 DEF Pushing
<1>7. \A t \in Threads : Cardinality(Pushing(t)) \in Nat BY PushingFinite, FS_CardinalityType
<1> SUFFICES ASSUME NEW t \in Threads, tpc[t] \in Serving
             PROVE  msgNum[t] = Len(mqIn'[home[t]]) + procMsgNum'[t] - Cardinality(Pushing(t))
  BY <1>2, <1>6, <1>a DEF Counted
<1>8. msgNum[t] = Len(mqIn[home[t]]) + procMsgNum[t] - Cardinality(Pushing(t))
  BY DEF CountInv, Counted
<1>9. CASE t = u BY <1>2, <1>3, <1>5, <1>7, <1>8, <1>9
<1>10. CASE t # u
  <2>1. home[t] # home[u] BY <1>1, <1>10 DEF Runs, Alives
  <2>2. mqIn'[home[t]] = mqIn[home[t]] BY <2>1, <1>2 DEF CountInv, ExclInv, Types
  <2> QED BY <1>2, <1>3, <1>8, <1>10, <2>2
<1> QED BY <1>9, <1>10

LEMMA CountedUncount == ASSUME CountInv, NEW u \in Threads, Uncount(u) PROVE Counted'
<1> USE DEF ThreadAt, ThreadGoto
<1>1. /\ msgNum' = [msgNum EXCEPT ![u] = @ - procMsgNum[u]]
      /\ procMsgNum' = [procMsgNum EXCEPT ![u] = 0]
      /\ tpc[u] = "uncount" /\ UNCHANGED <<spc, home, dst, mqIn>>
  BY DEF Uncount, senderVars, placeVars, slotVars
<1>a. \A t \in Threads : tpc'[t] \in Serving => tpc[t] \in Serving
  BY <1>1 DEF Uncount, CountInv, ExclInv, Types, Serving
<1>3. procMsgNum \in [Threads -> Int] /\ msgNum \in [Threads -> Int]
  BY DEF CountInv, CountTypes
<1>4. \A t \in Threads : Len(mqIn[home[t]]) \in Nat
  BY MailLength DEF CountInv
<1>6. \A t \in Threads : Pushing(t)' = Pushing(t) BY <1>1 DEF Pushing
<1>7. \A t \in Threads : Cardinality(Pushing(t)) \in Nat BY PushingFinite, FS_CardinalityType
<1> SUFFICES ASSUME NEW t \in Threads, tpc[t] \in Serving
             PROVE  msgNum'[t] = Len(mqIn[home[t]]) + procMsgNum'[t] - Cardinality(Pushing(t))
  BY <1>1, <1>6, <1>a DEF Counted
<1>8. msgNum[t] = Len(mqIn[home[t]]) + procMsgNum[t] - Cardinality(Pushing(t))
  BY DEF CountInv, Counted
<1> QED BY <1>1, <1>3, <1>4, <1>7, <1>8

LEMMA CountedFree ==
    ASSUME CountInv, NEW u \in Threads, NEW exits \in BOOLEAN, Free(u, exits)
    PROVE  CountSteady
<1> USE DEF ThreadAt, ThreadGoto
<1>1. /\ mqIn' = [mqIn EXCEPT ![home[u]] = DropReadable(@)]
      /\ tpc' = [tpc EXCEPT ![u] = "remove"] /\ tpc[u] = "free"
      /\ UNCHANGED <<spc, home, dst, msgNum, procMsgNum>>
  BY DEF Free, senderVars, placeVars, idleVars
<1>2. \A t \in Threads : tpc'[t] \in Serving => t # u /\ tpc[t] \in Serving
  BY <1>1 DEF CountInv, ExclInv, Types, Serving
<1>3. \A t \in Threads : t # u /\ tpc[t] \in Serving => home[t] # home[u]
  BY <1>1, OwnsItsSlot DEF CountInv, Runs, Alives
<1> QED BY <1>1, <1>2, <1>3 DEF CountSteady, Pushing, CountInv, ExclInv, Types

LEMMA CountedNew ==
    ASSUME CountInv, NEW p \in Senders, NEW s \in Slots, NewService(p, s)
    PROVE  Counted'
<1> USE DEF SenderAt, SenderGoto, ThreadGoto
<1>0. PICK u \in Threads : u = created + 1
  BY MaxThreadsAssumption DEF CountInv, ExclInv, Types, NewService, Threads
<1>1. /\ tpc' = [tpc EXCEPT ![u] = "loop"] /\ home' = [home EXCEPT ![u] = s]
      /\ spc' = [spc EXCEPT ![p] = "list"] /\ spc[p] = "idle"
      /\ s \in quIdxFree /\ UNCHANGED <<dst, mqIn, msgNum, procMsgNum>>
  BY <1>0 DEF NewService, idleVars
<1>2. tpc[u] = "none" /\ mqIn[s] = << >>
  BY <1>0, <1>1 DEF CountInv, ExclInv, Types, Contexts, Mail
<1>3. \A t \in Threads : Pushing(t)' = Pushing(t)
  BY <1>1 DEF CountInv, ExclInv, Types, Pushing
<1>4. Pushing(u) = {}
  BY <1>0 DEF CountInv, ExclInv, Types, Names, Pushing
<1>5. \A t \in Threads : t # u => tpc'[t] = tpc[t] /\ home'[t] = home[t]
  BY <1>1 DEF CountInv, ExclInv, Types
<1>6. msgNum[u] = 0 /\ procMsgNum[u] = 0 BY <1>2 DEF CountInv, CountTypes
<1>7. home'[u] = s /\ Len(mqIn[s]) = 0 /\ Cardinality(Pushing(u)) = 0
  BY <1>1, <1>2, <1>4, FS_EmptySet DEF CountInv, ExclInv, Types
<1>8. 0 = 0 + 0 - 0 OBVIOUS
<1> SUFFICES ASSUME NEW t \in Threads, tpc'[t] \in Serving
             PROVE  msgNum[t] = Len(mqIn[home'[t]]) + procMsgNum[t] - Cardinality(Pushing(t))
  BY <1>1, <1>3 DEF Counted
<1>9. CASE t = u BY <1>6, <1>7, <1>8, <1>9
<1>10. CASE t # u BY <1>5, <1>10 DEF CountInv, Counted
<1> QED BY <1>9, <1>10


LEMMA NextCounted == ASSUME CountInv, Next PROVE Counted'
<1>1. ASSUME NEW p \in Senders, SenderStep(p) PROVE Counted'
  <2>1. CASE SendPush(p) BY <2>1, CountedPush
  <2>2. CASE SendPublish(p) BY <2>2, CountedPublish
  <2>3. CASE SendCount(p) BY <2>3, CountedCount
  <2> QED BY <1>1, <2>1, <2>2, <2>3, CountedSteadySenders, CountSteadyCounted DEF SenderStep
<1>2. ASSUME NEW t \in Threads, ThreadStep(t) PROVE Counted'
  <2>1. CASE \E exits \in BOOLEAN : HandleMsg(t, exits) BY <2>1, CountedHandle
  <2>2. CASE Uncount(t) BY <2>2, CountedUncount
  <2>3. CASE \E exits \in BOOLEAN : Free(t, exits) BY <2>3, CountedFree, CountSteadyCounted
  <2> QED BY <1>2, <2>1, <2>2, <2>3, CountedSteadyThreads, CountSteadyCounted DEF ThreadStep
<1>3. CASE \E p \in Senders, t \in Threads : SendBegin(p, t)
  BY <1>3, CountedSteadySenders, CountSteadyCounted
<1>4. CASE \E p \in Senders, s \in Slots : NewService(p, s) BY <1>4, CountedNew
<1>5. CASE \E t \in Threads : SpuriousWake(t)
  BY <1>5, CountedSteadyThreads, CountSteadyCounted
<1>6. CASE ShutdownBegin \/ ShutdownStep \/ WaitLock \/ WaitUnlock
  BY <1>6, CountedSteadyShutdown, CountSteadyCounted
<1> QED BY <1>1, <1>2, <1>3, <1>4, <1>5, <1>6 DEF Next

(* A thread that waits goes on to wait with the same mail, the same missed *)
(* notify and the same senders to come.                                    *)
WaitsOn(t) ==
    /\ tpc[t] \in {"wait", "sleep"}
    /\ mqIn'[home'[t]] # << >> => mqIn[home[t]] # << >>
    /\ missed[t] => missed'[t]
    /\ Announcing(t) \subseteq Announcing(t)'

(* Or it is cared for after the step, whatever was before. *)
CaredFor(t) == missed'[t] \/ Announcing(t)' # {} \/ mqIn'[home'[t]] = << >>

LEMMA RousedFrame ==
    ASSUME Roused, \A t \in Threads : tpc'[t] \in {"wait", "sleep"} => WaitsOn(t) \/ CaredFor(t)
    PROVE  Roused'
BY DEF Roused, WaitsOn, CaredFor

LEMMA RousedSenders ==
    ASSUME CountInv, NEW p \in Senders,
           SenderStep(p) \/ (\E u \in Threads : SendBegin(p, u)),
           NEW t \in Threads, tpc'[t] \in {"wait", "sleep"}
    PROVE  WaitsOn(t) \/ CaredFor(t)
<1> USE DEF SenderAt, SenderGoto, ThreadGoto, slotVars, threadVars, placeVars, idleVars
<1>0. /\ spc \in [Senders -> SenderPlaces] /\ tpc \in [Threads -> ThreadPlaces]
      /\ missed \in [Threads -> BOOLEAN] /\ isIdle \in [Threads -> BOOLEAN]
      /\ home[t] \in Slots
  BY DEF CountInv, ExclInv, Types, CountTypes
<1>1. CASE \/ ListContext(p) \/ SendGone(p) \/ SendCheck(p) \/ SendFull(p)
  <2>1. \E place \in {"start", "end", "push"} : spc' = [spc EXCEPT ![p] = place]
    BY <1>1 DEF ListContext, SendGone, SendCheck, SendFull, Refuse
  <2>2. /\ spc[p] \notin {"publish", "count", "look", "notify"}
        /\ UNCHANGED <<tpc, missed, mqIn, home, dst>>
    BY <1>1 DEF ListContext, SendGone, SendCheck, SendFull, Refuse
  <2> QED BY <1>0, <2>1, <2>2 DEF WaitsOn, Announcing
<1>2. CASE SendStart(p) \/ (\E u \in Threads : SendBegin(p, u))
  <2>1. /\ spc[p] \in {"start", "idle"} /\ spc' = [spc EXCEPT ![p] = "check"]
        /\ \E u : dst' = [dst EXCEPT ![p] = u]
        /\ UNCHANGED <<tpc, missed, mqIn, home>>
    BY <1>2 DEF SendStart, SendBegin, CallBegin
  <2>2. \A q \in Senders : q # p => spc'[q] = spc[q] /\ dst'[q] = dst[q]
    BY <1>0, <2>1 DEF CountInv, ExclInv, Types
  <2> QED BY <1>0, <2>1, <2>2 DEF WaitsOn, Announcing
<1>3. CASE SendEnd(p) BY <1>0, <1>3 DEF SendEnd, WaitsOn, Announcing
<1>4. CASE SendPush(p)
  <2>1. /\ mqIn' = [mqIn EXCEPT ![home[dst[p]]] = Append(@, p)]
        /\ spc' = [spc EXCEPT ![p] = "publish"] /\ spc[p] = "push"
        /\ UNCHANGED <<tpc, missed, home, dst>>
    BY <1>4 DEF SendPush
  <2>2. CASE dst[p] = t BY <1>0, <2>1, <2>2 DEF CaredFor, Announcing
  <2>3. CASE dst[p] # t
    <3>1. home[dst[p]] # home[t]
      <4>1. exclusiveCtx[home[dst[p]]] = dst[p]
        BY <2>1, UsesItsSlot DEF CountInv, Inside
      <4>2. exclusiveCtx[home[t]] = t
        BY <2>1, OwnsItsSlot DEF CountInv, Runs, Alives, Serving
      <4> QED BY <4>1, <4>2, <2>3
    <3>2. mqIn'[home[t]] = mqIn[home[t]] BY <2>1, <3>1
    <3> QED BY <1>0, <2>1, <3>2 DEF WaitsOn, Announcing
  <2> QED BY <2>2, <2>3
<1>5. CASE SendPublish(p)
  <2>1. /\ mqIn' = [mqIn EXCEPT ![home[dst[p]]] =
                      [i \in DOMAIN @ |-> IF @[i] = p THEN Ready ELSE @[i]]]
        /\ spc' = [spc EXCEPT ![p] = "count"] /\ spc[p] = "publish"
        /\ UNCHANGED <<tpc, missed, home, dst>>
    BY <1>5 DEF SendPublish
  <2>2. CASE dst[p] = t BY <1>0, <2>1, <2>2 DEF CaredFor, Announcing
  <2>3. CASE dst[p] # t
    <3>1. home[dst[p]] # home[t]
      <4>1. exclusiveCtx[home[dst[p]]] = dst[p]
        BY <2>1, UsesItsSlot DEF CountInv, Inside
      <4>2. exclusiveCtx[home[t]] = t
        BY <2>1, OwnsItsSlot DEF CountInv, Runs, Alives, Serving
      <4> QED BY <4>1, <4>2, <2>3
    <3>2. mqIn'[home[t]] = mqIn[home[t]] BY <2>1, <3>1
    <3> QED BY <1>0, <2>1, <3>2 DEF WaitsOn, Announcing
  <2> QED BY <2>2, <2>3
<1>6. CASE SendCount(p) BY <1>0, <1>6 DEF SendCount, WaitsOn, Announcing
<1>7. CASE SendLook(p)
  <2>1. /\ spc[p] = "look" /\ UNCHANGED <<tpc, missed, mqIn, home, dst>>
        /\ spc' = [spc EXCEPT ![p] = IF isIdle[dst[p]] THEN "notify" ELSE "end"]
    BY <1>7 DEF SendLook
  <2>2. isIdle[t] BY <2>1 DEF CountInv, CountTypes
  <2>3. CASE dst[p] = t
    <3>1. spc' = [spc EXCEPT ![p] = "notify"] BY <2>1, <2>2, <2>3
    <3> QED BY <1>0, <2>1, <3>1 DEF WaitsOn, Announcing
  <2>4. CASE dst[p] # t
    <3>1. \E place \in {"notify", "end"} : spc' = [spc EXCEPT ![p] = place] BY <2>1
    <3> QED BY <1>0, <2>1, <2>4, <3>1 DEF WaitsOn, Announcing
  <2> QED BY <2>3, <2>4
<1>8. CASE SendNotify(p)
  <2>1. /\ spc[p] = "notify" /\ spc' = [spc EXCEPT ![p] = "end"]
        /\ UNCHANGED <<mqIn, home, dst>> /\ Notify(dst[p])
    BY <1>8 DEF SendNotify
  <2>2. CASE dst[p] = t BY <1>0, <2>1, <2>2 DEF Notify, CaredFor
  <2>3. CASE dst[p] # t
    <3>1. tpc'[t] = tpc[t] /\ missed'[t] = missed[t] BY <1>0, <2>1, <2>3 DEF Notify
    <3> QED BY <1>0, <2>1, <2>3, <3>1 DEF WaitsOn, Announcing
  <2> QED BY <2>2, <2>3
<1> QED BY <1>1, <1>2, <1>3, <1>4, <1>5, <1>6, <1>7, <1>8 DEF SenderStep

LEMMA Remainders == \A n \in 1 .. CountMod - 1 : n % CountMod = n
BY CountModAssumption

(* What a thread that finds nothing counted has not seen is with senders.  *)
LEMMA ChecksIdle ==
    ASSUME CountInv, NEW t \in Threads, tpc[t] = "checkidle", (msgNum[t] % CountMod) < 1,
           mqIn[home[t]] # << >>
    PROVE  Announcing(t) # {}
<1> SUFFICES ASSUME Pushing(t) = {} PROVE FALSE
  BY DEF Announcing, Pushing
<1>1. msgNum[t] = Len(mqIn[home[t]]) + procMsgNum[t] - Cardinality(Pushing(t))
  BY DEF CountInv, Counted, Serving
<1>2. procMsgNum[t] = 0 /\ Cardinality(Pushing(t)) = 0
  BY FS_EmptySet DEF CountInv, CountTypes
<1>3. Len(mqIn[home[t]]) \in 1 .. CountMod - 1
  <2>1. Len(mqIn[home[t]]) \in Nat /\ Len(mqIn[home[t]]) <= MqInCap
    BY MailLength DEF CountInv
  <2>2. mqIn[home[t]] \in Seq(Senders \union {Ready}) BY DEF CountInv, ExclInv, Types
  <2>3. Len(mqIn[home[t]]) # 0 BY <2>2
  <2> QED BY <2>1, <2>3, BoundsAssumption, CountModAssumption
<1>4. msgNum[t] = Len(mqIn[home[t]]) BY <1>1, <1>2, <1>3
<1> QED BY <1>3, <1>4, Remainders

LEMMA RousedThreads ==
    ASSUME CountInv, NEW u \in Threads, ThreadStep(u) \/ SpuriousWake(u),
           NEW t \in Threads, tpc'[t] \in {"wait", "sleep"}
    PROVE  WaitsOn(t) \/ CaredFor(t)
<1> USE DEF ThreadAt, ThreadGoto, slotVars, senderVars, placeVars, idleVars
<1>0. /\ tpc \in [Threads -> ThreadPlaces] /\ missed \in [Threads -> BOOLEAN]
      /\ home[t] \in Slots /\ mqIn \in [Slots -> Seq(Senders \union {Ready})]
  BY DEF CountInv, ExclInv, Types, CountTypes
<1>1. CASE LoopTop(u) BY <1>0, <1>1 DEF LoopTop, WaitsOn, Announcing
<1>2. CASE \E exits \in BOOLEAN : HandleMsg(u, exits)
  <2>1. /\ mqIn' = [mqIn EXCEPT ![home[u]] = Tail(@)] /\ tpc[u] = "proc"
        /\ tpc' = [tpc EXCEPT ![u] = "proc"] \/ tpc' = [tpc EXCEPT ![u] = "uncount"]
        /\ UNCHANGED <<missed, home, spc, dst>>
    BY <1>2 DEF HandleMsg
  <2>2. u # t /\ tpc[t] \in {"wait", "sleep"} BY <1>0, <2>1
  <2>3. home[u] # home[t]
    BY <2>1, <2>2, OwnsItsSlot DEF CountInv, Runs, Alives, Serving
  <2> QED BY <1>0, <2>1, <2>2, <2>3 DEF WaitsOn, Announcing
<1>3. CASE NoMsg(u) \/ Uncount(u) \/ SetIdle(u) \/ Unidle(u) \/ SpuriousWake(u)
  BY <1>0, <1>3 DEF NoMsg, Uncount, SetIdle, Unidle, SpuriousWake, WaitsOn, Announcing
<1>4. CASE Stop(u) \/ Drained(u) \/ Remove(u)
  BY <1>0, <1>4 DEF Stop, Drained, Remove, WaitsOn, Announcing
<1>5. CASE \E exits \in BOOLEAN : Free(u, exits)
  <2>1. /\ mqIn' = [mqIn EXCEPT ![home[u]] = DropReadable(@)] /\ tpc[u] = "free"
        /\ tpc' = [tpc EXCEPT ![u] = "remove"]
        /\ UNCHANGED <<missed, home, spc, dst>>
    BY <1>5 DEF Free
  <2>2. u # t /\ tpc[t] \in {"wait", "sleep"} BY <1>0, <2>1
  <2>3. home[u] # home[t]
    BY <2>1, <2>2, OwnsItsSlot DEF CountInv, Runs, Alives, Serving
  <2> QED BY <1>0, <2>1, <2>2, <2>3 DEF WaitsOn, Announcing
<1>6. CASE CheckIdle(u)
  <2>1. /\ tpc[u] = "checkidle" /\ UNCHANGED <<mqIn, home, spc, dst, missed>>
        /\ tpc' = [tpc EXCEPT ![u] = IF (msgNum[u] % CountMod) < 1 THEN "wait" ELSE "unidle"]
    BY <1>6 DEF CheckIdle
  <2>2. CASE t = u
    <3>1. (msgNum[t] % CountMod) < 1 BY <1>0, <2>1, <2>2
    <3>2. mqIn[home[t]] # << >> => Announcing(t) # {} BY <2>1, <2>2, <3>1, ChecksIdle
    <3> QED BY <2>1, <3>2 DEF CaredFor, Announcing
  <2>3. CASE t # u BY <1>0, <2>1, <2>3 DEF WaitsOn, Announcing
  <2> QED BY <2>2, <2>3
<1>7. CASE Wait(u) BY <1>0, <1>7 DEF Wait, WaitsOn, Announcing
<1> QED BY <1>1, <1>2, <1>3, <1>4, <1>5, <1>6, <1>7 DEF ThreadStep

LEMMA RousedOthers ==
    ASSUME CountInv,
           \/ ShutdownBegin \/ ShutdownStep \/ WaitLock \/ WaitUnlock
           \/ \E p \in Senders, s \in Slots : NewService(p, s),
           NEW t \in Threads, tpc'[t] \in {"wait", "sleep"}
    PROVE  WaitsOn(t)
<1> USE DEF SenderAt, SenderGoto, ThreadGoto, slotVars, threadVars, placeVars, senderVars, idleVars
<1>0. /\ spc \in [Senders -> SenderPlaces] /\ tpc \in [Threads -> ThreadPlaces]
      /\ missed \in [Threads -> BOOLEAN] /\ home \in [Threads -> Slots]
  BY DEF CountInv, ExclInv, Types, CountTypes
<1>1. CASE ShutdownBegin \/ ShutdownEnd \/ WaitLock \/ WaitUnlock
           \/ \E u \in Threads : ShutdownLoop(u)
  BY <1>0, <1>1
  DEF ShutdownBegin, ShutdownEnd, WaitLock, WaitUnlock, ShutdownLoop, WaitsOn, Announcing
<1>2. CASE ShutdownNotify
  <2>1. /\ \/ tpc' = tpc
           \/ tpc[stopping] = "sleep" /\ tpc' = [tpc EXCEPT ![stopping] = "unidle"]
        /\ missed[t] => missed'[t]
        /\ UNCHANGED <<spc, dst, mqIn, home>>
    BY <1>0, <1>2 DEF ShutdownNotify, Notify
  <2> QED BY <1>0, <2>1 DEF WaitsOn, Announcing
<1>3. CASE \E p \in Senders, s \in Slots : NewService(p, s)
  <2>1. PICK p \in Senders, s \in Slots : NewService(p, s) BY <1>3
  <2>2. /\ tpc' = [tpc EXCEPT ![created + 1] = "loop"]
        /\ home' = [home EXCEPT ![created + 1] = s]
        /\ spc' = [spc EXCEPT ![p] = "list"] /\ spc[p] = "idle"
        /\ UNCHANGED <<dst, mqIn, missed>>
    BY <2>1 DEF NewService
  <2>3. t # created + 1 BY <1>0, <2>2
  <2> QED BY <1>0, <2>2, <2>3 DEF WaitsOn, Announcing
<1> QED BY <1>1, <1>2, <1>3 DEF ShutdownStep

LEMMA InitCountInv == Init => CountInv
<1> SUFFICES ASSUME Init PROVE CountInv OBVIOUS
<1>1. ExclInv BY InitExclInv
<1>2. CountTypes BY DEF Init, CountTypes
<1>3. Counted BY DEF Init, Counted, Serving
<1>4. Roused BY DEF Init, Roused
<1> QED BY <1>1, <1>2, <1>3, <1>4 DEF CountInv

LEMMA NextCountInv == CountInv /\ [Next]_vars => CountInv'
<1> SUFFICES ASSUME CountInv, [Next]_vars PROVE CountInv' OBVIOUS
<1>1. ExclInv' BY NextExclInv DEF CountInv
<1>2. CASE Next
  <2>1. CountTypes'
    BY <1>2, CountTypesSenders, CountTypesThreads, CountTypesOthers DEF Next, SenderStep
  <2>2. Counted' BY <1>2, NextCounted
  <2>3. \A t \in Threads : tpc'[t] \in {"wait", "sleep"} => WaitsOn(t) \/ CaredFor(t)
    BY <1>2, RousedSenders, RousedThreads, RousedOthers DEF Next
  <2>4. Roused' BY <2>3, RousedFrame DEF CountInv
  <2> QED BY <1>1, <2>1, <2>2, <2>4 DEF CountInv
<1>3. CASE UNCHANGED vars
  BY <1>1, <1>3 DEF CountInv, CountTypes, Counted, Roused, Pushing, Announcing, vars, slotVars,
                    threadVars, placeVars, idleVars, senderVars
<1> QED BY <1>2, <1>3

LEMMA CountInvariant == Spec => []CountInv
BY InitCountInv, NextCountInv, PTL DEF Spec

LEMMA CountInvSleeps == CountInv => SleepsAsCounted
<1> SUFFICES ASSUME CountInv PROVE SleepsAsCounted OBVIOUS
<1>1. MsgNumIsMail
  <2> SUFFICES ASSUME NEW t \in Threads, Alive(t), tpc[t] \notin {"stop", "drain", "free"}
               PROVE  msgNum[t] = Len(mqIn[home[t]]) + procMsgNum[t] - Cardinality(Pushing(t))
    BY DEF MsgNumIsMail, Pushing
  <2>1. home[t] \in Slots /\ t # NoThread
    BY PlacesApart DEF CountInv, ExclInv, Types
  <2>2. Runs(t) BY <2>1 DEF Alive, CountInv, ExclInv, Contexts
  <2>3. tpc[t] \in Serving BY <2>2 DEF Runs, Alives
  <2> QED BY <2>3 DEF CountInv, Counted
<1>2. SleepsOnlyByMissedNotify
  <2>1. \A t : Announcing(t) \subseteq {p \in Inside : dst[p] = t}
    BY DEF Announcing, Inside
  <2> QED BY <2>1 DEF CountInv, Roused, SleepsOnlyByMissedNotify, Readable
<1> QED BY <1>1, <1>2 DEF SleepsAsCounted

(* msgNum is the thread's mail but for what is on its way in or out, and a *)
(* thread sleeps beside readable mail only when a notify came while it was *)
(* not yet asleep, or is still to come (svc_sendmsg and                    *)
(* worker_exclusive_thread).                                               *)
THEOREM ExclusiveSleepsAsCounted == Spec => []SleepsAsCounted
BY CountInvariant, CountInvSleeps, PTL

=============================================================================
