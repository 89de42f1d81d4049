------------------------------- MODULE Calls -------------------------------
(***************************************************************************)
(* Services that call each other, exit, and leave their slot to another:   *)
(* svc_newservice, svc_sendmsg with a caller and its mqWaitSend, the       *)
(* SVC_GONE answer of proc_svc_msg_in, do_svc_free (pps_service.cpp,       *)
(* pps_worker.cpp), and pps.call, pps.ret and pps.exit of pipes.lua.       *)
(*                                                                         *)
(* A service's own steps never overlap (SingleRunner of Scheduler), so a   *)
(* callback's call into the runtime is one step.  svc_sendmsg is one step  *)
(* too: a slot is not freed under it (NotFreedUnderSender) and what it     *)
(* pushed after svc_exit is drained like what it pushed before.            *)
(*                                                                         *)
(* An address is a slot with the count its service was created with.       *)
(* Contents of messages are left out; a message has a kind, the address it *)
(* is from, the one it is to, and a session, which for an answer is the    *)
(* negative of the one given here.                                         *)
(***************************************************************************)
EXTENDS Integers, Sequences, FiniteSets, SequencesExt

CONSTANTS Slots,         \* service slots
          Boot,          \* the slot of the boot service
          MqInCap,       \* capacity of a mailbox
          MaxCallId,     \* _maxCallId, where session ids start again
          MaxMsgs,       \* bound: calls and sends altogether
          MaxServices    \* bound: services created besides the boot service

ASSUME BootAssumption == Boot \in Slots
ASSUME CapAssumption == MqInCap \in Nat \ {0}
ASSUME CallIdAssumption == MaxCallId \in Nat \ {0, 1}
ASSUME BoundsAssumption == MaxMsgs \in Nat /\ MaxServices \in Nat

VARIABLES
  (* struct pps_service *)
  state,          \* "new" (not started yet), "running", "exiting" (exitCalled, in
                  \* the callback that called it), "exited", "freeing" (in
                  \* do_svc_free) or "free" (on the free queue)
  svcCnt, svcCntLocal, mqIn, mqWaitSend,
  cursor,         \* where a pass over mqWaitSend is, 0 outside of one
  (* the service's Lua state *)
  waiting,        \* sessions of its calls that have not returned (_cosYield)
  callId,         \* _callIdCnt
  taken,          \* requests handled and not answered yet
  heard,          \* leaked addresses it has been told
  (* bounds and history *)
  msgs, services,
  leaked,         \* addresses that services which had exited gave as theirs, to
                  \* anybody: the next service of the slot will have them
  fault           \* "none", or what went wrong: an "answer" nobody waits for, mail
                  \* handled "unstarted" ("leaked" if that was for a leaked
                  \* address), mail pushed for a "dead" service; what the
                  \* program does after one is not modelled

queueVars   == <<mqIn, mqWaitSend>>
luaVars     == <<waiting, callId, taken, heard>>
boundVars   == <<msgs, services, leaked>>
serviceVars == <<state, svcCnt, svcCntLocal>>
vars == <<serviceVars, queueVars, cursor, luaVars, boundVars, fault>>

Kinds     == {"start", "send", "req", "rsp", "gone"}   \* NO_RET is a "rsp"
Sessions  == 1 .. MaxCallId
Msg(kind, from, to, session) ==
    [kind |-> kind, from |-> from, to |-> to, session |-> session]
Self(s)  == [idx |-> s, cnt |-> svcCntLocal[s]]
Nobody   == [idx |-> Boot, cnt |-> 0]  \* sender of a message whose sender is not read
Alive(s) == state[s] \in {"new", "running"}

IsAnswer(m) == m.kind \in {"rsp", "gone"}

GoneNever(m) == FALSE                                         \* a wrong variant

(* svcCnt not match, svc may gone: svc_sendmsg returns -3. *)
Gone(m) == svcCnt[m.to.idx] # m.to.cnt
Full(m) == Len(mqIn[m.to.idx]) >= MqInCap

(* svc_sendmsg with caller s of a message that is not Gone: it waits in    *)
(* mqWaitSend behind those that wait already, or when the mailbox is full. *)
SendFrom(s, m) ==
    IF mqWaitSend[s] # << >> \/ Full(m)
    THEN /\ mqWaitSend' = [mqWaitSend EXCEPT ![s] = Append(@, m)]
         /\ UNCHANGED <<mqIn, fault>>
    ELSE /\ mqIn' = [mqIn EXCEPT ![m.to.idx] = Append(@, m)]
         /\ fault' = IF Alive(m.to.idx) THEN fault ELSE "dead"
         /\ UNCHANGED mqWaitSend

(* No callback of s runs and proc_svc may call one; Lua code of s runs.    *)
Running(s) == fault = "none" /\ cursor[s] = 0 /\ state[s] = "running"
InLua(s)   == Running(s) \/ (fault = "none" /\ state[s] = "exiting")

(* Addresses s may have been told of.  svc_newservice returns one with the *)
(* start message sent, or parked by the creator, who knows it first; a     *)
(* message names its sender.                                               *)
Known(s, a) ==
    /\ \/ a.cnt < svcCnt[a.idx]
       \/ a.cnt = svcCnt[a.idx] /\ Alive(a.idx)
       \/ a \in heard[s]
    /\ \A t \in Slots \ {s} : \A m \in ToSet(mqWaitSend[t]) : m.kind = "start" => m.to # a

----------------------------------------------------------------------------
Init ==
    /\ state = [s \in Slots |-> IF s = Boot THEN "new" ELSE "free"]
    /\ svcCnt = [s \in Slots |-> 0]
    /\ svcCntLocal = [s \in Slots |-> 0]
    /\ mqIn = [s \in Slots |-> IF s = Boot
                 THEN <<Msg("start", Nobody, [idx |-> s, cnt |-> 0], 0)>> ELSE << >>]
    /\ mqWaitSend = [s \in Slots |-> << >>]
    /\ cursor = [s \in Slots |-> 0]
    /\ waiting = [s \in Slots |-> {}]
    /\ callId = [s \in Slots |-> 1]
    /\ taken = [s \in Slots |-> {}]
    /\ heard = [s \in Slots |-> {}]
    /\ msgs = 0
    /\ services = 0
    /\ leaked = {}
    /\ fault = "none"

(* svc_newservice: what the slot's last service left in mqWaitSend stays.  *)
NewService(s, n) ==
    LET a == [idx |-> n, cnt |-> svcCnt[n]]
    IN /\ Running(s) /\ state[n] = "free" /\ services < MaxServices
       /\ services' = services + 1
       /\ state' = [state EXCEPT ![n] = "new"]
       /\ svcCntLocal' = [svcCntLocal EXCEPT ![n] = svcCnt[n]]
       /\ callId' = [callId EXCEPT ![n] = 1]
       /\ IF mqWaitSend[s] # << >>
          THEN /\ mqWaitSend' = [mqWaitSend EXCEPT ![s] =
                                   Append(@, Msg("start", Nobody, a, 0))]
               /\ UNCHANGED mqIn
          ELSE /\ mqIn' = [mqIn EXCEPT ![n] = Append(@, Msg("start", Nobody, a, 0))]
               /\ UNCHANGED mqWaitSend
       /\ taken' = [taken EXCEPT ![n] = {}]
       /\ UNCHANGED <<svcCnt, cursor, waiting, heard, msgs, leaked, fault>>

(* pps.send to an address that is not gone; one that is changes nothing.   *)
Send(s, a) ==
    LET m == Msg("send", Self(s), a, 0)
    IN /\ InLua(s) /\ Known(s, a) /\ ~Gone(m) /\ msgs < MaxMsgs
       /\ msgs' = msgs + 1
       /\ SendFrom(s, m)
       /\ leaked' = IF Alive(s) THEN leaked ELSE leaked \union {Self(s)}
       /\ UNCHANGED <<serviceVars, cursor, luaVars, services>>

(* The next id no call waits with, found by counting on from the last.     *)
After(k) == IF k >= MaxCallId THEN 1 ELSE k + 1
NextId(k, busy) ==
    LET free == Sessions \ busy
        distance(i) == (i - After(k) + MaxCallId) % MaxCallId
    IN CHOOSE i \in free : \A j \in free : distance(i) <= distance(j)

(* pps.call: the coroutine waits under the id.  The id of the next call is *)
(* chosen before it does; that none is left, with all of 2^31 calls        *)
(* waiting, is left out.                                                   *)
Call(s, a) ==
    LET k == callId[s]
        m == Msg("req", Self(s), a, k)
    IN /\ Running(s) /\ Known(s, a) /\ ~Gone(m) /\ msgs < MaxMsgs
       /\ Sessions \ waiting[s] # {k}
       /\ msgs' = msgs + 1
       /\ SendFrom(s, m)
       /\ waiting' = [waiting EXCEPT ![s] = @ \union {k}]
       /\ callId' = [callId EXCEPT ![s] = NextId(k, waiting[s])]
       /\ UNCHANGED <<serviceVars, cursor, taken, heard, services, leaked>>

(* pps.ret, or the answer NO_RET when the handler ends without it; one to  *)
(* a caller that is gone is dropped.                                       *)
AnswerTwice(s, req) ==                                  \* a wrong variant
    LET m == Msg("rsp", Nobody, req.from, req.session)
    IN /\ InLua(s) /\ req \in taken[s] /\ ~Gone(m) /\ SendFrom(s, m)
       /\ UNCHANGED <<serviceVars, cursor, luaVars, boundVars>>
Answer(s, req) ==
    LET m == Msg("rsp", Nobody, req.from, req.session)
    IN /\ InLua(s) /\ req \in taken[s]
       /\ IF Gone(m) THEN UNCHANGED <<queueVars, fault>> ELSE SendFrom(s, m)
       /\ taken' = [taken EXCEPT ![s] = @ \ {req}]
       /\ UNCHANGED <<serviceVars, cursor, waiting, callId, heard, boundVars>>

(* svc_exit, from pps.exit or because the service failed to start.  Calls  *)
(* of the service never return; another coroutine of the callback, the one *)
(* that woke the exiting one, may send and answer until the callback ends, *)
(* with the count svc_exit left in svcCntLocal.                            *)
Exit(s) ==
    /\ Running(s)
    /\ state' = [state EXCEPT ![s] = "exiting"]
    /\ svcCnt' = [svcCnt EXCEPT ![s] = @ + 1]
    /\ svcCntLocal' = [svcCntLocal EXCEPT ![s] = svcCnt[s] + 1]
    /\ waiting' = [waiting EXCEPT ![s] = {}]
    /\ heard' = [heard EXCEPT ![s] = {}]
    /\ UNCHANGED <<queueVars, cursor, callId, taken, boundVars, fault>>

----------------------------------------------------------------------------
(* proc_svc: the next message in mqIn. *)
Handle(s) ==
    LET m == Head(mqIn[s])
    IN /\ fault = "none" /\ cursor[s] = 0 /\ Alive(s)
       /\ mqIn[s] # << >> /\ m.to.cnt = svcCntLocal[s]
       /\ mqIn' = [mqIn EXCEPT ![s] = Tail(@)]
       /\ state' = [state EXCEPT ![s] = IF m.kind = "start" THEN "running" ELSE @]
       /\ taken' = [taken EXCEPT ![s] = IF m.kind = "req" THEN @ \union {m} ELSE @]
       /\ waiting' = [waiting EXCEPT ![s] = IF IsAnswer(m) THEN @ \ {m.session} ELSE @]
       /\ heard' = [heard EXCEPT ![s] =
            IF m.from.cnt = svcCnt[m.from.idx] /\ ~Alive(m.from.idx)
            THEN @ \union {m.from} ELSE @]
       /\ fault' = CASE state[s] = "new" /\ m.kind # "start" ->
                            IF m.to \in leaked THEN "leaked" ELSE "unstarted"
                     [] IsAnswer(m) /\ m.session \notin waiting[s] -> "answer"
                     [] OTHER -> "none"
       /\ UNCHANGED <<svcCnt, svcCntLocal, mqWaitSend, cursor, callId, boundVars>>

(* A message for another incarnation (proc_svc_msg_in): a request is       *)
(* answered SVC_GONE, on behalf of s.                                      *)
EchoNever(s) ==                                               \* a wrong variant
    /\ fault = "none" /\ cursor[s] = 0 /\ (Alive(s) \/ state[s] = "freeing")
    /\ mqIn[s] # << >> /\ Head(mqIn[s]).to.cnt # svcCntLocal[s]
    /\ mqIn' = [mqIn EXCEPT ![s] = Tail(@)]
    /\ UNCHANGED <<serviceVars, mqWaitSend, cursor, luaVars, boundVars, fault>>
Echo(s) ==
    LET m    == Head(mqIn[s])
        echo == Msg("gone", Nobody, m.from, m.session)
        rest == [mqIn EXCEPT ![s] = Tail(@)]
    IN /\ fault = "none" /\ cursor[s] = 0 /\ (Alive(s) \/ state[s] = "freeing")
       /\ mqIn[s] # << >> /\ m.to.cnt # svcCntLocal[s]
       /\ IF m.kind # "req" \/ Gone(echo)
          THEN mqIn' = rest /\ UNCHANGED mqWaitSend
          ELSE IF mqWaitSend[s] # << >> \/ Full(echo)
          THEN /\ mqIn' = rest
               /\ mqWaitSend' = [mqWaitSend EXCEPT ![s] = Append(@, echo)]
          ELSE /\ mqIn' = [rest EXCEPT ![echo.to.idx] = Append(@, echo)]
               /\ UNCHANGED mqWaitSend
       /\ UNCHANGED <<serviceVars, cursor, luaVars, boundVars, fault>>

(* proc_svc's pass over mqWaitSend, one message after the other.  It comes *)
(* after the callbacks, and so does do_svc_free: a service that has exited *)
(* answers no request any more.                                            *)
RetryBeginAlive(s) ==                                         \* a wrong variant
    /\ fault = "none" /\ cursor[s] = 0 /\ mqWaitSend[s] # << >> /\ state[s] = "running"
    /\ cursor' = [cursor EXCEPT ![s] = 1]
    /\ UNCHANGED <<serviceVars, queueVars, luaVars, boundVars, fault>>
RetryBegin(s) ==
    /\ fault = "none" /\ cursor[s] = 0 /\ mqWaitSend[s] # << >>
    /\ Alive(s) \/ state[s] \in {"exiting", "exited"}
    /\ state' = [state EXCEPT ![s] = IF @ = "exiting" THEN "exited" ELSE @]
    /\ taken' = [taken EXCEPT ![s] = IF Alive(s) THEN @ ELSE {}]
    /\ cursor' = [cursor EXCEPT ![s] = 1]
    /\ UNCHANGED <<svcCnt, svcCntLocal, queueVars, waiting, callId, heard, boundVars, fault>>

AtParked(s)  == fault = "none" /\ cursor[s] \in DOMAIN mqWaitSend[s]
Abandoned(s) == state[s] = "exited" /\ mqWaitSend[s][cursor[s]].kind = "req"

(* svc_sendmsg failed, whatever the reason: the message stays.             *)
RetryFails(s) ==
    LET m == mqWaitSend[s][cursor[s]]
    IN /\ AtParked(s) /\ ~Abandoned(s) /\ (Gone(m) \/ Full(m))
       /\ cursor' = [cursor EXCEPT ![s] = @ + 1]
       /\ UNCHANGED <<serviceVars, queueVars, luaVars, boundVars, fault>>

RetrySent(s) ==
    LET m == mqWaitSend[s][cursor[s]]
    IN /\ AtParked(s) /\ ~Abandoned(s) /\ ~Gone(m) /\ ~Full(m)
       /\ mqIn' = [mqIn EXCEPT ![m.to.idx] = Append(@, m)]
       /\ mqWaitSend' = [mqWaitSend EXCEPT ![s] = RemoveAt(@, cursor[s])]
       /\ fault' = IF Alive(m.to.idx) THEN "none" ELSE "dead"
       /\ UNCHANGED <<serviceVars, cursor, luaVars, boundVars>>

(* req of call & svcExitCalled, can destroy                                *)
RetryDestroyed(s) ==
    /\ AtParked(s) /\ Abandoned(s)
    /\ mqWaitSend' = [mqWaitSend EXCEPT ![s] = RemoveAt(@, cursor[s])]
    /\ UNCHANGED <<serviceVars, mqIn, cursor, luaVars, boundVars, fault>>

RetryEnd(s) ==
    /\ fault = "none" /\ cursor[s] > Len(mqWaitSend[s])
    /\ cursor' = [cursor EXCEPT ![s] = 0]
    /\ UNCHANGED <<serviceVars, queueVars, luaVars, boundVars, fault>>

(* An exited service without waitSend messages goes off task and is freed; *)
(* do_svc_free first answers its mail (Echo).                              *)
FreeBegin(s) ==
    /\ fault = "none" /\ state[s] \in {"exiting", "exited"}
    /\ cursor[s] = 0 /\ mqWaitSend[s] = << >>
    /\ state' = [state EXCEPT ![s] = "freeing"]
    /\ taken' = [taken EXCEPT ![s] = {}]
    /\ UNCHANGED <<svcCnt, svcCntLocal, queueVars, cursor, waiting, callId, heard, boundVars,
                   fault>>

FreeEnd(s) ==                           \* svc_back
    /\ fault = "none" /\ state[s] = "freeing" /\ mqIn[s] = << >>
    /\ state' = [state EXCEPT ![s] = "free"]
    /\ UNCHANGED <<svcCnt, svcCntLocal, queueVars, cursor, luaVars, boundVars, fault>>

----------------------------------------------------------------------------
Addresses == [idx : Slots, cnt : 0 .. MaxServices + 1]

ServiceStep(s) == Handle(s) \/ Echo(s) \/ FreeBegin(s) \/ FreeEnd(s)
RetryStep(s)   == RetryFails(s) \/ RetrySent(s) \/ RetryDestroyed(s) \/ RetryEnd(s)
AnswerStep(s)  == \E req \in taken[s] : Answer(s, req)

Next ==
    \E s \in Slots :
        \/ \E n \in Slots : NewService(s, n)
        \/ \E a \in Addresses : Send(s, a) \/ Call(s, a)
        \/ AnswerStep(s)
        \/ Exit(s)
        \/ ServiceStep(s) \/ RetryBegin(s) \/ RetryStep(s)

Spec == Init /\ [][Next]_vars

(* A service with mail or parked messages stays on a worker's task queue   *)
(* until proc_svc has run it (Served of Scheduler), and every handler of a *)
(* request ends.  Strong fairness where a pass over mqWaitSend comes       *)
(* between: each run of proc_svc handles mail before its pass.             *)
FairSpec ==
    /\ Spec
    /\ \A s \in Slots : /\ SF_vars(ServiceStep(s)) /\ SF_vars(AnswerStep(s))
                        /\ WF_vars(RetryBegin(s) \/ RetryStep(s))

----------------------------------------------------------------------------
(* Types, and the bound of every mailbox. *)
TypeOK ==
    /\ state \in [Slots -> {"new", "running", "exiting", "exited", "freeing", "free"}]
    /\ svcCnt \in [Slots -> 0 .. MaxServices + 1]
    /\ svcCntLocal \in [Slots -> 0 .. MaxServices + 1]
    /\ \A s \in Slots :
         /\ \A m \in ToSet(mqIn[s]) \union ToSet(mqWaitSend[s]) :
              m \in [kind : Kinds, from : Addresses, to : Addresses,
                     session : Sessions \union {0}]
         /\ Len(mqIn[s]) <= MqInCap
         /\ cursor[s] \in 0 .. Len(mqWaitSend[s]) + 1
         /\ waiting[s] \subseteq Sessions
         /\ callId[s] \in Sessions
         /\ \A m \in taken[s] : m.kind = "req"
         /\ heard[s] \subseteq Addresses
    /\ msgs \in 0 .. MaxMsgs
    /\ services \in 0 .. MaxServices
    /\ leaked \subseteq Addresses
    /\ fault \in {"none", "answer", "unstarted", "leaked", "dead"}

(* Mail is for one incarnation: a mailbox holds what was sent to the       *)
(* service that has the slot, from its creation to its end; after svc_exit *)
(* only what was sent before it; and nothing while the slot is free.  The  *)
(* one exception is mail for a leaked address, of a sender whose callback  *)
(* went on after svc_exit.  (svcCnt of svc_sendmsg and proc_svc_msg_in.)   *)
ToItsService(m, s) ==
    state[s] # "free" /\ m.to.cnt = IF Alive(s) THEN svcCntLocal[s] ELSE svcCntLocal[s] - 1
ToLateSender(m, s) == ~Alive(s) /\ m.to \in leaked /\ fault = "dead"
OwnMailOnly ==
    \A s \in Slots : \A m \in ToSet(mqIn[s]) :
        m.to.idx = s /\ (ToItsService(m, s) \/ ToLateSender(m, s))

(* A service handles its start message before any other mail, also when    *)
(* its creator had to park the start message behind others, unless mail    *)
(* for its address was sent before it was created.                         *)
StartFirst == fault # "unstarted"
MailOfItsService == OwnMailOnly /\ StartFirst

(* Where the request of a call is, or its answer. *)
IsOfCall(m, s, k) ==
    \/ m.kind = "req" /\ m.from = Self(s) /\ m.session = k
    \/ IsAnswer(m) /\ m.to = Self(s) /\ m.session = k
Places(q, s, k) ==
    {p \in UNION {{d} \X DOMAIN q[d] : d \in Slots} : IsOfCall(q[p[1]][p[2]], s, k)}
Holders(s, k) == {d \in Slots : \E m \in taken[d] : IsOfCall(m, s, k)}
Tokens(s, k) == Cardinality(Places(mqIn, s, k)) + Cardinality(Places(mqWaitSend, s, k))
                  + Cardinality(Holders(s, k))

(* A call has one request or one answer on its way, and an answer on its   *)
(* way to a service is for a call that waits, though sessions and slots    *)
(* are used again, messages are parked and requests outlive their targets. *)
OneAnswer ==
    /\ fault # "answer"
    /\ \A s \in Slots : \A k \in waiting[s] : Tokens(s, k) <= 1
    /\ \A s \in Slots : Alive(s) =>
         \A d \in Slots : \A m \in ToSet(mqIn[d]) \union ToSet(mqWaitSend[d]) :
            IsAnswer(m) /\ m.to = Self(s) => m.session \in waiting[s]

(* What a call waits for is lost in one way only: the service that has     *)
(* taken the request exits (pps.exit answers nothing).                     *)
CallNotLost ==
    [][\A s \in Slots : \A k \in waiting[s] :
         Tokens(s, k) = 1 /\ k \in waiting'[s] =>
           \/ Tokens(s, k)' = 1
           \/ \E d \in Holders(s, k) : taken'[d] = {} /\ state'[d] \in {"exited", "freeing"}]_vars

(* svc_sendmsg will refuse a message that d has parked, on every pass.     *)
Stuck(d) == \E m \in ToSet(mqWaitSend[d]) : m.kind # "start" /\ Gone(m)

(* What a call waits for cannot reach it: nothing is on its way; it is     *)
(* parked toward a service that is gone, or in a slot that is free again;  *)
(* or it is in the mailbox of an exited service that is never freed.       *)
Stranded(s, k) ==
    \/ Tokens(s, k) = 0
    \/ \E d \in Slots : \E m \in ToSet(mqWaitSend[d]) :
         IsOfCall(m, s, k) /\ (Gone(m) \/ state[d] = "free")
    \/ \E d \in Slots : \E m \in ToSet(mqIn[d]) :
         IsOfCall(m, s, k) /\ state[d] = "exited" /\ Stuck(d)

(* A call returns, with an answer, NO_RET or SVC_GONE, or what it waits    *)
(* for is stranded.                                                        *)
CallReturns ==
    \A s \in Slots : \A k \in Sessions :
        k \in waiting[s] ~> k \notin waiting[s] \/ Stranded(s, k) \/ fault # "none"
=============================================================================
