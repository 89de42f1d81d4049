----------------------------- MODULE WebSocket -----------------------------
(***************************************************************************)
(* One WebSocket connection and its decoder (tcp_decode_websocket.cpp),    *)
(* shared by the two threads that decode: the service in netapi_tcp_read   *)
(* and, while a read waits, the net thread.  Every byte is counted three   *)
(* times, and the counts decide who looks at what: readable, what the      *)
(* service has not read; readable4Dec, what has not been unmasked; and     *)
(* readableUsed, what a read has seen, which the net thread compares.      *)
(*                                                                         *)
(* Bytes are positions of the stream; the blocks of the buffer and the     *)
(* text of the handshake are left out.  close and the slot are module Net. *)
(* fault names what the code does not survive; the model stops there:      *)
(*   "overrun"    bytes are unmasked that have not come yet                *)
(*   "desync"     a head is read where no frame starts                     *)
(*   "reentered"  bytes are stored behind the head of a frame found bad    *)
(***************************************************************************)
EXTENDS Integers, Sequences

CONSTANTS Streams,    \* the streams of frames a client may send
          HeadLen,    \* bytes of a frame's head, for each kind of length
          Hello,      \* bytes of the handshake
          RecvBufLen  \* ctx->recvBufLen, at which reading pauses

LenFlags == {"short", "mid", "long"}   \* lenFlag < 126, = 126, = 127
Frame == [op: {"data", "inner", "cont"},   \* cont: opcode 0, a continuation
          flag: LenFlags, body: Nat, masked: BOOLEAN]

ASSUME WebSocketAssumption ==
    /\ Streams \subseteq Seq(Frame)
    /\ HeadLen \in [LenFlags -> Nat \ {0}]
    /\ {Hello, RecvBufLen} \subseteq Nat \ {0}

VARIABLES
  frames,   \* what this client sends
  sent,     \* bytes of it on their way or received
  peer,     \* "open" or "gone"
  chan,     \* read_runtime and its decoder
  pollIn,   \* ctx->pollInReg
  netPc, fill, readable, readable4Dec,     \* the net thread and the locals of on_tcp_read
  task,     \* READ_WAIT requests: the readableUsed they carry
  pc, used, last,      \* the service's call; last: the end was seen before
  inbox,    \* notifications to the service
  (* ghosts *)
  reads,    \* what reads have returned: from where to where
  eaten     \* what the read under way took off before it waited: bytes of a
            \* head, and a frame it dropped

netLocals == <<netPc, fill, readable, readable4Dec>>
svcVars == <<pc, used, last>>
wire == <<frames, sent, peer>>
wsVars == <<wire, chan, pollIn, netLocals, task, svcVars, inbox, reads, eaten>>

Lesser(a, b) == IF a < b THEN a ELSE b
Head_(f) == HeadLen[f.flag]
(* Where frame i starts, for i up to one past the last.                    *)
Start(i) ==
    LET at[j \in 1..Len(frames) + 1] ==
            IF j = 1 THEN Hello
            ELSE at[j - 1] + Head_(frames[j - 1]) + frames[j - 1].body
    IN at[i]

WsInit ==
    /\ frames \in Streams /\ sent = 0 /\ peer = "open"
    /\ chan = [readable |-> 0, readable4Dec |-> 0, sockClosed |-> FALSE,
               onReadWait |-> FALSE, wait |-> FALSE,
               recvd |-> 0, size4Read |-> 0, size4Decode |-> 0,
               state |-> "conn", metaRcvd |-> 0, bodyLen |-> 0, bodyDecCnt |-> 0,
               n |-> 1, err |-> FALSE, fault |-> "none"]
    /\ pollIn = TRUE
    /\ netPc = "poll" /\ fill = 0 /\ readable = 0 /\ readable4Dec = 0
    /\ task = << >> /\ pc = "new" /\ used = 0 /\ last = FALSE
    /\ inbox = << >> /\ reads = << >> /\ eaten = 0
-----------------------------------------------------------------------------
(* The decoder.                                                            *)
Eat(c, k) == [c EXCEPT !.size4Read = @ + k, !.readable = @ - k, !.readable4Dec = @ - k]

PackReset(c) == [c EXCEPT !.state = "head", !.metaRcvd = 0, !.n = @ + 1]

(* The two bytes of a 16 bit length are stored at packMeta[3] and [2] and  *)
(* fetched from packMeta[6]: the length is always 0.                       *)
BodyLen(f) == IF f.flag = "mid" THEN 0 ELSE f.body

(* The head is complete: only text and binary frames have a body.          *)
HeadDone(c, f) ==
    IF ~f.masked THEN [c EXCEPT !.err = TRUE]
    ELSE [c EXCEPT !.state = IF f.op = "data" THEN "body" ELSE "inner",
                   !.bodyLen = BodyLen(f), !.bodyDecCnt = 0,
                   !.size4Decode = c.size4Read]

PackHead(c, k) ==
    IF c.state # "head" \/ k < 1 THEN [c EXCEPT !.err = FALSE]
    ELSE IF c.metaRcvd = 0 /\ c.size4Read # Start(c.n)
    THEN [c EXCEPT !.fault = "desync"]
    ELSE LET f == frames[c.n]
             m == Lesser(k, Head_(f) - c.metaRcvd)
             e == [Eat(c, m) EXCEPT !.metaRcvd = @ + m, !.err = FALSE]
         IN IF m = 0 THEN [c EXCEPT !.fault = "reentered"]
            ELSE IF e.metaRcvd < Head_(f) THEN e ELSE HeadDone(e, f)

(* A body of length 0 is never done: the count is compared after a byte.   *)
DecBody(c, k) ==
    IF c.state # "body" \/ k < 1 THEN c
    ELSE LET left == c.bodyLen - c.bodyDecCnt
             m == IF c.bodyLen = 0 THEN k ELSE Lesser(k, left)
         IN [c EXCEPT !.size4Decode = @ + m, !.readable4Dec = @ - m,
                      !.bodyDecCnt = @ + m,
                      !.state = IF c.bodyDecCnt + m = c.bodyLen THEN "ready" ELSE @,
                      !.fault = IF c.size4Decode + m > c.recvd THEN "overrun" ELSE @]

ReadBody(c) ==
    PackReset([c EXCEPT !.size4Read = @ + c.bodyLen, !.readable = @ - c.bodyLen])

HasMsg(c) == c.state \in {"ready", "inner"}
-----------------------------------------------------------------------------
(* The service: netapi_tcp_read and do_read.                               *)
TakeConnIn ==
    /\ pc = "new" /\ inbox # << >> /\ Head(inbox) = "conn_in"
    /\ inbox' = Tail(inbox) /\ pc' = "idle"
    /\ UNCHANGED <<wire, chan, pollIn, netLocals, task, used, last, reads, eaten>>

(* A new read beside one that waits is refused.                            *)
ReadNew ==
    /\ pc = "idle" /\ ~chan.onReadWait
    /\ chan' = [chan EXCEPT !.onReadWait = TRUE] /\ pc' = "head" /\ eaten' = 0
    /\ UNCHANGED <<wire, pollIn, netLocals, task, used, last, inbox, reads>>

TakeReadRet ==
    /\ pc = "idle" /\ inbox # << >> /\ Head(inbox) = "read_ret"
    /\ inbox' = Tail(inbox) /\ pc' = "head" /\ eaten' = 0
    /\ UNCHANGED <<wire, chan, pollIn, netLocals, task, used, last, reads>>

ReadHead ==
    /\ pc = "head"
    /\ used' = chan.readable /\ chan' = PackHead(chan, chan.readable)
    /\ eaten' = eaten + (chan'.size4Read - chan.size4Read) /\ pc' = "body"
    /\ UNCHANGED <<wire, pollIn, netLocals, task, last, inbox, reads>>

(* The count of bytes to unmask is loaded later than that of bytes to read.*)
DecodableAll(c) == c.readable
Decodable(c) == c.readable4Dec

ReadDecode ==
    /\ pc = "body"
    /\ chan' = DecBody(chan, Decodable(chan)) /\ pc' = "msg"
    /\ UNCHANGED <<wire, pollIn, netLocals, task, used, last, inbox, reads, eaten>>

(* A frame that is no message is answered by its opcode, and 0, that of a  *)
(* continuation, is the answer of a read that found nothing.               *)
AtContinuation == HasMsg(chan) /\ ~chan.err /\ frames[chan.n].op = "cont"

ReadDrop ==
    /\ pc = "msg" /\ AtContinuation
    /\ chan' = PackReset(chan) /\ eaten' = eaten + 1
    /\ UNCHANGED <<wire, pollIn, netLocals, task, svcVars, inbox, reads>>

(* A read that has its message, or failed on the head, is over; after a    *)
(* failure, or behind the end of the stream, so is the connection.         *)
ReadMsg ==
    /\ pc = "msg" /\ (HasMsg(chan) \/ chan.err) /\ ~AtContinuation
    /\ IF chan.err
       THEN chan' = [chan EXCEPT !.onReadWait = FALSE] /\ reads' = reads
       ELSE /\ reads' = Append(reads, [n |-> chan.n, from |-> chan.size4Read,
                                   to |-> chan.size4Decode])
            /\ chan' = [IF chan.state = "ready" THEN ReadBody(chan) ELSE PackReset(chan)
                           EXCEPT !.onReadWait = FALSE]
    /\ pc' = IF chan.err \/ last THEN "over" ELSE "idle"
    /\ UNCHANGED <<wire, pollIn, netLocals, task, used, last, inbox, eaten>>

NothingRead == pc = "msg" /\ ~HasMsg(chan) /\ ~chan.err

(* At the end of the stream what came since is looked at once more.        *)
ReadEnd ==
    /\ NothingRead /\ chan.sockClosed
    /\ chan' = [chan EXCEPT !.onReadWait = FALSE]
    /\ IF ~last /\ chan.readable > used
       THEN pc' = "head" /\ last' = TRUE
       ELSE pc' = "over" /\ last' = last
    /\ UNCHANGED <<wire, pollIn, netLocals, task, used, inbox, reads, eaten>>

ReadOpen ==
    /\ NothingRead /\ ~chan.sockClosed /\ ~last /\ pc' = "readwait"
    /\ UNCHANGED <<wire, chan, pollIn, netLocals, task, used, last, inbox, reads, eaten>>

ReadWait ==
    /\ pc = "readwait"
    /\ task' = Append(task, used) /\ pc' = "idle" /\ used' = 0
    /\ UNCHANGED <<wire, chan, pollIn, netLocals, last, inbox, reads, eaten>>
-----------------------------------------------------------------------------
(* The net thread.                                                         *)
SendReadNotify == inbox' = Append(inbox, "read_ret")

(* do_read_wait looks again only when there is more than the read saw; a   *)
(* head it finds bad is left at that, and nobody is told.                  *)
NewerSwapped(n, seen) == n < seen
Newer(n, seen) == n > seen

DoReadWait ==
    /\ netPc = "poll" /\ task # << >> /\ task' = Tail(task)
    /\ LET look == Newer(chan.readable, Head(task))
           h == IF look THEN PackHead(chan, chan.readable) ELSE chan
           c == IF look THEN DecBody(h, h.readable4Dec) ELSE chan
       IN IF look /\ h.err
          THEN chan' = h /\ UNCHANGED <<inbox, pollIn>>
          ELSE IF (look /\ HasMsg(c)) \/ c.sockClosed
          THEN chan' = c /\ SendReadNotify /\ UNCHANGED pollIn
          ELSE chan' = [c EXCEPT !.wait = TRUE] /\ pollIn' = TRUE /\ UNCHANGED inbox
    /\ UNCHANGED <<wire, netLocals, svcVars, reads, eaten>>

PollRead ==
    /\ netPc = "poll" /\ ~chan.sockClosed
    /\ (pollIn /\ sent > chan.recvd) \/ peer = "gone"
    /\ netPc' = "fill" /\ readable' = 0 /\ readable4Dec' = 0
    /\ UNCHANGED <<wire, chan, pollIn, fill, task, svcVars, inbox, reads, eaten>>

(* The two counts are raised one after the other.                          *)
Fill ==
    /\ netPc = "fill" /\ sent > chan.recvd
    /\ fill' = sent - chan.recvd /\ netPc' = "fill4dec"
    /\ chan' = [chan EXCEPT !.recvd = sent, !.readable = @ + fill']
    /\ readable' = chan'.readable
    /\ UNCHANGED <<wire, pollIn, readable4Dec, task, svcVars, inbox, reads, eaten>>

Fill4Dec ==
    /\ netPc = "fill4dec"
    /\ chan' = [chan EXCEPT !.readable4Dec = @ + fill]
    /\ readable4Dec' = chan'.readable4Dec /\ fill' = 0 /\ netPc' = "fill"
    /\ UNCHANGED <<wire, pollIn, readable, task, svcVars, inbox, reads, eaten>>

FillEnd ==
    /\ netPc = "fill" /\ sent = chan.recvd
    /\ chan' = [chan EXCEPT !.sockClosed = (peer = "gone")]
    /\ pollIn' = (pollIn /\ peer = "open") /\ netPc' = "trigger"
    /\ UNCHANGED <<wire, fill, readable, readable4Dec, task, svcVars, inbox, reads, eaten>>

AfterRead == netPc' = "poll" /\ readable' = 0 /\ readable4Dec' = 0 /\ fill' = fill

(* Until the handshake is done its bytes are all that is looked at.        *)
Handshake ==
    /\ netPc = "trigger" /\ ~chan.sockClosed /\ chan.state = "conn"
    /\ LET k == Lesser(readable, Hello - chan.size4Read)
           e == Eat(chan, k)
       IN IF e.size4Read = Hello
          THEN /\ chan' = [e EXCEPT !.state = "head"]
               /\ inbox' = Append(inbox, "conn_in")
          ELSE chan' = e /\ inbox' = inbox
    /\ AfterRead
    /\ UNCHANGED <<wire, pollIn, task, svcVars, reads, eaten>>

(* The handshake is found bad, its answer cannot be sent or the service is *)
(* gone: the descriptor is closed, the slot recycled and nobody told.      *)
HandshakeFails ==
    /\ netPc = "trigger" /\ ~chan.sockClosed /\ chan.state = "conn"
    /\ chan' = [Eat(chan, Lesser(readable, Hello - chan.size4Read)) EXCEPT !.sockClosed = TRUE]
    /\ pollIn' = FALSE /\ AfterRead
    /\ UNCHANGED <<wire, task, svcVars, inbox, reads, eaten>>

(* The bytes to unmask are those counted before the head was taken off.    *)
Triggers(c) == HasMsg(c)

Trigger ==
    /\ netPc = "trigger" /\ (chan.sockClosed \/ chan.state # "conn")
    /\ LET decode == chan.wait /\ ~chan.sockClosed
           h == IF decode THEN PackHead(chan, readable) ELSE chan
           c == IF decode THEN DecBody(h, readable4Dec) ELSE chan
           trig == decode /\ Triggers(c)
           closed == chan.sockClosed \/ (decode /\ h.err)
           unread == readable - (h.size4Read - chan.size4Read)
           pause == unread >= RecvBufLen /\ (~chan.wait \/ trig)
       IN /\ chan' = [c EXCEPT !.sockClosed = closed,
                               !.wait = @ /\ ~(trig \/ closed)]
          /\ pollIn' = (pollIn /\ ~closed /\ ~pause)
          /\ IF chan.wait /\ (trig \/ closed) THEN SendReadNotify ELSE inbox' = inbox
    /\ AfterRead
    /\ UNCHANGED <<wire, task, svcVars, reads, eaten>>
-----------------------------------------------------------------------------
(* The client.                                                             *)
PeerSend ==
    /\ peer = "open" /\ sent < Start(Len(frames) + 1) /\ sent' = sent + 1
    /\ UNCHANGED <<frames, peer, chan, pollIn, netLocals, task, svcVars, inbox, reads, eaten>>

PeerEnd ==
    /\ peer = "open" /\ peer' = "gone"
    /\ UNCHANGED <<frames, sent, chan, pollIn, netLocals, task, svcVars, inbox, reads, eaten>>
-----------------------------------------------------------------------------
Service == \/ TakeConnIn \/ ReadNew \/ TakeReadRet
           \/ ReadHead \/ ReadDecode \/ ReadDrop \/ ReadMsg \/ ReadEnd \/ ReadOpen \/ ReadWait
NetThread == DoReadWait \/ PollRead \/ Fill \/ Fill4Dec \/ FillEnd \/ Handshake
             \/ HandshakeFails \/ Trigger

WsNext == chan.fault = "none" /\ (Service \/ NetThread \/ PeerSend \/ PeerEnd)

(* Both threads run on; the service reads again and again.                 *)
Fairness == /\ WF_wsVars(chan.fault = "none" /\ Service)
            /\ WF_wsVars(chan.fault = "none" /\ NetThread)
            /\ SF_wsVars(chan.fault = "none" /\ DoReadWait)
WsSpec == WsInit /\ [][WsNext]_wsVars
WsFairSpec == WsSpec /\ Fairness
-----------------------------------------------------------------------------
BodyStart(i) == Start(i) + Head_(frames[i])

Payload(i) == IF frames[i].op = "data" THEN frames[i].body ELSE 0

(* A read hands over the bytes of one frame's body, all of them received   *)
(* and unmasked once, in the order of the frames, and of the frames behind *)
(* the decoder only continuations have been handed to nobody (do_read,     *)
(* sockprotocol_pack_read_body).                                           *)
FramesReadWhole ==
    /\ \A i \in 1..Len(reads) :
           LET m == reads[i]
           IN /\ m.n \in 1..chan.n - 1 /\ m.from = BodyStart(m.n) /\ m.to <= chan.recvd
              /\ m.to = m.from + Payload(m.n)
    /\ \A i, j \in 1..Len(reads) : i < j => reads[i].n < reads[j].n
    /\ \A k \in 1..chan.n - 1 :
           frames[k].op # "cont" => \E i \in 1..Len(reads) : reads[i].n = k

(* The decoder is one thread's at a time: the service does not read while  *)
(* the net thread has its read to wait for (pps_net_api.cpp, pps_net.cpp). *)
DecoderOfOneThread ==
    /\ chan.wait => pc = "idle" /\ chan.onReadWait
    /\ pc \in {"head", "body", "msg", "readwait"} => task = << >>
    /\ chan.state = "conn" => pc = "new"

(* What goes wrong does so where it is known to: the net thread takes the  *)
(* head off and unmasks with the count from before, in the middle of a     *)
(* body; a frame that is no message but has a payload; an unmasked frame.  *)
FaultsKnown ==
    /\ chan.fault = "overrun" =>
           netPc = "poll" /\ pc = "idle" /\ chan.onReadWait
           /\ (chan.bodyLen = 0 \/ chan.recvd < Start(chan.n + 1))
    /\ chan.fault = "desync" => LET f == frames[chan.n - 1]
                                IN f.op # "data" /\ f.body > 0
    /\ chan.fault = "reentered" => ~frames[chan.n].masked

(* A decoder in step hands over whole frames.                              *)
DecoderInStep == FramesReadWhole /\ DecoderOfOneThread /\ FaultsKnown

(* Frame n is there, and the code can tell that it is.                     *)
Complete(n) ==
    /\ n <= Len(frames) /\ frames[n].masked
    /\ chan.recvd >= BodyStart(n) + Payload(n)
    /\ frames[n].op = "data" => BodyLen(frames[n]) > 0

ReaderWaits == chan.onReadWait /\ pc = "idle"

(* A reader that waits for a frame that is complete gets it, unless the    *)
(* read took bytes of its head off itself, or dropped the frame before it: *)
(* readable falls by these, readableUsed does not, and do_read_wait does   *)
(* not look (pps_net.cpp:716).                                             *)
FrameIsRead ==
    \A n \in 1..3 :
        (ReaderWaits /\ chan.n = n /\ Complete(n)) ~>
            (~chan.onReadWait \/ chan.n > n \/ eaten > 0 \/ chan.fault # "none")
=============================================================================
