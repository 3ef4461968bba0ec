------------------------------ MODULE Ch3Pt2Pt ------------------------------
(***************************************************************************)
(* Nonblocking point-to-point communication in the ch3 device of the MPICH *)
(* 3.0.2 kept in Module3 (src/mpid/ch3/src): sends and synchronous sends,  *)
(* eager and by rendezvous, receives, matched probes, MPI_Wait,            *)
(* MPI_Request_free and MPI_Cancel of either side.  A process is one       *)
(* thread: an MPI call and the handling of a packet inside one are atomic. *)
(* The packets of one virtual connection stay in order.  A packet names a  *)
(* request of the other process by its handle, and a handle is used again  *)
(* as soon as its request is destroyed: nothing but the reference counts   *)
(* keeps a packet from finding the request of another message.             *)
(***************************************************************************)
EXTENDS RecvQueue

CONSTANTS
    Proc,        \* the processes
    Tag,         \* the tags in use
    Sends,       \* bound: the tags and the kinds of the sends
    Handles,     \* bound: the requests a process can have at a time
    Sender,      \* bound: the processes that send
    Receiver,    \* bound: the processes that receive
    Wanted,      \* bound: what the receives and probes ask for
    MaxCalls,    \* bound: the sends, receives and probes in a run
    MaxCancels   \* bound: the cancels in a run

Kind == {"eager", "noncontig", "sync", "rndv"}

ASSUME SendsAssumption == Sends \subseteq Tag \X Kind
ASSUME BoundAssumption ==
    /\ Handles \in Nat /\ MaxCalls \in Nat /\ MaxCancels \in Nat
    /\ Sender \subseteq Proc /\ Receiver \subseteq Proc
    /\ Wanted \subseteq [rank : Proc \union {MPI_ANY_SOURCE},
                       tag : Tag \union {MPI_ANY_TAG}]
ASSUME WildcardAssumption == MPI_ANY_SOURCE \notin Proc /\ MPI_ANY_TAG \notin Tag

VARIABLES
    request,     \* request[p][h]: the request object of p with the handle h
    avail,       \* avail[p]: the free handles of p, the next one first
    posted,      \* posted[p]: the queue of receives without a message
    unexpected,  \* unexpected[p]: the queue of messages without a receive
    net,         \* net[s][d]: the packets on the connection from s to d
    reading,     \* reading[d][s]: the request the rest of a packet's data goes to
    sent,        \* sent[p]: the number of sends of p
    calls, cancels,  \* how many calls were made so far
    asked,       \* history: the messages whose cancellation was asked for
    fate         \* history: what became of each message

pool == <<request, avail>>
vars == <<pool, posted, unexpected, net, reading, sent, calls, cancels,
          asked, fate>>

Handle == 1 .. Handles

None == 0

MPI_REQUEST_NULL == 0

\* Message n of p is the n-th it sends.
Message == Sender \X (1 .. MaxCalls)

NoMessage == <<>>

Unused ==
    [kind |-> "none", ref |-> 0, cc |-> 0, user |-> FALSE, proto |-> "none",
     peer |-> None, tag |-> None, msg |-> NoMessage, writing |-> FALSE,
     cancel_pending |-> FALSE, cancelled |-> FALSE,
     sender_req_id |-> MPI_REQUEST_NULL, pending |-> 0, ue |-> FALSE]

Init ==
    /\ request = [p \in Proc |-> [h \in Handle |-> Unused]]
    /\ avail = [p \in Proc |-> [i \in Handle |-> i]]
    /\ posted = [p \in Proc |-> <<>>]
    /\ unexpected = [p \in Proc |-> <<>>]
    /\ net = [s \in Proc |-> [d \in Proc |-> <<>>]]
    /\ reading = [d \in Proc |-> [s \in Proc |-> None]]
    /\ sent = [p \in Proc |-> 0]
    /\ calls = 0 /\ cancels = 0
    /\ asked = {}
    /\ fate = [m \in Message |-> "unsent"]

Count == calls < MaxCalls /\ calls' = calls + 1 /\ UNCHANGED cancels

CountCancel == cancels < MaxCancels /\ cancels' = cancels + 1 /\ UNCHANGED calls

-----------------------------------------------------------------------------
\* Request objects: `cc` counts what must happen before the request is
\* complete, `ref` the references: the user's, and the device's until then.

Completed(r) ==
    [r EXCEPT !.cc = @ - 1, !.ref = IF r.cc = 1 THEN @ - 1 ELSE @]

Released(r) == [r EXCEPT !.ref = @ - 1]

\* Request h of p becomes r, or is destroyed without a reference: its handle
\* is the next to be allocated.
Put(p, h, r) ==
    /\ request' = [request EXCEPT ![p][h] = IF r.ref = 0 THEN Unused ELSE r]
    /\ avail' = [avail EXCEPT ![p] = IF r.ref = 0 THEN <<h>> \o @ ELSE @]

Alloc(p, h, r) ==
    /\ avail[p] # <<>> /\ h = Head(avail[p])
    /\ avail' = [avail EXCEPT ![p] = Tail(@)]
    /\ request' = [request EXCEPT ![p][h] = r]

NewSend(d, tag, kind, m) ==
    [Unused EXCEPT !.kind = "SEND", !.ref = 2, !.user = TRUE, !.proto = kind,
                   !.cc = IF kind = "sync" THEN 2 ELSE 1,
                   !.peer = d, !.tag = tag, !.msg = m, !.writing = (kind # "rndv")]

NewRecv ==
    [Unused EXCEPT !.kind = "RECV", !.ref = 2, !.cc = 1, !.pending = 1]

\* A receive request that has its message: what it keeps of the envelope.
WithEnvelope(r, pkt) ==
    [r EXCEPT !.sender_req_id = pkt.sender_req_id, !.proto = pkt.proto,
              !.msg = pkt.msg, !.peer = pkt.match.rank]

-----------------------------------------------------------------------------
\* Packets.  `msg` is a history of the message the packet is about, except in
\* the packets that carry its envelope or its data.

Match(rank, tag) == [rank |-> rank, tag |-> tag]

\* A short message goes in one packet with its envelope, and that of a send of
\* noncontiguous data does not say which request it belongs to; a long one
\* asks first.
EnvelopeType(kind) ==
    CASE kind \in {"eager", "noncontig"} -> "EAGER_SEND"
      [] kind = "sync" -> "EAGER_SYNC_SEND"
      [] kind = "rndv" -> "RNDV_REQ_TO_SEND"

EnvelopePkt(p, h, tag, kind, m) ==
    [type |-> EnvelopeType(kind), match |-> Match(p, tag), proto |-> kind,
     sender_req_id |-> IF kind = "noncontig" THEN MPI_REQUEST_NULL ELSE h,
     msg |-> m]

SyncAckPkt(r) ==
    [type |-> "EAGER_SYNC_ACK", sender_req_id |-> r.sender_req_id, msg |-> r.msg]

ClrToSendPkt(h, r) ==
    [type |-> "RNDV_CLR_TO_SEND", sender_req_id |-> r.sender_req_id,
     receiver_req_id |-> h, msg |-> r.msg]

RndvSendPkt(pkt, r) ==
    [type |-> "RNDV_SEND", receiver_req_id |-> pkt.receiver_req_id, msg |-> r.msg]

CancelReqPkt(p, h, r) ==
    [type |-> "CANCEL_SEND_REQ", match |-> Match(p, r.tag), sender_req_id |-> h,
     msg |-> r.msg]

CancelRespPkt(pkt, ack) ==
    [type |-> "CANCEL_SEND_RESP", sender_req_id |-> pkt.sender_req_id,
     ack |-> ack, msg |-> pkt.msg]

Arrived(s, d, type) ==
    /\ reading[d][s] = None
    /\ net[s][d] # <<>> /\ Head(net[s][d]).type = type

\* d takes the next packet of s, and replies.
Consume(s, d) == net' = [net EXCEPT ![s][d] = Tail(@)]

Reply(s, d, pkt) ==
    net' = [net EXCEPT ![s][d] = Tail(@), ![d][s] = Append(@, pkt)]

Emit(s, d, pkt) == net' = [net EXCEPT ![s][d] = Append(@, pkt)]

-----------------------------------------------------------------------------
\* Sends.

\* MPI_Isend, or MPI_Issend for the kind "sync"; a long message of either goes
\* by rendezvous.
Isend(p, d, tag, kind) ==
    /\ p \in Sender /\ d \in Receiver \ {p}
    /\ Count
    /\ LET m == <<p, sent[p] + 1>> IN
       /\ \E h \in Handle :
            /\ Alloc(p, h, NewSend(d, tag, kind, m))
            /\ Emit(p, d, EnvelopePkt(p, h, tag, kind, m))
       /\ fate' = [fate EXCEPT ![m] = "sent"]
    /\ sent' = [sent EXCEPT ![p] = @ + 1]
    /\ UNCHANGED <<posted, unexpected, reading, asked>>

\* The channel has written the data of request h, at once or later.
WriteDone(p, h) ==
    /\ request[p][h].writing
    /\ Put(p, h, Completed([request[p][h] EXCEPT !.writing = FALSE]))
    /\ UNCHANGED <<posted, unexpected, net, reading, sent, calls, cancels, asked, fate>>

\* The receiver of a synchronous send has matched it.
EagerSyncAck(s, d) ==
    /\ Arrived(s, d, "EAGER_SYNC_ACK")
    /\ LET h == Head(net[s][d]).sender_req_id IN Put(d, h, Completed(request[d][h]))
    /\ Consume(s, d)
    /\ UNCHANGED <<posted, unexpected, reading, sent, calls, cancels, asked, fate>>

\* The receiver of a long message has matched it: the data goes.
RndvClrToSend(s, d) ==
    /\ Arrived(s, d, "RNDV_CLR_TO_SEND")
    /\ LET pkt == Head(net[s][d])
           h == pkt.sender_req_id
           r == request[d][h]
       IN /\ Put(d, h, [r EXCEPT !.writing = TRUE])
          /\ Reply(s, d, RndvSendPkt(pkt, r))
    /\ UNCHANGED <<posted, unexpected, reading, sent, calls, cancels, asked, fate>>

-----------------------------------------------------------------------------
\* Receives.

\* The receive request h of p, with r the message it found in the unexpected
\* queue: a synchronous send is answered, a long message asked for.
TakeMessage(p, h, r) ==
    IF r.proto = "rndv"
    THEN /\ Put(p, h, r)
         /\ Emit(p, r.peer, ClrToSendPkt(h, r))
    ELSE /\ Put(p, h, [r EXCEPT !.pending = @ - 1])
         /\ IF r.proto = "sync" THEN Emit(p, r.peer, SyncAckPkt(r))
                                ELSE UNCHANGED net

\* MPI_Irecv finds the first message in the unexpected queue.
IrecvFound(p, want) ==
    /\ p \in Receiver
    /\ Count
    /\ \E i \in DOMAIN unexpected[p] :
         /\ IsFirst(i, UnexpectedFor(unexpected[p], want))
         /\ LET h == unexpected[p][i].rreq
                r == request[p][h]
            IN /\ TakeMessage(p, h, [r EXCEPT !.user = TRUE])
               /\ fate' = [fate EXCEPT ![r.msg] = "matched"]
         /\ unexpected' = [unexpected EXCEPT ![p] = RemoveAt(@, i)]
    /\ UNCHANGED <<posted, reading, sent, asked>>

\* MPI_Irecv finds none: a new request waits in the posted queue.
IrecvPosted(p, want) ==
    /\ p \in Receiver
    /\ Count
    /\ UnexpectedFor(unexpected[p], want) = {}
    /\ \E h \in Handle :
         /\ Alloc(p, h, [NewRecv EXCEPT !.user = TRUE])
         /\ posted' = [posted EXCEPT ![p] = Enqueued(@, Entry(h, want))]
    /\ UNCHANGED <<unexpected, net, reading, sent, asked, fate>>

\* MPI_Improbe takes the first message out of the queue for a later
\* MPI_Imrecv; it changes nothing when there is none.
Improbe(p, want) ==
    /\ p \in Receiver
    /\ Count
    /\ \E i \in DOMAIN unexpected[p] :
         /\ IsFirst(i, UnexpectedFor(unexpected[p], want))
         /\ LET h == unexpected[p][i].rreq
                r == request[p][h]
            IN /\ Put(p, h, [r EXCEPT !.user = TRUE, !.kind = "MPROBE"])
               /\ fate' = [fate EXCEPT ![r.msg] = "matched"]
         /\ unexpected' = [unexpected EXCEPT ![p] = RemoveAt(@, i)]
    /\ UNCHANGED <<posted, net, reading, sent, asked>>

Imrecv(p, h) ==
    /\ request[p][h].kind = "MPROBE"
    /\ TakeMessage(p, h, [request[p][h] EXCEPT !.kind = "RECV"])
    /\ UNCHANGED <<posted, unexpected, reading, sent, calls, cancels, asked, fate>>

-----------------------------------------------------------------------------
\* The handlers of the packets that carry an envelope or data.  The data may
\* come with its packet or later: until then the connection reads nothing
\* else, and `reading` has the request it goes to.

EagerArrived(s, d) ==
    Arrived(s, d, "EAGER_SEND") \/ Arrived(s, d, "EAGER_SYNC_SEND")

ReadLater(s, d, h) == reading' = [reading EXCEPT ![d][s] = h]

\* A short message meets the first posted receive that matches: the receive
\* gets the data, and a synchronous send its acknowledgement.
EagerSendFound(s, d, whole) ==
    /\ EagerArrived(s, d)
    /\ LET pkt == Head(net[s][d]) IN
       /\ \E i \in DOMAIN posted[d] :
            /\ IsFirst(i, PostedFor(posted[d], pkt.match))
            /\ LET h == posted[d][i].rreq
                   r == WithEnvelope(request[d][h], pkt)
               IN /\ Put(d, h, IF whole THEN Completed(r) ELSE r)
                  /\ IF whole THEN UNCHANGED reading ELSE ReadLater(s, d, h)
                  /\ IF pkt.type = "EAGER_SYNC_SEND" THEN Reply(s, d, SyncAckPkt(r))
                                                     ELSE Consume(s, d)
            /\ posted' = [posted EXCEPT ![d] = RemoveAt(@, i)]
       /\ fate' = [fate EXCEPT ![pkt.msg] = "matched"]
    /\ UNCHANGED <<unexpected, sent, calls, cancels, asked>>

\* Mistake: the request does not wait for the data as well as for a receive.
BugUnexpectedRecv(pkt, whole) ==
    LET r == WithEnvelope(NewRecv, pkt) IN
    IF whole THEN Completed(r) ELSE [r EXCEPT !.ue = TRUE]

\* The request of a short message without a receive: `pending` counts the
\* receive, and the data when it is still to come.
UnexpectedRecv(pkt, whole) ==
    LET r == WithEnvelope(NewRecv, pkt) IN
    IF whole THEN Completed(r) ELSE [r EXCEPT !.ue = TRUE, !.pending = 2]

\* A short message meets no receive: it waits in the unexpected queue.
EagerSendUnexpected(s, d, whole) ==
    /\ EagerArrived(s, d)
    /\ LET pkt == Head(net[s][d]) IN
       /\ PostedFor(posted[d], pkt.match) = {}
       /\ \E h \in Handle :
            /\ Alloc(d, h, UnexpectedRecv(pkt, whole))
            /\ unexpected' = [unexpected EXCEPT ![d] = Enqueued(@, Entry(h, pkt.match))]
            /\ IF whole THEN UNCHANGED reading ELSE ReadLater(s, d, h)
    /\ Consume(s, d)
    /\ UNCHANGED <<posted, sent, calls, cancels, asked, fate>>

\* The rest of the data has come: an unexpected message has one reason less to
\* wait (UnpackUEBufComplete), and the request is complete.
DataArrives(s, d) ==
    /\ reading[d][s] # None
    /\ LET h == reading[d][s]
           r == request[d][h]
       IN Put(d, h, Completed(IF r.ue THEN [r EXCEPT !.pending = @ - 1, !.ue = FALSE]
                                      ELSE r))
    /\ ReadLater(s, d, None)
    /\ UNCHANGED <<posted, unexpected, net, sent, calls, cancels, asked, fate>>

\* A long message asks to be sent and meets a posted receive.
RndvReqToSendFound(s, d) ==
    /\ Arrived(s, d, "RNDV_REQ_TO_SEND")
    /\ LET pkt == Head(net[s][d]) IN
       /\ \E i \in DOMAIN posted[d] :
            /\ IsFirst(i, PostedFor(posted[d], pkt.match))
            /\ LET h == posted[d][i].rreq
                   r == WithEnvelope(request[d][h], pkt)
               IN Put(d, h, r) /\ Reply(s, d, ClrToSendPkt(h, r))
            /\ posted' = [posted EXCEPT ![d] = RemoveAt(@, i)]
       /\ fate' = [fate EXCEPT ![pkt.msg] = "matched"]
    /\ UNCHANGED <<unexpected, reading, sent, calls, cancels, asked>>

\* It meets none: it waits in the unexpected queue, without its data.
RndvReqToSendUnexpected(s, d) ==
    /\ Arrived(s, d, "RNDV_REQ_TO_SEND")
    /\ LET pkt == Head(net[s][d]) IN
       /\ PostedFor(posted[d], pkt.match) = {}
       /\ \E h \in Handle :
            /\ Alloc(d, h, WithEnvelope(NewRecv, pkt))
            /\ unexpected' = [unexpected EXCEPT ![d] = Enqueued(@, Entry(h, pkt.match))]
    /\ Consume(s, d)
    /\ UNCHANGED <<posted, reading, sent, calls, cancels, asked, fate>>

\* The data of a long message.
RndvSend(s, d, whole) ==
    /\ Arrived(s, d, "RNDV_SEND")
    /\ LET h == Head(net[s][d]).receiver_req_id
           r == request[d][h]
       IN /\ Put(d, h, IF whole THEN Completed(r) ELSE r)
          /\ IF whole THEN UNCHANGED reading ELSE ReadLater(s, d, h)
    /\ Consume(s, d)
    /\ UNCHANGED <<posted, unexpected, sent, calls, cancels, asked, fate>>

-----------------------------------------------------------------------------
\* Cancelling.

\* Mistake: a complete request gets no reference for the answer.
BugAwaitingAnswer(r) == [r EXCEPT !.cancel_pending = TRUE, !.cc = @ + 1]

AwaitingAnswer(r) ==
    [r EXCEPT !.cancel_pending = TRUE, !.cc = @ + 1,
              !.ref = IF r.cc = 0 THEN @ + 1 ELSE @]

\* MPI_Cancel of a send asks the receiver, whatever is already known of the
\* send; the second one of a request does nothing.
CancelSend(p, h) ==
    /\ CountCancel
    /\ LET r == request[p][h] IN
       /\ r.kind = "SEND" /\ r.user /\ ~ r.cancel_pending
       /\ request' = [request EXCEPT ![p][h] = AwaitingAnswer(r)]
       /\ Emit(p, r.peer, CancelReqPkt(p, h, r))
       /\ asked' = asked \union {r.msg}
    /\ UNCHANGED <<avail, posted, unexpected, reading, sent, fate>>

\* The unexpected messages of p with the handle and the envelope of pkt.
Cancellable(p, pkt) ==
    {i \in DOMAIN unexpected[p] :
        /\ unexpected[p][i].match = pkt.match
        /\ request[p][unexpected[p][i].rreq].sender_req_id = pkt.sender_req_id}

\* The receiver has the message and no receive for it: it drops the message.
CancelSendReqFound(s, d) ==
    /\ Arrived(s, d, "CANCEL_SEND_REQ")
    /\ LET pkt == Head(net[s][d]) IN
       /\ \E i \in DOMAIN unexpected[d] :
            /\ IsCancelled(i, Cancellable(d, pkt))
            /\ LET h == unexpected[d][i].rreq IN
               /\ Put(d, h, Released(request[d][h]))
               /\ fate' = [fate EXCEPT ![request[d][h].msg] = "cancelled"]
            /\ unexpected' = [unexpected EXCEPT ![d] = RemoveAt(@, i)]
       /\ Reply(s, d, CancelRespPkt(pkt, TRUE))
    /\ UNCHANGED <<posted, reading, sent, calls, cancels, asked>>

CancelSendReqNotFound(s, d) ==
    /\ Arrived(s, d, "CANCEL_SEND_REQ")
    /\ LET pkt == Head(net[s][d]) IN
       /\ Cancellable(d, pkt) = {}
       /\ Reply(s, d, CancelRespPkt(pkt, FALSE))
    /\ UNCHANGED <<pool, posted, unexpected, reading, sent, calls, cancels, asked, fate>>

\* Mistake: the request of a cancelled send still waits for the answer to its
\* message.
BugAnswered(r, ack) == Completed([r EXCEPT !.cancelled = ack])

\* A cancelled synchronous or long send will get no acknowledgement and no
\* clear to send, and is not to wait for them.
Answered(r, ack) ==
    LET waits == ack /\ r.proto \in {"sync", "rndv"} IN
    Completed([r EXCEPT !.cancelled = ack, !.cc = IF waits THEN @ - 1 ELSE @])

CancelSendResp(s, d) ==
    /\ Arrived(s, d, "CANCEL_SEND_RESP")
    /\ LET pkt == Head(net[s][d])
           h == pkt.sender_req_id
       IN Put(d, h, Answered(request[d][h], pkt.ack))
    /\ Consume(s, d)
    /\ UNCHANGED <<posted, unexpected, reading, sent, calls, cancels, asked, fate>>

\* MPI_Cancel of a receive takes it out of the posted queue; it does nothing
\* when the receive is not there.
CancelRecv(p, h) ==
    /\ CountCancel
    /\ request[p][h].user
    /\ \E i \in DOMAIN posted[p] :
         /\ posted[p][i].rreq = h
         /\ posted' = [posted EXCEPT ![p] = RemoveAt(@, i)]
    /\ Put(p, h, Released([request[p][h] EXCEPT !.cancelled = TRUE, !.cc = 0]))
    /\ UNCHANGED <<unexpected, net, reading, sent, asked, fate>>

-----------------------------------------------------------------------------
\* The user gives a request up, complete (MPI_Wait) or not (MPI_Request_free).

Wait(p, h) ==
    /\ request[p][h].user /\ request[p][h].kind # "MPROBE" /\ request[p][h].cc = 0
    /\ Put(p, h, Released([request[p][h] EXCEPT !.user = FALSE]))
    /\ UNCHANGED <<posted, unexpected, net, reading, sent, calls, cancels, asked, fate>>

RequestFree(p, h) ==
    /\ request[p][h].user /\ request[p][h].kind # "MPROBE" /\ request[p][h].cc > 0
    /\ Put(p, h, Released([request[p][h] EXCEPT !.user = FALSE]))
    /\ UNCHANGED <<posted, unexpected, net, reading, sent, calls, cancels, asked, fate>>

-----------------------------------------------------------------------------
User(p) ==
    \/ \E d \in Proc, send \in Sends : Isend(p, d, send[1], send[2])
    \/ \E want \in Wanted : IrecvFound(p, want) \/ IrecvPosted(p, want) \/ Improbe(p, want)
    \/ \E h \in Handle : CancelSend(p, h) \/ CancelRecv(p, h) \/ Wait(p, h) \/ RequestFree(p, h)

\* What the progress engine does with the next packet from s to d.
Progress(s, d) ==
    \/ EagerSyncAck(s, d) \/ RndvClrToSend(s, d) \/ DataArrives(s, d)
    \/ \E whole \in BOOLEAN :
         \/ EagerSendFound(s, d, whole) \/ EagerSendUnexpected(s, d, whole)
         \/ RndvSend(s, d, whole)
    \/ RndvReqToSendFound(s, d) \/ RndvReqToSendUnexpected(s, d)
    \/ CancelSendReqFound(s, d) \/ CancelSendReqNotFound(s, d) \/ CancelSendResp(s, d)

\* MPIDI_CH3_Progress of p: a write is done, or a packet is read.
ProgressEngine(p) ==
    \/ \E h \in Handle : WriteDone(p, h)
    \/ \E s \in Proc : Progress(s, p)

ReceiveProbed(p) == \E h \in Handle : Imrecv(p, h)

Next == \E p \in Proc : User(p) \/ ProgressEngine(p) \/ ReceiveProbed(p)

\* A process that waits for anything runs the progress engine (MPI_Wait and
\* MPI_Finalize do), and a program receives the messages it has probed.
Fairness == \A p \in Proc : WF_vars(ProgressEngine(p)) /\ WF_vars(ReceiveProbed(p))

Spec == Init /\ [][Next]_vars /\ Fairness

-----------------------------------------------------------------------------
\* A receive and a message that match are never both kept waiting: every call
\* and every packet looks through the whole of the other queue first
\* (ch3u_recvq.c, MPIDI_CH3U_Recvq_FDU_or_AEP and FDP_or_AEU).
NoMatchApart ==
    \A p \in Proc : \A i \in DOMAIN posted[p], j \in DOMAIN unexpected[p] :
        ~ Matches(posted[p][i].match, unexpected[p][j].match)

Live(p, h, m) ==
    /\ h \in Handle
    /\ request[p][h].ref > 0 /\ request[p][h].cc > 0 /\ request[p][h].msg = m

\* The request of the sender that a packet from s to d names is the live one of
\* the message the packet is about.
SenderLive(s, d, pkt) ==
    CASE pkt.type \in {"EAGER_SYNC_SEND", "RNDV_REQ_TO_SEND", "CANCEL_SEND_REQ"} ->
             Live(s, pkt.sender_req_id, pkt.msg)
      [] pkt.type \in {"EAGER_SYNC_ACK", "RNDV_CLR_TO_SEND", "CANCEL_SEND_RESP"} ->
             Live(d, pkt.sender_req_id, pkt.msg)
      [] OTHER -> TRUE

ReceiverLive(s, d, pkt) ==
    CASE pkt.type = "RNDV_CLR_TO_SEND" -> Live(s, pkt.receiver_req_id, pkt.msg)
      [] pkt.type = "RNDV_SEND" -> Live(d, pkt.receiver_req_id, pkt.msg)
      [] OTHER -> TRUE

\* Whatever the users cancel, free and wait for, no packet, queue or read in
\* progress names a request that is gone or that belongs to another message
\* by now.  The handlers use the handle they are sent without a check, and of
\* one the code says "This sometimes segfaults" (ch3u_eagersync.c:340).
NoDanglingRequest ==
    /\ \A s, d \in Proc : \A k \in DOMAIN net[s][d] :
         SenderLive(s, d, net[s][d][k]) /\ ReceiverLive(s, d, net[s][d][k])
    /\ \A s, d \in Proc : reading[d][s] # None => request[d][reading[d][s]].cc > 0
    /\ \A p \in Proc : \A i \in DOMAIN posted[p] :
         Live(p, posted[p][i].rreq, NoMessage)
    /\ \A p \in Proc : \A i \in DOMAIN unexpected[p] :
         LET r == request[p][unexpected[p][i].rreq] IN
         /\ r.ref > 0 /\ ~ r.user /\ r.peer = unexpected[p][i].match.rank
         /\ r.proto \in {"sync", "rndv"} => Live(r.peer, r.sender_req_id, r.msg)

\* "is it ever possible to have (cc==0 && recv_pending>0)?" (mpid_irecv.c:77)
\* No, once the receive is there: a short message without a receive waits for
\* the receive alone exactly when its data has come.
CompleteWhenNonePending ==
    \A p \in Proc, h \in Handle :
        LET r == request[p][h] IN
        (\/ r.kind = "MPROBE"
         \/ \E i \in DOMAIN unexpected[p] : unexpected[p][i].rreq = h)
        /\ r.proto # "rndv"
        => IF r.cc = 0 THEN r.pending = 1 ELSE r.pending = 2

\* A cancellation must not "erroneously cancel a previously sent message with
\* the same request handle" (mpid_cancel_send.c:198): a message is dropped only
\* if its own sender asked for it.
NoOtherCancelled == \A m \in Message : fate[m] = "cancelled" => m \in asked

\* What MPI_Test_cancelled says of a send is what happened to that very
\* message, and no message is dropped that its sender did not ask to cancel.
CancelOutcome ==
    /\ \A p \in Proc, h \in Handle :
         LET r == request[p][h] IN
         r.cancel_pending /\ r.cc = 0
            => fate[r.msg] = IF r.cancelled THEN "cancelled" ELSE "matched"
    /\ NoOtherCancelled

\* A send whose message has met a receive, or whose cancellation was asked for,
\* becomes complete, and so does the receive.
Complete(m) ==
    \A p \in Proc, h \in Handle :
        LET r == request[p][h] IN
        r.msg = m /\ (r.kind = "SEND" \/ fate[m] = "matched") => r.cc = 0

MatchedOrCancelledCompletes ==
    \A m \in Message : (fate[m] = "matched" \/ m \in asked) ~> Complete(m)
=============================================================================
