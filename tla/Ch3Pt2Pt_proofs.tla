-------------------------- MODULE Ch3Pt2Pt_proofs --------------------------
(***************************************************************************)
(* The ch3 device, for any processes, tags, wildcards, requests and calls: *)
(* its queues never keep a receive and a message that match apart; no      *)
(* packet, queue or read in progress names a request that is gone; what a  *)
(* message waits for, and what a cancel tells, is so.  The first part is   *)
(* about the queues alone.  The second adds the requests, the packets and  *)
(* the messages (PtParts), and has one lemma per action.                   *)
(***************************************************************************)
EXTENDS Ch3Pt2Pt, SequenceTheorems, TLAPS

Entries(q) == {q[i] : i \in DOMAIN q}

\* A queue is a sequence, of whatever entries.
IsQueue(q) == q \in Seq(Entries(q))

Apart(receives, messages) ==
    \A r \in Entries(receives), m \in Entries(messages) : ~ Matches(r.match, m.match)

QueuesOK ==
    /\ DOMAIN posted = Proc /\ posted = [p \in Proc |-> posted[p]]
    /\ DOMAIN unexpected = Proc /\ unexpected = [p \in Proc |-> unexpected[p]]
    /\ \A p \in Proc : IsQueue(posted[p]) /\ IsQueue(unexpected[p])

IInv == QueuesOK /\ \A p \in Proc : Apart(posted[p], unexpected[p])

-----------------------------------------------------------------------------
\* Any sequence is a queue, of the entries it has.
LEMMA SeqIsQueue ==
    ASSUME NEW S, NEW q \in Seq(S)
    PROVE  IsQueue(q) /\ Entries(q) \subseteq S
<1>1. Len(q) \in Nat /\ q \in [1 .. Len(q) -> S]
  OBVIOUS
<1>2. q \in [1 .. Len(q) -> Entries(q)]
  BY <1>1 DEF Entries
<1>3. Entries(q) \subseteq S
  BY <1>1 DEF Entries
<1> QED  BY <1>1, <1>2, <1>3 DEF IsQueue

\* A queue with a new entry has its old entries and the new one.
LEMMA EnqueuedEntries ==
    ASSUME NEW q, NEW e, IsQueue(q)
    PROVE  IsQueue(Enqueued(q, e)) /\ Entries(Enqueued(q, e)) = Entries(q) \union {e}
<1> DEFINE a == Append(q, e)
           S == Entries(q) \union {e}
<1>1. q \in Seq(S) /\ e \in S
  BY DEF IsQueue
<1>2. /\ a \in Seq(S) /\ Len(a) = Len(q) + 1
      /\ \A i \in 1 .. Len(q) : a[i] = q[i]
      /\ a[Len(q) + 1] = e
  BY <1>1, AppendProperties
<1>3. DOMAIN q = 1 .. Len(q) /\ DOMAIN a = 1 .. Len(a) /\ Len(q) \in Nat
  BY <1>1, <1>2
<1>4. Entries(a) = S
  <2>1. \A i \in DOMAIN q : i \in DOMAIN a /\ a[i] = q[i]
    BY <1>2, <1>3
  <2>2. Len(q) + 1 \in DOMAIN a
    BY <1>2, <1>3
  <2>3. \A i \in DOMAIN a : i \in DOMAIN q \/ i = Len(q) + 1
    BY <1>2, <1>3
  <2> QED  BY <2>1, <2>2, <2>3, <1>2 DEF Entries
<1> QED  BY <1>2, <1>4 DEF Enqueued, IsQueue

\* A queue without one of its entries has only entries it had.
LEMMA RemovedEntries ==
    ASSUME NEW q, NEW i \in DOMAIN q, IsQueue(q)
    PROVE  IsQueue(RemoveAt(q, i)) /\ Entries(RemoveAt(q, i)) \subseteq Entries(q)
<1> DEFINE S == Entries(q)
           b == SubSeq(q, 1, i - 1)
           c == SubSeq(q, i + 1, Len(q))
           r == b \o c
<1>1. q \in Seq(S) /\ DOMAIN q = 1 .. Len(q) /\ Len(q) \in Nat /\ i \in 1 .. Len(q)
  BY DEF IsQueue
<1>2. \A k \in 1 .. Len(q) : q[k] \in S
  BY <1>1
<1>3. b \in Seq(S)
  BY <1>1, <1>2, SubSeqProperties
<1>4. c \in Seq(S)
  BY <1>1, <1>2, SubSeqProperties
<1>5. r \in Seq(S)
  BY <1>3, <1>4, ConcatProperties
<1> HIDE DEF S, b, c, r
<1>6. IsQueue(r) /\ Entries(r) \subseteq S
  BY <1>5, SeqIsQueue
<1> QED  BY <1>6 DEF RemoveAt, S, b, c, r

\* A queue that loses entries on either side leaves nothing that matches.
LEMMA ApartShrinks ==
    ASSUME NEW r, NEW m, NEW r1, NEW m1, Apart(r, m),
           Entries(r1) \subseteq Entries(r), Entries(m1) \subseteq Entries(m)
    PROVE  Apart(r1, m1)
BY DEF Apart

\* What a search of the other queue does not find matches nothing in it.
LEMMA NoneFound ==
    ASSUME NEW q, NEW match
    PROVE  /\ UnexpectedFor(q, match) = {} => \A e \in Entries(q) : ~ Matches(match, e.match)
           /\ PostedFor(q, match) = {} => \A e \in Entries(q) : ~ Matches(e.match, match)
BY DEF UnexpectedFor, PostedFor, Entries

-----------------------------------------------------------------------------
\* The four ways a call or a handler changes the queues of a process, and the
\* fifth, that it does not.

PostedGrows(p) == \E h, want :
    /\ UnexpectedFor(unexpected[p], want) = {}
    /\ posted' = [posted EXCEPT ![p] = Enqueued(@, Entry(h, want))]
    /\ UNCHANGED unexpected

UnexpectedGrows(p) == \E h, match :
    /\ PostedFor(posted[p], match) = {}
    /\ unexpected' = [unexpected EXCEPT ![p] = Enqueued(@, Entry(h, match))]
    /\ UNCHANGED posted

PostedShrinks(p) == \E i \in DOMAIN posted[p] :
    /\ posted' = [posted EXCEPT ![p] = RemoveAt(@, i)]
    /\ UNCHANGED unexpected

UnexpectedShrinks(p) == \E i \in DOMAIN unexpected[p] :
    /\ unexpected' = [unexpected EXCEPT ![p] = RemoveAt(@, i)]
    /\ UNCHANGED posted

QueueStep ==
    \/ \E p \in Proc : \/ PostedGrows(p) \/ UnexpectedGrows(p)
                       \/ PostedShrinks(p) \/ UnexpectedShrinks(p)
    \/ UNCHANGED <<posted, unexpected>>

\* One process's queues change from queues that are apart to queues that are.
LEMMA QueueStepPreserves ==
    ASSUME IInv, QueueStep
    PROVE  IInv'
<1>1. CASE UNCHANGED <<posted, unexpected>>
  BY <1>1, Zenon DEF IInv, QueuesOK
<1>2. ASSUME NEW p \in Proc, PostedGrows(p) PROVE IInv'
  <2>1. PICK h, want :
          /\ UnexpectedFor(unexpected[p], want) = {}
          /\ posted' = [posted EXCEPT ![p] = Enqueued(@, Entry(h, want))]
          /\ UNCHANGED unexpected
    BY <1>2 DEF PostedGrows
  <2> DEFINE q == Enqueued(posted[p], Entry(h, want))
  <2>2. posted'[p] = q /\ \A o \in Proc \ {p} : posted'[o] = posted[o]
    BY <2>1 DEF IInv, QueuesOK
  <2>3. IsQueue(q) /\ Entries(q) = Entries(posted[p]) \union {Entry(h, want)}
    BY EnqueuedEntries DEF IInv, QueuesOK
  <2>4. Apart(q, unexpected[p])
    <3>1. \A e \in Entries(unexpected[p]) : ~ Matches(want, e.match)
      BY <2>1, NoneFound
    <3>2. Entry(h, want).match = want
      BY DEF Entry
    <3> QED  BY <3>1, <3>2, <2>3 DEF Apart, IInv
  <2>5. \A o \in Proc : IsQueue(posted'[o]) /\ Apart(posted'[o], unexpected[o])
    BY <2>2, <2>3, <2>4 DEF IInv, QueuesOK
  <2>6. DOMAIN posted' = Proc /\ posted' = [o \in Proc |-> posted'[o]]
    BY <2>1 DEF IInv, QueuesOK
  <2> QED  BY <2>1, <2>5, <2>6 DEF IInv, QueuesOK
<1>3. ASSUME NEW p \in Proc, UnexpectedGrows(p) PROVE IInv'
  <2>1. PICK h, match :
          /\ PostedFor(posted[p], match) = {}
          /\ unexpected' = [unexpected EXCEPT ![p] = Enqueued(@, Entry(h, match))]
          /\ UNCHANGED posted
    BY <1>3 DEF UnexpectedGrows
  <2> DEFINE q == Enqueued(unexpected[p], Entry(h, match))
  <2>2. unexpected'[p] = q /\ \A o \in Proc \ {p} : unexpected'[o] = unexpected[o]
    BY <2>1 DEF IInv, QueuesOK
  <2>3. IsQueue(q) /\ Entries(q) = Entries(unexpected[p]) \union {Entry(h, match)}
    BY EnqueuedEntries DEF IInv, QueuesOK
  <2>4. Apart(posted[p], q)
    <3>1. \A e \in Entries(posted[p]) : ~ Matches(e.match, match)
      BY <2>1, NoneFound
    <3>2. Entry(h, match).match = match
      BY DEF Entry
    <3> QED  BY <3>1, <3>2, <2>3 DEF Apart, IInv
  <2>5. \A o \in Proc : IsQueue(unexpected'[o]) /\ Apart(posted[o], unexpected'[o])
    BY <2>2, <2>3, <2>4 DEF IInv, QueuesOK
  <2>6. DOMAIN unexpected' = Proc /\ unexpected' = [o \in Proc |-> unexpected'[o]]
    BY <2>1 DEF IInv, QueuesOK
  <2> QED  BY <2>1, <2>5, <2>6 DEF IInv, QueuesOK
<1>4. ASSUME NEW p \in Proc, PostedShrinks(p) PROVE IInv'
  <2>1. PICK i \in DOMAIN posted[p] :
          /\ posted' = [posted EXCEPT ![p] = RemoveAt(@, i)]
          /\ UNCHANGED unexpected
    BY <1>4 DEF PostedShrinks
  <2> DEFINE q == RemoveAt(posted[p], i)
  <2>2. posted'[p] = q /\ \A o \in Proc \ {p} : posted'[o] = posted[o]
    BY <2>1 DEF IInv, QueuesOK
  <2>3. IsQueue(q) /\ Entries(q) \subseteq Entries(posted[p])
    BY RemovedEntries DEF IInv, QueuesOK
  <2>4. Apart(q, unexpected[p])
    BY <2>3, ApartShrinks DEF IInv
  <2>5. \A o \in Proc : IsQueue(posted'[o]) /\ Apart(posted'[o], unexpected[o])
    BY <2>2, <2>3, <2>4 DEF IInv, QueuesOK
  <2>6. DOMAIN posted' = Proc /\ posted' = [o \in Proc |-> posted'[o]]
    BY <2>1 DEF IInv, QueuesOK
  <2> QED  BY <2>1, <2>5, <2>6 DEF IInv, QueuesOK
<1>5. ASSUME NEW p \in Proc, UnexpectedShrinks(p) PROVE IInv'
  <2>1. PICK i \in DOMAIN unexpected[p] :
          /\ unexpected' = [unexpected EXCEPT ![p] = RemoveAt(@, i)]
          /\ UNCHANGED posted
    BY <1>5 DEF UnexpectedShrinks
  <2> DEFINE q == RemoveAt(unexpected[p], i)
  <2>2. unexpected'[p] = q /\ \A o \in Proc \ {p} : unexpected'[o] = unexpected[o]
    BY <2>1 DEF IInv, QueuesOK
  <2>3. IsQueue(q) /\ Entries(q) \subseteq Entries(unexpected[p])
    BY RemovedEntries DEF IInv, QueuesOK
  <2>4. Apart(posted[p], q)
    BY <2>3, ApartShrinks DEF IInv
  <2>5. \A o \in Proc : IsQueue(unexpected'[o]) /\ Apart(posted[o], unexpected'[o])
    BY <2>2, <2>3, <2>4 DEF IInv, QueuesOK
  <2>6. DOMAIN unexpected' = Proc /\ unexpected' = [o \in Proc |-> unexpected'[o]]
    BY <2>1 DEF IInv, QueuesOK
  <2> QED  BY <2>1, <2>5, <2>6 DEF IInv, QueuesOK
<1> QED  BY <1>1, <1>2, <1>3, <1>4, <1>5 DEF QueueStep

-----------------------------------------------------------------------------
\* Every step of the device is one of those.
LEMMA EveryQueueStep ==
    ASSUME [Next]_vars
    PROVE  QueueStep
<1>1. ASSUME NEW p \in Proc, User(p) PROVE QueueStep
  <2>1. ASSUME NEW d \in Proc, NEW send \in Sends, Isend(p, d, send[1], send[2])
        PROVE  QueueStep
    BY <2>1 DEF Isend, QueueStep
  <2>2. ASSUME NEW want \in Wanted, IrecvFound(p, want) PROVE QueueStep
    BY <2>2, <1>1 DEF IrecvFound, QueueStep, UnexpectedShrinks
  <2>3. ASSUME NEW want \in Wanted, IrecvPosted(p, want) PROVE QueueStep
    BY <2>3, <1>1 DEF IrecvPosted, QueueStep, PostedGrows
  <2>4. ASSUME NEW want \in Wanted, Improbe(p, want) PROVE QueueStep
    BY <2>4, <1>1 DEF Improbe, QueueStep, UnexpectedShrinks
  <2>5. ASSUME NEW h \in Handle, CancelSend(p, h) PROVE QueueStep
    BY <2>5 DEF CancelSend, QueueStep
  <2>6. ASSUME NEW h \in Handle, CancelRecv(p, h) PROVE QueueStep
    BY <2>6, <1>1 DEF CancelRecv, QueueStep, PostedShrinks
  <2>7. ASSUME NEW h \in Handle, Wait(p, h) \/ RequestFree(p, h) PROVE QueueStep
    BY <2>7 DEF Wait, RequestFree, QueueStep
  <2> QED  BY <1>1, <2>1, <2>2, <2>3, <2>4, <2>5, <2>6, <2>7 DEF User
<1>2. ASSUME NEW d \in Proc, NEW s \in Proc, Progress(s, d) PROVE QueueStep
  <2>1. CASE EagerSyncAck(s, d) \/ RndvClrToSend(s, d) \/ DataArrives(s, d)
    BY <2>1, Zenon DEF EagerSyncAck, RndvClrToSend, DataArrives, QueueStep
  <2>2. ASSUME NEW whole \in BOOLEAN, EagerSendFound(s, d, whole) PROVE QueueStep
    BY <2>2, <1>2 DEF EagerSendFound, QueueStep, PostedShrinks
  <2>3. ASSUME NEW whole \in BOOLEAN, EagerSendUnexpected(s, d, whole) PROVE QueueStep
    BY <2>3, <1>2 DEF EagerSendUnexpected, QueueStep, UnexpectedGrows
  <2>4. ASSUME NEW whole \in BOOLEAN, RndvSend(s, d, whole) PROVE QueueStep
    BY <2>4 DEF RndvSend, QueueStep
  <2>5. CASE RndvReqToSendFound(s, d)
    BY <2>5, <1>2 DEF RndvReqToSendFound, QueueStep, PostedShrinks
  <2>6. CASE RndvReqToSendUnexpected(s, d)
    BY <2>6, <1>2 DEF RndvReqToSendUnexpected, QueueStep, UnexpectedGrows
  <2>7. CASE CancelSendReqFound(s, d)
    BY <2>7, <1>2 DEF CancelSendReqFound, QueueStep, UnexpectedShrinks
  <2>8. CASE CancelSendReqNotFound(s, d) \/ CancelSendResp(s, d)
    BY <2>8 DEF CancelSendReqNotFound, CancelSendResp, QueueStep
  <2> QED  BY <1>2, <2>1, <2>2, <2>3, <2>4, <2>5, <2>6, <2>7, <2>8 DEF Progress
<1>3. ASSUME NEW p \in Proc, NEW h \in Handle, WriteDone(p, h) \/ Imrecv(p, h)
      PROVE  QueueStep
  BY <1>3 DEF WriteDone, Imrecv, QueueStep
<1>4. CASE UNCHANGED vars
  BY <1>4 DEF vars, QueueStep
<1> QED  BY <1>1, <1>2, <1>3, <1>4 DEF Next, ProgressEngine, ReceiveProbed

\* Both queues are empty at first.
LEMMA Initially == Init => IInv
<1> SUFFICES ASSUME Init PROVE IInv
  OBVIOUS
<1>1. /\ posted = [p \in Proc |-> <<>>] /\ unexpected = [p \in Proc |-> <<>>]
  BY DEF Init
<1>2. IsQueue(<<>>) /\ Entries(<<>>) = {}
  BY DEF IsQueue, Entries
<1>3. \A p \in Proc : posted[p] = <<>> /\ unexpected[p] = <<>>
  BY <1>1
<1>4. DOMAIN posted = Proc /\ DOMAIN unexpected = Proc
  BY <1>1
<1>5. QueuesOK
  BY <1>1, <1>2, <1>3, <1>4 DEF QueuesOK
<1>6. \A p \in Proc : Apart(posted[p], unexpected[p])
  BY <1>2, <1>3 DEF Apart
<1> QED  BY <1>5, <1>6 DEF IInv

\* A receive and a message that match never wait in the two queues at once
\* (MPIDI_CH3U_Recvq_FDU_or_AEP and FDP_or_AEU search before they enqueue).
THEOREM NeverApart == Spec => []NoMatchApart
<1>1. Init => IInv
  BY Initially
<1>2. IInv /\ [Next]_vars => IInv'
  BY EveryQueueStep, QueueStepPreserves
<1>3. IInv => NoMatchApart
  BY DEF IInv, NoMatchApart, Apart, Entries
<1> QED  BY <1>1, <1>2, <1>3, PTL DEF Spec

-----------------------------------------------------------------------------
\* Packets that bring a message or its request to send, and packets that answer one.
EnvelopeTypes == {"EAGER_SEND", "EAGER_SYNC_SEND", "RNDV_REQ_TO_SEND"}
AnswerTypes == {"EAGER_SYNC_ACK", "RNDV_CLR_TO_SEND"}

\* The kinds of send whose request waits for its receiver.
Waits == {"sync", "rndv"}

\* The packets from s to d; the messages and the receives that wait at d.
Packets(s, d) == Entries(net[s][d])
Messages(d) == Entries(unexpected[d])
Receives(d) == Entries(posted[d])

\* The request g of d is in the queue of unexpected messages, of receives.
Queued(d, g) == \E e \in Messages(d) : e.rreq = g
Listed(d, g) == \E e \in Receives(d) : e.rreq = g

\* What a request can be, and what can become of a message.
Request ==
    [kind : {"none", "SEND", "RECV", "MPROBE"}, ref : Int, cc : Int, user : BOOLEAN,
     proto : Kind \union {"none"}, peer : Proc \union {None}, tag : Tag \union {None},
     msg : Message \union {NoMessage}, writing : BOOLEAN, cancel_pending : BOOLEAN,
     cancelled : BOOLEAN, sender_req_id : Handle \union {MPI_REQUEST_NULL},
     pending : Int, ue : BOOLEAN]

Fates == {"unsent", "sent", "matched", "cancelled"}

\* Every connection is a sequence of packets.
NetOK ==
    /\ net = [s \in Proc |-> [d \in Proc |-> net[s][d]]]
    /\ \A s, d \in Proc : IsQueue(net[s][d])

\* The types of the rest of the state.
TypeInv ==
    /\ request \in [Proc -> [Handle -> Request]]
    /\ avail \in [Proc -> Seq(Handle)]
    /\ reading \in [Proc -> [Proc -> Handle \union {None}]]
    /\ sent \in [Proc -> Nat] /\ calls \in Nat
    /\ fate \in [Message -> Fates]

\* The references of a request: its user's, that of the unexpected queue, and
\* that of the device until the request is complete.
Bit(b) == IF b THEN 1 ELSE 0

RefOK(p, h) ==
    LET r == request[p][h] IN
    /\ r.ref = Bit(r.user) + Bit(Queued(p, h)) + Bit(r.cc > 0)
    /\ r.ref = 0 <=> r.kind = "none"
    /\ r.cancel_pending \/ r.writing => r.kind = "SEND"

RefInv == \A p \in Proc, h \in Handle : RefOK(p, h)

\* A free handle has no request, and is free once.
FreeInv ==
    \A p \in Proc :
        /\ \A i \in DOMAIN avail[p] : request[p][avail[p][i]].kind = "none"
        /\ \A i, j \in DOMAIN avail[p] : i < j => avail[p][i] # avail[p][j]

\* Packet a is before packet b on a connection.
NetBefore(a, b) ==
    /\ a # b
    /\ a.type \in EnvelopeTypes /\ b.type \in EnvelopeTypes => a.msg[2] < b.msg[2]
    /\ a.type = "CANCEL_SEND_REQ" /\ b.type \in EnvelopeTypes => a.msg # b.msg

\* Envelopes travel in the order of the sends, and no envelope follows the request
\* to cancel its message.
NetOrder ==
    \A s, d \in Proc : \A i, j \in DOMAIN net[s][d] :
        i < j => NetBefore(net[s][d][i], net[s][d][j])

\* The message of entry a is before that of b, of the same sender: see QueueOrder.
QueueBefore(d, a, b) ==
    /\ a.rreq # b.rreq
    /\ a.match.rank = b.match.rank => request[d][a.rreq].msg[2] < request[d][b.rreq].msg[2]

\* Both queues name a request once; the messages of one sender wait in order.
QueueOrder ==
    \A d \in Proc : \A i, j \in DOMAIN unexpected[d] :
        i < j => QueueBefore(d, unexpected[d][i], unexpected[d][j])

PostedOrder ==
    \A d \in Proc : \A i, j \in DOMAIN posted[d] : i < j => posted[d][i].rreq # posted[d][j].rreq

\* The request h of p is that of the send of m.
IsSend(p, h, m) == h \in Handle /\ request[p][h].kind = "SEND" /\ request[p][h].msg = m

\* What a packet or a request of d tells of a message from s.
Link(s, d, m, proto, sid) ==
    /\ s \in Sender /\ s # d /\ m \in Message /\ m[1] = s /\ m[2] <= sent[s]
    /\ proto \in Kind /\ sid \in Handle \union {MPI_REQUEST_NULL}
    /\ \A h \in Handle : IsSend(s, h, m) =>
          /\ request[s][h].peer = d /\ request[s][h].proto = proto
          /\ sid = IF proto = "noncontig" THEN MPI_REQUEST_NULL ELSE h
    /\ proto \in Waits => IsSend(s, sid, m)
    /\ sid \in Handle /\ request[s][sid].kind = "SEND" => m[2] <= request[s][sid].msg[2]

\* A message has the tag of its send.
Tagged(s, m, tag) == \A h \in Handle : IsSend(s, h, m) => request[s][h].tag = tag

\* The request g of d waits for the data of the long message m of s.
Receiving(d, g, s, m) ==
    /\ g \in Handle /\ request[d][g].kind = "RECV" /\ request[d][g].proto = "rndv"
    /\ request[d][g].cc = 1 /\ request[d][g].peer = s /\ request[d][g].msg = m
    /\ ~ Queued(d, g) /\ ~ Listed(d, g)

\* What the packets and the entries of the queues say is so: an envelope brings a
\* message that was not found yet, an answer or the data one that was matched, and
\* whoever waits for them is still there.
EnvelopeOK(s, d, k) ==
    /\ k.match = Match(s, k.match.tag) /\ k.type = EnvelopeType(k.proto)
    /\ Link(s, d, k.msg, k.proto, k.sender_req_id) /\ Tagged(s, k.msg, k.match.tag)
    /\ fate[k.msg] = "sent"

AnswerOK(s, d, k) ==
    /\ IsSend(d, k.sender_req_id, k.msg)
    /\ request[d][k.sender_req_id].peer = s
    /\ request[d][k.sender_req_id].proto = IF k.type = "EAGER_SYNC_ACK" THEN "sync" ELSE "rndv"
    /\ fate[k.msg] = "matched"
    /\ k.type = "RNDV_CLR_TO_SEND" => Receiving(s, k.receiver_req_id, d, k.msg)

DataOK(s, d, k) ==
    /\ Receiving(d, k.receiver_req_id, s, k.msg)
    /\ k.msg \in Message /\ k.msg[1] = s /\ fate[k.msg] = "matched"

CancelReqOK(s, d, k) ==
    /\ IsSend(s, k.sender_req_id, k.msg)
    /\ LET r == request[s][k.sender_req_id] IN
       r.peer = d /\ k.match = Match(s, r.tag) /\ r.cancel_pending
    /\ fate[k.msg] # "cancelled" /\ k.msg \in asked

CancelRespOK(s, d, k) ==
    /\ IsSend(d, k.sender_req_id, k.msg) /\ k.ack \in BOOLEAN
    /\ LET r == request[d][k.sender_req_id] IN
       /\ r.peer = s /\ r.cancel_pending
       /\ r.proto # "noncontig" => fate[k.msg] = IF k.ack THEN "cancelled" ELSE "matched"

\* Packets are between different processes, and each is as its type demands.
PacketOK(s, d, k) ==
    /\ s # d
    /\ \/ k.type \in EnvelopeTypes /\ EnvelopeOK(s, d, k)
       \/ k.type \in AnswerTypes /\ AnswerOK(s, d, k)
       \/ k.type = "RNDV_SEND" /\ DataOK(s, d, k)
       \/ k.type = "CANCEL_SEND_REQ" /\ CancelReqOK(s, d, k)
       \/ k.type = "CANCEL_SEND_RESP" /\ CancelRespOK(s, d, k)

PacketInv == \A s, d \in Proc : \A k \in Packets(s, d) : PacketOK(s, d, k)

\* The request g of d has a message that was not received yet.
Holds(d, g) ==
    LET r == request[d][g] IN
    /\ Link(r.peer, d, r.msg, r.proto, r.sender_req_id)
    /\ IF r.proto = "rndv" THEN r.cc = 1
       ELSE \/ r.cc = 0 /\ r.pending = 1
            \/ r.cc = 1 /\ r.pending = 2 /\ r.ue
    /\ ~ Listed(d, g)

\* A message that waits, or was probed, has not been received; a receive that
\* waits has no message yet.
QueuedOK(d, e) ==
    LET r == request[d][e.rreq] IN
    /\ e.rreq \in Handle /\ r.kind = "RECV" /\ ~ r.user
    /\ e.match = Match(r.peer, e.match.tag)
    /\ Holds(d, e.rreq) /\ Tagged(r.peer, r.msg, e.match.tag)
    /\ fate[r.msg] = "sent"

QueuedInv == \A d \in Proc : \A e \in Messages(d) : QueuedOK(d, e)

ProbedOK(d, g) ==
    request[d][g].kind = "MPROBE" =>
        request[d][g].user /\ Holds(d, g) /\ fate[request[d][g].msg] = "matched"

ProbedInv == \A d \in Proc, g \in Handle : ProbedOK(d, g)

ListedOK(d, e) ==
    LET r == request[d][e.rreq] IN
    e.rreq \in Handle /\ r.kind = "RECV" /\ r.msg = NoMessage /\ r.cc = 1 /\ ~ r.ue

ListedInv == \A d \in Proc : \A e \in Receives(d) : ListedOK(d, e)

\* The request whose data is being read is incomplete and has a message.
ReadingOK(d, s) ==
    LET g == reading[d][s]  r == request[d][g] IN
    g # None =>
        /\ r.kind \in {"RECV", "MPROBE"} /\ r.cc = 1 /\ r.peer = s
        /\ r.msg \in Message /\ ~ Listed(d, g)
        /\ r.proto = "rndv" =>
              /\ r.kind = "RECV" /\ ~ Queued(d, g) /\ fate[r.msg] = "matched"
              /\ r.msg[1] = s

ReadingInv == \A d, s \in Proc : ReadingOK(d, s)

\* Where a message is between its send and its receive, x the request or the
\* packet that has it.
Place(d, m, where, x) ==
    \/ where = "envelope" /\ x \in Packets(m[1], d) /\ x.type \in EnvelopeTypes /\ x.msg = m
    \/ where = "queued" /\ Queued(d, x) /\ request[d][x].msg = m
    \/ where = "probed" /\ x \in Handle /\ request[d][x].kind = "MPROBE" /\ request[d][x].msg = m
    \/ where = "answered" /\ x \in Packets(d, m[1]) /\ x.type \in AnswerTypes /\ x.msg = m
    \/ where = "data" /\ x \in Packets(m[1], d) /\ x.type = "RNDV_SEND" /\ x.msg = m
    \/ /\ where = "reading" /\ x = reading[d][m[1]] /\ x # None
       /\ request[d][x].proto = "rndv" /\ request[d][x].msg = m

\* A message is in one place at most, and so is the question whether to cancel it.
OnePlace ==
    \A m \in Message, d1, d2 \in Proc : \A w1, x1, w2, x2 :
        Place(d1, m, w1, x1) /\ Place(d2, m, w2, x2) => d1 = d2 /\ w1 = w2 /\ x1 = x2

\* The packet k between m's sender and d is about the cancellation of m.
CancelPacket(d, m, k) ==
    /\ k.msg = m
    /\ \/ k.type = "CANCEL_SEND_REQ" /\ k \in Packets(m[1], d)
       \/ k.type = "CANCEL_SEND_RESP" /\ k \in Packets(d, m[1])

CancelOnce ==
    \A m \in Message, d1, d2 \in Proc : \A k1, k2 :
        CancelPacket(d1, m, k1) /\ CancelPacket(d2, m, k2) => d1 = d2 /\ k1 = k2

\* The answer to MPI_Cancel is still to come.
Cancelling(m) ==
    \E d \in Proc : \E k \in Packets(m[1], d) \union Packets(d, m[1]) : CancelPacket(d, m, k)

\* The sender of m has yet to be told what became of it.
Unanswered(m) ==
    \/ fate[m] = "sent"
    \/ \E d \in Proc, g \in Handle : request[d][g].kind = "MPROBE" /\ request[d][g].msg = m
    \/ \E d \in Proc : \E k \in Packets(d, m[1]) :
          k.msg = m /\ (k.type \in AnswerTypes \/ (k.type = "CANCEL_SEND_RESP" /\ k.ack))

\* A send has a message of its own.
SendShape(p, h) ==
    LET r == request[p][h]  m == r.msg IN
    /\ m \in Message /\ m[1] = p /\ m[2] <= sent[p] /\ r.peer \in Proc \ {p} /\ r.proto \in Kind
    /\ r.tag \in Tag
    /\ (\A x \in Sends : x[2] # "noncontig") => r.proto # "noncontig"
    /\ fate[m] # "unsent"
    /\ \A g \in Handle : IsSend(p, g, m) => g = h

\* The counter of a send waits for the write, the receiver and the cancel.
SendCount(p, h, m) ==
    LET r == request[p][h] IN
    r.cc >= Bit(r.writing) + Bit(r.proto \in Waits /\ Unanswered(m)) + Bit(Cancelling(m))

\* A cancel that was answered told what became of the message.
SendCancel(p, h, m) ==
    LET r == request[p][h] IN
    /\ ~ r.cancel_pending => fate[m] # "cancelled"
    /\ r.cancel_pending /\ r.proto # "noncontig" =>
          \/ Cancelling(m)
          \/ fate[m] = IF r.cancelled THEN "cancelled" ELSE "matched"

\* The message m of p to q, until it is found, is on its way or waits at q.
SendKept(p, q, m) ==
    fate[m] = "sent" => \/ \E k \in Packets(p, q) : k.type \in EnvelopeTypes /\ k.msg = m
                        \/ \E e \in Messages(q) : request[q][e.rreq].msg = m

\* A message that was matched was the first of those with its envelope.
SendFirst(p, q, tag, m) ==
    fate[m] = "matched" =>
        /\ \A e \in Messages(q) :
              e.match = Match(p, tag) => request[q][e.rreq].msg[2] > m[2]
        /\ \A k \in Packets(p, q) :
              k.type \in EnvelopeTypes /\ k.match = Match(p, tag) => k.msg[2] > m[2]

\* Each of these for every send.
IsSendRequest(p, h) == request[p][h].kind = "SEND"
ShapeInv == \A p \in Proc, h \in Handle : IsSendRequest(p, h) => SendShape(p, h)
CountInv == \A p \in Proc, h \in Handle, m \in Message : IsSend(p, h, m) => SendCount(p, h, m)
CancelInv == \A p \in Proc, h \in Handle, m \in Message : IsSend(p, h, m) => SendCancel(p, h, m)
KeptInv ==
    \A p, q \in Proc, h \in Handle, m \in Message :
        IsSend(p, h, m) /\ request[p][h].peer = q => SendKept(p, q, m)
FirstInv ==
    \A p, q \in Proc, h \in Handle, m \in Message, tag \in Tag :
        IsSend(p, h, m) /\ request[p][h].peer = q /\ request[p][h].tag = tag
            => SendFirst(p, q, tag, m)

\* The messages that wait were sent before those on the way.
LaterInv ==
    \A d \in Proc : \A e \in Messages(d) : \A k \in Packets(e.match.rank, d) :
        k.type \in EnvelopeTypes => request[d][e.rreq].msg[2] < k.msg[2]

\* Messages are numbered in the order of the sends.
UnsentInv == \A m \in Message : m[2] > sent[m[1]] => fate[m] = "unsent"

CallsInv == \A p \in Proc : sent[p] <= calls

\* Only what MPI_Cancel asked for is cancelled, if every send has a name at the
\* receiver: see EverySendNamed.
AskedInv ==
    (\A x \in Sends : x[2] # "noncontig") =>
        \A m \in Message : fate[m] = "cancelled" => m \in asked

\* The parts of the invariant.
ReceiverInv ==
    /\ QueueOrder /\ PostedOrder /\ QueuedInv /\ ProbedInv /\ ListedInv /\ ReadingInv

SenderInv == ShapeInv /\ CountInv /\ KeptInv /\ CancelInv /\ FirstInv

RequestInv ==
    TypeInv /\ RefInv /\ FreeInv /\ LaterInv /\ CallsInv /\ UnsentInv /\ AskedInv

NetInv == NetOK /\ NetOrder /\ PacketInv /\ OnePlace /\ CancelOnce

\* What holds of the requests, the packets and the queues.
PtParts == ReceiverInv /\ SenderInv /\ RequestInv /\ NetInv

\* q without its first entry; what order the entries are in.
LEMMA TailQueue ==
    ASSUME NEW q, IsQueue(q), q # <<>>
    PROVE  /\ IsQueue(Tail(q)) /\ Head(q) \in Entries(q)
           /\ Entries(q) = Entries(Tail(q)) \union {Head(q)}
           /\ \A i \in DOMAIN Tail(q) : i \in Nat /\ 1 \in DOMAIN q /\ i + 1 \in DOMAIN q /\ 1 < i + 1
                                        /\ Tail(q)[i] = q[i + 1] /\ Head(q) = q[1]
<1> DEFINE S == Entries(q)
           t == Tail(q)
<1>1. q \in Seq(S)
  BY DEF IsQueue
<1>2. Len(q) \in Nat /\ DOMAIN q = 1 .. Len(q) /\ Len(q) # 0
  BY <1>1, EmptySeq
<1>3. t \in Seq(S) /\ Len(t) = Len(q) - 1 /\ \A i \in 1 .. Len(t) : t[i] = q[i + 1]
  BY <1>1, HeadTailProperties
<1>4. Head(q) = q[1] /\ 1 \in DOMAIN q
  BY <1>1, <1>2
<1> HIDE DEF t, S
<1>5. DOMAIN t = 1 .. Len(t)
  BY <1>3
<1>6. \A i \in DOMAIN t : i \in Nat /\ i + 1 \in DOMAIN q /\ 1 < i + 1 /\ t[i] = q[i + 1]
  BY <1>2, <1>3, <1>5
<1>7. Entries(q) = Entries(t) \union {Head(q)}
  <2>1. ASSUME NEW i \in DOMAIN q, i # 1 PROVE i - 1 \in DOMAIN t /\ t[i - 1] = q[i]
    <3>1. i - 1 \in 1 .. Len(t)
      BY <1>2, <1>3, <2>1
    <3>2. t[i - 1] = q[(i - 1) + 1]
      BY <1>3, <3>1
    <3>3. (i - 1) + 1 = i
      BY <1>2
    <3> QED  BY <1>5, <3>1, <3>2, <3>3
  <2>2. ASSUME NEW x \in Entries(q) PROVE x \in Entries(t) \union {Head(q)}
    <3>1. PICK i \in DOMAIN q : x = q[i]
      BY DEF Entries
    <3> QED  BY <1>4, <2>1, <3>1 DEF Entries
  <2>3. ASSUME NEW x \in Entries(t) PROVE x \in Entries(q)
    BY <1>6 DEF Entries
  <2> QED  BY <1>4, <2>2, <2>3 DEF Entries
<1>8. IsQueue(t)
  BY <1>3, SeqIsQueue
<1> QED  BY <1>4, <1>6, <1>7, <1>8 DEF t, Entries

LEMMA AppendQueue ==
    ASSUME NEW q, NEW e, IsQueue(q)
    PROVE  /\ IsQueue(Append(q, e)) /\ Entries(Append(q, e)) = Entries(q) \union {e}
           /\ \A i, j \in DOMAIN Append(q, e) : i < j =>
                 /\ i \in DOMAIN q /\ Append(q, e)[i] = q[i]
                 /\ \/ j \in DOMAIN q /\ Append(q, e)[j] = q[j]
                    \/ Append(q, e)[j] = e
<1> DEFINE a == Append(q, e)
           S == Entries(q) \union {e}
<1>1. q \in Seq(S) /\ e \in S
  BY DEF IsQueue
<1>2. /\ a \in Seq(S) /\ Len(a) = Len(q) + 1
      /\ \A i \in 1 .. Len(q) : a[i] = q[i]
      /\ a[Len(q) + 1] = e
  BY <1>1, AppendProperties
<1>3. DOMAIN q = 1 .. Len(q) /\ DOMAIN a = 1 .. Len(a) /\ Len(q) \in Nat
  BY <1>1, <1>2
<1>4. IsQueue(a) /\ Entries(a) = S
  BY EnqueuedEntries DEF Enqueued
<1> HIDE DEF a, S
<1>5. ASSUME NEW i \in DOMAIN a, NEW j \in DOMAIN a, i < j
      PROVE  /\ i \in DOMAIN q /\ a[i] = q[i]
             /\ (j \in DOMAIN q /\ a[j] = q[j]) \/ a[j] = e
  <2>1. i \in 1 .. Len(q) /\ (j \in 1 .. Len(q) \/ j = Len(q) + 1)
    BY <1>2, <1>3, <1>5
  <2> QED  BY <1>2, <1>3, <2>1
<1> QED  BY <1>4, <1>5 DEF a, S

\* q without its i-th entry.
LEMMA RemovedQueue ==
    ASSUME NEW q, NEW i \in DOMAIN q, IsQueue(q)
    PROVE  /\ IsQueue(RemoveAt(q, i)) /\ Entries(RemoveAt(q, i)) \subseteq Entries(q)
           /\ \A x \in Entries(q) : x # q[i] => x \in Entries(RemoveAt(q, i))
           /\ \A j, k \in DOMAIN RemoveAt(q, i) : j < k =>
                 \E l, m \in DOMAIN q \ {i} : l < m /\ RemoveAt(q, i)[j] = q[l] /\ RemoveAt(q, i)[k] = q[m]
           /\ \A j \in DOMAIN RemoveAt(q, i) : \E l \in DOMAIN q \ {i} : RemoveAt(q, i)[j] = q[l]
<1> DEFINE S == Entries(q)
           b == SubSeq(q, 1, i - 1)
           c == SubSeq(q, i + 1, Len(q))
           r == b \o c
           n == Len(q)
<1>1. q \in Seq(S) /\ DOMAIN q = 1 .. n /\ n \in Nat /\ i \in 1 .. n
  BY DEF IsQueue
<1>2. \A k \in 1 .. n : q[k] \in S
  BY <1>1
<1>3. b \in Seq(S) /\ Len(b) = i - 1 /\ \A k \in 1 .. i - 1 : b[k] = q[k]
  <2>1. \A k \in 1 .. i - 1 : q[k] \in S
    BY <1>1, <1>2
  <2>2. /\ b \in Seq(S) /\ Len(b) = IF 1 <= i - 1 THEN i - 1 - 1 + 1 ELSE 0
        /\ \A k \in 1 .. i - 1 - 1 + 1 : b[k] = q[1 + k - 1]
    BY <1>1, <2>1, SubSeqProperties
  <2>3. \A k \in 1 .. i - 1 : k \in 1 .. i - 1 - 1 + 1 /\ 1 + k - 1 = k
    BY <1>1
  <2>4. Len(b) = i - 1
    BY <1>1, <2>2
  <2> QED  BY <2>2, <2>3, <2>4
<1>4. c \in Seq(S) /\ Len(c) = n - i /\ \A k \in 1 .. n - i : c[k] = q[i + k]
  <2>1. \A k \in i + 1 .. n : q[k] \in S
    BY <1>1, <1>2
  <2>2. /\ c \in Seq(S) /\ Len(c) = IF i + 1 <= n THEN n - (i + 1) + 1 ELSE 0
        /\ \A k \in 1 .. n - (i + 1) + 1 : c[k] = q[i + 1 + k - 1]
    BY <1>1, <2>1, SubSeqProperties
  <2>3. \A k \in 1 .. n - i : k \in 1 .. n - (i + 1) + 1 /\ i + 1 + k - 1 = i + k
    BY <1>1
  <2>4. Len(c) = n - i
    BY <1>1, <2>2
  <2> QED  BY <2>2, <2>3, <2>4
<1>5. /\ r \in Seq(S) /\ Len(r) = Len(b) + Len(c)
      /\ \A k \in 1 .. Len(b) + Len(c) : r[k] = IF k <= Len(b) THEN b[k] ELSE c[k - Len(b)]
  <2> HIDE DEF b, c
  <2> QED  BY <1>3, <1>4, ConcatProperties
<1> HIDE DEF S, b, c, r, n
<1>6. IsQueue(r) /\ Entries(r) \subseteq S
  BY <1>5, SeqIsQueue
<1>7. DOMAIN r = 1 .. n - 1
  BY <1>1, <1>3, <1>4, <1>5
<1>8. ASSUME NEW k \in 1 .. n - 1 PROVE r[k] = IF k < i THEN q[k] ELSE q[k + 1]
  <2>1. CASE k < i
    BY <1>1, <1>3, <1>4, <1>5, <2>1
  <2>2. CASE ~ k < i
    <3>1. k - (i - 1) \in 1 .. n - i /\ ~ k <= i - 1 /\ k \in 1 .. (i - 1) + (n - i)
      BY <1>1, <2>2
    <3>2. r[k] = c[k - (i - 1)]
      BY <1>3, <1>4, <1>5, <3>1
    <3>3. c[k - (i - 1)] = q[i + (k - (i - 1))]
      BY <1>4, <3>1
    <3>4. i + (k - (i - 1)) = k + 1
      BY <1>1
    <3> QED  BY <2>2, <3>2, <3>3, <3>4
  <2> QED  BY <2>1, <2>2
<1> DEFINE to(k) == IF k < i THEN k ELSE k + 1
<1>9. ASSUME NEW k \in DOMAIN r PROVE to(k) \in DOMAIN q \ {i} /\ r[k] = q[to(k)]
  BY <1>1, <1>7, <1>8
<1>10. ASSUME NEW j \in DOMAIN r, NEW k \in DOMAIN r, j < k PROVE to(j) < to(k)
  BY <1>1, <1>7, <1>10
<1> HIDE DEF to
<1>11. ASSUME NEW x \in Entries(q), x # q[i] PROVE x \in Entries(r)
  <2>1. PICK k \in 1 .. n : x = q[k]
    BY <1>1 DEF Entries
  <2>2. k # i
    BY <1>11, <2>1
  <2>3. CASE k < i
    <3>1. k \in 1 .. n - 1
      BY <1>1, <2>3
    <3> QED  BY <1>7, <1>8, <2>1, <2>3, <3>1 DEF Entries
  <2>4. CASE i < k
    <3>1. k - 1 \in 1 .. n - 1 /\ ~ k - 1 < i /\ (k - 1) + 1 = k
      BY <1>1, <2>4
    <3> QED  BY <1>7, <1>8, <2>1, <3>1 DEF Entries
  <2> QED  BY <1>1, <2>2, <2>3, <2>4
<1>12. RemoveAt(q, i) = r
  BY DEF RemoveAt, r, b, c
<1> HIDE DEF to
<1> QED  BY <1>6, <1>9, <1>10, <1>11, <1>12 DEF S

-----------------------------------------------------------------------------
\* Facts about messages, records and requests.

\* A message is a sender and a number, and no message is NoMessage.
LEMMA MessageFacts ==
    /\ \A m \in Message : m[1] \in Sender /\ m[1] \in Proc /\ m[2] \in Nat /\ m[2] > 0
                          /\ m = <<m[1], m[2]>>
    /\ NoMessage \notin Message
    /\ \A p \in Sender, n \in Nat :
          n < MaxCalls => /\ <<p, n + 1>> \in Message
                          /\ <<p, n + 1>>[1] = p /\ <<p, n + 1>>[2] = n + 1
<1>1. MaxCalls \in Nat /\ Sender \subseteq Proc
  BY BoundAssumption
<1>2. NoMessage \notin Message
  BY DEF NoMessage, Message
<1>3. \A p \in Sender, n \in Nat : n < MaxCalls => n + 1 \in 1 .. MaxCalls
  BY <1>1
<1> QED  BY <1>1, <1>2, <1>3 DEF Message

\* No handle is None or MPI_REQUEST_NULL.
LEMMA HandleFacts == None \notin Handle /\ MPI_REQUEST_NULL \notin Handle /\ None = MPI_REQUEST_NULL
BY BoundAssumption DEF Handle, None, MPI_REQUEST_NULL

\* The parts of a request that say what it is for.
SameIdentity(r, q) ==
    /\ q.kind = r.kind /\ q.msg = r.msg /\ q.peer = r.peer /\ q.proto = r.proto
    /\ q.tag = r.tag /\ q.sender_req_id = r.sender_req_id

\* What else is known of it.
SameFlags(r, q) ==
    /\ q.writing = r.writing /\ q.cancel_pending = r.cancel_pending
    /\ q.cancelled = r.cancelled /\ q.pending = r.pending /\ q.ue = r.ue

WithCounts(r, c, f) == [r EXCEPT !.cc = c, !.ref = f]

\* The next lemmas say which parts of a request each of the model's functions on
\* requests changes, and that its type stays.
LEMMA CountsFacts ==
    ASSUME NEW r \in Request, NEW c \in Int, NEW f \in Int
    PROVE  LET q == WithCounts(r, c, f) IN
           /\ q \in Request /\ SameIdentity(r, q) /\ SameFlags(r, q)
           /\ q.user = r.user /\ q.cc = c /\ q.ref = f
<1> DEFINE q == WithCounts(r, c, f)
<1>1. q \in Request
  BY DEF WithCounts, Request
<1>2. SameIdentity(r, q) /\ SameFlags(r, q)
  BY DEF WithCounts, Request, SameIdentity, SameFlags
<1>3. q.user = r.user /\ q.cc = c /\ q.ref = f
  BY DEF WithCounts, Request
<1> QED  BY <1>1, <1>2, <1>3

LEMMA CompletedFacts ==
    ASSUME NEW r \in Request
    PROVE  /\ Completed(r) \in Request
           /\ SameIdentity(r, Completed(r)) /\ SameFlags(r, Completed(r))
           /\ Completed(r).user = r.user
           /\ Completed(r).cc = r.cc - 1
           /\ Completed(r).ref = IF r.cc = 1 THEN r.ref - 1 ELSE r.ref
<1> DEFINE c == r.cc - 1
           f == IF r.cc = 1 THEN r.ref - 1 ELSE r.ref
<1>1. c \in Int /\ f \in Int
  BY DEF Request
<1>2. Completed(r) = WithCounts(r, c, f)
  BY DEF Completed, WithCounts
<1> HIDE DEF c, f
<1>3. LET q == WithCounts(r, c, f) IN
      /\ q \in Request /\ SameIdentity(r, q) /\ SameFlags(r, q)
      /\ q.user = r.user /\ q.cc = c /\ q.ref = f
  BY <1>1, CountsFacts
<1> QED  BY <1>2, <1>3 DEF c, f

LEMMA ReleasedFacts ==
    ASSUME NEW r \in Request
    PROVE  /\ Released(r) \in Request
           /\ SameIdentity(r, Released(r)) /\ SameFlags(r, Released(r))
           /\ Released(r).user = r.user
           /\ Released(r).cc = r.cc
           /\ Released(r).ref = r.ref - 1
BY DEF Released, Request, SameIdentity, SameFlags

LEMMA UserFacts ==
    ASSUME NEW r \in Request, NEW b \in BOOLEAN
    PROVE  LET q == [r EXCEPT !.user = b] IN
           /\ q \in Request /\ SameIdentity(r, q) /\ SameFlags(r, q)
           /\ q.user = b /\ q.cc = r.cc /\ q.ref = r.ref
BY DEF Request, SameIdentity, SameFlags

LEMMA WritingFacts ==
    ASSUME NEW r \in Request, NEW b \in BOOLEAN
    PROVE  LET q == [r EXCEPT !.writing = b] IN
           /\ q \in Request /\ SameIdentity(r, q)
           /\ q.writing = b /\ q.cancel_pending = r.cancel_pending
           /\ q.cancelled = r.cancelled /\ q.pending = r.pending /\ q.ue = r.ue
           /\ q.user = r.user /\ q.cc = r.cc /\ q.ref = r.ref
BY DEF Request, SameIdentity

LEMMA PendingFacts ==
    ASSUME NEW r \in Request
    PROVE  LET q == [r EXCEPT !.pending = @ - 1] IN
           /\ q \in Request /\ SameIdentity(r, q)
           /\ q.writing = r.writing /\ q.cancel_pending = r.cancel_pending
           /\ q.cancelled = r.cancelled /\ q.pending = r.pending - 1 /\ q.ue = r.ue
           /\ q.user = r.user /\ q.cc = r.cc /\ q.ref = r.ref
BY DEF Request, SameIdentity

Unpacked(r, n, b) == [r EXCEPT !.pending = n, !.ue = b]

LEMMA UnpackedFacts ==
    ASSUME NEW r \in Request, NEW n \in Int, NEW b \in BOOLEAN
    PROVE  LET q == Unpacked(r, n, b) IN
           /\ q \in Request /\ SameIdentity(r, q)
           /\ q.writing = r.writing /\ q.cancel_pending = r.cancel_pending
           /\ q.cancelled = r.cancelled /\ q.pending = n /\ q.ue = b
           /\ q.user = r.user /\ q.cc = r.cc /\ q.ref = r.ref
<1> DEFINE q == Unpacked(r, n, b)
<1>1. q \in Request
  BY DEF Unpacked, Request
<1>2. SameIdentity(r, q)
  BY DEF Unpacked, Request, SameIdentity
<1>3. /\ q.writing = r.writing /\ q.cancel_pending = r.cancel_pending
      /\ q.cancelled = r.cancelled /\ q.pending = n /\ q.ue = b
      /\ q.user = r.user /\ q.cc = r.cc /\ q.ref = r.ref
  BY DEF Unpacked, Request
<1> QED  BY <1>1, <1>2, <1>3

LEMMA KindFacts ==
    ASSUME NEW r \in Request, NEW k \in {"RECV", "MPROBE"}
    PROVE  LET q == [r EXCEPT !.kind = k] IN
           /\ q \in Request /\ SameFlags(r, q)
           /\ q.kind = k /\ q.msg = r.msg /\ q.peer = r.peer /\ q.proto = r.proto
           /\ q.tag = r.tag /\ q.sender_req_id = r.sender_req_id
           /\ q.user = r.user /\ q.cc = r.cc /\ q.ref = r.ref
BY DEF Request, SameFlags

LEMMA ProbeFacts ==
    ASSUME NEW r \in Request
    PROVE  LET q == [r EXCEPT !.user = TRUE, !.kind = "MPROBE"] IN
           /\ q \in Request /\ SameFlags(r, q)
           /\ q.kind = "MPROBE" /\ q.msg = r.msg /\ q.peer = r.peer /\ q.proto = r.proto
           /\ q.tag = r.tag /\ q.sender_req_id = r.sender_req_id
           /\ q.user = TRUE /\ q.cc = r.cc /\ q.ref = r.ref
BY DEF Request, SameFlags

WithOutcome(r, b, c) == [r EXCEPT !.cancelled = b, !.cc = c]

LEMMA CancelledFacts ==
    ASSUME NEW r \in Request, NEW b \in BOOLEAN, NEW c \in Int
    PROVE  LET q == WithOutcome(r, b, c) IN
           /\ q \in Request /\ SameIdentity(r, q)
           /\ q.writing = r.writing /\ q.cancel_pending = r.cancel_pending
           /\ q.cancelled = b /\ q.pending = r.pending /\ q.ue = r.ue
           /\ q.user = r.user /\ q.cc = c /\ q.ref = r.ref
<1> DEFINE q == WithOutcome(r, b, c)
<1>1. q \in Request
  BY DEF WithOutcome, Request
<1>2. SameIdentity(r, q)
  BY DEF WithOutcome, Request, SameIdentity
<1>3. /\ q.writing = r.writing /\ q.cancel_pending = r.cancel_pending
      /\ q.cancelled = b /\ q.pending = r.pending /\ q.ue = r.ue
      /\ q.user = r.user /\ q.cc = c /\ q.ref = r.ref
  BY DEF WithOutcome, Request
<1> QED  BY <1>1, <1>2, <1>3

WithCancel(r, c, f) == [r EXCEPT !.cancel_pending = TRUE, !.cc = c, !.ref = f]

LEMMA AwaitingFacts ==
    ASSUME NEW r \in Request, NEW c \in Int, NEW f \in Int
    PROVE  LET q == WithCancel(r, c, f) IN
           /\ q \in Request /\ SameIdentity(r, q)
           /\ q.writing = r.writing /\ q.cancel_pending /\ q.cancelled = r.cancelled
           /\ q.user = r.user /\ q.cc = c /\ q.ref = f
<1> DEFINE q == WithCancel(r, c, f)
<1>1. q \in Request
  BY DEF WithCancel, Request
<1>2. SameIdentity(r, q)
  BY DEF WithCancel, Request, SameIdentity
<1>3. /\ q.writing = r.writing /\ q.cancel_pending /\ q.cancelled = r.cancelled
      /\ q.user = r.user /\ q.cc = c /\ q.ref = f
  BY DEF WithCancel, Request
<1> QED  BY <1>1, <1>2, <1>3

LEMMA AwaitingAnswerFacts ==
    ASSUME NEW r \in Request
    PROVE  LET q == AwaitingAnswer(r) IN
           /\ q \in Request /\ SameIdentity(r, q)
           /\ q.writing = r.writing /\ q.cancel_pending /\ q.cancelled = r.cancelled
           /\ q.user = r.user /\ q.cc = r.cc + 1
           /\ q.ref = IF r.cc = 0 THEN r.ref + 1 ELSE r.ref
<1> DEFINE c == r.cc + 1
           f == IF r.cc = 0 THEN r.ref + 1 ELSE r.ref
<1>1. c \in Int /\ f \in Int
  BY DEF Request
<1>2. AwaitingAnswer(r) = WithCancel(r, c, f)
  BY DEF AwaitingAnswer, WithCancel
<1> HIDE DEF c, f
<1>3. LET q == WithCancel(r, c, f) IN
      /\ q \in Request /\ SameIdentity(r, q)
      /\ q.writing = r.writing /\ q.cancel_pending /\ q.cancelled = r.cancelled
      /\ q.user = r.user /\ q.cc = c /\ q.ref = f
  BY <1>1, AwaitingFacts
<1> QED  BY <1>1, <1>2, <1>3 DEF c, f

LEMMA AnsweredFacts ==
    ASSUME NEW r \in Request, NEW ack \in BOOLEAN, NEW c,
           ack /\ r.proto \in Waits => c = r.cc - 1,
           ~ (ack /\ r.proto \in Waits) => c = r.cc
    PROVE  LET q == Answered(r, ack) IN
           /\ q \in Request /\ SameIdentity(r, q)
           /\ q.writing = r.writing /\ q.cancel_pending = r.cancel_pending
           /\ q.cancelled = ack
           /\ q.user = r.user /\ q.cc = c - 1
           /\ q.ref = IF c = 1 THEN r.ref - 1 ELSE r.ref
<1> DEFINE s == WithOutcome(r, ack, c)
<1>1. c \in Int
  BY DEF Request
<1>2. /\ s \in Request /\ SameIdentity(r, s)
      /\ s.writing = r.writing /\ s.cancel_pending = r.cancel_pending
      /\ s.cancelled = ack /\ s.user = r.user /\ s.cc = c /\ s.ref = r.ref
  BY <1>1, CancelledFacts
<1>3. Answered(r, ack) = Completed(s)
  BY DEF Answered, Waits, WithOutcome
<1> HIDE DEF s
<1>4. /\ Completed(s) \in Request
      /\ SameIdentity(s, Completed(s)) /\ SameFlags(s, Completed(s))
      /\ Completed(s).user = s.user /\ Completed(s).cc = s.cc - 1
      /\ Completed(s).ref = IF s.cc = 1 THEN s.ref - 1 ELSE s.ref
  BY <1>2, CompletedFacts
<1>5. SameIdentity(r, Completed(s))
  BY <1>2, <1>4 DEF SameIdentity
<1> QED  BY <1>2, <1>3, <1>4, <1>5 DEF SameFlags

LEMMA WithEnvelopeFacts ==
    ASSUME NEW r \in Request, NEW pkt, pkt.proto \in Kind, pkt.msg \in Message,
           pkt.match.rank \in Proc, pkt.sender_req_id \in Handle \union {MPI_REQUEST_NULL}
    PROVE  LET q == WithEnvelope(r, pkt) IN
           /\ q \in Request /\ SameFlags(r, q)
           /\ q.kind = r.kind /\ q.msg = pkt.msg /\ q.peer = pkt.match.rank
           /\ q.proto = pkt.proto /\ q.sender_req_id = pkt.sender_req_id
           /\ q.user = r.user /\ q.cc = r.cc /\ q.ref = r.ref
BY DEF WithEnvelope, Request, SameFlags

LEMMA UnusedFacts ==
    /\ Unused \in Request /\ Unused.kind = "none" /\ Unused.ref = 0 /\ Unused.cc = 0
    /\ Unused.user = FALSE /\ Unused.cancel_pending = FALSE /\ Unused.writing = FALSE
    /\ Unused.msg = NoMessage
BY DEF Unused, Request, NoMessage

AsReceive(r, k, f, c, n) == [r EXCEPT !.kind = k, !.ref = f, !.cc = c, !.pending = n]

LEMMA AsReceiveFacts ==
    ASSUME NEW r \in Request, NEW k \in {"RECV"}, NEW f \in Int, NEW c \in Int, NEW n \in Int
    PROVE  LET q == AsReceive(r, k, f, c, n) IN
           /\ q \in Request /\ q.kind = k /\ q.ref = f /\ q.cc = c
           /\ q.user = r.user /\ q.cancel_pending = r.cancel_pending /\ q.msg = r.msg
           /\ q.pending = n /\ q.ue = r.ue /\ q.writing = r.writing
<1> DEFINE q == AsReceive(r, k, f, c, n)
<1>1. q \in Request
  BY DEF AsReceive, Request
<1>2. /\ q.kind = k /\ q.ref = f /\ q.cc = c
      /\ q.user = r.user /\ q.cancel_pending = r.cancel_pending /\ q.msg = r.msg
      /\ q.pending = n /\ q.ue = r.ue /\ q.writing = r.writing
  BY DEF AsReceive, Request
<1> QED  BY <1>1, <1>2

LEMMA NewRecvFacts ==
    /\ NewRecv \in Request /\ NewRecv.kind = "RECV" /\ NewRecv.ref = 2 /\ NewRecv.cc = 1
    /\ NewRecv.user = FALSE /\ NewRecv.cancel_pending = FALSE /\ NewRecv.msg = NoMessage
    /\ NewRecv.pending = 1 /\ NewRecv.ue = FALSE /\ NewRecv.writing = FALSE
<1>1. NewRecv = AsReceive(Unused, "RECV", 2, 1, 1)
  BY DEF NewRecv, AsReceive
<1>2. LET q == AsReceive(Unused, "RECV", 2, 1, 1) IN
      /\ q \in Request /\ q.kind = "RECV" /\ q.ref = 2 /\ q.cc = 1
      /\ q.user = Unused.user /\ q.cancel_pending = Unused.cancel_pending /\ q.msg = Unused.msg
      /\ q.pending = 1 /\ q.ue = Unused.ue /\ q.writing = Unused.writing
  BY UnusedFacts, AsReceiveFacts
<1>3. Unused.ue = FALSE
  BY DEF Unused
<1> QED  BY <1>1, <1>2, <1>3, UnusedFacts

AsSend(r, f, x, c, d, tag, m, w) ==
    [r EXCEPT !.kind = "SEND", !.ref = f, !.user = TRUE, !.proto = x, !.cc = c,
              !.peer = d, !.tag = tag, !.msg = m, !.writing = w]

LEMMA AsSendFacts ==
    ASSUME NEW r \in Request, NEW f \in Int, NEW x \in Kind, NEW c \in Int, NEW d \in Proc, NEW tag \in Tag, NEW m \in Message,
           NEW w \in BOOLEAN
    PROVE  LET q == AsSend(r, f, x, c, d, tag, m, w) IN
           /\ q \in Request /\ q.kind = "SEND" /\ q.ref = f /\ q.user
           /\ q.proto = x /\ q.peer = d /\ q.tag = tag /\ q.msg = m
           /\ q.cc = c /\ (q.writing <=> w)
           /\ q.cancel_pending = r.cancel_pending /\ q.cancelled = r.cancelled
<1> DEFINE q == AsSend(r, f, x, c, d, tag, m, w)
<1>1. q \in Request
  BY Zenon DEF AsSend, Request
<1>2. /\ q.kind = "SEND" /\ q.ref = f /\ q.user
      /\ q.proto = x /\ q.peer = d /\ q.tag = tag /\ q.msg = m
      /\ q.cc = c /\ (q.writing <=> w)
      /\ q.cancel_pending = r.cancel_pending /\ q.cancelled = r.cancelled
  BY DEF AsSend, Request
<1> QED  BY <1>1, <1>2

LEMMA NewSendFacts ==
    ASSUME NEW d \in Proc, NEW tag \in Tag, NEW kind \in Kind, NEW m \in Message
    PROVE  LET q == NewSend(d, tag, kind, m) IN
           /\ q \in Request /\ q.kind = "SEND" /\ q.ref = 2 /\ q.user
           /\ q.proto = kind /\ q.peer = d /\ q.tag = tag /\ q.msg = m
           /\ q.cc = (IF kind = "sync" THEN 2 ELSE 1) /\ (q.writing <=> kind # "rndv")
           /\ ~ q.cancel_pending /\ ~ q.cancelled
<1> DEFINE c == IF kind = "sync" THEN 2 ELSE 1
           w == kind # "rndv"
           q == AsSend(Unused, 2, kind, c, d, tag, m, w)
<1>1. NewSend(d, tag, kind, m) = q
  BY DEF NewSend, AsSend
<1>2. c \in Int /\ w \in BOOLEAN
  OBVIOUS
<1> HIDE DEF c, w
<1>3. /\ q \in Request /\ q.kind = "SEND" /\ q.ref = 2 /\ q.user
      /\ q.proto = kind /\ q.peer = d /\ q.tag = tag /\ q.msg = m
      /\ q.cc = c /\ (q.writing <=> w)
      /\ q.cancel_pending = Unused.cancel_pending /\ q.cancelled = Unused.cancelled
  BY <1>2, UnusedFacts, AsSendFacts
<1>4. ~ Unused.cancel_pending /\ ~ Unused.cancelled
  BY DEF Unused
<1> QED  BY <1>1, <1>2, <1>3, <1>4 DEF c, w

-----------------------------------------------------------------------------
\* A step changes the request h of p alone.
OnlyRequest(p, h) ==
    \A o \in Proc, g \in Handle : o # p \/ g # h => request'[o][g] = request[o][g]

FreeOK(p) ==
    /\ \A i \in DOMAIN avail[p] : request[p][avail[p][i]].kind = "none"
    /\ \A i, j \in DOMAIN avail[p] : i < j => avail[p][i] # avail[p][j]

\* The next lemmas say what a step does to the requests of all processes.
LEMMA RequestUpdate ==
    ASSUME TypeInv, NEW p \in Proc, NEW h \in Handle, NEW r \in Request,
           request' = [request EXCEPT ![p][h] = r]
    PROVE  /\ request' \in [Proc -> [Handle -> Request]]
           /\ request'[p][h] = r /\ OnlyRequest(p, h)
<1>1. request \in [Proc -> [Handle -> Request]]
  BY DEF TypeInv
<1> QED  BY <1>1 DEF OnlyRequest

LEMMA PutFacts ==
    ASSUME TypeInv, FreeInv, NEW p \in Proc, NEW h \in Handle, NEW r \in Request,
           request[p][h].kind # "none", r.kind # "none" \/ r.ref = 0, Put(p, h, r)
    PROVE  /\ request' \in [Proc -> [Handle -> Request]]
           /\ request'[p][h] = IF r.ref = 0 THEN Unused ELSE r
           /\ OnlyRequest(p, h)
           /\ avail' \in [Proc -> Seq(Handle)]
           /\ FreeInv'
<1> DEFINE n == IF r.ref = 0 THEN Unused ELSE r
<1>1. n \in Request /\ request' = [request EXCEPT ![p][h] = n]
  BY UnusedFacts DEF Put
<1>2. request' \in [Proc -> [Handle -> Request]] /\ request'[p][h] = n /\ OnlyRequest(p, h)
  BY <1>1, RequestUpdate
<1> HIDE DEF n
<1>3. avail \in [Proc -> Seq(Handle)] /\ avail[p] \in Seq(Handle)
  BY DEF TypeInv
<1>4. ASSUME NEW i \in DOMAIN avail[p] PROVE avail[p][i] \in Handle /\ avail[p][i] # h
  BY <1>3 DEF FreeInv
<1>5. ASSUME NEW o \in Proc, o # p PROVE avail'[o] = avail[o] /\ \A g \in Handle : request'[o][g] = request[o][g]
  BY <1>2, <1>3, <1>5 DEF Put, OnlyRequest
<1>6. CASE r.ref # 0
  <2>1. avail' = avail
    BY <1>3, <1>6 DEF Put
  <2>2. ASSUME NEW o \in Proc, NEW i \in DOMAIN avail'[o] PROVE request'[o][avail'[o][i]].kind = "none"
    <3>1. avail[o][i] \in Handle /\ request[o][avail[o][i]].kind = "none"
      BY <1>3, <2>1, <2>2 DEF FreeInv
    <3>2. o # p \/ avail[o][i] # h
      BY <1>4, <2>1, <2>2
    <3> QED  BY <1>2, <2>1, <3>1, <3>2 DEF OnlyRequest
  <2>3. FreeInv'
    BY <2>1, <2>2 DEF FreeInv
  <2> QED  BY <1>2, <1>3, <2>1, <2>3 DEF n
<1>7. CASE r.ref = 0
  <2> DEFINE a == <<h>> \o avail[p]
             b == <<h>>
  <2>1. avail' = [avail EXCEPT ![p] = a]
    BY <1>7 DEF Put
  <2>2. b \in Seq(Handle) /\ Len(b) = 1 /\ b[1] = h
    OBVIOUS
  <2>3. /\ a \in Seq(Handle) /\ Len(a) = 1 + Len(avail[p])
        /\ \A i \in 1 .. 1 + Len(avail[p]) : a[i] = IF i <= 1 THEN b[i] ELSE avail[p][i - 1]
    <3> HIDE DEF b
    <3> QED  BY <1>3, <2>2, ConcatProperties DEF a, b
  <2> HIDE DEF a, b
  <2>4. avail' \in [Proc -> Seq(Handle)] /\ avail'[p] = a
    BY <1>3, <2>1, <2>3
  <2>5. DOMAIN a = 1 .. Len(a) /\ DOMAIN avail[p] = 1 .. Len(avail[p]) /\ Len(avail[p]) \in Nat
    BY <1>3, <2>3
  <2>6. \A i \in DOMAIN a : (i = 1 /\ a[i] = h) \/ (i - 1 \in DOMAIN avail[p] /\ a[i] = avail[p][i - 1])
    BY <2>2, <2>3, <2>5
  <2>7. n.kind = "none"
    BY <1>7, UnusedFacts DEF n
  <2>8. ASSUME NEW i \in DOMAIN a PROVE request'[p][a[i]].kind = "none"
    <3>1. CASE a[i] = h
      BY <1>2, <2>7, <3>1
    <3>2. CASE i - 1 \in DOMAIN avail[p] /\ a[i] = avail[p][i - 1]
      <4>1. a[i] \in Handle /\ a[i] # h /\ request[p][a[i]].kind = "none"
        BY <1>4, <3>2 DEF FreeInv
      <4> QED  BY <1>2, <4>1 DEF OnlyRequest
    <3> QED  BY <2>6, <3>1, <3>2
  <2>9. ASSUME NEW i \in DOMAIN a, NEW j \in DOMAIN a, i < j PROVE a[i] # a[j]
    <3>1. j # 1 /\ j - 1 \in DOMAIN avail[p] /\ a[j] = avail[p][j - 1] /\ a[j] # h
      BY <1>4, <2>5, <2>6, <2>9
    <3>2. CASE i = 1
      BY <2>5, <2>6, <3>1, <3>2
    <3>3. CASE i # 1
      <4>1. i - 1 \in DOMAIN avail[p] /\ a[i] = avail[p][i - 1] /\ i - 1 < j - 1
        BY <2>5, <2>6, <2>9, <3>3
      <4> QED  BY <3>1, <4>1 DEF FreeInv
    <3> QED  BY <3>2, <3>3
  <2>10. ASSUME NEW o \in Proc, o # p PROVE FreeOK(o)'
    <3>1. avail'[o] = avail[o] /\ avail[o] \in Seq(Handle) /\ \A g \in Handle : request'[o][g] = request[o][g]
      BY <1>3, <1>5, <2>10
    <3>2. \A i \in DOMAIN avail[o] : avail[o][i] \in Handle
      BY <3>1
    <3> QED  BY <3>1, <3>2 DEF FreeInv, FreeOK
  <2>11. FreeOK(p)'
    BY <2>4, <2>8, <2>9 DEF FreeOK
  <2>12. FreeInv'
    BY <2>10, <2>11 DEF FreeInv, FreeOK
  <2> QED  BY <1>2, <2>4, <2>12 DEF n
<1> QED  BY <1>6, <1>7

LEMMA AllocFacts ==
    ASSUME TypeInv, FreeInv, NEW p \in Proc, NEW h \in Handle, NEW r \in Request,
           Alloc(p, h, r)
    PROVE  /\ request' \in [Proc -> [Handle -> Request]]
           /\ request[p][h].kind = "none" /\ request'[p][h] = r
           /\ OnlyRequest(p, h)
           /\ avail' \in [Proc -> Seq(Handle)]
           /\ FreeInv'
<1> DEFINE t == Tail(avail[p])
<1>1. request' \in [Proc -> [Handle -> Request]] /\ request'[p][h] = r /\ OnlyRequest(p, h)
  BY RequestUpdate DEF Alloc
<1>2. avail \in [Proc -> Seq(Handle)] /\ avail[p] \in Seq(Handle)
  BY DEF TypeInv
<1>3. avail[p] # <<>> /\ h = Head(avail[p]) /\ avail' = [avail EXCEPT ![p] = t]
  BY DEF Alloc
<1>4. t \in Seq(Handle) /\ Len(t) = Len(avail[p]) - 1 /\ \A i \in 1 .. Len(t) : t[i] = avail[p][i + 1]
  BY <1>2, <1>3, HeadTailProperties
<1>5. h = avail[p][1] /\ Len(avail[p]) \in Nat /\ Len(avail[p]) # 0 /\ DOMAIN avail[p] = 1 .. Len(avail[p])
  BY <1>2, <1>3
<1> HIDE DEF t
<1>6. DOMAIN t = 1 .. Len(t)
  BY <1>4
<1>7. 1 \in DOMAIN avail[p] /\ \A i \in DOMAIN t : i + 1 \in DOMAIN avail[p] /\ t[i] = avail[p][i + 1] /\ 1 < i + 1
  BY <1>4, <1>5, <1>6
<1>8. avail' \in [Proc -> Seq(Handle)] /\ avail'[p] = t
  BY <1>2, <1>3, <1>4
<1>9. request[p][h].kind = "none"
  BY <1>5, <1>7 DEF FreeInv
<1>10. \A i \in DOMAIN t : t[i] \in Handle /\ t[i] # h
  BY <1>4, <1>5, <1>6, <1>7 DEF FreeInv
<1>11. \A i \in DOMAIN t : request'[p][t[i]].kind = "none"
  BY <1>1, <1>7, <1>10 DEF FreeInv, OnlyRequest
<1>12. ASSUME NEW i \in DOMAIN t, NEW j \in DOMAIN t, i < j PROVE t[i] # t[j]
  <2>1. i + 1 < j + 1
    BY <1>4, <1>6, <1>12
  <2> QED  BY <1>7, <2>1 DEF FreeInv
<1>13. FreeOK(p)'
  BY <1>8, <1>11, <1>12 DEF FreeOK
<1>14. ASSUME NEW o \in Proc, o # p PROVE FreeOK(o)'
  <2>1. avail'[o] = avail[o] /\ avail[o] \in Seq(Handle) /\ \A g \in Handle : request'[o][g] = request[o][g]
    BY <1>1, <1>2, <1>3, <1>14 DEF OnlyRequest
  <2>2. \A i \in DOMAIN avail[o] : avail[o][i] \in Handle
    BY <2>1
  <2> QED  BY <2>1, <2>2 DEF FreeInv, FreeOK
<1> QED  BY <1>1, <1>8, <1>9, <1>13, <1>14 DEF FreeInv, FreeOK

\* No request changes.
LEMMA SameFree ==
    ASSUME FreeInv, request' = request, avail' = avail
    PROVE  FreeInv'
BY DEF FreeInv

-----------------------------------------------------------------------------
\* How a step changes the packets on the connections.

Ordered(q) == \A i, j \in DOMAIN q : i < j => NetBefore(q[i], q[j])

\* The next lemmas say what a step does to the packets on every connection, and
\* that the connections stay ordered.
LEMMA TailOrdered ==
    ASSUME NEW q, IsQueue(q), q # <<>>, Ordered(q)
    PROVE  /\ IsQueue(Tail(q)) /\ Ordered(Tail(q)) /\ Head(q) \in Entries(q)
           /\ Entries(Tail(q)) = Entries(q) \ {Head(q)}
           /\ \A x \in Entries(Tail(q)) : NetBefore(Head(q), x)
<1> DEFINE t == Tail(q)
<1>1. /\ IsQueue(t) /\ Head(q) \in Entries(q)
      /\ Entries(q) = Entries(t) \union {Head(q)}
      /\ \A i \in DOMAIN t : i \in Nat /\ 1 \in DOMAIN q /\ i + 1 \in DOMAIN q /\ 1 < i + 1
                             /\ t[i] = q[i + 1] /\ Head(q) = q[1]
  BY TailQueue
<1> HIDE DEF t
<1>2. \A x \in Entries(t) : NetBefore(Head(q), x)
  BY <1>1 DEF Ordered, Entries
<1>3. Head(q) \notin Entries(t)
  BY <1>2 DEF NetBefore
<1>4. ASSUME NEW i \in DOMAIN t, NEW j \in DOMAIN t, i < j PROVE NetBefore(t[i], t[j])
  <2>1. i + 1 < j + 1
    BY <1>1, <1>4
  <2> QED  BY <1>1, <2>1 DEF Ordered
<1> QED  BY <1>1, <1>2, <1>3, <1>4 DEF t, Ordered

LEMMA AppendOrdered ==
    ASSUME NEW q, NEW e, IsQueue(q), Ordered(q), \A x \in Entries(q) : NetBefore(x, e)
    PROVE  /\ IsQueue(Append(q, e)) /\ Ordered(Append(q, e))
           /\ Entries(Append(q, e)) = Entries(q) \union {e}
<1> DEFINE a == Append(q, e)
<1>1. /\ IsQueue(a) /\ Entries(a) = Entries(q) \union {e}
      /\ \A i, j \in DOMAIN a : i < j =>
            /\ i \in DOMAIN q /\ a[i] = q[i]
            /\ \/ j \in DOMAIN q /\ a[j] = q[j]
               \/ a[j] = e
  BY AppendQueue
<1> HIDE DEF a
<1>2. Ordered(a)
  BY <1>1 DEF Ordered, Entries
<1> QED  BY <1>1, <1>2 DEF a

LEMMA EmitFacts ==
    ASSUME NetOK, NetOrder, NEW s \in Proc, NEW d \in Proc, NEW k, Emit(s, d, k),
           \A x \in Packets(s, d) : NetBefore(x, k)
    PROVE  /\ NetOK' /\ NetOrder'
           /\ \A a, b \in Proc :
                 Packets(a, b)' = IF a = s /\ b = d THEN Packets(a, b) \union {k}
                                                    ELSE Packets(a, b)
<1> DEFINE q == Append(net[s][d], k)
<1>1. IsQueue(q) /\ Ordered(q) /\ Entries(q) = Packets(s, d) \union {k}
  BY AppendOrdered DEF NetOK, NetOrder, Ordered, Packets
<1>2. net' = [net EXCEPT ![s][d] = q]
  BY DEF Emit
<1> HIDE DEF q
<1>3. /\ net' = [a \in Proc |-> [b \in Proc |-> net'[a][b]]]
      /\ \A a, b \in Proc : net'[a][b] = IF a = s /\ b = d THEN q ELSE net[a][b]
  BY <1>2 DEF NetOK
<1>4. NetOK'
  BY <1>1, <1>3 DEF NetOK
<1>5. NetOrder'
  BY <1>1, <1>3 DEF NetOrder, Ordered
<1> QED  BY <1>1, <1>3, <1>4, <1>5 DEF Packets

LEMMA ConsumeFacts ==
    ASSUME NetOK, NetOrder, NEW s \in Proc, NEW d \in Proc, NEW k,
           net[s][d] # <<>>, k = Head(net[s][d]), Consume(s, d)
    PROVE  /\ NetOK' /\ NetOrder' /\ k \in Packets(s, d)
           /\ \A a, b \in Proc :
                 Packets(a, b)' = IF a = s /\ b = d THEN Packets(a, b) \ {k}
                                                    ELSE Packets(a, b)
           /\ \A x \in Packets(s, d) : x # k => NetBefore(k, x)
<1> DEFINE q == Tail(net[s][d])
<1>1. /\ IsQueue(q) /\ Ordered(q) /\ Entries(q) = Packets(s, d) \ {k} /\ k \in Packets(s, d)
      /\ \A x \in Entries(q) : NetBefore(k, x)
  BY TailOrdered DEF NetOK, NetOrder, Ordered, Packets
<1>2. net' = [net EXCEPT ![s][d] = q]
  BY DEF Consume
<1> HIDE DEF q
<1>3. /\ net' = [a \in Proc |-> [b \in Proc |-> net'[a][b]]]
      /\ \A a, b \in Proc : net'[a][b] = IF a = s /\ b = d THEN q ELSE net[a][b]
  BY <1>2, ZenonT(30) DEF NetOK
<1>4. NetOK'
  BY <1>1, <1>3 DEF NetOK
<1>5. NetOrder'
  BY <1>1, <1>3 DEF NetOrder, Ordered
<1> QED  BY <1>1, <1>3, <1>4, <1>5 DEF Packets

LEMMA ReplyFacts ==
    ASSUME NetOK, NetOrder, NEW s \in Proc, NEW d \in Proc, s # d, NEW k, NEW l,
           net[s][d] # <<>>, k = Head(net[s][d]), Reply(s, d, l),
           \A x \in Packets(d, s) : NetBefore(x, l)
    PROVE  /\ NetOK' /\ NetOrder' /\ k \in Packets(s, d)
           /\ \A a, b \in Proc :
                 Packets(a, b)' = IF a = s /\ b = d THEN Packets(a, b) \ {k}
                                  ELSE IF a = d /\ b = s THEN Packets(a, b) \union {l}
                                  ELSE Packets(a, b)
           /\ \A x \in Packets(s, d) : x # k => NetBefore(k, x)
<1> DEFINE q == Tail(net[s][d])
           t == Append(net[d][s], l)
<1>1. /\ IsQueue(q) /\ Ordered(q) /\ Entries(q) = Packets(s, d) \ {k} /\ k \in Packets(s, d)
      /\ \A x \in Entries(q) : NetBefore(k, x)
  BY TailOrdered DEF NetOK, NetOrder, Ordered, Packets
<1>2. IsQueue(t) /\ Ordered(t) /\ Entries(t) = Packets(d, s) \union {l}
  BY AppendOrdered DEF NetOK, NetOrder, Ordered, Packets
<1>3. net' = [net EXCEPT ![s][d] = q, ![d][s] = t]
  BY DEF Reply, NetOK
<1> HIDE DEF q, t
<1> DEFINE n == [net EXCEPT ![s][d] = q]
<1>4. /\ net' = [a \in Proc |-> [b \in Proc |-> net'[a][b]]]
      /\ \A a, b \in Proc : net'[a][b] = IF a = s /\ b = d THEN q
                                         ELSE IF a = d /\ b = s THEN t ELSE net[a][b]
  <2>1. n = [a \in Proc |-> [b \in Proc |-> IF a = s /\ b = d THEN q ELSE net[a][b]]]
    BY DEF NetOK
  <2>2. net' = [n EXCEPT ![d][s] = t]
    BY <1>3
  <2> HIDE DEF n
  <2> QED  BY <2>1, <2>2
<1>5. NetOK'
  BY <1>1, <1>2, <1>4 DEF NetOK
<1>6. NetOrder'
  BY <1>1, <1>2, <1>4 DEF NetOrder, Ordered
<1> QED  BY <1>1, <1>2, <1>4, <1>5, <1>6 DEF Packets

LEMMA SameNet ==
    ASSUME NetOK, NetOrder, net' = net
    PROVE  NetOK' /\ NetOrder' /\ \A a, b \in Proc : Packets(a, b)' = Packets(a, b)
BY DEF NetOK, NetOrder, Packets

-----------------------------------------------------------------------------
\* How a step changes the messages and the receives that wait.

SameMessage(d, x) == request'[d][x.rreq].msg = request[d][x.rreq].msg

\* The next lemmas say what a step does to the entries of the queues.
LEMMA MessagesSame ==
    ASSUME QueueOrder, unexpected' = unexpected,
           \A d \in Proc : \A x \in Messages(d) : SameMessage(d, x)
    PROVE  QueueOrder' /\ \A d \in Proc : Messages(d)' = Messages(d)
BY DEF QueueOrder, QueueBefore, SameMessage, Messages, Entries

\* QueueBefore after the step, of two given entries.
NextBefore(d, a, b) ==
    /\ a.rreq # b.rreq
    /\ a.match.rank = b.match.rank => request'[d][a.rreq].msg[2] < request'[d][b.rreq].msg[2]

LEMMA MessagesGrow ==
    ASSUME QueuesOK, QueueOrder, NEW d \in Proc, NEW e,
           unexpected' = [unexpected EXCEPT ![d] = Enqueued(@, e)],
           \A o \in Proc : \A x \in Messages(o) : SameMessage(o, x),
           \A x \in Messages(d) : NextBefore(d, x, e)
    PROVE  /\ QueueOrder'
           /\ \A o \in Proc : Messages(o)' = IF o = d THEN Messages(o) \union {e} ELSE Messages(o)
<1> DEFINE q == Append(unexpected[d], e)
<1>1. /\ IsQueue(q) /\ Entries(q) = Messages(d) \union {e}
      /\ \A i, j \in DOMAIN q : i < j =>
            /\ i \in DOMAIN unexpected[d] /\ q[i] = unexpected[d][i]
            /\ \/ j \in DOMAIN unexpected[d] /\ q[j] = unexpected[d][j]
               \/ q[j] = e
  BY AppendQueue DEF QueuesOK, Messages
<1>2. unexpected' = [unexpected EXCEPT ![d] = q]
  BY DEF Enqueued
<1> HIDE DEF q
<1>3. \A o \in Proc : unexpected'[o] = IF o = d THEN q ELSE unexpected[o]
  BY <1>2 DEF QueuesOK
<1>4. ASSUME NEW o \in Proc, NEW i \in DOMAIN unexpected[o], NEW j \in DOMAIN unexpected[o], i < j
      PROVE  NextBefore(o, unexpected[o][i], unexpected[o][j])
  <2>1. SameMessage(o, unexpected[o][i]) /\ SameMessage(o, unexpected[o][j])
    BY DEF Messages, Entries
  <2>2. QueueBefore(o, unexpected[o][i], unexpected[o][j])
    BY <1>4 DEF QueueOrder
  <2> QED  BY <2>1, <2>2 DEF QueueBefore, NextBefore, SameMessage
<1>5. ASSUME NEW i \in DOMAIN q, NEW j \in DOMAIN q, i < j
      PROVE  NextBefore(d, q[i], q[j])
  <2>1. i \in DOMAIN unexpected[d] /\ q[i] = unexpected[d][i] /\ q[i] \in Messages(d)
    BY <1>1, <1>5 DEF Messages, Entries
  <2>2. CASE q[j] = e
    BY <2>1, <2>2
  <2>3. CASE j \in DOMAIN unexpected[d] /\ q[j] = unexpected[d][j]
    BY <1>4, <1>5, <2>1, <2>3
  <2> QED  BY <1>1, <1>5, <2>2, <2>3
<1>6. ASSUME NEW o \in Proc, NEW i \in DOMAIN unexpected'[o], NEW j \in DOMAIN unexpected'[o], i < j
      PROVE  NextBefore(o, unexpected'[o][i], unexpected'[o][j])
  BY <1>3, <1>4, <1>5, <1>6
<1>7. QueueOrder'
  BY <1>6 DEF QueueOrder, QueueBefore, NextBefore
<1> QED  BY <1>1, <1>3, <1>7 DEF Messages

LEMMA MessagesShrink ==
    ASSUME QueuesOK, QueueOrder, NEW d \in Proc, NEW i \in DOMAIN unexpected[d], NEW e,
           e = unexpected[d][i],
           unexpected' = [unexpected EXCEPT ![d] = RemoveAt(@, i)],
           \A o \in Proc : \A x \in Messages(o) : o # d \/ x # e => SameMessage(o, x)
    PROVE  /\ QueueOrder' /\ e \in Messages(d)
           /\ \A o \in Proc : Messages(o)' = IF o = d THEN Messages(o) \ {e} ELSE Messages(o)
<1> DEFINE q == RemoveAt(unexpected[d], i)
<1>1. /\ IsQueue(q) /\ Entries(q) \subseteq Entries(unexpected[d])
      /\ \A x \in Entries(unexpected[d]) : x # unexpected[d][i] => x \in Entries(q)
      /\ \A j, k \in DOMAIN q : j < k =>
            \E l, m \in DOMAIN unexpected[d] \ {i} : l < m /\ q[j] = unexpected[d][l] /\ q[k] = unexpected[d][m]
      /\ \A j \in DOMAIN q : \E l \in DOMAIN unexpected[d] \ {i} : q[j] = unexpected[d][l]
  BY RemovedQueue DEF QueuesOK
<1>2. unexpected' = [unexpected EXCEPT ![d] = q]
  OBVIOUS
<1> HIDE DEF q
<1>3. \A o \in Proc : unexpected'[o] = IF o = d THEN q ELSE unexpected[o]
  BY <1>2 DEF QueuesOK
<1>4. ASSUME NEW l \in DOMAIN unexpected[d], l # i PROVE unexpected[d][l] # e
  <2>1. \A a \in DOMAIN unexpected[d] : a \in Nat
    <3>1. unexpected[d] \in Seq(Entries(unexpected[d]))
      BY DEF QueuesOK, IsQueue
    <3> QED  BY <3>1
  <2>2. l < i \/ i < l
    BY <1>4, <2>1
  <2>3. QueueBefore(d, unexpected[d][l], unexpected[d][i]) \/ QueueBefore(d, unexpected[d][i], unexpected[d][l])
    BY <2>2 DEF QueueOrder
  <2> QED  BY <2>3 DEF QueueBefore
<1>5. Entries(q) = Messages(d) \ {e} /\ e \in Messages(d)
  BY <1>1, <1>4 DEF Messages, Entries
<1>6. ASSUME NEW o \in Proc, NEW j \in DOMAIN unexpected[o], NEW k \in DOMAIN unexpected[o], j < k,
             o # d \/ (j # i /\ k # i)
      PROVE  NextBefore(o, unexpected[o][j], unexpected[o][k])
  <2>1. SameMessage(o, unexpected[o][j]) /\ SameMessage(o, unexpected[o][k])
    BY <1>4, <1>6 DEF Messages, Entries
  <2>2. QueueBefore(o, unexpected[o][j], unexpected[o][k])
    BY <1>6 DEF QueueOrder
  <2> QED  BY <2>1, <2>2 DEF QueueBefore, NextBefore, SameMessage
<1>7. ASSUME NEW o \in Proc, NEW j \in DOMAIN unexpected'[o], NEW k \in DOMAIN unexpected'[o], j < k
      PROVE  NextBefore(o, unexpected'[o][j], unexpected'[o][k])
  <2>1. CASE o = d
    <3>1. j \in DOMAIN q /\ k \in DOMAIN q /\ unexpected'[o] = q
      BY <1>3, <1>7, <2>1
    <3>2. PICK l, m \in DOMAIN unexpected[d] \ {i} : l < m /\ q[j] = unexpected[d][l] /\ q[k] = unexpected[d][m]
      BY <1>1, <1>7, <3>1
    <3> QED  BY <1>6, <2>1, <3>1, <3>2
  <2>2. CASE o # d
    BY <1>3, <1>6, <1>7, <2>2
  <2> QED  BY <2>1, <2>2
<1>8. QueueOrder'
  BY <1>7 DEF QueueOrder, QueueBefore, NextBefore
<1> QED  BY <1>3, <1>5, <1>8 DEF Messages

LEMMA ReceivesSame ==
    ASSUME PostedOrder, posted' = posted
    PROVE  PostedOrder' /\ \A d \in Proc : Receives(d)' = Receives(d)
BY DEF PostedOrder, Receives

LEMMA ReceivesGrow ==
    ASSUME QueuesOK, PostedOrder, NEW d \in Proc, NEW e,
           posted' = [posted EXCEPT ![d] = Enqueued(@, e)],
           \A x \in Receives(d) : x.rreq # e.rreq
    PROVE  /\ PostedOrder'
           /\ \A o \in Proc : Receives(o)' = IF o = d THEN Receives(o) \union {e} ELSE Receives(o)
<1> DEFINE q == Append(posted[d], e)
<1>1. /\ IsQueue(q) /\ Entries(q) = Receives(d) \union {e}
      /\ \A i, j \in DOMAIN q : i < j =>
            /\ i \in DOMAIN posted[d] /\ q[i] = posted[d][i]
            /\ \/ j \in DOMAIN posted[d] /\ q[j] = posted[d][j]
               \/ q[j] = e
  BY AppendQueue DEF QueuesOK, Receives
<1>2. posted' = [posted EXCEPT ![d] = q]
  BY DEF Enqueued
<1> HIDE DEF q
<1>3. \A o \in Proc : posted'[o] = IF o = d THEN q ELSE posted[o]
  BY <1>2 DEF QueuesOK
<1>4. ASSUME NEW i \in DOMAIN q, NEW j \in DOMAIN q, i < j PROVE q[i].rreq # q[j].rreq
  BY <1>1, <1>4 DEF PostedOrder, Receives, Entries
<1>5. PostedOrder'
  BY <1>3, <1>4 DEF PostedOrder
<1>6. \A o \in Proc : Receives(o)' = IF o = d THEN Receives(o) \union {e} ELSE Receives(o)
  BY <1>1, <1>3 DEF Receives
<1> QED  BY <1>5, <1>6

LEMMA ReceivesShrink ==
    ASSUME QueuesOK, PostedOrder, NEW d \in Proc, NEW i \in DOMAIN posted[d], NEW e,
           e = posted[d][i],
           posted' = [posted EXCEPT ![d] = RemoveAt(@, i)]
    PROVE  /\ PostedOrder' /\ e \in Receives(d)
           /\ \A o \in Proc : Receives(o)' = IF o = d THEN Receives(o) \ {e} ELSE Receives(o)
           /\ \A x \in Receives(d) : x # e => x.rreq # e.rreq
<1> DEFINE q == RemoveAt(posted[d], i)
<1>1. /\ IsQueue(q) /\ Entries(q) \subseteq Entries(posted[d])
      /\ \A x \in Entries(posted[d]) : x # posted[d][i] => x \in Entries(q)
      /\ \A j, k \in DOMAIN q : j < k =>
            \E l, m \in DOMAIN posted[d] \ {i} : l < m /\ q[j] = posted[d][l] /\ q[k] = posted[d][m]
      /\ \A j \in DOMAIN q : \E l \in DOMAIN posted[d] \ {i} : q[j] = posted[d][l]
  BY RemovedQueue DEF QueuesOK
<1>2. posted' = [posted EXCEPT ![d] = q]
  OBVIOUS
<1> HIDE DEF q
<1>3. \A o \in Proc : posted'[o] = IF o = d THEN q ELSE posted[o]
  BY <1>2 DEF QueuesOK
<1>4. ASSUME NEW l \in DOMAIN posted[d], l # i PROVE posted[d][l].rreq # e.rreq
  <2>1. \A a \in DOMAIN posted[d] : a \in Nat
    <3>1. posted[d] \in Seq(Entries(posted[d]))
      BY DEF QueuesOK, IsQueue
    <3> QED  BY <3>1
  <2>2. l < i \/ i < l
    BY <1>4, <2>1
  <2> QED  BY <2>2 DEF PostedOrder
<1>5. Entries(q) = Receives(d) \ {e} /\ e \in Receives(d)
  BY <1>1, <1>4 DEF Receives, Entries
<1>6. \A x \in Receives(d) : x # e => x.rreq # e.rreq
  BY <1>4 DEF Receives, Entries
<1>7. ASSUME NEW j \in DOMAIN q, NEW k \in DOMAIN q, j < k PROVE q[j].rreq # q[k].rreq
  <2>1. PICK l, m \in DOMAIN posted[d] \ {i} : l < m /\ q[j] = posted[d][l] /\ q[k] = posted[d][m]
    BY <1>1, <1>7
  <2> QED  BY <2>1 DEF PostedOrder
<1>8. PostedOrder'
  BY <1>3, <1>7 DEF PostedOrder
<1> QED  BY <1>3, <1>5, <1>6, <1>8 DEF Receives

-----------------------------------------------------------------------------
\* What every step does to the sends that were made: a request keeps its
\* message, or it goes and nothing is left that would name it.

KeptSend(o, g) ==
    LET r == request[o][g]  q == request'[o][g] IN
    /\ q.kind = "SEND" /\ q.msg = r.msg /\ q.peer = r.peer /\ q.proto = r.proto
    /\ q.tag = r.tag /\ (r.cancel_pending => q.cancel_pending)

GoneSend(o, g) ==
    /\ request'[o][g].kind = "none"
    /\ \A m : m = request[o][g].msg =>
          /\ ~ Cancelling(m)'
          /\ request[o][g].proto \in Waits => ~ Unanswered(m)'

SendsKeep ==
    /\ \A o \in Proc, g \in Handle :
          /\ IsSendRequest(o, g) => KeptSend(o, g) \/ GoneSend(o, g)
          /\ ~ IsSendRequest(o, g) /\ request'[o][g].kind = "SEND"
                => request'[o][g].msg \in Message /\ request'[o][g].msg[2] > sent[o]
    /\ \A o \in Proc : sent[o] \in Nat /\ sent'[o] \in Nat /\ sent[o] <= sent'[o]
    /\ asked \subseteq asked'

\* The next lemmas say when what is known of a message, a packet or a request
\* stays true: they take what the step changed as premises.
LEMMA IsSendStays ==
    ASSUME SendsKeep, NEW s \in Proc, NEW h, NEW m, IsSend(s, h, m), request'[s][h].kind # "none"
    PROVE  IsSend(s, h, m)' /\ KeptSend(s, h)
BY DEF SendsKeep, IsSend, IsSendRequest, KeptSend, GoneSend

\* No message that was sent before gets a request anew.
LEMMA IsSendBefore ==
    ASSUME SendsKeep, NEW s \in Proc, NEW h, NEW m \in Message, m[2] <= sent[s], IsSend(s, h, m)'
    PROVE  IsSend(s, h, m) /\ KeptSend(s, h)
<1>1. h \in Handle /\ request'[s][h].kind = "SEND" /\ request'[s][h].msg = m
  BY DEF IsSend
<1>2. m[2] \in Nat /\ sent[s] \in Nat
  BY MessageFacts DEF SendsKeep
<1>3. IsSendRequest(s, h)
  <2>1. ~ request'[s][h].msg[2] > sent[s]
    BY <1>1, <1>2
  <2> QED  BY <1>1, <2>1 DEF SendsKeep
<1>4. KeptSend(s, h)
  BY <1>1, <1>3 DEF SendsKeep, GoneSend
<1> QED  BY <1>1, <1>3, <1>4 DEF IsSend, IsSendRequest, KeptSend

LEMMA LinkStays ==
    ASSUME SendsKeep, NEW s \in Proc, NEW d, NEW m, NEW proto, NEW sid,
           Link(s, d, m, proto, sid), proto \in Waits => request'[s][sid].kind # "none"
    PROVE  Link(s, d, m, proto, sid)'
<1>1. /\ s \in Sender /\ s # d /\ m \in Message /\ m[1] = s /\ m[2] <= sent[s]
      /\ proto \in Kind /\ sid \in Handle \union {MPI_REQUEST_NULL}
  BY DEF Link
<1>2. m[2] \in Nat /\ sent[s] \in Nat /\ sent'[s] \in Nat /\ sent[s] <= sent'[s]
  BY <1>1, MessageFacts DEF SendsKeep
<1>3. m[2] <= sent'[s]
  BY <1>1, <1>2
<1>4. ASSUME NEW h \in Handle, IsSend(s, h, m)'
      PROVE  /\ request'[s][h].peer = d /\ request'[s][h].proto = proto
             /\ sid = IF proto = "noncontig" THEN MPI_REQUEST_NULL ELSE h
  <2>1. IsSend(s, h, m) /\ KeptSend(s, h)
    BY <1>1, <1>4, IsSendBefore
  <2> QED  BY <2>1 DEF Link, KeptSend
<1>5. ASSUME proto \in Waits PROVE IsSend(s, sid, m)'
  <2>1. IsSend(s, sid, m) /\ request'[s][sid].kind # "none"
    BY <1>5 DEF Link
  <2> QED  BY <2>1, IsSendStays
<1>6. ASSUME sid \in Handle, request'[s][sid].kind = "SEND" PROVE m[2] <= request'[s][sid].msg[2]
  <2>1. CASE IsSendRequest(s, sid)
    <3>1. KeptSend(s, sid)
      BY <1>6, <2>1 DEF SendsKeep, GoneSend
    <3> QED  BY <1>6, <2>1, <3>1 DEF KeptSend, Link, IsSendRequest
  <2>2. CASE ~ IsSendRequest(s, sid)
    <3>1. request'[s][sid].msg[2] > sent[s] /\ request'[s][sid].msg[2] \in Nat
      BY <1>6, <2>2, MessageFacts DEF SendsKeep
    <3> QED  BY <1>1, <1>2, <3>1
  <2> QED  BY <2>1, <2>2
<1> QED  BY <1>1, <1>3, <1>4, <1>5, <1>6 DEF Link

LEMMA TaggedStays ==
    ASSUME SendsKeep, NEW s \in Proc, NEW m \in Message, NEW tag, m[2] <= sent[s],
           Tagged(s, m, tag)
    PROVE  Tagged(s, m, tag)'
<1>1. ASSUME NEW h \in Handle, IsSend(s, h, m)' PROVE request'[s][h].tag = tag
  <2>1. IsSend(s, h, m) /\ KeptSend(s, h)
    BY <1>1, IsSendBefore
  <2> QED  BY <2>1 DEF Tagged, KeptSend
<1> QED  BY <1>1 DEF Tagged

-----------------------------------------------------------------------------
\* A packet that stays on its way stays as it was: what it needs.

EnvelopeStay(k) == k.type \in EnvelopeTypes => fate'[k.msg] = "sent"

FateStays(m) ==
    /\ fate'[m] # "cancelled" \/ fate[m] = "cancelled" \/ ~ Cancelling(m)'
    /\ fate[m] \in {"matched", "cancelled"} => fate'[m] = fate[m]

LEMMA EnvelopeStays ==
    ASSUME SendsKeep, NEW s \in Proc, NEW d \in Proc, NEW k,
           EnvelopeOK(s, d, k), fate'[k.msg] = "sent"
    PROVE  EnvelopeOK(s, d, k)'
<1> DEFINE m == k.msg
<1>1. /\ k.match = Match(s, k.match.tag) /\ k.type = EnvelopeType(k.proto)
      /\ Link(s, d, m, k.proto, k.sender_req_id) /\ Tagged(s, m, k.match.tag)
  BY DEF EnvelopeOK
<1>2. m \in Message /\ m[1] = s /\ m[2] <= sent[s]
  BY <1>1 DEF Link
<1>3. ASSUME k.proto \in Waits PROVE request'[s][k.sender_req_id].kind # "none"
  <2>1. IsSend(s, k.sender_req_id, m) /\ request[s][k.sender_req_id].proto = k.proto
    BY <1>1, <1>3 DEF Link, IsSend
  <2>2. Unanswered(m)'
    BY DEF Unanswered
  <2> HIDE DEF m
  <2>3. ~ GoneSend(s, k.sender_req_id)
    BY <1>3, <2>1, <2>2 DEF GoneSend, IsSend
  <2> QED  BY <2>1, <2>3 DEF SendsKeep, IsSend, IsSendRequest, KeptSend
<1>4. Link(s, d, m, k.proto, k.sender_req_id)'
  BY <1>1, <1>3, LinkStays
<1>5. Tagged(s, m, k.match.tag)'
  BY <1>1, <1>2, TaggedStays
<1> QED  BY <1>1, <1>4, <1>5 DEF EnvelopeOK

LEMMA AnswerStays ==
    ASSUME SendsKeep, ShapeInv, NEW s \in Proc, NEW d \in Proc, NEW k,
           k \in Packets(s, d)', k.type \in AnswerTypes, AnswerOK(s, d, k),
           fate[k.msg] \in {"matched", "cancelled"} => fate'[k.msg] = fate[k.msg],
           k.type = "RNDV_CLR_TO_SEND" => Receiving(s, k.receiver_req_id, d, k.msg)'
    PROVE  AnswerOK(s, d, k)'
<1> DEFINE h == k.sender_req_id
<1>1. /\ IsSend(d, h, k.msg) /\ request[d][h].peer = s
      /\ request[d][h].proto = IF k.type = "EAGER_SYNC_ACK" THEN "sync" ELSE "rndv"
      /\ fate[k.msg] = "matched"
  BY DEF AnswerOK
<1>2. k.msg \in Message /\ k.msg[1] = d
  BY <1>1 DEF ShapeInv, SendShape, IsSend, IsSendRequest
<1>3. Unanswered(k.msg)'
  BY <1>2 DEF Unanswered
<1>4. ~ GoneSend(d, h)
  BY <1>1, <1>3 DEF GoneSend, IsSend, Waits
<1>5. request'[d][h].kind # "none"
  BY <1>1, <1>4 DEF SendsKeep, IsSend, IsSendRequest, KeptSend
<1>6. IsSend(d, h, k.msg)' /\ KeptSend(d, h)
  BY <1>1, <1>5, IsSendStays
<1> QED  BY <1>1, <1>6 DEF AnswerOK, KeptSend

LEMMA CancelPacketStays ==
    ASSUME SendsKeep, NEW m, NEW p \in Proc, NEW h, NEW d \in Proc, NEW k,
           IsSend(p, h, m), m[1] = p, CancelPacket(d, m, k)'
    PROVE  IsSend(p, h, m)' /\ KeptSend(p, h)
<1>1. Cancelling(m)'
  BY DEF Cancelling, CancelPacket
<1>2. ~ GoneSend(p, h)
  BY <1>1 DEF GoneSend, IsSend
<1>3. request'[p][h].kind # "none"
  BY <1>2 DEF SendsKeep, IsSend, IsSendRequest, KeptSend
<1> QED  BY <1>3, IsSendStays

LEMMA CancelReqStays ==
    ASSUME SendsKeep, ShapeInv, NEW s \in Proc, NEW d \in Proc, NEW k,
           k \in Packets(s, d)', k.type = "CANCEL_SEND_REQ", CancelReqOK(s, d, k),
           fate'[k.msg] # "cancelled"
    PROVE  CancelReqOK(s, d, k)'
<1> DEFINE h == k.sender_req_id
<1>1. /\ IsSend(s, h, k.msg) /\ request[s][h].peer = d /\ k.match = Match(s, request[s][h].tag)
      /\ request[s][h].cancel_pending /\ k.msg \in asked
  BY DEF CancelReqOK
<1>2. k.msg \in Message /\ k.msg[1] = s
  BY <1>1 DEF ShapeInv, SendShape, IsSend, IsSendRequest
<1>3. CancelPacket(d, k.msg, k)'
  BY <1>2 DEF CancelPacket
<1>4. IsSend(s, h, k.msg)' /\ KeptSend(s, h)
  BY <1>1, <1>2, <1>3, CancelPacketStays
<1>5. k.msg \in asked'
  BY <1>1 DEF SendsKeep
<1> QED  BY <1>1, <1>4, <1>5 DEF CancelReqOK, KeptSend

LEMMA CancelRespStays ==
    ASSUME SendsKeep, ShapeInv, NEW s \in Proc, NEW d \in Proc, NEW k,
           k \in Packets(s, d)', k.type = "CANCEL_SEND_RESP", CancelRespOK(s, d, k),
           fate[k.msg] \in {"matched", "cancelled"} => fate'[k.msg] = fate[k.msg]
    PROVE  CancelRespOK(s, d, k)'
<1> DEFINE h == k.sender_req_id
<1>1. /\ IsSend(d, h, k.msg) /\ request[d][h].peer = s /\ request[d][h].cancel_pending
      /\ request[d][h].proto # "noncontig" => fate[k.msg] = IF k.ack THEN "cancelled" ELSE "matched"
      /\ k.ack \in BOOLEAN
  BY DEF CancelRespOK
<1>2. k.msg \in Message /\ k.msg[1] = d
  BY <1>1 DEF ShapeInv, SendShape, IsSend, IsSendRequest
<1>3. CancelPacket(s, k.msg, k)'
  BY <1>2 DEF CancelPacket
<1>4. IsSend(d, h, k.msg)' /\ KeptSend(d, h)
  BY <1>1, <1>2, <1>3, CancelPacketStays
<1> QED  BY <1>1, <1>4 DEF CancelRespOK, KeptSend

\* A message keeps waiting, or has been found; once found it is settled.
Settles(m) == fate[m] \in {"matched", "cancelled"} => fate'[m] = fate[m]

LEMMA PacketStays ==
    ASSUME SendsKeep, ShapeInv, NEW s \in Proc, NEW d \in Proc, NEW k,
           k \in Packets(s, d)', PacketOK(s, d, k), Settles(k.msg),
           k.type \in EnvelopeTypes => fate'[k.msg] = "sent",
           k.type = "CANCEL_SEND_REQ" => fate'[k.msg] # "cancelled",
           \A g : /\ Receiving(s, g, d, k.msg) /\ k.type = "RNDV_CLR_TO_SEND"
                        => Receiving(s, g, d, k.msg)'
                  /\ Receiving(d, g, s, k.msg) /\ k.type = "RNDV_SEND"
                        => Receiving(d, g, s, k.msg)'
    PROVE  PacketOK(s, d, k)'
<1>1. s # d
  BY DEF PacketOK
<1>2. CASE k.type \in EnvelopeTypes /\ EnvelopeOK(s, d, k)
  BY <1>1, <1>2, EnvelopeStays DEF PacketOK
<1>3. CASE k.type \in AnswerTypes /\ AnswerOK(s, d, k)
  <2>1. k.type = "RNDV_CLR_TO_SEND" => Receiving(s, k.receiver_req_id, d, k.msg)'
    BY <1>3 DEF AnswerOK
  <2>2. AnswerOK(s, d, k)'
    BY <1>3, <2>1, AnswerStays DEF Settles
  <2> QED  BY <1>1, <1>3, <2>2 DEF PacketOK
<1>4. CASE k.type = "RNDV_SEND" /\ DataOK(s, d, k)
  BY <1>1, <1>4 DEF DataOK, PacketOK, Settles
<1>5. CASE k.type = "CANCEL_SEND_REQ" /\ CancelReqOK(s, d, k)
  BY <1>1, <1>5, CancelReqStays DEF PacketOK
<1>6. CASE k.type = "CANCEL_SEND_RESP" /\ CancelRespOK(s, d, k)
  BY <1>1, <1>6, CancelRespStays DEF PacketOK, Settles
<1> QED  BY <1>2, <1>3, <1>4, <1>5, <1>6 DEF PacketOK

-----------------------------------------------------------------------------
\* A message is in one place, and its cancellation in one packet.

LEMMA OnePlaceStays ==
    ASSUME OnePlace,
           \A m \in Message, d \in Proc : \A w, x : Place(d, m, w, x)' => Place(d, m, w, x)
    PROVE  OnePlace'
BY DEF OnePlace

\* The message n alone moves, to the place <<d1, w1, x1>>.
LEMMA OnePlaceMoves ==
    ASSUME OnePlace, NEW n, NEW d1, NEW w1, NEW x1,
           \A d \in Proc : \A w, x : ~ (Place(d, n, w, x) /\ Place(d, n, w, x)'),
           \A m \in Message, d \in Proc : \A w, x :
              Place(d, m, w, x)' => \/ Place(d, m, w, x)
                                    \/ m = n /\ d = d1 /\ w = w1 /\ x = x1
    PROVE  OnePlace'
BY DEF OnePlace

\* It has left its old place.
LEMMA OldPlaceLeft ==
    ASSUME OnePlace, NEW n \in Message, NEW d0 \in Proc, NEW w0, NEW x0,
           Place(d0, n, w0, x0), ~ Place(d0, n, w0, x0)'
    PROVE  \A d \in Proc : \A w, x : ~ (Place(d, n, w, x) /\ Place(d, n, w, x)')
<1> SUFFICES ASSUME NEW d \in Proc, NEW w, NEW x, Place(d, n, w, x), Place(d, n, w, x)'
             PROVE  FALSE
  OBVIOUS
<1>1. d = d0 /\ w = w0 /\ x = x0
  BY DEF OnePlace
<1> QED  BY <1>1

LEMMA CancelOnceStays ==
    ASSUME CancelOnce,
           \A m \in Message, d \in Proc : \A k : CancelPacket(d, m, k)' => CancelPacket(d, m, k)
    PROVE  CancelOnce'
BY DEF CancelOnce

LEMMA CancelOnceMoves ==
    ASSUME CancelOnce, NEW n, NEW d1, NEW k1,
           \A d \in Proc : \A k : ~ (CancelPacket(d, n, k) /\ CancelPacket(d, n, k)'),
           \A m \in Message, d \in Proc : \A k :
              CancelPacket(d, m, k)' => \/ CancelPacket(d, m, k)
                                        \/ m = n /\ d = d1 /\ k = k1
    PROVE  CancelOnce'
BY DEF CancelOnce

-----------------------------------------------------------------------------
\* What keeps the facts about a send.

LEMMA CountStays ==
    ASSUME NEW p \in Proc, NEW h \in Handle, NEW m \in Message, SendCount(p, h, m),
           request'[p][h].cc = request[p][h].cc,
           request'[p][h].writing = request[p][h].writing,
           request'[p][h].proto = request[p][h].proto,
           request[p][h] \in Request,
           request[p][h].proto \in Waits /\ Unanswered(m)' => Unanswered(m),
           Cancelling(m)' => Cancelling(m)
    PROVE  SendCount(p, h, m)'
<1> DEFINE A == request[p][h].proto \in Waits /\ Unanswered(m)
           B == request'[p][h].proto \in Waits /\ Unanswered(m)'
           C == Cancelling(m)
           D == Cancelling(m)'
           W == request[p][h].writing
<1>1. request[p][h].cc >= Bit(W) + Bit(A) + Bit(C) /\ (B => A) /\ (D => C)
      /\ request[p][h].cc \in Int
  BY DEF SendCount, Request
<1>2. request[p][h].cc >= Bit(W) + Bit(B) + Bit(D)
  <2> HIDE DEF A, B, C, D, W
  <2> QED  BY <1>1 DEF Bit
<1> QED  BY <1>2 DEF SendCount

LEMMA ShapeStays ==
    ASSUME SendsKeep, ShapeInv, fate \in [Message -> Fates], NEW p \in Proc, NEW h \in Handle,
           IsSendRequest(p, h), request'[p][h].kind = "SEND",
           \A m \in Message : fate[m] # "unsent" => fate'[m] # "unsent"
    PROVE  SendShape(p, h)'
<1> DEFINE m == request[p][h].msg
<1>1. KeptSend(p, h)
  BY DEF SendsKeep, GoneSend
<1>2. SendShape(p, h)
  BY DEF ShapeInv
<1>3. m \in Message /\ m[1] = p /\ m[2] <= sent[p] /\ m[2] \in Nat
  BY <1>2, MessageFacts DEF SendShape
<1>4. m[2] <= sent'[p]
  BY <1>3 DEF SendsKeep
<1>5. ASSUME NEW g \in Handle, request'[p][g].kind = "SEND", request'[p][g].msg = m PROVE g = h
  <2>1. ASSUME NEW n, n = m PROVE IsSend(p, g, n)' /\ n \in Message /\ n[2] <= sent[p]
    BY <1>3, <1>5, <2>1 DEF IsSend
  <2>2. ASSUME NEW n, n = m PROVE IsSend(p, g, n)
    BY <2>1, <2>2, IsSendBefore
  <2>3. IsSend(p, g, m)
    BY <2>2 DEF IsSend
  <2> QED  BY <1>2, <2>3 DEF SendShape
<1>6. request'[p][h].msg = m /\ request'[p][h].peer = request[p][h].peer
      /\ request'[p][h].proto = request[p][h].proto /\ request'[p][h].tag = request[p][h].tag
  BY <1>1 DEF KeptSend
<1> QED  BY <1>2, <1>3, <1>4, <1>5, <1>6 DEF SendShape, IsSend

\* The facts about the sends a step makes none of.
NoNewSend == \A o \in Proc, g \in Handle : request'[o][g].kind = "SEND" => IsSendRequest(o, g)

LEMMA ShapeInvStays ==
    ASSUME SendsKeep, ShapeInv, fate \in [Message -> Fates], NoNewSend,
           \A m \in Message : fate[m] # "unsent" => fate'[m] # "unsent"
    PROVE  ShapeInv'
<1>1. ASSUME NEW p \in Proc, NEW h \in Handle, IsSendRequest(p, h)' PROVE SendShape(p, h)'
  BY <1>1, ShapeStays DEF NoNewSend, IsSendRequest
<1> QED  BY <1>1 DEF ShapeInv

\* A send in the state after the step, in the state before it.
LEMMA SendBefore ==
    ASSUME SendsKeep, NoNewSend, NEW p \in Proc, NEW h \in Handle, NEW m, IsSend(p, h, m)'
    PROVE  IsSend(p, h, m) /\ KeptSend(p, h)
<1>1. IsSendRequest(p, h) /\ request'[p][h].kind = "SEND" /\ request'[p][h].msg = m
  BY DEF NoNewSend, IsSend
<1>2. KeptSend(p, h)
  BY <1>1 DEF SendsKeep, GoneSend
<1> QED  BY <1>1, <1>2 DEF IsSend, IsSendRequest, KeptSend

LEMMA KeptInvStays ==
    ASSUME SendsKeep, NoNewSend, KeptInv,
           \A p, q \in Proc, m \in Message :
              /\ fate'[m] = "sent" => fate[m] = "sent"
              /\ \A k \in Packets(p, q) : k.type \in EnvelopeTypes /\ k.msg = m /\ fate'[m] = "sent"
                    => \/ k \in Packets(p, q)'
                       \/ \E e \in Messages(q)' : request'[q][e.rreq].msg = m
              /\ \A e \in Messages(q) : request[q][e.rreq].msg = m /\ fate'[m] = "sent"
                    => e \in Messages(q)' /\ request'[q][e.rreq].msg = m
    PROVE  KeptInv'
<1>1. ASSUME NEW p \in Proc, NEW q \in Proc, NEW h \in Handle, NEW m \in Message,
             IsSend(p, h, m)', request'[p][h].peer = q, fate'[m] = "sent"
      PROVE  SendKept(p, q, m)'
  <2>1. IsSend(p, h, m) /\ request[p][h].peer = q
    BY <1>1, SendBefore DEF KeptSend
  <2>2. SendKept(p, q, m) /\ fate[m] = "sent"
    BY <1>1, <2>1 DEF KeptInv
  <2>3. CASE \E k \in Packets(p, q) : k.type \in EnvelopeTypes /\ k.msg = m
    BY <1>1, <2>3 DEF SendKept
  <2>4. CASE \E e \in Messages(q) : request[q][e.rreq].msg = m
    BY <1>1, <2>4 DEF SendKept
  <2> QED  BY <2>2, <2>3, <2>4 DEF SendKept
<1>2. ASSUME NEW p \in Proc, NEW q \in Proc, NEW m \in Message, fate'[m] # "sent"
      PROVE  SendKept(p, q, m)'
  BY <1>2 DEF SendKept
<1> QED  BY <1>1, <1>2 DEF KeptInv

\* SendFirst after the step, of a given send.
FirstNext(p, q, tag, m) ==
    fate'[m] = "matched" =>
        /\ \A e \in Messages(q)' :
              e.match = Match(p, tag) => request'[q][e.rreq].msg[2] > m[2]
        /\ \A k \in Packets(p, q)' :
              k.type \in EnvelopeTypes /\ k.match = Match(p, tag) => k.msg[2] > m[2]

LEMMA FirstInvStays ==
    ASSUME SendsKeep, NoNewSend, FirstInv,
           \A q \in Proc : \A e \in Messages(q)' :
              \/ e \in Messages(q) /\ SameMessage(q, e)
              \/ \E k \in Packets(e.match.rank, q) :
                    /\ k.type \in EnvelopeTypes /\ k.match = e.match
                    /\ request'[q][e.rreq].msg = k.msg,
           \A p, q \in Proc : \A k \in Packets(p, q)' :
              k.type \in EnvelopeTypes => k \in Packets(p, q),
           \A p, q \in Proc, h \in Handle, m \in Message, tag \in Tag :
              IsSend(p, h, m) /\ request[p][h].peer = q /\ request[p][h].tag = tag
              /\ fate'[m] = "matched" /\ fate[m] # "matched"
                    => FirstNext(p, q, tag, m)
    PROVE  FirstInv'
<1>1. ASSUME NEW p \in Proc, NEW q \in Proc, NEW h \in Handle, NEW m \in Message, NEW tag \in Tag,
             IsSend(p, h, m)', request'[p][h].peer = q, request'[p][h].tag = tag,
             fate'[m] = "matched"
      PROVE  SendFirst(p, q, tag, m)'
  <2>1. IsSend(p, h, m) /\ request[p][h].peer = q /\ request[p][h].tag = tag
    BY <1>1, SendBefore DEF KeptSend
  <2>2. CASE fate[m] # "matched"
    BY <1>1, <2>1, <2>2 DEF FirstNext, SendFirst
  <2>3. CASE fate[m] = "matched"
    <3>1. /\ \A e \in Messages(q) : e.match = Match(p, tag) => request[q][e.rreq].msg[2] > m[2]
          /\ \A k \in Packets(p, q) :
                k.type \in EnvelopeTypes /\ k.match = Match(p, tag) => k.msg[2] > m[2]
      BY <2>1, <2>3 DEF FirstInv, SendFirst
    <3>2. ASSUME NEW e \in Messages(q)', e.match = Match(p, tag)
          PROVE  request'[q][e.rreq].msg[2] > m[2]
      <4>1. CASE e \in Messages(q) /\ SameMessage(q, e)
        BY <3>1, <3>2, <4>1 DEF SameMessage
      <4>2. CASE \E k \in Packets(e.match.rank, q) :
                    /\ k.type \in EnvelopeTypes /\ k.match = e.match
                    /\ request'[q][e.rreq].msg = k.msg
        <5>1. e.match.rank = p
          BY <3>2 DEF Match
        <5> QED  BY <3>1, <3>2, <4>2, <5>1
      <4> QED  BY <4>1, <4>2
    <3>3. ASSUME NEW k \in Packets(p, q)', k.type \in EnvelopeTypes, k.match = Match(p, tag)
          PROVE  k.msg[2] > m[2]
      BY <3>1, <3>3
    <3> QED  BY <3>2, <3>3 DEF SendFirst
  <2> QED  BY <2>2, <2>3
<1>2. ASSUME NEW p \in Proc, NEW q \in Proc, NEW m \in Message, NEW tag \in Tag, fate'[m] # "matched"
      PROVE  SendFirst(p, q, tag, m)'
  BY <1>2 DEF SendFirst
<1> QED  BY <1>1, <1>2 DEF FirstInv

LEMMA CancelStays ==
    ASSUME NEW p \in Proc, NEW h \in Handle, NEW m \in Message, SendCancel(p, h, m), Settles(m),
           request'[p][h].cancel_pending = request[p][h].cancel_pending,
           request'[p][h].cancelled = request[p][h].cancelled,
           request'[p][h].proto = request[p][h].proto,
           fate'[m] = "cancelled" => fate[m] = "cancelled" \/ request[p][h].cancel_pending,
           Cancelling(m) => Cancelling(m)'
    PROVE  SendCancel(p, h, m)'
BY DEF SendCancel, Settles

-----------------------------------------------------------------------------
\* What keeps the facts about a message that has come.

LinkNext(s, d, m, proto, sid) ==
    /\ s \in Sender /\ s # d /\ m \in Message /\ m[1] = s /\ m[2] <= sent'[s]
    /\ proto \in Kind /\ sid \in Handle \union {MPI_REQUEST_NULL}
    /\ \A h \in Handle : request'[s][h].kind = "SEND" /\ request'[s][h].msg = m =>
          /\ request'[s][h].peer = d /\ request'[s][h].proto = proto
          /\ sid = IF proto = "noncontig" THEN MPI_REQUEST_NULL ELSE h
    /\ proto \in Waits => /\ sid \in Handle
                          /\ request'[s][sid].kind = "SEND" /\ request'[s][sid].msg = m
    /\ sid \in Handle /\ request'[s][sid].kind = "SEND" => m[2] <= request'[s][sid].msg[2]

\* The next lemmas carry an invariant over to the next state of a request, where
\* the step changed other requests.
LEMMA LinkIsNext ==
    ASSUME NEW s, NEW d, NEW m, NEW proto, NEW sid
    PROVE  Link(s, d, m, proto, sid)' <=> LinkNext(s, d, m, proto, sid)
BY DEF Link, LinkNext, IsSend

TaggedNext(s, m, tag) ==
    \A h \in Handle : request'[s][h].kind = "SEND" /\ request'[s][h].msg = m
                         => request'[s][h].tag = tag

\* The parts of Holds that are about the request alone.
HeldData(r) ==
    IF r.proto = "rndv" THEN r.cc = 1
    ELSE \/ r.cc = 0 /\ r.pending = 1
         \/ r.cc = 1 /\ r.pending = 2 /\ r.ue

LEMMA HoldsIsNext ==
    ASSUME NEW d, NEW g, NEW r, r = request'[d][g],
           LinkNext(r.peer, d, r.msg, r.proto, r.sender_req_id), HeldData(r), ~ Listed(d, g)'
    PROVE  Holds(d, g)'
<1>1. LET r1 == request'[d][g] IN LinkNext(r1.peer, d, r1.msg, r1.proto, r1.sender_req_id)
  OBVIOUS
<1>2. LET r1 == request'[d][g] IN HeldData(r1)
  OBVIOUS
<1> QED  BY <1>1, <1>2, Zenon DEF Holds, HeldData, Link, LinkNext, IsSend

\* A message that has come from s, and is not answered yet, keeps its link.
LEMMA HeldLink ==
    ASSUME SendsKeep, NEW d, NEW g, Holds(d, g), NEW r, r = request[d][g],
           r.proto \in Waits => Unanswered(r.msg)' \/ request'[r.peer][r.sender_req_id].kind # "none"
    PROVE  /\ LinkNext(r.peer, d, r.msg, r.proto, r.sender_req_id) /\ HeldData(r)
           /\ r.peer \in Proc /\ r.msg \in Message /\ r.msg[1] = r.peer
           /\ r.msg[2] <= sent[r.peer] /\ r.proto \in Kind /\ r.peer # d
           /\ r.sender_req_id \in Handle \union {MPI_REQUEST_NULL}
           /\ r.proto \in Waits => IsSend(r.peer, r.sender_req_id, r.msg)
<1> DEFINE s == r.peer
           m == r.msg
           sid == r.sender_req_id
<1>1. Link(s, d, m, r.proto, sid) /\ HeldData(r)
  BY DEF Holds, HeldData
<1>2. s \in Proc /\ m \in Message /\ m[1] = s /\ m[2] <= sent[s] /\ r.proto \in Kind /\ s # d
      /\ sid \in Handle \union {MPI_REQUEST_NULL}
      /\ (r.proto \in Waits => IsSend(s, sid, m))
  BY <1>1, MessageFacts DEF Link
<1>3. ASSUME r.proto \in Waits, Unanswered(m)' PROVE request'[s][sid].kind # "none"
  <2>1. IsSend(s, sid, m) /\ request[s][sid].proto = r.proto
    BY <1>1, <1>3 DEF Link, IsSend
  <2> HIDE DEF m, s, sid
  <2>2. ~ GoneSend(s, sid)
    BY <1>3, <2>1 DEF GoneSend, IsSend
  <2> QED  BY <1>2, <2>1, <2>2 DEF SendsKeep, IsSend, IsSendRequest, KeptSend
<1>4. Link(s, d, m, r.proto, sid)'
  BY <1>1, <1>2, <1>3, LinkStays
<1>5. LinkNext(s, d, m, r.proto, sid)
  BY <1>4, LinkIsNext
<1> QED  BY <1>1, <1>2, <1>5

LEMMA HeldTag ==
    ASSUME SendsKeep, NEW s \in Proc, NEW m \in Message, NEW tag, m[2] <= sent[s], Tagged(s, m, tag)
    PROVE  TaggedNext(s, m, tag)
<1>1. Tagged(s, m, tag)'
  BY TaggedStays
<1> QED  BY <1>1 DEF Tagged, TaggedNext, IsSend

LEMMA QueuedIsNext ==
    ASSUME NEW d, NEW e, NEW r, r = request'[d][e.rreq],
           e.rreq \in Handle, r.kind = "RECV", ~ r.user, e.match = Match(r.peer, e.match.tag),
           Holds(d, e.rreq)', TaggedNext(r.peer, r.msg, e.match.tag), fate'[r.msg] = "sent"
    PROVE  QueuedOK(d, e)'
<1>1. LET r1 == request'[d][e.rreq] IN
      /\ r1.kind = "RECV" /\ ~ r1.user /\ e.match = Match(r1.peer, e.match.tag)
      /\ TaggedNext(r1.peer, r1.msg, e.match.tag) /\ fate'[r1.msg] = "sent"
  OBVIOUS
<1> QED  BY <1>1 DEF QueuedOK, Tagged, TaggedNext, IsSend

LEMMA QueuedKeeps ==
    ASSUME SendsKeep, NEW d, NEW e, QueuedOK(d, e), NEW r, r = request[d][e.rreq],
           request'[d][e.rreq] = r, ~ Listed(d, e.rreq)', fate'[r.msg] = "sent"
    PROVE  QueuedOK(d, e)'
<1>1. /\ e.rreq \in Handle /\ r.kind = "RECV" /\ ~ r.user
      /\ e.match = Match(r.peer, e.match.tag)
      /\ Holds(d, e.rreq) /\ Tagged(r.peer, r.msg, e.match.tag)
  BY DEF QueuedOK
<1>2. Unanswered(r.msg)'
  BY DEF Unanswered
<1>3. /\ LinkNext(r.peer, d, r.msg, r.proto, r.sender_req_id) /\ HeldData(r)
      /\ r.peer \in Proc /\ r.msg \in Message /\ r.msg[2] <= sent[r.peer]
  BY <1>1, <1>2, HeldLink
<1>4. Holds(d, e.rreq)'
  BY <1>3, HoldsIsNext
<1>5. TaggedNext(r.peer, r.msg, e.match.tag)
  BY <1>1, <1>3, HeldTag
<1> QED  BY <1>1, <1>4, <1>5, QueuedIsNext

LEMMA ProbedKeeps ==
    ASSUME SendsKeep, NEW d \in Proc, NEW g \in Handle, ProbedOK(d, g),
           request'[d][g] = request[d][g], ~ Listed(d, g)' \/ Listed(d, g),
           \A m \in Message : Settles(m)
    PROVE  ProbedOK(d, g)'
<1> SUFFICES ASSUME NEW r, r = request[d][g], r.kind = "MPROBE" PROVE ProbedOK(d, g)'
  BY DEF ProbedOK
<1>1. r.user /\ Holds(d, g) /\ fate[r.msg] = "matched" /\ request'[d][g] = r
  BY DEF ProbedOK
<1>2. Unanswered(r.msg)'
  BY <1>1 DEF Unanswered
<1>3. /\ LinkNext(r.peer, d, r.msg, r.proto, r.sender_req_id) /\ HeldData(r)
      /\ r.msg \in Message
  BY <1>1, <1>2, HeldLink
<1>4. ~ Listed(d, g)'
  BY <1>1 DEF Holds
<1>5. Holds(d, g)'
  BY <1>1, <1>3, <1>4, HoldsIsNext
<1>6. fate'[r.msg] = "matched"
  BY <1>1, <1>3 DEF Settles
<1> QED  BY <1>1, <1>5, <1>6 DEF ProbedOK

LEMMA ReadingKeeps ==
    ASSUME NEW d, NEW s, ReadingOK(d, s), reading'[d][s] = reading[d][s],
           request'[d][reading[d][s]] = request[d][reading[d][s]],
           Listed(d, reading[d][s])' => Listed(d, reading[d][s]),
           Queued(d, reading[d][s])' => Queued(d, reading[d][s]),
           \A m \in Message : Settles(m)
    PROVE  ReadingOK(d, s)'
BY DEF ReadingOK, Settles

-----------------------------------------------------------------------------
\* A step that changes a send, and no receive.
SendSide(p, h) ==
    /\ OnlyRequest(p, h)
    /\ request[p][h].kind \in {"none", "SEND"} /\ request'[p][h].kind \in {"none", "SEND"}
    /\ posted' = posted /\ unexpected' = unexpected /\ reading' = reading
    /\ SendsKeep
    /\ \A m \in Message : Settles(m) /\ (fate[m] = "sent" => fate'[m] = "sent")

\* A step on the side of the sender changes one request of a send: what holds of
\* receives, of the queues and of the receivers stays.
LEMMA SendSideRequests ==
    ASSUME NEW p \in Proc, NEW h \in Handle, SendSide(p, h), NEW o \in Proc, NEW g \in Handle,
           \/ request[o][g].kind \in {"RECV", "MPROBE"}
           \/ request'[o][g].kind \in {"RECV", "MPROBE"}
    PROVE  request'[o][g] = request[o][g]
BY DEF SendSide, OnlyRequest

LEMMA SendSideQueues ==
    ASSUME NEW p \in Proc, NEW h \in Handle, SendSide(p, h),
           QueuedInv, QueueOrder, PostedOrder
    PROVE  /\ QueueOrder' /\ PostedOrder'
           /\ \A o \in Proc : Messages(o)' = Messages(o) /\ Receives(o)' = Receives(o)
           /\ \A o \in Proc : \A g : (Queued(o, g)' <=> Queued(o, g)) /\ (Listed(o, g)' <=> Listed(o, g))
           /\ \A o \in Proc : \A e \in Messages(o) : request'[o][e.rreq] = request[o][e.rreq]
<1>1. ASSUME NEW o \in Proc, NEW e \in Messages(o) PROVE request'[o][e.rreq] = request[o][e.rreq]
  BY SendSideRequests DEF QueuedInv, QueuedOK
<1>2. \A o \in Proc : Messages(o)' = Messages(o) /\ Receives(o)' = Receives(o)
  BY DEF SendSide, Messages, Receives
<1>3. QueueOrder'
  BY <1>1, MessagesSame DEF SendSide, SameMessage
<1>4. PostedOrder'
  BY ReceivesSame DEF SendSide
<1>5. \A o \in Proc : \A g : (Queued(o, g)' <=> Queued(o, g)) /\ (Listed(o, g)' <=> Listed(o, g))
  BY <1>2 DEF Queued, Listed
<1> QED  BY <1>1, <1>2, <1>3, <1>4, <1>5

LEMMA SendSideReceivers ==
    ASSUME NEW p \in Proc, NEW h \in Handle, SendSide(p, h), TypeInv,
           QueuedInv, QueueOrder, PostedOrder, ProbedInv, ListedInv, ReadingInv
    PROVE  /\ QueuedInv' /\ ProbedInv' /\ ListedInv' /\ ReadingInv'
           /\ \A d \in Proc : \A g, s, m : Receiving(d, g, s, m) => Receiving(d, g, s, m)'
<1>1. /\ \A o \in Proc : Messages(o)' = Messages(o) /\ Receives(o)' = Receives(o)
      /\ \A o \in Proc : \A g : (Queued(o, g)' <=> Queued(o, g)) /\ (Listed(o, g)' <=> Listed(o, g))
      /\ \A o \in Proc : \A e \in Messages(o) : request'[o][e.rreq] = request[o][e.rreq]
  BY SendSideQueues
<1>2. ASSUME NEW d \in Proc, NEW e \in Messages(d)' PROVE QueuedOK(d, e)'
  <2>1. e \in Messages(d) /\ QueuedOK(d, e) /\ request'[d][e.rreq] = request[d][e.rreq]
    BY <1>1 DEF QueuedInv
  <2>2. /\ request[d][e.rreq].msg \in Message /\ fate[request[d][e.rreq].msg] = "sent"
        /\ ~ Listed(d, e.rreq)
    BY <2>1, Zenon DEF QueuedOK, Holds, Link
  <2>3. fate'[request[d][e.rreq].msg] = "sent" /\ ~ Listed(d, e.rreq)'
    BY <1>1, <2>2 DEF SendSide
  <2> QED  BY <2>1, <2>3, QueuedKeeps DEF SendSide
<1>3. ASSUME NEW d \in Proc, NEW g \in Handle PROVE ProbedOK(d, g)'
  <2>1. CASE request'[d][g].kind = "MPROBE"
    <3>1. request'[d][g] = request[d][g]
      BY <2>1, SendSideRequests
    <3>2. ProbedOK(d, g) /\ (~ Listed(d, g)' \/ Listed(d, g))
      BY <1>1 DEF ProbedInv
    <3> QED  BY <3>1, <3>2, ProbedKeeps DEF SendSide
  <2>2. CASE request'[d][g].kind # "MPROBE"
    BY <2>2 DEF ProbedOK
  <2> QED  BY <2>1, <2>2
<1>4. ASSUME NEW d \in Proc, NEW e \in Receives(d)' PROVE ListedOK(d, e)'
  <2>1. e \in Receives(d) /\ ListedOK(d, e)
    BY <1>1 DEF ListedInv
  <2>2. request'[d][e.rreq] = request[d][e.rreq]
    BY <2>1, SendSideRequests DEF ListedOK
  <2> QED  BY <2>1, <2>2 DEF ListedOK
<1>5. ASSUME NEW d \in Proc, NEW s \in Proc PROVE ReadingOK(d, s)'
  <2>1. ReadingOK(d, s) /\ reading'[d][s] = reading[d][s]
        /\ reading[d][s] \in Handle \union {None}
    BY DEF ReadingInv, SendSide, TypeInv
  <2>2. CASE reading[d][s] = None
    BY <2>1, <2>2 DEF ReadingOK
  <2>3. CASE reading[d][s] # None
    <3>1. request'[d][reading[d][s]] = request[d][reading[d][s]]
      BY <2>1, <2>3, SendSideRequests DEF ReadingOK
    <3> QED  BY <1>1, <2>1, <3>1, ReadingKeeps DEF SendSide
  <2> QED  BY <2>2, <2>3
<1>6. ASSUME NEW d \in Proc, NEW g, NEW s, NEW m, Receiving(d, g, s, m) PROVE Receiving(d, g, s, m)'
  <2>1. g \in Handle /\ request'[d][g] = request[d][g]
    BY <1>6, SendSideRequests DEF Receiving
  <2> QED  BY <1>1, <1>6, <2>1 DEF Receiving
<1> QED  BY <1>2, <1>3, <1>4, <1>5, <1>6 DEF QueuedInv, ProbedInv, ListedInv, ReadingInv

\* The packets that stay, when a send changes.
LEMMA SendSidePackets ==
    ASSUME NEW p \in Proc, NEW h \in Handle, SendSide(p, h), TypeInv, ShapeInv, PacketInv,
           QueuedInv, QueueOrder, PostedOrder, ProbedInv, ListedInv, ReadingInv,
           \A m \in Message : fate'[m] = "cancelled" => fate[m] = "cancelled",
           NEW s \in Proc, NEW d \in Proc, NEW k, k \in Packets(s, d), k \in Packets(s, d)'
    PROVE  PacketOK(s, d, k)'
<1>1. PacketOK(s, d, k)
  BY DEF PacketInv
<1>2. \A x \in Proc : \A g, y, m : Receiving(x, g, y, m) => Receiving(x, g, y, m)'
  BY SendSideReceivers
<1>3. k.msg \in Message
  BY <1>1 DEF PacketOK, EnvelopeOK, AnswerOK, DataOK, CancelReqOK, CancelRespOK, Link,
              ShapeInv, SendShape, IsSend, IsSendRequest
<1>4. Settles(k.msg)
  BY <1>3 DEF SendSide
<1>5. ASSUME k.type \in EnvelopeTypes PROVE fate'[k.msg] = "sent"
  <2>1. fate[k.msg] = "sent"
    BY <1>1, <1>5 DEF PacketOK, EnvelopeOK, EnvelopeTypes, AnswerTypes
  <2> QED  BY <1>3, <2>1 DEF SendSide
<1>6. ASSUME k.type = "CANCEL_SEND_REQ" PROVE fate'[k.msg] # "cancelled"
  <2>1. fate[k.msg] # "cancelled"
    BY <1>1, <1>6 DEF PacketOK, CancelReqOK, EnvelopeTypes, AnswerTypes
  <2> QED  BY <1>3, <2>1
<1> QED  BY <1>1, <1>2, <1>4, <1>5, <1>6, PacketStays DEF SendSide

-----------------------------------------------------------------------------
\* The references of the request a step changes, and of the others.

\* The references of a request stay those RefOK counts.
LEMMA RefStays ==
    ASSUME RefInv, NEW p \in Proc, NEW h \in Handle, OnlyRequest(p, h), RefOK(p, h)',
           \A o \in Proc, g \in Handle : o # p \/ g # h => (Queued(o, g)' <=> Queued(o, g))
    PROVE  RefInv'
<1>1. ASSUME NEW o \in Proc, NEW g \in Handle, o # p \/ g # h PROVE RefOK(o, g)'
  <2>1. request'[o][g] = request[o][g] /\ RefOK(o, g) /\ (Queued(o, g)' <=> Queued(o, g))
    BY <1>1 DEF OnlyRequest, RefInv
  <2> QED  BY <2>1 DEF RefOK, Bit
<1> QED  BY <1>1 DEF RefInv

LEMMA SendNotQueued ==
    ASSUME QueuedInv, NEW p \in Proc, NEW h, request[p][h].kind # "RECV"
    PROVE  ~ Queued(p, h)
BY DEF QueuedInv, QueuedOK, Queued

\* A send that is changed, and destroyed when nothing refers to it.
LEMMA PutSend ==
    ASSUME TypeInv, FreeInv, NEW p \in Proc, NEW h \in Handle, NEW m,
           NEW r, r = request[p][h], r.kind = "SEND", r.msg = m,
           NEW q \in Request, SameIdentity(r, q), r.cancel_pending => q.cancel_pending,
           Put(p, h, q), q.ref = Bit(q.user) + Bit(q.cc > 0),
           q.cc >= Bit(q.writing) + Bit(q.proto \in Waits /\ Unanswered(m)') + Bit(Cancelling(m)'),
           ~ Queued(p, h)'
    PROVE  /\ request' \in [Proc -> [Handle -> Request]] /\ OnlyRequest(p, h)
           /\ avail' \in [Proc -> Seq(Handle)] /\ FreeInv'
           /\ RefOK(p, h)'
           /\ KeptSend(p, h) \/ GoneSend(p, h)
           /\ request'[p][h].kind \in {"none", "SEND"}
           /\ request'[p][h].kind = "SEND" => request'[p][h] = q /\ SendCount(p, h, m)'
<1>1. /\ request' \in [Proc -> [Handle -> Request]] /\ OnlyRequest(p, h)
      /\ request'[p][h] = IF q.ref = 0 THEN Unused ELSE q
      /\ avail' \in [Proc -> Seq(Handle)] /\ FreeInv'
  BY PutFacts DEF SameIdentity
<1>2. q.kind = "SEND" /\ q.cc \in Int
  BY DEF SameIdentity, Request
<1> DEFINE A == q.proto \in Waits /\ Unanswered(m)'
           C == Cancelling(m)'
           W == q.writing
<1>3. q.cc >= Bit(W) + Bit(A) + Bit(C)
  OBVIOUS
<1>4. CASE q.ref = 0
  <2>1. request'[p][h] = Unused
    BY <1>1, <1>4
  <2>2. ~ q.cc > 0
    BY <1>4 DEF Bit
  <2>3. ~ A /\ ~ C
    <3> HIDE DEF A, C, W
    <3> QED  BY <1>2, <1>3, <2>2 DEF Bit
  <2>4. GoneSend(p, h)
    BY <2>1, <2>3, UnusedFacts DEF GoneSend, SameIdentity
  <2>5. RefOK(p, h)'
    BY <2>1, UnusedFacts DEF RefOK, Bit
  <2> QED  BY <1>1, <2>1, <2>4, <2>5, UnusedFacts
<1>5. CASE q.ref # 0
  <2>1. request'[p][h] = q
    BY <1>1, <1>5
  <2>2. KeptSend(p, h)
    BY <2>1, <1>2 DEF KeptSend, SameIdentity
  <2>3. RefOK(p, h)'
    BY <2>1, <1>2, <1>5 DEF RefOK, Bit
  <2>4. SendCount(p, h, m)'
    BY <1>3, <2>1 DEF SendCount
  <2> QED  BY <1>1, <1>2, <2>1, <2>2, <2>3, <2>4
<1> QED  BY <1>4, <1>5

\* A step that changes one request leaves what packets say of the other sends.
LEMMA SendsKeepOne ==
    ASSUME sent \in [Proc -> Nat], sent' = sent, asked \subseteq asked',
           NEW p \in Proc, NEW h \in Handle, OnlyRequest(p, h), IsSendRequest(p, h),
           KeptSend(p, h) \/ GoneSend(p, h)
    PROVE  SendsKeep
<1>1. ASSUME NEW o \in Proc, NEW g \in Handle, o # p \/ g # h
      PROVE  /\ IsSendRequest(o, g) => KeptSend(o, g)
             /\ ~ IsSendRequest(o, g) => request'[o][g].kind # "SEND"
  BY <1>1 DEF OnlyRequest, KeptSend, IsSendRequest
<1>2. \A o \in Proc : sent[o] \in Nat /\ sent'[o] \in Nat /\ sent[o] <= sent'[o]
  OBVIOUS
<1> QED  BY <1>1, <1>2 DEF SendsKeep

LEMMA SendsKeepAll ==
    ASSUME sent \in [Proc -> Nat], sent' = sent, asked \subseteq asked',
           NEW p \in Proc, NEW h \in Handle, OnlyRequest(p, h), ~ IsSendRequest(p, h),
           request'[p][h].kind # "SEND"
    PROVE  SendsKeep /\ NoNewSend
<1>1. ASSUME NEW o \in Proc, NEW g \in Handle
      PROVE  /\ IsSendRequest(o, g) => KeptSend(o, g)
             /\ ~ IsSendRequest(o, g) => request'[o][g].kind # "SEND"
  BY <1>1 DEF OnlyRequest, KeptSend, IsSendRequest
<1>2. \A o \in Proc : sent[o] \in Nat /\ sent'[o] \in Nat /\ sent[o] <= sent'[o]
  OBVIOUS
<1> QED  BY <1>1, <1>2 DEF SendsKeep, NoNewSend

\* Two sends have two messages.
LEMMA SendsDiffer ==
    ASSUME ShapeInv, NEW p \in Proc, NEW h \in Handle, NEW o \in Proc, NEW g \in Handle,
           NEW m, NEW n, IsSend(p, h, m), IsSend(o, g, n), o # p \/ g # h
    PROVE  m # n
BY DEF ShapeInv, SendShape, IsSend, IsSendRequest

-----------------------------------------------------------------------------
\* A step that changes the send h of p, of the message m, to q, and leaves the
\* envelopes and the receives as they are.
SendStep(p, h, m, q) ==
    /\ IsSend(p, h, m) /\ q \in Request /\ SameIdentity(request[p][h], q)
    /\ request[p][h].cancel_pending => q.cancel_pending
    /\ Put(p, h, q)
    /\ q.ref = Bit(q.user) + Bit(q.cc > 0)
    /\ q.cc >= Bit(q.writing) + Bit(q.proto \in Waits /\ Unanswered(m)') + Bit(Cancelling(m)')
    /\ ~ q.cancel_pending => fate[m] # "cancelled"
    /\ q.cancel_pending /\ q.proto # "noncontig" =>
          \/ Cancelling(m)'
          \/ fate[m] = IF q.cancelled THEN "cancelled" ELSE "matched"
    /\ \A n \in Message : n # m => (Unanswered(n)' => Unanswered(n)) /\ (Cancelling(n)' <=> Cancelling(n))
    /\ \A a, b \in Proc : \A k : k.type \in EnvelopeTypes => (k \in Packets(a, b)' <=> k \in Packets(a, b))
    /\ posted' = posted /\ unexpected' = unexpected /\ reading' = reading
    /\ sent' = sent /\ fate' = fate /\ asked \subseteq asked' /\ calls' = calls

\* A step that changes a send, and consumes or emits packets: each part of the
\* invariant, then all of it.
LEMMA SendStepSide ==
    ASSUME ReceiverInv, SenderInv, RequestInv,
           NEW p \in Proc, NEW h \in Handle, NEW m, NEW q, SendStep(p, h, m, q)
    PROVE  /\ SendSide(p, h) /\ NoNewSend /\ m \in Message
           /\ TypeInv' /\ FreeInv' /\ RefInv'
           /\ request'[p][h].kind = "SEND" => request'[p][h] = q /\ SendCount(p, h, m)'
<1> DEFINE r == request[p][h]
<1>1. /\ TypeInv /\ FreeInv /\ RefInv /\ QueuedInv /\ ShapeInv
      /\ sent \in [Proc -> Nat] /\ sent' = sent /\ asked \subseteq asked'
  BY DEF ReceiverInv, SenderInv, RequestInv, TypeInv, SendStep
<1>2. r.kind = "SEND" /\ r.msg = m /\ SendShape(p, h) /\ IsSendRequest(p, h) /\ m \in Message
  BY <1>1 DEF SendStep, IsSend, IsSendRequest, ShapeInv, SendShape
<1>3. \A o \in Proc : \A g : Queued(o, g)' <=> Queued(o, g)
  BY DEF SendStep, Queued, Messages
<1>4. ~ Queued(p, h)'
  BY <1>1, <1>2, <1>3, SendNotQueued
<1>5. /\ request' \in [Proc -> [Handle -> Request]] /\ OnlyRequest(p, h)
      /\ avail' \in [Proc -> Seq(Handle)] /\ FreeInv'
      /\ RefOK(p, h)'
      /\ KeptSend(p, h) \/ GoneSend(p, h)
      /\ request'[p][h].kind \in {"none", "SEND"}
      /\ request'[p][h].kind = "SEND" => request'[p][h] = q /\ SendCount(p, h, m)'
  BY <1>1, <1>2, <1>4, PutSend DEF SendStep
<1>6. SendsKeep
  BY <1>1, <1>2, <1>5, SendsKeepOne
<1>7. NoNewSend
  BY <1>2, <1>5 DEF NoNewSend, OnlyRequest, IsSendRequest
<1>8. SendSide(p, h)
  BY <1>2, <1>5, <1>6 DEF SendSide, SendStep, Settles
<1>9. TypeInv'
  BY <1>1, <1>5 DEF TypeInv, SendStep
<1>10. RefInv'
  BY <1>1, <1>3, <1>5, RefStays
<1> QED  BY <1>2, <1>5, <1>7, <1>8, <1>9, <1>10

LEMMA SendStepSenders ==
    ASSUME ReceiverInv, SenderInv, RequestInv,
           NEW p \in Proc, NEW h \in Handle, NEW m, NEW q, SendStep(p, h, m, q)
    PROVE  SenderInv'
<1>1. /\ SendSide(p, h) /\ NoNewSend /\ m \in Message /\ TypeInv' /\ SendsKeep
      /\ request'[p][h].kind = "SEND" => request'[p][h] = q /\ SendCount(p, h, m)'
  BY SendStepSide DEF SendSide
<1>2. /\ ShapeInv /\ CountInv /\ KeptInv /\ CancelInv /\ FirstInv
      /\ TypeInv /\ QueuedInv /\ QueueOrder /\ PostedOrder
  BY DEF ReceiverInv, SenderInv, RequestInv
<1>3. ShapeInv'
  <2>1. \A n \in Message : fate[n] # "unsent" => fate'[n] # "unsent"
    BY DEF SendStep
  <2> QED  BY <1>1, <1>2, <2>1, ShapeInvStays DEF TypeInv
<1>4. ASSUME NEW o \in Proc, NEW g \in Handle, NEW n \in Message, IsSend(o, g, n)'
      PROVE  SendCount(o, g, n)' /\ SendCancel(o, g, n)'
  <2>1. IsSend(o, g, n) /\ KeptSend(o, g)
    BY <1>1, <1>4, SendBefore
  <2>2. SendCount(o, g, n) /\ SendCancel(o, g, n)
    BY <1>2, <2>1 DEF CountInv, CancelInv
  <2>3. CASE o = p /\ g = h
    <3>1. n = m /\ request'[p][h] = q
      BY <1>1, <1>4, <2>1, <2>3 DEF SendStep, IsSend
    <3>2. SendCancel(p, h, m)'
      BY <3>1 DEF SendCancel, SendStep
    <3> QED  BY <1>1, <1>4, <2>3, <3>1, <3>2 DEF IsSend
  <2>4. CASE o # p \/ g # h
    <3>1. request'[o][g] = request[o][g] /\ request[o][g] \in Request
      BY <1>1, <1>2, <2>4 DEF SendSide, OnlyRequest, TypeInv
    <3>2. n # m
      BY <1>2, <2>1, <2>4, SendsDiffer DEF SendStep
    <3>3. (Unanswered(n)' => Unanswered(n)) /\ (Cancelling(n)' <=> Cancelling(n))
      BY <3>2 DEF SendStep
    <3>4. SendCount(o, g, n)'
      BY <2>2, <3>1, <3>3, CountStays
    <3>5. fate' = fate /\ Settles(n)
      BY DEF SendStep, Settles
    <3>6. SendCancel(o, g, n)'
      BY <2>2, <3>1, <3>3, <3>5, CancelStays
    <3> QED  BY <3>4, <3>6
  <2> QED  BY <2>3, <2>4
<1>5. CountInv' /\ CancelInv'
  BY <1>4 DEF CountInv, CancelInv
<1>6. /\ \A o \in Proc : Messages(o)' = Messages(o)
      /\ \A o \in Proc : \A e \in Messages(o) : request'[o][e.rreq] = request[o][e.rreq]
  BY <1>1, <1>2, SendSideQueues
<1>7. KeptInv'
  <2>1. \A a, b \in Proc, n \in Message :
              /\ fate'[n] = "sent" => fate[n] = "sent"
              /\ \A k \in Packets(a, b) : k.type \in EnvelopeTypes /\ k.msg = n /\ fate'[n] = "sent"
                    => \/ k \in Packets(a, b)'
                       \/ \E e \in Messages(b)' : request'[b][e.rreq].msg = n
              /\ \A e \in Messages(b) : request[b][e.rreq].msg = n /\ fate'[n] = "sent"
                    => e \in Messages(b)' /\ request'[b][e.rreq].msg = n
    BY <1>6 DEF SendStep
  <2> QED  BY <1>1, <1>2, <2>1, KeptInvStays
<1>8. FirstInv'
  <2>1. \A b \in Proc : \A e \in Messages(b)' : e \in Messages(b) /\ SameMessage(b, e)
    BY <1>6 DEF SameMessage
  <2>2. \A a, b \in Proc : \A k \in Packets(a, b)' : k.type \in EnvelopeTypes => k \in Packets(a, b)
    BY DEF SendStep
  <2>3. fate' = fate
    BY DEF SendStep
  <2>4. \A a, b \in Proc, g \in Handle, n \in Message, tag \in Tag :
              IsSend(a, g, n) /\ request[a][g].peer = b /\ request[a][g].tag = tag
              /\ fate'[n] = "matched" /\ fate[n] # "matched"
                    => FirstNext(a, b, tag, n)
    BY <2>3
  <2>5. \A b \in Proc : \A e \in Messages(b)' :
              \/ e \in Messages(b) /\ SameMessage(b, e)
              \/ \E k \in Packets(e.match.rank, b) :
                    /\ k.type \in EnvelopeTypes /\ k.match = e.match
                    /\ request'[b][e.rreq].msg = k.msg
    BY <2>1
  <2> QED  BY <1>1, <1>2, <2>2, <2>4, <2>5, FirstInvStays
<1> QED  BY <1>3, <1>5, <1>7, <1>8 DEF SenderInv

\* A message that waits is from a process that sends.
LEMMA QueuedRank ==
    ASSUME NEW d, NEW e, QueuedOK(d, e)
    PROVE  /\ e.match.rank = request[d][e.rreq].peer /\ e.match.rank \in Proc
           /\ request[d][e.rreq].msg \in Message
<1> DEFINE r == request[d][e.rreq]
<1>1. Link(r.peer, d, r.msg, r.proto, r.sender_req_id) /\ e.match = Match(r.peer, e.match.tag)
  BY DEF QueuedOK, Holds
<1>2. r.peer \in Sender /\ r.msg \in Message
  BY <1>1, Zenon DEF Link
<1> HIDE DEF r
<1>3. ASSUME NEW x, NEW t PROVE Match(x, t).rank = x
  BY DEF Match
<1>4. e.match.rank = r.peer
  BY <1>1, <1>3
<1> QED  BY <1>2, <1>4, BoundAssumption DEF r

LEMMA SendStepKeeps ==
    ASSUME ReceiverInv, SenderInv, RequestInv,
           NEW p \in Proc, NEW h \in Handle, NEW m, NEW q, SendStep(p, h, m, q)
    PROVE  ReceiverInv' /\ SenderInv' /\ RequestInv' /\ SendSide(p, h)
<1>1. /\ SendSide(p, h) /\ TypeInv' /\ FreeInv' /\ RefInv'
  BY SendStepSide
<1>2. SenderInv'
  BY SendStepSenders
<1>3. /\ TypeInv /\ QueuedInv /\ QueueOrder /\ PostedOrder /\ ProbedInv /\ ListedInv /\ ReadingInv
      /\ LaterInv /\ CallsInv /\ UnsentInv /\ AskedInv
  BY DEF ReceiverInv, RequestInv
<1>4. /\ QueueOrder' /\ PostedOrder'
      /\ \A o \in Proc : Messages(o)' = Messages(o)
      /\ \A o \in Proc : \A e \in Messages(o) : request'[o][e.rreq] = request[o][e.rreq]
  BY <1>1, <1>3, SendSideQueues
<1>5. QueuedInv' /\ ProbedInv' /\ ListedInv' /\ ReadingInv'
  BY <1>1, <1>3, SendSideReceivers
<1>6. LaterInv'
  <2>1. ASSUME NEW d \in Proc, NEW e \in Messages(d)', NEW k \in Packets(e.match.rank, d)',
               k.type \in EnvelopeTypes
        PROVE  request'[d][e.rreq].msg[2] < k.msg[2]
    <3>1. e \in Messages(d) /\ request'[d][e.rreq] = request[d][e.rreq] /\ QueuedOK(d, e)
      BY <1>3, <1>4 DEF QueuedInv
    <3>2. e.match.rank \in Proc
      BY <3>1, QueuedRank
    <3>3. k \in Packets(e.match.rank, d)
      BY <2>1, <3>2 DEF SendStep
    <3> QED  BY <1>3, <2>1, <3>1, <3>3 DEF LaterInv
  <2> QED  BY <2>1 DEF LaterInv
<1>7. CallsInv' /\ UnsentInv' /\ AskedInv'
  BY <1>3 DEF SendStep, CallsInv, UnsentInv, AskedInv
<1> QED  BY <1>1, <1>2, <1>4, <1>5, <1>6, <1>7 DEF ReceiverInv, RequestInv

-----------------------------------------------------------------------------
\* Where a message and its cancellation are, when one request changes.

\* The next lemmas follow a question whether to cancel, and the places of messages.
LEMMA UnansweredBefore ==
    ASSUME NEW p \in Proc, NEW h \in Handle, OnlyRequest(p, h), request'[p][h].kind # "MPROBE",
           NEW n \in Message, fate'[n] = "sent" => fate[n] = "sent",
           \A d \in Proc : \A k \in Packets(d, n[1])' :
              k.type \in AnswerTypes \/ k.type = "CANCEL_SEND_RESP" => k \in Packets(d, n[1]),
           Unanswered(n)'
    PROVE  Unanswered(n)
<1>1. CASE fate'[n] = "sent"
  BY <1>1 DEF Unanswered
<1>2. CASE \E d \in Proc, g \in Handle : request'[d][g].kind = "MPROBE" /\ request'[d][g].msg = n
  BY <1>2 DEF Unanswered, OnlyRequest
<1>3. CASE \E d \in Proc : \E k \in Packets(d, n[1])' :
              k.msg = n /\ (k.type \in AnswerTypes \/ (k.type = "CANCEL_SEND_RESP" /\ k.ack))
  BY <1>3 DEF Unanswered
<1> QED  BY <1>1, <1>2, <1>3 DEF Unanswered

CancelTypes == {"CANCEL_SEND_REQ", "CANCEL_SEND_RESP"}

LEMMA CancellingSame ==
    ASSUME NEW n \in Message,
           \A a, b \in Proc : \A k :
              k.type \in CancelTypes /\ k.msg = n => (k \in Packets(a, b)' <=> k \in Packets(a, b))
    PROVE  Cancelling(n)' <=> Cancelling(n)
<1>1. n[1] \in Proc
  BY MessageFacts
<1>2. ASSUME NEW d \in Proc, NEW k PROVE CancelPacket(d, n, k)' <=> CancelPacket(d, n, k)
  BY <1>1 DEF CancelPacket, CancelTypes
<1>3. Cancelling(n) <=> \E d \in Proc : \E k : CancelPacket(d, n, k)
  BY DEF Cancelling, CancelPacket
<1>4. Cancelling(n)' <=> \E d \in Proc : \E k : CancelPacket(d, n, k)'
  BY DEF Cancelling, CancelPacket
<1> QED  BY <1>2, <1>3, <1>4

LEMMA CancelOnceSame ==
    ASSUME CancelOnce,
           \A a, b \in Proc : \A k : k.type \in CancelTypes => (k \in Packets(a, b)' => k \in Packets(a, b))
    PROVE  CancelOnce'
<1>1. ASSUME NEW m \in Message, NEW d \in Proc, NEW k, CancelPacket(d, m, k)' PROVE CancelPacket(d, m, k)
  <2>1. m[1] \in Proc
    BY MessageFacts
  <2> QED  BY <1>1, <2>1 DEF CancelPacket, CancelTypes
<1> QED  BY <1>1, CancelOnceStays

LEMMA SendSidePlaces ==
    ASSUME NEW p \in Proc, NEW h \in Handle, SendSide(p, h), TypeInv,
           QueuedInv, QueueOrder, PostedOrder, ReadingInv,
           NEW n \in Message, NEW o \in Proc, NEW w, NEW x, Place(o, n, w, x)',
           w \in {"envelope", "data"} => x \in Packets(n[1], o),
           w = "answered" => x \in Packets(o, n[1])
    PROVE  Place(o, n, w, x)
<1>1. /\ \A d \in Proc : \A g : Queued(d, g)' <=> Queued(d, g)
      /\ \A d \in Proc : \A e \in Messages(d) : request'[d][e.rreq] = request[d][e.rreq]
  BY SendSideQueues
<1>2. CASE w = "queued"
  <2>1. Queued(o, x)' /\ request'[o][x].msg = n
    BY <1>2 DEF Place
  <2>2. Queued(o, x) /\ request'[o][x] = request[o][x]
    BY <1>1, <2>1 DEF Queued
  <2> QED  BY <1>2, <2>1, <2>2 DEF Place
<1>3. CASE w = "probed"
  <2>1. x \in Handle /\ request'[o][x].kind = "MPROBE" /\ request'[o][x].msg = n
    BY <1>3 DEF Place
  <2>2. request'[o][x] = request[o][x]
    BY <2>1, SendSideRequests
  <2> QED  BY <1>3, <2>1, <2>2 DEF Place
<1>4. CASE w = "reading"
  <2>1. x = reading'[o][n[1]] /\ x # None /\ request'[o][x].proto = "rndv" /\ request'[o][x].msg = n
    BY <1>4 DEF Place
  <2>2. n[1] \in Proc /\ x = reading[o][n[1]] /\ x \in Handle
    BY <2>1, MessageFacts DEF SendSide, TypeInv
  <2>3. ReadingOK(o, n[1])
    BY <2>2 DEF ReadingInv
  <2>4. request'[o][x] = request[o][x]
    BY <2>1, <2>2, <2>3, SendSideRequests DEF ReadingOK
  <2> QED  BY <1>4, <2>1, <2>2, <2>4 DEF Place
<1>5. CASE w \in {"envelope", "answered", "data"}
  BY <1>5 DEF Place
<1> QED  BY <1>2, <1>3, <1>4, <1>5 DEF Place

-----------------------------------------------------------------------------
\* What the packet an answer is in says of where the message is.

LEMMA AnswerAlone ==
    ASSUME OnePlace, ShapeInv, PacketInv, ProbedInv, NEW s \in Proc, NEW d \in Proc,
           NEW k \in Packets(s, d), k.type \in AnswerTypes
    PROVE  /\ AnswerOK(s, d, k) /\ s # d /\ k.msg \in Message /\ k.msg[1] = d
           /\ \A o \in Proc, g \in Handle :
                 ~ (request[o][g].kind = "MPROBE" /\ request[o][g].msg = k.msg)
           /\ \A o \in Proc : \A x \in Packets(o, d) :
                 x.msg = k.msg /\ x.type \in AnswerTypes => o = s /\ x = k
           /\ \A o \in Proc : \A x \in Packets(o, d) :
                 x.msg = k.msg /\ x.type = "CANCEL_SEND_RESP" => ~ x.ack
           /\ \A o \in Proc : \A x \in Packets(d, o) : ~ (x.msg = k.msg /\ x.type = "RNDV_SEND")
<1> DEFINE m == k.msg
           h == k.sender_req_id
<1>1. PacketOK(s, d, k)
  BY DEF PacketInv
<1>2. s # d /\ AnswerOK(s, d, k)
  BY <1>1 DEF PacketOK, AnswerTypes, EnvelopeTypes
<1>3. IsSend(d, h, m) /\ fate[m] = "matched" /\ request[d][h].proto \in Waits
  BY <1>2 DEF AnswerOK, Waits
<1>4. m \in Message /\ m[1] = d /\ \A g \in Handle : IsSend(d, g, m) => g = h
  BY <1>3 DEF ShapeInv, SendShape, IsSend, IsSendRequest
<1>5. Place(s, m, "answered", k)
  BY <1>4 DEF Place
<1> HIDE DEF m, h
<1>6. \A o \in Proc, g \in Handle : ~ (request[o][g].kind = "MPROBE" /\ request[o][g].msg = m)
  <2>1. ASSUME NEW o \in Proc, NEW g \in Handle, request[o][g].kind = "MPROBE", request[o][g].msg = m
        PROVE  FALSE
    <3>1. Place(o, m, "probed", g)
      BY <2>1 DEF Place
    <3> QED  BY <1>4, <1>5, <3>1 DEF OnePlace
  <2> QED  BY <2>1
<1>7. ASSUME NEW o \in Proc, NEW x \in Packets(o, d), x.msg = m, x.type \in AnswerTypes
      PROVE  o = s /\ x = k
  <2>1. Place(o, m, "answered", x)
    BY <1>4, <1>7 DEF Place
  <2> QED  BY <1>4, <1>5, <2>1 DEF OnePlace
<1>8. ASSUME NEW o \in Proc, NEW x \in Packets(o, d), x.msg = m, x.type = "CANCEL_SEND_RESP"
      PROVE  ~ x.ack
  <2>1. PacketOK(o, d, x)
    BY DEF PacketInv
  <2>2. CancelRespOK(o, d, x)
    BY <1>8, <2>1 DEF PacketOK, AnswerTypes, EnvelopeTypes
  <2>3. IsSend(d, x.sender_req_id, m) /\ x.sender_req_id = h
    BY <1>4, <1>8, <2>2 DEF CancelRespOK, IsSend
  <2> QED  BY <1>3, <1>8, <2>2, <2>3 DEF CancelRespOK, Waits
<1>9. ASSUME NEW o \in Proc, NEW x \in Packets(d, o), x.msg = m, x.type = "RNDV_SEND"
      PROVE  FALSE
  <2>1. Place(o, m, "data", x)
    BY <1>4, <1>9 DEF Place
  <2> QED  BY <1>4, <1>5, <2>1 DEF OnePlace
<1>10. /\ \A o \in Proc : \A x \in Packets(o, d) : x.msg = m /\ x.type \in AnswerTypes => o = s /\ x = k
       /\ \A o \in Proc : \A x \in Packets(o, d) : x.msg = m /\ x.type = "CANCEL_SEND_RESP" => ~ x.ack
       /\ \A o \in Proc : \A x \in Packets(d, o) : ~ (x.msg = m /\ x.type = "RNDV_SEND")
  BY <1>7, <1>8, <1>9
<1> QED  BY <1>2, <1>4, <1>6, <1>10 DEF m

-----------------------------------------------------------------------------
\* The steps of a sender, but the send itself.

\* What the invariant says of a send.
LEMMA SendFacts ==
    ASSUME PtParts, NEW p \in Proc, NEW h, NEW m, IsSend(p, h, m), NEW r, r = request[p][h]
    PROVE  /\ r \in Request /\ r.kind = "SEND" /\ r.msg = m /\ m \in Message /\ m[1] = p
           /\ r.peer \in Proc \ {p} /\ r.proto \in Kind /\ r.tag \in Tag /\ fate[m] # "unsent"
           /\ m[2] <= sent[p]
           /\ \A g \in Handle : IsSend(p, g, m) => g = h
           /\ r.ref = Bit(r.user) + Bit(r.cc > 0)
           /\ r.cc \in Int /\ r.cc >= 0
           /\ r.cc >= Bit(r.writing) + Bit(r.proto \in Waits /\ Unanswered(m)) + Bit(Cancelling(m))
           /\ SendCancel(p, h, m)
<1>1. h \in Handle /\ r \in Request /\ r.kind = "SEND" /\ r.msg = m /\ r.cc \in Int
  BY DEF PtParts, RequestInv, TypeInv, IsSend, Request
<1>2. IsSendRequest(p, h) /\ RefOK(p, h) /\ ~ Queued(p, h)
  BY <1>1, SendNotQueued DEF PtParts, RequestInv, ReceiverInv, RefInv, IsSendRequest
<1>3. /\ m \in Message /\ m[1] = p /\ m[2] <= sent[p]
      /\ r.peer \in Proc \ {p} /\ r.proto \in Kind /\ r.tag \in Tag /\ fate[m] # "unsent"
      /\ \A g \in Handle : IsSend(p, g, m) => g = h
  BY <1>1, <1>2 DEF PtParts, SenderInv, ShapeInv, SendShape
<1>4. SendCount(p, h, m) /\ SendCancel(p, h, m)
  BY <1>1, <1>3 DEF PtParts, SenderInv, CountInv, CancelInv
<1>5. r.ref = Bit(r.user) + Bit(r.cc > 0)
  BY <1>2 DEF RefOK, Bit
<1> DEFINE A == r.proto \in Waits /\ Unanswered(m)
           C == Cancelling(m)
           W == r.writing
<1>6. r.cc >= Bit(W) + Bit(A) + Bit(C)
  BY <1>4 DEF SendCount
<1>7. r.cc >= 0
  <2> HIDE DEF A, C, W
  <2> QED  BY <1>1, <1>6 DEF Bit
<1> QED  BY <1>1, <1>3, <1>4, <1>5, <1>6, <1>7

\* A packet that was on its way before a step of a sender.
LEMMA SendStepPacket ==
    ASSUME PtParts, NEW p \in Proc, NEW h \in Handle, NEW m, NEW q, SendStep(p, h, m, q),
           NEW s \in Proc, NEW d \in Proc, NEW k, k \in Packets(s, d), k \in Packets(s, d)'
    PROVE  PacketOK(s, d, k)'
<1>1. SendSide(p, h)
  BY SendStepSide DEF PtParts
<1>2. \A n \in Message : fate'[n] = "cancelled" => fate[n] = "cancelled"
  BY DEF SendStep
<1> QED  BY <1>1, <1>2, SendSidePackets
         DEF PtParts, ReceiverInv, SenderInv, RequestInv, NetInv

LEMMA SendStepPlace ==
    ASSUME PtParts, NEW p \in Proc, NEW h \in Handle, NEW m, NEW q, SendStep(p, h, m, q),
           NEW n \in Message, NEW o \in Proc, NEW w, NEW x, Place(o, n, w, x)',
           w \in {"envelope", "data"} => x \in Packets(n[1], o),
           w = "answered" => x \in Packets(o, n[1])
    PROVE  Place(o, n, w, x)
<1>1. SendSide(p, h)
  BY SendStepSide DEF PtParts
<1> QED  BY <1>1, SendSidePlaces DEF PtParts, ReceiverInv, RequestInv

\* No packet is new.
LEMMA SendNet ==
    ASSUME PtParts, NEW p \in Proc, NEW h \in Handle, NEW m, NEW q, SendStep(p, h, m, q),
           NetOK', NetOrder', \A a, b \in Proc : Packets(a, b)' \subseteq Packets(a, b)
    PROVE  PtParts'
<1>1. ReceiverInv' /\ SenderInv' /\ RequestInv'
  BY SendStepKeeps DEF PtParts
<1>2. ASSUME NEW s \in Proc, NEW d \in Proc, NEW k \in Packets(s, d)' PROVE PacketOK(s, d, k)'
  BY <1>2, SendStepPacket
<1>3. PacketInv'
  BY <1>2 DEF PacketInv
<1>4. ASSUME NEW n \in Message, NEW o \in Proc, NEW w, NEW x, Place(o, n, w, x)'
      PROVE  Place(o, n, w, x)
  <2>1. n[1] \in Proc
    BY MessageFacts
  <2>2. w \in {"envelope", "data"} => x \in Packets(n[1], o)
    BY <1>4, <2>1 DEF Place
  <2>3. w = "answered" => x \in Packets(o, n[1])
    BY <1>4, <2>1 DEF Place
  <2> QED  BY <1>4, <2>2, <2>3, SendStepPlace
<1>5. OnePlace'
  BY <1>4, OnePlaceStays DEF PtParts, NetInv
<1>6. CancelOnce'
  BY CancelOnceSame DEF PtParts, NetInv
<1> QED  BY <1>1, <1>3, <1>5, <1>6 DEF PtParts, NetInv

\* A send changes and no packet does.
LEMMA QuietSend ==
    ASSUME PtParts, NEW p \in Proc, NEW h \in Handle, NEW m, IsSend(p, h, m),
           NEW r, r = request[p][h], NEW q \in Request, SameIdentity(r, q),
           q.cancel_pending = r.cancel_pending, q.cancelled = r.cancelled,
           Put(p, h, q), q.ref = Bit(q.user) + Bit(q.cc > 0),
           q.cc >= Bit(q.writing) + Bit(r.proto \in Waits /\ Unanswered(m)) + Bit(Cancelling(m)),
           posted' = posted, unexpected' = unexpected, net' = net, reading' = reading,
           sent' = sent, fate' = fate, asked' = asked, calls' = calls
    PROVE  PtParts'
<1>1. /\ r.kind = "SEND" /\ r.msg = m /\ m \in Message /\ SendCancel(p, h, m)
  BY SendFacts
<1>2. OnlyRequest(p, h) /\ request'[p][h] = IF q.ref = 0 THEN Unused ELSE q
  BY <1>1, PutFacts DEF PtParts, RequestInv, SameIdentity
<1>3. request'[p][h].kind # "MPROBE" /\ q.kind = "SEND" /\ q.cc \in Int /\ q.proto = r.proto
  BY <1>1, <1>2, UnusedFacts DEF SameIdentity, Request
<1>4. NetOK' /\ NetOrder' /\ \A a, b \in Proc : Packets(a, b)' = Packets(a, b)
  BY SameNet DEF PtParts, NetInv
<1>5. ASSUME NEW n \in Message
      PROVE  (Unanswered(n)' => Unanswered(n)) /\ (Cancelling(n)' <=> Cancelling(n))
  <2>1. n[1] \in Proc
    BY MessageFacts
  <2>2. Unanswered(n)' => Unanswered(n)
    BY <1>2, <1>3, <1>4, <2>1, UnansweredBefore
  <2>3. Cancelling(n)' <=> Cancelling(n)
    BY <1>4, CancellingSame
  <2> QED  BY <2>2, <2>3
<1>6. q.cc >= Bit(q.writing) + Bit(q.proto \in Waits /\ Unanswered(m)') + Bit(Cancelling(m)')
  <2> DEFINE A == q.proto \in Waits /\ Unanswered(m)
             B == q.proto \in Waits /\ Unanswered(m)'
             C == Cancelling(m)
             D == Cancelling(m)'
             W == q.writing
  <2>1. (B => A) /\ (D => C) /\ q.cc >= Bit(W) + Bit(A) + Bit(C)
    BY <1>1, <1>3, <1>5
  <2>2. q.cc >= Bit(W) + Bit(B) + Bit(D)
    <3> HIDE DEF A, B, C, D, W
    <3> QED  BY <1>3, <2>1 DEF Bit
  <2> QED  BY <2>2
<1>7. /\ ~ q.cancel_pending => fate[m] # "cancelled"
      /\ q.cancel_pending /\ q.proto # "noncontig" =>
          \/ Cancelling(m)'
          \/ fate[m] = IF q.cancelled THEN "cancelled" ELSE "matched"
  BY <1>1, <1>3, <1>5 DEF SendCancel
<1>8. SendStep(p, h, m, q)
  BY <1>4, <1>5, <1>6, <1>7 DEF SendStep
<1> QED  BY <1>4, <1>8, SendNet

\* The end of a write, the answers to a send, and the answer to MPI_Cancel keep
\* the invariant.
LEMMA WriteDoneKeeps ==
    ASSUME PtParts, NEW p \in Proc, NEW h \in Handle, WriteDone(p, h)
    PROVE  PtParts'
<1> DEFINE r == request[p][h]
           w == [r EXCEPT !.writing = FALSE]
           q == Completed(w)
           m == r.msg
<1>1. r.writing /\ Put(p, h, q)
      /\ posted' = posted /\ unexpected' = unexpected /\ net' = net /\ reading' = reading
      /\ sent' = sent /\ fate' = fate /\ asked' = asked /\ calls' = calls
  BY DEF WriteDone
<1>2. r \in Request /\ r.kind = "SEND"
  BY <1>1 DEF PtParts, RequestInv, TypeInv, RefInv, RefOK
<1>3. IsSend(p, h, m)
  BY <1>2 DEF IsSend
<1>4. /\ w \in Request /\ SameIdentity(r, w) /\ w.writing = FALSE
      /\ w.cancel_pending = r.cancel_pending /\ w.cancelled = r.cancelled
      /\ w.user = r.user /\ w.cc = r.cc /\ w.ref = r.ref
  BY <1>2, WritingFacts
<1> HIDE DEF r, w
<1>5. /\ q \in Request /\ SameIdentity(w, q) /\ SameFlags(w, q)
      /\ q.user = w.user /\ q.cc = w.cc - 1
      /\ q.ref = IF w.cc = 1 THEN w.ref - 1 ELSE w.ref
  BY <1>4, CompletedFacts
<1> HIDE DEF q
<1>6. SameIdentity(r, q) /\ q.cancel_pending = r.cancel_pending /\ q.cancelled = r.cancelled
      /\ q.writing = FALSE
  BY <1>4, <1>5 DEF SameIdentity, SameFlags
<1>7. /\ r.ref = Bit(r.user) + Bit(r.cc > 0) /\ r.cc \in Int
      /\ r.cc >= Bit(r.writing) + Bit(r.proto \in Waits /\ Unanswered(m)) + Bit(Cancelling(m))
  BY <1>3, SendFacts DEF r
<1> DEFINE A == r.proto \in Waits /\ Unanswered(m)
           C == Cancelling(m)
<1>8. r.cc >= 1 /\ q.cc >= Bit(q.writing) + Bit(A) + Bit(C)
  <2>1. r.cc >= Bit(r.writing) + Bit(A) + Bit(C)
    BY <1>7
  <2> HIDE DEF A, C
  <2> QED  BY <1>1, <1>4, <1>5, <1>6, <1>7, <2>1 DEF Bit
<1>9. q.ref = Bit(q.user) + Bit(q.cc > 0)
  BY <1>4, <1>5, <1>7, <1>8 DEF Bit
<1> QED  BY <1>1, <1>3, <1>5, <1>6, <1>8, <1>9, QuietSend DEF r

\* The user's reference to a send goes.
LEMMA ReleaseSend ==
    ASSUME PtParts, NEW p \in Proc, NEW h \in Handle, request[p][h].kind = "SEND",
           Wait(p, h) \/ RequestFree(p, h)
    PROVE  PtParts'
<1> DEFINE r == request[p][h]
           w == [r EXCEPT !.user = FALSE]
           q == Released(w)
           m == r.msg
<1>1. r.user /\ Put(p, h, q)
      /\ posted' = posted /\ unexpected' = unexpected /\ net' = net /\ reading' = reading
      /\ sent' = sent /\ fate' = fate /\ asked' = asked /\ calls' = calls
  BY DEF Wait, RequestFree
<1>2. r \in Request /\ r.kind = "SEND"
  BY DEF PtParts, RequestInv, TypeInv
<1>3. IsSend(p, h, m)
  BY <1>2 DEF IsSend
<1>4. /\ w \in Request /\ SameIdentity(r, w) /\ SameFlags(r, w)
      /\ w.user = FALSE /\ w.cc = r.cc /\ w.ref = r.ref
  BY <1>2, UserFacts
<1> HIDE DEF r, w
<1>5. /\ q \in Request /\ SameIdentity(w, q) /\ SameFlags(w, q)
      /\ q.user = w.user /\ q.cc = w.cc /\ q.ref = w.ref - 1
  BY <1>4, ReleasedFacts
<1> HIDE DEF q
<1>6. SameIdentity(r, q) /\ q.cancel_pending = r.cancel_pending /\ q.cancelled = r.cancelled
      /\ q.writing = r.writing
  BY <1>4, <1>5 DEF SameIdentity, SameFlags
<1>7. /\ r.ref = Bit(r.user) + Bit(r.cc > 0) /\ r.cc \in Int
      /\ r.cc >= Bit(r.writing) + Bit(r.proto \in Waits /\ Unanswered(m)) + Bit(Cancelling(m))
  BY <1>3, SendFacts DEF r
<1>8. q.ref = Bit(q.user) + Bit(q.cc > 0)
  BY <1>1, <1>4, <1>5, <1>7 DEF Bit
<1>9. q.cc >= Bit(q.writing) + Bit(r.proto \in Waits /\ Unanswered(m)) + Bit(Cancelling(m))
  BY <1>4, <1>5, <1>6, <1>7
<1> QED  BY <1>1, <1>3, <1>5, <1>6, <1>8, <1>9, QuietSend DEF r

-----------------------------------------------------------------------------
\* The answers to a send.

\* Once the answer is taken, nobody has to tell the sender of it.
LEMMA AnswerTaken ==
    ASSUME PtParts, NEW s \in Proc, NEW d \in Proc, NEW k \in Packets(s, d), k.type \in AnswerTypes,
           NEW h \in Handle, OnlyRequest(d, h), request'[d][h].kind # "MPROBE", fate' = fate,
           \A a, b \in Proc : \A x : x.type \in AnswerTypes \union CancelTypes =>
              (x \in Packets(a, b)' <=> x \in Packets(a, b) /\ x # k)
    PROVE  /\ ~ Unanswered(k.msg)'
           /\ \A n \in Message : (Unanswered(n)' => Unanswered(n)) /\ (Cancelling(n)' <=> Cancelling(n))
<1>1. /\ AnswerOK(s, d, k) /\ k.msg \in Message /\ k.msg[1] = d
      /\ \A o \in Proc, g \in Handle :
            ~ (request[o][g].kind = "MPROBE" /\ request[o][g].msg = k.msg)
      /\ \A o \in Proc : \A x \in Packets(o, d) :
            x.msg = k.msg /\ x.type \in AnswerTypes => o = s /\ x = k
      /\ \A o \in Proc : \A x \in Packets(o, d) :
            x.msg = k.msg /\ x.type = "CANCEL_SEND_RESP" => ~ x.ack
  BY AnswerAlone DEF PtParts, NetInv, SenderInv, ReceiverInv
<1>2. fate'[k.msg] = "matched"
  BY <1>1 DEF AnswerOK
<1>3. \A o \in Proc, g \in Handle : ~ (request'[o][g].kind = "MPROBE" /\ request'[o][g].msg = k.msg)
  BY <1>1 DEF OnlyRequest
<1>4. ASSUME NEW o \in Proc, NEW x \in Packets(o, d)', x.msg = k.msg,
             x.type \in AnswerTypes \/ (x.type = "CANCEL_SEND_RESP" /\ x.ack)
      PROVE  FALSE
  <2>1. x \in Packets(o, d) /\ x # k
    BY <1>4 DEF CancelTypes
  <2> QED  BY <1>1, <1>4, <2>1
<1>5. ~ Unanswered(k.msg)'
  BY <1>1, <1>2, <1>3, <1>4 DEF Unanswered
<1>6. ASSUME NEW n \in Message PROVE Unanswered(n)' => Unanswered(n)
  <2>1. n[1] \in Proc
    BY MessageFacts
  <2>2. \A o \in Proc : \A x \in Packets(o, n[1])' :
           x.type \in AnswerTypes \/ x.type = "CANCEL_SEND_RESP" => x \in Packets(o, n[1])
    BY <2>1 DEF CancelTypes
  <2> QED  BY <2>2, UnansweredBefore
<1>7. ASSUME NEW n \in Message PROVE Cancelling(n)' <=> Cancelling(n)
  <2>1. k.type \notin CancelTypes
    BY DEF AnswerTypes, CancelTypes
  <2> QED  BY <2>1, CancellingSame
<1> QED  BY <1>5, <1>6, <1>7

LEMMA EagerSyncAckKeeps ==
    ASSUME PtParts, NEW s \in Proc, NEW d \in Proc, EagerSyncAck(s, d)
    PROVE  PtParts'
<1>k. PICK k : k = Head(net[s][d])
  OBVIOUS
<1>h. PICK h : h = k.sender_req_id
  OBVIOUS
<1>m. PICK m : m = k.msg
  OBVIOUS
<1>r. PICK r : r = request[d][h]
  OBVIOUS
<1>q. PICK q : q = Completed(r)
  OBVIOUS
<1>1. /\ net[s][d] # <<>> /\ k.type = "EAGER_SYNC_ACK" /\ Put(d, h, q) /\ Consume(s, d)
      /\ posted' = posted /\ unexpected' = unexpected /\ reading' = reading
      /\ sent' = sent /\ fate' = fate /\ asked' = asked /\ calls' = calls
  BY <1>k, <1>h, <1>r, <1>q DEF EagerSyncAck, Arrived
<1>2. /\ NetOK' /\ NetOrder' /\ k \in Packets(s, d)
      /\ \A a, b \in Proc :
                 Packets(a, b)' = IF a = s /\ b = d THEN Packets(a, b) \ {k}
                                                    ELSE Packets(a, b)
  BY <1>k, <1>1, ConsumeFacts DEF PtParts, NetInv
<1>3. k.type \in AnswerTypes
  BY <1>1 DEF AnswerTypes
<1>4. AnswerOK(s, d, k) /\ m \in Message /\ m[1] = d
      /\ \A o \in Proc : \A x \in Packets(o, d) :
            x.msg = m /\ x.type \in AnswerTypes => o = s /\ x = k
  BY <1>m, <1>2, <1>3, AnswerAlone DEF PtParts, NetInv, SenderInv, ReceiverInv
<1>5. IsSend(d, h, m) /\ h \in Handle /\ r.proto = "sync" /\ fate[m] = "matched"
  BY <1>h, <1>m, <1>r, <1>1, <1>4 DEF AnswerOK, IsSend
<1>6. /\ r \in Request /\ r.kind = "SEND" /\ r.msg = m /\ r.cc \in Int
      /\ r.ref = Bit(r.user) + Bit(r.cc > 0)
      /\ r.cc >= Bit(r.writing) + Bit(r.proto \in Waits /\ Unanswered(m)) + Bit(Cancelling(m))
      /\ SendCancel(d, h, m)
  <2>1. r \in Request /\ r.kind = "SEND" /\ r.msg = m /\ r.cc \in Int /\ SendCancel(d, h, m)
    BY <1>r, <1>5, SendFacts
  <2>2. r.ref = Bit(r.user) + Bit(r.cc > 0)
    BY <1>r, <1>5, SendFacts
  <2>3. r.cc >= Bit(r.writing) + Bit(r.proto \in Waits /\ Unanswered(m)) + Bit(Cancelling(m))
    BY <1>r, <1>5, SendFacts
  <2> QED  BY <2>1, <2>2, <2>3
<1>7. /\ q \in Request /\ SameIdentity(r, q) /\ SameFlags(r, q)
      /\ q.user = r.user /\ q.cc = r.cc - 1
      /\ q.ref = IF r.cc = 1 THEN r.ref - 1 ELSE r.ref
  BY <1>q, <1>6, CompletedFacts
<1>8. OnlyRequest(d, h) /\ request'[d][h] = IF q.ref = 0 THEN Unused ELSE q
  BY <1>r, <1>1, <1>5, <1>6, <1>7, PutFacts DEF PtParts, RequestInv, SameIdentity
<1>9. request'[d][h].kind # "MPROBE" /\ q.kind = "SEND"
  BY <1>6, <1>7, <1>8, UnusedFacts DEF SameIdentity
<1>10. \A a, b \in Proc : \A x : x.type \in AnswerTypes \union CancelTypes =>
              (x \in Packets(a, b)' <=> x \in Packets(a, b) /\ x # k)
  <2>1. ASSUME NEW a \in Proc, NEW b \in Proc, k \in Packets(a, b) PROVE a = s /\ b = d
    <3>1. PacketOK(a, b, k)
      BY <2>1 DEF PtParts, NetInv, PacketInv
    <3>2. AnswerOK(a, b, k)
      BY <1>3, <3>1 DEF PacketOK, AnswerTypes, EnvelopeTypes
    <3>3. k.msg[1] = b
      <4>1. IsSend(b, k.sender_req_id, k.msg)
        BY <3>2 DEF AnswerOK
      <4> QED  BY <4>1, SendFacts
    <3>4. b = d
      BY <1>m, <1>4, <3>3
    <3> QED  BY <1>m, <1>3, <1>4, <2>1, <3>4
  <2> QED  BY <1>2, <2>1
<1>11. /\ ~ Unanswered(m)'
       /\ \A n \in Message : (Unanswered(n)' => Unanswered(n)) /\ (Cancelling(n)' <=> Cancelling(n))
  BY <1>1, <1>2, <1>3, <1>5, <1>8, <1>9, <1>10, <1>m, AnswerTaken
<1>12. Unanswered(m)
  BY <1>m, <1>2, <1>3, <1>4 DEF Unanswered
<1> DEFINE A == q.proto \in Waits /\ Unanswered(m)'
           C == Cancelling(m)
           D == Cancelling(m)'
<1>13. ~ A /\ (D => C)
  BY <1>4, <1>11
<1>14. r.cc >= Bit(r.writing) + 1 + Bit(C)
  BY <1>5, <1>6, <1>12 DEF Waits, Bit
<1>15. q.cc >= Bit(q.writing) + Bit(A) + Bit(D) /\ r.cc >= 1
  <2> DEFINE W == r.writing
  <2>1. q.writing = W /\ r.cc >= Bit(W) + 1 + Bit(C) /\ q.cc = r.cc - 1 /\ r.cc \in Int
    BY <1>6, <1>7, <1>14 DEF SameFlags
  <2> HIDE DEF A, C, D, W
  <2> QED  BY <1>13, <2>1 DEF Bit
<1>151. r.cc >= 1
  BY <1>15
<1>16. q.ref = Bit(q.user) + Bit(q.cc > 0)
  BY <1>6, <1>7, <1>151 DEF Bit
<1>17. /\ ~ q.cancel_pending => fate[m] # "cancelled"
       /\ q.cancel_pending /\ q.proto # "noncontig" =>
          \/ Cancelling(m)'
          \/ fate[m] = IF q.cancelled THEN "cancelled" ELSE "matched"
  <2>1. q.cancel_pending = r.cancel_pending /\ q.cancelled = r.cancelled /\ q.proto = r.proto
    BY <1>7 DEF SameFlags, SameIdentity
  <2>2. Cancelling(m)' <=> Cancelling(m)
    BY <1>4, <1>11
  <2> QED  BY <1>r, <1>6, <2>1, <2>2 DEF SendCancel
<1>18. \A a, b \in Proc : \A x : x.type \in EnvelopeTypes => (x \in Packets(a, b)' <=> x \in Packets(a, b))
  BY <1>2, <1>3 DEF EnvelopeTypes, AnswerTypes
<1>19. SendStep(d, h, m, q)
  <2>1. SameIdentity(request[d][h], q) /\ (request[d][h].cancel_pending => q.cancel_pending)
    BY <1>r, <1>7 DEF SameFlags
  <2> QED  BY <1>1, <1>5, <1>7, <1>11, <1>15, <1>16, <1>17, <1>18, <2>1 DEF SendStep
<1>20. \A a, b \in Proc : Packets(a, b)' \subseteq Packets(a, b)
  BY <1>2
<1> QED  BY <1>2, <1>5, <1>19, <1>20, SendNet

-----------------------------------------------------------------------------
\* A packet is on one connection.
LEMMA AnswerWhere ==
    ASSUME PtParts, NEW s \in Proc, NEW d \in Proc, NEW k \in Packets(s, d), k.type \in AnswerTypes,
           NEW a \in Proc, NEW b \in Proc, k \in Packets(a, b)
    PROVE  a = s /\ b = d
<1>1. /\ k.msg[1] = d
      /\ \A o \in Proc : \A x \in Packets(o, d) :
            x.msg = k.msg /\ x.type \in AnswerTypes => o = s /\ x = k
  BY AnswerAlone DEF PtParts, NetInv, SenderInv, ReceiverInv
<1>2. k.msg[1] = b
  BY AnswerAlone DEF PtParts, NetInv, SenderInv, ReceiverInv
<1> QED  BY <1>1, <1>2

LEMMA RndvClrToSendKeeps ==
    ASSUME PtParts, NEW s \in Proc, NEW d \in Proc, RndvClrToSend(s, d)
    PROVE  PtParts'
<1>k. PICK k : k = Head(net[s][d])
  OBVIOUS
<1>h. PICK h : h = k.sender_req_id
  OBVIOUS
<1>m. PICK m : m = k.msg
  OBVIOUS
<1>r. PICK r : r = request[d][h]
  OBVIOUS
<1>q. PICK q : q = [r EXCEPT !.writing = TRUE]
  OBVIOUS
<1>l. PICK l : l = RndvSendPkt(k, r)
  OBVIOUS
<1>1. /\ net[s][d] # <<>> /\ k.type = "RNDV_CLR_TO_SEND" /\ Put(d, h, q) /\ Reply(s, d, l)
      /\ posted' = posted /\ unexpected' = unexpected /\ reading' = reading
      /\ sent' = sent /\ fate' = fate /\ asked' = asked /\ calls' = calls
  BY <1>k, <1>h, <1>r, <1>q, <1>l, Zenon DEF RndvClrToSend, Arrived
<1>2. k.type \in AnswerTypes /\ k \in Packets(s, d)
  <2>1. net[s][d] # <<>> /\ IsQueue(net[s][d])
    BY <1>1 DEF PtParts, NetInv, NetOK
  <2> QED  BY <1>k, <1>1, <2>1, TailQueue DEF AnswerTypes, Packets
<1>3. /\ AnswerOK(s, d, k) /\ s # d /\ m \in Message /\ m[1] = d
      /\ \A o \in Proc : \A x \in Packets(o, d) :
            x.msg = m /\ x.type \in AnswerTypes => o = s /\ x = k
      /\ \A o \in Proc : \A x \in Packets(d, o) : ~ (x.msg = m /\ x.type = "RNDV_SEND")
  BY <1>m, <1>2, AnswerAlone DEF PtParts, NetInv, SenderInv, ReceiverInv
<1>4. /\ IsSend(d, h, m) /\ h \in Handle /\ r.proto = "rndv" /\ fate[m] = "matched" /\ r.peer = s
      /\ Receiving(s, k.receiver_req_id, d, m)
  BY <1>h, <1>m, <1>r, <1>1, <1>3 DEF AnswerOK, IsSend
<1>5. /\ r \in Request /\ r.kind = "SEND" /\ r.msg = m /\ r.cc \in Int
      /\ r.ref = Bit(r.user) + Bit(r.cc > 0)
      /\ r.cc >= Bit(r.writing) + Bit(r.proto \in Waits /\ Unanswered(m)) + Bit(Cancelling(m))
      /\ SendCancel(d, h, m)
  <2>1. r \in Request /\ r.kind = "SEND" /\ r.msg = m /\ r.cc \in Int /\ SendCancel(d, h, m)
    BY <1>r, <1>4, SendFacts
  <2>2. r.ref = Bit(r.user) + Bit(r.cc > 0)
    BY <1>r, <1>4, SendFacts
  <2>3. r.cc >= Bit(r.writing) + Bit(r.proto \in Waits /\ Unanswered(m)) + Bit(Cancelling(m))
    BY <1>r, <1>4, SendFacts
  <2> QED  BY <2>1, <2>2, <2>3
<1>6. l.type = "RNDV_SEND" /\ l.msg = m /\ l.receiver_req_id = k.receiver_req_id
  BY <1>l, <1>5 DEF RndvSendPkt
<1>7. \A x \in Packets(d, s) : NetBefore(x, l)
  BY <1>3, <1>6 DEF NetBefore, EnvelopeTypes
<1>8. /\ NetOK' /\ NetOrder'
      /\ \A a, b \in Proc :
                 Packets(a, b)' = IF a = s /\ b = d THEN Packets(a, b) \ {k}
                                  ELSE IF a = d /\ b = s THEN Packets(a, b) \union {l}
                                  ELSE Packets(a, b)
  BY <1>k, <1>1, <1>3, <1>7, ReplyFacts DEF PtParts, NetInv
<1>9. /\ q \in Request /\ SameIdentity(r, q) /\ q.writing = TRUE
      /\ q.cancel_pending = r.cancel_pending /\ q.cancelled = r.cancelled
      /\ q.user = r.user /\ q.cc = r.cc /\ q.ref = r.ref
  BY <1>q, <1>5, WritingFacts
<1>10. OnlyRequest(d, h) /\ request'[d][h] = IF q.ref = 0 THEN Unused ELSE q
  BY <1>r, <1>1, <1>4, <1>5, <1>9, PutFacts DEF PtParts, RequestInv, SameIdentity
<1>11. request'[d][h].kind # "MPROBE" /\ q.kind = "SEND"
  BY <1>5, <1>9, <1>10, UnusedFacts DEF SameIdentity
<1>12. \A a, b \in Proc : \A x : x.type \in AnswerTypes \union CancelTypes =>
              (x \in Packets(a, b)' <=> x \in Packets(a, b) /\ x # k)
  <2>1. ASSUME NEW a \in Proc, NEW b \in Proc, k \in Packets(a, b) PROVE a = s /\ b = d
    BY <1>2, <2>1, AnswerWhere
  <2>2. l.type \notin AnswerTypes \union CancelTypes
    BY <1>6 DEF AnswerTypes, CancelTypes
  <2> QED  BY <1>8, <2>1, <2>2
<1>13. /\ ~ Unanswered(m)'
       /\ \A n \in Message : (Unanswered(n)' => Unanswered(n)) /\ (Cancelling(n)' <=> Cancelling(n))
  BY <1>1, <1>2, <1>4, <1>10, <1>11, <1>12, <1>m, AnswerTaken
<1>14. Unanswered(m)
  BY <1>m, <1>2, <1>3 DEF Unanswered
<1> DEFINE A == q.proto \in Waits /\ Unanswered(m)'
           C == Cancelling(m)
           D == Cancelling(m)'
<1>15. ~ A /\ (D => C)
  BY <1>3, <1>13
<1>16. r.cc >= Bit(r.writing) + 1 + Bit(C)
  BY <1>4, <1>5, <1>14 DEF Waits, Bit
<1>17. q.cc >= Bit(q.writing) + Bit(A) + Bit(D)
  <2> DEFINE W == r.writing
  <2>1. q.writing /\ r.cc >= Bit(W) + 1 + Bit(C) /\ q.cc = r.cc /\ r.cc \in Int
    BY <1>5, <1>9, <1>16
  <2> HIDE DEF A, C, D, W
  <2> QED  BY <1>15, <2>1 DEF Bit
<1>18. q.ref = Bit(q.user) + Bit(q.cc > 0)
  BY <1>5, <1>9
<1>19. /\ ~ q.cancel_pending => fate[m] # "cancelled"
       /\ q.cancel_pending /\ q.proto # "noncontig" =>
          \/ Cancelling(m)'
          \/ fate[m] = IF q.cancelled THEN "cancelled" ELSE "matched"
  <2>1. q.cancel_pending = r.cancel_pending /\ q.cancelled = r.cancelled /\ q.proto = r.proto
    BY <1>9 DEF SameIdentity
  <2>2. Cancelling(m)' <=> Cancelling(m)
    BY <1>3, <1>13
  <2> QED  BY <1>r, <1>5, <2>1, <2>2 DEF SendCancel
<1>20. \A a, b \in Proc : \A x : x.type \in EnvelopeTypes => (x \in Packets(a, b)' <=> x \in Packets(a, b))
  BY <1>2, <1>6, <1>8 DEF EnvelopeTypes, AnswerTypes
<1>21. SendStep(d, h, m, q)
  <2>1. SameIdentity(request[d][h], q) /\ (request[d][h].cancel_pending => q.cancel_pending)
    BY <1>r, <1>9
  <2> QED  BY <1>1, <1>4, <1>9, <1>13, <1>17, <1>18, <1>19, <1>20, <2>1 DEF SendStep
<1>22. /\ ReceiverInv' /\ SenderInv' /\ RequestInv' /\ SendSide(d, h)
  BY <1>4, <1>21, SendStepKeeps DEF PtParts
<1>23. PacketOK(d, s, l)'
  <2>1. Receiving(s, k.receiver_req_id, d, m)'
    BY <1>4, <1>22, SendSideReceivers DEF PtParts, ReceiverInv, RequestInv
  <2>2. DataOK(d, s, l)'
    BY <1>1, <1>3, <1>4, <1>6, <2>1 DEF DataOK
  <2> QED  BY <1>3, <1>6, <2>2 DEF PacketOK
<1>24. PacketInv'
  <2>1. ASSUME NEW a \in Proc, NEW b \in Proc, NEW x \in Packets(a, b)' PROVE PacketOK(a, b, x)'
    <3>1. CASE x \in Packets(a, b)
      BY <1>4, <1>21, <2>1, <3>1, SendStepPacket
    <3>2. CASE x \notin Packets(a, b)
      <4>1. a = d /\ b = s /\ x = l
        BY <1>8, <2>1, <3>2
      <4> QED  BY <1>23, <4>1
    <3> QED  BY <3>1, <3>2
  <2> QED  BY <2>1 DEF PacketInv
<1>25. OnePlace'
  <2>1. Place(s, m, "answered", k)
    BY <1>m, <1>2, <1>3 DEF Place
  <2>2. ~ Place(s, m, "answered", k)'
    BY <1>2, <1>3, <1>8 DEF Place
  <2>3. \A o \in Proc : \A w, x : ~ (Place(o, m, w, x) /\ Place(o, m, w, x)')
    BY <1>3, <2>1, <2>2, OldPlaceLeft DEF PtParts, NetInv
  <2>4. ASSUME NEW n \in Message, NEW o \in Proc, NEW w, NEW x, Place(o, n, w, x)'
        PROVE  Place(o, n, w, x) \/ (n = m /\ o = s /\ w = "data" /\ x = l)
    <3>1. n[1] \in Proc
      BY MessageFacts
    <3>2. CASE x = l /\ n[1] = d /\ o = s /\ w \in {"envelope", "data"}
      <4>1. w = "data" /\ n = m
        BY <1>6, <2>4, <3>2 DEF Place, EnvelopeTypes
      <4> QED  BY <3>2, <4>1
    <3>3. CASE ~ (x = l /\ n[1] = d /\ o = s /\ w \in {"envelope", "data"})
      <4>1. w \in {"envelope", "data"} => x \in Packets(n[1], o)
        BY <1>8, <2>4, <3>1, <3>3 DEF Place
      <4>2. w = "answered" => x \in Packets(o, n[1])
        BY <1>6, <1>8, <2>4, <3>1 DEF Place, AnswerTypes
      <4> QED  BY <1>4, <1>21, <2>4, <4>1, <4>2, SendStepPlace
    <3> QED  BY <3>2, <3>3
  <2> QED  BY <2>3, <2>4, OnePlaceMoves DEF PtParts, NetInv
<1>26. CancelOnce'
  <2>1. \A a, b \in Proc : \A x : x.type \in CancelTypes => (x \in Packets(a, b)' => x \in Packets(a, b))
    BY <1>12
  <2> QED  BY <2>1, CancelOnceSame DEF PtParts, NetInv
<1> QED  BY <1>8, <1>22, <1>24, <1>25, <1>26 DEF PtParts, NetInv

-----------------------------------------------------------------------------
\* The cancellation of a send, and the answer to it.

\* What the invariant says of an answer to MPI_Cancel.
LEMMA RespFacts ==
    ASSUME PtParts, NEW s \in Proc, NEW d \in Proc, NEW k \in Packets(s, d),
           k.type = "CANCEL_SEND_RESP"
    PROVE  /\ s # d /\ CancelRespOK(s, d, k) /\ k.msg \in Message /\ k.msg[1] = d
           /\ \A o \in Proc : \A x : CancelPacket(o, k.msg, x) => o = s /\ x = k
<1>1. PacketOK(s, d, k)
  BY DEF PtParts, NetInv, PacketInv
<1>2. s # d /\ CancelRespOK(s, d, k)
  BY <1>1 DEF PacketOK, AnswerTypes, EnvelopeTypes
<1>3. IsSend(d, k.sender_req_id, k.msg)
  BY <1>2 DEF CancelRespOK
<1>4. k.msg \in Message /\ k.msg[1] = d
  BY <1>3, SendFacts
<1>5. CancelPacket(s, k.msg, k)
  BY <1>4 DEF CancelPacket
<1>6. \A o \in Proc : \A x : CancelPacket(o, k.msg, x) => o = s /\ x = k
  BY <1>4, <1>5 DEF PtParts, NetInv, CancelOnce
<1> QED  BY <1>2, <1>4, <1>6

\* A message that was cancelled is nowhere.
LEMMA CancelledGone ==
    ASSUME PtParts, NEW m \in Message, fate[m] = "cancelled"
    PROVE  /\ \A o \in Proc, g \in Handle : ~ (request[o][g].kind = "MPROBE" /\ request[o][g].msg = m)
           /\ \A o, p \in Proc : \A x \in Packets(o, p) : ~ (x.msg = m /\ x.type \in AnswerTypes)
<1>1. ASSUME NEW o \in Proc, NEW g \in Handle, request[o][g].kind = "MPROBE", request[o][g].msg = m
      PROVE  FALSE
  BY <1>1 DEF PtParts, ReceiverInv, ProbedInv, ProbedOK
<1>2. ASSUME NEW o \in Proc, NEW p \in Proc, NEW x \in Packets(o, p), x.msg = m, x.type \in AnswerTypes
      PROVE  FALSE
  <2>1. AnswerOK(o, p, x)
    BY <1>2, AnswerAlone DEF PtParts, NetInv, SenderInv, ReceiverInv
  <2> QED  BY <1>2, <2>1 DEF AnswerOK
<1> QED  BY <1>1, <1>2

LEMMA CancelSendRespKeeps ==
    ASSUME PtParts, NEW s \in Proc, NEW d \in Proc, CancelSendResp(s, d)
    PROVE  PtParts'
<1>k. PICK k : k = Head(net[s][d])
  OBVIOUS
<1>h. PICK h : h = k.sender_req_id
  OBVIOUS
<1>m. PICK m : m = k.msg
  OBVIOUS
<1>r. PICK r : r = request[d][h]
  OBVIOUS
<1>a. PICK ack : ack = k.ack
  OBVIOUS
<1>q. PICK q : q = Answered(r, ack)
  OBVIOUS
<1>c. PICK c : c = IF ack /\ r.proto \in Waits THEN r.cc - 1 ELSE r.cc
  OBVIOUS
<1>1. /\ net[s][d] # <<>> /\ k.type = "CANCEL_SEND_RESP" /\ Put(d, h, q) /\ Consume(s, d)
      /\ posted' = posted /\ unexpected' = unexpected /\ reading' = reading
      /\ sent' = sent /\ fate' = fate /\ asked' = asked /\ calls' = calls
  BY <1>k, <1>h, <1>r, <1>a, <1>q DEF CancelSendResp, Arrived
<1>2. /\ NetOK' /\ NetOrder' /\ k \in Packets(s, d)
      /\ \A a, b \in Proc :
                 Packets(a, b)' = IF a = s /\ b = d THEN Packets(a, b) \ {k}
                                                    ELSE Packets(a, b)
  BY <1>k, <1>1, ConsumeFacts DEF PtParts, NetInv
<1>3. /\ s # d /\ CancelRespOK(s, d, k) /\ m \in Message /\ m[1] = d
      /\ \A o \in Proc : \A x : CancelPacket(o, m, x) => o = s /\ x = k
  <2>1. /\ s # d /\ CancelRespOK(s, d, k) /\ k.msg \in Message /\ k.msg[1] = d
        /\ \A o \in Proc : \A x : CancelPacket(o, k.msg, x) => o = s /\ x = k
    BY <1>1, <1>2, RespFacts, Zenon
  <2> QED  BY <1>m, <2>1
<1>4. /\ IsSend(d, h, m) /\ h \in Handle /\ ack \in BOOLEAN /\ r.cancel_pending
      /\ r.proto # "noncontig" => fate[m] = IF ack THEN "cancelled" ELSE "matched"
  BY <1>h, <1>m, <1>r, <1>a, <1>3 DEF CancelRespOK, IsSend
<1>5. /\ r \in Request /\ r.kind = "SEND" /\ r.msg = m /\ r.cc \in Int
      /\ r.ref = Bit(r.user) + Bit(r.cc > 0)
      /\ r.cc >= Bit(r.writing) + Bit(r.proto \in Waits /\ Unanswered(m)) + Bit(Cancelling(m))
  <2>1. r \in Request /\ r.kind = "SEND" /\ r.msg = m /\ r.cc \in Int
    BY <1>r, <1>4, SendFacts
  <2>2. r.ref = Bit(r.user) + Bit(r.cc > 0)
    BY <1>r, <1>4, SendFacts
  <2>3. r.cc >= Bit(r.writing) + Bit(r.proto \in Waits /\ Unanswered(m)) + Bit(Cancelling(m))
    BY <1>r, <1>4, SendFacts
  <2> QED  BY <2>1, <2>2, <2>3
<1>6. /\ q \in Request /\ SameIdentity(r, q)
      /\ q.writing = r.writing /\ q.cancel_pending = r.cancel_pending /\ q.cancelled = ack
      /\ q.user = r.user /\ q.cc = c - 1 /\ q.ref = IF c = 1 THEN r.ref - 1 ELSE r.ref
  <2>1. LET w == Answered(r, ack) IN
        /\ w \in Request /\ SameIdentity(r, w)
        /\ w.writing = r.writing /\ w.cancel_pending = r.cancel_pending
        /\ w.cancelled = ack
        /\ w.user = r.user /\ w.cc = c - 1
        /\ w.ref = IF c = 1 THEN r.ref - 1 ELSE r.ref
    <3>1. r \in Request /\ ack \in BOOLEAN
      BY <1>4, <1>5
    <3>2. (ack /\ r.proto \in Waits => c = r.cc - 1) /\ (~ (ack /\ r.proto \in Waits) => c = r.cc)
      BY <1>c
    <3> QED  BY ONLY <3>1, <3>2, AnsweredFacts
  <2> QED  BY <1>q, <2>1
<1>7. OnlyRequest(d, h) /\ request'[d][h] = IF q.ref = 0 THEN Unused ELSE q
  BY <1>r, <1>1, <1>4, <1>5, <1>6, PutFacts DEF PtParts, RequestInv, SameIdentity
<1>8. request'[d][h].kind # "MPROBE" /\ q.kind = "SEND" /\ q.proto = r.proto
  BY <1>5, <1>6, <1>7, UnusedFacts DEF SameIdentity
<1>9. ~ Cancelling(m)'
  <2>1. ASSUME NEW o \in Proc, NEW x, CancelPacket(o, m, x)' PROVE FALSE
    <3>1. CancelPacket(o, m, x)
      BY <1>2, <1>3, <2>1 DEF CancelPacket
    <3>2. o = s /\ x = k
      BY <1>3, <3>1
    <3> QED  BY <1>1, <1>2, <1>3, <2>1, <3>2 DEF CancelPacket
  <2> QED  BY <2>1 DEF Cancelling
<1>10. Cancelling(m)
  BY <1>m, <1>1, <1>2, <1>3 DEF Cancelling, CancelPacket
<1>11. ASSUME NEW n \in Message PROVE Unanswered(n)' => Unanswered(n)
  <2>1. n[1] \in Proc
    BY MessageFacts
  <2> QED  BY <1>1, <1>2, <1>4, <1>7, <1>8, <2>1, UnansweredBefore
<1>12. ASSUME NEW n \in Message, n # m PROVE Cancelling(n)' <=> Cancelling(n)
  BY <1>m, <1>2, <1>12, CancellingSame
<1>13. ASSUME ack, r.proto \in Waits PROVE Unanswered(m) /\ ~ Unanswered(m)'
  <2>1. fate[m] = "cancelled"
    BY <1>4, <1>13 DEF Waits
  <2>2. /\ \A o \in Proc, g \in Handle : ~ (request[o][g].kind = "MPROBE" /\ request[o][g].msg = m)
        /\ \A o, p \in Proc : \A x \in Packets(o, p) : ~ (x.msg = m /\ x.type \in AnswerTypes)
    BY <1>3, <2>1, CancelledGone
  <2>3. \A o \in Proc, g \in Handle : ~ (request'[o][g].kind = "MPROBE" /\ request'[o][g].msg = m)
    BY <1>7, <1>8, <2>2 DEF OnlyRequest
  <2>4. ASSUME NEW o \in Proc, NEW x \in Packets(o, d)', x.msg = m,
               x.type \in AnswerTypes \/ (x.type = "CANCEL_SEND_RESP" /\ x.ack)
        PROVE  FALSE
    <3>1. x \in Packets(o, d)
      BY <1>2, <2>4
    <3>2. x.type = "CANCEL_SEND_RESP"
      BY <2>2, <2>4, <3>1
    <3>3. CancelPacket(o, m, x)
      BY <1>3, <2>4, <3>1, <3>2 DEF CancelPacket
    <3>4. o = s /\ x = k
      BY <1>3, <3>3
    <3> QED  BY <1>2, <2>4, <3>4
  <2>5. ~ Unanswered(m)'
    BY <1>1, <1>3, <2>1, <2>3, <2>4 DEF Unanswered
  <2>6. Unanswered(m)
    BY <1>a, <1>m, <1>1, <1>2, <1>3, <1>13 DEF Unanswered
  <2> QED  BY <2>5, <2>6
<1> DEFINE A == r.proto \in Waits /\ Unanswered(m)
           B == q.proto \in Waits /\ Unanswered(m)'
           C == Cancelling(m)
           D == Cancelling(m)'
           X == ack /\ r.proto \in Waits
           W == r.writing
<1>14. (B => A) /\ C /\ ~ D /\ (X => A /\ ~ B)
  BY <1>3, <1>8, <1>9, <1>10, <1>11, <1>13
<1>15. r.cc >= Bit(W) + Bit(A) + Bit(C) /\ c = IF X THEN r.cc - 1 ELSE r.cc
  BY <1>c, <1>5
<1>16. q.writing = W
  BY <1>6
<1>17. q.cc >= Bit(W) + Bit(B) + Bit(D) /\ c >= 1 /\ r.cc >= 1
  <2>1. q.cc = c - 1 /\ r.cc \in Int
    BY <1>5, <1>6
  <2> HIDE DEF A, B, C, D, X, W
  <2> QED  BY <1>14, <1>15, <2>1 DEF Bit
<1>18. c \in Int /\ c >= 1 /\ r.cc >= 1
  BY <1>5, <1>c, <1>17
<1>19. q.ref = Bit(q.user) + Bit(q.cc > 0)
  <2>1. r.ref = Bit(r.user) + 1
    BY <1>5, <1>18 DEF Bit
  <2> QED  BY <1>6, <1>18, <2>1 DEF Bit
<1>20. /\ ~ q.cancel_pending => fate[m] # "cancelled"
       /\ q.cancel_pending /\ q.proto # "noncontig" =>
          \/ Cancelling(m)'
          \/ fate[m] = IF q.cancelled THEN "cancelled" ELSE "matched"
  BY <1>4, <1>6, <1>8
<1>21. \A a, b \in Proc : \A x : x.type \in EnvelopeTypes => (x \in Packets(a, b)' <=> x \in Packets(a, b))
  BY <1>1, <1>2 DEF EnvelopeTypes
<1>22. SendStep(d, h, m, q)
  <2>1. SameIdentity(request[d][h], q) /\ (request[d][h].cancel_pending => q.cancel_pending)
    BY <1>r, <1>6
  <2>2. q.cc >= Bit(q.writing) + Bit(q.proto \in Waits /\ Unanswered(m)') + Bit(Cancelling(m)')
    BY <1>16, <1>17
  <2> QED  BY <1>1, <1>4, <1>6, <1>11, <1>12, <1>19, <1>20, <1>21, <2>1, <2>2 DEF SendStep
<1>23. \A a, b \in Proc : Packets(a, b)' \subseteq Packets(a, b)
  BY <1>2
<1> QED  BY <1>2, <1>4, <1>22, <1>23, SendNet

\* MPID_Cancel_send keeps the invariant.
LEMMA CancelSendKeeps ==
    ASSUME PtParts, NEW p \in Proc, NEW h \in Handle, CancelSend(p, h)
    PROVE  PtParts'
<1>r. PICK r : r = request[p][h]
  OBVIOUS
<1>m. PICK m : m = r.msg
  OBVIOUS
<1>d. PICK d : d = r.peer
  OBVIOUS
<1>q. PICK q : q = AwaitingAnswer(r)
  OBVIOUS
<1>l. PICK l : l = CancelReqPkt(p, h, r)
  OBVIOUS
<1>1. /\ r.kind = "SEND" /\ r.user /\ ~ r.cancel_pending
      /\ request' = [request EXCEPT ![p][h] = q] /\ Emit(p, d, l)
      /\ avail' = avail /\ asked' = asked \union {m}
      /\ posted' = posted /\ unexpected' = unexpected /\ reading' = reading
      /\ sent' = sent /\ fate' = fate /\ calls' = calls
  BY <1>r, <1>m, <1>d, <1>q, <1>l DEF CancelSend, CountCancel
<1>2. IsSend(p, h, m)
  BY <1>r, <1>m, <1>1 DEF IsSend
<1>3. /\ r \in Request /\ m \in Message /\ m[1] = p /\ r.cc \in Int /\ r.cc >= 0
      /\ d \in Proc /\ d # p
      /\ SendCancel(p, h, m)
      /\ r.ref = Bit(r.user) + Bit(r.cc > 0)
      /\ r.cc >= Bit(r.writing) + Bit(r.proto \in Waits /\ Unanswered(m)) + Bit(Cancelling(m))
  <2>1. /\ r \in Request /\ m \in Message /\ m[1] = p /\ r.cc \in Int /\ r.cc >= 0
        /\ d \in Proc /\ d # p
        /\ SendCancel(p, h, m)
    BY <1>r, <1>d, <1>2, SendFacts
  <2>2. r.ref = Bit(r.user) + Bit(r.cc > 0)
    BY <1>r, <1>2, SendFacts
  <2>3. r.cc >= Bit(r.writing) + Bit(r.proto \in Waits /\ Unanswered(m)) + Bit(Cancelling(m))
    BY <1>r, <1>2, SendFacts
  <2> QED  BY <2>1, <2>2, <2>3
<1>4. /\ q \in Request /\ SameIdentity(r, q)
      /\ q.writing = r.writing /\ q.cancel_pending /\ q.cancelled = r.cancelled
      /\ q.user = r.user /\ q.cc = r.cc + 1
      /\ q.ref = IF r.cc = 0 THEN r.ref + 1 ELSE r.ref
  BY <1>q, <1>3, AwaitingAnswerFacts
<1>5. q.ref = Bit(q.user) + Bit(q.cc > 0) /\ q.ref # 0
  BY <1>1, <1>3, <1>4 DEF Bit
<1>6. Put(p, h, q)
  <2>1. avail \in [Proc -> Seq(Handle)]
    BY DEF PtParts, RequestInv, TypeInv
  <2>2. avail' = [avail EXCEPT ![p] = @]
    BY <1>1, <2>1
  <2> QED  BY <1>1, <1>5, <2>2 DEF Put
<1>7. OnlyRequest(p, h) /\ request'[p][h] = q
  BY <1>r, <1>1, <1>4, <1>5, <1>6, PutFacts DEF PtParts, RequestInv, SameIdentity
<1>8. q.kind = "SEND" /\ q.proto = r.proto /\ q.msg = m
  BY <1>m, <1>1, <1>4 DEF SameIdentity
<1>9. ASSUME NEW o \in Proc, NEW x, CancelPacket(o, m, x) PROVE FALSE
  <2>1. \A g \in Handle : IsSend(p, g, m) => g = h
    BY <1>2, SendFacts
  <2>2. CASE x.type = "CANCEL_SEND_REQ" /\ x \in Packets(p, o)
    <3>1. PacketOK(p, o, x)
      BY <2>2 DEF PtParts, NetInv, PacketInv
    <3>2. CancelReqOK(p, o, x) /\ x.msg = m
      BY <1>9, <2>2, <3>1 DEF PacketOK, AnswerTypes, EnvelopeTypes, CancelPacket
    <3>3. x.sender_req_id = h
      BY <2>1, <3>2 DEF CancelReqOK, IsSend
    <3> QED  BY <1>r, <1>1, <3>2, <3>3 DEF CancelReqOK
  <2>3. CASE x.type = "CANCEL_SEND_RESP" /\ x \in Packets(o, p)
    <3>1. CancelRespOK(o, p, x) /\ x.msg = m
      BY <1>9, <2>3, RespFacts DEF CancelPacket
    <3>2. x.sender_req_id = h
      BY <2>1, <3>1 DEF CancelRespOK, IsSend
    <3> QED  BY <1>r, <1>1, <3>1, <3>2 DEF CancelRespOK
  <2> QED  BY <1>3, <1>9, <2>2, <2>3 DEF CancelPacket
<1>10. /\ l.type = "CANCEL_SEND_REQ" /\ l.msg = m /\ l.match = Match(p, r.tag)
       /\ l.sender_req_id = h
  BY <1>l, <1>m DEF CancelReqPkt
<1>11. \A x \in Packets(p, d) : NetBefore(x, l)
  <2>1. l \notin Packets(p, d)
    BY <1>3, <1>9, <1>10 DEF CancelPacket
  <2> QED  BY <1>10, <2>1 DEF NetBefore, EnvelopeTypes
<1>12. /\ NetOK' /\ NetOrder'
       /\ \A a, b \in Proc :
                 Packets(a, b)' = IF a = p /\ b = d THEN Packets(a, b) \union {l}
                                                    ELSE Packets(a, b)
  BY <1>1, <1>3, <1>11, EmitFacts DEF PtParts, NetInv
<1>13. ~ Cancelling(m)
  BY <1>9 DEF Cancelling
<1>14. Cancelling(m)'
  BY <1>3, <1>10, <1>12 DEF Cancelling, CancelPacket
<1>15. ASSUME NEW n \in Message PROVE Unanswered(n)' => Unanswered(n)
  <2>1. n[1] \in Proc
    BY MessageFacts
  <2>2. \A o \in Proc : \A x \in Packets(o, n[1])' :
           x.type \in AnswerTypes \/ x.type = "CANCEL_SEND_RESP" => x \in Packets(o, n[1])
    BY <1>10, <1>12, <2>1 DEF AnswerTypes
  <2> QED  BY <1>1, <1>7, <1>8, <2>2, UnansweredBefore
<1>16. ASSUME NEW n \in Message, n # m PROVE Cancelling(n)' <=> Cancelling(n)
  BY <1>10, <1>12, <1>16, CancellingSame
<1> DEFINE A == r.proto \in Waits /\ Unanswered(m)
           B == q.proto \in Waits /\ Unanswered(m)'
           C == Cancelling(m)
           D == Cancelling(m)'
           W == q.writing
<1>17. (B => A) /\ ~ C /\ D /\ r.cc >= Bit(W) + Bit(A) + Bit(C) /\ q.cc = r.cc + 1 /\ r.cc \in Int
  BY <1>3, <1>4, <1>8, <1>13, <1>14, <1>15
<1>18. q.cc >= Bit(W) + Bit(B) + Bit(D)
  <2> HIDE DEF A, B, C, D, W
  <2> QED  BY <1>17 DEF Bit
<1>19. \A a, b \in Proc : \A x : x.type \in EnvelopeTypes => (x \in Packets(a, b)' <=> x \in Packets(a, b))
  BY <1>10, <1>12 DEF EnvelopeTypes
<1>20. SendStep(p, h, m, q)
  <2>1. SameIdentity(request[p][h], q)
    BY <1>r, <1>4
  <2>2. \A n \in Message : n # m => (Unanswered(n)' => Unanswered(n)) /\ (Cancelling(n)' <=> Cancelling(n))
    BY <1>15, <1>16
  <2> QED  BY <1>1, <1>2, <1>4, <1>5, <1>6, <1>14, <1>18, <1>19, <2>1, <2>2 DEF SendStep
<1>21. ReceiverInv' /\ SenderInv' /\ RequestInv'
  BY <1>20, SendStepKeeps DEF PtParts
<1>22. PacketOK(p, d, l)'
  <2>1. request'[p][h].kind = "SEND" /\ request'[p][h].msg = m /\ request'[p][h].peer = d
        /\ request'[p][h].tag = r.tag /\ request'[p][h].cancel_pending
    BY <1>d, <1>4, <1>7, <1>8 DEF SameIdentity
  <2>2. fate'[m] # "cancelled" /\ m \in asked'
    BY <1>r, <1>1, <1>3 DEF SendCancel
  <2>3. CancelReqOK(p, d, l)'
    BY <1>10, <2>1, <2>2 DEF CancelReqOK, IsSend
  <2> QED  BY <1>3, <1>10, <2>3 DEF PacketOK
<1>23. PacketInv'
  <2>1. ASSUME NEW a \in Proc, NEW b \in Proc, NEW x \in Packets(a, b)' PROVE PacketOK(a, b, x)'
    <3>1. CASE x \in Packets(a, b)
      BY <1>20, <2>1, <3>1, SendStepPacket
    <3>2. CASE x \notin Packets(a, b)
      <4>1. a = p /\ b = d /\ x = l
        BY <1>12, <2>1, <3>2
      <4> QED  BY <1>22, <4>1
    <3> QED  BY <3>1, <3>2
  <2> QED  BY <2>1 DEF PacketInv
<1>24. OnePlace'
  <2>1. ASSUME NEW n \in Message, NEW o \in Proc, NEW w, NEW x, Place(o, n, w, x)'
        PROVE  Place(o, n, w, x)
    <3>1. n[1] \in Proc
      BY MessageFacts
    <3>2. w \in {"envelope", "data"} => x \in Packets(n[1], o)
      BY <1>10, <1>12, <2>1, <3>1 DEF Place, EnvelopeTypes
    <3>3. w = "answered" => x \in Packets(o, n[1])
      BY <1>10, <1>12, <2>1, <3>1 DEF Place, AnswerTypes
    <3> QED  BY <1>20, <2>1, <3>2, <3>3, SendStepPlace
  <2> QED  BY <2>1, OnePlaceStays DEF PtParts, NetInv
<1>25. CancelOnce'
  <2>1. \A o \in Proc : \A x : ~ (CancelPacket(o, m, x) /\ CancelPacket(o, m, x)')
    BY <1>9
  <2>2. ASSUME NEW n \in Message, NEW o \in Proc, NEW x, CancelPacket(o, n, x)'
        PROVE  CancelPacket(o, n, x) \/ (n = m /\ o = d /\ x = l)
    <3>1. n[1] \in Proc
      BY MessageFacts
    <3>2. CASE x = l
      BY <1>3, <1>10, <1>12, <2>2, <3>1, <3>2 DEF CancelPacket
    <3>3. CASE x # l
      BY <1>12, <2>2, <3>1, <3>3 DEF CancelPacket
    <3> QED  BY <3>2, <3>3
  <2> QED  BY <2>1, <2>2, CancelOnceMoves DEF PtParts, NetInv
<1> QED  BY <1>12, <1>21, <1>23, <1>24, <1>25 DEF PtParts, NetInv

-----------------------------------------------------------------------------
\* A new send.

\* What was not sent is nowhere.
LEMMA UnsentNowhere ==
    ASSUME PtParts, NEW m \in Message, fate[m] = "unsent"
    PROVE  /\ \A o \in Proc : \A w, x : ~ Place(o, m, w, x)
           /\ \A o \in Proc : \A g : ~ IsSend(o, g, m)
           /\ \A o \in Proc : \A x : ~ CancelPacket(o, m, x)
           /\ \A a, b \in Proc : \A x \in Packets(a, b) : x.msg # m
<1>1. ASSUME NEW o \in Proc, NEW g, IsSend(o, g, m) PROVE FALSE
  BY <1>1, SendFacts
<1>2. ASSUME NEW a \in Proc, NEW b \in Proc, NEW x \in Packets(a, b), x.msg = m PROVE FALSE
  <2>1. PacketOK(a, b, x)
    BY DEF PtParts, NetInv, PacketInv
  <2>2. CASE EnvelopeOK(a, b, x) \/ DataOK(a, b, x)
    BY <1>2, <2>2 DEF EnvelopeOK, DataOK
  <2>3. CASE AnswerOK(a, b, x) \/ CancelReqOK(a, b, x) \/ CancelRespOK(a, b, x)
    BY <1>1, <1>2, <2>3 DEF AnswerOK, CancelReqOK, CancelRespOK
  <2> QED  BY <2>1, <2>2, <2>3 DEF PacketOK
<1>3. ASSUME NEW o \in Proc, NEW x, CancelPacket(o, m, x) PROVE FALSE
  <2>1. m[1] \in Proc
    BY MessageFacts
  <2> QED  BY <1>2, <1>3, <2>1 DEF CancelPacket
<1>4. ASSUME NEW o \in Proc, NEW w, NEW x, Place(o, m, w, x) PROVE FALSE
  <2>1. m[1] \in Proc
    BY MessageFacts
  <2>2. CASE w \in {"envelope", "answered", "data"}
    BY <1>2, <1>4, <2>1, <2>2 DEF Place
  <2>3. CASE w = "queued"
    <3>1. PICK e \in Messages(o) : request[o][e.rreq].msg = m
      BY <1>4, <2>3 DEF Place, Queued
    <3> QED  BY <3>1 DEF PtParts, ReceiverInv, QueuedInv, QueuedOK
  <2>4. CASE w = "probed"
    BY <1>4, <2>4 DEF Place, PtParts, ReceiverInv, ProbedInv, ProbedOK
  <2>5. CASE w = "reading"
    BY <1>4, <2>1, <2>5 DEF Place, PtParts, ReceiverInv, ReadingInv, ReadingOK
  <2> QED  BY <1>4, <2>2, <2>3, <2>4, <2>5 DEF Place
<1> QED  BY <1>1, <1>2, <1>3, <1>4

\* The first part of the step: the request, and what it leaves alone.
IsendStep(p, d, tag, kind, h, m, l) ==
    /\ p \in Sender /\ d \in Proc \ {p} /\ h \in Handle /\ tag \in Tag /\ kind \in Kind
    /\ (\A x \in Sends : x[2] # "noncontig") => kind # "noncontig"
    /\ m = <<p, sent[p] + 1>> /\ calls < MaxCalls /\ calls' = calls + 1
    /\ Alloc(p, h, NewSend(d, tag, kind, m))
    /\ l = EnvelopePkt(p, h, tag, kind, m) /\ Emit(p, d, l)
    /\ fate' = [fate EXCEPT ![m] = "sent"]
    /\ sent' = [sent EXCEPT ![p] = @ + 1]
    /\ posted' = posted /\ unexpected' = unexpected /\ reading' = reading /\ asked' = asked

NewRequest(p, d, tag, kind, h, m) ==
    LET q == request'[p][h] IN
    /\ q.kind = "SEND" /\ q.ref = 2 /\ q.user /\ q.proto = kind /\ q.peer = d /\ q.tag = tag
    /\ q.msg = m /\ q.cc = (IF kind = "sync" THEN 2 ELSE 1) /\ (q.writing <=> kind # "rndv")
    /\ ~ q.cancel_pending /\ ~ q.cancelled

\* MPID_Isend and MPID_Issend: each part of the invariant, then all of it.
LEMMA IsendSide ==
    ASSUME PtParts, NEW p, NEW d, NEW tag, NEW kind, NEW h, NEW m, NEW l,
           IsendStep(p, d, tag, kind, h, m, l)
    PROVE  /\ p \in Proc /\ m \in Message /\ m[1] = p /\ m[2] = sent[p] + 1 /\ fate[m] = "unsent"
           /\ request[p][h].kind = "none" /\ NewRequest(p, d, tag, kind, h, m)
           /\ SendSide(p, h) /\ TypeInv' /\ FreeInv' /\ RefInv'
           /\ sent[p] \in Nat /\ sent'[p] = sent[p] + 1 /\ \A o \in Proc : o # p => sent'[o] = sent[o]
           /\ fate'[m] = "sent" /\ \A n \in Message : n # m => fate'[n] = fate[n]
<1>1. /\ p \in Proc /\ p \in Sender /\ d \in Proc /\ h \in Handle /\ tag \in Tag /\ kind \in Kind
      /\ m = <<p, sent[p] + 1>>
  BY BoundAssumption DEF IsendStep
<1>2. /\ TypeInv /\ FreeInv /\ RefInv /\ QueuedInv
      /\ sent \in [Proc -> Nat] /\ calls \in Nat /\ sent[p] \in Nat /\ sent[p] <= calls
      /\ fate \in [Message -> Fates]
  BY <1>1 DEF PtParts, RequestInv, ReceiverInv, TypeInv, CallsInv
<1>3. sent[p] < MaxCalls
  BY <1>2, BoundAssumption DEF IsendStep
<1>4. m \in Message /\ m[1] = p /\ m[2] = sent[p] + 1
  BY <1>1, <1>2, <1>3, MessageFacts
<1>5. fate[m] = "unsent"
  <2>1. m[2] > sent[m[1]]
    BY <1>2, <1>4
  <2> QED  BY <1>4, <2>1 DEF PtParts, RequestInv, UnsentInv
<1>6. /\ request' \in [Proc -> [Handle -> Request]]
      /\ request[p][h].kind = "none" /\ request'[p][h] = NewSend(d, tag, kind, m)
      /\ OnlyRequest(p, h) /\ avail' \in [Proc -> Seq(Handle)] /\ FreeInv'
  <2>1. NewSend(d, tag, kind, m) \in Request
    BY <1>1, <1>4, NewSendFacts
  <2> QED  BY <1>1, <1>2, <2>1, AllocFacts DEF IsendStep
<1>7. NewRequest(p, d, tag, kind, h, m)
  <2>1. LET q == NewSend(d, tag, kind, m) IN
           /\ q.kind = "SEND" /\ q.ref = 2 /\ q.user
           /\ q.proto = kind /\ q.peer = d /\ q.tag = tag /\ q.msg = m
           /\ q.cc = (IF kind = "sync" THEN 2 ELSE 1) /\ (q.writing <=> kind # "rndv")
           /\ ~ q.cancel_pending /\ ~ q.cancelled
    BY <1>1, <1>4, NewSendFacts
  <2> QED  BY <1>6, <2>1 DEF NewRequest
<1>8. /\ sent' \in [Proc -> Nat] /\ sent'[p] = sent[p] + 1
      /\ \A o \in Proc : o # p => sent'[o] = sent[o]
  BY <1>1, <1>2 DEF IsendStep
<1>9. /\ fate' \in [Message -> Fates] /\ fate'[m] = "sent"
      /\ \A n \in Message : n # m => fate'[n] = fate[n]
  BY <1>2, <1>4 DEF IsendStep, Fates
<1>10. SendsKeep
  <2>1. ASSUME NEW o \in Proc, NEW g \in Handle, o # p \/ g # h
        PROVE  /\ IsSendRequest(o, g) => KeptSend(o, g)
               /\ ~ IsSendRequest(o, g) => request'[o][g].kind # "SEND"
    BY <1>6, <2>1 DEF OnlyRequest, KeptSend, IsSendRequest
  <2>2. ~ IsSendRequest(p, h) /\ request'[p][h].msg \in Message /\ request'[p][h].msg[2] > sent[p]
    BY <1>2, <1>4, <1>6, <1>7 DEF IsSendRequest, NewRequest
  <2>3. ASSUME NEW o \in Proc PROVE sent[o] \in Nat /\ sent'[o] \in Nat /\ sent[o] <= sent'[o]
    BY <1>2, <1>8
  <2>4. asked \subseteq asked'
    BY DEF IsendStep
  <2> QED  BY <2>1, <2>2, <2>3, <2>4 DEF SendsKeep
<1>11. SendSide(p, h)
  <2>1. \A n \in Message : Settles(n) /\ (fate[n] = "sent" => fate'[n] = "sent")
    BY <1>5, <1>9 DEF Settles
  <2> QED  BY <1>6, <1>7, <1>10, <2>1 DEF SendSide, IsendStep, NewRequest
<1>12. calls' \in Nat
  BY <1>2 DEF IsendStep
<1>13. reading' = reading
  BY DEF IsendStep
<1>14. TypeInv'
  BY <1>2, <1>6, <1>8, <1>9, <1>12, <1>13 DEF TypeInv
<1>15. \A o \in Proc : \A g : Queued(o, g)' <=> Queued(o, g)
  BY DEF IsendStep, Queued, Messages
<1>16. ~ Queued(p, h)'
  BY <1>1, <1>2, <1>6, <1>15, SendNotQueued
<1>17. RefOK(p, h)'
  BY <1>7, <1>16 DEF RefOK, NewRequest, Bit
<1>18. RefInv'
  BY <1>1, <1>2, <1>6, <1>15, <1>17, RefStays
<1> QED  BY <1>1, <1>2, <1>4, <1>5, <1>6, <1>7, <1>8, <1>9, <1>11, <1>14, <1>18

LEMMA IsendPackets ==
    ASSUME PtParts, NEW p, NEW d, NEW tag, NEW kind, NEW h, NEW m, NEW l,
           IsendStep(p, d, tag, kind, h, m, l)
    PROVE  /\ l.type \in EnvelopeTypes /\ l.type = EnvelopeType(kind) /\ l.msg = m /\ l.proto = kind
           /\ l.match = Match(p, tag)
           /\ l.sender_req_id = IF kind = "noncontig" THEN MPI_REQUEST_NULL ELSE h
           /\ NetOK' /\ NetOrder'
           /\ \A a, b \in Proc :
                 Packets(a, b)' = IF a = p /\ b = d THEN Packets(a, b) \union {l}
                                                    ELSE Packets(a, b)
<1>1. /\ l = EnvelopePkt(p, h, tag, kind, m) /\ kind \in Kind /\ Emit(p, d, l)
      /\ d \in Proc
  BY DEF IsendStep
<1>2. p \in Proc /\ m \in Message /\ m[1] = p /\ m[2] = sent[p] + 1 /\ fate[m] = "unsent"
      /\ sent[p] \in Nat
  BY IsendSide
<1>3. /\ l.type = EnvelopeType(kind) /\ l.msg = m /\ l.match = Match(p, tag) /\ l.proto = kind
      /\ l.sender_req_id = IF kind = "noncontig" THEN MPI_REQUEST_NULL ELSE h
  BY <1>1 DEF EnvelopePkt
<1>4. l.type \in EnvelopeTypes
  BY <1>1, <1>3 DEF EnvelopeType, EnvelopeTypes, Kind
<1>5. ASSUME NEW x \in Packets(p, d) PROVE NetBefore(x, l)
  <2>1. x.msg # m
    BY <1>1, <1>2, UnsentNowhere
  <2>2. PacketOK(p, d, x)
    BY <1>1, <1>2 DEF PtParts, NetInv, PacketInv
  <2>3. ASSUME x.type \in EnvelopeTypes PROVE x.msg[2] < l.msg[2]
    <3>1. EnvelopeOK(p, d, x)
      BY <2>2, <2>3 DEF PacketOK, EnvelopeTypes, AnswerTypes
    <3>2. x.msg \in Message /\ x.msg[2] <= sent[p]
      BY <3>1 DEF EnvelopeOK, Link
    <3>3. x.msg[2] \in Nat
      BY <3>2, MessageFacts
    <3> QED  BY <1>2, <1>3, <3>2, <3>3
  <2> QED  BY <1>3, <2>1, <2>3 DEF NetBefore
<1>6. NetOK' /\ NetOrder' /\ \A a, b \in Proc :
                 Packets(a, b)' = IF a = p /\ b = d THEN Packets(a, b) \union {l}
                                                    ELSE Packets(a, b)
  BY <1>1, <1>2, <1>5, EmitFacts DEF PtParts, NetInv
<1> QED  BY <1>3, <1>4, <1>6

LEMMA IsendReceivers ==
    ASSUME PtParts, NEW p, NEW d, NEW tag, NEW kind, NEW h, NEW m, NEW l,
           IsendStep(p, d, tag, kind, h, m, l)
    PROVE  ReceiverInv' /\ RequestInv'
<1>1. /\ p \in Proc /\ m \in Message /\ m[1] = p /\ m[2] = sent[p] + 1 /\ fate[m] = "unsent"
      /\ SendSide(p, h) /\ TypeInv' /\ FreeInv' /\ RefInv'
      /\ sent[p] \in Nat /\ sent'[p] = sent[p] + 1 /\ \A o \in Proc : o # p => sent'[o] = sent[o]
      /\ fate'[m] = "sent" /\ \A n \in Message : n # m => fate'[n] = fate[n]
  BY IsendSide
<1>2. /\ TypeInv /\ QueuedInv /\ QueueOrder /\ PostedOrder /\ ProbedInv /\ ListedInv /\ ReadingInv
      /\ LaterInv /\ CallsInv /\ UnsentInv /\ AskedInv
  BY DEF PtParts, ReceiverInv, RequestInv
<1>3. h \in Handle /\ calls' = calls + 1 /\ asked' = asked
  BY DEF IsendStep
<1>4. /\ QueueOrder' /\ PostedOrder'
      /\ \A o \in Proc : Messages(o)' = Messages(o)
      /\ \A o \in Proc : \A e \in Messages(o) : request'[o][e.rreq] = request[o][e.rreq]
  BY <1>1, <1>2, <1>3, SendSideQueues
<1>5. QueuedInv' /\ ProbedInv' /\ ListedInv' /\ ReadingInv'
  BY <1>1, <1>2, <1>3, SendSideReceivers
<1>6. LaterInv'
  <2>1. ASSUME NEW o \in Proc, NEW e \in Messages(o)', NEW k \in Packets(e.match.rank, o)',
               k.type \in EnvelopeTypes
        PROVE  request'[o][e.rreq].msg[2] < k.msg[2]
    <3>1. e \in Messages(o) /\ request'[o][e.rreq] = request[o][e.rreq] /\ QueuedOK(o, e)
      BY <1>2, <1>4 DEF QueuedInv
    <3>2. e.match.rank \in Proc /\ e.match.rank = request[o][e.rreq].peer
      BY <3>1, QueuedRank
    <3>3. l.msg = m /\ (k \in Packets(e.match.rank, o) \/ (k = l /\ e.match.rank = p))
      BY <2>1, <3>2, IsendPackets
    <3>4. CASE k = l /\ e.match.rank = p
      <4>1. request[o][e.rreq].msg[2] <= sent[p] /\ request[o][e.rreq].msg \in Message
        BY <3>1, <3>2, <3>4 DEF QueuedOK, Holds, Link
      <4>2. request[o][e.rreq].msg[2] \in Nat
        BY <4>1, MessageFacts
      <4> QED  BY <1>1, <3>1, <3>3, <3>4, <4>1, <4>2
    <3>5. CASE k \in Packets(e.match.rank, o)
      BY <1>2, <2>1, <3>1, <3>5 DEF LaterInv
    <3> QED  BY <3>3, <3>4, <3>5
  <2> QED  BY <2>1 DEF LaterInv
<1>7. CallsInv'
  <2>1. ASSUME NEW o \in Proc PROVE sent'[o] <= calls'
    <3>1. sent[o] <= calls /\ sent[o] \in Nat /\ calls \in Nat
      BY <1>2 DEF CallsInv, TypeInv
    <3> QED  BY <1>1, <1>3, <3>1
  <2> QED  BY <2>1 DEF CallsInv
<1>8. UnsentInv'
  <2>1. ASSUME NEW n \in Message, n[2] > sent'[n[1]] PROVE fate'[n] = "unsent"
    <3>1. n[1] \in Proc /\ n[2] \in Nat /\ sent[n[1]] \in Nat
      BY <1>2, MessageFacts DEF TypeInv
    <3>2. n # m /\ n[2] > sent[n[1]]
      BY <1>1, <2>1, <3>1
    <3> QED  BY <1>1, <1>2, <3>2 DEF UnsentInv
  <2> QED  BY <2>1 DEF UnsentInv
<1>9. AskedInv'
  BY <1>1, <1>2, <1>3 DEF AskedInv
<1> QED  BY <1>1, <1>4, <1>5, <1>6, <1>7, <1>8, <1>9 DEF ReceiverInv, RequestInv

LEMMA IsendSenders ==
    ASSUME PtParts, NEW p, NEW d, NEW tag, NEW kind, NEW h, NEW m, NEW l,
           IsendStep(p, d, tag, kind, h, m, l)
    PROVE  SenderInv'
<1>1. /\ p \in Proc /\ m \in Message /\ m[1] = p /\ m[2] = sent[p] + 1 /\ fate[m] = "unsent"
      /\ request[p][h].kind = "none" /\ NewRequest(p, d, tag, kind, h, m)
      /\ SendSide(p, h) /\ TypeInv'
      /\ sent[p] \in Nat /\ sent'[p] = sent[p] + 1 /\ \A o \in Proc : o # p => sent'[o] = sent[o]
      /\ fate'[m] = "sent" /\ \A n \in Message : n # m => fate'[n] = fate[n]
  BY IsendSide
<1>2. /\ TypeInv /\ QueuedInv /\ QueueOrder /\ PostedOrder
      /\ ShapeInv /\ CountInv /\ CancelInv /\ KeptInv /\ FirstInv
  BY DEF PtParts, ReceiverInv, RequestInv, SenderInv
<1>3. /\ h \in Handle /\ d \in Proc \ {p} /\ tag \in Tag /\ kind \in Kind
      /\ (\A x \in Sends : x[2] # "noncontig") => kind # "noncontig"
  BY DEF IsendStep
<1>4. /\ l.type \in EnvelopeTypes /\ l.msg = m /\ l.match = Match(p, tag)
      /\ \A a, b \in Proc :
                 Packets(a, b)' = IF a = p /\ b = d THEN Packets(a, b) \union {l}
                                                    ELSE Packets(a, b)
  BY IsendPackets
<1>5. /\ \A o \in Proc : Messages(o)' = Messages(o)
      /\ \A o \in Proc : \A e \in Messages(o) : request'[o][e.rreq] = request[o][e.rreq]
  BY <1>1, <1>2, <1>3, SendSideQueues
<1>6. OnlyRequest(p, h) /\ SendsKeep
  BY <1>1 DEF SendSide
<1>7. \A o \in Proc : \A g : ~ IsSend(o, g, m)
  BY <1>1, UnsentNowhere
<1>8. ASSUME NEW o \in Proc, NEW g, NEW n, IsSend(o, g, n)', o # p \/ g # h
      PROVE  /\ IsSend(o, g, n) /\ request'[o][g] = request[o][g] /\ n # m /\ n \in Message
             /\ request[o][g] \in Request
  <2>1. g \in Handle /\ request'[o][g] = request[o][g]
    BY <1>6, <1>8 DEF IsSend, OnlyRequest
  <2>2. IsSend(o, g, n)
    BY <1>8, <2>1 DEF IsSend
  <2> QED  BY <1>7, <2>1, <2>2, SendFacts
<1>9. ASSUME NEW n, IsSend(p, h, n)' PROVE n = m
  BY <1>1, <1>9 DEF IsSend, NewRequest
<1>10. ShapeInv'
  <2>1. ASSUME NEW o \in Proc, NEW g \in Handle, IsSendRequest(o, g)', o # p \/ g # h
        PROVE  SendShape(o, g)'
    <3>1. request'[o][g] = request[o][g] /\ IsSendRequest(o, g) /\ request'[o][g].kind = "SEND"
      BY <1>6, <2>1 DEF OnlyRequest, IsSendRequest
    <3>2. \A n \in Message : fate[n] # "unsent" => fate'[n] # "unsent"
      BY <1>1
    <3>3. fate \in [Message -> Fates]
      BY <1>2 DEF TypeInv
    <3> QED  BY <1>2, <1>6, <3>1, <3>2, <3>3, ShapeStays
  <2>2. SendShape(p, h)'
    <3>1. ASSUME NEW g \in Handle, IsSend(p, g, m)' PROVE g = h
      BY <1>1, <1>8, <3>1
    <3>2. /\ request'[p][h].msg = m /\ request'[p][h].peer = d /\ request'[p][h].proto = kind
          /\ request'[p][h].tag = tag
      BY <1>1 DEF NewRequest
    <3>3. m[2] <= sent'[p]
      BY <1>1
    <3>4. \A g \in Handle : request'[p][g].kind = "SEND" /\ request'[p][g].msg = m => g = h
      BY <3>1 DEF IsSend
    <3> QED  BY <1>1, <1>3, <3>2, <3>3, <3>4 DEF SendShape, IsSend
  <2> QED  BY <2>1, <2>2 DEF ShapeInv
<1>11. ASSUME NEW n \in Message PROVE (Unanswered(n)' => Unanswered(n) \/ n = m) /\ (Cancelling(n)' <=> Cancelling(n))
  <2>1. n[1] \in Proc
    BY MessageFacts
  <2>2. l.type \notin CancelTypes \union AnswerTypes
    BY <1>4 DEF CancelTypes, EnvelopeTypes, AnswerTypes
  <2>3. Cancelling(n)' <=> Cancelling(n)
    BY <1>4, <2>2, CancellingSame
  <2>4. \A o \in Proc : \A x \in Packets(o, n[1])' :
           x.type \in AnswerTypes \/ x.type = "CANCEL_SEND_RESP" => x \in Packets(o, n[1])
    BY <1>4, <2>1, <2>2 DEF CancelTypes
  <2>5. ASSUME n # m, Unanswered(n)' PROVE Unanswered(n)
    <3>1. request'[p][h].kind # "MPROBE" /\ fate'[n] = fate[n]
      BY <1>1, <2>5 DEF NewRequest
    <3> QED  BY <1>1, <1>3, <1>6, <2>4, <2>5, <3>1, UnansweredBefore
  <2> QED  BY <2>3, <2>5
<1>12. ~ Cancelling(m)'
  BY <1>1, <1>11, UnsentNowhere DEF Cancelling
<1>13. CountInv'
  <2>1. ASSUME NEW o \in Proc, NEW g \in Handle, NEW n \in Message, IsSend(o, g, n)', o # p \/ g # h
        PROVE  SendCount(o, g, n)'
    <3>1. IsSend(o, g, n) /\ request'[o][g] = request[o][g] /\ n # m /\ request[o][g] \in Request
      BY <1>8, <2>1
    <3>2. SendCount(o, g, n)
      BY <1>2, <3>1 DEF CountInv
    <3> QED  BY <1>11, <3>1, <3>2, CountStays
  <2>2. SendCount(p, h, m)'
    <3> DEFINE q == request'[p][h]
               A == q.proto \in Waits /\ Unanswered(m)'
               C == Cancelling(m)'
               W == q.writing
    <3>1. q.cc = (IF kind = "sync" THEN 2 ELSE 1) /\ (W <=> kind # "rndv") /\ (A => kind \in Waits) /\ ~ C
      BY <1>1, <1>12 DEF NewRequest
    <3>2. q.cc >= Bit(W) + Bit(A) + Bit(C)
      <4> HIDE DEF q, A, C, W
      <4> QED  BY <1>3, <3>1 DEF Bit, Waits, Kind
    <3> QED  BY <3>2 DEF SendCount
  <2>3. ASSUME NEW o \in Proc, NEW g \in Handle, NEW n \in Message, IsSend(o, g, n)'
        PROVE  SendCount(o, g, n)'
    BY <1>9, <2>1, <2>2, <2>3
  <2> QED  BY <2>3 DEF CountInv
<1>14. CancelInv'
  <2>1. ASSUME NEW o \in Proc, NEW g \in Handle, NEW n \in Message, IsSend(o, g, n)', o # p \/ g # h
        PROVE  SendCancel(o, g, n)'
    <3>1. IsSend(o, g, n) /\ request'[o][g] = request[o][g] /\ n # m
      BY <1>8, <2>1
    <3>2. SendCancel(o, g, n)
      BY <1>2, <3>1 DEF CancelInv
    <3>3. fate'[n] = fate[n] /\ Settles(n)
      BY <1>1, <3>1 DEF Settles
    <3> QED  BY <1>11, <3>1, <3>2, <3>3, CancelStays
  <2>2. SendCancel(p, h, m)'
    BY <1>1 DEF SendCancel, NewRequest
  <2>3. ASSUME NEW o \in Proc, NEW g \in Handle, NEW n \in Message, IsSend(o, g, n)'
        PROVE  SendCancel(o, g, n)'
    BY <1>9, <2>1, <2>2, <2>3
  <2> QED  BY <2>3 DEF CancelInv
<1>15. KeptInv'
  <2>1. ASSUME NEW a \in Proc, NEW b \in Proc, NEW g \in Handle, NEW n \in Message, IsSend(a, g, n)',
               request'[a][g].peer = b
        PROVE  SendKept(a, b, n)'
    <3>1. CASE a = p /\ g = h
      <4>1. n = m /\ b = d
        BY <1>1, <1>9, <2>1, <3>1 DEF NewRequest
      <4>2. l \in Packets(p, d)'
        BY <1>1, <1>3, <1>4
      <4> QED  BY <1>4, <3>1, <4>1, <4>2 DEF SendKept
    <3>2. CASE a # p \/ g # h
      <4>1. IsSend(a, g, n) /\ request[a][g].peer = b /\ n # m
        BY <1>8, <2>1, <3>2
      <4>2. SendKept(a, b, n) /\ fate'[n] = fate[n]
        BY <1>1, <1>2, <4>1 DEF KeptInv
      <4> QED  BY <1>4, <1>5, <4>2 DEF SendKept
    <3> QED  BY <3>1, <3>2
  <2> QED  BY <2>1 DEF KeptInv
<1>16. FirstInv'
  <2>1. ASSUME NEW a \in Proc, NEW b \in Proc, NEW g \in Handle, NEW n \in Message, NEW t \in Tag,
               IsSend(a, g, n)', request'[a][g].peer = b, request'[a][g].tag = t
        PROVE  SendFirst(a, b, t, n)'
    <3>1. CASE n = m
      BY <1>1, <3>1 DEF SendFirst
    <3>2. CASE n # m
      <4>1. /\ IsSend(a, g, n) /\ request[a][g].peer = b /\ request[a][g].tag = t
            /\ fate'[n] = fate[n]
        BY <1>1, <1>8, <1>9, <2>1, <3>2
      <4>2. SendFirst(a, b, t, n)
        BY <1>2, <4>1 DEF FirstInv
      <4>3. n[1] = a /\ n[2] <= sent[a] /\ n[2] \in Nat
        BY <4>1, SendFacts, MessageFacts
      <4>4. ASSUME fate[n] = "matched", NEW k \in Packets(a, b)', k.type \in EnvelopeTypes,
                   k.match = Match(a, t)
            PROVE  k.msg[2] > n[2]
        <5>1. CASE k \in Packets(a, b)
          BY <4>2, <4>4, <5>1 DEF SendFirst
        <5>2. CASE k \notin Packets(a, b)
          <6>1. k = l /\ a = p
            BY <1>4, <4>4, <5>2
          <6> QED  BY <1>1, <1>4, <4>3, <6>1
        <5> QED  BY <5>1, <5>2
      <4>5. ASSUME fate[n] = "matched", NEW e \in Messages(b)', e.match = Match(a, t)
            PROVE  request'[b][e.rreq].msg[2] > n[2]
        BY <1>5, <4>2, <4>5 DEF SendFirst
      <4> QED  BY <4>1, <4>4, <4>5 DEF SendFirst
    <3> QED  BY <3>1, <3>2
  <2> QED  BY <2>1 DEF FirstInv
<1> QED  BY <1>10, <1>13, <1>14, <1>15, <1>16 DEF SenderInv

LEMMA IsendKeeps ==
    ASSUME PtParts, NEW p \in Proc, NEW d \in Proc, NEW send \in Sends,
           Isend(p, d, send[1], send[2])
    PROVE  PtParts'
<1>t. PICK tag : tag = send[1]
  OBVIOUS
<1>k. PICK kind : kind = send[2]
  OBVIOUS
<1>m. PICK m : m = <<p, sent[p] + 1>>
  OBVIOUS
<1>h. PICK h \in Handle : /\ Alloc(p, h, NewSend(d, tag, kind, m))
                          /\ Emit(p, d, EnvelopePkt(p, h, tag, kind, m))
  BY <1>t, <1>k, <1>m DEF Isend
<1>l. PICK l : l = EnvelopePkt(p, h, tag, kind, m)
  OBVIOUS
<1>1. IsendStep(p, d, tag, kind, h, m, l)
  <2>1. tag \in Tag /\ kind \in Kind
    BY <1>t, <1>k, SendsAssumption
  <2>2. (\A x \in Sends : x[2] # "noncontig") => kind # "noncontig"
    BY <1>k
  <2> QED  BY <1>m, <1>h, <1>l, <2>1, <2>2 DEF Isend, Count, IsendStep
<1>2. /\ m \in Message /\ m[1] = p /\ m[2] = sent[p] + 1 /\ fate[m] = "unsent"
      /\ NewRequest(p, d, tag, kind, h, m) /\ sent'[p] = sent[p] + 1 /\ sent[p] \in Nat
      /\ SendSide(p, h) /\ OnlyRequest(p, h)
      /\ fate'[m] = "sent" /\ \A n \in Message : n # m => fate'[n] = fate[n]
  BY <1>1, IsendSide DEF SendSide
<1>3. /\ l.type \in EnvelopeTypes /\ l.type = EnvelopeType(kind) /\ l.msg = m /\ l.proto = kind
      /\ l.match = Match(p, tag)
      /\ l.sender_req_id = IF kind = "noncontig" THEN MPI_REQUEST_NULL ELSE h
      /\ NetOK' /\ NetOrder'
      /\ \A a, b \in Proc :
                 Packets(a, b)' = IF a = p /\ b = d THEN Packets(a, b) \union {l}
                                                    ELSE Packets(a, b)
  BY <1>1, IsendPackets
<1>4. ReceiverInv' /\ RequestInv' /\ SenderInv'
  BY <1>1, IsendReceivers, IsendSenders
<1>5. /\ \A o \in Proc : \A w, x : ~ Place(o, m, w, x)
      /\ \A o \in Proc : \A x : ~ CancelPacket(o, m, x)
      /\ \A o \in Proc : \A g : ~ IsSend(o, g, m)
  BY <1>2, UnsentNowhere
<1>6. p \in Sender /\ d # p /\ kind \in Kind /\ tag \in Tag
  BY <1>1 DEF IsendStep
<1>7. PacketOK(p, d, l)'
  <2>1. ASSUME NEW g \in Handle, request'[p][g].kind = "SEND", request'[p][g].msg = m PROVE g = h
    <3>1. ASSUME g # h PROVE FALSE
      <4>1. request'[p][g] = request[p][g]
        BY <1>2, <3>1 DEF OnlyRequest
      <4> QED  BY <1>5, <2>1, <4>1 DEF IsSend
    <3> QED  BY <3>1
  <2>2. /\ request'[p][h].kind = "SEND" /\ request'[p][h].msg = m /\ request'[p][h].peer = d
        /\ request'[p][h].proto = kind /\ request'[p][h].tag = tag
    BY <1>2 DEF NewRequest
  <2>3. m[2] <= sent'[p] /\ m[2] <= m[2]
    BY <1>2
  <2>i. PICK sid : sid = l.sender_req_id
    OBVIOUS
  <2>4. sid = IF kind = "noncontig" THEN MPI_REQUEST_NULL ELSE h
    BY <1>3, <2>i
  <2>5. LinkNext(p, d, m, kind, sid)
    BY <1>2, <1>6, <2>1, <2>2, <2>3, <2>4, HandleFacts DEF LinkNext, Waits
  <2>6. Link(p, d, m, kind, sid)'
    BY <2>5, LinkIsNext
  <2>7. Tagged(p, m, tag)'
    BY <2>1, <2>2 DEF Tagged, IsSend
  <2>8. l.match.tag = tag
    BY <1>3 DEF Match
  <2>9. EnvelopeOK(p, d, l)'
    BY <1>2, <1>3, <2>i, <2>6, <2>7, <2>8 DEF EnvelopeOK
  <2> QED  BY <1>3, <1>6, <2>9 DEF PacketOK
<1>8. PacketInv'
  <2>1. ASSUME NEW a \in Proc, NEW b \in Proc, NEW x \in Packets(a, b)' PROVE PacketOK(a, b, x)'
    <3>1. CASE x \in Packets(a, b)
      <4>1. \A n \in Message : fate'[n] = "cancelled" => fate[n] = "cancelled"
        BY <1>2
      <4> QED  BY <1>2, <2>1, <3>1, <4>1, SendSidePackets
               DEF PtParts, ReceiverInv, SenderInv, RequestInv, NetInv
    <3>2. CASE x \notin Packets(a, b)
      <4>1. a = p /\ b = d /\ x = l
        BY <1>3, <2>1, <3>2
      <4> QED  BY <1>7, <4>1
    <3> QED  BY <3>1, <3>2
  <2> QED  BY <2>1 DEF PacketInv
<1>9. OnePlace'
  <2>1. \A o \in Proc : \A w, x : ~ (Place(o, m, w, x) /\ Place(o, m, w, x)')
    BY <1>5
  <2>2. ASSUME NEW n \in Message, NEW o \in Proc, NEW w, NEW x, Place(o, n, w, x)'
        PROVE  Place(o, n, w, x) \/ (n = m /\ o = d /\ w = "envelope" /\ x = l)
    <3>1. n[1] \in Proc
      BY MessageFacts
    <3>2. CASE x = l /\ n[1] = p /\ o = d /\ w \in {"envelope", "data"}
      <4>1. w = "envelope" /\ n = m
        BY <1>3, <2>2, <3>2 DEF Place, EnvelopeTypes
      <4> QED  BY <3>2, <4>1
    <3>3. CASE ~ (x = l /\ n[1] = p /\ o = d /\ w \in {"envelope", "data"})
      <4>1. w \in {"envelope", "data"} => x \in Packets(n[1], o)
        BY <1>3, <2>2, <3>1, <3>3 DEF Place
      <4>2. w = "answered" => x \in Packets(o, n[1])
        BY <1>3, <2>2, <3>1 DEF Place, AnswerTypes, EnvelopeTypes
      <4> QED  BY <1>2, <2>2, <4>1, <4>2, SendSidePlaces
               DEF PtParts, ReceiverInv, RequestInv
    <3> QED  BY <3>2, <3>3
  <2> QED  BY <2>1, <2>2, OnePlaceMoves DEF PtParts, NetInv
<1>10. CancelOnce'
  <2>1. \A a, b \in Proc : \A x : x.type \in CancelTypes => (x \in Packets(a, b)' => x \in Packets(a, b))
    BY <1>3 DEF CancelTypes, EnvelopeTypes
  <2> QED  BY <2>1, CancelOnceSame DEF PtParts, NetInv
<1> QED  BY <1>3, <1>4, <1>8, <1>9, <1>10 DEF PtParts, NetInv

-----------------------------------------------------------------------------
\* A step of d that changes one of its requests, not a send: with it the
\* packets `gone` from s are taken and the packets `new` to s sent.
TouchStep(s, d, g, gone, new) ==
    /\ OnlyRequest(d, g)
    /\ request[d][g].kind # "SEND" /\ request'[d][g].kind # "SEND"
    /\ sent' = sent /\ asked' = asked /\ calls' \in {calls, calls + 1}
    /\ \A a, b \in Proc :
          Packets(a, b)' = IF a = s /\ b = d THEN Packets(a, b) \ gone
                           ELSE IF a = d /\ b = s THEN Packets(a, b) \union new
                           ELSE Packets(a, b)
    /\ gone \subseteq Packets(s, d)
    /\ \A x \in new : x.type \in AnswerTypes \union {"CANCEL_SEND_RESP"}
    /\ \A o, t \in Proc : o # d \/ t # s => reading'[o][t] = reading[o][t]
    /\ reading'[d][s] \in {reading[d][s], g, None}
    /\ \A o \in Proc : \A e : o # d \/ e.rreq # g =>
          (e \in Messages(o)' <=> e \in Messages(o)) /\ (e \in Receives(o)' <=> e \in Receives(o))

\* The message m, if any, is found by that step where it was.
FateStep(d, g, m, gone) ==
    /\ \A n \in Message : n # m => fate'[n] = fate[n]
    /\ fate'[m] = fate[m] \/
          /\ m \in Message /\ fate[m] = "sent" /\ fate'[m] \in {"matched", "cancelled"}
          /\ Place(d, m, "queued", g) \/ \E k \in gone : Place(d, m, "envelope", k)

\* A step that changes one request of a receiver, and the queue it is in: each part
\* of the invariant, then all of it.
LEMMA TouchSends ==
    ASSUME TypeInv, NEW s \in Proc, NEW d \in Proc, NEW g \in Handle, NEW gone, NEW new,
           TouchStep(s, d, g, gone, new)
    PROVE  /\ SendsKeep /\ NoNewSend
           /\ \A o \in Proc : \A h, n :
                 IsSend(o, h, n) => IsSend(o, h, n)' /\ request'[o][h] = request[o][h]
<1>1. sent \in [Proc -> Nat] /\ sent' = sent /\ asked \subseteq asked'
  BY DEF TypeInv, TouchStep
<1>2. OnlyRequest(d, g) /\ ~ IsSendRequest(d, g) /\ request'[d][g].kind # "SEND"
  BY DEF TouchStep, IsSendRequest
<1>3. SendsKeep /\ NoNewSend
  BY <1>1, <1>2, SendsKeepAll
<1>4. ASSUME NEW o \in Proc, NEW h, NEW n, IsSend(o, h, n)
      PROVE  IsSend(o, h, n)' /\ request'[o][h] = request[o][h]
  <2>1. h \in Handle /\ (o # d \/ h # g)
    BY <1>2, <1>4 DEF IsSend, IsSendRequest
  <2>2. request'[o][h] = request[o][h]
    BY <1>2, <2>1 DEF OnlyRequest
  <2> QED  BY <1>4, <2>2 DEF IsSend
<1> QED  BY <1>3, <1>4

LEMMA TouchQueues ==
    ASSUME NEW s \in Proc, NEW d \in Proc, NEW g \in Handle, NEW gone, NEW new,
           TouchStep(s, d, g, gone, new)
    PROVE  \A o \in Proc : \A h : o # d \/ h # g =>
              /\ Queued(o, h)' <=> Queued(o, h)
              /\ Listed(o, h)' <=> Listed(o, h)
BY DEF TouchStep, Queued, Listed

\* A message that was found is nowhere else.
LEMMA FoundOnce ==
    ASSUME OnePlace, NEW d \in Proc, NEW g \in Handle, NEW m, NEW gone, FateStep(d, g, m, gone)
    PROVE  /\ \A n \in Message : Settles(n) /\ (fate'[n] = "sent" => fate[n] = "sent")
                                 /\ (fate[n] # "unsent" => fate'[n] # "unsent")
           /\ \A n \in Message, o \in Proc : \A w, x :
                 Place(o, n, w, x) => \/ fate'[n] = fate[n]
                                      \/ o = d /\ w = "queued" /\ x = g
                                      \/ o = d /\ w = "envelope" /\ x \in gone
<1>1. ASSUME NEW n \in Message
      PROVE  Settles(n) /\ (fate'[n] = "sent" => fate[n] = "sent")
             /\ (fate[n] # "unsent" => fate'[n] # "unsent")
  <2>1. fate'[n] = fate[n] \/ (fate[n] = "sent" /\ fate'[n] \in {"matched", "cancelled"})
    BY DEF FateStep
  <2> QED  BY <2>1 DEF Settles
<1>2. ASSUME NEW n \in Message, NEW o \in Proc, NEW w, NEW x, Place(o, n, w, x), fate'[n] # fate[n]
      PROVE  \/ o = d /\ w = "queued" /\ x = g
             \/ o = d /\ w = "envelope" /\ x \in gone
  <2>1. n = m /\ (Place(d, m, "queued", g) \/ \E k \in gone : Place(d, m, "envelope", k))
    BY <1>2 DEF FateStep
  <2>2. CASE Place(d, m, "queued", g)
    BY <1>2, <2>1, <2>2 DEF OnePlace
  <2>3. ASSUME NEW k \in gone, Place(d, m, "envelope", k) PROVE o = d /\ w = "envelope" /\ x = k
    BY <1>2, <2>1, <2>3 DEF OnePlace
  <2> QED  BY <2>1, <2>2, <2>3
<1> QED  BY <1>1, <1>2

\* What is to be shown of the request that changes.
TouchedOK(s, d, g) ==
    /\ \A e \in Messages(d) : e.rreq = g => QueuedOK(d, e)
    /\ ProbedOK(d, g)
    /\ \A e \in Receives(d) : e.rreq = g => ListedOK(d, e)
    /\ \A t \in Proc : reading[d][t] = g => ReadingOK(d, t)

LEMMA TouchReceivers ==
    ASSUME PtParts, NEW s \in Proc, NEW d \in Proc, NEW g \in Handle, NEW m, NEW gone, NEW new,
           TouchStep(s, d, g, gone, new), FateStep(d, g, m, gone), TouchedOK(s, d, g)'
    PROVE  QueuedInv' /\ ProbedInv' /\ ListedInv' /\ ReadingInv'
<1>1. SendsKeep
  BY TouchSends DEF PtParts, RequestInv
<1>2. /\ \A n \in Message : Settles(n)
      /\ \A n \in Message, o \in Proc : \A w, x :
                 Place(o, n, w, x) => \/ fate'[n] = fate[n]
                                      \/ o = d /\ w = "queued" /\ x = g
                                      \/ o = d /\ w = "envelope" /\ x \in gone
  BY FoundOnce DEF PtParts, NetInv
<1>3. \A o \in Proc : \A h : o # d \/ h # g =>
              /\ Queued(o, h)' <=> Queued(o, h)
              /\ Listed(o, h)' <=> Listed(o, h)
  BY TouchQueues
<1>4. \A o \in Proc, h \in Handle : o # d \/ h # g => request'[o][h] = request[o][h]
  BY DEF TouchStep, OnlyRequest
<1>5. QueuedInv'
  <2>1. ASSUME NEW o \in Proc, NEW e \in Messages(o)', o # d \/ e.rreq # g PROVE QueuedOK(o, e)'
    <3>1. e \in Messages(o)
      BY <2>1 DEF TouchStep
    <3>2. QueuedOK(o, e)
      BY <3>1 DEF PtParts, ReceiverInv, QueuedInv
    <3>r. PICK r : r = request[o][e.rreq]
      OBVIOUS
    <3>3. e.rreq \in Handle /\ fate[r.msg] = "sent" /\ ~ Listed(o, e.rreq) /\ r.msg \in Message
      BY <3>r, <3>2, Zenon DEF QueuedOK, Holds, Link
    <3>4. Place(o, r.msg, "queued", e.rreq)
      BY <3>r, <3>1 DEF Place, Queued
    <3>5. fate'[r.msg] = "sent"
      BY <1>2, <2>1, <3>3, <3>4
    <3> QED  BY <3>r, <1>1, <1>3, <1>4, <2>1, <3>2, <3>3, <3>5, QueuedKeeps
  <2> QED  BY <2>1 DEF QueuedInv, TouchedOK
<1>6. ProbedInv'
  <2>1. ASSUME NEW o \in Proc, NEW h \in Handle, o # d \/ h # g PROVE ProbedOK(o, h)'
    <3>1. ProbedOK(o, h)
      BY DEF PtParts, ReceiverInv, ProbedInv
    <3> QED  BY <1>1, <1>2, <1>3, <1>4, <2>1, <3>1, ProbedKeeps
  <2> QED  BY <2>1 DEF ProbedInv, TouchedOK
<1>7. ListedInv'
  <2>1. ASSUME NEW o \in Proc, NEW e \in Receives(o)', o # d \/ e.rreq # g PROVE ListedOK(o, e)'
    <3>1. e \in Receives(o)
      BY <2>1 DEF TouchStep
    <3>2. ListedOK(o, e)
      BY <3>1 DEF PtParts, ReceiverInv, ListedInv
    <3>3. request'[o][e.rreq] = request[o][e.rreq]
      BY <1>4, <2>1, <3>2 DEF ListedOK
    <3> QED  BY <3>2, <3>3 DEF ListedOK
  <2> QED  BY <2>1 DEF ListedInv, TouchedOK
<1>8. ReadingInv'
  <2>1. ASSUME NEW o \in Proc, NEW t \in Proc, o # d \/ reading'[o][t] # g, reading'[o][t] # None
        PROVE  ReadingOK(o, t)'
    <3>1. reading'[o][t] = reading[o][t]
      BY <2>1 DEF TouchStep
    <3>2. ReadingOK(o, t) /\ reading[o][t] \in Handle
      BY <2>1, <3>1 DEF PtParts, ReceiverInv, ReadingInv, RequestInv, TypeInv
    <3>3. request'[o][reading[o][t]] = request[o][reading[o][t]]
      BY <1>4, <2>1, <3>1, <3>2
    <3> QED  BY <1>2, <1>3, <2>1, <3>1, <3>2, <3>3, ReadingKeeps
  <2>2. ASSUME NEW o \in Proc, NEW t \in Proc, reading'[o][t] = None PROVE ReadingOK(o, t)'
    BY <2>2 DEF ReadingOK
  <2>3. ASSUME NEW o \in Proc, NEW t \in Proc PROVE ReadingOK(o, t)'
    BY <2>1, <2>2 DEF TouchedOK
  <2> QED  BY <2>3 DEF ReadingInv
<1> QED  BY <1>5, <1>6, <1>7, <1>8

-----------------------------------------------------------------------------
\* No send waits for the receiver of m.
NoWaiter(m) ==
    \A p \in Proc, h \in Handle : IsSend(p, h, m) => request[p][h].proto \notin Waits

\* What else is to be shown of such a step: the answers and the cancellations,
\* the messages that wait, and the message that is found.
AnsweredStep(d, g, new) ==
    /\ request'[d][g].kind = "MPROBE" => Unanswered(request'[d][g].msg)
    /\ \A x \in new : x.type \in AnswerTypes \/ x.ack => Unanswered(x.msg) \/ NoWaiter(x.msg)
    /\ \A n \in Message : Cancelling(n)' <=> Cancelling(n)

WaitingStep(s, d, g, gone) ==
    /\ \A k \in gone : /\ \A x \in Packets(s, d) : x \notin gone => NetBefore(k, x)
                       /\ k.type \in EnvelopeTypes /\ fate'[k.msg] = "sent" =>
                             \E e \in Messages(d)' : request'[d][e.rreq].msg = k.msg
    /\ \A e \in Messages(d) : e.rreq = g /\ fate'[request[d][g].msg] = "sent" =>
          e \in Messages(d)' /\ request'[d][g].msg = request[d][g].msg
    /\ \A e \in Messages(d)' : e.rreq = g =>
          \/ e \in Messages(d) /\ SameMessage(d, e)
          \/ /\ e.match.rank = s
             /\ \E k \in gone : /\ k \in Packets(s, d) /\ k.type \in EnvelopeTypes
                                /\ k.match = e.match /\ request'[d][g].msg = k.msg

FoundStep(m) ==
    /\ fate'[m] # fate[m] /\ fate'[m] = "matched" =>
          \A p, q \in Proc, h \in Handle, tag \in Tag :
             IsSend(p, h, m) /\ request[p][h].peer = q /\ request[p][h].tag = tag
                => FirstNext(p, q, tag, m)
    /\ fate'[m] # fate[m] /\ fate'[m] = "cancelled" =>
          /\ \A p \in Proc, h \in Handle : IsSend(p, h, m) => request[p][h].cancel_pending
          /\ (\A x \in Sends : x[2] # "noncontig") => m \in asked
          /\ \A a, b \in Proc : \A x \in Packets(a, b)' : ~ (x.type = "CANCEL_SEND_REQ" /\ x.msg = m)

LEMMA TouchAnswers ==
    ASSUME TypeInv, OnePlace, NEW s \in Proc, NEW d \in Proc, NEW g \in Handle, NEW m, NEW gone, NEW new,
           TouchStep(s, d, g, gone, new), FateStep(d, g, m, gone), AnsweredStep(d, g, new),
           NEW n \in Message, Unanswered(n)'
    PROVE  Unanswered(n) \/ NoWaiter(n)
<1>1. CASE fate'[n] = "sent"
  BY <1>1, FoundOnce DEF Unanswered
<1>2. CASE \E o \in Proc, h \in Handle : request'[o][h].kind = "MPROBE" /\ request'[o][h].msg = n
  <2>1. PICK o \in Proc, h \in Handle : request'[o][h].kind = "MPROBE" /\ request'[o][h].msg = n
    BY <1>2
  <2>2. CASE o = d /\ h = g
    BY <2>1, <2>2 DEF AnsweredStep
  <2>3. CASE o # d \/ h # g
    <3>1. request'[o][h] = request[o][h]
      BY <2>3 DEF TouchStep, OnlyRequest
    <3> QED  BY <2>1, <3>1 DEF Unanswered
  <2> QED  BY <2>2, <2>3
<1>3. CASE \E o \in Proc : \E k \in Packets(o, n[1])' :
              k.msg = n /\ (k.type \in AnswerTypes \/ (k.type = "CANCEL_SEND_RESP" /\ k.ack))
  <2>1. PICK o \in Proc : \E k \in Packets(o, n[1])' :
              k.msg = n /\ (k.type \in AnswerTypes \/ (k.type = "CANCEL_SEND_RESP" /\ k.ack))
    BY <1>3
  <2>2. PICK k \in Packets(o, n[1])' :
              k.msg = n /\ (k.type \in AnswerTypes \/ (k.type = "CANCEL_SEND_RESP" /\ k.ack))
    BY <2>1
  <2>3. n[1] \in Proc
    BY MessageFacts
  <2>4. k \in Packets(o, n[1]) \/ k \in new
    BY <2>2, <2>3 DEF TouchStep
  <2>5. CASE k \in Packets(o, n[1])
    BY <2>2, <2>5 DEF Unanswered
  <2>6. CASE k \in new
    BY <2>2, <2>6 DEF AnsweredStep
  <2> QED  BY <2>4, <2>5, <2>6
<1> QED  BY <1>1, <1>2, <1>3 DEF Unanswered

LEMMA TouchSenders ==
    ASSUME PtParts, NEW s \in Proc, NEW d \in Proc, NEW g \in Handle, NEW m, NEW gone, NEW new,
           TouchStep(s, d, g, gone, new), FateStep(d, g, m, gone), AnsweredStep(d, g, new),
           WaitingStep(s, d, g, gone), FoundStep(m)
    PROVE  SenderInv'
<1>1. /\ SendsKeep /\ NoNewSend
      /\ \A o \in Proc : \A h, n :
            IsSend(o, h, n) => IsSend(o, h, n)' /\ request'[o][h] = request[o][h]
  BY TouchSends DEF PtParts, RequestInv
<1>2. /\ \A n \in Message : Settles(n) /\ (fate'[n] = "sent" => fate[n] = "sent")
                                 /\ (fate[n] # "unsent" => fate'[n] # "unsent")
  BY FoundOnce DEF PtParts, NetInv
<1>3. /\ TypeInv /\ ShapeInv /\ CountInv /\ CancelInv /\ KeptInv /\ FirstInv /\ OnePlace
  BY DEF PtParts, RequestInv, SenderInv, NetInv
<1>4. ASSUME NEW o \in Proc, NEW h \in Handle, NEW n \in Message, IsSend(o, h, n)'
      PROVE  IsSend(o, h, n) /\ request'[o][h] = request[o][h]
  BY <1>1, <1>4, SendBefore
<1>5. ShapeInv'
  BY <1>1, <1>2, <1>3, ShapeInvStays DEF TypeInv
<1>6. CountInv'
  <2>1. ASSUME NEW o \in Proc, NEW h \in Handle, NEW n \in Message, IsSend(o, h, n)'
        PROVE  SendCount(o, h, n)'
    <3>1. IsSend(o, h, n) /\ request'[o][h] = request[o][h]
      BY <1>4, <2>1
    <3>2. SendCount(o, h, n) /\ request[o][h] \in Request
      BY <1>3, <3>1 DEF CountInv, TypeInv
    <3>3. (Unanswered(n)' => Unanswered(n) \/ NoWaiter(n)) /\ (Cancelling(n)' => Cancelling(n))
      BY <1>3, TouchAnswers DEF AnsweredStep
    <3>4. CASE Unanswered(n)' => Unanswered(n)
      BY <3>1, <3>2, <3>3, <3>4, CountStays
    <3>5. CASE NoWaiter(n)
      <4>1. request[o][h].proto \notin Waits
        BY <3>1, <3>5 DEF NoWaiter
      <4>2. request[o][h].cc \in Int /\ request[o][h].cc >= Bit(request[o][h].writing) + Bit(Cancelling(n))
        BY <3>2, <4>1 DEF SendCount, Bit, Request
      <4> QED  BY <3>1, <3>3, <4>1, <4>2 DEF SendCount, Bit
    <3> QED  BY <3>3, <3>4, <3>5
  <2> QED  BY <2>1 DEF CountInv
<1>7. CancelInv'
  <2>1. ASSUME NEW o \in Proc, NEW h \in Handle, NEW n \in Message, IsSend(o, h, n)'
        PROVE  SendCancel(o, h, n)'
    <3>1. IsSend(o, h, n) /\ request'[o][h] = request[o][h]
      BY <1>4, <2>1
    <3>2. SendCancel(o, h, n)
      BY <1>3, <3>1 DEF CancelInv
    <3>3. Cancelling(n) => Cancelling(n)'
      BY DEF AnsweredStep
    <3>4. fate'[n] = "cancelled" => fate[n] = "cancelled" \/ request[o][h].cancel_pending
      BY <3>1 DEF FoundStep, FateStep
    <3> QED  BY <1>2, <3>1, <3>2, <3>3, <3>4, CancelStays
  <2> QED  BY <2>1 DEF CancelInv
<1>8. KeptInv'
  <2>1. ASSUME NEW p \in Proc, NEW q \in Proc, NEW n \in Message, NEW k \in Packets(p, q),
               k.type \in EnvelopeTypes, k.msg = n, fate'[n] = "sent"
        PROVE  \/ k \in Packets(p, q)'
               \/ \E e \in Messages(q)' : request'[q][e.rreq].msg = n
    <3>1. k \in Packets(p, q)' \/ (p = s /\ q = d /\ k \in gone)
      BY <2>1 DEF TouchStep
    <3> QED  BY <2>1, <3>1 DEF WaitingStep
  <2>2. ASSUME NEW q \in Proc, NEW n \in Message, NEW e \in Messages(q), request[q][e.rreq].msg = n,
               fate'[n] = "sent"
        PROVE  e \in Messages(q)' /\ request'[q][e.rreq].msg = n
    <3>1. CASE q = d /\ e.rreq = g
      BY <2>2, <3>1 DEF WaitingStep
    <3>2. CASE q # d \/ e.rreq # g
      <4>1. e.rreq \in Handle
        BY <2>2 DEF PtParts, ReceiverInv, QueuedInv, QueuedOK
      <4> QED  BY <2>2, <3>2, <4>1 DEF TouchStep, OnlyRequest
    <3> QED  BY <3>1, <3>2
  <2> QED  BY <1>1, <1>2, <1>3, <2>1, <2>2, KeptInvStays
<1>9. FirstInv'
  <2>1. ASSUME NEW q \in Proc, NEW e \in Messages(q)'
        PROVE  \/ e \in Messages(q) /\ SameMessage(q, e)
               \/ \E k \in Packets(e.match.rank, q) :
                    /\ k.type \in EnvelopeTypes /\ k.match = e.match
                    /\ request'[q][e.rreq].msg = k.msg
    <3>1. CASE q = d /\ e.rreq = g
      BY <2>1, <3>1 DEF WaitingStep
    <3>2. CASE q # d \/ e.rreq # g
      <4>1. e \in Messages(q)
        BY <2>1, <3>2 DEF TouchStep
      <4>2. e.rreq \in Handle
        BY <4>1 DEF PtParts, ReceiverInv, QueuedInv, QueuedOK
      <4> QED  BY <3>2, <4>1, <4>2 DEF TouchStep, OnlyRequest, SameMessage
    <3> QED  BY <3>1, <3>2
  <2>2. ASSUME NEW p \in Proc, NEW q \in Proc, NEW k \in Packets(p, q)', k.type \in EnvelopeTypes
        PROVE  k \in Packets(p, q)
    BY <2>2 DEF TouchStep, EnvelopeTypes, AnswerTypes
  <2>3. ASSUME NEW p \in Proc, NEW q \in Proc, NEW h \in Handle, NEW n \in Message, NEW tag \in Tag,
               IsSend(p, h, n), request[p][h].peer = q, request[p][h].tag = tag,
               fate'[n] = "matched", fate[n] # "matched"
        PROVE  FirstNext(p, q, tag, n)
    BY <2>3 DEF FoundStep, FateStep
  <2> QED  BY <1>1, <1>3, <2>1, <2>2, <2>3, FirstInvStays
<1> QED  BY <1>5, <1>6, <1>7, <1>8, <1>9 DEF SenderInv

LEMMA TouchRequests ==
    ASSUME PtParts, NEW s \in Proc, NEW d \in Proc, NEW g \in Handle, NEW m, NEW gone, NEW new,
           TouchStep(s, d, g, gone, new), FateStep(d, g, m, gone), 
           WaitingStep(s, d, g, gone), FoundStep(m), RefOK(d, g)', TypeInv'
    PROVE  RefInv' /\ LaterInv' /\ CallsInv' /\ UnsentInv' /\ AskedInv'
<1>1. /\ TypeInv /\ RefInv /\ LaterInv /\ CallsInv /\ UnsentInv /\ AskedInv
  BY DEF PtParts, RequestInv
<1>2. RefInv'
  <2>1. OnlyRequest(d, g)
    BY DEF TouchStep
  <2>2. \A o \in Proc, h \in Handle : o # d \/ h # g => (Queued(o, h)' <=> Queued(o, h))
    BY TouchQueues
  <2> QED  BY <1>1, <2>1, <2>2, RefStays
<1>3. LaterInv'
  <2>1. ASSUME NEW o \in Proc, NEW e \in Messages(o)', NEW k \in Packets(e.match.rank, o)',
               k.type \in EnvelopeTypes, e \in Messages(o), SameMessage(o, e)
        PROVE  request'[o][e.rreq].msg[2] < k.msg[2]
    <3>1. QueuedOK(o, e)
      BY <2>1 DEF PtParts, ReceiverInv, QueuedInv
    <3>2. e.match.rank \in Proc
      BY <3>1, QueuedRank
    <3>3. k \in Packets(e.match.rank, o)
      BY <2>1, <3>2 DEF TouchStep, EnvelopeTypes, AnswerTypes
    <3> QED  BY <1>1, <2>1, <3>3 DEF LaterInv, SameMessage
  <2>2. ASSUME NEW o \in Proc, NEW e \in Messages(o)', NEW k \in Packets(e.match.rank, o)',
               k.type \in EnvelopeTypes, ~ (e \in Messages(o) /\ SameMessage(o, e))
        PROVE  request'[o][e.rreq].msg[2] < k.msg[2]
    <3>1. o = d /\ e.rreq = g
      <4>1. ASSUME o # d \/ e.rreq # g PROVE FALSE
        <5>1. e \in Messages(o)
          BY <2>2, <4>1 DEF TouchStep
        <5>2. e.rreq \in Handle
          BY <5>1 DEF PtParts, ReceiverInv, QueuedInv, QueuedOK
        <5> QED  BY <2>2, <4>1, <5>1, <5>2 DEF TouchStep, OnlyRequest, SameMessage
      <4> QED  BY <4>1
    <3>2. /\ e.match.rank = s
          /\ \E x \in gone : /\ x \in Packets(s, d) /\ x.type \in EnvelopeTypes
                             /\ x.match = e.match /\ request'[d][g].msg = x.msg
      BY <2>2, <3>1 DEF WaitingStep
    <3>3. PICK x \in gone : x \in Packets(s, d) /\ x.type \in EnvelopeTypes /\ request'[d][g].msg = x.msg
      BY <3>2
    <3>4. k \in Packets(s, d) /\ k \notin gone
      <4>1. k.type \notin AnswerTypes \union {"CANCEL_SEND_RESP"}
        BY <2>2 DEF EnvelopeTypes, AnswerTypes
      <4>2. k \notin new
        BY <4>1 DEF TouchStep
      <4>3. Packets(s, d)' = Packets(s, d) \ gone
        BY DEF TouchStep
      <4> QED  BY <2>2, <3>1, <3>2, <4>2, <4>3
    <3>5. NetBefore(x, k)
      BY <3>3, <3>4 DEF WaitingStep
    <3> QED  BY <2>2, <3>1, <3>3, <3>5 DEF NetBefore
  <2> QED  BY <2>1, <2>2 DEF LaterInv
<1>4. CallsInv'
  <2>1. ASSUME NEW o \in Proc PROVE sent'[o] <= calls'
    <3>1. sent[o] <= calls /\ sent[o] \in Nat /\ calls \in Nat
      BY <1>1 DEF CallsInv, TypeInv
    <3> QED  BY <3>1 DEF TouchStep
  <2> QED  BY <2>1 DEF CallsInv
<1>5. UnsentInv'
  <2>1. ASSUME NEW n \in Message, n[2] > sent'[n[1]] PROVE fate'[n] = "unsent"
    <3>1. fate[n] = "unsent"
      BY <1>1, <2>1 DEF TouchStep, UnsentInv
    <3> QED  BY <3>1 DEF FateStep
  <2> QED  BY <2>1 DEF UnsentInv
<1>6. AskedInv'
  <2>1. ASSUME \A x \in Sends : x[2] # "noncontig", NEW n \in Message, fate'[n] = "cancelled"
        PROVE  n \in asked'
    <3>1. asked' = asked
      BY DEF TouchStep
    <3>2. CASE fate'[n] = fate[n]
      BY <1>1, <2>1, <3>1, <3>2 DEF AskedInv
    <3>3. CASE fate'[n] # fate[n]
      BY <2>1, <3>1, <3>3 DEF FoundStep, FateStep
    <3> QED  BY <3>2, <3>3
  <2> QED  BY <2>1 DEF AskedInv
<1> QED  BY <1>2, <1>3, <1>4, <1>5, <1>6

-----------------------------------------------------------------------------
\* The data of a message still comes to the request that changes, or came.
StillReceives(d, g) ==
    \A t \in Proc, n \in Message : Receiving(d, g, t, n) =>
        \/ Receiving(d, g, t, n)'
        \/ \A x : ~ Place(d, n, "answered", x)' /\ ~ Place(d, n, "data", x)'

\* A request that waits for data goes on waiting for it.
LEMMA ReceivingStays ==
    ASSUME PtParts, NEW s \in Proc, NEW d \in Proc, NEW g \in Handle, NEW gone, NEW new,
           TouchStep(s, d, g, gone, new), NEW o \in Proc, NEW h, NEW t, NEW n,
           o # d \/ h # g, Receiving(o, h, t, n)
    PROVE  Receiving(o, h, t, n)'
<1>1. h \in Handle /\ request'[o][h] = request[o][h]
  BY DEF Receiving, TouchStep, OnlyRequest
<1>2. (Queued(o, h)' <=> Queued(o, h)) /\ (Listed(o, h)' <=> Listed(o, h))
  BY TouchQueues
<1> QED  BY <1>1, <1>2 DEF Receiving

\* The packets that stay.
LEMMA TouchPackets ==
    ASSUME PtParts, NEW s \in Proc, NEW d \in Proc, NEW g \in Handle, NEW m, NEW gone, NEW new,
           TouchStep(s, d, g, gone, new), FateStep(d, g, m, gone), FoundStep(m), StillReceives(d, g),
           NEW a \in Proc, NEW b \in Proc, NEW x, x \in Packets(a, b), x \in Packets(a, b)'
    PROVE  PacketOK(a, b, x)'
<1>1. SendsKeep /\ ShapeInv /\ PacketOK(a, b, x) /\ a # b
  BY TouchSends DEF PtParts, RequestInv, SenderInv, NetInv, PacketInv, PacketOK
<1>2. x.msg \in Message /\ (x.type = "RNDV_SEND" => x.msg[1] = a)
      /\ (x.type = "RNDV_CLR_TO_SEND" => x.msg[1] = b) /\ (x.type \in EnvelopeTypes => x.msg[1] = a)
  <2>1. CASE x.type \in EnvelopeTypes
    <3>1. EnvelopeOK(a, b, x)
      BY <1>1, <2>1 DEF PacketOK, EnvelopeTypes, AnswerTypes
    <3> QED  BY <2>1, <3>1 DEF EnvelopeOK, Link, EnvelopeTypes
  <2>2. CASE x.type \in AnswerTypes
    <3>1. AnswerOK(a, b, x)
      BY <1>1, <2>2 DEF PacketOK, EnvelopeTypes, AnswerTypes
    <3>2. IsSend(b, x.sender_req_id, x.msg)
      BY <3>1 DEF AnswerOK
    <3>3. x.msg \in Message /\ x.msg[1] = b
      BY <3>2, SendFacts
    <3> QED  BY <2>2, <3>3 DEF EnvelopeTypes, AnswerTypes
  <2>3. CASE x.type = "RNDV_SEND"
    BY <1>1, <2>3 DEF PacketOK, EnvelopeTypes, AnswerTypes, DataOK
  <2>4. CASE x.type = "CANCEL_SEND_REQ"
    <3>1. IsSend(a, x.sender_req_id, x.msg)
      BY <1>1, <2>4 DEF PacketOK, EnvelopeTypes, AnswerTypes, CancelReqOK
    <3> QED  BY <2>4, <3>1, SendFacts DEF EnvelopeTypes
  <2>5. CASE x.type = "CANCEL_SEND_RESP"
    <3>1. IsSend(b, x.sender_req_id, x.msg)
      BY <1>1, <2>5 DEF PacketOK, EnvelopeTypes, AnswerTypes, CancelRespOK
    <3> QED  BY <2>5, <3>1, SendFacts DEF EnvelopeTypes
  <2> QED  BY <1>1, <2>1, <2>2, <2>3, <2>4, <2>5 DEF PacketOK
<1>3. Settles(x.msg)
  BY <1>2, FoundOnce DEF PtParts, NetInv
<1>4. ASSUME x.type \in EnvelopeTypes PROVE fate'[x.msg] = "sent"
  <2>1. EnvelopeOK(a, b, x)
    BY <1>1, <1>4 DEF PacketOK, EnvelopeTypes, AnswerTypes
  <2>2. Place(b, x.msg, "envelope", x) /\ fate[x.msg] = "sent"
    BY <1>2, <1>4, <2>1 DEF Place, EnvelopeOK
  <2>3. fate'[x.msg] = fate[x.msg] \/ (b = d /\ x \in gone)
    BY <1>2, <2>2, FoundOnce DEF PtParts, NetInv
  <2>4. ASSUME b = d, x \in gone PROVE FALSE
    <3>1. x \in Packets(s, d)
      BY <2>4 DEF TouchStep
    <3>2. PacketOK(s, d, x)
      BY <3>1 DEF PtParts, NetInv, PacketInv
    <3>3. EnvelopeOK(s, d, x)
      BY <1>4, <3>2 DEF PacketOK, EnvelopeTypes, AnswerTypes
    <3>4. a = s
      BY <1>2, <1>4, <3>3 DEF EnvelopeOK, Link
    <3> QED  BY <2>4, <3>4 DEF TouchStep
  <2> QED  BY <2>2, <2>3, <2>4
<1>5. ASSUME x.type = "CANCEL_SEND_REQ" PROVE fate'[x.msg] # "cancelled"
  <2>1. fate[x.msg] # "cancelled"
    BY <1>1, <1>5 DEF PacketOK, EnvelopeTypes, AnswerTypes, CancelReqOK
  <2>2. x.msg # m => fate'[x.msg] = fate[x.msg]
    BY <1>2 DEF FateStep
  <2> QED  BY <1>5, <2>1, <2>2 DEF FoundStep
<1>6. ASSUME NEW h, Receiving(a, h, b, x.msg), x.type = "RNDV_CLR_TO_SEND"
      PROVE  Receiving(a, h, b, x.msg)'
  <2>1. CASE a # d \/ h # g
    BY <1>6, <2>1, ReceivingStays
  <2>2. CASE a = d /\ h = g
    <3>1. Place(d, x.msg, "answered", x)'
      BY <1>2, <1>6, <2>2 DEF Place, AnswerTypes
    <3> QED  BY <1>2, <1>6, <2>2, <3>1 DEF StillReceives
  <2> QED  BY <2>1, <2>2
<1>7. ASSUME NEW h, Receiving(b, h, a, x.msg), x.type = "RNDV_SEND"
      PROVE  Receiving(b, h, a, x.msg)'
  <2>1. CASE b # d \/ h # g
    BY <1>7, <2>1, ReceivingStays
  <2>2. CASE b = d /\ h = g
    <3>1. Place(d, x.msg, "data", x)'
      BY <1>2, <1>7, <2>2 DEF Place
    <3> QED  BY <1>2, <1>7, <2>2, <3>1 DEF StillReceives
  <2> QED  BY <2>1, <2>2
<1> QED  BY <1>1, <1>3, <1>4, <1>5, <1>6, <1>7, PacketStays

\* The places a message did not have before.
LEMMA TouchPlaces ==
    ASSUME PtParts, NEW s \in Proc, NEW d \in Proc, NEW g \in Handle, NEW gone, NEW new,
           TouchStep(s, d, g, gone, new),
           NEW n \in Message, NEW o \in Proc, NEW w, NEW x, Place(o, n, w, x)'
    PROVE  \/ Place(o, n, w, x)
           \/ o = d /\ x = g /\ w \in {"queued", "probed", "reading"} /\ request'[d][g].msg = n
           \/ o = d /\ w = "answered" /\ x \in new /\ x.type \in AnswerTypes /\ x.msg = n
<1>1. n[1] \in Proc
  BY MessageFacts
<1>2. \A h \in Handle : o # d \/ h # g => request'[o][h] = request[o][h]
  BY DEF TouchStep, OnlyRequest
<1>3. CASE w = "envelope"
  <2>1. x \in Packets(n[1], o)
    BY <1>1, <1>3 DEF Place, TouchStep, EnvelopeTypes, AnswerTypes
  <2> QED  BY <1>3, <2>1 DEF Place
<1>4. CASE w = "data"
  <2>1. x \in Packets(n[1], o)
    BY <1>1, <1>4 DEF Place, TouchStep, AnswerTypes
  <2> QED  BY <1>4, <2>1 DEF Place
<1>5. CASE w = "answered"
  <2>1. x \in Packets(o, n[1]) \/ (o = d /\ x \in new)
    BY <1>1, <1>5 DEF Place, TouchStep
  <2>2. x.type \in AnswerTypes /\ x.msg = n
    BY <1>5 DEF Place
  <2> QED  BY <1>5, <2>1, <2>2 DEF Place
<1>6. CASE w = "queued"
  <2>1. Queued(o, x)' /\ request'[o][x].msg = n
    BY <1>6 DEF Place
  <2>2. CASE o = d /\ x = g
    BY <1>6, <2>1, <2>2
  <2>3. CASE o # d \/ x # g
    <3>1. Queued(o, x)
      BY <2>1, <2>3, TouchQueues
    <3>2. x \in Handle
      BY <3>1 DEF Queued, PtParts, ReceiverInv, QueuedInv, QueuedOK
    <3>3. request[o][x].msg = n
      BY <1>2, <2>1, <2>3, <3>2
    <3> QED  BY <1>6, <3>1, <3>3 DEF Place
  <2> QED  BY <2>2, <2>3
<1>7. CASE w = "probed"
  <2>1. x \in Handle /\ request'[o][x].kind = "MPROBE" /\ request'[o][x].msg = n
    BY <1>7 DEF Place
  <2> QED  BY <1>2, <1>7, <2>1 DEF Place
<1>8. CASE w = "reading"
  <2>1. x = reading'[o][n[1]] /\ x # None /\ request'[o][x].proto = "rndv" /\ request'[o][x].msg = n
    BY <1>8 DEF Place
  <2>2. CASE o = d /\ x = g
    BY <1>8, <2>1, <2>2
  <2>3. CASE o # d \/ x # g
    <3>1. x = reading[o][n[1]]
      BY <1>1, <2>1, <2>3 DEF TouchStep
    <3>2. x \in Handle
      BY <1>1, <2>1, <3>1 DEF PtParts, RequestInv, TypeInv
    <3>3. request'[o][x] = request[o][x]
      BY <1>2, <2>3, <3>2
    <3> QED  BY <1>8, <2>1, <3>1, <3>3 DEF Place
  <2> QED  BY <2>2, <2>3
<1> QED  BY <1>3, <1>4, <1>5, <1>6, <1>7, <1>8 DEF Place

\* No message gets a place.
LEMMA TouchNoPlace ==
    ASSUME PtParts, NEW s \in Proc, NEW d \in Proc, NEW g \in Handle, NEW gone, NEW new,
           TouchStep(s, d, g, gone, new), \A x \in new : x.type \notin AnswerTypes,
           \A n \in Message, w \in {"queued", "probed", "reading"} :
              Place(d, n, w, g)' => Place(d, n, w, g)
    PROVE  OnePlace'
<1>1. ASSUME NEW n \in Message, NEW o \in Proc, NEW w, NEW x, Place(o, n, w, x)'
      PROVE  Place(o, n, w, x)
  BY <1>1, TouchPlaces
<1> QED  BY <1>1, OnePlaceStays DEF PtParts, NetInv

\* The message n goes nowhere but to one place.
MovesTo(d, g, new, n, w1, x1) ==
    /\ request'[d][g].msg \in Message => request'[d][g].msg = n
    /\ \A x \in new : x.type \in AnswerTypes => x.msg = n /\ w1 = "answered" /\ x1 = x
    /\ \A w \in {"queued", "probed", "reading"} : Place(d, n, w, g)' => w1 = w /\ x1 = g

\* The message n leaves one place, and gets at most one other.
LEMMA TouchMoves ==
    ASSUME PtParts, NEW s \in Proc, NEW d \in Proc, NEW g \in Handle, NEW gone, NEW new,
           TouchStep(s, d, g, gone, new), NEW n \in Message, NEW w0, NEW x0, NEW w1, NEW x1,
           Place(d, n, w0, x0), ~ Place(d, n, w0, x0)', MovesTo(d, g, new, n, w1, x1)
    PROVE  OnePlace'
<1>1. ASSUME NEW i \in Message, NEW o \in Proc, NEW w, NEW x, Place(o, i, w, x)'
      PROVE  Place(o, i, w, x) \/ (i = n /\ o = d /\ w = w1 /\ x = x1)
  <2>1. CASE o = d /\ x = g /\ w \in {"queued", "probed", "reading"} /\ request'[d][g].msg = i
    BY <1>1, <2>1 DEF MovesTo
  <2>2. CASE o = d /\ w = "answered" /\ x \in new /\ x.type \in AnswerTypes /\ x.msg = i
    BY <2>2 DEF MovesTo
  <2> QED  BY <1>1, <2>1, <2>2, TouchPlaces
<1>2. \A o \in Proc : \A w, x : ~ (Place(o, n, w, x) /\ Place(o, n, w, x)')
  BY OldPlaceLeft DEF PtParts, NetInv
<1> QED  BY <1>1, <1>2, OnePlaceMoves DEF PtParts, NetInv

\* All of it together.
LEMMA TouchKeeps ==
    ASSUME PtParts, NEW s \in Proc, NEW d \in Proc, NEW g \in Handle, NEW m, NEW gone, NEW new,
           TouchStep(s, d, g, gone, new), FateStep(d, g, m, gone), AnsweredStep(d, g, new),
           WaitingStep(s, d, g, gone), FoundStep(m), StillReceives(d, g),
           TypeInv', FreeInv', RefOK(d, g)', TouchedOK(s, d, g)', QueueOrder', PostedOrder',
           NetOK', NetOrder', \A x \in new : PacketOK(d, s, x)', OnePlace', CancelOnce'
    PROVE  PtParts'
<1>1. SenderInv'
  BY TouchSenders
<1>2. ReceiverInv'
  BY TouchReceivers DEF ReceiverInv
<1>3. RequestInv'
  BY TouchRequests DEF RequestInv
<1>4. PacketInv'
  <2>1. ASSUME NEW a \in Proc, NEW b \in Proc, NEW x \in Packets(a, b)' PROVE PacketOK(a, b, x)'
    <3>1. CASE x \in Packets(a, b)
      BY <2>1, <3>1, TouchPackets
    <3>2. CASE x \notin Packets(a, b)
      <4>1. a = d /\ b = s /\ x \in new
        BY <2>1, <3>2 DEF TouchStep
      <4> QED  BY <4>1
    <3> QED  BY <3>1, <3>2
  <2> QED  BY <2>1 DEF PacketInv
<1> QED  BY <1>1, <1>2, <1>3, <1>4 DEF PtParts, NetInv

-----------------------------------------------------------------------------
\* A step that changes a receive, and neither a packet nor the messages that
\* wait nor what became of any.
QuietStep(s, d, g) ==
    /\ OnlyRequest(d, g)
    /\ request[d][g].kind # "SEND" /\ request'[d][g].kind # "SEND"
    /\ request'[d][g].kind = "MPROBE" => request[d][g].kind = "MPROBE"
    /\ \/ request'[d][g].msg = NoMessage /\ ~ Queued(d, g)
       \/ request'[d][g].msg = request[d][g].msg /\ request'[d][g].proto = request[d][g].proto
    /\ request' \in [Proc -> [Handle -> Request]] /\ avail' \in [Proc -> Seq(Handle)]
    /\ FreeInv' /\ RefOK(d, g)'
    /\ unexpected' = unexpected /\ net' = net /\ fate' = fate /\ sent' = sent /\ asked' = asked
    /\ calls' \in {calls, calls + 1} /\ PostedOrder'
    /\ \A o, t \in Proc : o # d \/ t # s => reading'[o][t] = reading[o][t]
    /\ reading'[d][s] \in {reading[d][s], None}
    /\ reading' \in [Proc -> [Proc -> Handle \union {None}]]
    /\ \A o \in Proc : \A e : o # d \/ e.rreq # g => (e \in Receives(o)' <=> e \in Receives(o))

\* A step that changes a receive and no message.
LEMMA QuietTouch ==
    ASSUME PtParts, NEW s \in Proc, NEW d \in Proc, NEW g \in Handle,
           QuietStep(s, d, g), TouchedOK(s, d, g)', StillReceives(d, g)
    PROVE  PtParts'
<1>1. TypeInv /\ QueueOrder /\ QueuedInv /\ ProbedInv
  BY DEF PtParts, RequestInv, ReceiverInv
<1>2. NetOK' /\ NetOrder' /\ \A a, b \in Proc : Packets(a, b)' = Packets(a, b)
  BY SameNet DEF QuietStep, PtParts, NetInv
<1>3. ASSUME NEW o \in Proc, NEW e \in Messages(o) PROVE SameMessage(o, e)
  <2>1. e.rreq \in Handle /\ Queued(o, e.rreq)
    BY <1>1 DEF QueuedInv, QueuedOK, Queued
  <2>2. CASE o = d /\ e.rreq = g
    BY <2>1, <2>2 DEF QuietStep, SameMessage
  <2>3. CASE o # d \/ e.rreq # g
    BY <2>1, <2>3 DEF QuietStep, OnlyRequest, SameMessage
  <2> QED  BY <2>2, <2>3
<1>4. QueueOrder' /\ \A o \in Proc : Messages(o)' = Messages(o)
  BY <1>1, <1>3, MessagesSame DEF QuietStep
<1>5. TouchStep(s, d, g, {}, {})
  <2>1. \A a, b \in Proc :
          Packets(a, b)' = IF a = s /\ b = d THEN Packets(a, b) \ {}
                           ELSE IF a = d /\ b = s THEN Packets(a, b) \union {}
                           ELSE Packets(a, b)
    BY <1>2
  <2>2. \A o \in Proc : \A e : o # d \/ e.rreq # g =>
          (e \in Messages(o)' <=> e \in Messages(o)) /\ (e \in Receives(o)' <=> e \in Receives(o))
    BY <1>4 DEF QuietStep
  <2>3. {} \subseteq Packets(s, d) /\ \A x \in {} : x.type \in AnswerTypes \union {"CANCEL_SEND_RESP"}
    OBVIOUS
  <2>4. OnlyRequest(d, g) /\ request[d][g].kind # "SEND" /\ request'[d][g].kind # "SEND"
    BY DEF QuietStep
  <2>5. sent' = sent /\ asked' = asked /\ calls' \in {calls, calls + 1}
    BY DEF QuietStep
  <2>6. /\ \A o, t \in Proc : o # d \/ t # s => reading'[o][t] = reading[o][t]
        /\ reading'[d][s] \in {reading[d][s], g, None}
    BY DEF QuietStep
  <2> QED  BY <2>1, <2>2, <2>3, <2>4, <2>5, <2>6 DEF TouchStep
<1>6. FateStep(d, g, NoMessage, {}) /\ FoundStep(NoMessage)
  BY DEF QuietStep, FateStep, FoundStep
<1>7. AnsweredStep(d, g, {})
  <2>1. \A n \in Message : Cancelling(n)' <=> Cancelling(n)
    BY <1>2, CancellingSame
  <2>2. ASSUME request'[d][g].kind = "MPROBE" PROVE Unanswered(request'[d][g].msg)
    <3>1. request[d][g].kind = "MPROBE" /\ ProbedOK(d, g)
      BY <1>1, <2>2 DEF QuietStep, ProbedInv
    <3>2. fate[request[d][g].msg] = "matched"
      BY <3>1 DEF ProbedOK
    <3>3. CASE request'[d][g].msg = request[d][g].msg
      BY <3>1, <3>3 DEF Unanswered
    <3>4. CASE request'[d][g].msg = NoMessage
      <4>1. ProbedOK(d, g)'
        BY DEF TouchedOK
      <4>2. request'[d][g].msg \in Message
        BY <2>2, <4>1 DEF ProbedOK, Holds, Link
      <4> QED  BY <3>4, <4>2, MessageFacts
    <3> QED  BY <3>3, <3>4 DEF QuietStep
  <2> QED  BY <2>1, <2>2 DEF AnsweredStep
<1>8. WaitingStep(s, d, g, {})
  <2>1. ASSUME NEW e \in Messages(d), e.rreq = g
        PROVE  e \in Messages(d)' /\ request'[d][g].msg = request[d][g].msg /\ SameMessage(d, e)
    BY <1>3, <1>4, <2>1 DEF SameMessage
  <2> QED  BY <1>4, <2>1 DEF WaitingStep
<1>9. OnePlace'
  <2>1. ASSUME NEW n \in Message, NEW w \in {"queued", "probed", "reading"}, Place(d, n, w, g)'
        PROVE  Place(d, n, w, g)
    <3>1. request'[d][g].msg = n /\ n # NoMessage
      BY <2>1, MessageFacts DEF Place
    <3>2. request[d][g].msg = n /\ request'[d][g].proto = request[d][g].proto
      BY <3>1 DEF QuietStep
    <3>3. CASE w = "queued"
      BY <1>4, <2>1, <3>2, <3>3 DEF Place, Queued
    <3>4. CASE w = "probed"
      BY <2>1, <3>2, <3>4 DEF Place, QuietStep
    <3>5. CASE w = "reading"
      <4>1. n[1] \in Proc
        BY MessageFacts
      <4> QED  BY <2>1, <3>2, <3>5, <4>1 DEF Place, QuietStep
    <3> QED  BY <3>3, <3>4, <3>5
  <2> QED  BY <1>5, <2>1, TouchNoPlace
<1>10. CancelOnce'
  BY <1>2, CancelOnceSame DEF PtParts, NetInv
<1>11. TypeInv'
  <2>1. sent' \in [Proc -> Nat] /\ calls' \in Nat /\ fate' \in [Message -> Fates]
    BY <1>1 DEF TypeInv, QuietStep
  <2> QED  BY <2>1 DEF TypeInv, QuietStep
<1>12. \A x \in {} : PacketOK(d, s, x)'
  OBVIOUS
<1>13. FreeInv' /\ RefOK(d, g)' /\ PostedOrder'
  BY DEF QuietStep
<1> QED  BY <1>2, <1>4, <1>5, <1>6, <1>7, <1>8, <1>9, <1>10, <1>11, <1>12, <1>13, TouchKeeps

\* The user's reference to a receive goes.
LEMMA ReleaseRecv ==
    ASSUME PtParts, NEW p \in Proc, NEW h \in Handle, request[p][h].kind = "RECV",
           Wait(p, h) \/ RequestFree(p, h)
    PROVE  PtParts'
<1>r. PICK r : r = request[p][h]
  OBVIOUS
<1>u. PICK u : u = [r EXCEPT !.user = FALSE]
  OBVIOUS
<1>q. PICK q : q = Released(u)
  OBVIOUS
<1>1. /\ r.user /\ Put(p, h, q) /\ posted' = posted /\ unexpected' = unexpected /\ net' = net
      /\ reading' = reading /\ sent' = sent /\ calls' = calls /\ asked' = asked /\ fate' = fate
  BY <1>r, <1>u, <1>q DEF Wait, RequestFree
<1>2. /\ TypeInv /\ RefInv /\ FreeInv /\ QueuedInv /\ PostedOrder /\ ListedInv /\ ReadingInv
      /\ request[p][h] \in Request
  BY DEF PtParts, RequestInv, ReceiverInv, TypeInv
<1>3. r \in Request /\ r.kind = "RECV" /\ r.cc \in Int
  BY <1>r, <1>2 DEF Request
<1>4. /\ u \in Request /\ SameIdentity(r, u) /\ SameFlags(r, u)
      /\ u.user = FALSE /\ u.cc = r.cc /\ u.ref = r.ref
  BY <1>u, <1>3, UserFacts
<1>5. /\ q \in Request /\ SameIdentity(u, q) /\ SameFlags(u, q)
      /\ q.user = u.user /\ q.cc = u.cc /\ q.ref = u.ref - 1
  BY <1>q, <1>4, ReleasedFacts
<1>6. ~ Queued(p, h)
  BY <1>r, <1>1, <1>2 DEF Queued, QueuedInv, QueuedOK
<1>7. q.kind = "RECV" /\ q.msg = r.msg /\ q.proto = r.proto /\ q.peer = r.peer /\ q.cc = r.cc
      /\ q.ue = r.ue /\ ~ q.user /\ q.cancel_pending = r.cancel_pending /\ q.writing = r.writing
  BY <1>3, <1>4, <1>5 DEF SameIdentity, SameFlags
<1>8. /\ request' \in [Proc -> [Handle -> Request]]
      /\ request'[p][h] = IF q.ref = 0 THEN Unused ELSE q
      /\ OnlyRequest(p, h) /\ avail' \in [Proc -> Seq(Handle)] /\ FreeInv'
  BY <1>r, <1>1, <1>2, <1>3, <1>5, <1>7, PutFacts
<1>9. q.ref = Bit(q.cc > 0) /\ ~ r.cancel_pending /\ ~ r.writing
  <2>1. RefOK(p, h)
    BY <1>2 DEF RefInv
  <2> QED  BY <1>r, <1>1, <1>3, <1>4, <1>5, <1>6, <2>1 DEF RefOK, Bit
<1>10. /\ \A o \in Proc : Messages(o)' = Messages(o) /\ Receives(o)' = Receives(o)
       /\ \A o \in Proc : \A x : (Queued(o, x)' <=> Queued(o, x)) /\ (Listed(o, x)' <=> Listed(o, x))
       /\ PostedOrder'
  BY <1>1, <1>2 DEF Messages, Receives, Queued, Listed, PostedOrder
<1>11. RefOK(p, h)'
  BY <1>6, <1>7, <1>8, <1>9, <1>10, UnusedFacts DEF RefOK, Bit
<1>12. r.cc = 1 => request'[p][h] = q
  BY <1>7, <1>8, <1>9 DEF Bit
<1>13. QuietStep(p, p, h)
  <2>1. \/ request'[p][h].msg = NoMessage /\ ~ Queued(p, h)
        \/ request'[p][h].msg = r.msg /\ request'[p][h].proto = r.proto
    BY <1>6, <1>7, <1>8, UnusedFacts
  <2>2. request'[p][h].kind \in {"none", "RECV"}
    BY <1>7, <1>8, UnusedFacts
  <2>3. reading' \in [Proc -> [Proc -> Handle \union {None}]]
    BY <1>1, <1>2 DEF TypeInv
  <2> QED  BY <1>r, <1>1, <1>3, <1>8, <1>10, <1>11, <2>1, <2>2, <2>3 DEF QuietStep
<1>14. TouchedOK(p, p, h)'
  <2>1. \A e \in Messages(p)' : e.rreq # h
    BY <1>6, <1>10 DEF Queued
  <2>2. ProbedOK(p, h)'
    BY <1>7, <1>8, UnusedFacts DEF ProbedOK
  <2>3. ASSUME NEW e \in Receives(p)', e.rreq = h PROVE ListedOK(p, e)'
    <3>1. ListedOK(p, e)
      BY <1>2, <1>10, <2>3 DEF ListedInv
    <3> QED  BY <1>r, <1>7, <1>12, <2>3, <3>1 DEF ListedOK
  <2>4. ASSUME NEW t \in Proc, reading'[p][t] = h PROVE ReadingOK(p, t)'
    <3>1. ReadingOK(p, t) /\ reading[p][t] = h /\ h # None
      BY <1>1, <1>2, <2>4, HandleFacts DEF ReadingInv
    <3> QED  BY <1>r, <1>1, <1>7, <1>10, <1>12, <2>4, <3>1 DEF ReadingOK
  <2> QED  BY <2>1, <2>2, <2>3, <2>4 DEF TouchedOK
<1>15. StillReceives(p, h)
  <2>1. ASSUME NEW t \in Proc, NEW n \in Message, Receiving(p, h, t, n) PROVE Receiving(p, h, t, n)'
    BY <1>r, <1>7, <1>10, <1>12, <2>1 DEF Receiving
  <2> QED  BY <2>1 DEF StillReceives
<1> QED  BY <1>13, <1>14, <1>15, QuietTouch

\* The user cancels a receive that still waits.
LEMMA CancelRecvKeeps ==
    ASSUME IInv, PtParts, NEW p \in Proc, NEW h \in Handle, CancelRecv(p, h)
    PROVE  PtParts'
<1>r. PICK r : r = request[p][h]
  OBVIOUS
<1>u. PICK u : u = WithOutcome(r, TRUE, 0)
  OBVIOUS
<1>q. PICK q : q = Released(u)
  OBVIOUS
<1>i. PICK i \in DOMAIN posted[p] :
         posted[p][i].rreq = h /\ posted' = [posted EXCEPT ![p] = RemoveAt(@, i)]
  BY DEF CancelRecv
<1>e. PICK e : e = posted[p][i]
  OBVIOUS
<1>1. /\ r.user /\ Put(p, h, q) /\ unexpected' = unexpected /\ net' = net
      /\ reading' = reading /\ sent' = sent /\ calls' = calls /\ asked' = asked /\ fate' = fate
  BY <1>r, <1>u, <1>q DEF CancelRecv, CountCancel, WithOutcome
<1>2. /\ TypeInv /\ RefInv /\ FreeInv /\ QueuedInv /\ PostedOrder /\ ListedInv /\ ReadingInv
      /\ request[p][h] \in Request /\ QueuesOK
  BY DEF PtParts, RequestInv, ReceiverInv, TypeInv, IInv
<1>3. /\ PostedOrder' /\ e \in Receives(p)
      /\ \A o \in Proc : Receives(o)' = IF o = p THEN Receives(o) \ {e} ELSE Receives(o)
      /\ \A x \in Receives(p) : x # e => x.rreq # e.rreq
  BY <1>i, <1>e, <1>2, ReceivesShrink
<1>4. e.rreq = h /\ Listed(p, h) /\ ListedOK(p, e)
  BY <1>i, <1>e, <1>2, <1>3 DEF Listed, ListedInv
<1>5. r.kind = "RECV" /\ r.msg = NoMessage /\ r.cc = 1 /\ r \in Request
  BY <1>r, <1>2, <1>4 DEF ListedOK
<1>6. ~ Queued(p, h)
  BY <1>2, <1>4 DEF Queued, QueuedInv, QueuedOK, Holds
<1>7. /\ u \in Request /\ SameIdentity(r, u) /\ u.writing = r.writing
      /\ u.cancel_pending = r.cancel_pending /\ u.user = r.user /\ u.cc = 0 /\ u.ref = r.ref
  <2>1. TRUE \in BOOLEAN /\ 0 \in Int
    OBVIOUS
  <2> QED  BY ONLY <1>u, <1>5, <2>1, CancelledFacts
<1>8. /\ q \in Request /\ SameIdentity(u, q) /\ SameFlags(u, q)
      /\ q.user = u.user /\ q.cc = u.cc /\ q.ref = u.ref - 1
  BY <1>q, <1>7, ReleasedFacts
<1>9. /\ q.kind = "RECV" /\ q.msg = NoMessage /\ q.user /\ q.cc = 0
      /\ q.cancel_pending = r.cancel_pending /\ q.writing = r.writing
  BY <1>1, <1>5, <1>7, <1>8 DEF SameIdentity, SameFlags
<1>10. q.ref = 1 /\ ~ r.cancel_pending /\ ~ r.writing
  <2>1. RefOK(p, h)
    BY <1>2 DEF RefInv
  <2> QED  BY <1>r, <1>1, <1>5, <1>6, <1>7, <1>8, <2>1 DEF RefOK, Bit
<1>11. /\ request' \in [Proc -> [Handle -> Request]] /\ request'[p][h] = q
       /\ OnlyRequest(p, h) /\ avail' \in [Proc -> Seq(Handle)] /\ FreeInv'
  BY <1>r, <1>1, <1>2, <1>5, <1>8, <1>9, <1>10, PutFacts
<1>12. ~ Queued(p, h)' /\ Messages(p)' = Messages(p) /\ ~ Listed(p, h)'
  BY <1>1, <1>3, <1>4, <1>6 DEF Queued, Messages, Listed
<1>13. RefOK(p, h)'
  BY <1>9, <1>10, <1>11, <1>12 DEF RefOK, Bit
<1>14. QuietStep(p, p, h)
  <2>1. \A o \in Proc : \A x : o # p \/ x.rreq # h => (x \in Receives(o)' <=> x \in Receives(o))
    BY <1>3, <1>4
  <2>2. reading' \in [Proc -> [Proc -> Handle \union {None}]]
    BY <1>1, <1>2 DEF TypeInv
  <2> QED  BY <1>r, <1>1, <1>3, <1>5, <1>6, <1>9, <1>11, <1>13, <2>1, <2>2 DEF QuietStep
<1>15. TouchedOK(p, p, h)'
  <2>1. ASSUME NEW t \in Proc, reading'[p][t] = h PROVE FALSE
    <3>1. ReadingOK(p, t) /\ reading[p][t] = h /\ h # None
      BY <1>1, <1>2, <2>1, HandleFacts DEF ReadingInv
    <3> QED  BY <1>4, <3>1 DEF ReadingOK
  <2>2. ProbedOK(p, h)'
    BY <1>9, <1>11 DEF ProbedOK
  <2> QED  BY <1>12, <2>1, <2>2 DEF TouchedOK, Queued, Listed
<1>16. StillReceives(p, h)
  BY <1>4 DEF StillReceives, Receiving
<1> QED  BY <1>14, <1>15, <1>16, QuietTouch

\* A receive is posted.
LEMMA IrecvPostedKeeps ==
    ASSUME IInv, PtParts, NEW p \in Proc, NEW want, IrecvPosted(p, want)
    PROVE  PtParts'
<1>q. PICK q : q = [NewRecv EXCEPT !.user = TRUE]
  OBVIOUS
<1>h. PICK h \in Handle : /\ Alloc(p, h, q)
                          /\ posted' = [posted EXCEPT ![p] = Enqueued(@, Entry(h, want))]
  BY <1>q DEF IrecvPosted
<1>e. PICK e : e = Entry(h, want)
  OBVIOUS
<1>1. /\ unexpected' = unexpected /\ net' = net /\ e.rreq = h
      /\ reading' = reading /\ sent' = sent /\ calls' = calls + 1 /\ asked' = asked /\ fate' = fate
  BY <1>e DEF IrecvPosted, Count, Entry
<1>2. /\ TypeInv /\ RefInv /\ FreeInv /\ QueuedInv /\ PostedOrder /\ ListedInv /\ ReadingInv
      /\ QueuesOK
  BY DEF PtParts, RequestInv, ReceiverInv, IInv
<1>3. /\ q \in Request /\ SameIdentity(NewRecv, q) /\ SameFlags(NewRecv, q)
      /\ q.user = TRUE /\ q.cc = NewRecv.cc /\ q.ref = NewRecv.ref
  BY <1>q, NewRecvFacts, UserFacts
<1>4. /\ q.kind = "RECV" /\ q.msg = NoMessage /\ q.cc = 1 /\ q.ref = 2 /\ q.user
      /\ ~ q.cancel_pending /\ ~ q.writing /\ ~ q.ue
  BY <1>3, NewRecvFacts DEF SameIdentity, SameFlags
<1>5. /\ request' \in [Proc -> [Handle -> Request]]
      /\ request[p][h].kind = "none" /\ request'[p][h] = q
      /\ OnlyRequest(p, h) /\ avail' \in [Proc -> Seq(Handle)] /\ FreeInv'
  BY <1>h, <1>2, <1>3, AllocFacts
<1>6. ~ Queued(p, h) /\ ~ Listed(p, h)
  BY <1>2, <1>5 DEF Queued, QueuedInv, QueuedOK, Listed, ListedInv, ListedOK
<1>7. /\ PostedOrder'
      /\ \A o \in Proc : Receives(o)' = IF o = p THEN Receives(o) \union {e} ELSE Receives(o)
  <2>1. \A x \in Receives(p) : x.rreq # e.rreq
    BY <1>1, <1>6 DEF Listed
  <2> QED  BY <1>h, <1>e, <1>2, <2>1, ReceivesGrow
<1>8. ~ Queued(p, h)' /\ Messages(p)' = Messages(p)
  BY <1>1, <1>6 DEF Queued, Messages
<1>9. RefOK(p, h)'
  BY <1>4, <1>5, <1>8 DEF RefOK, Bit
<1>10. QuietStep(p, p, h)
  <2>1. \A o \in Proc : \A x : o # p \/ x.rreq # h => (x \in Receives(o)' <=> x \in Receives(o))
    BY <1>1, <1>7
  <2>2. reading' \in [Proc -> [Proc -> Handle \union {None}]]
    BY <1>1, <1>2 DEF TypeInv
  <2> QED  BY <1>1, <1>4, <1>5, <1>6, <1>7, <1>9, <2>1, <2>2 DEF QuietStep
<1>11. TouchedOK(p, p, h)'
  <2>1. ASSUME NEW t \in Proc, reading'[p][t] = h PROVE FALSE
    <3>1. ReadingOK(p, t) /\ reading[p][t] = h /\ h # None
      BY <1>1, <1>2, <2>1, HandleFacts DEF ReadingInv
    <3> QED  BY <1>5, <3>1 DEF ReadingOK
  <2>2. ProbedOK(p, h)'
    BY <1>4, <1>5 DEF ProbedOK
  <2>3. ASSUME NEW x \in Receives(p)', x.rreq = h PROVE ListedOK(p, x)'
    BY <1>4, <1>5, <2>3 DEF ListedOK
  <2> QED  BY <1>8, <2>1, <2>2, <2>3 DEF TouchedOK, Queued
<1>12. StillReceives(p, h)
  BY <1>5 DEF StillReceives, Receiving
<1> QED  BY <1>10, <1>11, <1>12, QuietTouch

\* A message that was not received yet, when its request changes.
LEMMA HeldStays ==
    ASSUME TypeInv, sent' = sent, asked' = asked, NEW d \in Proc, NEW g \in Handle, OnlyRequest(d, g),
           request[d][g].kind # "SEND", request'[d][g].kind # "SEND", Holds(d, g),
           NEW r, r = request[d][g], NEW q, q = request'[d][g],
           q.peer = r.peer, q.msg = r.msg, q.proto = r.proto, q.sender_req_id = r.sender_req_id,
           HeldData(q), ~ Listed(d, g)'
    PROVE  /\ Holds(d, g)'
           /\ \A tag : Tagged(r.peer, r.msg, tag) => TaggedNext(q.peer, q.msg, tag)
<1>1. SendsKeep
  <2>1. sent \in [Proc -> Nat] /\ asked \subseteq asked' /\ ~ IsSendRequest(d, g)
    BY DEF TypeInv, IsSendRequest
  <2> QED  BY <2>1, SendsKeepAll
<1>2. Link(r.peer, d, r.msg, r.proto, r.sender_req_id)
  BY DEF Holds
<1>3. ASSUME r.proto \in Waits PROVE request'[r.peer][r.sender_req_id].kind # "none"
  <2>1. IsSend(r.peer, r.sender_req_id, r.msg) /\ r.peer # d /\ r.peer \in Proc
    BY <1>2, <1>3, BoundAssumption DEF Link
  <2>2. request'[r.peer][r.sender_req_id] = request[r.peer][r.sender_req_id]
    BY <2>1 DEF OnlyRequest, IsSend
  <2> QED  BY <2>1, <2>2 DEF IsSend
<1>4. /\ LinkNext(r.peer, d, r.msg, r.proto, r.sender_req_id)
      /\ r.peer \in Proc /\ r.msg \in Message /\ r.msg[2] <= sent[r.peer]
  BY <1>1, <1>3, HeldLink
<1>5. Holds(d, g)'
  BY <1>4, HoldsIsNext
<1>6. ASSUME NEW tag, Tagged(r.peer, r.msg, tag) PROVE TaggedNext(q.peer, q.msg, tag)
  BY <1>1, <1>4, <1>6, HeldTag
<1> QED  BY <1>5, <1>6

\* The rest of the data of a message has come.
LEMMA DataArrivesKeeps ==
    ASSUME PtParts, NEW s \in Proc, NEW d \in Proc, DataArrives(s, d)
    PROVE  PtParts'
<1>g. PICK g : g = reading[d][s]
  OBVIOUS
<1>r. PICK r : r = request[d][g]
  OBVIOUS
<1>u. PICK u : u = IF r.ue THEN Unpacked(r, r.pending - 1, FALSE) ELSE r
  OBVIOUS
<1>q. PICK q : q = Completed(u)
  OBVIOUS
<1>1. /\ g # None /\ Put(d, g, q) /\ ReadLater(s, d, None)
      /\ posted' = posted /\ unexpected' = unexpected /\ net' = net
      /\ sent' = sent /\ calls' = calls /\ asked' = asked /\ fate' = fate
  BY <1>g, <1>r, <1>u, <1>q DEF DataArrives, Unpacked
<1>2. /\ TypeInv /\ RefInv /\ FreeInv /\ QueuedInv /\ PostedOrder /\ ListedInv /\ ReadingInv /\ ProbedInv
      /\ g \in Handle
  BY <1>g, <1>1 DEF PtParts, RequestInv, ReceiverInv, TypeInv
<1>3. r \in Request /\ r.pending \in Int /\ r.ue \in BOOLEAN /\ r.user \in BOOLEAN
  BY <1>r, <1>2 DEF TypeInv, Request
<1>4. /\ r.kind \in {"RECV", "MPROBE"} /\ r.cc = 1 /\ r.peer = s /\ r.msg \in Message /\ ~ Listed(d, g)
      /\ r.proto = "rndv" => r.kind = "RECV" /\ ~ Queued(d, g) /\ r.msg[1] = s
  <2>1. ReadingOK(d, s)
    BY <1>2 DEF ReadingInv
  <2> QED  BY <1>g, <1>r, <1>1, <2>1 DEF ReadingOK
<1>5. /\ u \in Request /\ SameIdentity(r, u) /\ u.user = r.user /\ u.cc = r.cc /\ u.ref = r.ref
      /\ u.writing = r.writing /\ u.cancel_pending = r.cancel_pending
      /\ u.pending = (IF r.ue THEN r.pending - 1 ELSE r.pending) /\ ~ u.ue
  <2>1. CASE r.ue
    <3>1. r.pending - 1 \in Int /\ FALSE \in BOOLEAN /\ u = Unpacked(r, r.pending - 1, FALSE)
      BY <1>u, <1>3, <2>1
    <3>2. /\ u \in Request /\ SameIdentity(r, u)
          /\ u.writing = r.writing /\ u.cancel_pending = r.cancel_pending
          /\ u.pending = r.pending - 1 /\ u.ue = FALSE
          /\ u.user = r.user /\ u.cc = r.cc /\ u.ref = r.ref
      BY ONLY <1>3, <3>1, UnpackedFacts
    <3> QED  BY <2>1, <3>2
  <2>2. CASE ~ r.ue
    BY <1>u, <1>3, <2>2 DEF SameIdentity
  <2> QED  BY <2>1, <2>2
<1>6. /\ q \in Request /\ SameIdentity(u, q) /\ SameFlags(u, q)
      /\ q.user = u.user /\ q.cc = u.cc - 1 /\ q.ref = IF u.cc = 1 THEN u.ref - 1 ELSE u.ref
  BY <1>q, <1>5, CompletedFacts
<1>7. /\ q.kind = r.kind /\ q.msg = r.msg /\ q.peer = r.peer /\ q.proto = r.proto
      /\ q.sender_req_id = r.sender_req_id /\ q.user = r.user /\ q.cc = 0 /\ q.ref = r.ref - 1
      /\ q.pending = (IF r.ue THEN r.pending - 1 ELSE r.pending) /\ ~ q.ue
      /\ q.writing = r.writing /\ q.cancel_pending = r.cancel_pending
  BY <1>4, <1>5, <1>6 DEF SameIdentity, SameFlags
<1>8. r.ref = Bit(r.user) + Bit(Queued(d, g)) + 1 /\ ~ r.cancel_pending /\ ~ r.writing
  <2>1. RefOK(d, g)
    BY <1>2 DEF RefInv
  <2> QED  BY <1>r, <1>4, <2>1 DEF RefOK, Bit
<1>9. q.ref = Bit(r.user) + Bit(Queued(d, g)) /\ (Queued(d, g) => q.ref = 1 /\ ~ r.user)
      /\ (r.kind = "MPROBE" => q.ref = 1)
  <2>1. Queued(d, g) => ~ r.user
    BY <1>r, <1>2 DEF Queued, QueuedInv, QueuedOK
  <2>2. r.kind = "MPROBE" => r.user /\ ~ Queued(d, g)
    BY <1>r, <1>2, SendNotQueued DEF ProbedInv, ProbedOK
  <2> QED  BY <1>3, <1>7, <1>8, <2>1, <2>2 DEF Bit
<1>20. /\ Queued(d, g) => q.ref # 0
       /\ r.kind = "MPROBE" => q.ref # 0
       /\ q.ref = 0 => ~ Queued(d, g)
  BY <1>9
<1>10. /\ request' \in [Proc -> [Handle -> Request]]
       /\ request'[d][g] = IF q.ref = 0 THEN Unused ELSE q
       /\ OnlyRequest(d, g) /\ avail' \in [Proc -> Seq(Handle)] /\ FreeInv'
  BY <1>r, <1>1, <1>2, <1>4, <1>6, <1>7, PutFacts
<1>11. /\ \A o \in Proc : Messages(o)' = Messages(o) /\ Receives(o)' = Receives(o)
       /\ \A o \in Proc : \A x : (Queued(o, x)' <=> Queued(o, x)) /\ (Listed(o, x)' <=> Listed(o, x))
       /\ PostedOrder'
  BY <1>1, <1>2 DEF Messages, Receives, Queued, Listed, PostedOrder
<1>12. RefOK(d, g)'
  <2>1. CASE q.ref = 0
    <3>1. request'[d][g] = Unused /\ ~ Queued(d, g)
      BY <1>9, <1>10, <2>1
    <3> QED  BY <1>11, <3>1, UnusedFacts DEF RefOK, Bit
  <2>2. CASE q.ref # 0
    <3>1. request'[d][g] = q
      BY <1>10, <2>2
    <3>2. q.ref = Bit(q.user) + Bit(Queued(d, g)') + Bit(q.cc > 0)
      <4>1. q.ref = Bit(q.user) + Bit(Queued(d, g)')
        BY <1>7, <1>9, <1>11 DEF Bit
      <4> QED  BY <1>7, <4>1 DEF Bit
    <3> QED  BY <1>4, <1>7, <1>8, <2>2, <3>1, <3>2 DEF RefOK
  <2> QED  BY <2>1, <2>2
<1>13. /\ reading' \in [Proc -> [Proc -> Handle \union {None}]] /\ reading'[d][s] = None
       /\ \A o, t \in Proc : o # d \/ t # s => reading'[o][t] = reading[o][t]
  BY <1>1, <1>2 DEF ReadLater, TypeInv
<1>14. request'[d][g].kind \in {"none", r.kind}
       /\ \/ request'[d][g].msg = NoMessage /\ ~ Queued(d, g)
          \/ request'[d][g] = q
  BY <1>7, <1>9, <1>10, UnusedFacts
<1>15. QuietStep(s, d, g)
  <2>1. \/ request'[d][g].msg = NoMessage /\ ~ Queued(d, g)
        \/ request'[d][g].msg = r.msg /\ request'[d][g].proto = r.proto
    BY <1>7, <1>14
  <2>2. r.kind # "SEND" /\ request'[d][g].kind # "SEND" /\ (request'[d][g].kind = "MPROBE" => r.kind = "MPROBE")
    BY <1>4, <1>14
  <2> QED  BY <1>r, <1>1, <1>10, <1>11, <1>12, <1>13, <2>1, <2>2 DEF QuietStep
<1>16. ASSUME Holds(d, g), Queued(d, g) \/ r.kind = "MPROBE"
       PROVE  Holds(d, g)' /\ \A tag : Tagged(r.peer, r.msg, tag) => TaggedNext(q.peer, q.msg, tag)
  <2>1. request'[d][g] = q
    BY <1>10, <1>16, <1>20
  <2>2. HeldData(q)
    <3>1. r.proto # "rndv"
      BY <1>4, <1>16
    <3> QED  BY <1>r, <1>3, <1>4, <1>7, <1>16, <3>1 DEF HeldData, Holds
  <2>3. ~ Listed(d, g)'
    BY <1>4, <1>11
  <2>4. r.kind # "SEND" /\ q.kind # "SEND"
    BY <1>4, <1>7
  <2> QED  BY <1>r, <1>1, <1>2, <1>7, <1>10, <1>16, <2>1, <2>2, <2>3, <2>4, HeldStays
<1>17. TouchedOK(s, d, g)'
  <2>1. ASSUME NEW e \in Messages(d)', e.rreq = g PROVE QueuedOK(d, e)'
    <3>1. QueuedOK(d, e) /\ Queued(d, g)
      BY <1>2, <1>11, <2>1 DEF QueuedInv, Queued
    <3>2. request'[d][g] = q /\ q.ref # 0
      BY <1>10, <1>20, <3>1
    <3>3. Holds(d, g) /\ r.kind = "RECV" /\ ~ r.user /\ e.match = Match(r.peer, e.match.tag)
          /\ Tagged(r.peer, r.msg, e.match.tag) /\ fate[r.msg] = "sent"
      BY <1>r, <2>1, <3>1 DEF QueuedOK
    <3>4. Holds(d, g)' /\ TaggedNext(q.peer, q.msg, e.match.tag)
      BY <1>16, <3>1, <3>3
    <3>5. q.kind = "RECV" /\ ~ q.user /\ e.match = Match(q.peer, e.match.tag) /\ fate'[q.msg] = "sent"
      BY <1>1, <1>7, <3>3
    <3> QED  BY <1>2, <2>1, <3>2, <3>4, <3>5, QueuedIsNext
  <2>2. ProbedOK(d, g)'
    <3>1. ASSUME request'[d][g].kind = "MPROBE" PROVE ProbedOK(d, g)'
      <4>1. r.kind = "MPROBE" /\ request'[d][g] = q /\ q.ref # 0
        BY <1>9, <1>10, <1>14, <1>20, <3>1, UnusedFacts
      <4>2. r.user /\ Holds(d, g) /\ fate[r.msg] = "matched"
        BY <1>r, <1>2, <4>1 DEF ProbedInv, ProbedOK
      <4>3. Holds(d, g)'
        BY <1>16, <4>1, <4>2
      <4> QED  BY <1>1, <1>7, <4>1, <4>2, <4>3 DEF ProbedOK
    <3> QED  BY <3>1 DEF ProbedOK
  <2>3. \A e \in Receives(d)' : e.rreq # g
    BY <1>4, <1>11 DEF Listed
  <2>4. ASSUME NEW t \in Proc, reading'[d][t] = g PROVE FALSE
    <3>1. t # s /\ reading[d][t] = g
      BY <1>1, <1>13, <2>4
    <3>2. ReadingOK(d, t)
      BY <1>2 DEF ReadingInv
    <3> QED  BY <1>r, <1>1, <1>4, <3>1, <3>2 DEF ReadingOK
  <2> QED  BY <2>1, <2>2, <2>3, <2>4 DEF TouchedOK
<1>18. StillReceives(d, g)
  <2>1. ASSUME NEW t \in Proc, NEW n \in Message, Receiving(d, g, t, n), NEW x,
               NEW w \in {"answered", "data"}, Place(d, n, w, x)'
        PROVE  FALSE
    <3>1. r.proto = "rndv" /\ r.msg = n /\ r.msg[1] = s
      BY <1>r, <1>4, <2>1 DEF Receiving
    <3>2. Place(d, n, "reading", g)
      BY <1>g, <1>r, <1>1, <3>1 DEF Place
    <3>3. \A a, b \in Proc : Packets(a, b)' = Packets(a, b)
      BY <1>1 DEF Packets
    <3>4. n[1] \in Proc
      BY MessageFacts
    <3>5. Place(d, n, w, x)
      BY <2>1, <3>3, <3>4 DEF Place
    <3> QED  BY <2>1, <3>2, <3>5 DEF PtParts, NetInv, OnePlace
  <2> QED  BY <2>1 DEF StillReceives
<1> QED  BY <1>2, <1>15, <1>17, <1>18, QuietTouch

\* What the invariant says of a request to cancel, and of its answer.
LEMMA CancelReqFacts ==
    ASSUME PtParts, NEW s \in Proc, NEW d \in Proc, NEW k \in Packets(s, d),
           k.type = "CANCEL_SEND_REQ"
    PROVE  /\ s # d /\ CancelReqOK(s, d, k) /\ k.msg \in Message /\ k.msg[1] = s
           /\ \A o \in Proc : \A x : CancelPacket(o, k.msg, x) => o = d /\ x = k
<1>1. PacketOK(s, d, k)
  BY DEF PtParts, NetInv, PacketInv
<1>2. s # d /\ CancelReqOK(s, d, k)
  BY <1>1 DEF PacketOK, AnswerTypes, EnvelopeTypes
<1>3. IsSend(s, k.sender_req_id, k.msg)
  BY <1>2 DEF CancelReqOK
<1>4. k.msg \in Message /\ k.msg[1] = s
  BY <1>3, SendFacts
<1>5. CancelPacket(d, k.msg, k)
  BY <1>4 DEF CancelPacket
<1>6. \A o \in Proc : \A x : CancelPacket(o, k.msg, x) => o = d /\ x = k
  BY <1>4, <1>5 DEF PtParts, NetInv, CancelOnce
<1> QED  BY <1>2, <1>4, <1>6

\* The answer l to a request k to cancel a message is new.
LEMMA CancelReplyNew ==
    ASSUME PtParts, NEW s \in Proc, NEW d \in Proc, NEW k \in Packets(s, d),
           k.type = "CANCEL_SEND_REQ", NEW l, l.type = "CANCEL_SEND_RESP", l.msg = k.msg
    PROVE  \A x \in Packets(d, s) : NetBefore(x, l)
<1>1. /\ k.msg \in Message /\ k.msg[1] = s
      /\ \A o \in Proc : \A x : CancelPacket(o, k.msg, x) => o = d /\ x = k
  BY CancelReqFacts
<1>2. l \notin Packets(d, s)
  BY <1>1 DEF CancelPacket
<1> QED  BY <1>2 DEF NetBefore, EnvelopeTypes

LEMMA CancelReplyFacts ==
    ASSUME PtParts, NEW s \in Proc, NEW d \in Proc, NEW k \in Packets(s, d),
           k.type = "CANCEL_SEND_REQ", NEW l, l.type = "CANCEL_SEND_RESP", l.msg = k.msg,
           \A x, y \in Proc :
                 Packets(x, y)' = IF x = s /\ y = d THEN Packets(x, y) \ {k}
                                  ELSE IF x = d /\ y = s THEN Packets(x, y) \union {l}
                                  ELSE Packets(x, y)
    PROVE  CancelOnce' /\ \A n \in Message : Cancelling(n)' <=> Cancelling(n)
<1>3. /\ s # d /\ CancelReqOK(s, d, k) /\ k.msg \in Message /\ k.msg[1] = s
      /\ \A o \in Proc : \A x : CancelPacket(o, k.msg, x) => o = d /\ x = k
  BY CancelReqFacts
<1>6. CancelOnce'
  <2>1. ASSUME NEW o \in Proc, NEW x, CancelPacket(o, k.msg, x), CancelPacket(o, k.msg, x)' PROVE FALSE
    <3>1. o = d /\ x = k
      BY <1>3, <2>1
    <3> QED  BY <1>3, <2>1, <3>1 DEF CancelPacket
  <2>2. ASSUME NEW n \in Message, NEW o \in Proc, NEW x, CancelPacket(o, n, x)'
        PROVE  CancelPacket(o, n, x) \/ (n = k.msg /\ o = d /\ x = l)
    <3>1. n[1] \in Proc
      BY MessageFacts
    <3>2. CASE x = l
      BY <1>3, <2>2, <3>1, <3>2 DEF CancelPacket
    <3>3. CASE x # l
      BY <2>2, <3>1, <3>3 DEF CancelPacket
    <3> QED  BY <3>2, <3>3
  <2>3. CancelOnce
    BY DEF PtParts, NetInv
  <2>m. PICK m : m = k.msg
    OBVIOUS
  <2>4. /\ \A o \in Proc : \A x : ~ (CancelPacket(o, m, x) /\ CancelPacket(o, m, x)')
        /\ \A n \in Message, o \in Proc : \A x :
              CancelPacket(o, n, x)' => CancelPacket(o, n, x) \/ (n = m /\ o = d /\ x = l)
    BY <2>m, <2>1, <2>2
  <2> QED  BY ONLY <2>3, <2>4, CancelOnceMoves
<1>7. ASSUME NEW n \in Message PROVE Cancelling(n)' <=> Cancelling(n)
  <2>1. CASE n = k.msg
    <3>1. Cancelling(n)
      BY <1>3, <2>1 DEF Cancelling, CancelPacket
    <3>2. l \in Packets(d, s)'
      BY <1>3
    <3>3. Cancelling(n)'
      BY <1>3, <2>1, <3>2 DEF Cancelling, CancelPacket
    <3> QED  BY <3>1, <3>3
  <2>2. CASE n # k.msg
    BY <2>2, CancellingSame
  <2> QED  BY <2>1, <2>2
<1> QED  BY <1>6, <1>7

\* A message that waits is found by the request to cancel it.
LEMMA QueuedIsCancellable ==
    ASSUME PtParts, QueuesOK, NEW s \in Proc, NEW d \in Proc, NEW k \in Packets(s, d),
           k.type = "CANCEL_SEND_REQ", NEW e \in Messages(d), request[d][e.rreq].msg = k.msg,
           request[s][k.sender_req_id].proto # "noncontig"
    PROVE  /\ e.match = k.match /\ request[d][e.rreq].sender_req_id = k.sender_req_id
           /\ \A i \in DOMAIN unexpected[d] : unexpected[d][i] = e => i \in Cancellable(d, k)
<1>1. /\ CancelReqOK(s, d, k) /\ k.msg \in Message /\ k.msg[1] = s
  BY CancelReqFacts
<1>2. QueuedOK(d, e)
  BY DEF PtParts, ReceiverInv, QueuedInv
<1>3. IsSend(s, k.sender_req_id, k.msg) /\ k.match = Match(s, request[s][k.sender_req_id].tag)
  BY <1>1 DEF CancelReqOK
<1>r. PICK r : r = request[d][e.rreq]
  OBVIOUS
<1>4. /\ Link(r.peer, d, r.msg, r.proto, r.sender_req_id) /\ Tagged(r.peer, r.msg, e.match.tag)
      /\ e.match = Match(r.peer, e.match.tag) /\ r.msg = k.msg
  BY <1>r, <1>2 DEF QueuedOK, Holds
<1>5. r.peer = s
  BY <1>1, <1>4 DEF Link
<1>6. request[s][k.sender_req_id].tag = e.match.tag
  BY <1>3, <1>4, <1>5 DEF Tagged, IsSend
<1>7. r.sender_req_id = k.sender_req_id
  BY <1>3, <1>4, <1>5 DEF Link, IsSend
<1>8. e.match = k.match
  BY <1>3, <1>4, <1>5, <1>6
<1> QED  BY <1>r, <1>7, <1>8 DEF Cancellable

\* A request to cancel that finds nothing keeps the invariant.
LEMMA CancelSendReqNotFoundKeeps ==
    ASSUME IInv, PtParts, NEW s \in Proc, NEW d \in Proc, CancelSendReqNotFound(s, d)
    PROVE  PtParts'
<1>k. PICK k : k = Head(net[s][d])
  OBVIOUS
<1>h. PICK h : h = k.sender_req_id
  OBVIOUS
<1>m. PICK m : m = k.msg
  OBVIOUS
<1>r. PICK r : r = request[s][h]
  OBVIOUS
<1>l. PICK l : l = CancelRespPkt(k, FALSE)
  OBVIOUS
<1>1. /\ net[s][d] # <<>> /\ k.type = "CANCEL_SEND_REQ" /\ Reply(s, d, l) /\ Cancellable(d, k) = {}
      /\ request' = request /\ avail' = avail
      /\ posted' = posted /\ unexpected' = unexpected /\ reading' = reading
      /\ sent' = sent /\ fate' = fate /\ asked' = asked /\ calls' = calls
  BY <1>k, <1>l DEF CancelSendReqNotFound, Arrived, pool
<1>2. /\ l.type = "CANCEL_SEND_RESP" /\ l.msg = m /\ l.ack = FALSE /\ l.sender_req_id = h
      /\ NetOK' /\ NetOrder' /\ k \in Packets(s, d)
      /\ \A x, y \in Proc :
                 Packets(x, y)' = IF x = s /\ y = d THEN Packets(x, y) \ {k}
                                  ELSE IF x = d /\ y = s THEN Packets(x, y) \union {l}
                                  ELSE Packets(x, y)
      /\ \A x \in Packets(s, d) : x # k => NetBefore(k, x)
      /\ CancelOnce' /\ \A n \in Message : Cancelling(n)' <=> Cancelling(n)
  <2>1. k \in Packets(s, d)
    <3>1. IsQueue(net[s][d])
      BY DEF PtParts, NetInv, NetOK
    <3> QED  BY <1>k, <1>1, <3>1, TailQueue DEF Packets
  <2>2. l.type = "CANCEL_SEND_RESP" /\ l.msg = k.msg /\ l.ack = FALSE /\ l.sender_req_id = k.sender_req_id
    BY <1>l DEF CancelRespPkt
  <2>3. s # d /\ \A x \in Packets(d, s) : NetBefore(x, l)
    BY <1>1, <2>1, <2>2, CancelReplyNew, CancelReqFacts
  <2>4. /\ NetOK' /\ NetOrder'
        /\ \A x, y \in Proc :
                 Packets(x, y)' = IF x = s /\ y = d THEN Packets(x, y) \ {k}
                                  ELSE IF x = d /\ y = s THEN Packets(x, y) \union {l}
                                  ELSE Packets(x, y)
        /\ \A x \in Packets(s, d) : x # k => NetBefore(k, x)
    BY <1>k, <1>1, <2>3, ReplyFacts DEF PtParts, NetInv
  <2>5. CancelOnce' /\ \A n \in Message : Cancelling(n)' <=> Cancelling(n)
    BY <1>1, <2>1, <2>2, <2>4, CancelReplyFacts
  <2> QED  BY <1>h, <1>m, <2>1, <2>2, <2>4, <2>5
<1>3. /\ s # d /\ CancelReqOK(s, d, k) /\ m \in Message /\ m[1] = s
      /\ \A o \in Proc : \A x : CancelPacket(o, m, x) => o = d /\ x = k
  <2>1. /\ s # d /\ CancelReqOK(s, d, k) /\ k.msg \in Message /\ k.msg[1] = s
        /\ \A o \in Proc : \A x : CancelPacket(o, k.msg, x) => o = d /\ x = k
    BY <1>1, <1>2, CancelReqFacts, ZenonT(30)
  <2> QED  BY <1>m, <2>1
<1>4. /\ IsSend(s, h, m) /\ h \in Handle /\ r.peer = d /\ r.cancel_pending
      /\ fate[m] # "cancelled"
  BY <1>h, <1>m, <1>r, <1>3 DEF CancelReqOK, IsSend
<1>5. /\ r \in Request /\ r.kind = "SEND" /\ r.msg = m /\ r.cc \in Int /\ r.tag \in Tag
      /\ fate[m] # "unsent" /\ fate[m] \in Fates
  <2>1. /\ r \in Request /\ r.kind = "SEND" /\ r.msg = m /\ r.cc \in Int /\ r.tag \in Tag
        /\ fate[m] # "unsent"
    BY <1>r, <1>4, SendFacts
  <2>2. fate[m] \in Fates
    BY <1>3 DEF PtParts, RequestInv, TypeInv
  <2> QED  BY <2>1, <2>2
<1>6. r.ref = Bit(r.user) + Bit(r.cc > 0)
  BY <1>r, <1>4, SendFacts
<1>7. r.cc >= Bit(r.writing) + Bit(r.proto \in Waits /\ Unanswered(m)) + Bit(Cancelling(m))
  BY <1>r, <1>4, SendFacts
<1>8. Cancelling(m)
  BY <1>m, <1>1, <1>2, <1>3 DEF Cancelling, CancelPacket
<1>9. r.cc >= 1 /\ r.ref # 0
  <2> DEFINE A == r.proto \in Waits /\ Unanswered(m)
             C == Cancelling(m)
             W == r.writing
  <2>1. r.cc >= Bit(W) + Bit(A) + Bit(C) /\ C
    BY <1>7, <1>8
  <2>2. r.cc >= 1
    <3> HIDE DEF A, C, W
    <3> QED  BY <1>5, <2>1 DEF Bit
  <2> QED  BY <1>5, <1>6, <2>2 DEF Bit
<1>10. Put(s, h, r)
  <2>1. request \in [Proc -> [Handle -> Request]] /\ avail \in [Proc -> Seq(Handle)]
    BY DEF PtParts, RequestInv, TypeInv
  <2>2. request = [request EXCEPT ![s][h] = r]
    BY <1>r, <1>4, <2>1
  <2>3. avail = [avail EXCEPT ![s] = @]
    BY <2>1
  <2> QED  BY <1>1, <1>9, <2>2, <2>3 DEF Put
<1>11. ASSUME NEW n \in Message, Unanswered(n)' PROVE Unanswered(n)
  <2>1. n[1] \in Proc
    BY MessageFacts
  <2>2. ASSUME NEW o \in Proc, NEW x \in Packets(o, n[1])',
               x.type \in AnswerTypes \/ (x.type = "CANCEL_SEND_RESP" /\ x.ack)
        PROVE  x \in Packets(o, n[1])
    BY <1>2, <2>1, <2>2 DEF AnswerTypes
  <2> QED  BY <1>1, <1>11, <2>2 DEF Unanswered
<1>12. r.cc >= Bit(r.writing) + Bit(r.proto \in Waits /\ Unanswered(m)') + Bit(Cancelling(m)')
  <2> DEFINE A == r.proto \in Waits /\ Unanswered(m)
             B == r.proto \in Waits /\ Unanswered(m)'
             C == Cancelling(m)
             D == Cancelling(m)'
             W == r.writing
  <2>1. (B => A) /\ (D => C) /\ r.cc >= Bit(W) + Bit(A) + Bit(C)
    BY <1>2, <1>3, <1>7, <1>11
  <2>2. r.cc >= Bit(W) + Bit(B) + Bit(D)
    <3> HIDE DEF A, B, C, D, W
    <3> QED  BY <1>5, <2>1 DEF Bit
  <2> QED  BY <2>2
<1>13. \A a, b \in Proc : \A x : x.type \in EnvelopeTypes => (x \in Packets(a, b)' <=> x \in Packets(a, b))
  BY <1>1, <1>2 DEF EnvelopeTypes
<1>14. SendStep(s, h, m, r)
  <2>1. SameIdentity(request[s][h], r) /\ (request[s][h].cancel_pending => r.cancel_pending)
    BY <1>r DEF SameIdentity
  <2>2. \A n \in Message : n # m => (Unanswered(n)' => Unanswered(n)) /\ (Cancelling(n)' <=> Cancelling(n))
    BY <1>2, <1>11
  <2>3. Cancelling(m)'
    BY <1>2, <1>3, <1>8
  <2> QED  BY <1>1, <1>4, <1>5, <1>6, <1>10, <1>12, <1>13, <2>1, <2>2, <2>3 DEF SendStep
<1>15. ReceiverInv' /\ SenderInv' /\ RequestInv'
  BY <1>14, <1>4, SendStepKeeps DEF PtParts
<1>16. r.proto # "noncontig" => fate[m] = "matched"
  <2>1. ASSUME r.proto # "noncontig", fate[m] = "sent" PROVE FALSE
    <3>1. SendKept(s, d, m)
      BY <1>r, <1>3, <1>4 DEF PtParts, SenderInv, KeptInv
    <3>2. ASSUME NEW x \in Packets(s, d), x.type \in EnvelopeTypes, x.msg = m PROVE FALSE
      <4>1. NetBefore(k, x)
        BY <1>1, <1>2, <3>2 DEF EnvelopeTypes
      <4> QED  BY <1>m, <1>1, <3>2, <4>1 DEF NetBefore
    <3>3. ASSUME NEW e \in Messages(d), request[d][e.rreq].msg = m PROVE FALSE
      <4>1. \A i \in DOMAIN unexpected[d] : unexpected[d][i] = e => i \in Cancellable(d, k)
        BY <1>h, <1>m, <1>r, <1>1, <1>2, <2>1, <3>3, QueuedIsCancellable DEF IInv
      <4> QED  BY <1>1, <3>3, <4>1 DEF Messages, Entries
    <3> QED  BY <2>1, <3>1, <3>2, <3>3 DEF SendKept
  <2> QED  BY <1>4, <1>5, <2>1 DEF Fates
<1>17. PacketOK(d, s, l)'
  <2>1. CancelRespOK(d, s, l)'
    <3>1. IsSend(s, h, m)'
      BY <1>1, <1>4 DEF IsSend
    <3>2. request'[s][h] = r
      BY <1>r, <1>1
    <3> QED  BY <1>1, <1>2, <1>4, <1>16, <3>1, <3>2 DEF CancelRespOK
  <2> QED  BY <1>2, <1>3, <2>1 DEF PacketOK
<1>18. PacketInv'
  <2>1. ASSUME NEW a \in Proc, NEW b \in Proc, NEW x \in Packets(a, b)' PROVE PacketOK(a, b, x)'
    <3>1. CASE x \in Packets(a, b)
      BY <1>4, <1>14, <2>1, <3>1, SendStepPacket
    <3>2. CASE x \notin Packets(a, b)
      <4>1. a = d /\ b = s /\ x = l
        BY <1>2, <2>1, <3>2
      <4> QED  BY <1>17, <4>1
    <3> QED  BY <3>1, <3>2
  <2> QED  BY <2>1 DEF PacketInv
<1>19. OnePlace'
  <2>1. ASSUME NEW n \in Message, NEW o \in Proc, NEW w, NEW x, Place(o, n, w, x)'
        PROVE  Place(o, n, w, x)
    <3>1. n[1] \in Proc
      BY MessageFacts
    <3>2. w \in {"envelope", "data"} => x \in Packets(n[1], o)
      BY <1>2, <2>1, <3>1 DEF Place, EnvelopeTypes
    <3>3. w = "answered" => x \in Packets(o, n[1])
      BY <1>2, <2>1, <3>1 DEF Place, AnswerTypes
    <3> QED  BY <1>4, <1>14, <2>1, <3>2, <3>3, SendStepPlace
  <2> QED  BY <2>1, OnePlaceStays DEF PtParts, NetInv
<1> QED  BY <1>2, <1>15, <1>18, <1>19 DEF PtParts, NetInv

-----------------------------------------------------------------------------
\* What is known of a message that waits, and of its request.
LEMMA QueuedFacts ==
    ASSUME PtParts, NEW d \in Proc, NEW e \in Messages(d), NEW g, g = e.rreq,
           NEW r, r = request[d][g]
    PROVE  /\ g \in Handle /\ r \in Request /\ r.kind = "RECV" /\ ~ r.user
           /\ Queued(d, g) /\ ~ Listed(d, g) /\ Holds(d, g) /\ HeldData(r)
           /\ r.msg \in Message /\ r.peer \in Proc /\ r.peer # d /\ r.msg[1] = r.peer
           /\ r.proto \in Kind /\ r.sender_req_id \in Handle \union {MPI_REQUEST_NULL}
           /\ Link(r.peer, d, r.msg, r.proto, r.sender_req_id)
           /\ e.match = Match(r.peer, e.match.tag) /\ Tagged(r.peer, r.msg, e.match.tag)
           /\ fate[r.msg] = "sent" /\ Place(d, r.msg, "queued", g)
           /\ ~ r.cancel_pending /\ ~ r.writing /\ r.cc \in {0, 1} /\ r.pending \in Int
           /\ r.ref = 1 + Bit(r.cc > 0)
<1>1. QueuedOK(d, e)
  BY DEF PtParts, ReceiverInv, QueuedInv
<1>2. g \in Handle /\ r.kind = "RECV" /\ ~ r.user /\ Holds(d, g)
      /\ e.match = Match(r.peer, e.match.tag) /\ Tagged(r.peer, r.msg, e.match.tag)
      /\ fate[r.msg] = "sent"
  BY <1>1 DEF QueuedOK
<1>3. r \in Request
  BY <1>2 DEF PtParts, RequestInv, TypeInv
<1>4. Link(r.peer, d, r.msg, r.proto, r.sender_req_id) /\ HeldData(r) /\ ~ Listed(d, g)
  BY <1>2 DEF Holds, HeldData
<1>5. /\ r.msg \in Message /\ r.peer \in Proc /\ r.peer # d /\ r.msg[1] = r.peer
      /\ r.proto \in Kind /\ r.sender_req_id \in Handle \union {MPI_REQUEST_NULL}
  BY <1>4, BoundAssumption, Zenon DEF Link
<1>6. Queued(d, g) /\ Place(d, r.msg, "queued", g)
  BY DEF Queued, Place
<1>7. r.cc \in {0, 1} /\ r.pending \in Int
  BY <1>3, <1>4 DEF HeldData, Request
<1>8. RefOK(d, g)
  BY <1>2 DEF PtParts, RequestInv, RefInv
<1>9. ~ r.cancel_pending /\ ~ r.writing /\ r.ref = 1 + Bit(r.cc > 0)
  BY <1>2, <1>6, <1>7, <1>8 DEF RefOK, Bit
<1> QED  BY <1>2, <1>3, <1>4, <1>5, <1>6, <1>7, <1>9

\* Two entries of a queue, the one before the other.
LEMMA EntriesDiffer ==
    ASSUME QueuesOK, QueueOrder, NEW d \in Proc, NEW i \in DOMAIN unexpected[d],
           NEW j \in DOMAIN unexpected[d], unexpected[d][i] # unexpected[d][j]
    PROVE  /\ unexpected[d][i].rreq # unexpected[d][j].rreq
           /\ i <= j => QueueBefore(d, unexpected[d][i], unexpected[d][j])
<1>1. i \in Nat /\ j \in Nat
  <2>1. unexpected[d] \in Seq(Entries(unexpected[d]))
    BY DEF QueuesOK, IsQueue
  <2> QED  BY <2>1
<1>2. i < j \/ j < i
  BY <1>1
<1>3. i < j => QueueBefore(d, unexpected[d][i], unexpected[d][j])
  BY DEF QueueOrder
<1>4. j < i => QueueBefore(d, unexpected[d][j], unexpected[d][i])
  BY DEF QueueOrder
<1> QED  BY <1>1, <1>2, <1>3, <1>4 DEF QueueBefore

\* A step of d takes the i-th message out of the queue, and its request
\* becomes q; the message is settled.
TakenStep(d, i, g, r, q, f, gone, new, l) ==
    /\ i \in DOMAIN unexpected[d] /\ g = unexpected[d][i].rreq /\ r = request[d][g]
    /\ Put(d, g, q) /\ q \in Request /\ q.kind \in {"RECV", "MPROBE"}
    /\ q.msg = r.msg /\ q.peer = r.peer /\ q.proto = r.proto
    /\ q.sender_req_id = r.sender_req_id /\ q.cc = r.cc
    /\ ~ q.cancel_pending /\ ~ q.writing /\ q.ref = Bit(q.user) + Bit(q.cc > 0)
    /\ q.kind = "MPROBE" => q.user /\ HeldData(q) /\ f = "matched" /\ new = {}
    /\ unexpected' = [unexpected EXCEPT ![d] = RemoveAt(@, i)]
    /\ posted' = posted /\ reading' = reading /\ sent' = sent /\ asked' = asked
    /\ calls' \in {calls, calls + 1}
    /\ f \in {"matched", "cancelled"} /\ fate' = [fate EXCEPT ![r.msg] = f]
    /\ \A a, b \in Proc :
          Packets(a, b)' = IF a = r.peer /\ b = d THEN Packets(a, b) \ gone
                           ELSE IF a = d /\ b = r.peer THEN Packets(a, b) \union new
                           ELSE Packets(a, b)
    /\ gone \subseteq Packets(r.peer, d)
    /\ \A k \in gone : /\ k.type \notin EnvelopeTypes
                       /\ \A x \in Packets(r.peer, d) : x \notin gone => NetBefore(k, x)
    /\ new \subseteq {l} /\ l.type \in AnswerTypes \union {"CANCEL_SEND_RESP"}
    /\ l.msg = r.msg \/ (l.type = "CANCEL_SEND_RESP" /\ NoWaiter(l.msg))

\* What it does to the queue and to the request.
LEMMA TakenFacts ==
    ASSUME QueuesOK, PtParts, NEW d \in Proc, NEW i, NEW g, NEW r, NEW q, NEW f, NEW gone, NEW new, NEW l,
           TakenStep(d, i, g, r, q, f, gone, new, l)
    PROVE  /\ request' \in [Proc -> [Handle -> Request]]
           /\ request'[d][g] = IF q.ref = 0 THEN Unused ELSE q
           /\ OnlyRequest(d, g) /\ avail' \in [Proc -> Seq(Handle)] /\ FreeInv'
           /\ QueueOrder' /\ PostedOrder' /\ unexpected[d][i] \in Messages(d)
           /\ \A o \in Proc : Receives(o)' = Receives(o)
           /\ \A o \in Proc : Messages(o)' = IF o = d THEN Messages(o) \ {unexpected[d][i]}
                                                      ELSE Messages(o)
           /\ \A x \in Messages(d)' : x.rreq # g
           /\ ~ Queued(d, g)' /\ ~ Listed(d, g)'
<1>e. PICK e : e = unexpected[d][i]
  OBVIOUS
<1>1. e \in Messages(d) /\ g = e.rreq /\ r = request[d][g] /\ i \in DOMAIN unexpected[d]
  BY <1>e, Zenon DEF TakenStep, Messages, Entries
<1>2. /\ g \in Handle /\ r.kind = "RECV" /\ ~ Listed(d, g)
  BY <1>1, QueuedFacts
<1>3. /\ request' \in [Proc -> [Handle -> Request]]
      /\ request'[d][g] = IF q.ref = 0 THEN Unused ELSE q
      /\ OnlyRequest(d, g) /\ avail' \in [Proc -> Seq(Handle)] /\ FreeInv'
  <2>1. TypeInv /\ FreeInv /\ q \in Request /\ request[d][g].kind # "none" /\ q.kind # "none" /\ Put(d, g, q)
    BY <1>1, <1>2 DEF PtParts, RequestInv, TakenStep
  <2> QED  BY <1>2, <2>1, PutFacts
<1>4. \A x \in Messages(d) : x # e => x.rreq # g
  <2>1. ASSUME NEW x \in Messages(d), x # e PROVE x.rreq # g
    <3>1. PICK j \in DOMAIN unexpected[d] : x = unexpected[d][j]
      BY DEF Messages, Entries
    <3> QED  BY <1>e, <1>1, <2>1, <3>1, EntriesDiffer DEF PtParts, ReceiverInv
  <2> QED  BY <2>1
<1>5. \A o \in Proc : \A x \in Messages(o) : o # d \/ x # e => SameMessage(o, x)
  <2>1. ASSUME NEW o \in Proc, NEW x \in Messages(o), o # d \/ x # e PROVE SameMessage(o, x)
    <3>1. x.rreq \in Handle
      BY QueuedFacts
    <3> QED  BY <1>3, <1>4, <2>1, <3>1 DEF OnlyRequest, SameMessage
  <2> QED  BY <2>1
<1>6. /\ QueueOrder'
      /\ \A o \in Proc : Messages(o)' = IF o = d THEN Messages(o) \ {e} ELSE Messages(o)
  <2>1. unexpected' = [unexpected EXCEPT ![d] = RemoveAt(@, i)] /\ QueueOrder
    BY Zenon DEF TakenStep, PtParts, ReceiverInv
  <2> QED  BY <1>e, <1>1, <1>5, <2>1, MessagesShrink, ZenonT(30)
<1>7. PostedOrder' /\ \A o \in Proc : Receives(o)' = Receives(o)
  <2>1. posted' = posted /\ PostedOrder
    BY Zenon DEF TakenStep, PtParts, ReceiverInv
  <2> QED  BY <2>1, ReceivesSame
<1>8. \A x \in Messages(d)' : x.rreq # g
  BY <1>4, <1>6
<1>9. ~ Queued(d, g)' /\ ~ Listed(d, g)'
  BY <1>2, <1>7, <1>8 DEF Queued, Listed
<1> QED  BY <1>e, <1>1, <1>3, <1>6, <1>7, <1>8, <1>9

\* The parts of such a step that have nothing to do with the packets.
LEMMA TakenRequest ==
    ASSUME QueuesOK, PtParts, NEW d \in Proc, NEW i, NEW g, NEW r, NEW q, NEW f, NEW gone, NEW new, NEW l,
           TakenStep(d, i, g, r, q, f, gone, new, l)
    PROVE  TypeInv' /\ RefOK(d, g)' /\ TouchedOK(r.peer, d, g)' /\ StillReceives(d, g)
<1>1. /\ request' \in [Proc -> [Handle -> Request]]
      /\ request'[d][g] = IF q.ref = 0 THEN Unused ELSE q
      /\ OnlyRequest(d, g) /\ avail' \in [Proc -> Seq(Handle)]
      /\ unexpected[d][i] \in Messages(d)
      /\ \A x \in Messages(d)' : x.rreq # g
      /\ ~ Queued(d, g)' /\ ~ Listed(d, g)'
  BY TakenFacts
<1>2. g = unexpected[d][i].rreq /\ r = request[d][g]
  BY Zenon DEF TakenStep
<1>3. /\ g \in Handle /\ r \in Request /\ r.kind = "RECV" /\ ~ r.user /\ Queued(d, g)
      /\ Holds(d, g) /\ r.msg \in Message /\ r.cc \in {0, 1}
  <2>e. PICK e : e = unexpected[d][i]
    OBVIOUS
  <2>1. e \in Messages(d) /\ g = e.rreq /\ r = request[d][g]
    BY <2>e, <1>1, <1>2
  <2> QED  BY <2>1, QueuedFacts
<1>4. TypeInv /\ ReadingInv
  BY DEF PtParts, RequestInv, ReceiverInv
<1>5. /\ q \in Request /\ q.kind \in {"RECV", "MPROBE"}
      /\ q.msg = r.msg /\ q.peer = r.peer /\ q.proto = r.proto
      /\ q.sender_req_id = r.sender_req_id /\ q.cc = r.cc
      /\ ~ q.cancel_pending /\ ~ q.writing /\ q.ref = Bit(q.user) + Bit(q.cc > 0)
      /\ (q.kind = "MPROBE" => q.user /\ HeldData(q) /\ f = "matched")
      /\ reading' = reading /\ sent' = sent /\ asked' = asked /\ calls' \in {calls, calls + 1}
      /\ f \in {"matched", "cancelled"} /\ fate' = [fate EXCEPT ![r.msg] = f]
  BY Zenon DEF TakenStep
<1>6. (q.ref = 0 => q.cc = 0 /\ ~ q.user) /\ q.user \in BOOLEAN
  <2>1. q.user \in BOOLEAN
    BY <1>5 DEF Request
  <2> QED  BY <1>3, <1>5, <2>1 DEF Bit
<1>7. RefOK(d, g)'
  <2>1. CASE q.ref = 0
    <3>1. request'[d][g] = Unused
      BY <1>1, <2>1
    <3> QED  BY <1>1, <3>1, UnusedFacts DEF RefOK, Bit
  <2>2. CASE q.ref # 0
    <3>1. request'[d][g] = q
      BY <1>1, <2>2
    <3>2. q.ref = Bit(q.user) + Bit(Queued(d, g)') + Bit(q.cc > 0)
      BY <1>1, <1>3, <1>5, <1>6 DEF Bit
    <3> QED  BY <1>5, <2>2, <3>1, <3>2 DEF RefOK
  <2> QED  BY <2>1, <2>2
<1>8. TypeInv'
  BY <1>1, <1>3, <1>4, <1>5 DEF TypeInv, Fates
<1>9. ProbedOK(d, g)'
  <2>1. ASSUME request'[d][g].kind = "MPROBE"
        PROVE  request'[d][g].user /\ Holds(d, g)' /\ fate'[request'[d][g].msg] = "matched"
    <3>1. request'[d][g] = q /\ q.kind = "MPROBE"
      BY <1>1, <2>1, UnusedFacts
    <3>2. Holds(d, g)'
      BY <1>1, <1>2, <1>3, <1>4, <1>5, <3>1, HeldStays, ZenonT(30)
    <3>3. fate'[r.msg] = f
      BY <1>3, <1>4, <1>5 DEF TypeInv
    <3> QED  BY <1>5, <3>1, <3>2, <3>3
  <2> QED  BY <2>1 DEF ProbedOK
<1>10. ASSUME NEW t \in Proc, reading'[d][t] = g PROVE ReadingOK(d, t)'
  <2>1. ReadingOK(d, t) /\ reading[d][t] = g /\ g # None
    BY <1>3, <1>4, <1>5, <1>10, HandleFacts DEF ReadingInv
  <2>2. r.cc = 1 /\ r.peer = t /\ r.proto # "rndv"
    BY <1>2, <1>3, <2>1 DEF ReadingOK
  <2>3. request'[d][g] = q
    BY <1>1, <1>5, <1>6, <2>2
  <2> QED  BY <1>1, <1>3, <1>5, <1>10, <2>2, <2>3 DEF ReadingOK
<1>11. TouchedOK(r.peer, d, g)'
  <2>1. \A e \in Receives(d)' : e.rreq # g
    BY <1>1 DEF Listed
  <2> QED  BY <1>1, <1>9, <1>10, <2>1 DEF TouchedOK
<1>12. StillReceives(d, g)
  BY <1>3 DEF StillReceives, Receiving
<1> QED  BY <1>7, <1>8, <1>11, <1>12

\* And where the message is then.
LEMMA TakenPlaces ==
    ASSUME QueuesOK, PtParts, NEW d \in Proc, NEW i, NEW g, NEW r, NEW q, NEW f, NEW gone, NEW new, NEW l,
           TakenStep(d, i, g, r, q, f, gone, new, l)
    PROVE  TouchStep(r.peer, d, g, gone, new) /\ OnePlace'
<1>1. /\ request'[d][g] = IF q.ref = 0 THEN Unused ELSE q
      /\ OnlyRequest(d, g)
      /\ unexpected[d][i] \in Messages(d)
      /\ \A o \in Proc : Receives(o)' = Receives(o)
      /\ \A o \in Proc : Messages(o)' = IF o = d THEN Messages(o) \ {unexpected[d][i]}
                                                 ELSE Messages(o)
      /\ ~ Queued(d, g)' /\ ~ Listed(d, g)'
  BY TakenFacts
<1>2. g = unexpected[d][i].rreq /\ r = request[d][g]
  BY DEF TakenStep
<1>3. /\ g \in Handle /\ r.kind = "RECV" /\ Queued(d, g) /\ Place(d, r.msg, "queued", g)
      /\ r.msg \in Message /\ r.peer \in Proc
  BY <1>1, <1>2, QueuedFacts
<1>4. /\ q.kind \in {"RECV", "MPROBE"} /\ q.msg = r.msg /\ q.proto = r.proto
      /\ reading' = reading /\ sent' = sent /\ asked' = asked /\ calls' \in {calls, calls + 1}
      /\ \A a, b \in Proc :
            Packets(a, b)' = IF a = r.peer /\ b = d THEN Packets(a, b) \ gone
                             ELSE IF a = d /\ b = r.peer THEN Packets(a, b) \union new
                             ELSE Packets(a, b)
      /\ gone \subseteq Packets(r.peer, d)
      /\ new \subseteq {l} /\ l.type \in AnswerTypes \union {"CANCEL_SEND_RESP"}
      /\ l.msg = r.msg \/ l.type = "CANCEL_SEND_RESP"
      /\ (q.kind = "MPROBE" => new = {})
  BY Zenon DEF TakenStep
<1>5. request'[d][g].kind # "SEND"
  BY <1>1, <1>4, UnusedFacts
<1>6. TouchStep(r.peer, d, g, gone, new)
  <2>1. \A o \in Proc : \A e : o # d \/ e.rreq # g =>
          (e \in Messages(o)' <=> e \in Messages(o)) /\ (e \in Receives(o)' <=> e \in Receives(o))
    BY <1>1, <1>2
  <2> QED  BY <1>1, <1>2, <1>3, <1>4, <1>5, <2>1, Zenon DEF TouchStep
<1>w. PICK w : w = IF q.kind = "MPROBE" THEN "probed" ELSE "answered"
  OBVIOUS
<1>x. PICK x : x = IF q.kind = "MPROBE" THEN g ELSE l
  OBVIOUS
<1>7. ~ Place(d, r.msg, "queued", g)'
  BY <1>1 DEF Place
<1>8. request'[d][g].msg \in Message => request'[d][g].msg = r.msg
  BY <1>1, <1>4, UnusedFacts, MessageFacts
<1>9. \A y \in new : y.type \in AnswerTypes => y.msg = r.msg /\ w = "answered" /\ x = y
  BY <1>w, <1>x, <1>4 DEF AnswerTypes
<1>10. ASSUME NEW v \in {"queued", "probed", "reading"}, Place(d, r.msg, v, g)' PROVE w = v /\ x = g
  <2>1. CASE v = "queued"
    BY <1>7, <1>10, <2>1
  <2>2. CASE v = "probed"
    <3>1. request'[d][g].kind = "MPROBE"
      BY <1>10, <2>2 DEF Place
    <3> QED  BY <1>w, <1>x, <1>1, <2>2, <3>1, UnusedFacts
  <2>3. CASE v = "reading"
    <3>1. g = reading[d][r.msg[1]] /\ g # None /\ request'[d][g].proto = "rndv" /\ request'[d][g].msg = r.msg
      BY <1>4, <1>10, <2>3 DEF Place
    <3>2. request'[d][g] = q
      BY <1>1, <1>3, <3>1, UnusedFacts, MessageFacts
    <3>3. ReadingOK(d, r.msg[1])
      BY <1>3, MessageFacts DEF PtParts, ReceiverInv, ReadingInv
    <3> QED  BY <1>2, <1>3, <1>4, <3>1, <3>2, <3>3, Zenon DEF ReadingOK
  <2> QED  BY <1>10, <2>1, <2>2, <2>3
<1>11. OnePlace'
  <2>1. \A v \in {"queued", "probed", "reading"} : Place(d, r.msg, v, g)' => w = v /\ x = g
    BY <1>10
  <2>2. d \in Proc /\ g \in Handle /\ r.peer \in Proc /\ r.msg \in Message /\ Place(d, r.msg, "queued", g)
    BY <1>3
  <2>3. MovesTo(d, g, new, r.msg, w, x)
    BY <1>8, <1>9, <2>1 DEF MovesTo
  <2> QED  BY <1>6, <1>7, <2>2, <2>3, TouchMoves
<1> QED  BY <1>6, <1>11

\* A message leaves the queue of unexpected messages: see TakenStep.
LEMMA TakenKeeps ==
    ASSUME QueuesOK, PtParts, NEW d \in Proc, NEW i, NEW g, NEW r, NEW q, NEW f, NEW gone, NEW new, NEW l,
           TakenStep(d, i, g, r, q, f, gone, new, l),
           FoundStep(r.msg), NetOK', NetOrder', \A x \in new : PacketOK(d, r.peer, x)', CancelOnce',
           \A n \in Message : Cancelling(n)' <=> Cancelling(n)
    PROVE  PtParts'
<1>1. /\ FreeInv' /\ QueueOrder' /\ PostedOrder'
      /\ unexpected[d][i] \in Messages(d)
      /\ request'[d][g] = IF q.ref = 0 THEN Unused ELSE q
      /\ \A x \in Messages(d)' : x.rreq # g
  BY TakenFacts
<1>2. TypeInv' /\ RefOK(d, g)' /\ TouchedOK(r.peer, d, g)' /\ StillReceives(d, g)
  BY TakenRequest
<1>3. TouchStep(r.peer, d, g, gone, new) /\ OnePlace'
  BY TakenPlaces
<1>4. g = unexpected[d][i].rreq /\ r = request[d][g]
  BY Zenon DEF TakenStep
<1>5. /\ g \in Handle /\ r.msg \in Message /\ r.peer \in Proc /\ fate[r.msg] = "sent"
      /\ Place(d, r.msg, "queued", g)
  <2>e. PICK e : e = unexpected[d][i]
    OBVIOUS
  <2>1. e \in Messages(d) /\ g = e.rreq /\ r = request[d][g]
    BY <2>e, <1>1, <1>4
  <2> QED  BY <2>1, QueuedFacts
<1>6. /\ q.msg = r.msg /\ f \in {"matched", "cancelled"} /\ fate' = [fate EXCEPT ![r.msg] = f]
      /\ \A k \in gone : /\ k.type \notin EnvelopeTypes
                         /\ \A x \in Packets(r.peer, d) : x \notin gone => NetBefore(k, x)
      /\ new \subseteq {l}
      /\ l.msg = r.msg \/ NoWaiter(l.msg)
      /\ fate \in [Message -> Fates]
  BY Zenon DEF TakenStep, PtParts, RequestInv, TypeInv
<1>7. fate'[r.msg] = f /\ \A n \in Message : n # r.msg => fate'[n] = fate[n]
  BY <1>5, <1>6
<1>8. FateStep(d, g, r.msg, gone)
  BY <1>5, <1>6, <1>7 DEF FateStep
<1>9. AnsweredStep(d, g, new)
  <2>1. Unanswered(r.msg)
    BY <1>5 DEF Unanswered
  <2>2. request'[d][g].kind = "MPROBE" => request'[d][g].msg = r.msg
    BY <1>1, <1>6, UnusedFacts
  <2>3. ASSUME NEW x \in new PROVE Unanswered(x.msg) \/ NoWaiter(x.msg)
    <3>1. x = l
      BY <1>6
    <3>2. CASE l.msg = r.msg
      BY <2>1, <3>1, <3>2
    <3>3. CASE NoWaiter(l.msg)
      BY <3>1, <3>3
    <3> QED  BY <1>6, <3>2, <3>3
  <2>4. \A n \in Message : Cancelling(n)' <=> Cancelling(n)
    OBVIOUS
  <2> QED  BY <2>1, <2>2, <2>3, <2>4 DEF AnsweredStep
<1>10. WaitingStep(r.peer, d, g, gone)
  BY <1>1, <1>4, <1>6, <1>7, Zenon DEF WaitingStep
<1> QED  BY <1>1, <1>2, <1>3, <1>5, <1>8, <1>9, <1>10, TouchKeeps

\* A message that is taken for a receive or a probe is the first with its
\* envelope.
LEMMA FirstTaken ==
    ASSUME QueuesOK, PtParts, NEW d \in Proc, NEW i, NEW g, NEW r, NEW q, NEW gone, NEW new, NEW l,
           TakenStep(d, i, g, r, q, "matched", gone, new, l), \A x \in new : x.type \notin EnvelopeTypes,
           NEW want, IsFirst(i, UnexpectedFor(unexpected[d], want))
    PROVE  FoundStep(r.msg)
<1>e. PICK e : e = unexpected[d][i]
  OBVIOUS
<1>1. /\ e \in Messages(d) /\ OnlyRequest(d, g)
      /\ \A o \in Proc : Messages(o)' = IF o = d THEN Messages(o) \ {e} ELSE Messages(o)
      /\ \A x \in Messages(d)' : x.rreq # g
  BY <1>e, TakenFacts
<1>2. /\ g = e.rreq /\ r = request[d][g] /\ i \in DOMAIN unexpected[d]
      /\ fate' = [fate EXCEPT ![r.msg] = "matched"]
      /\ \A a, b \in Proc :
            Packets(a, b)' = IF a = r.peer /\ b = d THEN Packets(a, b) \ gone
                             ELSE IF a = d /\ b = r.peer THEN Packets(a, b) \union new
                             ELSE Packets(a, b)
  BY <1>e, Zenon DEF TakenStep
<1>3. /\ g \in Handle /\ r.msg \in Message /\ r.peer \in Proc /\ r.peer # d /\ r.msg[1] = r.peer
      /\ Link(r.peer, d, r.msg, r.proto, r.sender_req_id)
      /\ e.match = Match(r.peer, e.match.tag) /\ Tagged(r.peer, r.msg, e.match.tag)
  BY <1>1, <1>2, QueuedFacts
<1>4. fate'[r.msg] = "matched"
  BY <1>2, <1>3 DEF PtParts, RequestInv, TypeInv
<1>5. ASSUME NEW x \in Messages(d)', x.match = e.match
      PROVE  request'[d][x.rreq].msg[2] > r.msg[2]
  <2>1. x \in Messages(d) /\ x # e /\ x.rreq # g
    BY <1>1, <1>5
  <2>2. PICK j \in DOMAIN unexpected[d] : x = unexpected[d][j]
    BY <2>1 DEF Messages, Entries
  <2>3. i <= j
    BY <1>e, <1>5, <2>2 DEF IsFirst, UnexpectedFor
  <2>4. QueueBefore(d, e, x)
    BY <1>e, <1>2, <2>1, <2>2, <2>3, EntriesDiffer DEF PtParts, ReceiverInv
  <2>5. x.rreq \in Handle /\ request[d][x.rreq].msg \in Message
    BY <2>1, QueuedFacts
  <2>6. request'[d][x.rreq] = request[d][x.rreq]
    BY <1>1, <2>1, <2>5 DEF OnlyRequest
  <2>7. r.msg[2] < request[d][x.rreq].msg[2]
    BY <1>2, <1>5, <2>4 DEF QueueBefore
  <2> QED  BY <1>3, <2>5, <2>6, <2>7, MessageFacts
<1>6. ASSUME NEW k \in Packets(r.peer, d)', k.type \in EnvelopeTypes PROVE k.msg[2] > r.msg[2]
  <2>1. k \in Packets(r.peer, d)
    BY <1>2, <1>3, <1>6
  <2>2. PacketOK(r.peer, d, k)
    BY <1>3, <2>1 DEF PtParts, NetInv, PacketInv
  <2>3. k.msg \in Message
    BY <1>6, <2>2 DEF PacketOK, EnvelopeTypes, AnswerTypes, EnvelopeOK, Link
  <2>4. r.msg[2] < k.msg[2]
    BY <1>1, <1>2, <1>3, <1>6, <2>1 DEF PtParts, RequestInv, LaterInv, Match
  <2> QED  BY <1>3, <2>3, <2>4, MessageFacts
<1>7. ASSUME NEW p \in Proc, NEW o \in Proc, NEW h \in Handle, NEW tag \in Tag,
             IsSend(p, h, r.msg), request[p][h].peer = o, request[p][h].tag = tag
      PROVE  FirstNext(p, o, tag, r.msg)
  <2>1. p = r.peer
    <3>1. SendShape(p, h)
      BY <1>7 DEF PtParts, SenderInv, ShapeInv, IsSendRequest, IsSend
    <3> QED  BY <1>3, <1>7, <3>1 DEF SendShape, IsSend
  <2>2. o = d /\ tag = e.match.tag
    BY <1>3, <1>7, <2>1 DEF Link, Tagged
  <2>3. e.match = Match(p, tag)
    BY <1>3, <2>1, <2>2
  <2> QED  BY <1>5, <1>6, <2>1, <2>2, <2>3 DEF FirstNext
<1> QED  BY <1>4, <1>7 DEF FoundStep

\* The user probes for a message, and finds one.
LEMMA ImprobeKeeps ==
    ASSUME IInv, PtParts, NEW p \in Proc, NEW want, Improbe(p, want)
    PROVE  PtParts'
<1>i. PICK i \in DOMAIN unexpected[p] :
         /\ IsFirst(i, UnexpectedFor(unexpected[p], want))
         /\ LET h == unexpected[p][i].rreq
                r == request[p][h]
            IN /\ Put(p, h, [r EXCEPT !.user = TRUE, !.kind = "MPROBE"])
               /\ fate' = [fate EXCEPT ![r.msg] = "matched"]
         /\ unexpected' = [unexpected EXCEPT ![p] = RemoveAt(@, i)]
  BY Zenon DEF Improbe
<1>e. PICK e : e = unexpected[p][i]
  OBVIOUS
<1>g. PICK g : g = e.rreq
  OBVIOUS
<1>r. PICK r : r = request[p][g]
  OBVIOUS
<1>q. PICK q : q = [r EXCEPT !.user = TRUE, !.kind = "MPROBE"]
  OBVIOUS
<1>l. PICK l : l = SyncAckPkt(r)
  OBVIOUS
<1>1. /\ Put(p, g, q) /\ fate' = [fate EXCEPT ![r.msg] = "matched"]
      /\ unexpected' = [unexpected EXCEPT ![p] = RemoveAt(@, i)]
      /\ posted' = posted /\ net' = net /\ reading' = reading /\ sent' = sent /\ asked' = asked
      /\ calls' = calls + 1 /\ IsFirst(i, UnexpectedFor(unexpected[p], want))
  BY <1>i, <1>e, <1>g, <1>r, <1>q, Zenon DEF Improbe, Count
<1>2. e \in Messages(p) /\ QueuesOK
  BY <1>e DEF Messages, Entries, IInv
<1>3. /\ g \in Handle /\ r \in Request /\ r.kind = "RECV" /\ HeldData(r)
      /\ ~ r.cancel_pending /\ ~ r.writing /\ r.cc \in {0, 1} /\ r.ref = 1 + Bit(r.cc > 0)
  BY <1>g, <1>r, <1>2, QueuedFacts
<1>4. /\ q \in Request /\ SameFlags(r, q)
      /\ q.kind = "MPROBE" /\ q.msg = r.msg /\ q.peer = r.peer /\ q.proto = r.proto
      /\ q.tag = r.tag /\ q.sender_req_id = r.sender_req_id
      /\ q.user = TRUE /\ q.cc = r.cc /\ q.ref = r.ref
  BY <1>q, <1>3, ProbeFacts, Zenon
<1>5. HeldData(q) /\ ~ q.cancel_pending /\ ~ q.writing /\ q.ref = Bit(q.user) + Bit(q.cc > 0)
  <2>1. HeldData(q)
    BY <1>3, <1>4 DEF HeldData, SameFlags
  <2>2. ~ q.cancel_pending /\ ~ q.writing
    BY <1>3, <1>4 DEF SameFlags
  <2>3. q.ref = Bit(q.user) + Bit(q.cc > 0)
    BY <1>3, <1>4 DEF Bit
  <2> QED  BY <2>1, <2>2, <2>3
<1>6. \A a, b \in Proc : Packets(a, b)' = Packets(a, b)
  BY <1>1 DEF Packets
<1>7. l.msg = r.msg /\ l.type \in AnswerTypes
  BY <1>l DEF SyncAckPkt, AnswerTypes
<1>8. TakenStep(p, i, g, r, q, "matched", {}, {}, l)
  <2>1. i \in DOMAIN unexpected[p] /\ g = unexpected[p][i].rreq /\ r = request[p][g]
    BY <1>e, <1>g, <1>r
  <2> QED  BY <1>1, <1>4, <1>5, <1>6, <1>7, <2>1 DEF TakenStep
<1>9. FoundStep(r.msg)
  BY <1>1, <1>2, <1>8, FirstTaken
<1>10. NetOK' /\ NetOrder' /\ CancelOnce' /\ \A n \in Message : Cancelling(n)' <=> Cancelling(n)
  <2>1. NetOK /\ NetOrder /\ CancelOnce
    BY DEF PtParts, NetInv
  <2>2. NetOK' /\ NetOrder'
    BY <1>1, <2>1, SameNet
  <2>3. ASSUME NEW n \in Message PROVE Cancelling(n)' <=> Cancelling(n)
    BY <1>1 DEF Cancelling, CancelPacket, Packets
  <2>4. CancelOnce'
    BY <1>1, <2>1 DEF CancelOnce, CancelPacket, Packets
  <2> QED  BY <2>2, <2>3, <2>4
<1> QED  BY <1>2, <1>8, <1>9, <1>10, TakenKeeps

-----------------------------------------------------------------------------
\* What a receive answers to a send that waits for it.
AnswerPkt(g, r) == IF r.proto = "rndv" THEN ClrToSendPkt(g, r) ELSE SyncAckPkt(r)

\* What the receiver answers, and what MPID_Irecv and MPID_Imrecv do with a message.
LEMMA AnswerPktFacts ==
    ASSUME NEW r, NEW g, NEW l, l = AnswerPkt(g, r)
    PROVE  /\ l.msg = r.msg /\ l.sender_req_id = r.sender_req_id /\ l.type \in AnswerTypes
           /\ l.type = IF r.proto = "rndv" THEN "RNDV_CLR_TO_SEND" ELSE "EAGER_SYNC_ACK"
           /\ r.proto = "rndv" => l.receiver_req_id = g
BY DEF AnswerPkt, ClrToSendPkt, SyncAckPkt, AnswerTypes

\* The answer names the request of its message.
LEMMA AnswerNext ==
    ASSUME NEW s \in Proc, NEW d \in Proc, NEW g, OnlyRequest(d, g),
           NEW m, NEW proto \in Waits, NEW sid, Link(s, d, m, proto, sid), fate'[m] = "matched",
           NEW l, l.msg = m, l.sender_req_id = sid,
           l.type = IF proto = "rndv" THEN "RNDV_CLR_TO_SEND" ELSE "EAGER_SYNC_ACK",
           proto = "rndv" => Receiving(d, l.receiver_req_id, s, m)'
    PROVE  PacketOK(d, s, l)'
<1>1. IsSend(s, sid, m) /\ s # d /\ sid \in Handle
  BY DEF Link, IsSend
<1>2. request[s][sid].peer = d /\ request[s][sid].proto = proto
  BY <1>1 DEF Link
<1>3. request'[s][sid] = request[s][sid]
  BY <1>1 DEF OnlyRequest
<1>4. IsSend(s, sid, m)'
  BY <1>1, <1>3 DEF IsSend
<1>5. l.type \in AnswerTypes /\ (l.type = "RNDV_CLR_TO_SEND" <=> proto = "rndv")
  BY DEF AnswerTypes, Waits
<1>6. proto = IF l.type = "EAGER_SYNC_ACK" THEN "sync" ELSE "rndv"
  BY <1>5 DEF Waits
<1>7. AnswerOK(d, s, l)'
  BY <1>2, <1>3, <1>4, <1>5, <1>6 DEF AnswerOK
<1> QED  BY <1>1, <1>5, <1>7 DEF PacketOK

\* It is the only one.
LEMMA AnswerNew ==
    ASSUME OnePlace, NEW s \in Proc, NEW d \in Proc, NEW m \in Message, m[1] = s,
           NEW w, NEW x0, Place(d, m, w, x0), w # "answered",
           NEW l, l.msg = m, l.type \in AnswerTypes
    PROVE  \A x \in Packets(d, s) : NetBefore(x, l)
<1>1. ASSUME l \in Packets(d, s) PROVE FALSE
  <2>1. Place(d, m, "answered", l)
    BY <1>1 DEF Place
  <2> QED  BY <2>1 DEF OnePlace
<1>2. l.type \notin EnvelopeTypes
  BY DEF EnvelopeTypes, AnswerTypes
<1> QED  BY <1>1, <1>2 DEF NetBefore

\* The packets `gone` are taken and the packets `new` are sent.
Exchange(s, d, gone, new) ==
    \A a, b \in Proc :
        Packets(a, b)' = IF a = s /\ b = d THEN Packets(a, b) \ gone
                         ELSE IF a = d /\ b = s THEN Packets(a, b) \union new
                         ELSE Packets(a, b)

\* The packets about cancellations are the same ones.
LEMMA CancelsSame ==
    ASSUME CancelOnce, NEW s \in Proc, NEW d \in Proc, NEW gone, NEW new, Exchange(s, d, gone, new),
           \A x \in gone \union new : x.type \notin {"CANCEL_SEND_REQ", "CANCEL_SEND_RESP"}
    PROVE  CancelOnce' /\ \A n \in Message : Cancelling(n)' <=> Cancelling(n)
<1>1. ASSUME NEW a \in Proc, NEW b \in Proc, NEW x, x.type \in {"CANCEL_SEND_REQ", "CANCEL_SEND_RESP"}
      PROVE  x \in Packets(a, b)' <=> x \in Packets(a, b)
  BY <1>1 DEF Exchange
<1>2. ASSUME NEW n \in Message, NEW o \in Proc, NEW x PROVE CancelPacket(o, n, x)' <=> CancelPacket(o, n, x)
  <2>1. n[1] \in Proc
    BY MessageFacts
  <2> QED  BY <1>1, <2>1 DEF CancelPacket
<1>3. CancelOnce'
  BY <1>2 DEF CancelOnce
<1>4. ASSUME NEW n \in Message PROVE Cancelling(n)' <=> Cancelling(n)
  <2>1. n[1] \in Proc
    BY MessageFacts
  <2>2. ASSUME NEW o \in Proc, NEW x, CancelPacket(o, n, x) PROVE x \in Packets(n[1], o) \union Packets(o, n[1])
    BY <2>2 DEF CancelPacket
  <2>3. ASSUME NEW o \in Proc, NEW x, CancelPacket(o, n, x)'
        PROVE  x \in Packets(n[1], o)' \union Packets(o, n[1])'
    BY <2>3 DEF CancelPacket
  <2> QED  BY <1>2, <2>2, <2>3 DEF Cancelling
<1> QED  BY <1>3, <1>4

\* What is left to do for a receive that has found its message.
Taken(r) == IF r.proto = "rndv" THEN r ELSE [r EXCEPT !.pending = @ - 1]

Answers(g, r) == IF r.proto \in Waits THEN {AnswerPkt(g, r)} ELSE {}

Elsewhere(d, m) == \E w, x : w # "answered" /\ Place(d, m, w, x)

LEMMA TakeMessageFacts ==
    ASSUME PtParts, NEW d \in Proc, NEW g \in Handle, NEW r \in Request,
           r.proto \in Kind, r.peer \in Proc, r.peer # d, r.msg \in Message, r.msg[1] = r.peer,
           Elsewhere(d, r.msg), TakeMessage(d, g, r),
           NEW q, q = Taken(r)
    PROVE  /\ Put(d, g, q) /\ q \in Request /\ SameIdentity(r, q)
           /\ q.user = r.user /\ q.cc = r.cc /\ q.ref = r.ref
           /\ q.writing = r.writing /\ q.cancel_pending = r.cancel_pending
           /\ NetOK' /\ NetOrder'
           /\ \A a, b \in Proc :
                 Packets(a, b)' = IF a = r.peer /\ b = d THEN Packets(a, b) \ {}
                                  ELSE IF a = d /\ b = r.peer THEN Packets(a, b) \union Answers(g, r)
                                  ELSE Packets(a, b)
           /\ CancelOnce' /\ \A n \in Message : Cancelling(n)' <=> Cancelling(n)
<1>1. Put(d, g, q)
  BY DEF TakeMessage, Taken
<1>2. /\ q \in Request /\ SameIdentity(r, q)
      /\ q.user = r.user /\ q.cc = r.cc /\ q.ref = r.ref
      /\ q.writing = r.writing /\ q.cancel_pending = r.cancel_pending
  <2>1. CASE r.proto = "rndv"
    <3>1. q = r
      BY <2>1 DEF Taken
    <3> QED  BY <3>1 DEF SameIdentity
  <2>2. CASE r.proto # "rndv"
    <3>1. q = [r EXCEPT !.pending = @ - 1]
      BY <2>2 DEF Taken
    <3> QED  BY <3>1, PendingFacts
  <2> QED  BY <2>1, <2>2
<1>l. PICK l : l = AnswerPkt(g, r)
  OBVIOUS
<1>3. l.msg = r.msg /\ l.type \in AnswerTypes
  BY <1>l, AnswerPktFacts
<1>4. NetOK /\ NetOrder /\ CancelOnce /\ OnePlace
  BY DEF PtParts, NetInv
<1>5. /\ NetOK' /\ NetOrder'
      /\ \A a, b \in Proc :
                 Packets(a, b)' = IF a = r.peer /\ b = d THEN Packets(a, b) \ {}
                                  ELSE IF a = d /\ b = r.peer THEN Packets(a, b) \union Answers(g, r)
                                  ELSE Packets(a, b)
  <2>1. CASE r.proto \in Waits
    <3>1. Emit(d, r.peer, l)
      BY <1>l, <2>1 DEF TakeMessage, AnswerPkt, Waits
    <3>2. \A x \in Packets(d, r.peer) : NetBefore(x, l)
      <4>1. PICK w, x0 : w # "answered" /\ Place(d, r.msg, w, x0)
        BY DEF Elsewhere
      <4> QED  BY <1>3, <1>4, <4>1, AnswerNew
    <3>3. /\ NetOK' /\ NetOrder'
          /\ \A a, b \in Proc :
                Packets(a, b)' = IF a = d /\ b = r.peer THEN Packets(a, b) \union {l} ELSE Packets(a, b)
      BY <1>4, <3>1, <3>2, EmitFacts
    <3>4. Answers(g, r) = {l}
      BY <1>l, <2>1 DEF Answers
    <3> QED  BY <3>3, <3>4
  <2>2. CASE r.proto \notin Waits
    <3>1. net' = net /\ Answers(g, r) = {}
      BY <2>2 DEF TakeMessage, Waits, Answers
    <3> QED  BY <1>4, <3>1, SameNet
  <2> QED  BY <2>1, <2>2
<1>6. \A x \in {} \union Answers(g, r) : x.type \notin {"CANCEL_SEND_REQ", "CANCEL_SEND_RESP"}
  BY <1>l, <1>3 DEF Answers, AnswerTypes
<1>7. CancelOnce' /\ \A n \in Message : Cancelling(n)' <=> Cancelling(n)
  <2>1. Exchange(r.peer, d, {}, Answers(g, r))
    BY <1>5 DEF Exchange
  <2> QED  BY <1>4, <1>6, <2>1, CancelsSame
<1> QED  BY <1>1, <1>2, <1>5, <1>7

\* A receive finds its message in the queue.
LEMMA IrecvFoundKeeps ==
    ASSUME IInv, PtParts, NEW p \in Proc, NEW want, IrecvFound(p, want)
    PROVE  PtParts'
<1>i. PICK i \in DOMAIN unexpected[p] :
         /\ IsFirst(i, UnexpectedFor(unexpected[p], want))
         /\ LET h == unexpected[p][i].rreq
                r == request[p][h]
            IN /\ TakeMessage(p, h, [r EXCEPT !.user = TRUE])
               /\ fate' = [fate EXCEPT ![r.msg] = "matched"]
         /\ unexpected' = [unexpected EXCEPT ![p] = RemoveAt(@, i)]
  BY Zenon DEF IrecvFound
<1>e. PICK e : e = unexpected[p][i]
  OBVIOUS
<1>g. PICK g : g = e.rreq
  OBVIOUS
<1>r. PICK r : r = request[p][g]
  OBVIOUS
<1>u. PICK u : u = [r EXCEPT !.user = TRUE]
  BY Zenon
<1>q. PICK q : q = Taken(u)
  OBVIOUS
<1>l. PICK l : l = AnswerPkt(g, u)
  OBVIOUS
<1>n. PICK new : new = Answers(g, u)
  OBVIOUS
<1>1. /\ TakeMessage(p, g, u) /\ fate' = [fate EXCEPT ![r.msg] = "matched"]
      /\ unexpected' = [unexpected EXCEPT ![p] = RemoveAt(@, i)]
      /\ posted' = posted /\ reading' = reading /\ sent' = sent /\ asked' = asked
      /\ calls' = calls + 1 /\ IsFirst(i, UnexpectedFor(unexpected[p], want))
  BY <1>i, <1>e, <1>g, <1>r, <1>u, Zenon DEF IrecvFound, Count
<1>2. e \in Messages(p) /\ QueuesOK
  BY <1>e DEF Messages, Entries, IInv
<1>3. /\ g \in Handle /\ r \in Request /\ r.kind = "RECV" /\ HeldData(r)
      /\ ~ r.cancel_pending /\ ~ r.writing /\ r.cc \in {0, 1} /\ r.ref = 1 + Bit(r.cc > 0)
      /\ r.msg \in Message /\ r.peer \in Proc /\ r.peer # p /\ r.msg[1] = r.peer
      /\ r.proto \in Kind /\ Place(p, r.msg, "queued", g)
      /\ Link(r.peer, p, r.msg, r.proto, r.sender_req_id)
  BY <1>g, <1>r, <1>2, QueuedFacts
<1>4. /\ u \in Request /\ SameIdentity(r, u) /\ SameFlags(r, u)
      /\ u.user = TRUE /\ u.cc = r.cc /\ u.ref = r.ref
  BY <1>u, <1>3, UserFacts
<1>5. /\ u.msg = r.msg /\ u.peer = r.peer /\ u.proto = r.proto /\ u.sender_req_id = r.sender_req_id
      /\ u.kind = "RECV" /\ ~ u.cancel_pending /\ ~ u.writing
  BY <1>3, <1>4 DEF SameIdentity, SameFlags
<1>6. /\ Put(p, g, q) /\ q \in Request /\ SameIdentity(u, q)
      /\ q.user = u.user /\ q.cc = u.cc /\ q.ref = u.ref
      /\ q.writing = u.writing /\ q.cancel_pending = u.cancel_pending
      /\ NetOK' /\ NetOrder'
      /\ \A a, b \in Proc :
            Packets(a, b)' = IF a = u.peer /\ b = p THEN Packets(a, b) \ {}
                             ELSE IF a = p /\ b = u.peer THEN Packets(a, b) \union Answers(g, u)
                             ELSE Packets(a, b)
      /\ CancelOnce' /\ \A n \in Message : Cancelling(n)' <=> Cancelling(n)
  <2>1. /\ u.proto \in Kind /\ u.peer \in Proc /\ u.peer # p /\ u.msg \in Message /\ u.msg[1] = u.peer
    BY <1>3, <1>5
  <2>2. Elsewhere(p, u.msg)
    <3>1. Place(p, u.msg, "queued", g) /\ "queued" # "answered"
      BY <1>3, <1>5
    <3> QED  BY <3>1 DEF Elsewhere
  <2> QED  BY <1>q, <1>1, <1>3, <1>4, <2>1, <2>2, TakeMessageFacts
<1>7. /\ q.kind = "RECV" /\ q.msg = r.msg /\ q.peer = r.peer /\ q.proto = r.proto
      /\ q.sender_req_id = r.sender_req_id /\ q.cc = r.cc
      /\ ~ q.cancel_pending /\ ~ q.writing /\ q.user = TRUE /\ q.ref = Bit(q.user) + Bit(q.cc > 0) /\ q.ref # 0
  <2>1. q.user = TRUE /\ q.cc = r.cc /\ q.ref = r.ref
    BY <1>4, <1>6
  <2>2. q.ref = Bit(q.user) + Bit(q.cc > 0) /\ q.ref # 0
    BY <1>3, <2>1 DEF Bit
  <2> QED  BY <1>5, <1>6, <2>1, <2>2 DEF SameIdentity
<1>8. /\ l.msg = r.msg /\ l.sender_req_id = r.sender_req_id /\ l.type \in AnswerTypes
      /\ l.type = (IF r.proto = "rndv" THEN "RNDV_CLR_TO_SEND" ELSE "EAGER_SYNC_ACK")
      /\ (r.proto = "rndv" => l.receiver_req_id = g)
  <2>1. /\ l.msg = u.msg /\ l.sender_req_id = u.sender_req_id /\ l.type \in AnswerTypes
        /\ l.type = (IF u.proto = "rndv" THEN "RNDV_CLR_TO_SEND" ELSE "EAGER_SYNC_ACK")
        /\ (u.proto = "rndv" => l.receiver_req_id = g)
    BY ONLY <1>l, AnswerPktFacts
  <2> QED  BY <1>5, <2>1
<1>9. new = IF r.proto \in Waits THEN {l} ELSE {}
  BY <1>n, <1>l, <1>5 DEF Answers
<1>10. TakenStep(p, i, g, r, q, "matched", {}, new, l)
  <2>1. i \in DOMAIN unexpected[p] /\ g = unexpected[p][i].rreq /\ r = request[p][g]
    BY <1>e, <1>g, <1>r
  <2>2. \A a, b \in Proc :
            Packets(a, b)' = IF a = r.peer /\ b = p THEN Packets(a, b) \ {}
                             ELSE IF a = p /\ b = r.peer THEN Packets(a, b) \union new
                             ELSE Packets(a, b)
    BY <1>n, <1>5, <1>6
  <2> QED  BY <1>1, <1>6, <1>7, <1>8, <1>9, <2>1, <2>2, Zenon DEF TakenStep
<1>11. FoundStep(r.msg)
  <2>1. \A x \in new : x.type \notin EnvelopeTypes
    BY <1>8, <1>9 DEF EnvelopeTypes, AnswerTypes
  <2> QED  BY <1>1, <1>2, <1>10, <2>1, FirstTaken
<1>12. /\ request'[p][g] = q /\ OnlyRequest(p, g) /\ ~ Queued(p, g)' /\ ~ Listed(p, g)'
  <2>1. /\ request'[p][g] = IF q.ref = 0 THEN Unused ELSE q
        /\ OnlyRequest(p, g) /\ ~ Queued(p, g)' /\ ~ Listed(p, g)'
    BY <1>2, <1>10, TakenFacts
  <2> QED  BY <1>7, <2>1
<1>13. ASSUME NEW x \in new PROVE PacketOK(p, r.peer, x)'
  <2>1. x = l /\ r.proto \in Waits
    BY <1>9, <1>13
  <2>2. fate'[r.msg] = "matched"
    BY <1>1, <1>3 DEF PtParts, RequestInv, TypeInv
  <2>3. r.proto = "rndv" => Receiving(p, l.receiver_req_id, r.peer, r.msg)'
    <3>1. r.proto = "rndv" => r.cc = 1
      BY <1>3 DEF HeldData
    <3> QED  BY <1>3, <1>7, <1>8, <1>12, <3>1 DEF Receiving
  <2>4. PacketOK(p, r.peer, l)'
    BY <1>3, <1>8, <1>12, <2>1, <2>2, <2>3, AnswerNext
  <2> QED  BY <2>1, <2>4
<1> QED  BY <1>2, <1>6, <1>10, <1>11, <1>13, TakenKeeps

\* A message that was probed is received.
LEMMA ImrecvKeeps ==
    ASSUME IInv, PtParts, NEW p \in Proc, NEW g \in Handle, Imrecv(p, g)
    PROVE  PtParts'
<1>r. PICK r : r = request[p][g]
  OBVIOUS
<1>u. PICK u : u = [r EXCEPT !.kind = "RECV"]
  OBVIOUS
<1>q. PICK q : q = Taken(u)
  OBVIOUS
<1>l. PICK l : l = AnswerPkt(g, u)
  OBVIOUS
<1>n. PICK new : new = Answers(g, u)
  OBVIOUS
<1>1. /\ r.kind = "MPROBE" /\ TakeMessage(p, g, u) /\ fate' = fate
      /\ unexpected' = unexpected /\ posted' = posted /\ reading' = reading
      /\ sent' = sent /\ asked' = asked /\ calls' = calls
  BY <1>r, <1>u DEF Imrecv
<1>2. QueuesOK /\ TypeInv /\ FreeInv /\ RefInv /\ QueuedInv /\ ProbedInv /\ ReadingInv /\ QueueOrder /\ PostedOrder
  BY DEF PtParts, RequestInv, ReceiverInv, IInv
<1>3. r \in Request /\ r.user /\ Holds(p, g) /\ fate[r.msg] = "matched" /\ ~ Queued(p, g)
  <2>1. ProbedOK(p, g)
    BY <1>2 DEF ProbedInv
  <2> QED  BY <1>r, <1>1, <1>2, <2>1, SendNotQueued DEF ProbedOK, TypeInv
<1>4. /\ HeldData(r) /\ ~ Listed(p, g) /\ Link(r.peer, p, r.msg, r.proto, r.sender_req_id)
      /\ r.msg \in Message /\ r.peer \in Proc /\ r.peer # p /\ r.msg[1] = r.peer /\ r.proto \in Kind
  <2>1. HeldData(r) /\ ~ Listed(p, g) /\ Link(r.peer, p, r.msg, r.proto, r.sender_req_id)
    BY <1>r, <1>3 DEF Holds, HeldData
  <2> QED  BY <2>1, BoundAssumption DEF Link
<1>5. ~ r.cancel_pending /\ ~ r.writing /\ r.cc \in {0, 1} /\ r.ref = 1 + Bit(r.cc > 0)
  <2>1. RefOK(p, g)
    BY <1>2 DEF RefInv
  <2>2. r.cc \in {0, 1}
    BY <1>3, <1>4 DEF HeldData
  <2> QED  BY <1>r, <1>1, <1>3, <2>1, <2>2 DEF RefOK, Bit
<1>6. /\ u \in Request /\ SameFlags(r, u)
      /\ u.kind = "RECV" /\ u.msg = r.msg /\ u.peer = r.peer /\ u.proto = r.proto
      /\ u.tag = r.tag /\ u.sender_req_id = r.sender_req_id
      /\ u.user = r.user /\ u.cc = r.cc /\ u.ref = r.ref
  BY <1>u, <1>3, KindFacts
<1>7. Place(p, r.msg, "probed", g)
  BY <1>r, <1>1 DEF Place
<1>8. /\ Put(p, g, q) /\ q \in Request /\ SameIdentity(u, q)
      /\ q.user = u.user /\ q.cc = u.cc /\ q.ref = u.ref
      /\ q.writing = u.writing /\ q.cancel_pending = u.cancel_pending
      /\ NetOK' /\ NetOrder'
      /\ \A a, b \in Proc :
            Packets(a, b)' = IF a = u.peer /\ b = p THEN Packets(a, b) \ {}
                             ELSE IF a = p /\ b = u.peer THEN Packets(a, b) \union Answers(g, u)
                             ELSE Packets(a, b)
      /\ CancelOnce' /\ \A n \in Message : Cancelling(n)' <=> Cancelling(n)
  <2>1. /\ u.proto \in Kind /\ u.peer \in Proc /\ u.peer # p /\ u.msg \in Message /\ u.msg[1] = u.peer
    BY <1>4, <1>6
  <2>2. Elsewhere(p, u.msg)
    <3>1. Place(p, u.msg, "probed", g) /\ "probed" # "answered"
      BY <1>6, <1>7
    <3> QED  BY <3>1 DEF Elsewhere
  <2> QED  BY <1>q, <1>1, <1>6, <2>1, <2>2, TakeMessageFacts
<1>9. /\ q.kind = "RECV" /\ q.msg = r.msg /\ q.peer = r.peer /\ q.proto = r.proto
      /\ q.sender_req_id = r.sender_req_id /\ q.cc = r.cc
      /\ ~ q.cancel_pending /\ ~ q.writing /\ q.user /\ q.ref = Bit(q.user) + Bit(q.cc > 0) /\ q.ref # 0
  <2>1. q.user /\ q.cc = r.cc /\ q.ref = r.ref
    BY <1>3, <1>6, <1>8
  <2>2. q.ref = Bit(q.user) + Bit(q.cc > 0) /\ q.ref # 0
    BY <1>5, <2>1 DEF Bit
  <2>3. ~ q.cancel_pending /\ ~ q.writing
    BY <1>5, <1>6, <1>8 DEF SameFlags
  <2> QED  BY <1>6, <1>8, <2>1, <2>2, <2>3 DEF SameIdentity
<1>10. /\ l.msg = r.msg /\ l.sender_req_id = r.sender_req_id /\ l.type \in AnswerTypes
       /\ l.type = (IF r.proto = "rndv" THEN "RNDV_CLR_TO_SEND" ELSE "EAGER_SYNC_ACK")
       /\ (r.proto = "rndv" => l.receiver_req_id = g)
  <2>1. /\ l.msg = u.msg /\ l.sender_req_id = u.sender_req_id /\ l.type \in AnswerTypes
        /\ l.type = (IF u.proto = "rndv" THEN "RNDV_CLR_TO_SEND" ELSE "EAGER_SYNC_ACK")
        /\ (u.proto = "rndv" => l.receiver_req_id = g)
    BY ONLY <1>l, AnswerPktFacts
  <2> QED  BY <1>6, <2>1
<1>11. new = IF r.proto \in Waits THEN {l} ELSE {}
  BY <1>n, <1>l, <1>6 DEF Answers
<1>12. /\ request' \in [Proc -> [Handle -> Request]] /\ request'[p][g] = q
       /\ OnlyRequest(p, g) /\ avail' \in [Proc -> Seq(Handle)] /\ FreeInv'
  <2>1. request[p][g].kind # "none" /\ q.kind # "none"
    BY <1>r, <1>1, <1>9
  <2>2. /\ request' \in [Proc -> [Handle -> Request]]
        /\ request'[p][g] = IF q.ref = 0 THEN Unused ELSE q
        /\ OnlyRequest(p, g) /\ avail' \in [Proc -> Seq(Handle)] /\ FreeInv'
    BY <1>2, <1>8, <2>1, PutFacts
  <2> QED  BY <1>9, <2>2
<1>13. /\ \A o \in Proc : Messages(o)' = Messages(o) /\ Receives(o)' = Receives(o)
       /\ ~ Queued(p, g)' /\ ~ Listed(p, g)' /\ PostedOrder'
  <2>1. \A o \in Proc : Messages(o)' = Messages(o) /\ Receives(o)' = Receives(o)
    BY <1>1 DEF Messages, Receives
  <2>2. PostedOrder'
    BY <1>1, <1>2 DEF PostedOrder
  <2> QED  BY <1>3, <1>4, <2>1, <2>2 DEF Queued, Listed
<1>14. QueueOrder'
  <2>1. ASSUME NEW o \in Proc, NEW x \in Messages(o) PROVE SameMessage(o, x)
    <3>1. x.rreq \in Handle
      BY QueuedFacts
    <3>2. o # p \/ x.rreq # g
      BY <1>3, <2>1 DEF Queued
    <3> QED  BY <1>12, <3>1, <3>2 DEF SameMessage, OnlyRequest
  <2> QED  BY <1>1, <1>2, <2>1, MessagesSame
<1>15. TouchStep(r.peer, p, g, {}, new)
  <2>1. \A a, b \in Proc :
            Packets(a, b)' = IF a = r.peer /\ b = p THEN Packets(a, b) \ {}
                             ELSE IF a = p /\ b = r.peer THEN Packets(a, b) \union new
                             ELSE Packets(a, b)
    BY <1>n, <1>6, <1>8
  <2> QED  BY <1>r, <1>1, <1>9, <1>10, <1>11, <1>12, <1>13, <2>1 DEF TouchStep
<1>16. FateStep(p, g, r.msg, {}) /\ FoundStep(r.msg) /\ StillReceives(p, g)
  BY <1>r, <1>1 DEF FateStep, FoundStep, StillReceives, Receiving
<1>17. AnsweredStep(p, g, new)
  <2>1. Unanswered(r.msg)
    BY <1>r, <1>1 DEF Unanswered
  <2> QED  BY <1>8, <1>9, <1>10, <1>11, <1>12, <2>1 DEF AnsweredStep
<1>18. WaitingStep(r.peer, p, g, {})
  BY <1>3, <1>13 DEF WaitingStep, Queued
<1>19. TypeInv'
  BY <1>1, <1>2, <1>12 DEF TypeInv
<1>20. RefOK(p, g)'
  <2>1. q.ref = Bit(q.user) + Bit(Queued(p, g)') + Bit(q.cc > 0)
    BY <1>5, <1>9, <1>13 DEF Bit
  <2> QED  BY <1>9, <1>12, <2>1 DEF RefOK
<1>21. ASSUME NEW t \in Proc, reading[p][t] = g
       PROVE  r.cc = 1 /\ r.peer = t /\ r.proto # "rndv"
  <2>1. ReadingOK(p, t) /\ g # None
    BY <1>2, HandleFacts DEF ReadingInv
  <2> QED  BY <1>r, <1>1, <1>21, <2>1 DEF ReadingOK
<1>22. TouchedOK(r.peer, p, g)'
  <2>1. \A e \in Messages(p)' : e.rreq # g
    BY <1>13 DEF Queued
  <2>2. \A e \in Receives(p)' : e.rreq # g
    BY <1>13 DEF Listed
  <2>3. ProbedOK(p, g)'
    BY <1>9, <1>12 DEF ProbedOK
  <2>4. ASSUME NEW t \in Proc, reading'[p][t] = g PROVE ReadingOK(p, t)'
    BY <1>1, <1>4, <1>9, <1>12, <1>13, <1>21, <2>4 DEF ReadingOK
  <2> QED  BY <2>1, <2>2, <2>3, <2>4 DEF TouchedOK
<1>23. ASSUME NEW x \in new PROVE PacketOK(p, r.peer, x)'
  <2>1. x = l /\ r.proto \in Waits
    BY <1>11, <1>23
  <2>2. fate'[r.msg] = "matched"
    BY <1>1, <1>3
  <2>3. r.proto = "rndv" => Receiving(p, l.receiver_req_id, r.peer, r.msg)'
    <3>1. r.proto = "rndv" => r.cc = 1
      BY <1>4 DEF HeldData
    <3> QED  BY <1>9, <1>10, <1>12, <1>13, <3>1 DEF Receiving
  <2>4. PacketOK(p, r.peer, l)'
    BY <1>4, <1>10, <1>12, <2>1, <2>2, <2>3, AnswerNext
  <2> QED  BY <2>1, <2>4
<1>24. OnePlace'
  <2>1. ~ Place(p, r.msg, "probed", g)'
    BY <1>9, <1>12 DEF Place
  <2>2. ASSUME NEW v \in {"queued", "probed", "reading"}, Place(p, r.msg, v, g)' PROVE FALSE
    <3>1. CASE v = "queued"
      BY <1>13, <2>2, <3>1 DEF Place
    <3>2. CASE v = "probed"
      BY <2>1, <2>2, <3>2
    <3>3. CASE v = "reading"
      <4>1. g = reading[p][r.msg[1]] /\ request'[p][g].proto = "rndv"
        BY <1>1, <2>2, <3>3 DEF Place
      <4> QED  BY <1>4, <1>9, <1>12, <1>21, <4>1
    <3> QED  BY <2>2, <3>1, <3>2, <3>3
  <2>3. MovesTo(p, g, new, r.msg, "answered", l)
    BY <1>9, <1>10, <1>11, <1>12, <2>2 DEF MovesTo
  <2> QED  BY <1>4, <1>7, <1>15, <2>1, <2>3, TouchMoves
<1> QED  BY <1>4, <1>8, <1>12, <1>13, <1>14, <1>15, <1>16, <1>17, <1>18, <1>19, <1>20, <1>22, <1>23, <1>24,
            TouchKeeps

-----------------------------------------------------------------------------
\* What is known of a packet with an envelope.
LEMMA EnvelopeFacts ==
    ASSUME PtParts, NEW s \in Proc, NEW d \in Proc, NEW k \in Packets(s, d), k.type \in EnvelopeTypes
    PROVE  /\ s # d /\ k.match = Match(s, k.match.tag) /\ k.match.rank = s
           /\ k.type = EnvelopeType(k.proto)
           /\ k.msg \in Message /\ k.msg[1] = s /\ k.proto \in Kind
           /\ k.sender_req_id \in Handle \union {MPI_REQUEST_NULL}
           /\ Link(s, d, k.msg, k.proto, k.sender_req_id) /\ Tagged(s, k.msg, k.match.tag)
           /\ fate[k.msg] = "sent" /\ Place(d, k.msg, "envelope", k)
<1>1. PacketOK(s, d, k)
  BY DEF PtParts, NetInv, PacketInv
<1>2. EnvelopeOK(s, d, k) /\ s # d
  BY <1>1 DEF PacketOK, EnvelopeTypes, AnswerTypes
<1>3. Link(s, d, k.msg, k.proto, k.sender_req_id)
  BY <1>2 DEF EnvelopeOK
<1>4. k.msg \in Message /\ k.msg[1] = s /\ k.proto \in Kind
      /\ k.sender_req_id \in Handle \union {MPI_REQUEST_NULL}
  BY <1>3 DEF Link
<1>5. k.match.rank = s
  BY <1>2 DEF EnvelopeOK, Match
<1>6. Place(d, k.msg, "envelope", k)
  BY <1>4 DEF Place
<1> QED  BY <1>2, <1>3, <1>4, <1>5, <1>6 DEF EnvelopeOK

\* A process takes a packet, and answers it or not.
LEMMA TakePacket ==
    ASSUME NetOK, NetOrder, NEW s \in Proc, NEW d \in Proc, s # d, NEW k, k = Head(net[s][d]),
           net[s][d] # <<>>, NEW l, NEW new,
           \/ new = {l} /\ Reply(s, d, l) /\ (\A x \in Packets(d, s) : NetBefore(x, l))
           \/ new = {} /\ Consume(s, d)
    PROVE  /\ NetOK' /\ NetOrder' /\ k \in Packets(s, d) /\ Exchange(s, d, {k}, new)
           /\ \A x \in Packets(s, d) : x # k => NetBefore(k, x)
<1>1. CASE new = {l} /\ Reply(s, d, l) /\ (\A x \in Packets(d, s) : NetBefore(x, l))
  <2>1. /\ NetOK' /\ NetOrder' /\ k \in Packets(s, d)
        /\ \A a, b \in Proc :
                 Packets(a, b)' = IF a = s /\ b = d THEN Packets(a, b) \ {k}
                                  ELSE IF a = d /\ b = s THEN Packets(a, b) \union {l}
                                  ELSE Packets(a, b)
        /\ \A x \in Packets(s, d) : x # k => NetBefore(k, x)
    BY <1>1, ReplyFacts
  <2> QED  BY <1>1, <2>1 DEF Exchange
<1>2. CASE new = {} /\ Consume(s, d)
  <2>1. /\ NetOK' /\ NetOrder' /\ k \in Packets(s, d)
        /\ \A a, b \in Proc :
                 Packets(a, b)' = IF a = s /\ b = d THEN Packets(a, b) \ {k}
                                                    ELSE Packets(a, b)
        /\ \A x \in Packets(s, d) : x # k => NetBefore(k, x)
    BY <1>2, ConsumeFacts
  <2> QED  BY <1>2, <2>1 DEF Exchange
<1> QED  BY <1>1, <1>2

\* The envelope k meets the i-th posted receive, whose request becomes q.
MetStep(s, d, i, g, r, u, q, k, whole) ==
    /\ i \in DOMAIN posted[d] /\ g = posted[d][i].rreq /\ r = request[d][g]
    /\ IsFirst(i, PostedFor(posted[d], k.match))
    /\ u = WithEnvelope(r, k) /\ q = (IF whole THEN Completed(u) ELSE u) /\ Put(d, g, q)
    /\ k \in Packets(s, d) /\ k.type \in EnvelopeTypes /\ (whole => k.proto # "rndv")
    /\ posted' = [posted EXCEPT ![d] = RemoveAt(@, i)] /\ unexpected' = unexpected
    /\ reading[d][s] = None
    /\ IF whole \/ k.proto = "rndv" THEN reading' = reading ELSE ReadLater(s, d, g)
    /\ fate' = [fate EXCEPT ![k.msg] = "matched"]
    /\ sent' = sent /\ asked' = asked /\ calls' = calls
    /\ NetOK' /\ NetOrder' /\ Exchange(s, d, {k}, Answers(g, u))
    /\ \A x \in Packets(s, d) : x # k => NetBefore(k, x)

\* An envelope arrives and finds a receive: see MetStep.
LEMMA MetFacts ==
    ASSUME IInv, PtParts, NEW s \in Proc, NEW d \in Proc, NEW i, NEW g, NEW r, NEW u, NEW q, NEW k,
           NEW whole \in BOOLEAN, MetStep(s, d, i, g, r, u, q, k, whole)
    PROVE  /\ g \in Handle /\ Listed(d, g) /\ ~ Queued(d, g)
           /\ r.kind = "RECV" /\ r.msg = NoMessage
           /\ q.kind = "RECV" /\ q.msg = k.msg /\ q.peer = s /\ q.proto = k.proto
           /\ q.cc = (IF whole THEN 0 ELSE 1)
           /\ request' \in [Proc -> [Handle -> Request]]
           /\ request'[d][g] = IF q.ref = 0 THEN Unused ELSE q
           /\ (~ whole => request'[d][g] = q)
           /\ OnlyRequest(d, g) /\ avail' \in [Proc -> Seq(Handle)] /\ FreeInv' /\ RefOK(d, g)'
           /\ QueueOrder' /\ PostedOrder' /\ ~ Listed(d, g)' /\ ~ Queued(d, g)'
           /\ \A o \in Proc : Messages(o)' = Messages(o)
           /\ \A o \in Proc : \A x : o # d \/ x.rreq # g => (x \in Receives(o)' <=> x \in Receives(o))
           /\ u.msg = k.msg /\ u.proto = k.proto /\ u.sender_req_id = k.sender_req_id
<1>e. PICK e : e = posted[d][i]
  OBVIOUS
<1>1. /\ i \in DOMAIN posted[d] /\ e \in Receives(d) /\ g = e.rreq /\ r = request[d][g]
      /\ u = WithEnvelope(r, k) /\ q = (IF whole THEN Completed(u) ELSE u) /\ Put(d, g, q)
      /\ k \in Packets(s, d) /\ k.type \in EnvelopeTypes
      /\ posted' = [posted EXCEPT ![d] = RemoveAt(@, i)] /\ unexpected' = unexpected
  BY <1>e DEF MetStep, Receives, Entries
<1>2. /\ TypeInv /\ FreeInv /\ RefInv /\ ListedInv /\ QueuedInv /\ QueueOrder /\ PostedOrder /\ QueuesOK
  BY DEF PtParts, RequestInv, ReceiverInv, IInv
<1>3. /\ g \in Handle /\ r \in Request /\ r.kind = "RECV" /\ r.msg = NoMessage /\ r.cc = 1 /\ Listed(d, g)
  BY <1>1, <1>2 DEF ListedInv, ListedOK, TypeInv, Listed
<1>4. ~ Queued(d, g)
  <2>1. ASSUME Queued(d, g) PROVE FALSE
    <3>1. PICK x \in Messages(d) : x.rreq = g
      BY <2>1 DEF Queued
    <3>2. r.msg \in Message
      BY <1>1, <3>1, QueuedFacts
    <3> QED  BY <1>3, <3>2, MessageFacts
  <2> QED  BY <2>1
<1>5. r.ref = Bit(r.user) + 1 /\ ~ r.cancel_pending /\ ~ r.writing /\ r.user \in BOOLEAN
  <2>1. RefOK(d, g)
    BY <1>2, <1>3 DEF RefInv
  <2> QED  BY <1>1, <1>3, <1>4, <2>1 DEF RefOK, Bit, Request
<1>6. /\ u \in Request /\ SameFlags(r, u)
      /\ u.kind = r.kind /\ u.msg = k.msg /\ u.peer = s
      /\ u.proto = k.proto /\ u.sender_req_id = k.sender_req_id
      /\ u.user = r.user /\ u.cc = r.cc /\ u.ref = r.ref
  <2>1. /\ k.proto \in Kind /\ k.msg \in Message /\ k.match.rank = s
        /\ k.sender_req_id \in Handle \union {MPI_REQUEST_NULL}
    BY <1>1, EnvelopeFacts
  <2>2. k.match.rank \in Proc
    BY <2>1
  <2>3. LET w == WithEnvelope(r, k) IN
        /\ w \in Request /\ SameFlags(r, w)
        /\ w.kind = r.kind /\ w.msg = k.msg /\ w.peer = k.match.rank
        /\ w.proto = k.proto /\ w.sender_req_id = k.sender_req_id
        /\ w.user = r.user /\ w.cc = r.cc /\ w.ref = r.ref
    BY ONLY <1>3, <2>1, <2>2, WithEnvelopeFacts
  <2> QED  BY <1>1, <2>1, <2>3
<1>7. /\ q \in Request /\ q.kind = "RECV" /\ q.msg = k.msg /\ q.peer = s /\ q.proto = k.proto
      /\ q.cc = (IF whole THEN 0 ELSE 1) /\ q.user = r.user
      /\ q.ref = Bit(r.user) + Bit(~ whole) /\ ~ q.cancel_pending /\ ~ q.writing
  <2>1. CASE whole
    <3>1. q = Completed(u)
      BY <1>1, <2>1
    <3>2. /\ q \in Request /\ SameIdentity(u, q) /\ SameFlags(u, q)
          /\ q.user = u.user /\ q.cc = u.cc - 1
          /\ q.ref = IF u.cc = 1 THEN u.ref - 1 ELSE u.ref
      BY <1>6, <3>1, CompletedFacts
    <3>3. q.ref = Bit(r.user) + Bit(~ whole)
      BY <1>3, <1>5, <1>6, <2>1, <3>2 DEF Bit
    <3> QED  BY <1>3, <1>5, <1>6, <2>1, <3>2, <3>3 DEF SameIdentity, SameFlags
  <2>2. CASE ~ whole
    <3>1. q = u
      BY <1>1, <2>2
    <3>2. q.ref = Bit(r.user) + Bit(~ whole)
      BY <1>5, <1>6, <2>2, <3>1 DEF Bit
    <3> QED  BY <1>3, <1>5, <1>6, <2>2, <3>1, <3>2 DEF SameFlags
  <2> QED  BY <2>1, <2>2
<1>8. (~ whole => q.ref # 0) /\ (q.ref = 0 => q.cc = 0)
  BY <1>5, <1>7 DEF Bit
<1>9. /\ request' \in [Proc -> [Handle -> Request]]
      /\ request'[d][g] = IF q.ref = 0 THEN Unused ELSE q
      /\ OnlyRequest(d, g) /\ avail' \in [Proc -> Seq(Handle)] /\ FreeInv'
  <2>1. request[d][g].kind # "none" /\ q.kind # "none"
    BY <1>1, <1>3, <1>7
  <2> QED  BY <1>1, <1>2, <1>3, <1>7, <2>1, PutFacts
<1>10. /\ PostedOrder'
       /\ \A o \in Proc : Receives(o)' = IF o = d THEN Receives(o) \ {e} ELSE Receives(o)
       /\ \A x \in Receives(d) : x # e => x.rreq # g
  <2>1. /\ PostedOrder' /\ e \in Receives(d)
        /\ \A o \in Proc : Receives(o)' = IF o = d THEN Receives(o) \ {e} ELSE Receives(o)
        /\ \A x \in Receives(d) : x # e => x.rreq # e.rreq
    BY <1>e, <1>1, <1>2, ReceivesShrink, Zenon
  <2> QED  BY <1>1, <2>1
<1>11. QueueOrder' /\ \A o \in Proc : Messages(o)' = Messages(o)
  <2>1. ASSUME NEW o \in Proc, NEW x \in Messages(o) PROVE SameMessage(o, x)
    <3>1. x.rreq \in Handle
      BY QueuedFacts
    <3>2. o # d \/ x.rreq # g
      BY <1>4, <2>1 DEF Queued
    <3> QED  BY <1>9, <3>1, <3>2 DEF SameMessage, OnlyRequest
  <2> QED  BY <1>1, <1>2, <2>1, MessagesSame
<1>12. ~ Listed(d, g)' /\ ~ Queued(d, g)'
  BY <1>4, <1>10, <1>11 DEF Listed, Queued
<1>13. RefOK(d, g)'
  <2>1. CASE q.ref = 0
    <3>1. request'[d][g] = Unused
      BY <1>9, <2>1
    <3> QED  BY <1>12, <3>1, UnusedFacts DEF RefOK, Bit
  <2>2. CASE q.ref # 0
    <3>1. request'[d][g] = q
      BY <1>9, <2>2
    <3>2. q.ref = Bit(q.user) + Bit(Queued(d, g)') + Bit(q.cc > 0)
      BY <1>7, <1>12 DEF Bit
    <3> QED  BY <1>7, <2>2, <3>1, <3>2 DEF RefOK
  <2> QED  BY <2>1, <2>2
<1>14. \A o \in Proc : \A x : o # d \/ x.rreq # g => (x \in Receives(o)' <=> x \in Receives(o))
  BY <1>1, <1>10
<1>15. ~ whole => request'[d][g] = q
  BY <1>8, <1>9
<1> QED  BY <1>3, <1>4, <1>6, <1>7, <1>9, <1>10, <1>11, <1>12, <1>13, <1>14, <1>15

\* The message is the first of those with its envelope.
LEMMA MetFound ==
    ASSUME IInv, PtParts, NEW s \in Proc, NEW d \in Proc, NEW i, NEW g, NEW r, NEW u, NEW q, NEW k,
           NEW whole \in BOOLEAN, MetStep(s, d, i, g, r, u, q, k, whole)
    PROVE  FoundStep(k.msg) /\ FateStep(d, g, k.msg, {k})
<1>1. /\ i \in DOMAIN posted[d] /\ IsFirst(i, PostedFor(posted[d], k.match))
      /\ k \in Packets(s, d) /\ k.type \in EnvelopeTypes
      /\ fate' = [fate EXCEPT ![k.msg] = "matched"]
      /\ Exchange(s, d, {k}, Answers(g, u))
      /\ \A x \in Packets(s, d) : x # k => NetBefore(k, x)
  BY DEF MetStep
<1>2. /\ s # d /\ k.match = Match(s, k.match.tag) /\ k.msg \in Message /\ k.msg[1] = s
      /\ Link(s, d, k.msg, k.proto, k.sender_req_id) /\ Tagged(s, k.msg, k.match.tag)
      /\ fate[k.msg] = "sent" /\ Place(d, k.msg, "envelope", k)
  BY <1>1, EnvelopeFacts
<1>3. /\ fate'[k.msg] = "matched" /\ \A n \in Message : n # k.msg => fate'[n] = fate[n]
  BY <1>1, <1>2 DEF PtParts, RequestInv, TypeInv
<1>4. FateStep(d, g, k.msg, {k})
  BY <1>2, <1>3 DEF FateStep
<1>5. \A e \in Messages(d) : e.match # k.match
  <2>1. ASSUME NEW e \in Messages(d), e.match = k.match PROVE FALSE
    <3>1. Matches(posted[d][i].match, e.match)
      BY <1>1, <2>1 DEF IsFirst, PostedFor
    <3>2. posted[d][i] \in Entries(posted[d]) /\ e \in Entries(unexpected[d])
      BY <1>1 DEF Entries, Messages
    <3> QED  BY <3>1, <3>2 DEF IInv, Apart
  <2> QED  BY <2>1
<1>6. \A o \in Proc : Messages(o)' = Messages(o)
  BY MetFacts
<1>7. ASSUME NEW x \in Packets(s, d)', x.type \in EnvelopeTypes PROVE x.msg[2] > k.msg[2]
  <2>1. x \in Packets(s, d) /\ x # k
    BY <1>1, <1>2, <1>7 DEF Exchange
  <2>2. x.msg \in Message
    BY <1>7, <2>1, EnvelopeFacts
  <2>3. k.msg[2] < x.msg[2]
    BY <1>1, <1>7, <2>1 DEF NetBefore
  <2> QED  BY <1>2, <2>2, <2>3, MessageFacts
<1>8. ASSUME NEW p \in Proc, NEW o \in Proc, NEW h \in Handle, NEW tag \in Tag,
             IsSend(p, h, k.msg), request[p][h].peer = o, request[p][h].tag = tag
      PROVE  FirstNext(p, o, tag, k.msg)
  <2>1. p = s
    <3>1. SendShape(p, h)
      BY <1>8 DEF PtParts, SenderInv, ShapeInv, IsSendRequest, IsSend
    <3> QED  BY <1>2, <1>8, <3>1 DEF SendShape, IsSend
  <2>2. o = d /\ tag = k.match.tag
    BY <1>2, <1>8, <2>1 DEF Link, Tagged
  <2>3. k.match = Match(p, tag)
    BY <1>2, <2>1, <2>2
  <2> QED  BY <1>5, <1>6, <1>7, <2>1, <2>2, <2>3 DEF FirstNext
<1> QED  BY <1>3, <1>4, <1>8 DEF FoundStep

LEMMA MetTouch ==
    ASSUME IInv, PtParts, NEW s \in Proc, NEW d \in Proc, NEW i, NEW g, NEW r, NEW u, NEW q, NEW k,
           NEW whole \in BOOLEAN, MetStep(s, d, i, g, r, u, q, k, whole)
    PROVE  /\ TouchStep(s, d, g, {k}, Answers(g, u)) /\ TouchedOK(s, d, g)' /\ TypeInv'
           /\ StillReceives(d, g)
           /\ \A t \in Proc : reading'[d][t] = g => t = s /\ ~ whole /\ k.proto # "rndv"
<1>1. /\ r = request[d][g] /\ k \in Packets(s, d) /\ k.type \in EnvelopeTypes
      /\ reading[d][s] = None
      /\ (IF whole \/ k.proto = "rndv" THEN reading' = reading ELSE ReadLater(s, d, g))
      /\ fate' = [fate EXCEPT ![k.msg] = "matched"]
      /\ sent' = sent /\ asked' = asked /\ calls' = calls
      /\ Exchange(s, d, {k}, Answers(g, u))
  BY DEF MetStep
<1>2. /\ g \in Handle /\ Listed(d, g) /\ ~ Queued(d, g)
      /\ r.kind = "RECV" /\ r.msg = NoMessage
      /\ q.kind = "RECV" /\ q.msg = k.msg /\ q.peer = s /\ q.proto = k.proto
      /\ q.cc = (IF whole THEN 0 ELSE 1)
      /\ request' \in [Proc -> [Handle -> Request]]
      /\ request'[d][g] = (IF q.ref = 0 THEN Unused ELSE q)
      /\ (~ whole => request'[d][g] = q)
      /\ OnlyRequest(d, g) /\ avail' \in [Proc -> Seq(Handle)]
      /\ ~ Listed(d, g)' /\ ~ Queued(d, g)'
      /\ \A o \in Proc : Messages(o)' = Messages(o)
      /\ \A o \in Proc : \A x : o # d \/ x.rreq # g => (x \in Receives(o)' <=> x \in Receives(o))
      /\ u.msg = k.msg /\ u.proto = k.proto /\ u.sender_req_id = k.sender_req_id
  BY MetFacts
<1>3. TypeInv /\ ReadingInv
  BY DEF PtParts, RequestInv, ReceiverInv
<1>4. k.msg \in Message /\ k.msg[1] = s
  BY <1>1, EnvelopeFacts
<1>5. /\ reading' \in [Proc -> [Proc -> Handle \union {None}]]
      /\ reading'[d][s] = (IF whole \/ k.proto = "rndv" THEN None ELSE g)
      /\ \A o, t \in Proc : o # d \/ t # s => reading'[o][t] = reading[o][t]
  <2>1. CASE whole \/ k.proto = "rndv"
    BY <1>1, <1>3, <2>1 DEF TypeInv
  <2>2. CASE ~ (whole \/ k.proto = "rndv")
    <3>1. reading' = [reading EXCEPT ![d][s] = g] /\ reading \in [Proc -> [Proc -> Handle \union {None}]]
      BY <1>1, <1>3, <2>2 DEF TypeInv, ReadLater
    <3>2. \A o, t \in Proc : reading'[o][t] = IF o = d /\ t = s THEN g ELSE reading[o][t]
      BY <3>1
    <3>3. reading' \in [Proc -> [Proc -> Handle \union {None}]]
      BY <1>2, <3>1
    <3> QED  BY <2>2, <3>2, <3>3
  <2> QED  BY <2>1, <2>2
<1>6. request'[d][g].kind # "SEND" /\ request'[d][g].kind # "MPROBE"
  BY <1>2, UnusedFacts
<1>7. TouchStep(s, d, g, {k}, Answers(g, u))
  <2>1. \A x \in Answers(g, u) : x.type \in AnswerTypes
    BY AnswerPktFacts DEF Answers
  <2>2. \A o \in Proc : \A e : o # d \/ e.rreq # g =>
          (e \in Messages(o)' <=> e \in Messages(o)) /\ (e \in Receives(o)' <=> e \in Receives(o))
    BY <1>2
  <2>3. reading'[d][s] \in {reading[d][s], g, None}
    BY <1>5
  <2>4. /\ \A a, b \in Proc :
              Packets(a, b)' = IF a = s /\ b = d THEN Packets(a, b) \ {k}
                               ELSE IF a = d /\ b = s THEN Packets(a, b) \union Answers(g, u)
                               ELSE Packets(a, b)
        /\ {k} \subseteq Packets(s, d)
    BY <1>1 DEF Exchange
  <2> QED  BY <1>1, <1>2, <1>5, <1>6, <2>1, <2>2, <2>3, <2>4 DEF TouchStep
<1>8. TypeInv'
  BY <1>1, <1>2, <1>3, <1>4, <1>5 DEF TypeInv, Fates
<1>9. ASSUME NEW t \in Proc, reading'[d][t] = g PROVE t = s /\ ~ whole /\ k.proto # "rndv"
  <2>1. CASE t = s
    BY <1>2, <1>5, <1>9, <2>1, HandleFacts
  <2>2. CASE t # s
    <3>1. reading[d][t] = g /\ ReadingOK(d, t)
      BY <1>3, <1>5, <1>9, <2>2 DEF ReadingInv
    <3> QED  BY <1>2, <3>1, HandleFacts DEF ReadingOK
  <2> QED  BY <2>1, <2>2
<1>10. TouchedOK(s, d, g)'
  <2>1. \A e \in Messages(d)' : e.rreq # g
    BY <1>2 DEF Queued
  <2>2. \A e \in Receives(d)' : e.rreq # g
    BY <1>2 DEF Listed
  <2>3. ProbedOK(d, g)'
    BY <1>6 DEF ProbedOK
  <2>4. ASSUME NEW t \in Proc, reading'[d][t] = g PROVE ReadingOK(d, t)'
    BY <1>2, <1>4, <1>9, <2>4 DEF ReadingOK
  <2> QED  BY <2>1, <2>2, <2>3, <2>4 DEF TouchedOK
<1>11. StillReceives(d, g)
  BY <1>2 DEF StillReceives, Receiving
<1> QED  BY <1>7, <1>8, <1>9, <1>10, <1>11

LEMMA MetKeeps ==
    ASSUME IInv, PtParts, NEW s \in Proc, NEW d \in Proc, NEW i, NEW g, NEW r, NEW u, NEW q, NEW k,
           NEW whole \in BOOLEAN, MetStep(s, d, i, g, r, u, q, k, whole)
    PROVE  PtParts'
<1>l. PICK l : l = AnswerPkt(g, u)
  OBVIOUS
<1>n. PICK new : new = Answers(g, u)
  OBVIOUS
<1>1. /\ k \in Packets(s, d) /\ k.type \in EnvelopeTypes /\ (whole => k.proto # "rndv")
      /\ fate' = [fate EXCEPT ![k.msg] = "matched"]
      /\ NetOK' /\ NetOrder' /\ Exchange(s, d, {k}, new)
      /\ \A x \in Packets(s, d) : x # k => NetBefore(k, x)
  BY <1>n DEF MetStep
<1>2. /\ s # d /\ k.msg \in Message /\ k.msg[1] = s /\ k.proto \in Kind
      /\ Link(s, d, k.msg, k.proto, k.sender_req_id)
      /\ fate[k.msg] = "sent" /\ Place(d, k.msg, "envelope", k)
  BY <1>1, EnvelopeFacts
<1>3. /\ g \in Handle /\ ~ Queued(d, g)
      /\ q.kind = "RECV" /\ q.msg = k.msg /\ q.peer = s /\ q.proto = k.proto
      /\ q.cc = (IF whole THEN 0 ELSE 1)
      /\ request'[d][g] = (IF q.ref = 0 THEN Unused ELSE q)
      /\ (~ whole => request'[d][g] = q)
      /\ OnlyRequest(d, g) /\ FreeInv' /\ RefOK(d, g)'
      /\ QueueOrder' /\ PostedOrder' /\ ~ Listed(d, g)' /\ ~ Queued(d, g)'
      /\ \A o \in Proc : Messages(o)' = Messages(o)
      /\ u.msg = k.msg /\ u.proto = k.proto /\ u.sender_req_id = k.sender_req_id
  BY MetFacts
<1>4. FoundStep(k.msg) /\ FateStep(d, g, k.msg, {k})
  BY MetFound
<1>5. /\ TouchStep(s, d, g, {k}, new) /\ TouchedOK(s, d, g)' /\ TypeInv' /\ StillReceives(d, g)
      /\ \A t \in Proc : reading'[d][t] = g => t = s /\ ~ whole /\ k.proto # "rndv"
  BY <1>n, MetTouch
<1>6. /\ l.msg = k.msg /\ l.sender_req_id = k.sender_req_id /\ l.type \in AnswerTypes
      /\ l.type = (IF k.proto = "rndv" THEN "RNDV_CLR_TO_SEND" ELSE "EAGER_SYNC_ACK")
      /\ (k.proto = "rndv" => l.receiver_req_id = g)
  <2>1. /\ l.msg = u.msg /\ l.sender_req_id = u.sender_req_id /\ l.type \in AnswerTypes
        /\ l.type = (IF u.proto = "rndv" THEN "RNDV_CLR_TO_SEND" ELSE "EAGER_SYNC_ACK")
        /\ (u.proto = "rndv" => l.receiver_req_id = g)
    BY ONLY <1>l, AnswerPktFacts
  <2> QED  BY <1>3, <2>1
<1>7. new = IF k.proto \in Waits THEN {l} ELSE {}
  BY <1>n, <1>l, <1>3 DEF Answers
<1>8. CancelOnce' /\ \A n \in Message : Cancelling(n)' <=> Cancelling(n)
  <2>1. \A x \in {k} \union new : x.type \notin {"CANCEL_SEND_REQ", "CANCEL_SEND_RESP"}
    BY <1>1, <1>6, <1>7 DEF EnvelopeTypes, AnswerTypes
  <2>2. CancelOnce
    BY DEF PtParts, NetInv
  <2> QED  BY <1>1, <2>1, <2>2, CancelsSame
<1>9. request'[d][g].kind # "MPROBE" /\ (request'[d][g].msg \in Message => request'[d][g].msg = k.msg)
  BY <1>3, UnusedFacts, MessageFacts
<1>10. AnsweredStep(d, g, new)
  <2>1. Unanswered(k.msg)
    BY <1>2 DEF Unanswered
  <2> QED  BY <1>6, <1>7, <1>8, <1>9, <2>1 DEF AnsweredStep
<1>11. fate'[k.msg] = "matched"
  BY <1>1, <1>2 DEF PtParts, RequestInv, TypeInv
<1>12. WaitingStep(s, d, g, {k})
  BY <1>1, <1>3, <1>11 DEF WaitingStep, Queued
<1>13. ASSUME NEW x \in new PROVE PacketOK(d, s, x)'
  <2>1. x = l /\ k.proto \in Waits
    BY <1>7, <1>13
  <2>2. k.proto = "rndv" => Receiving(d, l.receiver_req_id, s, k.msg)'
    BY <1>1, <1>3, <1>6 DEF Receiving
  <2>3. PacketOK(d, s, l)'
    BY <1>2, <1>3, <1>6, <1>11, <2>1, <2>2, AnswerNext
  <2> QED  BY <2>1, <2>3
<1>14. OnePlace'
  <2>1. ~ Place(d, k.msg, "envelope", k)'
    BY <1>1, <1>2 DEF Place, Exchange
  <2>2. ASSUME NEW v \in {"queued", "probed", "reading"}, Place(d, k.msg, v, g)' PROVE FALSE
    <3>1. CASE v = "queued"
      BY <1>3, <2>2, <3>1 DEF Place
    <3>2. CASE v = "probed"
      BY <1>9, <2>2, <3>2 DEF Place
    <3>3. CASE v = "reading"
      <4>1. g = reading'[d][s] /\ request'[d][g].proto = "rndv" /\ request'[d][g].msg = k.msg
        BY <1>2, <2>2, <3>3 DEF Place
      <4> QED  BY <1>2, <1>3, <1>5, <4>1
    <3> QED  BY <2>2, <3>1, <3>2, <3>3
  <2>3. MovesTo(d, g, new, k.msg, "answered", l)
    BY <1>6, <1>7, <1>9, <2>2 DEF MovesTo
  <2> QED  BY <1>2, <1>3, <1>5, <2>1, <2>3, TouchMoves
<1> QED  BY <1>1, <1>3, <1>4, <1>5, <1>8, <1>10, <1>12, <1>13, <1>14, TouchKeeps

\* The packet that arrives next, and its type.
LEMMA HeadPacket ==
    ASSUME NetOK, NEW s \in Proc, NEW d \in Proc, NEW k, k = Head(net[s][d]), net[s][d] # <<>>
    PROVE  k \in Packets(s, d)
<1>1. IsQueue(net[s][d])
  BY DEF NetOK
<1> QED  BY <1>1, TailQueue DEF Packets

LEMMA EnvelopeKinds ==
    ASSUME NEW kind \in Kind
    PROVE  /\ EnvelopeType(kind) = "EAGER_SYNC_SEND" <=> kind = "sync"
           /\ EnvelopeType(kind) = "RNDV_REQ_TO_SEND" <=> kind = "rndv"
           /\ EnvelopeType(kind) \in EnvelopeTypes
<1>1. kind = "eager" \/ kind = "noncontig" \/ kind = "sync" \/ kind = "rndv"
  BY DEF Kind
<1> QED  BY <1>1 DEF EnvelopeType, EnvelopeTypes

\* The answer of a receive that meets an envelope, and the connection then.
LEMMA MetPackets ==
    ASSUME PtParts, NEW s \in Proc, NEW d \in Proc, NEW k, k = Head(net[s][d]), net[s][d] # <<>>,
           k.type \in EnvelopeTypes, NEW g, NEW u, u.msg = k.msg, u.proto = k.proto,
           NEW l, l = AnswerPkt(g, u), IF k.proto \in Waits THEN Reply(s, d, l) ELSE Consume(s, d)
    PROVE  /\ k \in Packets(s, d) /\ NetOK' /\ NetOrder' /\ Exchange(s, d, {k}, Answers(g, u))
           /\ \A x \in Packets(s, d) : x # k => NetBefore(k, x)
<1>1. NetOK /\ NetOrder /\ OnePlace
  BY DEF PtParts, NetInv
<1>2. k \in Packets(s, d)
  BY <1>1, HeadPacket
<1>3. s # d /\ k.msg \in Message /\ k.msg[1] = s /\ Place(d, k.msg, "envelope", k)
  BY <1>2, EnvelopeFacts
<1>4. l.msg = k.msg /\ l.type \in AnswerTypes
  BY AnswerPktFacts
<1>5. \A x \in Packets(d, s) : NetBefore(x, l)
  <2>w. PICK w : w = "envelope"
    OBVIOUS
  <2>1. w # "answered" /\ Place(d, k.msg, w, k)
    BY <2>w, <1>3
  <2> QED  BY <1>1, <1>3, <1>4, <2>1, AnswerNew
<1>6. \/ Answers(g, u) = {l} /\ Reply(s, d, l) /\ (\A x \in Packets(d, s) : NetBefore(x, l))
      \/ Answers(g, u) = {} /\ Consume(s, d)
  BY <1>5 DEF Answers
<1> QED  BY <1>1, <1>2, <1>3, <1>6, TakePacket

\* A short message meets a receive.
LEMMA EagerSendFoundKeeps ==
    ASSUME IInv, PtParts, NEW s \in Proc, NEW d \in Proc, NEW whole \in BOOLEAN,
           EagerSendFound(s, d, whole)
    PROVE  PtParts'
<1>k. PICK k : k = Head(net[s][d])
  OBVIOUS
<1>i. PICK i \in DOMAIN posted[d] :
         /\ IsFirst(i, PostedFor(posted[d], k.match))
         /\ LET h == posted[d][i].rreq
                r == WithEnvelope(request[d][h], k)
            IN /\ Put(d, h, IF whole THEN Completed(r) ELSE r)
               /\ IF whole THEN UNCHANGED reading ELSE ReadLater(s, d, h)
               /\ IF k.type = "EAGER_SYNC_SEND" THEN Reply(s, d, SyncAckPkt(r))
                                                ELSE Consume(s, d)
         /\ posted' = [posted EXCEPT ![d] = RemoveAt(@, i)]
  BY <1>k DEF EagerSendFound
<1>g. PICK g : g = posted[d][i].rreq
  OBVIOUS
<1>r. PICK r : r = request[d][g]
  OBVIOUS
<1>u. PICK u : u = WithEnvelope(r, k)
  OBVIOUS
<1>q. PICK q : q = IF whole THEN Completed(u) ELSE u
  OBVIOUS
<1>l. PICK l : l = AnswerPkt(g, u)
  OBVIOUS
<1>1. /\ net[s][d] # <<>> /\ k.type \in {"EAGER_SEND", "EAGER_SYNC_SEND"} /\ reading[d][s] = None
      /\ fate' = [fate EXCEPT ![k.msg] = "matched"] /\ unexpected' = unexpected
      /\ sent' = sent /\ asked' = asked /\ calls' = calls
  BY <1>k DEF EagerSendFound, EagerArrived, Arrived
<1>2. /\ Put(d, g, q) /\ (IF whole THEN reading' = reading ELSE ReadLater(s, d, g))
      /\ (IF k.type = "EAGER_SYNC_SEND" THEN Reply(s, d, SyncAckPkt(u)) ELSE Consume(s, d))
  BY <1>i, <1>g, <1>r, <1>u, <1>q
<1>3. k \in Packets(s, d) /\ k.type \in EnvelopeTypes
  <2>1. NetOK
    BY DEF PtParts, NetInv
  <2>2. k \in Packets(s, d)
    BY <1>k, <1>1, <2>1, HeadPacket
  <2> QED  BY <1>1, <2>2 DEF EnvelopeTypes
<1>4. k.type = EnvelopeType(k.proto) /\ k.proto \in Kind
  BY <1>3, EnvelopeFacts
<1>5. k.proto # "rndv" /\ (k.type = "EAGER_SYNC_SEND" <=> k.proto = "sync")
  BY <1>1, <1>4, EnvelopeKinds
<1>6. u.msg = k.msg /\ u.proto = k.proto
  <2>1. g \in Handle /\ r \in Request
    <3>1. posted[d][i] \in Receives(d) /\ ListedInv /\ TypeInv
      BY DEF Receives, Entries, PtParts, ReceiverInv, RequestInv
    <3> QED  BY <1>g, <1>r, <3>1 DEF ListedInv, ListedOK, TypeInv
  <2> QED  BY <1>u, <2>1 DEF WithEnvelope, Request
<1>7. IF k.proto \in Waits THEN Reply(s, d, l) ELSE Consume(s, d)
  BY <1>l, <1>2, <1>4, <1>5, <1>6 DEF AnswerPkt, Waits
<1>8. /\ NetOK' /\ NetOrder' /\ Exchange(s, d, {k}, Answers(g, u))
      /\ \A x \in Packets(s, d) : x # k => NetBefore(k, x)
  BY <1>k, <1>l, <1>1, <1>3, <1>6, <1>7, MetPackets, Zenon
<1>9. MetStep(s, d, i, g, r, u, q, k, whole)
  BY <1>i, <1>g, <1>r, <1>u, <1>q, <1>1, <1>2, <1>3, <1>5, <1>8, Zenon DEF MetStep
<1> QED  BY <1>9, MetKeeps

\* A long message asks to be sent and meets a receive.
LEMMA RndvReqToSendFoundKeeps ==
    ASSUME IInv, PtParts, NEW s \in Proc, NEW d \in Proc, RndvReqToSendFound(s, d)
    PROVE  PtParts'
<1>k. PICK k : k = Head(net[s][d])
  OBVIOUS
<1>i. PICK i \in DOMAIN posted[d] :
         /\ IsFirst(i, PostedFor(posted[d], k.match))
         /\ LET h == posted[d][i].rreq
                r == WithEnvelope(request[d][h], k)
            IN Put(d, h, r) /\ Reply(s, d, ClrToSendPkt(h, r))
         /\ posted' = [posted EXCEPT ![d] = RemoveAt(@, i)]
  BY <1>k DEF RndvReqToSendFound
<1>g. PICK g : g = posted[d][i].rreq
  OBVIOUS
<1>r. PICK r : r = request[d][g]
  OBVIOUS
<1>u. PICK u : u = WithEnvelope(r, k)
  OBVIOUS
<1>l. PICK l : l = AnswerPkt(g, u)
  OBVIOUS
<1>1. /\ net[s][d] # <<>> /\ k.type = "RNDV_REQ_TO_SEND" /\ reading[d][s] = None
      /\ fate' = [fate EXCEPT ![k.msg] = "matched"] /\ unexpected' = unexpected
      /\ sent' = sent /\ asked' = asked /\ calls' = calls /\ reading' = reading
  BY <1>k DEF RndvReqToSendFound, Arrived
<1>2. Put(d, g, u) /\ Reply(s, d, ClrToSendPkt(g, u))
  BY <1>i, <1>g, <1>r, <1>u
<1>3. k \in Packets(s, d) /\ k.type \in EnvelopeTypes
  <2>1. NetOK
    BY DEF PtParts, NetInv
  <2>2. k \in Packets(s, d)
    BY <1>k, <1>1, <2>1, HeadPacket
  <2> QED  BY <1>1, <2>2 DEF EnvelopeTypes
<1>4. k.type = EnvelopeType(k.proto) /\ k.proto \in Kind
  BY <1>3, EnvelopeFacts
<1>5. k.proto = "rndv"
  BY <1>1, <1>4, EnvelopeKinds
<1>6. u.msg = k.msg /\ u.proto = k.proto
  <2>1. g \in Handle /\ r \in Request
    <3>1. posted[d][i] \in Receives(d) /\ ListedInv /\ TypeInv
      BY DEF Receives, Entries, PtParts, ReceiverInv, RequestInv
    <3> QED  BY <1>g, <1>r, <3>1 DEF ListedInv, ListedOK, TypeInv
  <2> QED  BY <1>u, <2>1 DEF WithEnvelope, Request
<1>7. IF k.proto \in Waits THEN Reply(s, d, l) ELSE Consume(s, d)
  BY <1>l, <1>2, <1>5, <1>6 DEF AnswerPkt, Waits
<1>8. /\ NetOK' /\ NetOrder' /\ Exchange(s, d, {k}, Answers(g, u))
      /\ \A x \in Packets(s, d) : x # k => NetBefore(k, x)
  BY <1>k, <1>l, <1>1, <1>3, <1>6, <1>7, MetPackets, Zenon
<1>9. FALSE \in BOOLEAN /\ MetStep(s, d, i, g, r, u, u, k, FALSE)
  BY <1>i, <1>g, <1>r, <1>u, <1>1, <1>2, <1>3, <1>5, <1>8, Zenon DEF MetStep
<1> QED  BY <1>9, MetKeeps

-----------------------------------------------------------------------------
\* The envelope k meets no receive: a new request q of d waits with it.
ArriveStep(s, d, g, q, k) ==
    /\ Alloc(d, g, q) /\ q \in Request /\ q.kind = "RECV" /\ ~ q.user
    /\ q.msg = k.msg /\ q.peer = s /\ q.proto = k.proto /\ q.sender_req_id = k.sender_req_id
    /\ HeldData(q) /\ q.cc \in {0, 1} /\ q.ref = 1 + Bit(q.cc > 0)
    /\ ~ q.cancel_pending /\ ~ q.writing
    /\ k \in Packets(s, d) /\ k.type \in EnvelopeTypes
    /\ unexpected' = [unexpected EXCEPT ![d] = Enqueued(@, Entry(g, k.match))]
    /\ posted' = posted /\ reading[d][s] = None
    /\ reading' = reading \/ (ReadLater(s, d, g) /\ q.cc = 1 /\ k.proto # "rndv")
    /\ fate' = fate /\ sent' = sent /\ asked' = asked /\ calls' = calls
    /\ NetOK' /\ NetOrder' /\ Exchange(s, d, {k}, {})
    /\ \A x \in Packets(s, d) : x # k => NetBefore(k, x)

\* An envelope arrives and finds no receive: see ArriveStep.
LEMMA ArriveFacts ==
    ASSUME IInv, PtParts, NEW s \in Proc, NEW d \in Proc, NEW g \in Handle, NEW q, NEW k,
           ArriveStep(s, d, g, q, k)
    PROVE  /\ request' \in [Proc -> [Handle -> Request]]
           /\ request[d][g].kind = "none" /\ request'[d][g] = q
           /\ OnlyRequest(d, g) /\ avail' \in [Proc -> Seq(Handle)] /\ FreeInv'
           /\ ~ Queued(d, g) /\ ~ Listed(d, g) /\ ~ Listed(d, g)'
           /\ QueueOrder' /\ PostedOrder'
           /\ \A o \in Proc : Messages(o)' = IF o = d THEN Messages(o) \union {Entry(g, k.match)}
                                                      ELSE Messages(o)
           /\ \A o \in Proc : Receives(o)' = Receives(o)
           /\ RefOK(d, g)'
<1>e. PICK e : e = Entry(g, k.match)
  OBVIOUS
<1>1. /\ Alloc(d, g, q) /\ q \in Request /\ k \in Packets(s, d) /\ k.type \in EnvelopeTypes
      /\ unexpected' = [unexpected EXCEPT ![d] = Enqueued(@, e)] /\ posted' = posted
      /\ q.kind = "RECV" /\ ~ q.user /\ q.msg = k.msg /\ q.cc \in {0, 1} /\ q.ref = 1 + Bit(q.cc > 0)
      /\ ~ q.cancel_pending /\ ~ q.writing
  BY <1>e DEF ArriveStep
<1>2. /\ TypeInv /\ FreeInv /\ QueuedInv /\ QueueOrder /\ PostedOrder /\ ListedInv /\ QueuesOK /\ LaterInv
  BY DEF PtParts, RequestInv, ReceiverInv, IInv
<1>3. /\ request' \in [Proc -> [Handle -> Request]]
      /\ request[d][g].kind = "none" /\ request'[d][g] = q
      /\ OnlyRequest(d, g) /\ avail' \in [Proc -> Seq(Handle)] /\ FreeInv'
  BY <1>1, <1>2, AllocFacts
<1>4. ~ Queued(d, g) /\ ~ Listed(d, g)
  <2>1. ~ Queued(d, g)
    BY <1>2, <1>3, SendNotQueued
  <2>2. ~ Listed(d, g)
    BY <1>2, <1>3 DEF Listed, ListedInv, ListedOK
  <2> QED  BY <2>1, <2>2
<1>5. k.match.rank = s /\ k.msg \in Message
  BY <1>1, EnvelopeFacts
<1>6. e.rreq = g /\ e.match = k.match
  BY <1>e DEF Entry
<1>7. ASSUME NEW o \in Proc, NEW x \in Messages(o)
      PROVE  SameMessage(o, x) /\ x.rreq \in Handle /\ (o = d => x.rreq # g /\ request'[o][x.rreq] = request[o][x.rreq])
  <2>1. x.rreq \in Handle
    BY QueuedFacts
  <2>2. o # d \/ x.rreq # g
    BY <1>4 DEF Queued
  <2> QED  BY <1>3, <2>1, <2>2 DEF SameMessage, OnlyRequest
<1>8. ASSUME NEW x \in Messages(d) PROVE NextBefore(d, x, e)
  <2>1. x.match.rank = s => request[d][x.rreq].msg[2] < k.msg[2]
    BY <1>1, <1>2 DEF LaterInv
  <2> QED  BY <1>1, <1>3, <1>5, <1>6, <1>7, <2>1 DEF NextBefore
<1>9. /\ QueueOrder'
      /\ \A o \in Proc : Messages(o)' = IF o = d THEN Messages(o) \union {e} ELSE Messages(o)
  <2>1. \A o \in Proc : \A x \in Messages(o) : SameMessage(o, x)
    BY <1>7
  <2>2. \A x \in Messages(d) : NextBefore(d, x, e)
    BY <1>8
  <2> QED  BY <1>1, <1>2, <2>1, <2>2, MessagesGrow
<1>10. PostedOrder' /\ \A o \in Proc : Receives(o)' = Receives(o)
  BY <1>1, <1>2, ReceivesSame
<1>11. ~ Listed(d, g)'
  BY <1>4, <1>10 DEF Listed
<1>12. Queued(d, g)'
  BY <1>6, <1>9 DEF Queued
<1>13. RefOK(d, g)'
  <2>1. q.ref = Bit(q.user) + Bit(Queued(d, g)') + Bit(q.cc > 0) /\ q.ref # 0
    BY <1>1, <1>12 DEF Bit
  <2> QED  BY <1>1, <1>3, <2>1 DEF RefOK
<1> QED  BY <1>e, <1>3, <1>4, <1>9, <1>10, <1>11, <1>13

LEMMA ArriveKeeps ==
    ASSUME IInv, PtParts, NEW s \in Proc, NEW d \in Proc, NEW g \in Handle, NEW q, NEW k,
           ArriveStep(s, d, g, q, k)
    PROVE  PtParts'
<1>e. PICK e : e = Entry(g, k.match)
  OBVIOUS
<1>1. /\ q \in Request /\ q.kind = "RECV" /\ ~ q.user
      /\ q.msg = k.msg /\ q.peer = s /\ q.proto = k.proto /\ q.sender_req_id = k.sender_req_id
      /\ HeldData(q) /\ k \in Packets(s, d) /\ k.type \in EnvelopeTypes
      /\ reading[d][s] = None
      /\ reading' = reading \/ (ReadLater(s, d, g) /\ q.cc = 1 /\ k.proto # "rndv")
      /\ fate' = fate /\ sent' = sent /\ asked' = asked /\ calls' = calls
      /\ NetOK' /\ NetOrder' /\ Exchange(s, d, {k}, {})
      /\ \A x \in Packets(s, d) : x # k => NetBefore(k, x)
  BY DEF ArriveStep
<1>2. /\ request' \in [Proc -> [Handle -> Request]]
      /\ request[d][g].kind = "none" /\ request'[d][g] = q
      /\ OnlyRequest(d, g) /\ avail' \in [Proc -> Seq(Handle)] /\ FreeInv'
      /\ ~ Queued(d, g) /\ ~ Listed(d, g) /\ ~ Listed(d, g)'
      /\ QueueOrder' /\ PostedOrder'
      /\ \A o \in Proc : Messages(o)' = IF o = d THEN Messages(o) \union {e} ELSE Messages(o)
      /\ \A o \in Proc : Receives(o)' = Receives(o)
      /\ RefOK(d, g)'
  BY <1>e, ArriveFacts
<1>3. e.rreq = g /\ e.match = k.match
  BY <1>e DEF Entry
<1>4. /\ s # d /\ k.match = Match(s, k.match.tag) /\ k.match.rank = s
      /\ k.msg \in Message /\ k.msg[1] = s /\ k.msg[2] <= sent[s]
      /\ Link(s, d, k.msg, k.proto, k.sender_req_id) /\ Tagged(s, k.msg, k.match.tag)
      /\ fate[k.msg] = "sent" /\ Place(d, k.msg, "envelope", k)
  <2>1. /\ s # d /\ k.match = Match(s, k.match.tag) /\ k.match.rank = s
        /\ k.msg \in Message /\ k.msg[1] = s
        /\ Link(s, d, k.msg, k.proto, k.sender_req_id) /\ Tagged(s, k.msg, k.match.tag)
        /\ fate[k.msg] = "sent" /\ Place(d, k.msg, "envelope", k)
    BY <1>1, EnvelopeFacts
  <2> QED  BY <2>1 DEF Link
<1>5. TypeInv /\ ReadingInv /\ CancelOnce
  BY DEF PtParts, RequestInv, ReceiverInv, NetInv
<1>6. /\ reading' \in [Proc -> [Proc -> Handle \union {None}]]
      /\ reading'[d][s] = None \/ (reading'[d][s] = g /\ q.cc = 1 /\ k.proto # "rndv")
      /\ \A o, t \in Proc : o # d \/ t # s => reading'[o][t] = reading[o][t]
  <2>1. CASE reading' = reading
    BY <1>1, <1>5, <2>1 DEF TypeInv
  <2>2. CASE ReadLater(s, d, g) /\ q.cc = 1 /\ k.proto # "rndv"
    <3>1. reading' = [reading EXCEPT ![d][s] = g] /\ reading \in [Proc -> [Proc -> Handle \union {None}]]
      BY <1>5, <2>2 DEF TypeInv, ReadLater
    <3>2. \A o, t \in Proc : reading'[o][t] = IF o = d /\ t = s THEN g ELSE reading[o][t]
      BY <3>1
    <3>3. reading' \in [Proc -> [Proc -> Handle \union {None}]]
      BY <3>1
    <3> QED  BY <2>2, <3>2, <3>3
  <2> QED  BY <1>1, <2>1, <2>2
<1>7. TouchStep(s, d, g, {k}, {})
  <2>1. /\ \A a, b \in Proc :
              Packets(a, b)' = IF a = s /\ b = d THEN Packets(a, b) \ {k}
                               ELSE IF a = d /\ b = s THEN Packets(a, b) \union {}
                               ELSE Packets(a, b)
        /\ {k} \subseteq Packets(s, d)
    BY <1>1 DEF Exchange
  <2>2. \A o \in Proc : \A x : o # d \/ x.rreq # g =>
          (x \in Messages(o)' <=> x \in Messages(o)) /\ (x \in Receives(o)' <=> x \in Receives(o))
    BY <1>2, <1>3
  <2>3. reading'[d][s] \in {reading[d][s], g, None}
    BY <1>6
  <2> QED  BY <1>1, <1>2, <1>6, <2>1, <2>2, <2>3 DEF TouchStep
<1>8. FateStep(d, g, k.msg, {k}) /\ FoundStep(k.msg)
  BY <1>1 DEF FateStep, FoundStep
<1>9. CancelOnce' /\ \A n \in Message : Cancelling(n)' <=> Cancelling(n)
  <2>1. \A x \in {k} \union {} : x.type \notin {"CANCEL_SEND_REQ", "CANCEL_SEND_RESP"}
    BY <1>1 DEF EnvelopeTypes
  <2> QED  BY <1>1, <1>5, <2>1, CancelsSame
<1>10. AnsweredStep(d, g, {})
  BY <1>1, <1>2, <1>9 DEF AnsweredStep
<1>11. WaitingStep(s, d, g, {k})
  <2>1. e \in Messages(d)' /\ request'[d][e.rreq].msg = k.msg
    BY <1>1, <1>2, <1>3
  <2>2. \A x \in Messages(d) : x.rreq # g
    BY <1>2 DEF Queued
  <2>3. \A x \in Messages(d)' : x.rreq = g => x = e
    BY <1>2, <2>2
  <2> QED  BY <1>1, <1>2, <1>3, <1>4, <2>1, <2>2, <2>3 DEF WaitingStep
<1>12. StillReceives(d, g)
  BY <1>2 DEF StillReceives, Receiving
<1>13. TypeInv'
  BY <1>1, <1>2, <1>5, <1>6 DEF TypeInv
<1>14. QueuedOK(d, e)'
  <2>1. SendsKeep
    BY <1>5, <1>7, TouchSends
  <2>2. k.proto \in Waits => request'[s][k.sender_req_id].kind # "none"
    BY <1>2, <1>4 DEF Link, IsSend, OnlyRequest
  <2>3. Link(s, d, k.msg, k.proto, k.sender_req_id)'
    BY <1>4, <2>1, <2>2, LinkStays
  <2>4. LinkNext(q.peer, d, q.msg, q.proto, q.sender_req_id)
    BY <1>1, <2>3, LinkIsNext
  <2>5. Holds(d, g)'
    BY <1>1, <1>2, <2>4, HoldsIsNext
  <2>6. TaggedNext(s, k.msg, k.match.tag)
    BY <1>4, <2>1, HeldTag
  <2>7. /\ q = request'[d][e.rreq] /\ e.rreq \in Handle /\ q.kind = "RECV" /\ ~ q.user
        /\ e.match = Match(q.peer, e.match.tag) /\ Holds(d, e.rreq)'
        /\ TaggedNext(q.peer, q.msg, e.match.tag) /\ fate'[q.msg] = "sent"
    BY <1>1, <1>2, <1>3, <1>4, <2>5, <2>6
  <2> QED  BY <2>7, QueuedIsNext
<1>15. TouchedOK(s, d, g)'
  <2>1. \A x \in Messages(d)' : x.rreq = g => x = e
    BY <1>2 DEF Queued
  <2>2. \A x \in Receives(d)' : x.rreq # g
    BY <1>2 DEF Listed
  <2>3. ProbedOK(d, g)'
    BY <1>1, <1>2 DEF ProbedOK
  <2>4. ASSUME NEW t \in Proc, reading'[d][t] = g PROVE ReadingOK(d, t)'
    <3>1. CASE t = s
      <4>1. q.cc = 1 /\ k.proto # "rndv"
        BY <1>6, <2>4, <3>1, HandleFacts
      <4> QED  BY <1>1, <1>2, <1>4, <2>4, <3>1, <4>1 DEF ReadingOK
    <3>2. CASE t # s
      <4>1. reading[d][t] = g /\ ReadingOK(d, t)
        BY <1>5, <1>6, <2>4, <3>2 DEF ReadingInv
      <4> QED  BY <1>2, <4>1, HandleFacts DEF ReadingOK
    <3> QED  BY <3>1, <3>2
  <2> QED  BY <1>14, <2>1, <2>2, <2>3, <2>4 DEF TouchedOK
<1>16. OnePlace'
  <2>1. ~ Place(d, k.msg, "envelope", k)'
    BY <1>1, <1>4 DEF Place, Exchange
  <2>2. ASSUME NEW v \in {"queued", "probed", "reading"}, Place(d, k.msg, v, g)' PROVE v = "queued"
    <3>1. CASE v = "probed"
      BY <1>1, <1>2, <2>2, <3>1 DEF Place
    <3>2. CASE v = "reading"
      <4>1. g = reading'[d][s] /\ request'[d][g].proto = "rndv"
        BY <1>4, <2>2, <3>2 DEF Place
      <4> QED  BY <1>1, <1>2, <1>6, <4>1, HandleFacts
    <3> QED  BY <2>2, <3>1, <3>2
  <2>3. MovesTo(d, g, {}, k.msg, "queued", g)
    BY <1>1, <1>2, <2>2 DEF MovesTo
  <2> QED  BY <1>4, <1>7, <2>1, <2>3, TouchMoves
<1>17. \A x \in {} : PacketOK(d, s, x)'
  OBVIOUS
<1> QED  BY <1>1, <1>2, <1>7, <1>8, <1>9, <1>10, <1>11, <1>12, <1>13, <1>15, <1>16, <1>17, TouchKeeps

\* The request of a message that has come without a receive.
FreshFor(s, k, u) ==
    /\ u \in Request /\ u.kind = "RECV" /\ u.msg = k.msg /\ u.peer = s /\ u.proto = k.proto
    /\ u.sender_req_id = k.sender_req_id /\ ~ u.user /\ u.cc = 1 /\ u.ref = 2
    /\ u.pending = 1 /\ ~ u.ue /\ ~ u.cancel_pending /\ ~ u.writing

\* The request made for an envelope that arrives has what the envelope says.
LEMMA NewEnvelope ==
    ASSUME PtParts, NEW s \in Proc, NEW d \in Proc, NEW k \in Packets(s, d), k.type \in EnvelopeTypes
    PROVE  FreshFor(s, k, WithEnvelope(NewRecv, k))
<1>1. /\ k.proto \in Kind /\ k.msg \in Message /\ k.match.rank = s
      /\ k.sender_req_id \in Handle \union {MPI_REQUEST_NULL}
  BY EnvelopeFacts
<1>2. k.match.rank \in Proc /\ NewRecv \in Request
  BY <1>1, NewRecvFacts
<1>3. LET w == WithEnvelope(NewRecv, k) IN
      /\ w \in Request /\ SameFlags(NewRecv, w)
      /\ w.kind = NewRecv.kind /\ w.msg = k.msg /\ w.peer = k.match.rank
      /\ w.proto = k.proto /\ w.sender_req_id = k.sender_req_id
      /\ w.user = NewRecv.user /\ w.cc = NewRecv.cc /\ w.ref = NewRecv.ref
  BY ONLY <1>1, <1>2, WithEnvelopeFacts
<1> QED  BY <1>1, <1>3, NewRecvFacts DEF SameFlags, FreshFor

LEMMA NewUnexpected ==
    ASSUME PtParts, NEW s \in Proc, NEW d \in Proc, NEW k \in Packets(s, d), k.type \in EnvelopeTypes,
           k.proto # "rndv", NEW whole \in BOOLEAN, NEW q, q = UnexpectedRecv(k, whole)
    PROVE  /\ q \in Request /\ q.kind = "RECV" /\ ~ q.user
           /\ q.msg = k.msg /\ q.peer = s /\ q.proto = k.proto /\ q.sender_req_id = k.sender_req_id
           /\ HeldData(q) /\ q.cc = (IF whole THEN 0 ELSE 1) /\ q.ref = 1 + Bit(q.cc > 0)
           /\ ~ q.cancel_pending /\ ~ q.writing
<1>u. PICK u : u = WithEnvelope(NewRecv, k)
  OBVIOUS
<1>1. /\ u \in Request /\ u.kind = "RECV" /\ u.msg = k.msg /\ u.peer = s /\ u.proto = k.proto
      /\ u.sender_req_id = k.sender_req_id /\ ~ u.user /\ u.cc = 1 /\ u.ref = 2
      /\ u.pending = 1 /\ ~ u.ue /\ ~ u.cancel_pending /\ ~ u.writing
  <2>1. FreshFor(s, k, WithEnvelope(NewRecv, k))
    BY NewEnvelope
  <2>2. FreshFor(s, k, u)
    BY ONLY <1>u, <2>1
  <2> QED  BY <2>2 DEF FreshFor
<1>2. CASE whole
  <2>1. q = Completed(u)
    BY <1>u, <1>2 DEF UnexpectedRecv
  <2>2. /\ q \in Request /\ SameIdentity(u, q) /\ SameFlags(u, q)
        /\ q.user = u.user /\ q.cc = u.cc - 1
        /\ q.ref = IF u.cc = 1 THEN u.ref - 1 ELSE u.ref
    BY <1>1, <2>1, CompletedFacts
  <2>3. q.cc = 0 /\ q.ref = 1 /\ q.pending = 1 /\ ~ q.cancel_pending /\ ~ q.writing
    BY <1>1, <2>2 DEF SameFlags
  <2>4. /\ q.kind = "RECV" /\ q.msg = k.msg /\ q.peer = s /\ q.proto = k.proto
        /\ q.sender_req_id = k.sender_req_id
    BY <1>1, <2>2 DEF SameIdentity
  <2>5. q.ref = 1 + Bit(q.cc > 0) /\ HeldData(q)
    BY <2>3, <2>4 DEF Bit, HeldData
  <2> QED  BY <1>1, <1>2, <2>2, <2>3, <2>4, <2>5
<1>3. CASE ~ whole
  <2>1. q = Unpacked(u, 2, TRUE)
    BY <1>u, <1>3 DEF UnexpectedRecv, Unpacked
  <2>2. 2 \in Int /\ TRUE \in BOOLEAN
    OBVIOUS
  <2>3. LET v == Unpacked(u, 2, TRUE) IN
        /\ v \in Request /\ SameIdentity(u, v)
        /\ v.writing = u.writing /\ v.cancel_pending = u.cancel_pending
        /\ v.cancelled = u.cancelled /\ v.pending = 2 /\ v.ue = TRUE
        /\ v.user = u.user /\ v.cc = u.cc /\ v.ref = u.ref
    BY ONLY <1>1, <2>2, UnpackedFacts
  <2>4. /\ q \in Request /\ SameIdentity(u, q)
        /\ q.writing = u.writing /\ q.cancel_pending = u.cancel_pending
        /\ q.pending = 2 /\ q.ue = TRUE
        /\ q.user = u.user /\ q.cc = u.cc /\ q.ref = u.ref
    BY <2>1, <2>3
  <2>5. /\ q.kind = "RECV" /\ q.msg = k.msg /\ q.peer = s /\ q.proto = k.proto
        /\ q.sender_req_id = k.sender_req_id
    BY <1>1, <2>4 DEF SameIdentity
  <2>6. q.ref = 1 + Bit(q.cc > 0) /\ HeldData(q)
    BY <1>1, <2>4, <2>5 DEF Bit, HeldData
  <2> QED  BY <1>1, <1>3, <2>4, <2>5, <2>6
<1> QED  BY <1>2, <1>3

\* A short message meets no receive.
LEMMA EagerSendUnexpectedKeeps ==
    ASSUME IInv, PtParts, NEW s \in Proc, NEW d \in Proc, NEW whole \in BOOLEAN,
           EagerSendUnexpected(s, d, whole)
    PROVE  PtParts'
<1>k. PICK k : k = Head(net[s][d])
  OBVIOUS
<1>q. PICK q : q = UnexpectedRecv(k, whole)
  OBVIOUS
<1>g. PICK g \in Handle :
            /\ Alloc(d, g, q)
            /\ unexpected' = [unexpected EXCEPT ![d] = Enqueued(@, Entry(g, k.match))]
            /\ IF whole THEN UNCHANGED reading ELSE ReadLater(s, d, g)
  BY <1>k, <1>q DEF EagerSendUnexpected
<1>1. /\ net[s][d] # <<>> /\ k.type \in {"EAGER_SEND", "EAGER_SYNC_SEND"} /\ reading[d][s] = None
      /\ Consume(s, d) /\ fate' = fate /\ posted' = posted
      /\ sent' = sent /\ asked' = asked /\ calls' = calls
  BY <1>k DEF EagerSendUnexpected, EagerArrived, Arrived
<1>2. k \in Packets(s, d) /\ k.type \in EnvelopeTypes
  <2>1. NetOK
    BY DEF PtParts, NetInv
  <2>2. k \in Packets(s, d)
    BY <1>k, <1>1, <2>1, HeadPacket
  <2> QED  BY <1>1, <2>2 DEF EnvelopeTypes
<1>3. k.type = EnvelopeType(k.proto) /\ k.proto \in Kind /\ s # d
  BY <1>2, EnvelopeFacts
<1>4. k.proto # "rndv"
  BY <1>1, <1>3, EnvelopeKinds
<1>5. /\ q \in Request /\ q.kind = "RECV" /\ ~ q.user
      /\ q.msg = k.msg /\ q.peer = s /\ q.proto = k.proto /\ q.sender_req_id = k.sender_req_id
      /\ HeldData(q) /\ q.cc = (IF whole THEN 0 ELSE 1) /\ q.ref = 1 + Bit(q.cc > 0)
      /\ ~ q.cancel_pending /\ ~ q.writing
  BY <1>q, <1>2, <1>4, NewUnexpected
<1>6. /\ NetOK' /\ NetOrder' /\ Exchange(s, d, {k}, {})
      /\ \A x \in Packets(s, d) : x # k => NetBefore(k, x)
  <2>1. NetOK /\ NetOrder
    BY DEF PtParts, NetInv
  <2> QED  BY <1>k, <1>1, <1>3, <2>1, TakePacket
<1>7. ArriveStep(s, d, g, q, k)
  <2>1. q.cc \in {0, 1} /\ (reading' = reading \/ (ReadLater(s, d, g) /\ q.cc = 1 /\ k.proto # "rndv"))
    BY <1>g, <1>4, <1>5
  <2> QED  BY <1>g, <1>1, <1>2, <1>5, <1>6, <2>1 DEF ArriveStep
<1> QED  BY <1>7, ArriveKeeps

\* A long message asks to be sent and meets no receive.
LEMMA RndvReqToSendUnexpectedKeeps ==
    ASSUME IInv, PtParts, NEW s \in Proc, NEW d \in Proc, RndvReqToSendUnexpected(s, d)
    PROVE  PtParts'
<1>k. PICK k : k = Head(net[s][d])
  OBVIOUS
<1>q. PICK q : q = WithEnvelope(NewRecv, k)
  OBVIOUS
<1>g. PICK g \in Handle :
            /\ Alloc(d, g, q)
            /\ unexpected' = [unexpected EXCEPT ![d] = Enqueued(@, Entry(g, k.match))]
  BY <1>k, <1>q DEF RndvReqToSendUnexpected
<1>1. /\ net[s][d] # <<>> /\ k.type = "RNDV_REQ_TO_SEND" /\ reading[d][s] = None
      /\ Consume(s, d) /\ fate' = fate /\ posted' = posted /\ reading' = reading
      /\ sent' = sent /\ asked' = asked /\ calls' = calls
  BY <1>k DEF RndvReqToSendUnexpected, Arrived
<1>2. k \in Packets(s, d) /\ k.type \in EnvelopeTypes
  <2>1. NetOK
    BY DEF PtParts, NetInv
  <2>2. k \in Packets(s, d)
    BY <1>k, <1>1, <2>1, HeadPacket
  <2> QED  BY <1>1, <2>2 DEF EnvelopeTypes
<1>3. k.type = EnvelopeType(k.proto) /\ k.proto \in Kind /\ s # d
  BY <1>2, EnvelopeFacts
<1>4. k.proto = "rndv"
  BY <1>1, <1>3, EnvelopeKinds
<1>5. /\ q \in Request /\ q.kind = "RECV" /\ q.msg = k.msg /\ q.peer = s /\ q.proto = k.proto
      /\ q.sender_req_id = k.sender_req_id /\ ~ q.user /\ q.cc = 1 /\ q.ref = 2
      /\ ~ q.cancel_pending /\ ~ q.writing
  <2>1. FreshFor(s, k, WithEnvelope(NewRecv, k))
    BY <1>2, NewEnvelope
  <2>2. FreshFor(s, k, q)
    BY ONLY <1>q, <2>1
  <2> QED  BY <2>2 DEF FreshFor
<1>6. HeldData(q) /\ q.cc \in {0, 1} /\ q.ref = 1 + Bit(q.cc > 0)
  BY <1>4, <1>5 DEF HeldData, Bit
<1>7. /\ NetOK' /\ NetOrder' /\ Exchange(s, d, {k}, {})
      /\ \A x \in Packets(s, d) : x # k => NetBefore(k, x)
  <2>1. NetOK /\ NetOrder
    BY DEF PtParts, NetInv
  <2> QED  BY <1>k, <1>1, <1>3, <2>1, TakePacket
<1>8. ArriveStep(s, d, g, q, k)
  BY <1>g, <1>1, <1>2, <1>5, <1>6, <1>7 DEF ArriveStep
<1> QED  BY <1>8, ArriveKeeps

\* The data of a long message comes.
LEMMA RndvSendKeeps ==
    ASSUME PtParts, NEW s \in Proc, NEW d \in Proc, NEW whole \in BOOLEAN, RndvSend(s, d, whole)
    PROVE  PtParts'
<1>k. PICK k : k = Head(net[s][d])
  OBVIOUS
<1>g. PICK g : g = k.receiver_req_id
  OBVIOUS
<1>m. PICK m : m = k.msg
  OBVIOUS
<1>r. PICK r : r = request[d][g]
  OBVIOUS
<1>q. PICK q : q = IF whole THEN Completed(r) ELSE r
  OBVIOUS
<1>1. /\ net[s][d] # <<>> /\ k.type = "RNDV_SEND" /\ reading[d][s] = None
      /\ Consume(s, d) /\ fate' = fate /\ posted' = posted /\ unexpected' = unexpected
      /\ sent' = sent /\ asked' = asked /\ calls' = calls
      /\ Put(d, g, q) /\ (IF whole THEN reading' = reading ELSE ReadLater(s, d, g))
  BY <1>k, <1>g, <1>r, <1>q DEF RndvSend, Arrived
<1>2. /\ TypeInv /\ FreeInv /\ RefInv /\ QueueOrder /\ PostedOrder /\ ReadingInv
      /\ NetOK /\ NetOrder /\ OnePlace /\ CancelOnce
  BY DEF PtParts, RequestInv, ReceiverInv, NetInv
<1>3. k \in Packets(s, d)
  BY <1>k, <1>1, <1>2, HeadPacket
<1>4. /\ s # d /\ Receiving(d, g, s, m) /\ m \in Message /\ m[1] = s /\ fate[m] = "matched"
  <2>1. PacketOK(s, d, k)
    BY <1>3 DEF PtParts, NetInv, PacketInv
  <2> QED  BY <1>g, <1>m, <1>1, <2>1 DEF PacketOK, DataOK, EnvelopeTypes, AnswerTypes
<1>5. /\ g \in Handle /\ r \in Request /\ r.kind = "RECV" /\ r.proto = "rndv" /\ r.cc = 1
      /\ r.peer = s /\ r.msg = m /\ ~ Queued(d, g) /\ ~ Listed(d, g)
  BY <1>r, <1>2, <1>4 DEF Receiving, TypeInv
<1>6. r.ref = Bit(r.user) + 1 /\ ~ r.cancel_pending /\ ~ r.writing /\ r.user \in BOOLEAN
  <2>1. RefOK(d, g)
    BY <1>2, <1>5 DEF RefInv
  <2> QED  BY <1>r, <1>5, <2>1 DEF RefOK, Bit, Request
<1>7. /\ q \in Request /\ q.kind = "RECV" /\ q.msg = m /\ q.peer = s
      /\ q.cc = (IF whole THEN 0 ELSE 1) /\ q.user = r.user
      /\ q.ref = Bit(r.user) + Bit(~ whole) /\ ~ q.cancel_pending /\ ~ q.writing
  <2>1. CASE whole
    <3>1. q = Completed(r)
      BY <1>q, <2>1
    <3>2. /\ q \in Request /\ SameIdentity(r, q) /\ SameFlags(r, q)
          /\ q.user = r.user /\ q.cc = r.cc - 1
          /\ q.ref = IF r.cc = 1 THEN r.ref - 1 ELSE r.ref
      BY <1>5, <3>1, CompletedFacts
    <3>3. q.ref = Bit(r.user) + Bit(~ whole)
      BY <1>5, <1>6, <2>1, <3>2 DEF Bit
    <3> QED  BY <1>5, <1>6, <2>1, <3>2, <3>3 DEF SameIdentity, SameFlags
  <2>2. CASE ~ whole
    <3>1. q = r
      BY <1>q, <2>2
    <3>2. q.ref = Bit(r.user) + Bit(~ whole)
      BY <1>6, <2>2, <3>1 DEF Bit
    <3> QED  BY <1>5, <1>6, <2>2, <3>1, <3>2
  <2> QED  BY <2>1, <2>2
<1>8. ~ whole => q.ref # 0
  BY <1>6, <1>7 DEF Bit
<1>9. /\ request' \in [Proc -> [Handle -> Request]]
      /\ request'[d][g] = IF q.ref = 0 THEN Unused ELSE q
      /\ OnlyRequest(d, g) /\ avail' \in [Proc -> Seq(Handle)] /\ FreeInv'
  <2>1. request[d][g].kind # "none" /\ q.kind # "none"
    BY <1>r, <1>5, <1>7
  <2> QED  BY <1>1, <1>2, <1>5, <1>7, <2>1, PutFacts
<1>10. request'[d][g].kind \in {"none", "RECV"} /\ (request'[d][g].msg \in Message => request'[d][g].msg = m)
       /\ (~ whole => request'[d][g] = r)
  <2>1. ~ whole => q = r
    BY <1>q
  <2> QED  BY <1>7, <1>8, <1>9, <2>1, UnusedFacts, MessageFacts
<1>11. /\ \A o \in Proc : Messages(o)' = Messages(o) /\ Receives(o)' = Receives(o)
       /\ ~ Queued(d, g)' /\ ~ Listed(d, g)' /\ PostedOrder'
  <2>1. \A o \in Proc : Messages(o)' = Messages(o) /\ Receives(o)' = Receives(o)
    BY <1>1 DEF Messages, Receives
  <2>2. PostedOrder'
    BY <1>1, <1>2 DEF PostedOrder
  <2> QED  BY <1>5, <2>1, <2>2 DEF Queued, Listed
<1>12. QueueOrder'
  <2>1. ASSUME NEW o \in Proc, NEW x \in Messages(o) PROVE SameMessage(o, x)
    <3>1. x.rreq \in Handle
      BY QueuedFacts
    <3>2. o # d \/ x.rreq # g
      BY <1>5, <2>1 DEF Queued
    <3> QED  BY <1>9, <3>1, <3>2 DEF SameMessage, OnlyRequest
  <2> QED  BY <1>1, <1>2, <2>1, MessagesSame
<1>13. RefOK(d, g)'
  <2>1. CASE q.ref = 0
    <3>1. request'[d][g] = Unused
      BY <1>9, <2>1
    <3> QED  BY <1>11, <3>1, UnusedFacts DEF RefOK, Bit
  <2>2. CASE q.ref # 0
    <3>1. request'[d][g] = q
      BY <1>9, <2>2
    <3>2. q.ref = Bit(q.user) + Bit(Queued(d, g)') + Bit(q.cc > 0)
      BY <1>7, <1>11 DEF Bit
    <3> QED  BY <1>7, <2>2, <3>1, <3>2 DEF RefOK
  <2> QED  BY <2>1, <2>2
<1>14. /\ reading' \in [Proc -> [Proc -> Handle \union {None}]]
       /\ reading'[d][s] = (IF whole THEN None ELSE g)
       /\ \A o, t \in Proc : o # d \/ t # s => reading'[o][t] = reading[o][t]
  <2>1. CASE whole
    BY <1>1, <1>2, <2>1 DEF TypeInv
  <2>2. CASE ~ whole
    <3>1. reading' = [reading EXCEPT ![d][s] = g] /\ reading \in [Proc -> [Proc -> Handle \union {None}]]
      BY <1>1, <1>2, <2>2 DEF TypeInv, ReadLater
    <3>2. \A o, t \in Proc : reading'[o][t] = IF o = d /\ t = s THEN g ELSE reading[o][t]
      BY <3>1
    <3>3. reading' \in [Proc -> [Proc -> Handle \union {None}]]
      BY <1>5, <3>1
    <3> QED  BY <2>2, <3>2, <3>3
  <2> QED  BY <2>1, <2>2
<1>15. /\ NetOK' /\ NetOrder' /\ Exchange(s, d, {k}, {})
       /\ \A x \in Packets(s, d) : x # k => NetBefore(k, x)
  BY <1>k, <1>1, <1>2, <1>4, TakePacket
<1>16. TouchStep(s, d, g, {k}, {})
  <2>1. /\ \A a, b \in Proc :
              Packets(a, b)' = IF a = s /\ b = d THEN Packets(a, b) \ {k}
                               ELSE IF a = d /\ b = s THEN Packets(a, b) \union {}
                               ELSE Packets(a, b)
        /\ {k} \subseteq Packets(s, d)
    BY <1>3, <1>15 DEF Exchange
  <2>2. request[d][g].kind # "SEND" /\ request'[d][g].kind # "SEND"
    BY <1>r, <1>5, <1>10
  <2>3. reading'[d][s] \in {reading[d][s], g, None}
    BY <1>14
  <2> QED  BY <1>1, <1>9, <1>11, <1>14, <2>1, <2>2, <2>3 DEF TouchStep
<1>17. FateStep(d, g, m, {k}) /\ FoundStep(m)
  BY <1>1 DEF FateStep, FoundStep
<1>18. CancelOnce' /\ \A n \in Message : Cancelling(n)' <=> Cancelling(n)
  <2>1. \A x \in {k} \union {} : x.type \notin {"CANCEL_SEND_REQ", "CANCEL_SEND_RESP"}
    BY <1>1
  <2> QED  BY <1>2, <1>15, <2>1, CancelsSame
<1>19. AnsweredStep(d, g, {})
  BY <1>10, <1>18 DEF AnsweredStep
<1>20. WaitingStep(s, d, g, {k})
  <2>1. k.type \notin EnvelopeTypes
    BY <1>1 DEF EnvelopeTypes
  <2> QED  BY <1>5, <1>11, <1>15, <2>1 DEF WaitingStep, Queued
<1>21. Place(d, m, "data", k) /\ ~ Place(d, m, "data", k)'
  BY <1>m, <1>1, <1>3, <1>4, <1>15 DEF Place, Exchange
<1>22. StillReceives(d, g)
  <2>1. ASSUME NEW t \in Proc, NEW n \in Message, Receiving(d, g, t, n), NEW x,
               NEW w \in {"answered", "data"}, Place(d, n, w, x)'
        PROVE  FALSE
    <3>1. n = m
      BY <1>r, <1>5, <2>1 DEF Receiving
    <3>2. Place(d, m, w, x)
      BY <1>4, <1>15, <2>1, <3>1 DEF Place, Exchange
    <3>3. w = "data" /\ x = k
      BY <1>2, <1>4, <1>21, <3>2 DEF OnePlace
    <3> QED  BY <1>21, <2>1, <3>1, <3>3
  <2> QED  BY <2>1 DEF StillReceives
<1>23. TypeInv'
  BY <1>1, <1>2, <1>9, <1>14 DEF TypeInv
<1>24. ASSUME NEW t \in Proc, reading'[d][t] = g PROVE t = s /\ ~ whole
  <2>1. CASE t = s
    BY <1>5, <1>14, <1>24, <2>1, HandleFacts
  <2>2. CASE t # s
    <3>1. reading[d][t] = g /\ ReadingOK(d, t)
      BY <1>2, <1>14, <1>24, <2>2 DEF ReadingInv
    <3> QED  BY <1>r, <1>5, <2>2, <3>1, HandleFacts DEF ReadingOK
  <2> QED  BY <2>1, <2>2
<1>25. TouchedOK(s, d, g)'
  <2>1. \A x \in Messages(d)' : x.rreq # g
    BY <1>11 DEF Queued
  <2>2. \A x \in Receives(d)' : x.rreq # g
    BY <1>11 DEF Listed
  <2>3. ProbedOK(d, g)'
    BY <1>10 DEF ProbedOK
  <2>4. ASSUME NEW t \in Proc, reading'[d][t] = g PROVE ReadingOK(d, t)'
    BY <1>1, <1>4, <1>5, <1>10, <1>11, <1>24, <2>4 DEF ReadingOK
  <2> QED  BY <2>1, <2>2, <2>3, <2>4 DEF TouchedOK
<1>26. OnePlace'
  <2>2. ASSUME NEW v \in {"queued", "probed", "reading"}, Place(d, m, v, g)' PROVE v = "reading"
    BY <1>10, <1>11, <2>2 DEF Place
  <2>3. MovesTo(d, g, {}, m, "reading", g)
    BY <1>10, <2>2 DEF MovesTo
  <2> QED  BY <1>4, <1>5, <1>16, <1>21, <2>3, TouchMoves
<1>27. \A x \in {} : PacketOK(d, s, x)'
  OBVIOUS
<1> QED  BY <1>5, <1>9, <1>11, <1>12, <1>13, <1>15, <1>16, <1>17, <1>18, <1>19, <1>20, <1>22, <1>23, <1>25,
            <1>26, <1>27, TouchKeeps

-----------------------------------------------------------------------------
\* The message dropped for the request k is the one k is about: an older one
\* with its handle and its envelope is before it in the queue.  A message whose
\* envelope names no request is not protected.
LEMMA DropChosen ==
    ASSUME QueuesOK, PtParts, NEW s \in Proc, NEW d \in Proc, NEW k \in Packets(s, d),
           k.type = "CANCEL_SEND_REQ", \A x \in Packets(s, d) : x # k => NetBefore(k, x),
           NEW i, IsCancelled(i, Cancellable(d, k)), NEW g, g = unexpected[d][i].rreq,
           NEW r, r = request[d][g]
    PROVE  /\ r.peer = s
           /\ \A p \in Proc, h \in Handle : IsSend(p, h, r.msg) => r.msg = k.msg
           /\ r.msg = k.msg \/ NoWaiter(k.msg)
           /\ request[s][k.sender_req_id].proto # "noncontig" => r.msg = k.msg
           /\ (\A x \in Sends : x[2] # "noncontig") => r.msg = k.msg
<1>e. PICK e : e = unexpected[d][i]
  OBVIOUS
<1>h. PICK h : h = k.sender_req_id
  OBVIOUS
<1>m. PICK m : m = k.msg
  OBVIOUS
<1>n. PICK n : n = r.msg
  OBVIOUS
<1>1. /\ i \in DOMAIN unexpected[d] /\ \A j \in Cancellable(d, k) : j <= i
      /\ e \in Messages(d) /\ g = e.rreq
      /\ e.match = k.match /\ r.sender_req_id = h
  BY <1>e, <1>h DEF IsCancelled, Cancellable, Messages, Entries
<1>2. /\ CancelReqOK(s, d, k) /\ m \in Message /\ m[1] = s
  BY <1>m, CancelReqFacts
<1>3. /\ IsSend(s, h, m) /\ h \in Handle /\ request[s][h].peer = d
      /\ k.match = Match(s, request[s][h].tag) /\ fate[m] # "cancelled"
  BY <1>h, <1>m, <1>2 DEF CancelReqOK, IsSend
<1>4. /\ request[s][h].kind = "SEND" /\ request[s][h].msg = m /\ fate[m] # "unsent"
      /\ request[s][h].tag \in Tag /\ \A j \in Handle : IsSend(s, j, m) => j = h
  BY <1>3, SendFacts
<1>5. /\ n \in Message /\ n[1] = r.peer /\ r.proto \in Kind
      /\ Link(r.peer, d, n, r.proto, r.sender_req_id)
      /\ e.match = Match(r.peer, e.match.tag)
  BY <1>n, <1>1, QueuedFacts
<1>6. r.peer = s
  BY <1>1, <1>3, <1>5 DEF Match
<1>7. ASSUME NEW p \in Proc, NEW j \in Handle, IsSend(p, j, n) PROVE n = m
  <2>1. p = s
    BY <1>5, <1>6, <1>7, SendFacts
  <2>2. j = h
    BY <1>1, <1>3, <1>5, <1>6, <1>7, <2>1, HandleFacts, Zenon DEF Link
  <2> QED  BY <1>4, <1>7, <2>1, <2>2 DEF IsSend
<1>8. ASSUME request[s][h].proto # "noncontig", n # m PROVE FALSE
  <2>1. n[2] < m[2]
    <3>1. n[2] <= m[2]
      BY <1>1, <1>3, <1>4, <1>5, <1>6, Zenon DEF Link
    <3>2. n[2] # m[2]
      BY <1>2, <1>5, <1>6, <1>8, MessageFacts
    <3>3. n[2] \in Int /\ m[2] \in Int
      BY <1>2, <1>5, MessageFacts
    <3> QED  BY <3>1, <3>2, <3>3
  <2>2. n[2] \in Int /\ m[2] \in Int
    BY <1>2, <1>5, MessageFacts
  <2>3. fate[m] # "matched"
    <3>1. SendFirst(s, d, request[s][h].tag, m)
      BY <1>2, <1>3, <1>4 DEF PtParts, SenderInv, FirstInv
    <3>2. e.match = Match(s, request[s][h].tag) /\ request[d][e.rreq].msg = n
      BY <1>n, <1>1, <1>3
    <3>3. ASSUME fate[m] = "matched" PROVE n[2] > m[2]
      BY <1>1, <3>1, <3>2, <3>3 DEF SendFirst
    <3> QED  BY <2>1, <2>2, <3>3
  <2>4. fate[m] = "sent"
    <3>1. fate[m] \in Fates
      BY <1>2 DEF PtParts, RequestInv, TypeInv
    <3> QED  BY <1>3, <1>4, <2>3, <3>1 DEF Fates
  <2>5. \/ \E x \in Packets(s, d) : x.type \in EnvelopeTypes /\ x.msg = m
        \/ \E y \in Messages(d) : request[d][y.rreq].msg = m
    <3>1. SendKept(s, d, m)
      BY <1>2, <1>3 DEF PtParts, SenderInv, KeptInv
    <3> QED  BY <2>4, <3>1 DEF SendKept
  <2>6. ASSUME NEW x \in Packets(s, d), x.type \in EnvelopeTypes, x.msg = m PROVE FALSE
    <3>1. x # k
      BY <2>6 DEF EnvelopeTypes
    <3> QED  BY <1>m, <2>6, <3>1 DEF NetBefore
  <2>7. ASSUME NEW y \in Messages(d), request[d][y.rreq].msg = m PROVE FALSE
    <3>1. PICK j \in DOMAIN unexpected[d] : unexpected[d][j] = y
      BY DEF Messages, Entries
    <3>2. j \in Cancellable(d, k)
      BY <1>h, <1>m, <1>8, <2>7, <3>1, QueuedIsCancellable
    <3>3. j <= i /\ y.match = k.match
      BY <1>1, <3>1, <3>2 DEF Cancellable
    <3>4. y # e
      BY <1>n, <1>1, <1>8, <2>7
    <3>5. QueueBefore(d, y, e)
      BY <1>e, <1>1, <3>1, <3>3, <3>4, EntriesDiffer DEF PtParts, ReceiverInv
    <3>6. m[2] < n[2]
      BY <1>n, <1>1, <2>7, <3>3, <3>5 DEF QueueBefore
    <3> QED  BY <2>1, <2>2, <3>6
  <2> QED  BY <2>5, <2>6, <2>7
<1>9. n = m \/ NoWaiter(m)
  <2>1. ASSUME request[s][h].proto = "noncontig", NEW p \in Proc, NEW j \in Handle, IsSend(p, j, m)
        PROVE  request[p][j].proto \notin Waits
    <3>1. p = s /\ j = h
      BY <1>2, <1>4, <2>1, SendFacts
    <3> QED  BY <2>1, <3>1 DEF Waits
  <2> QED  BY <1>8, <2>1 DEF NoWaiter
<1>10. ASSUME \A x \in Sends : x[2] # "noncontig" PROVE n = m
  <2>1. SendShape(s, h)
    BY <1>3, <1>4 DEF PtParts, SenderInv, ShapeInv, IsSendRequest
  <2>2. request[s][h].proto # "noncontig"
    BY <1>10, <2>1 DEF SendShape
  <2> QED  BY <1>8, <2>2
<1> QED  BY <1>h, <1>m, <1>n, <1>6, <1>7, <1>8, <1>9, <1>10

\* The receiver has the message that is to be cancelled, and drops it.
LEMMA CancelSendReqFoundKeeps ==
    ASSUME IInv, PtParts, NEW s \in Proc, NEW d \in Proc, CancelSendReqFound(s, d)
    PROVE  PtParts'
<1>k. PICK k : k = Head(net[s][d])
  OBVIOUS
<1>l. PICK l : l = CancelRespPkt(k, TRUE)
  BY Zenon
<1>i. PICK i \in DOMAIN unexpected[d] :
            /\ IsCancelled(i, Cancellable(d, k))
            /\ LET h == unexpected[d][i].rreq IN
               /\ Put(d, h, Released(request[d][h]))
               /\ fate' = [fate EXCEPT ![request[d][h].msg] = "cancelled"]
            /\ unexpected' = [unexpected EXCEPT ![d] = RemoveAt(@, i)]
  BY <1>k, Zenon DEF CancelSendReqFound
<1>e. PICK e : e = unexpected[d][i]
  OBVIOUS
<1>g. PICK g : g = e.rreq
  OBVIOUS
<1>r. PICK r : r = request[d][g]
  OBVIOUS
<1>q. PICK q : q = Released(r)
  OBVIOUS
<1>m. PICK m : m = k.msg
  OBVIOUS
<1>n. PICK n : n = r.msg
  OBVIOUS
<1>1. /\ net[s][d] # <<>> /\ k.type = "CANCEL_SEND_REQ" /\ Reply(s, d, l)
      /\ IsCancelled(i, Cancellable(d, k)) /\ Put(d, g, q)
      /\ fate' = [fate EXCEPT ![r.msg] = "cancelled"]
      /\ unexpected' = [unexpected EXCEPT ![d] = RemoveAt(@, i)]
      /\ posted' = posted /\ reading' = reading
      /\ sent' = sent /\ asked' = asked /\ calls' = calls
  BY <1>k, <1>l, <1>i, <1>e, <1>g, <1>r, <1>q, Zenon DEF CancelSendReqFound, Arrived
<1>2. /\ e \in Messages(d) /\ QueuesOK /\ g = unexpected[d][i].rreq /\ r = request[d][g]
  BY <1>e, <1>g, <1>r DEF Messages, Entries, IInv
<1>3. /\ l.type = "CANCEL_SEND_RESP" /\ l.msg = k.msg /\ l.ack = TRUE /\ l.sender_req_id = k.sender_req_id
      /\ NetOK' /\ NetOrder' /\ k \in Packets(s, d)
      /\ \A x, y \in Proc :
                 Packets(x, y)' = IF x = s /\ y = d THEN Packets(x, y) \ {k}
                                  ELSE IF x = d /\ y = s THEN Packets(x, y) \union {l}
                                  ELSE Packets(x, y)
      /\ \A x \in Packets(s, d) : x # k => NetBefore(k, x)
      /\ CancelOnce' /\ \A o \in Message : Cancelling(o)' <=> Cancelling(o)
  <2>1. k \in Packets(s, d)
    <3>1. IsQueue(net[s][d])
      BY DEF PtParts, NetInv, NetOK
    <3> QED  BY <1>k, <1>1, <3>1, TailQueue DEF Packets
  <2>2. l.type = "CANCEL_SEND_RESP" /\ l.msg = k.msg /\ l.ack = TRUE /\ l.sender_req_id = k.sender_req_id
    BY <1>l DEF CancelRespPkt
  <2>3. s # d /\ \A x \in Packets(d, s) : NetBefore(x, l)
    BY <1>1, <2>1, <2>2, CancelReplyNew, CancelReqFacts
  <2>4. /\ NetOK' /\ NetOrder'
        /\ \A x, y \in Proc :
                 Packets(x, y)' = IF x = s /\ y = d THEN Packets(x, y) \ {k}
                                  ELSE IF x = d /\ y = s THEN Packets(x, y) \union {l}
                                  ELSE Packets(x, y)
        /\ \A x \in Packets(s, d) : x # k => NetBefore(k, x)
    BY <1>k, <1>1, <2>3, ReplyFacts DEF PtParts, NetInv
  <2>5. CancelOnce' /\ \A o \in Message : Cancelling(o)' <=> Cancelling(o)
    BY <1>1, <2>1, <2>2, <2>4, CancelReplyFacts
  <2> QED  BY <2>1, <2>2, <2>4, <2>5
<1>4. /\ s # d /\ CancelReqOK(s, d, k) /\ m \in Message /\ m[1] = s
      /\ \A o \in Proc : \A x : CancelPacket(o, m, x) => o = d /\ x = k
  <2>1. /\ s # d /\ CancelReqOK(s, d, k) /\ k.msg \in Message /\ k.msg[1] = s
        /\ \A o \in Proc : \A x : CancelPacket(o, k.msg, x) => o = d /\ x = k
    BY <1>1, <1>3, CancelReqFacts, ZenonT(30)
  <2> QED  BY <1>m, <2>1
<1>5. /\ r.peer = s
      /\ \A p \in Proc, h \in Handle : IsSend(p, h, n) => n = m
      /\ n = m \/ NoWaiter(m)
      /\ request[s][k.sender_req_id].proto # "noncontig" => n = m
      /\ (\A x \in Sends : x[2] # "noncontig") => n = m
  BY <1>m, <1>n, <1>1, <1>2, <1>3, DropChosen
<1>6. /\ g \in Handle /\ r \in Request /\ r.kind = "RECV" /\ ~ r.user
      /\ ~ r.cancel_pending /\ ~ r.writing /\ r.cc \in {0, 1} /\ r.ref = 1 + Bit(r.cc > 0)
      /\ n \in Message /\ fate[n] = "sent"
  <2>1. /\ g \in Handle /\ r \in Request /\ r.kind = "RECV" /\ ~ r.user
        /\ ~ r.cancel_pending /\ ~ r.writing /\ r.cc \in {0, 1} /\ r.ref = 1 + Bit(r.cc > 0)
        /\ r.msg \in Message /\ fate[r.msg] = "sent"
    <3>1. e \in Messages(d)
      BY <1>2
    <3>2. /\ g \in Handle /\ r \in Request /\ r.kind = "RECV" /\ ~ r.user
          /\ ~ r.cancel_pending /\ ~ r.writing /\ r.cc \in {0, 1} /\ r.ref = 1 + Bit(r.cc > 0)
      BY <1>g, <1>r, <3>1, QueuedFacts
    <3>3. r.msg \in Message /\ fate[r.msg] = "sent"
      BY <1>g, <1>r, <3>1, QueuedFacts
    <3> QED  BY <3>2, <3>3
  <2> QED  BY <1>n, <2>1
<1>7. /\ q \in Request /\ SameIdentity(r, q) /\ SameFlags(r, q)
      /\ q.user = r.user /\ q.cc = r.cc /\ q.ref = r.ref - 1
  BY <1>q, <1>6, ReleasedFacts
<1>8. /\ q.kind = "RECV" /\ q.msg = r.msg /\ q.peer = r.peer /\ q.proto = r.proto
      /\ q.sender_req_id = r.sender_req_id /\ q.cc = r.cc
      /\ ~ q.cancel_pending /\ ~ q.writing /\ q.ref = Bit(q.user) + Bit(q.cc > 0)
  <2>1. q.ref = Bit(q.user) + Bit(q.cc > 0)
    BY <1>6, <1>7 DEF Bit
  <2> QED  BY <1>6, <1>7, <2>1 DEF SameIdentity, SameFlags
<1>9. TakenStep(d, i, g, r, q, "cancelled", {k}, {l}, l)
  <2>1. \A a, b \in Proc :
            Packets(a, b)' = IF a = r.peer /\ b = d THEN Packets(a, b) \ {k}
                             ELSE IF a = d /\ b = r.peer THEN Packets(a, b) \union {l}
                             ELSE Packets(a, b)
    BY <1>3, <1>5
  <2>2. k.type \notin EnvelopeTypes /\ {k} \subseteq Packets(r.peer, d)
        /\ \A x \in Packets(r.peer, d) : x \notin {k} => NetBefore(k, x)
    BY <1>1, <1>3, <1>5 DEF EnvelopeTypes
  <2>3. l.msg = r.msg \/ (l.type = "CANCEL_SEND_RESP" /\ NoWaiter(l.msg))
    BY <1>m, <1>n, <1>3, <1>5
  <2>4. /\ {l} \subseteq {l} /\ l.type \in AnswerTypes \union {"CANCEL_SEND_RESP"}
        /\ q.kind \in {"RECV", "MPROBE"} /\ q.kind # "MPROBE"
    BY <1>3, <1>8
  <2>5. \A x \in {k} : /\ x.type \notin EnvelopeTypes
                       /\ \A y \in Packets(r.peer, d) : y \notin {k} => NetBefore(x, y)
    BY <2>2
  <2>6. i \in DOMAIN unexpected[d] /\ q \in Request /\ calls' \in {calls, calls + 1}
        /\ "cancelled" \in {"matched", "cancelled"}
    BY <1>1, <1>7
  <2> QED  BY <1>1, <1>2, <1>8, <2>1, <2>2, <2>3, <2>4, <2>5, <2>6, Zenon DEF TakenStep
<1>10. fate'[n] = "cancelled"
  BY <1>n, <1>1, <1>6 DEF PtParts, RequestInv, TypeInv
<1>11. FoundStep(n)
  <2>1. ASSUME NEW p \in Proc, NEW h \in Handle, IsSend(p, h, n) PROVE request[p][h].cancel_pending
    <3>1. n = m /\ IsSend(p, h, m)
      BY <1>5, <2>1
    <3>2. p = s /\ h = k.sender_req_id
      BY <1>m, <1>4, <3>1, SendFacts DEF CancelReqOK
    <3> QED  BY <1>4, <3>2 DEF CancelReqOK
  <2>2. (\A x \in Sends : x[2] # "noncontig") => n \in asked
    BY <1>m, <1>4, <1>5 DEF CancelReqOK
  <2>3. ASSUME NEW a \in Proc, NEW b \in Proc, NEW x \in Packets(a, b)',
               x.type = "CANCEL_SEND_REQ", x.msg = n
        PROVE  FALSE
    <3>1. (x \in Packets(a, b) /\ x # k) \/ a # s \/ b # d
      BY <1>3, <2>3
    <3>2. x \in Packets(a, b)
      BY <1>3, <2>3
    <3>3. CancelReqOK(a, b, x) /\ n[1] = a
      BY <2>3, <3>2, CancelReqFacts
    <3>4. n = m
      BY <1>5, <2>3, <3>3 DEF CancelReqOK, IsSend
    <3>5. CancelPacket(b, m, x)
      BY <2>3, <3>2, <3>3, <3>4 DEF CancelPacket
    <3> QED  BY <1>4, <3>1, <3>3, <3>4, <3>5
  <2> QED  BY <1>10, <2>1, <2>2, <2>3 DEF FoundStep
<1>12. PacketOK(d, s, l)'
  <2>h. PICK h : h = k.sender_req_id
    OBVIOUS
  <2>1. /\ IsSend(s, h, m) /\ request[s][h].peer = d /\ request[s][h].cancel_pending
        /\ fate[m] # "cancelled" /\ h \in Handle
    BY <1>m, <1>4, <2>h DEF CancelReqOK, IsSend
  <2>2. request'[s][h] = request[s][h]
    <3>1. OnlyRequest(d, g)
      BY <1>2, <1>9, TakenFacts
    <3> QED  BY <1>4, <2>1, <3>1 DEF OnlyRequest
  <2>3. request[s][h].proto # "noncontig" => n = m
    BY <1>5, <2>h
  <2>4. l.msg = m /\ l.sender_req_id = h /\ l.ack = TRUE /\ l.type = "CANCEL_SEND_RESP"
    BY <1>m, <1>3, <2>h
  <2>5. request[s][h].proto # "noncontig" => fate'[m] = "cancelled"
    BY <1>10, <2>3
  <2>6. CancelRespOK(d, s, l)'
    <3>1. IsSend(s, h, m)'
      BY <2>1, <2>2 DEF IsSend
    <3> QED  BY <2>1, <2>2, <2>4, <2>5, <3>1 DEF CancelRespOK
  <2> QED  BY <1>4, <2>4, <2>6 DEF PacketOK
<1>13. \A x \in {l} : PacketOK(d, r.peer, x)'
  BY <1>5, <1>12
<1> QED  BY <1>n, <1>2, <1>3, <1>9, <1>11, <1>13, TakenKeeps

-----------------------------------------------------------------------------
\* A step that changes nothing.
LEMMA StutterKeeps ==
    ASSUME PtParts, UNCHANGED vars
    PROVE  PtParts'
<1>1. /\ request' = request /\ avail' = avail /\ posted' = posted /\ unexpected' = unexpected
      /\ net' = net /\ reading' = reading /\ sent' = sent /\ calls' = calls
      /\ asked' = asked /\ fate' = fate
  BY DEF vars, pool
<1>2. ReceiverInv'
  <2>1. ReceiverInv
    BY DEF PtParts
  <2>2. QueueOrder' /\ PostedOrder'
    BY <1>1, <2>1 DEF ReceiverInv, QueueOrder, PostedOrder, QueueBefore
  <2>3. QueuedInv'
    <3>1. ASSUME NEW d \in Proc, NEW e \in Messages(d)' PROVE QueuedOK(d, e)'
      <4>1. QueuedOK(d, e)
        BY <1>1, <2>1, <3>1 DEF ReceiverInv, QueuedInv, Messages
      <4>2. Holds(d, e.rreq) => Holds(d, e.rreq)'
        BY <1>1, Zenon DEF Holds, Link, IsSend, Listed, Receives
      <4>3. \A s, m, tag : Tagged(s, m, tag) => Tagged(s, m, tag)'
        BY <1>1 DEF Tagged, IsSend
      <4> QED  BY <1>1, <4>1, <4>2, <4>3 DEF QueuedOK
    <3> QED  BY <3>1 DEF QueuedInv
  <2>4. ProbedInv'
    <3>1. ASSUME NEW d, NEW g, Holds(d, g) PROVE Holds(d, g)'
      BY <1>1, <3>1, Zenon DEF Holds, Link, IsSend, Listed, Receives
    <3>2. ASSUME NEW d, NEW g, ProbedOK(d, g) PROVE ProbedOK(d, g)'
      BY <1>1, <3>1, <3>2 DEF ProbedOK
    <3> QED  BY <2>1, <3>2 DEF ReceiverInv, ProbedInv
  <2>5. ListedInv'
    BY <1>1, <2>1 DEF ReceiverInv, ListedInv, ListedOK, Receives
  <2>6. ReadingInv'
    BY <1>1, <2>1 DEF ReceiverInv, ReadingInv, ReadingOK, Listed, Queued, Messages, Receives
  <2> QED  BY <2>2, <2>3, <2>4, <2>5, <2>6 DEF ReceiverInv
<1>3. \A m : (Cancelling(m)' <=> Cancelling(m)) /\ (Unanswered(m)' <=> Unanswered(m))
  BY <1>1 DEF Cancelling, CancelPacket, Unanswered, Packets
<1>4. SenderInv'
  <2>1. SenderInv
    BY DEF PtParts
  <2>2. ShapeInv'
    BY <1>1, <2>1 DEF SenderInv, ShapeInv, SendShape, IsSend, IsSendRequest
  <2>3. CountInv'
    <3>1. ASSUME NEW p \in Proc, NEW h \in Handle, NEW m \in Message, IsSend(p, h, m)'
          PROVE  SendCount(p, h, m)'
      <4>1. SendCount(p, h, m)
        BY <1>1, <2>1, <3>1 DEF SenderInv, CountInv, IsSend
      <4> QED  BY <1>1, <1>3, <4>1 DEF SendCount, Bit
    <3> QED  BY <3>1 DEF CountInv
  <2>4. CancelInv'
    BY <1>1, <1>3, <2>1 DEF SenderInv, CancelInv, SendCancel, IsSend
  <2>5. KeptInv'
    BY <1>1, <2>1 DEF SenderInv, KeptInv, SendKept, IsSend, Packets, Messages
  <2>6. FirstInv'
    BY <1>1, <2>1 DEF SenderInv, FirstInv, SendFirst, IsSend, Packets, Messages
  <2> QED  BY <2>2, <2>3, <2>4, <2>5, <2>6 DEF SenderInv
<1>5. RequestInv'
  <2>1. RequestInv
    BY DEF PtParts
  <2>2. TypeInv' /\ FreeInv' /\ CallsInv' /\ UnsentInv' /\ AskedInv'
    BY <1>1, <2>1 DEF RequestInv, TypeInv, FreeInv, CallsInv, UnsentInv, AskedInv
  <2>3. RefInv'
    <3>1. ASSUME NEW p \in Proc, NEW h \in Handle PROVE RefOK(p, h)'
      <4>1. RefOK(p, h)
        BY <2>1 DEF RequestInv, RefInv
      <4>2. Queued(p, h)' <=> Queued(p, h)
        BY <1>1 DEF Queued, Messages
      <4> QED  BY <1>1, <4>1, <4>2 DEF RefOK, Bit
    <3> QED  BY <3>1 DEF RefInv
  <2>4. LaterInv'
    BY <1>1, <2>1 DEF RequestInv, LaterInv, Messages, Packets
  <2> QED  BY <2>2, <2>3, <2>4 DEF RequestInv
<1>6. NetInv'
  <2>1. NetInv
    BY DEF PtParts
  <2>2. NetOK' /\ NetOrder'
    BY <1>1, <2>1 DEF NetInv, NetOK, NetOrder
  <2>3. PacketInv'
    <3>1. ASSUME NEW s \in Proc, NEW d \in Proc, NEW k \in Packets(s, d)' PROVE PacketOK(s, d, k)'
      <4>1. PacketOK(s, d, k)
        BY <1>1, <2>1, <3>1 DEF NetInv, PacketInv, Packets
      <4>2. EnvelopeOK(s, d, k) => EnvelopeOK(s, d, k)'
        BY <1>1 DEF EnvelopeOK, Link, IsSend, Tagged
      <4>3. AnswerOK(s, d, k) => AnswerOK(s, d, k)'
        BY <1>1 DEF AnswerOK, Receiving, IsSend, Queued, Listed, Messages, Receives
      <4>4. DataOK(s, d, k) => DataOK(s, d, k)'
        BY <1>1 DEF DataOK, Receiving, Queued, Listed, Messages, Receives
      <4>5. CancelReqOK(s, d, k) => CancelReqOK(s, d, k)'
        BY <1>1 DEF CancelReqOK, IsSend
      <4>6. CancelRespOK(s, d, k) => CancelRespOK(s, d, k)'
        BY <1>1 DEF CancelRespOK, IsSend
      <4> QED  BY <4>1, <4>2, <4>3, <4>4, <4>5, <4>6 DEF PacketOK
    <3> QED  BY <3>1 DEF PacketInv
  <2>4. \A d, m, w, x : Place(d, m, w, x)' <=> Place(d, m, w, x)
    BY <1>1 DEF Place, Packets, Queued, Messages
  <2>5. OnePlace'
    BY <2>1, <2>4 DEF NetInv, OnePlace
  <2>6. \A d, m, k : CancelPacket(d, m, k)' <=> CancelPacket(d, m, k)
    BY <1>1 DEF CancelPacket, Packets
  <2>7. CancelOnce'
    BY <2>1, <2>6 DEF NetInv, CancelOnce
  <2> QED  BY <2>2, <2>3, <2>5, <2>7 DEF NetInv
<1> QED  BY <1>2, <1>4, <1>5, <1>6 DEF PtParts

\* The user gives up its reference to a request.
LEMMA ReleaseKeeps ==
    ASSUME PtParts, NEW p \in Proc, NEW h \in Handle, Wait(p, h) \/ RequestFree(p, h)
    PROVE  PtParts'
<1>1. request[p][h].user /\ request[p][h].kind # "MPROBE"
  BY DEF Wait, RequestFree
<1>2. RefOK(p, h) /\ request[p][h].kind \in {"none", "SEND", "RECV", "MPROBE"}
  BY DEF PtParts, RequestInv, RefInv, TypeInv, Request
<1>3. request[p][h].kind # "none"
  BY <1>1, <1>2 DEF RefOK, Bit
<1>4. request[p][h].kind = "SEND" \/ request[p][h].kind = "RECV"
  BY <1>1, <1>2, <1>3
<1> QED  BY <1>4, ReleaseSend, ReleaseRecv

\* Every step keeps the invariant: one step per action.
LEMMA NextKeeps ==
    ASSUME IInv, PtParts, [Next]_vars
    PROVE  PtParts'
<1>1. ASSUME NEW p \in Proc, User(p) PROVE PtParts'
  <2>1. ASSUME NEW d \in Proc, NEW send \in Sends, Isend(p, d, send[1], send[2]) PROVE PtParts'
    BY <2>1, IsendKeeps
  <2>2. ASSUME NEW want \in Wanted, IrecvFound(p, want) PROVE PtParts'
    BY <2>2, IrecvFoundKeeps
  <2>3. ASSUME NEW want \in Wanted, IrecvPosted(p, want) PROVE PtParts'
    BY <2>3, IrecvPostedKeeps
  <2>4. ASSUME NEW want \in Wanted, Improbe(p, want) PROVE PtParts'
    BY <2>4, ImprobeKeeps
  <2>5. ASSUME NEW h \in Handle, CancelSend(p, h) PROVE PtParts'
    BY <2>5, CancelSendKeeps
  <2>6. ASSUME NEW h \in Handle, CancelRecv(p, h) PROVE PtParts'
    BY <2>6, CancelRecvKeeps
  <2>7. ASSUME NEW h \in Handle, Wait(p, h) \/ RequestFree(p, h) PROVE PtParts'
    BY <2>7, ReleaseKeeps
  <2> QED  BY <1>1, <2>1, <2>2, <2>3, <2>4, <2>5, <2>6, <2>7 DEF User
<1>2. ASSUME NEW s \in Proc, NEW d \in Proc, Progress(s, d) PROVE PtParts'
  <2>1. CASE EagerSyncAck(s, d)
    BY <2>1, EagerSyncAckKeeps
  <2>2. CASE RndvClrToSend(s, d)
    BY <2>2, RndvClrToSendKeeps
  <2>3. CASE DataArrives(s, d)
    BY <2>3, DataArrivesKeeps
  <2>4. ASSUME NEW whole \in BOOLEAN, EagerSendFound(s, d, whole) PROVE PtParts'
    BY <2>4, EagerSendFoundKeeps
  <2>5. ASSUME NEW whole \in BOOLEAN, EagerSendUnexpected(s, d, whole) PROVE PtParts'
    BY <2>5, EagerSendUnexpectedKeeps
  <2>6. ASSUME NEW whole \in BOOLEAN, RndvSend(s, d, whole) PROVE PtParts'
    BY <2>6, RndvSendKeeps
  <2>7. CASE RndvReqToSendFound(s, d)
    BY <2>7, RndvReqToSendFoundKeeps
  <2>8. CASE RndvReqToSendUnexpected(s, d)
    BY <2>8, RndvReqToSendUnexpectedKeeps
  <2>9. CASE CancelSendReqFound(s, d)
    BY <2>9, CancelSendReqFoundKeeps
  <2>10. CASE CancelSendReqNotFound(s, d)
    BY <2>10, CancelSendReqNotFoundKeeps
  <2>11. CASE CancelSendResp(s, d)
    BY <2>11, CancelSendRespKeeps
  <2> QED  BY <1>2, <2>1, <2>2, <2>3, <2>4, <2>5, <2>6, <2>7, <2>8, <2>9, <2>10, <2>11 DEF Progress
<1>3. ASSUME NEW p \in Proc, ProgressEngine(p) PROVE PtParts'
  BY <1>2, <1>3, WriteDoneKeeps DEF ProgressEngine
<1>4. ASSUME NEW p \in Proc, ReceiveProbed(p) PROVE PtParts'
  BY <1>4, ImrecvKeeps DEF ReceiveProbed
<1>5. CASE UNCHANGED vars
  BY <1>5, StutterKeeps
<1> QED  BY <1>1, <1>3, <1>4, <1>5 DEF Next

-----------------------------------------------------------------------------
\* Nothing is sent, queued or in use initially.
LEMMA InitialParts == Init => PtParts
<1> SUFFICES ASSUME Init PROVE PtParts
  OBVIOUS
<1>1. /\ request = [p \in Proc |-> [h \in Handle |-> Unused]]
      /\ avail = [p \in Proc |-> [i \in Handle |-> i]]
      /\ posted = [p \in Proc |-> <<>>]
      /\ unexpected = [p \in Proc |-> <<>>]
      /\ net = [s \in Proc |-> [d \in Proc |-> <<>>]]
      /\ reading = [d \in Proc |-> [s \in Proc |-> None]]
      /\ sent = [p \in Proc |-> 0] /\ calls = 0 /\ asked = {}
      /\ fate = [m \in Message |-> "unsent"]
  BY DEF Init
<1>2. IsQueue(<<>>) /\ Entries(<<>>) = {}
  <2>1. Entries(<<>>) = {}
    BY DEF Entries
  <2> QED  BY <2>1 DEF IsQueue
<1>3. /\ \A s, d \in Proc : Packets(s, d) = {} /\ IsQueue(net[s][d])
      /\ \A d \in Proc : Messages(d) = {} /\ Receives(d) = {}
  BY <1>1, <1>2 DEF Packets, Messages, Receives
<1>4. \A p \in Proc : \A h : ~ Queued(p, h) /\ ~ Listed(p, h)
  BY <1>3 DEF Queued, Listed
<1>5. \A p \in Proc, h \in Handle : request[p][h] = Unused
  BY <1>1
<1>6. ReceiverInv
  <2>1. QueueOrder /\ PostedOrder
    BY <1>1 DEF QueueOrder, PostedOrder
  <2>2. QueuedInv /\ ListedInv
    BY <1>3 DEF QueuedInv, ListedInv
  <2>3. ProbedInv
    BY <1>5, UnusedFacts DEF ProbedInv, ProbedOK
  <2>4. ReadingInv
    BY <1>1 DEF ReadingInv, ReadingOK
  <2> QED  BY <2>1, <2>2, <2>3, <2>4 DEF ReceiverInv
<1>7. SenderInv
  <2>1. \A p \in Proc, h \in Handle : request[p][h].kind # "SEND"
    BY <1>5, UnusedFacts
  <2> QED  BY <2>1 DEF SenderInv, ShapeInv, CountInv, CancelInv, KeptInv, FirstInv, IsSend, IsSendRequest
<1>8. RequestInv
  <2>1. avail \in [Proc -> Seq(Handle)] /\ \A p \in Proc : DOMAIN avail[p] = Handle
    <3>1. [i \in Handle |-> i] \in Seq(Handle)
      BY BoundAssumption DEF Handle
    <3> QED  BY <1>1, <3>1
  <2>2. TypeInv
    BY <1>1, <2>1, UnusedFacts DEF TypeInv, Fates
  <2>3. RefInv
    BY <1>4, <1>5, UnusedFacts DEF RefInv, RefOK, Bit
  <2>4. FreeInv
    <3>1. \A p \in Proc : \A i \in Handle : avail[p][i] = i
      BY <1>1
    <3>2. \A i, j \in Handle : i < j => i # j
      BY BoundAssumption DEF Handle
    <3> QED  BY <1>5, <2>1, <3>1, <3>2, UnusedFacts DEF FreeInv
  <2>5. LaterInv /\ CallsInv
    BY <1>1, <1>3 DEF LaterInv, CallsInv
  <2>6. UnsentInv /\ AskedInv
    BY <1>1 DEF UnsentInv, AskedInv
  <2> QED  BY <2>2, <2>3, <2>4, <2>5, <2>6 DEF RequestInv
<1>9. NetInv
  <2>1. NetOK
    <3>1. net = [s \in Proc |-> [d \in Proc |-> net[s][d]]]
      BY <1>1
    <3> QED  BY <1>3, <3>1 DEF NetOK
  <2>2. NetOrder
    BY <1>1 DEF NetOrder
  <2>3. PacketInv
    BY <1>3 DEF PacketInv
  <2>4. \A m \in Message, d \in Proc : \A w, x : ~ Place(d, m, w, x)
    <3>1. \A m \in Message : m[1] \in Proc
      BY MessageFacts
    <3> QED  BY <1>1, <1>3, <1>4, <1>5, <3>1, UnusedFacts DEF Place
  <2>5. \A m \in Message, d \in Proc : \A k : ~ CancelPacket(d, m, k)
    <3>1. \A m \in Message : m[1] \in Proc
      BY MessageFacts
    <3> QED  BY <1>3, <3>1 DEF CancelPacket
  <2> QED  BY <2>1, <2>2, <2>3, <2>4, <2>5 DEF NetInv, OnePlace, CancelOnce
<1> QED  BY <1>6, <1>7, <1>8, <1>9 DEF PtParts

-----------------------------------------------------------------------------
\* The request of a send that waits for an answer is not complete.
LEMMA LiveSend ==
    ASSUME PtParts, NEW p \in Proc, NEW h, NEW m, IsSend(p, h, m),
           (request[p][h].proto \in Waits /\ Unanswered(m)) \/ Cancelling(m)
    PROVE  Live(p, h, m)
<1>r. PICK r : r = request[p][h]
  OBVIOUS
<1>1. /\ h \in Handle /\ r.msg = m /\ r.cc \in Int
      /\ (r.proto \in Waits /\ Unanswered(m)) \/ Cancelling(m)
  BY <1>r, SendFacts DEF IsSend
<1>2. r.cc >= Bit(r.writing) + Bit(r.proto \in Waits /\ Unanswered(m)) + Bit(Cancelling(m))
  BY <1>r, SendFacts
<1>3. r.ref = Bit(r.user) + Bit(r.cc > 0)
  BY <1>r, SendFacts
<1>4. r.cc > 0
  <2> DEFINE A == r.proto \in Waits /\ Unanswered(m)
             C == Cancelling(m)
             W == r.writing
  <2>1. r.cc >= Bit(W) + Bit(A) + Bit(C) /\ (A \/ C)
    BY <1>1, <1>2
  <2> HIDE DEF A, C, W
  <2> QED  BY <1>1, <2>1 DEF Bit
<1>5. r.ref > 0
  BY <1>3, <1>4 DEF Bit
<1> QED  BY <1>r, <1>1, <1>4, <1>5 DEF Live

\* A request that is not complete has the reference of the device.
LEMMA LiveRequest ==
    ASSUME PtParts, NEW p \in Proc, NEW h \in Handle, request[p][h].cc = 1
    PROVE  Live(p, h, request[p][h].msg)
<1>r. PICK r : r = request[p][h]
  OBVIOUS
<1>1. r.ref = Bit(r.user) + Bit(Queued(p, h)) + Bit(r.cc > 0)
  BY <1>r DEF PtParts, RequestInv, RefInv, RefOK
<1>2. r.cc = 1
  BY <1>r
<1>3. r.ref > 0
  BY <1>1, <1>2 DEF Bit
<1> QED  BY <1>r, <1>2, <1>3 DEF Live

\* Every packet of the invariant names live requests of its message.
LEMMA PacketsNameLive ==
    ASSUME PtParts, NEW s \in Proc, NEW d \in Proc, NEW k \in Packets(s, d)
    PROVE  SenderLive(s, d, k) /\ ReceiverLive(s, d, k)
<1>1. PacketOK(s, d, k)
  BY DEF PtParts, NetInv, PacketInv
<1>2. CASE k.type \in EnvelopeTypes
  <2>1. EnvelopeOK(s, d, k)
    BY <1>1, <1>2 DEF PacketOK, EnvelopeTypes, AnswerTypes
  <2>2. k.proto \in Kind /\ k.type = EnvelopeType(k.proto) /\ fate[k.msg] = "sent"
    BY <2>1 DEF EnvelopeOK, Link
  <2>3. ASSUME k.proto \in Waits PROVE Live(s, k.sender_req_id, k.msg)
    <3>1. IsSend(s, k.sender_req_id, k.msg)
      BY <2>1, <2>3 DEF EnvelopeOK, Link
    <3>2. request[s][k.sender_req_id].proto = k.proto
      BY <2>1, <3>1 DEF EnvelopeOK, Link, IsSend
    <3>3. Unanswered(k.msg)
      BY <2>2 DEF Unanswered
    <3> QED  BY <2>3, <3>1, <3>2, <3>3, LiveSend
  <2>4. k.type # "EAGER_SEND" => k.proto \in Waits
    BY <2>2 DEF EnvelopeType, Kind, Waits
  <2> QED  BY <1>2, <2>3, <2>4 DEF SenderLive, ReceiverLive, EnvelopeTypes
<1>3. CASE k.type \in AnswerTypes
  <2>1. AnswerOK(s, d, k)
    BY <1>1, <1>3 DEF PacketOK, EnvelopeTypes, AnswerTypes
  <2>2. IsSend(d, k.sender_req_id, k.msg) /\ request[d][k.sender_req_id].proto \in Waits
    BY <2>1 DEF AnswerOK, Waits
  <2>3. Unanswered(k.msg)
    <3>1. k.msg[1] = d
      BY <2>2, SendFacts
    <3> QED  BY <1>3, <3>1 DEF Unanswered
  <2>4. Live(d, k.sender_req_id, k.msg)
    BY <2>2, <2>3, LiveSend
  <2>5. k.type = "RNDV_CLR_TO_SEND" => Live(s, k.receiver_req_id, k.msg)
    BY <2>1, LiveRequest DEF AnswerOK, Receiving
  <2> QED  BY <1>3, <2>4, <2>5 DEF SenderLive, ReceiverLive, AnswerTypes
<1>4. CASE k.type = "RNDV_SEND"
  <2>1. DataOK(s, d, k)
    BY <1>1, <1>4 DEF PacketOK, EnvelopeTypes, AnswerTypes
  <2>2. Live(d, k.receiver_req_id, k.msg)
    BY <2>1, LiveRequest DEF DataOK, Receiving
  <2> QED  BY <1>4, <2>2 DEF SenderLive, ReceiverLive
<1>5. CASE k.type = "CANCEL_SEND_REQ"
  <2>1. CancelReqOK(s, d, k) /\ k.msg[1] = s
    BY <1>5, CancelReqFacts
  <2>2. IsSend(s, k.sender_req_id, k.msg)
    BY <2>1 DEF CancelReqOK
  <2>3. Cancelling(k.msg)
    BY <1>5, <2>1 DEF Cancelling, CancelPacket
  <2>4. Live(s, k.sender_req_id, k.msg)
    BY <2>2, <2>3, LiveSend
  <2> QED  BY <1>5, <2>4 DEF SenderLive, ReceiverLive
<1>6. CASE k.type = "CANCEL_SEND_RESP"
  <2>1. CancelRespOK(s, d, k)
    BY <1>1, <1>6 DEF PacketOK, EnvelopeTypes, AnswerTypes
  <2>2. IsSend(d, k.sender_req_id, k.msg)
    BY <2>1 DEF CancelRespOK
  <2>3. Cancelling(k.msg)
    <3>1. k.msg[1] = d
      BY <2>2, SendFacts
    <3> QED  BY <1>6, <3>1 DEF Cancelling, CancelPacket
  <2>4. Live(d, k.sender_req_id, k.msg)
    BY <2>2, <2>3, LiveSend
  <2> QED  BY <1>6, <2>4 DEF SenderLive, ReceiverLive
<1> QED  BY <1>1, <1>2, <1>3, <1>4, <1>5, <1>6 DEF PacketOK

\* The properties follow from the invariant.
LEMMA PartsNoDangling == ASSUME PtParts PROVE NoDanglingRequest
<1>1. ASSUME NEW s \in Proc, NEW d \in Proc, NEW i \in DOMAIN net[s][d]
      PROVE  SenderLive(s, d, net[s][d][i]) /\ ReceiverLive(s, d, net[s][d][i])
  <2>1. net[s][d][i] \in Packets(s, d)
    BY DEF Packets, Entries
  <2> QED  BY <2>1, PacketsNameLive
<1>2. ASSUME NEW s \in Proc, NEW d \in Proc, reading[d][s] # None
      PROVE  request[d][reading[d][s]].cc > 0
  <2>1. ReadingOK(d, s)
    BY DEF PtParts, ReceiverInv, ReadingInv
  <2> QED  BY <1>2, <2>1 DEF ReadingOK
<1>3. ASSUME NEW p \in Proc, NEW i \in DOMAIN posted[p] PROVE Live(p, posted[p][i].rreq, NoMessage)
  <2>e. PICK e : e = posted[p][i]
    OBVIOUS
  <2>1. e \in Receives(p)
    BY <2>e DEF Receives, Entries
  <2>2. e.rreq \in Handle /\ request[p][e.rreq].msg = NoMessage /\ request[p][e.rreq].cc = 1
    BY <2>1 DEF PtParts, ReceiverInv, ListedInv, ListedOK
  <2> QED  BY <2>e, <2>2, LiveRequest
<1>4. ASSUME NEW p \in Proc, NEW i \in DOMAIN unexpected[p]
      PROVE  LET r == request[p][unexpected[p][i].rreq] IN
             /\ r.ref > 0 /\ ~ r.user /\ r.peer = unexpected[p][i].match.rank
             /\ r.proto \in {"sync", "rndv"} => Live(r.peer, r.sender_req_id, r.msg)
  <2>e. PICK e : e = unexpected[p][i]
    OBVIOUS
  <2>r. PICK r : r = request[p][e.rreq]
    OBVIOUS
  <2>1. e \in Messages(p)
    BY <2>e DEF Messages, Entries
  <2>2. /\ ~ r.user /\ r.ref = 1 + Bit(r.cc > 0) /\ fate[r.msg] = "sent"
        /\ Link(r.peer, p, r.msg, r.proto, r.sender_req_id) /\ r.peer \in Proc
        /\ e.match = Match(r.peer, e.match.tag)
    BY <2>r, <2>1, QueuedFacts
  <2>3. r.ref > 0 /\ r.peer = e.match.rank
    <3>1. e.match.rank = r.peer
      BY <2>2 DEF Match
    <3> QED  BY <2>2, <3>1 DEF Bit
  <2>4. ASSUME r.proto \in {"sync", "rndv"} PROVE Live(r.peer, r.sender_req_id, r.msg)
    <3>1. IsSend(r.peer, r.sender_req_id, r.msg)
      BY <2>2, <2>4 DEF Link, Waits
    <3>2. request[r.peer][r.sender_req_id].proto = r.proto
      BY <2>2, <3>1 DEF Link, IsSend
    <3>3. Unanswered(r.msg)
      BY <2>2 DEF Unanswered
    <3> QED  BY <2>2, <2>4, <3>1, <3>2, <3>3, LiveSend DEF Waits
  <2> QED  BY <2>e, <2>r, <2>2, <2>3, <2>4, Zenon
<1> QED  BY <1>1, <1>2, <1>3, <1>4 DEF NoDanglingRequest

LEMMA PartsPending == ASSUME PtParts PROVE CompleteWhenNonePending
<1>1. ASSUME NEW p \in Proc, NEW h \in Handle, NEW r, r = request[p][h],
             r.kind = "MPROBE" \/ (\E i \in DOMAIN unexpected[p] : unexpected[p][i].rreq = h),
             r.proto # "rndv"
      PROVE  IF r.cc = 0 THEN r.pending = 1 ELSE r.pending = 2
  <2>1. CASE r.kind = "MPROBE"
    <3>1. Holds(p, h)
      BY <1>1, <2>1 DEF PtParts, ReceiverInv, ProbedInv, ProbedOK
    <3> QED  BY <1>1, <3>1 DEF Holds
  <2>2. ASSUME NEW i \in DOMAIN unexpected[p], unexpected[p][i].rreq = h
        PROVE  IF r.cc = 0 THEN r.pending = 1 ELSE r.pending = 2
    <3>1. PICK e : e = unexpected[p][i]
      OBVIOUS
    <3>2. e \in Messages(p)
      BY <3>1 DEF Messages, Entries
    <3>3. QueuedOK(p, e)
      BY <3>2 DEF PtParts, ReceiverInv, QueuedInv
    <3>4. Holds(p, h)
      BY <2>2, <3>1, <3>3 DEF QueuedOK
    <3> QED  BY <1>1, <3>4 DEF Holds
  <2> QED  BY <1>1, <2>1, <2>2
<1> QED  BY <1>1 DEF CompleteWhenNonePending

\* The condition: every message names the request of its send.
EverySendNamed == \A x \in Sends : x[2] # "noncontig"

LEMMA PartsCancel == ASSUME PtParts, EverySendNamed PROVE CancelOutcome
<1>1. ASSUME NEW p \in Proc, NEW h \in Handle, NEW r, r = request[p][h], r.cancel_pending, r.cc = 0
      PROVE  fate[r.msg] = IF r.cancelled THEN "cancelled" ELSE "matched"
  <2>m. PICK m : m = r.msg
    OBVIOUS
  <2>1. r.kind = "SEND"
    BY <1>1 DEF PtParts, RequestInv, RefInv, RefOK
  <2>2. IsSend(p, h, m)
    BY <1>1, <2>m, <2>1 DEF IsSend
  <2>3. r.proto # "noncontig"
    BY <1>1, <2>1 DEF PtParts, SenderInv, ShapeInv, SendShape, IsSendRequest, EverySendNamed
  <2>4. ~ Cancelling(m)
    <3>1. Cancelling(m) => Live(p, h, m)
      BY <2>2, LiveSend
    <3> QED  BY <1>1, <3>1 DEF Live
  <2>5. SendCancel(p, h, m)
    BY <2>2, SendFacts
  <2> QED  BY <1>1, <2>m, <2>3, <2>4, <2>5 DEF SendCancel
<1>2. NoOtherCancelled
  BY DEF NoOtherCancelled, PtParts, RequestInv, AskedInv, EverySendNamed
<1> QED  BY <1>1, <1>2 DEF CancelOutcome

-----------------------------------------------------------------------------
\* The invariant holds in every state.
LEMMA PartsAlways == Spec => [](IInv /\ PtParts)
<1>1. Init => IInv /\ PtParts
  BY Initially, InitialParts
<1>2. IInv /\ PtParts /\ [Next]_vars => (IInv /\ PtParts)'
  BY EveryQueueStep, QueueStepPreserves, NextKeeps
<1> QED  BY <1>1, <1>2, PTL DEF Spec

\* A packet that names a request finds the request of its own message: no handler
\* of ch3u_eagersync.c, ch3u_rndv.c or mpid_cancel_send.c sees one that was freed
\* and used again (MPID_Request_release counts the references).
THEOREM RequestsLive == Spec => []NoDanglingRequest
<1>1. IInv /\ PtParts => NoDanglingRequest
  BY PartsNoDangling
<1> QED  BY <1>1, PartsAlways, PTL

\* A short message that waits in the queue, or was probed, is complete exactly when
\* nothing but its receive is pending, so the case mpid_irecv.c:77 asks about does
\* not arise (MPIDI_CH3U_Receive_data_unexpected).
THEOREM WaitsForReceiveAlone == Spec => []CompleteWhenNonePending
<1>1. IInv /\ PtParts => CompleteWhenNonePending
  BY PartsPending
<1> QED  BY <1>1, PartsAlways, PTL

\* A cancel that succeeded took away its own message before any receive had it, and
\* one that failed took away nothing (MPIDI_CH3U_Recvq_FDU), if no send is of
\* noncontiguous data: see the run ch3_cancel_noncontig.
THEOREM CancelsOwnMessage == ASSUME EverySendNamed PROVE Spec => []CancelOutcome
<1>1. IInv /\ PtParts => CancelOutcome
  BY PartsCancel
<1> QED  BY <1>1, PartsAlways, PTL
=============================================================================
