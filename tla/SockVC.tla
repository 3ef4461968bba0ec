------------------------------- MODULE SockVC -------------------------------
(***************************************************************************)
(* A virtual connection (VC) of the sock channel in the MPICH 3.0.2 kept   *)
(* in Module3, from the first message to MPI_Finalize, between processes 0 *)
(* and 1: the setting up of a TCP connection on demand, from both ends at  *)
(* once if it so happens (ch3u_connect_sock.c), the sending of packets     *)
(* over it (ch3_istartmsg.c, ch3_progress.c), and the close protocol       *)
(* (ch3u_handle_connection.c).  A process is one thread; it handles the    *)
(* events of one poll() one after the other before it polls again          *)
(* (sock_wait.i).  Connection c is the one process c asks for.             *)
(***************************************************************************)
EXTENDS Integers, Sequences, SequencesExt

CONSTANTS
    MaxMessages,  \* bound: the messages a process sends
    Others        \* the processes that have VCs to third ones to wait for too

Proc == {0, 1}

Other(p) == 1 - p

None == -1

ASSUME ConstantsAssumption == MaxMessages \in Nat /\ Others \subseteq Proc

VARIABLES
    plan,      \* plan[p]: the number of messages p is going to send
    phase,     \* phase[p]: how far the program of p is
    vc,        \* vc[p]: the state of p's VC to the other process
    ch,        \* ch[p]: the channel's part of it, its state and connection
    sendq,     \* sendq[p]: its queue of packets not yet written
    conn,      \* conn[p][c]: the state of p's end of connection c
    wire,      \* wire[p][c]: what is on its way to p over c
    ready,     \* ready[p]: the events of the last poll() still to be handled
    ops,       \* ops[p]: MPIDI_Outstanding_close_ops
    sent, received   \* how many messages p has sent, and received

link == <<ch, sendq, conn, wire>>
program == <<plan, phase, sent, received>>
vars == <<program, vc, link, ready, ops>>

Init ==
    /\ plan \in [Proc -> 0 .. MaxMessages]
    /\ phase = [p \in Proc |-> "running"]
    /\ vc = [p \in Proc |-> "INACTIVE"]
    /\ ch = [p \in Proc |-> [state |-> "UNCONNECTED", conn |-> None]]
    /\ sendq = [p \in Proc |-> <<>>]
    /\ conn = [p \in Proc |-> [c \in Proc |-> "none"]]
    /\ wire = [p \in Proc |-> [c \in Proc |-> <<>>]]
    /\ ready = [p \in Proc |-> {}]
    /\ ops = [p \in Proc |-> 0]
    /\ sent = [p \in Proc |-> 0]
    /\ received = [p \in Proc |-> 0]

Message(n) == [type |-> "MESSAGE", n |-> n]
Close(ack) == [type |-> "CLOSE", ack |-> ack]
OpenReq == [type |-> "SC_OPEN_REQ"]
PgId == [type |-> "pg_id"]
OpenResp(ack) == [type |-> "SC_OPEN_RESP", ack |-> ack]

-----------------------------------------------------------------------------
\* MPIDI_CH3_iStartMsg on the wires w: a packet is written at once if nothing
\* is before it, and waits in the queue otherwise; the first packet asks for a
\* connection.

\* Mistake: a packet overtakes the queue.
BugAtOnce(p) == ch[p].state = "CONNECTED"

AtOnce(p) == ch[p].state = "CONNECTED" /\ sendq[p] = <<>>

iStartMsg(p, pkt, w) ==
    IF AtOnce(p)
    THEN /\ wire' = [w EXCEPT ![Other(p)][ch[p].conn] = Append(@, pkt)]
         /\ UNCHANGED sendq
    ELSE /\ wire' = w
         /\ sendq' = [sendq EXCEPT ![p] = Append(@, pkt)]

PostConnect(p) ==
    IF ch[p].state = "UNCONNECTED"
    THEN /\ ch' = [ch EXCEPT ![p] = [state |-> "CONNECTING", conn |-> p]]
         /\ conn' = [conn EXCEPT ![p][p] = "CONNECTING"]
    ELSE UNCHANGED <<ch, conn>>

SetActive(p) ==
    vc' = [vc EXCEPT ![p] = IF @ = "INACTIVE" THEN "ACTIVE" ELSE @]

\* The program sends its next message.
Isend(p) ==
    /\ phase[p] = "running" /\ sent[p] < plan[p]
    /\ sent' = [sent EXCEPT ![p] = @ + 1]
    /\ SetActive(p)
    /\ iStartMsg(p, Message(sent[p] + 1), wire)
    /\ PostConnect(p)
    /\ UNCHANGED <<plan, phase, received, ready, ops>>

\* Mistake: a close is an acknowledgement whether or not one is asked for.
BugAcknowledges(p) == TRUE

\* A close acknowledges the one of the other process, if that came first.
Acknowledges(p) == vc[p] = "REMOTE_CLOSE"

\* MPIDI_PG_Close_VCs and MPIDI_CH3U_VC_SendClose.
CloseVC(p) ==
    IF vc[p] \in {"ACTIVE", "REMOTE_CLOSE"}
    THEN /\ ops' = [ops EXCEPT ![p] = @ + 1]
         /\ vc' = [vc EXCEPT ![p] = IF @ = "ACTIVE" THEN "LOCAL_CLOSE" ELSE "CLOSE_ACKED"]
         /\ iStartMsg(p, Close(Acknowledges(p)), wire)
         /\ PostConnect(p)
    ELSE /\ vc' = [vc EXCEPT ![p] = IF @ = "INACTIVE" THEN "INACTIVE_CLOSED" ELSE @]
         /\ UNCHANGED <<ops, link>>

\* MPI_Finalize, in a program whose sends are complete and which has received
\* all it is sent.
Finalize(p) ==
    /\ phase[p] = "running"
    /\ sent[p] = plan[p] /\ sendq[p] = <<>>
    /\ received[p] = plan[Other(p)]
    /\ phase' = [phase EXCEPT ![p] = "closing"]
    /\ CloseVC(p)
    /\ UNCHANGED <<plan, sent, received, ready>>

\* MPIDI_CH3U_VC_WaitForClose ends, and the process with it.
Exit(p) ==
    /\ phase[p] = "closing" /\ ops[p] = 0
    /\ phase' = [phase EXCEPT ![p] = "exited"]
    /\ UNCHANGED <<plan, sent, received, vc, link, ready, ops>>

-----------------------------------------------------------------------------
\* Events.

\* p runs the progress engine, in an MPI call or in WaitForClose.
Progressing(p) ==
    \/ phase[p] = "running"
    \/ phase[p] = "closing" /\ (ops[p] > 0 \/ p \in Others)

Listener == "listener"

Reads == {"OPEN_LRECV_PKT", "OPEN_LRECV_DATA", "OPEN_CRECV", "CONNECTED"}

\* What poll() finds for p: a request for a connection, something to read
\* where a read is posted, or room to write where a write is.
Readable(p) ==
    {<<"in", c>> : c \in {d \in Proc : conn[p][d] \in Reads /\ wire[p][d] # <<>>}}

Writable(p) ==
    {<<"out", c>> : c \in {d \in Proc :
        \/ conn[p][d] = "CONNECTING" /\ phase[Other(p)] # "exited"
        \/ conn[p][d] \in {"OPEN_CSEND", "OPEN_LSEND", "OPEN_LSEND_NACK"}
        \/ conn[p][d] = "CONNECTED" /\ ch[p].conn = d /\ sendq[p] # <<>>}}

Acceptable(p) ==
    IF conn[Other(p)][Other(p)] # "none" /\ conn[p][Other(p)] = "none"
    THEN {<<Listener, Other(p)>>} ELSE {}

PollResult(p) == Readable(p) \union Writable(p) \union Acceptable(p)

CloseEventWaits(p) == \E c \in Proc : conn[p][c] = "CLOSING"

\* What is still on its way is not seen yet: any part of PollResult may be.
\* The events of the sockets are queued; one of a posted close is behind them.
Poll(p) ==
    /\ Progressing(p)
    /\ ready[p] = {} /\ ~ CloseEventWaits(p)
    /\ \E events \in SUBSET PollResult(p) \ {{}} : ready' = [ready EXCEPT ![p] = events]
    /\ UNCHANGED <<program, vc, link, ops>>

Handles(p, kind, c) ==
    /\ Progressing(p)
    /\ <<kind, c>> \in ready[p]
    /\ ready' = [ready EXCEPT ![p] = @ \ {<<kind, c>>}]

MovesTo(p, c, state) == conn' = [conn EXCEPT ![p][c] = state]

\* p reads the next packet of c.
Consumed(p, c) == [wire EXCEPT ![p][c] = Tail(@)]

-----------------------------------------------------------------------------
\* Setting up a connection.

\* MPIDI_CH3_Sockconn_handle_accept_event
HandleAccept(p, c) ==
    /\ Handles(p, Listener, c)
    /\ MovesTo(p, c, "OPEN_LRECV_PKT")
    /\ UNCHANGED <<program, vc, ch, sendq, wire, ops>>

\* MPIDI_CH3_Sockconn_handle_connect_event
HandleConnect(p, c) ==
    /\ Handles(p, "out", c) /\ conn[p][c] = "CONNECTING"
    /\ MovesTo(p, c, "OPEN_CSEND")
    /\ UNCHANGED <<program, vc, ch, sendq, wire, ops>>

\* MPIDI_CH3_Sockconn_handle_connwrite: the open request is written.
HandleReqWritten(p, c) ==
    /\ Handles(p, "out", c) /\ conn[p][c] = "OPEN_CSEND"
    /\ MovesTo(p, c, "OPEN_CRECV")
    /\ wire' = [wire EXCEPT ![Other(p)][c] = @ \o <<OpenReq, PgId>>]
    /\ UNCHANGED <<program, vc, ch, sendq, ops>>

\* MPIDI_CH3_Sockconn_handle_conn_event reads the open request.
HandleOpenReq(p, c) ==
    /\ Handles(p, "in", c) /\ conn[p][c] = "OPEN_LRECV_PKT"
    /\ MovesTo(p, c, "OPEN_LRECV_DATA")
    /\ wire' = Consumed(p, c)
    /\ UNCHANGED <<program, vc, ch, sendq, ops>>

\* Mistake: with two connections under way, each process accepts the other's.
BugAccepts(p) == TRUE

\* Without a connection of its own p accepts; with one, the lower rank does.
Accepts(p) == ch[p].conn = None \/ p < Other(p)

\* MPIDI_CH3_Sockconn_handle_connopen_event
HandleConnOpen(p, c) ==
    /\ Handles(p, "in", c) /\ conn[p][c] = "OPEN_LRECV_DATA"
    /\ SetActive(p)
    /\ IF Accepts(p)
       THEN /\ ch' = [ch EXCEPT ![p] = [state |-> "CONNECTING", conn |-> c]]
            /\ MovesTo(p, c, "OPEN_LSEND")
       ELSE /\ UNCHANGED ch
            /\ MovesTo(p, c, "OPEN_LSEND_NACK")
    /\ wire' = Consumed(p, c)
    /\ UNCHANGED <<program, sendq, ops>>

\* MPIDI_CH3_Sockconn_handle_connwrite: the answer to an open request is
\* written, and a refused connection closed.
HandleRespWritten(p, c) ==
    /\ Handles(p, "out", c)
    /\ \/ /\ conn[p][c] = "OPEN_LSEND"
          /\ MovesTo(p, c, "CONNECTED")
          /\ ch' = [ch EXCEPT ![p].state = "CONNECTED"]
          /\ wire' = [wire EXCEPT ![Other(p)][c] = Append(@, OpenResp(TRUE))]
       \/ /\ conn[p][c] = "OPEN_LSEND_NACK"
          /\ MovesTo(p, c, "CLOSING")
          /\ wire' = [wire EXCEPT ![Other(p)][c] = Append(@, OpenResp(FALSE))]
          /\ UNCHANGED ch
    /\ UNCHANGED <<program, vc, sendq, ops>>

\* Mistake: a VC keeps its connection when that is refused.
BugWithout(p, c) == ch[p].conn

\* The connection of p's VC once c is refused.
Without(p, c) == IF ch[p].conn = c THEN None ELSE ch[p].conn

\* MPIDI_CH3_Sockconn_handle_conn_event reads the answer.
HandleOpenResp(p, c) ==
    /\ Handles(p, "in", c) /\ conn[p][c] = "OPEN_CRECV"
    /\ IF Head(wire[p][c]).ack
       THEN /\ ch[p].conn = c
            /\ MovesTo(p, c, "CONNECTED")
            /\ ch' = [ch EXCEPT ![p].state = "CONNECTED"]
       ELSE /\ MovesTo(p, c, "CLOSING")
            /\ ch' = [ch EXCEPT ![p].conn = Without(p, c)]
    /\ wire' = Consumed(p, c)
    /\ UNCHANGED <<program, vc, sendq, ops>>

\* The other process is gone and has not read the request: the connection is
\* refused or reset, an error the progress engine passes on.
HandleReset(p) ==
    /\ Progressing(p) /\ ready[p] = {}
    /\ conn[p][p] \in {"CONNECTING", "OPEN_CRECV"}
    /\ phase[Other(p)] = "exited" /\ wire[p][p] = <<>>
    /\ conn[Other(p)][p] = "none" \/ wire[Other(p)][p] # <<>>
    /\ phase' = [phase EXCEPT ![p] = "failed"]
    /\ UNCHANGED <<plan, sent, received, vc, link, ready, ops>>

-----------------------------------------------------------------------------
\* Using it and closing it.

\* The packet at the head of the queue is written (connection_pop_sendq_req).
HandleWritten(p, c) ==
    /\ Handles(p, "out", c) /\ conn[p][c] = "CONNECTED"
    /\ wire' = [wire EXCEPT ![Other(p)][c] = Append(@, Head(sendq[p]))]
    /\ sendq' = [sendq EXCEPT ![p] = Tail(@)]
    /\ UNCHANGED <<program, vc, ch, conn, ops>>

Packet(p, c, type) ==
    conn[p][c] = "CONNECTED" /\ Head(wire[p][c]).type = type

HandleMessage(p, c) ==
    /\ Handles(p, "in", c) /\ Packet(p, c, "MESSAGE")
    /\ received' = [received EXCEPT ![p] = @ + 1]
    /\ wire' = Consumed(p, c)
    /\ UNCHANGED <<plan, phase, sent, vc, ch, sendq, conn, ops>>

\* Mistake: the answer to a close is left to MPI_Finalize, as in ACTIVE.
BugAnswersClose(p) == FALSE

\* A process that has asked for the close itself answers a close.
AnswersClose(p) == vc[p] = "LOCAL_CLOSE"

\* MPIDI_CH3_PktHandler_Close: a close that is not an acknowledgement.
HandleClose(p, c) ==
    /\ Handles(p, "in", c) /\ Packet(p, c, "CLOSE") /\ ~ Head(wire[p][c]).ack
    /\ vc[p] \in {"LOCAL_CLOSE", "ACTIVE"}
    /\ vc' = [vc EXCEPT ![p] = IF @ = "LOCAL_CLOSE" THEN "CLOSE_ACKED" ELSE "REMOTE_CLOSE"]
    /\ IF AnswersClose(p) THEN iStartMsg(p, Close(TRUE), Consumed(p, c))
                          ELSE wire' = Consumed(p, c) /\ UNCHANGED sendq
    /\ UNCHANGED <<program, ch, conn, ops>>

\* MPIDI_CH3_PktHandler_Close: an acknowledgement ends the connection
\* (MPIDI_CH3_Connection_terminate).
HandleCloseAck(p, c) ==
    /\ Handles(p, "in", c) /\ Packet(p, c, "CLOSE") /\ Head(wire[p][c]).ack
    /\ vc[p] \in {"LOCAL_CLOSE", "CLOSE_ACKED"}
    /\ vc' = [vc EXCEPT ![p] = "CLOSED"]
    /\ IF AnswersClose(p) THEN iStartMsg(p, Close(TRUE), Consumed(p, c))
                          ELSE wire' = Consumed(p, c) /\ UNCHANGED sendq
    /\ MovesTo(p, ch[p].conn, "CLOSING")
    /\ UNCHANGED <<program, ch, ops>>

\* MPIDI_CH3_Sockconn_handle_close_event, and for the connection in use
\* MPIDI_CH3U_Handle_connection in the state CLOSED.
HandleCloseEvent(p, c) ==
    /\ Progressing(p) /\ ready[p] = {}
    /\ conn[p][c] = "CLOSING"
    /\ MovesTo(p, c, "CLOSED")
    /\ IF ch[p].conn = c
       THEN /\ vc[p] = "CLOSED"
            /\ ch' = [ch EXCEPT ![p] = [state |-> "UNCONNECTED", conn |-> None]]
            /\ vc' = [vc EXCEPT ![p] = "INACTIVE"]
            /\ ops' = [ops EXCEPT ![p] = @ - 1]
       ELSE UNCHANGED <<ch, vc, ops>>
    /\ UNCHANGED <<program, sendq, wire, ready>>

-----------------------------------------------------------------------------
Program(p) == Isend(p) \/ Finalize(p) \/ Exit(p)

Event(p, c) ==
    \/ HandleAccept(p, c) \/ HandleConnect(p, c) \/ HandleReqWritten(p, c)
    \/ HandleOpenReq(p, c) \/ HandleConnOpen(p, c) \/ HandleRespWritten(p, c)
    \/ HandleOpenResp(p, c) \/ HandleWritten(p, c) \/ HandleMessage(p, c)
    \/ HandleClose(p, c) \/ HandleCloseAck(p, c) \/ HandleCloseEvent(p, c)

ProgressEngine(p) == Poll(p) \/ HandleReset(p) \/ \E c \in Proc : Event(p, c)

Next == \E p \in Proc : Program(p) \/ ProgressEngine(p)

\* A process goes on with its program, and runs the progress engine while it
\* waits for anything.
Fairness == \A p \in Proc : WF_vars(Program(p)) /\ WF_vars(ProgressEngine(p))

Spec == Init /\ [][Next]_vars /\ Fairness

-----------------------------------------------------------------------------
\* Nothing fails that the handlers assert of the packet they read and of the
\* state it finds (MPIU_Assert in MPIDI_CH3_PktHandler_Close and in
\* MPIDI_CH3_Sockconn_handle_conn_event).
Reading(p, c, state) == <<"in", c>> \in ready[p] /\ conn[p][c] = state

AssertionsHold ==
    \A p \in Proc, c \in Proc :
        LET pkt == Head(wire[p][c]) IN
        /\ Reading(p, c, "OPEN_CRECV") /\ pkt.ack => ch[p].conn = c
        /\ Reading(p, c, "CONNECTED") /\ pkt.type = "CLOSE" =>
              vc[p] \in IF pkt.ack THEN {"LOCAL_CLOSE", "CLOSE_ACKED"}
                                   ELSE {"LOCAL_CLOSE", "ACTIVE"}

\* A socket is closed under a VC only when the close protocol is over, so that
\* Handle_connection never takes it for a failure, and the operations that
\* WaitForClose waits for are the VCs within the protocol, never fewer.
NormalTermination ==
    \A p \in Proc :
        /\ \A c \in Proc : conn[p][c] = "CLOSING" /\ ch[p].conn = c => vc[p] = "CLOSED"
        /\ ops[p] = IF vc[p] \in {"LOCAL_CLOSE", "CLOSE_ACKED", "CLOSED"} THEN 1 ELSE 0

\* Two processes that connect to each other at once come to use the same
\* connection: "the code for head-to-head conn resolution will take care of
\* discarding one of the connections" (ch3u_connect_sock.c:1065).
OneConnection ==
    \A p \in Proc :
        /\ ch[p].state = "CONNECTED" => conn[p][ch[p].conn] \in {"CONNECTED", "CLOSING"}
        /\ ch[p].state = "CONNECTED" /\ ch[Other(p)].state = "CONNECTED" =>
              ch[p].conn = ch[Other(p)].conn

\* Where the messages are among packets, and whether these are the messages
\* first .. last, each once and in that order, whatever else is between them.
MessagesAt(packets) == {i \in DOMAIN packets : packets[i].type = "MESSAGE"}

CarriesInOrder(packets, first, last) ==
    /\ {packets[i].n : i \in MessagesAt(packets)} = first .. last
    /\ \A i \in MessagesAt(packets), j \in MessagesAt(packets) :
          i < j => packets[i].n < packets[j].n

\* The messages on the wire and in the queue are the ones sent and not yet
\* received, in order, wherever the two connections are in their opening and
\* closing, and a closed VC has left none behind.
NothingLost ==
    \A p \in Proc :
        CarriesInOrder(wire[p][0] \o wire[p][1] \o sendq[Other(p)], received[p] + 1, sent[Other(p)])

\* MPI_Finalize returns, whatever the two programs had opened: the barrier was
\* removed "so that finalize won't hang" (mpid_finalize.c:76).  It returns an
\* error where a second connection reaches a process that has ended.
FinalizeEnds == \A p \in Proc : <>(phase[p] \in {"exited", "failed"})
=============================================================================
