------------------------------ MODULE Ch3Order ------------------------------
(***************************************************************************)
(* The ch3 device implements the order of MPI: of the messages that are    *)
(* not matched, those in the receiver's queue were sent before those on    *)
(* the way.                                                                *)
(***************************************************************************)
EXTENDS Ch3Pt2Pt

\* The messages from s to d that are still on the way, in the order they arrive.
EnvelopesOf(s, d) ==
    LET envelopes == SelectSeq(net[s][d], LAMBDA pkt :
            pkt.type \in {"EAGER_SEND", "EAGER_SYNC_SEND", "RNDV_REQ_TO_SEND"})
    IN [i \in DOMAIN envelopes |->
            [match |-> envelopes[i].match, msg |-> envelopes[i].msg]]

\* Those that wait at d for a receive, in the order they came.
UnexpectedFrom(s, d) ==
    LET entries == SelectSeq(unexpected[d], LAMBDA e : e.match.rank = s)
    IN [i \in DOMAIN entries |->
            [match |-> entries[i].match, msg |-> request[d][entries[i].rreq].msg]]

Order == INSTANCE MpiOrder WITH
    pending <- [s \in Sender |-> [d \in Receiver |->
                   UnexpectedFrom(s, d) \o EnvelopesOf(s, d)]],
    receives <- [d \in Receiver |-> [i \in DOMAIN posted[d] |-> posted[d][i].match]]

\* Whatever the protocols of the sends, the queues and the packets of the device
\* match, cancel and enqueue as MPI promises: see MpiOrder.
ImplementsMpiOrder == Order!Spec
=============================================================================
