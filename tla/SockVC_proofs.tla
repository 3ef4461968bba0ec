---------------------------- MODULE SockVC_proofs ----------------------------
(***************************************************************************)
(* Theorems about two processes that connect to each other, exchange       *)
(* messages and close.                                                     *)
(*                                                                         *)
(* The first part needs no assumption: the close protocol ends every VC    *)
(* normally, whatever the two programs send and whatever other connections *)
(* they wait for, even where the resolution of head-to-head connections    *)
(* goes wrong.                                                             *)
(*                                                                         *)
(* The second part assumes that process 1, whose request wins a            *)
(* head-to-head, does not go on polling for other connections once the one *)
(* to process 0 is closed.  Then both processes use one connection, the    *)
(* handlers find what they assert, and the messages arrive once and in     *)
(* order, for any number of messages.  Without the assumption the first    *)
(* two are false: a request that lost is accepted after the connection     *)
(* that won has been closed (SockVC_late.cfg).                             *)
(***************************************************************************)
EXTENDS SockVC, SequenceTheorems, TLAPS

ConnStates ==
    {"none", "CONNECTING", "OPEN_CSEND", "OPEN_CRECV", "OPEN_LRECV_PKT",
     "OPEN_LRECV_DATA", "OPEN_LSEND", "OPEN_LSEND_NACK", "CONNECTED", "CLOSING", "CLOSED"}

TypeOK ==
    /\ vc \in [Proc -> {"INACTIVE", "ACTIVE", "LOCAL_CLOSE", "REMOTE_CLOSE",
                        "CLOSE_ACKED", "CLOSED", "INACTIVE_CLOSED"}]
    /\ ch \in [Proc -> [state : {"UNCONNECTED", "CONNECTING", "CONNECTED"},
                        conn : Proc \union {None}]]
    /\ conn \in [Proc -> [Proc -> ConnStates]]
    /\ ops \in [Proc -> Nat]
    /\ ready \in [Proc -> SUBSET ({Listener, "in", "out"} \X Proc)]

\* A process accepts the connections that the other one asks for, each once.
AcceptsOnce ==
    \A p \in Proc, c \in Proc :
        <<Listener, c>> \in ready[p] => c # p /\ conn[p][c] = "none"

\* What is not the VC's connection: one that was not asked for or accepted yet,
\* and one that is refused.
NotTheVCs ==
    \A p \in Proc, c \in Proc :
        conn[p][c] \in {"none", "OPEN_LRECV_PKT", "OPEN_LRECV_DATA", "OPEN_LSEND_NACK"} =>
            ch[p].conn # c

IInv == TypeOK /\ AcceptsOnce /\ NotTheVCs /\ NormalTermination

-----------------------------------------------------------------------------
\* The initial states satisfy the invariant.
LEMMA Initially == Init => IInv
BY DEF Init, IInv, TypeOK, AcceptsOnce, NotTheVCs, NormalTermination, ConnStates, Proc, None, Listener

\* The program sends a message; the VC becomes active and asks for a connection.
LEMMA IsendKeeps ==
    ASSUME IInv, NEW p \in Proc, Isend(p)
    PROVE  IInv'
<1> USE DEF TypeOK, AcceptsOnce, NotTheVCs, NormalTermination, ConnStates, Proc, Other, None, Listener, IInv
<1>1. TypeOK'
  BY DEF Isend, SetActive, PostConnect
<1>2. AcceptsOnce'
  BY DEF Isend, SetActive, PostConnect
<1>3. NotTheVCs'
  BY DEF Isend, SetActive, PostConnect
<1>4. NormalTermination'
  BY DEF Isend, SetActive, PostConnect
<1> QED  BY <1>1, <1>2, <1>3, <1>4

\* MPI_Finalize asks for the close of an active VC, and counts it.
LEMMA FinalizeKeeps ==
    ASSUME IInv, NEW p \in Proc, Finalize(p)
    PROVE  IInv'
<1> USE DEF TypeOK, AcceptsOnce, NotTheVCs, NormalTermination, ConnStates, Proc, Other, None, Listener, IInv
<1>1. TypeOK'
  BY DEF Finalize, CloseVC, PostConnect, link
<1>2. AcceptsOnce'
  BY DEF Finalize, CloseVC, PostConnect, link
<1>3. NotTheVCs'
  BY DEF Finalize, CloseVC, PostConnect, link
<1>4. NormalTermination'
  BY DEF Finalize, CloseVC, PostConnect, link
<1> QED  BY <1>1, <1>2, <1>3, <1>4

\* The process ends.
LEMMA ExitKeeps ==
    ASSUME IInv, NEW p \in Proc, Exit(p)
    PROVE  IInv'
<1> USE DEF TypeOK, AcceptsOnce, NotTheVCs, NormalTermination, ConnStates, Proc, Other, None, Listener, IInv
<1>1. TypeOK'
  BY DEF Exit, link
<1>2. AcceptsOnce'
  BY DEF Exit, link
<1>3. NotTheVCs'
  BY DEF Exit, link
<1>4. NormalTermination'
  BY DEF Exit, link
<1> QED  BY <1>1, <1>2, <1>3, <1>4

\* A connection is accepted that was not there before.
LEMMA HandleAcceptKeeps ==
    ASSUME IInv, NEW p \in Proc, NEW c \in Proc, HandleAccept(p, c)
    PROVE  IInv'
<1> USE DEF TypeOK, AcceptsOnce, NotTheVCs, NormalTermination, ConnStates, Proc, Other, None, Listener, IInv
<1>1. TypeOK'
  BY DEF HandleAccept, Handles, MovesTo
<1>2. AcceptsOnce'
  BY DEF HandleAccept, Handles, MovesTo
<1>3. NotTheVCs'
  BY DEF HandleAccept, Handles, MovesTo
<1>4. NormalTermination'
  BY DEF HandleAccept, Handles, MovesTo
<1> QED  BY <1>1, <1>2, <1>3, <1>4

\* The connection asked for is there.
LEMMA HandleConnectKeeps ==
    ASSUME IInv, NEW p \in Proc, NEW c \in Proc, HandleConnect(p, c)
    PROVE  IInv'
<1> USE DEF TypeOK, AcceptsOnce, NotTheVCs, NormalTermination, ConnStates, Proc, Other, None, Listener, IInv
<1>1. TypeOK'
  BY DEF HandleConnect, Handles, MovesTo
<1>2. AcceptsOnce'
  BY DEF HandleConnect, Handles, MovesTo
<1>3. NotTheVCs'
  BY DEF HandleConnect, Handles, MovesTo
<1>4. NormalTermination'
  BY DEF HandleConnect, Handles, MovesTo
<1> QED  BY <1>1, <1>2, <1>3, <1>4

\* The open request is written.
LEMMA HandleReqWrittenKeeps ==
    ASSUME IInv, NEW p \in Proc, NEW c \in Proc, HandleReqWritten(p, c)
    PROVE  IInv'
<1> USE DEF TypeOK, AcceptsOnce, NotTheVCs, NormalTermination, ConnStates, Proc, Other, None, Listener, IInv
<1>1. TypeOK'
  BY DEF HandleReqWritten, Handles, MovesTo
<1>2. AcceptsOnce'
  BY DEF HandleReqWritten, Handles, MovesTo
<1>3. NotTheVCs'
  BY DEF HandleReqWritten, Handles, MovesTo
<1>4. NormalTermination'
  BY DEF HandleReqWritten, Handles, MovesTo
<1> QED  BY <1>1, <1>2, <1>3, <1>4

\* The open request is read.
LEMMA HandleOpenReqKeeps ==
    ASSUME IInv, NEW p \in Proc, NEW c \in Proc, HandleOpenReq(p, c)
    PROVE  IInv'
<1> USE DEF TypeOK, AcceptsOnce, NotTheVCs, NormalTermination, ConnStates, Proc, Other, None, Listener, IInv
<1>1. TypeOK'
  BY DEF HandleOpenReq, Handles, MovesTo
<1>2. AcceptsOnce'
  BY DEF HandleOpenReq, Handles, MovesTo
<1>3. NotTheVCs'
  BY DEF HandleOpenReq, Handles, MovesTo
<1>4. NormalTermination'
  BY DEF HandleOpenReq, Handles, MovesTo
<1> QED  BY <1>1, <1>2, <1>3, <1>4

\* It becomes the VC's connection, or is to be refused and is another than the VC's.
LEMMA HandleConnOpenKeeps ==
    ASSUME IInv, NEW p \in Proc, NEW c \in Proc, HandleConnOpen(p, c)
    PROVE  IInv'
<1> USE DEF TypeOK, AcceptsOnce, NotTheVCs, NormalTermination, ConnStates, Proc, Other, None, Listener, IInv
<1>1. TypeOK'
  BY DEF HandleConnOpen, Handles, MovesTo, SetActive, Accepts
<1>2. AcceptsOnce'
  BY DEF HandleConnOpen, Handles, MovesTo, SetActive, Accepts
<1>3. NotTheVCs'
  BY DEF HandleConnOpen, Handles, MovesTo, SetActive, Accepts
<1>4. NormalTermination'
  BY DEF HandleConnOpen, Handles, MovesTo, SetActive, Accepts
<1> QED  BY <1>1, <1>2, <1>3, <1>4

\* The answer is written; the connection closed if it is refused is not the VC's.
LEMMA HandleRespWrittenKeeps ==
    ASSUME IInv, NEW p \in Proc, NEW c \in Proc, HandleRespWritten(p, c)
    PROVE  IInv'
<1> USE DEF TypeOK, AcceptsOnce, NotTheVCs, NormalTermination, ConnStates, Proc, Other, None, Listener, IInv
<1>1. TypeOK'
  BY DEF HandleRespWritten, Handles, MovesTo
<1>2. AcceptsOnce'
  BY DEF HandleRespWritten, Handles, MovesTo
<1>3. NotTheVCs'
  BY DEF HandleRespWritten, Handles, MovesTo
<1>4. NormalTermination'
  BY DEF HandleRespWritten, Handles, MovesTo
<1> QED  BY <1>1, <1>2, <1>3, <1>4

\* The answer is read; a refused connection is the VC's no longer.
LEMMA HandleOpenRespKeeps ==
    ASSUME IInv, NEW p \in Proc, NEW c \in Proc, HandleOpenResp(p, c)
    PROVE  IInv'
<1> USE DEF TypeOK, AcceptsOnce, NotTheVCs, NormalTermination, ConnStates, Proc, Other, None, Listener, IInv
<1>1. TypeOK'
  BY DEF HandleOpenResp, Handles, MovesTo, Without
<1>2. AcceptsOnce'
  BY DEF HandleOpenResp, Handles, MovesTo, Without
<1>3. NotTheVCs'
  BY DEF HandleOpenResp, Handles, MovesTo, Without
<1>4. NormalTermination'
  BY DEF HandleOpenResp, Handles, MovesTo, Without
<1> QED  BY <1>1, <1>2, <1>3, <1>4

\* A packet is written.
LEMMA HandleWrittenKeeps ==
    ASSUME IInv, NEW p \in Proc, NEW c \in Proc, HandleWritten(p, c)
    PROVE  IInv'
<1> USE DEF TypeOK, AcceptsOnce, NotTheVCs, NormalTermination, ConnStates, Proc, Other, None, Listener, IInv
<1>1. TypeOK'
  BY DEF HandleWritten, Handles, MovesTo, link
<1>2. AcceptsOnce'
  BY DEF HandleWritten, Handles, MovesTo, link
<1>3. NotTheVCs'
  BY DEF HandleWritten, Handles, MovesTo, link
<1>4. NormalTermination'
  BY DEF HandleWritten, Handles, MovesTo, link
<1> QED  BY <1>1, <1>2, <1>3, <1>4

\* A message is read.
LEMMA HandleMessageKeeps ==
    ASSUME IInv, NEW p \in Proc, NEW c \in Proc, HandleMessage(p, c)
    PROVE  IInv'
<1> USE DEF TypeOK, AcceptsOnce, NotTheVCs, NormalTermination, ConnStates, Proc, Other, None, Listener, IInv
<1>1. TypeOK'
  BY DEF HandleMessage, Handles, MovesTo
<1>2. AcceptsOnce'
  BY DEF HandleMessage, Handles, MovesTo
<1>3. NotTheVCs'
  BY DEF HandleMessage, Handles, MovesTo
<1>4. NormalTermination'
  BY DEF HandleMessage, Handles, MovesTo
<1> QED  BY <1>1, <1>2, <1>3, <1>4

\* A close is read, and the VC stays in the close protocol or outside it.
LEMMA HandleCloseKeeps ==
    ASSUME IInv, NEW p \in Proc, NEW c \in Proc, HandleClose(p, c)
    PROVE  IInv'
<1> USE DEF TypeOK, AcceptsOnce, NotTheVCs, NormalTermination, ConnStates, Proc, Other, None, Listener, IInv
<1>1. TypeOK'
  BY DEF HandleClose, Handles, MovesTo
<1>2. AcceptsOnce'
  BY DEF HandleClose, Handles, MovesTo
<1>3. NotTheVCs'
  BY DEF HandleClose, Handles, MovesTo
<1>4. NormalTermination'
  BY DEF HandleClose, Handles, MovesTo
<1> QED  BY <1>1, <1>2, <1>3, <1>4

\* An acknowledgement ends the protocol before it closes the socket.
LEMMA HandleCloseAckKeeps ==
    ASSUME IInv, NEW p \in Proc, NEW c \in Proc, HandleCloseAck(p, c)
    PROVE  IInv'
<1> USE DEF TypeOK, AcceptsOnce, NotTheVCs, NormalTermination, ConnStates, Proc, Other, None, Listener, IInv
<1>1. TypeOK'
  BY DEF HandleCloseAck, Handles, MovesTo
<1>2. AcceptsOnce'
  BY DEF HandleCloseAck, Handles, MovesTo
<1>3. NotTheVCs'
  BY DEF HandleCloseAck, Handles, MovesTo
<1>4. NormalTermination'
  BY DEF HandleCloseAck, Handles, MovesTo
<1> QED  BY <1>1, <1>2, <1>3, <1>4

\* The socket is closed, and the operation counted for it is over.
LEMMA HandleCloseEventKeeps ==
    ASSUME IInv, NEW p \in Proc, NEW c \in Proc, HandleCloseEvent(p, c)
    PROVE  IInv'
<1> USE DEF TypeOK, AcceptsOnce, NotTheVCs, NormalTermination, ConnStates, Proc, Other, None, Listener, IInv
<1>1. TypeOK'
  BY DEF HandleCloseEvent, Handles, MovesTo
<1>2. AcceptsOnce'
  BY DEF HandleCloseEvent, Handles, MovesTo
<1>3. NotTheVCs'
  BY DEF HandleCloseEvent, Handles, MovesTo
<1>4. NormalTermination'
  BY DEF HandleCloseEvent, Handles, MovesTo
<1> QED  BY <1>1, <1>2, <1>3, <1>4

\* poll() finds only requests for connections that are not accepted yet.
LEMMA PollKeeps ==
    ASSUME IInv, NEW p \in Proc, Poll(p)
    PROVE  IInv'
<1> USE DEF TypeOK, AcceptsOnce, NotTheVCs, NormalTermination, ConnStates, Proc, Other, None, Listener, IInv
<1>1. TypeOK'
  BY DEF Poll, PollResult, Readable, Writable, Acceptable, link
<1>2. AcceptsOnce'
  BY DEF Poll, PollResult, Readable, Writable, Acceptable, link
<1>3. NotTheVCs'
  BY DEF Poll, PollResult, Readable, Writable, Acceptable, link
<1>4. NormalTermination'
  BY DEF Poll, PollResult, Readable, Writable, Acceptable, link
<1> QED  BY <1>1, <1>2, <1>3, <1>4

\* A process fails.
LEMMA HandleResetKeeps ==
    ASSUME IInv, NEW p \in Proc, HandleReset(p)
    PROVE  IInv'
<1> USE DEF TypeOK, AcceptsOnce, NotTheVCs, NormalTermination, ConnStates, Proc, Other, None, Listener, IInv
<1>1. TypeOK'
  BY DEF HandleReset, link
<1>2. AcceptsOnce'
  BY DEF HandleReset, link
<1>3. NotTheVCs'
  BY DEF HandleReset, link
<1>4. NormalTermination'
  BY DEF HandleReset, link
<1> QED  BY <1>1, <1>2, <1>3, <1>4

-----------------------------------------------------------------------------
\* Every step keeps the invariant.
LEMMA StepKeeps == IInv /\ [Next]_vars => IInv'
<1> SUFFICES ASSUME IInv, [Next]_vars PROVE IInv'
  OBVIOUS
<1>1. ASSUME NEW p \in Proc, Program(p) PROVE IInv'
  BY <1>1, IsendKeeps, FinalizeKeeps, ExitKeeps DEF Program
<1>2. ASSUME NEW p \in Proc, NEW c \in Proc, Event(p, c) PROVE IInv'
  BY <1>2, HandleAcceptKeeps, HandleConnectKeeps, HandleReqWrittenKeeps, HandleOpenReqKeeps, HandleConnOpenKeeps, HandleRespWrittenKeeps,
     HandleOpenRespKeeps, HandleWrittenKeeps, HandleMessageKeeps, HandleCloseKeeps, HandleCloseAckKeeps, HandleCloseEventKeeps
     DEF Event
<1>3. ASSUME NEW p \in Proc, ProgressEngine(p) PROVE IInv'
  BY <1>2, <1>3, PollKeeps, HandleResetKeeps DEF ProgressEngine
<1>4. CASE UNCHANGED vars
  BY <1>4 DEF vars, program, link, IInv, TypeOK, AcceptsOnce, NotTheVCs, NormalTermination
<1> QED  BY <1>1, <1>3, <1>4 DEF Next

\* A socket is closed under a VC only in the state CLOSED, so that
\* Handle_connection counts one close operation less exactly where one was
\* counted, and WaitForClose never waits for one too few: with any number of
\* messages, and whether or not the processes wait for others.
THEOREM ClosesNormally == Spec => []NormalTermination
<1>1. IInv => NormalTermination
  BY DEF IInv
<1> QED  BY Initially, StepKeeps, <1>1, PTL DEF Spec

-----------------------------------------------------------------------------
\* The connection that the two processes come to use, named by the process
\* that asks for it: that of process 1 as soon as it has asked, as
\* ReceivesOpenReq refuses the other one by comparing ranks.
Winner == IF conn[1][1] = "none" THEN 0 ELSE 1
\* The other connection, if there is one.
Loser == 1 - Winner

\* A connection in these states has been opened and is used, closing or
\* closed.
Opened == {"CONNECTED", "CLOSING", "CLOSED"}

\* The packets of the opening of connection c that process p has yet to read:
\* the request and its process group, or the response to it.
Opening(p, c) ==
    IF conn[c][c] # "OPEN_CRECV" THEN <<>>
    ELSE IF p # c
    THEN IF conn[p][c] \in {"none", "OPEN_LRECV_PKT"} THEN <<OpenReq, PgId>>
         ELSE IF conn[p][c] = "OPEN_LRECV_DATA" THEN <<PgId>> ELSE <<>>
    ELSE IF conn[Other(p)][c] = "CONNECTED" THEN <<OpenResp(TRUE)>>
    ELSE IF conn[Other(p)][c] \in {"CLOSING", "CLOSED"} THEN <<OpenResp(FALSE)>> ELSE <<>>

\* The connection of the winner in the process that asks for it and in the
\* one that accepts it. They come to use it together.
WinnerInv ==
    LET asked == conn[Winner][Winner]  taken == conn[Loser][Winner] IN
    \/ asked = "none" /\ taken = "none"
    \/ asked \in {"CONNECTING", "OPEN_CSEND"} /\ taken \in {"none", "OPEN_LRECV_PKT"}
    \/ asked = "OPEN_CRECV" /\ taken \in {"none", "OPEN_LRECV_PKT", "OPEN_LRECV_DATA", "OPEN_LSEND", "CONNECTED"}
    \/ asked \in Opened /\ taken \in Opened

\* The other connection exists only where both have asked. It is refused, and
\* never in use.
LoserInv ==
    LET asked == conn[Loser][Loser]  taken == conn[Winner][Loser] IN
    \/ asked = "none" /\ taken = "none"
    \/ /\ Winner = 1
       /\ \/ asked \in {"CONNECTING", "OPEN_CSEND"} /\ taken \in {"none", "OPEN_LRECV_PKT"}
          \/ asked = "OPEN_CRECV" /\ taken \in {"none", "OPEN_LRECV_PKT", "OPEN_LRECV_DATA", "OPEN_LSEND_NACK", "CLOSING", "CLOSED"}
          \/ asked \in {"CLOSING", "CLOSED"} /\ taken \in {"CLOSING", "CLOSED"}

\* What the channel of p holds is determined by the states of the two
\* connections: the winning one from the moment it is a connection of p's VC,
\* the losing one of process 0 until it learns that it is refused, or
\* nothing.
Candidate(p) ==
    IF conn[p][Winner] \in {"CONNECTED", "CLOSING"}
      THEN [state |-> "CONNECTED", conn |-> Winner]
    ELSE IF conn[p][Winner] \in {"CONNECTING", "OPEN_CSEND", "OPEN_CRECV", "OPEN_LSEND"}
      THEN [state |-> "CONNECTING", conn |-> Winner]
    ELSE IF conn[p][Winner] = "CLOSED" \/ p = Winner \/ conn[p][Loser] = "none"
      THEN [state |-> "UNCONNECTED", conn |-> None]
    ELSE IF conn[p][Loser] \in {"CLOSING", "CLOSED"}
      THEN [state |-> "CONNECTING", conn |-> None]
    ELSE [state |-> "CONNECTING", conn |-> Loser]

\* The VC's channel is connected through the winning connection or not at
\* all.
ChInv == \A p \in Proc : ch[p] = Candidate(p)

\* Neither program has anything to send.
Silent == plan[0] = 0 /\ plan[1] = 0

\* A program leaves MPI_Finalize's first half only with everything sent and
\* received, and no process has received what the other one has not sent.
PhaseInv ==
    \A p \in Proc :
        /\ phase[p] = "running" => vc[p] \in {"INACTIVE", "ACTIVE", "REMOTE_CLOSE"}
        /\ phase[p] # "running" =>
              /\ vc[p] \in {"INACTIVE", "INACTIVE_CLOSED", "LOCAL_CLOSE", "CLOSE_ACKED", "CLOSED"}
              /\ sent[p] = plan[p] /\ received[p] = plan[Other(p)]
        /\ phase[p] = "exited" => ops[p] = 0
        /\ received[Other(p)] <= sent[p] /\ sent[p] <= plan[p]

\* The state of the VC against its channel and the winning connection: the
\* connection is closed exactly when the VC has gone through the close
\* protocol, and a VC that has not been used since MPI_Init has carried
\* nothing.
VcInv ==
    \A p \in Proc :
        /\ vc[p] \in {"INACTIVE", "INACTIVE_CLOSED"} <=> ch[p].state = "UNCONNECTED"
        /\ conn[p][Winner] = "CLOSED" <=> vc[p] = "INACTIVE" /\ phase[p] # "running"
        /\ conn[p][Winner] = "CLOSING" <=> vc[p] = "CLOSED"
        /\ phase[p] = "running" /\ vc[p] = "INACTIVE" => sent[p] = 0 /\ received[p] = 0
        /\ vc[p] = "INACTIVE_CLOSED" => Silent
        /\ conn[p][p] # "none" => ~ Silent

\* The process has not yet asked for the close of its VC.
Before(p) == vc[p] \in {"ACTIVE", "INACTIVE_CLOSED"} \/ (vc[p] = "INACTIVE" /\ phase[p] = "running")
\* The process is through with the close protocol.
After(p) == vc[p] = "CLOSED" \/ (vc[p] = "INACTIVE" /\ phase[p] # "running")

\* The states of the two VCs in the close protocol, one against the other.
CloseInv ==
    \A p \in Proc :
        /\ vc[p] = "REMOTE_CLOSE" => vc[Other(p)] = "LOCAL_CLOSE"
        /\ Before(p) => Before(Other(p)) \/ vc[Other(p)] = "LOCAL_CLOSE"
        /\ After(p) => After(Other(p)) \/ vc[Other(p)] = "CLOSE_ACKED"

\* A process asks for the close of a VC.
Asked == Close(FALSE)
\* It acknowledges the close that the other process asked for.
Acked == Close(TRUE)

\* The close packets that process p has sent and the other one has yet to
\* read are determined by the states of the two VCs, but for the order in
\* which the two acknowledgements cross.
Closes(p) ==
    IF vc[p] = "LOCAL_CLOSE" /\ (Before(Other(p)) \/ vc[Other(p)] = "LOCAL_CLOSE")
      THEN {<<Asked>>}
    ELSE IF vc[p] = "CLOSE_ACKED" /\ vc[Other(p)] = "LOCAL_CLOSE"
      THEN {<<Acked>>, <<Asked, Acked>>}
    ELSE IF (vc[p] = "CLOSE_ACKED" \/ After(p)) /\ vc[Other(p)] = "CLOSE_ACKED"
      THEN {<<Acked>>}
    ELSE {<<>>}

\* The packets, for any number of messages.
Pkt == {Message(n) : n \in Nat} \union {OpenReq, PgId}
            \union {Close(ack) : ack \in BOOLEAN} \union {OpenResp(ack) : ack \in BOOLEAN}

\* The messages after the first r, up to s, in order.
Run(r, s) == [i \in 1 .. s - r |-> Message(r + i)]

\* What p has yet to read on the winning connection after the opening, and
\* what the other process has queued, is packets. Nothing is written before
\* the connection is open.
Carries(p, packets) ==
    \E d \in Seq(Pkt) :
        /\ wire[p][Winner] = Opening(p, Winner) \o d
        /\ d \o sendq[Other(p)] = packets
        /\ d # <<>> => conn[Other(p)][Winner] \in Opened

\* The stream to process p: on the losing connection only its opening, on the
\* winning one its opening, then the messages that p has yet to receive, in
\* order, then the closes.
StreamTo(p) ==
    /\ wire[p][Loser] = Opening(p, Loser)
    /\ \E t \in Closes(Other(p)) : Carries(p, Run(received[p], sent[Other(p)]) \o t)

\* The streams of both processes.
StreamInv == \A p \in Proc : StreamTo(p)

\* What poll has reported of connection c to p and p has not handled yet is
\* still there to be handled.
ReadyAt(p, c) ==
    /\ <<"in", c>> \in ready[p] => wire[p][c] # <<>> /\ conn[p][c] \in Reads
    /\ <<Listener, c>> \in ready[p] => conn[c][c] # "none"
    /\ <<"out", c>> \in ready[p] =>
          \/ conn[p][c] \in {"CONNECTING", "OPEN_CSEND", "OPEN_LSEND", "OPEN_LSEND_NACK", "CLOSING"}
          \/ conn[p][c] = "CONNECTED" /\ sendq[p] # <<>>

\* Every event that waits to be handled can still be handled.
ReadyInv == \A p \in Proc, c \in Proc : ReadyAt(p, c)

\* The types of the variables that IInv does not mention.
LinkType ==
    /\ plan \in [Proc -> Nat] /\ sent \in [Proc -> Nat] /\ received \in [Proc -> Nat]
    /\ phase \in [Proc -> {"running", "closing", "exited", "failed"}]
    /\ wire \in [Proc -> [Proc -> Seq(Pkt)]]
    /\ sendq \in [Proc -> Seq(Pkt)]

\* The inductive invariant of the second part.
LinkInv ==
    /\ IInv /\ LinkType /\ WinnerInv /\ LoserInv /\ ChInv
    /\ PhaseInv /\ VcInv /\ CloseInv /\ ReadyInv /\ StreamInv

-----------------------------------------------------------------------------

\* Every packet that a handler writes is one of Pkt.
LEMMA PktTypes ==
    /\ OpenReq \in Pkt /\ PgId \in Pkt
    /\ \A n \in Nat : Message(n) \in Pkt
    /\ \A ack \in BOOLEAN : Close(ack) \in Pkt /\ OpenResp(ack) \in Pkt
BY DEF Pkt

\* The two close packets, and what tells them apart.
LEMMA ClosePackets ==
    /\ Asked \in Pkt /\ Asked.type = "CLOSE" /\ ~ Asked.ack /\ Asked' = Asked
    /\ Acked \in Pkt /\ Acked.type = "CLOSE" /\ Acked.ack /\ Acked' = Acked
BY PktTypes DEF Asked, Acked, Close

\* Run(r, s) is a sequence of s - r packets.
LEMMA RunIsSeq ==
    ASSUME NEW r \in Nat, NEW s \in Nat, r <= s
    PROVE  Run(r, s) \in Seq(Pkt) /\ Len(Run(r, s)) = s - r
BY PktTypes DEF Run

\* Sending a message prolongs the run.
LEMMA RunGrows ==
    ASSUME NEW r \in Nat, NEW s \in Nat, r <= s
    PROVE  Append(Run(r, s), Message(s + 1)) = Run(r, s + 1)
<1> DEFINE a == Append(Run(r, s), Message(s + 1))
           b == Run(r, s + 1)
<1>0. s + 1 \in Nat /\ r <= s + 1
  OBVIOUS
<1>1. Run(r, s) \in Seq(Pkt) /\ Len(Run(r, s)) = s - r /\ Message(s + 1) \in Pkt
  <2>1. Run(r, s) \in Seq(Pkt) /\ Len(Run(r, s)) = s - r
    BY RunIsSeq
  <2> QED  BY <1>0, <2>1, PktTypes
<1>2. b \in Seq(Pkt) /\ Len(b) = s + 1 - r
  BY <1>0, RunIsSeq
<1>3. /\ a \in Seq(Pkt) /\ Len(a) = s + 1 - r
      /\ \A i \in 1 .. s - r : a[i] = Run(r, s)[i]
      /\ a[s + 1 - r] = Message(s + 1)
  BY <1>1, AppendProperties
<1>4. ASSUME NEW i \in 1 .. s + 1 - r PROVE a[i] = b[i]
  <2>1. b[i] = Message(r + i)
    BY DEF Run
  <2>2. CASE i = s + 1 - r
    BY <1>3, <2>1, <2>2
  <2>3. CASE i # s + 1 - r
    <3>1. i \in 1 .. s - r
      BY <2>3
    <3>2. Run(r, s)[i] = Message(r + i)
      BY <3>1 DEF Run
    <3> QED  BY <1>3, <2>1, <3>1, <3>2
  <2> QED  BY <2>2, <2>3
<1> HIDE DEF a, b
<1>5. a = b
  BY <1>2, <1>3, <1>4, SeqEqual
<1> QED  BY <1>5 DEF a, b

\* Receiving the first of the run shortens it.
LEMMA RunShrinks ==
    ASSUME NEW r \in Nat, NEW s \in Nat, r < s
    PROVE  /\ Run(r, s) # <<>>
           /\ Head(Run(r, s)) = Message(r + 1)
           /\ Tail(Run(r, s)) = Run(r + 1, s)
<1> DEFINE a == Run(r, s)
           b == Run(r + 1, s)
<1>0. r <= s /\ r + 1 \in Nat /\ r + 1 <= s
  OBVIOUS
<1>1. /\ a \in Seq(Pkt) /\ Len(a) = s - r
      /\ b \in Seq(Pkt) /\ Len(b) = s - (r + 1)
  <2>1. a \in Seq(Pkt) /\ Len(a) = s - r
    BY <1>0, RunIsSeq
  <2>2. b \in Seq(Pkt) /\ Len(b) = s - (r + 1)
    BY <1>0, RunIsSeq
  <2> QED  BY <2>1, <2>2
<1>2. \A i \in 1 .. s - r : a[i] = Message(r + i)
  BY DEF Run
<1>3. \A i \in 1 .. s - (r + 1) : b[i] = Message(r + 1 + i)
  BY DEF Run
<1> HIDE DEF a, b
<1>4. a # <<>>
  BY <1>1, EmptySeq
<1>5. Head(a) = Message(r + 1)
  BY <1>1, <1>2
<1>6. /\ Tail(a) \in Seq(Pkt) /\ Len(Tail(a)) = s - r - 1
      /\ \A i \in 1 .. s - r - 1 : Tail(a)[i] = a[i + 1]
  BY <1>1, <1>4, HeadTailProperties
<1>7. ASSUME NEW i \in 1 .. s - r - 1 PROVE Tail(a)[i] = b[i]
  BY <1>2, <1>3, <1>6
<1>8. Tail(a) = b
  BY <1>1, <1>6, <1>7, SeqEqual
<1> QED  BY <1>4, <1>5, <1>8 DEF a, b

\* There is nothing to receive where all has been received.
LEMMA RunEmpty == ASSUME NEW r \in Nat PROVE Run(r, r) = <<>>
<1>1. Run(r, r) \in Seq(Pkt) /\ Len(Run(r, r)) = 0
  BY RunIsSeq
<1> QED  BY <1>1, EmptySeq

\* A packet that is written at once or queued comes last in the stream.
LEMMA Appends ==
    ASSUME NEW d \in Seq(Pkt), NEW u \in Seq(Pkt), NEW x \in Pkt
    PROVE  /\ d \o Append(u, x) = Append(d \o u, x)
           /\ u = <<>> => Append(d, x) \o u = Append(d \o u, x)
<1>1. <<x>> \in Seq(Pkt) /\ d \o u \in Seq(Pkt) /\ Append(d, x) \in Seq(Pkt)
  BY ConcatProperties
<1>2. Append(u, x) = u \o <<x>> /\ Append(d \o u, x) = (d \o u) \o <<x>>
  BY <1>1, AppendIsConcat
<1>3. d \o (u \o <<x>>) = (d \o u) \o <<x>>
  BY <1>1, ConcatAssociative
<1>4. Append(d, x) \o <<>> = Append(d, x) /\ d \o <<>> = d
  BY <1>1, ConcatEmptySeq
<1> QED  BY <1>2, <1>3, <1>4

\* A packet that is read is the first of the stream.
LEMMA Takes ==
    ASSUME NEW d \in Seq(Pkt), NEW u \in Seq(Pkt), d # <<>>
    PROVE  /\ d \o u # <<>>
           /\ Head(d \o u) = Head(d)
           /\ Tail(d \o u) = Tail(d) \o u
           /\ Tail(d) \in Seq(Pkt)
<1> DEFINE h == <<Head(d)>>
           t == Tail(d)
<1>1. Head(d) \in Pkt /\ t \in Seq(Pkt)
  BY HeadTailProperties
<1>2. h \in Seq(Pkt) /\ Len(h) = 1
  BY <1>1
<1>3. d = h \o t
  <2>1. Len(d) \in Nat \ {0} /\ Len(t) = Len(d) - 1 /\ \A i \in 1 .. Len(t) : t[i] = d[i + 1]
    BY HeadTailProperties, EmptySeq
  <2>2. /\ h \o t \in Seq(Pkt) /\ Len(h \o t) = Len(d)
        /\ \A i \in 1 .. Len(d) : (h \o t)[i] = IF i <= 1 THEN h[i] ELSE t[i - 1]
    BY <1>1, <1>2, <2>1, ConcatProperties
  <2>3. ASSUME NEW i \in 1 .. Len(d) PROVE d[i] = (h \o t)[i]
    <3>1. CASE i = 1
      <4>1. (h \o t)[1] = h[1]
        BY <2>1, <2>2
      <4> QED  BY <3>1, <4>1
    <3>2. CASE i # 1
      <4>1. i - 1 \in 1 .. Len(t) /\ ~ i <= 1
        BY <2>1, <3>2
      <4> HIDE DEF h, t
      <4> QED  BY <2>1, <2>2, <4>1
    <3> QED  BY <3>1, <3>2
  <2> HIDE DEF h, t
  <2> QED  BY <2>2, <2>3, SeqEqual
<1>4. d \o u = h \o (t \o u) /\ t \o u \in Seq(Pkt)
  <2> HIDE DEF h, t
  <2> QED  BY <1>1, <1>2, <1>3, ConcatAssociative, ConcatProperties
<1>5. ASSUME NEW v \in Seq(Pkt)
      PROVE  /\ h \o v # <<>> /\ Head(h \o v) = Head(d) /\ Tail(h \o v) = v
  <2> DEFINE w == h \o v
  <2>1. /\ w \in Seq(Pkt) /\ Len(w) = 1 + Len(v) /\ Len(v) \in Nat
        /\ \A i \in 1 .. 1 + Len(v) : w[i] = IF i <= 1 THEN h[i] ELSE v[i - 1]
    <3> HIDE DEF h
    <3>1. /\ w \in Seq(Pkt) /\ Len(w) = Len(h) + Len(v)
          /\ \A i \in 1 .. Len(h) + Len(v) : w[i] = IF i <= Len(h) THEN h[i] ELSE v[i - Len(h)]
      BY <1>2, ConcatProperties
    <3>2. Len(v) \in Nat
      BY LenProperties
    <3> QED  BY <1>2, <3>1, <3>2
  <2>2. w[1] = Head(d)
    BY <2>1
  <2> HIDE DEF w
  <2>3. w # <<>>
    BY <2>1, EmptySeq
  <2>4. Head(w) = Head(d)
    BY <2>1, <2>2, <2>3
  <2>5. /\ Tail(w) \in Seq(Pkt) /\ Len(Tail(w)) = Len(v)
        /\ \A i \in 1 .. Len(v) : Tail(w)[i] = w[i + 1]
    BY <2>1, <2>3, HeadTailProperties
  <2>6. ASSUME NEW i \in 1 .. Len(v) PROVE Tail(w)[i] = v[i]
    BY <2>1, <2>5
  <2>7. Tail(w) = v
    BY <2>5, <2>6, SeqEqual
  <2> QED  BY <2>3, <2>4, <2>7 DEF w
<1> HIDE DEF h, t
<1>6. Tail(d \o u) = t \o u
  BY <1>4, <1>5
<1> QED  BY <1>1, <1>4, <1>5, <1>6 DEF t

\* Writing the queue's first packet leaves the stream as it is.
LEMMA Moves ==
    ASSUME NEW d \in Seq(Pkt), NEW u \in Seq(Pkt), u # <<>>
    PROVE  /\ Append(d, Head(u)) \o Tail(u) = d \o u
           /\ Append(d, Head(u)) \in Seq(Pkt) /\ Tail(u) \in Seq(Pkt)
<1> DEFINE h == <<Head(u)>>
           t == Tail(u)
<1>1. Head(u) \in Pkt /\ t \in Seq(Pkt) /\ Len(u) \in Nat \ {0}
      /\ Len(t) = Len(u) - 1 /\ \A i \in 1 .. Len(t) : t[i] = u[i + 1]
  BY HeadTailProperties, EmptySeq
<1>2. h \in Seq(Pkt) /\ Len(h) = 1 /\ h[1] = u[1]
  BY <1>1
<1>3. Append(d, Head(u)) = d \o h /\ Append(d, Head(u)) \in Seq(Pkt)
  BY <1>1, AppendIsConcat, AppendProperties
<1> HIDE DEF h, t
<1>4. (d \o h) \o t = d \o (h \o t)
  BY <1>1, <1>2, ConcatAssociative
<1>5. /\ h \o t \in Seq(Pkt) /\ Len(h \o t) = Len(u)
      /\ \A i \in 1 .. Len(u) : (h \o t)[i] = IF i <= 1 THEN h[i] ELSE t[i - 1]
  <2>1. /\ h \o t \in Seq(Pkt) /\ Len(h \o t) = Len(h) + Len(t)
        /\ \A i \in 1 .. Len(h) + Len(t) : (h \o t)[i] = IF i <= Len(h) THEN h[i] ELSE t[i - Len(h)]
    BY <1>1, <1>2, ConcatProperties
  <2> QED  BY <1>1, <1>2, <2>1
<1>6. ASSUME NEW i \in 1 .. Len(u) PROVE (h \o t)[i] = u[i]
  BY <1>1, <1>2, <1>5
<1>7. h \o t = u
  BY <1>5, <1>6, SeqEqual
<1> QED  BY <1>1, <1>3, <1>4, <1>7 DEF t

\* The initial states satisfy the invariant: no connection exists, and
\* nothing has been sent.
LEMMA InvInitially == Init => LinkInv
<1> SUFFICES ASSUME Init PROVE LinkInv
  OBVIOUS
<1> USE DEF Init, Proc, Other, None
<1>1. IInv
  BY Initially
<1>2. LinkType
  BY ConstantsAssumption DEF LinkType
<1>3. Winner = 0 /\ Loser = 1
  BY DEF Winner, Loser
<1>4. WinnerInv /\ LoserInv
  BY <1>3 DEF WinnerInv, LoserInv
<1>5. ChInv
  BY <1>3 DEF ChInv, Candidate
<1>6. PhaseInv /\ VcInv
  BY <1>3, ConstantsAssumption DEF PhaseInv, VcInv, Silent
<1>7. CloseInv
  BY DEF CloseInv, Before, After
<1>8. ReadyInv
  BY DEF ReadyInv, ReadyAt
<1>9. ASSUME NEW p \in Proc PROVE StreamTo(p)
  <2>1. <<>> \in Closes(Other(p))
    BY DEF Closes, Before, After
  <2>2. Run(received[p], sent[Other(p)]) \o <<>> = <<>>
    BY RunEmpty, EmptySeq, ConcatEmptySeq
  <2>3. Opening(p, 0) = <<>> /\ Opening(p, 1) = <<>>
    BY DEF Opening
  <2>4. Carries(p, <<>>)
    <3>1. <<>> \in Seq(Pkt) /\ <<>> \o <<>> = <<>>
      BY EmptySeq, ConcatEmptySeq
    <3>2. wire[p][Winner] = <<>> /\ sendq[Other(p)] = <<>>
      BY <1>3
    <3> QED  BY <1>3, <2>3, <3>1, <3>2 DEF Carries
  <2>5. wire[p][Loser] = Opening(p, Loser)
    BY <1>3, <2>3
  <2> QED  BY <2>1, <2>2, <2>4, <2>5 DEF StreamTo
<1> QED  BY <1>1, <1>2, <1>4, <1>5, <1>6, <1>7, <1>8, <1>9 DEF LinkInv, StreamInv

-----------------------------------------------------------------------------

\* Putting a sequence of packets on one wire keeps the type of the wires.
LEMMA WireTyped ==
    ASSUME LinkType, NEW p \in Proc, NEW c \in Proc, NEW s \in Seq(Pkt)
    PROVE  [wire EXCEPT ![p][c] = s] \in [Proc -> [Proc -> Seq(Pkt)]]
BY DEF LinkType

\* The sequences of one and two packets that the handlers write.
LEMMA Short ==
    /\ <<>> \in Seq(Pkt)
    /\ <<OpenReq, PgId>> \in Seq(Pkt) /\ Tail(<<OpenReq, PgId>>) = <<PgId>>
    /\ <<PgId>> \in Seq(Pkt) /\ Tail(<<PgId>>) = <<>>
    /\ <<Asked>> \in Seq(Pkt) /\ <<Acked>> \in Seq(Pkt) /\ <<Asked, Acked>> \in Seq(Pkt)
    /\ Append(<<>>, Asked) = <<Asked>> /\ Append(<<>>, Acked) = <<Acked>>
    /\ \A ack \in BOOLEAN :
          /\ <<OpenResp(ack)>> \in Seq(Pkt)
          /\ Append(<<>>, OpenResp(ack)) = <<OpenResp(ack)>>
          /\ <<OpenResp(ack)>> # <<>> /\ Head(<<OpenResp(ack)>>) = OpenResp(ack)
          /\ Tail(<<OpenResp(ack)>>) = <<>>
<1>1. ASSUME NEW x \in Pkt, NEW y \in Pkt
      PROVE  /\ <<>> \in Seq(Pkt) /\ <<x>> \in Seq(Pkt) /\ <<x, y>> \in Seq(Pkt)
             /\ Tail(<<x, y>>) = <<y>> /\ Tail(<<x>>) = <<>>
             /\ Append(<<>>, x) = <<x>> /\ <<x>> # <<>> /\ Head(<<x>>) = x
  OBVIOUS
<1>2. /\ OpenReq \in Pkt /\ PgId \in Pkt /\ Asked \in Pkt /\ Acked \in Pkt
      /\ \A ack \in BOOLEAN : OpenResp(ack) \in Pkt
  BY PktTypes, ClosePackets
<1> QED  BY <1>1, <1>2

\* The opening is a sequence of packets, before and after a step.
LEMMA OpeningTyped ==
    ASSUME NEW p, NEW c
    PROVE  Opening(p, c) \in Seq(Pkt) /\ Opening(p, c)' \in Seq(Pkt)
<1> DEFINE None0 == <<>>
           Both == <<OpenReq, PgId>>
           Id == <<PgId>>
           Yes == <<OpenResp(TRUE)>>
           No == <<OpenResp(FALSE)>>
<1>1. None0 \in Seq(Pkt) /\ Both \in Seq(Pkt) /\ Id \in Seq(Pkt) /\ Yes \in Seq(Pkt) /\ No \in Seq(Pkt)
  BY Short
<1>2. Opening(p, c) \in {None0, Both, Id, Yes, No}
  BY DEF Opening
<1>3. Opening(p, c)' \in {None0, Both, Id, Yes, No}
  BY DEF Opening, OpenReq, PgId, OpenResp
<1> HIDE DEF None0, Both, Id, Yes, No
<1> QED  BY <1>1, <1>2, <1>3

\* On a connection that the other process does not use, there is nothing but
\* its opening.
LEMMA OnlyOpening ==
    ASSUME LinkInv, NEW p \in Proc, NEW c \in Proc,
           c = Winner => conn[Other(p)][c] \notin Opened
    PROVE  wire[p][c] = Opening(p, c)
<1>1. CASE c = Loser
  BY <1>1 DEF LinkInv, StreamInv, StreamTo
<1>2. CASE c = Winner
  <2>1. PICK d \in Seq(Pkt) : /\ wire[p][c] = Opening(p, c) \o d
                              /\ d # <<>> => conn[Other(p)][c] \in Opened
    BY <1>2 DEF LinkInv, StreamInv, StreamTo, Carries
  <2>2. Opening(p, c) \in Seq(Pkt)
    BY OpeningTyped
  <2> QED  BY <1>2, <2>1, <2>2, ConcatEmptySeq
<1> QED  BY <1>1, <1>2 DEF Winner, Loser, Proc

\* The stream to p is as it was if neither the messages, the queue nor the
\* closes change and the wires change only with their openings.
LEMMA StreamStays ==
    ASSUME LinkInv, NEW p \in Proc, Winner' = Winner, Loser' = Loser,
           sendq'[Other(p)] = sendq[Other(p)],
           received'[p] = received[p], sent'[Other(p)] = sent[Other(p)],
           Closes(Other(p))' = Closes(Other(p)),
           conn[Other(p)][Winner] \in Opened => conn'[Other(p)][Winner] \in Opened,
           \A c \in Proc :
              \/ wire'[p][c] = wire[p][c] /\ Opening(p, c)' = Opening(p, c)
              \/ wire[p][c] = Opening(p, c) /\ wire'[p][c] = Opening(p, c)'
    PROVE  StreamTo(p)'
<1>0. Winner \in Proc /\ Loser \in Proc
  BY DEF Winner, Loser, Proc
<1>1. wire'[p][Loser] = Opening(p, Loser)'
  BY <1>0 DEF LinkInv, StreamInv, StreamTo
<1>2. PICK t \in Closes(Other(p)) : Carries(p, Run(received[p], sent[Other(p)]) \o t)
  BY DEF LinkInv, StreamInv, StreamTo
<1> DEFINE packets == Run(received[p], sent[Other(p)]) \o t
<1>3. packets' = packets
  BY DEF Run, Message
<1> HIDE DEF packets
<1>4. PICK d \in Seq(Pkt) : /\ wire[p][Winner] = Opening(p, Winner) \o d
                            /\ d \o sendq[Other(p)] = packets
                            /\ d # <<>> => conn[Other(p)][Winner] \in Opened
  BY <1>2 DEF Carries, packets
<1>5. wire'[p][Winner] = Opening(p, Winner)' \o d
  <2>1. CASE wire'[p][Winner] = wire[p][Winner] /\ Opening(p, Winner)' = Opening(p, Winner)
    BY <1>4, <2>1
  <2>2. CASE wire[p][Winner] = Opening(p, Winner) /\ wire'[p][Winner] = Opening(p, Winner)'
    <3>1. d = <<>>
      <4> DEFINE o == Opening(p, Winner)
      <4>1. o \in Seq(Pkt) /\ o \o d = o
        BY <1>4, <2>2, OpeningTyped
      <4> HIDE DEF o
      <4> QED  BY <4>1, ConcatEqualIffEmpty
    <3>2. Opening(p, Winner)' \in Seq(Pkt)
      <4> SUFFICES ASSUME NEW w, w = Winner' PROVE Opening(p, w)' \in Seq(Pkt)
        OBVIOUS
      <4> QED  BY OpeningTyped
    <3> QED  BY <2>2, <3>1, <3>2, ConcatEmptySeq
  <2> QED  BY <1>0, <2>1, <2>2
<1>6. Carries(p, packets)'
  BY <1>3, <1>4, <1>5 DEF Carries, Other
<1> QED  BY <1>1, <1>3, <1>6 DEF StreamTo, packets, Other

\* A step that leaves both VCs where they are in the close protocol leaves
\* the closes as they are.
LEMMA ClosingStays ==
    ASSUME LinkInv,
           \A r \in Proc :
              /\ Before(r)' <=> Before(r)
              /\ After(r)' <=> After(r)
              /\ \A s \in {"LOCAL_CLOSE", "REMOTE_CLOSE", "CLOSE_ACKED"} : vc'[r] = s <=> vc[r] = s
    PROVE  CloseInv' /\ \A r \in Proc : Closes(r)' = Closes(r)
<1>1. CloseInv'
  BY DEF LinkInv, CloseInv, Proc, Other
<1>2. ASSUME NEW r \in Proc PROVE Closes(r)' = Closes(r)
  BY <1>2 DEF Closes, Proc, Other, Asked, Acked, Close
<1> QED  BY <1>1, <1>2

\* Which processes the winner and the loser are: process 0 wins only where
\* process 1 has not asked.
LEMMA Sides ==
    ASSUME LinkInv
    PROVE  \/ Winner = 0 /\ Loser = 1 /\ conn[1][1] = "none" /\ conn[0][1] = "none"
           \/ Winner = 1 /\ Loser = 0 /\ conn[1][1] # "none"
BY DEF LinkInv, Winner, Loser, LoserInv

\* Process p accepts the connection that the other one asks for.
LEMMA AcceptLinks ==
    ASSUME LinkInv, NEW p \in Proc, NEW c \in Proc, HandleAccept(p, c)
    PROVE  LinkInv'
<1> USE DEF LinkInv, IInv, Proc, Other, None
<1>1. IInv'
  BY HandleAcceptKeeps
<1>2. /\ c = Other(p) /\ conn[p][c] = "none" /\ conn[c][c] # "none"
      /\ conn' = [conn EXCEPT ![p][c] = "OPEN_LRECV_PKT"]
      /\ ready' = [ready EXCEPT ![p] = @ \ {<<Listener, c>>}]
      /\ UNCHANGED <<plan, phase, sent, received, vc, ch, sendq, wire, ops>>
  BY DEF HandleAccept, Handles, MovesTo, program, AcceptsOnce, ReadyInv, ReadyAt
<1>3. Winner' = Winner /\ Loser' = Loser
  BY <1>2 DEF Winner, Loser, TypeOK
<1>4. LinkType'
  BY <1>2 DEF LinkType
<1>5. WinnerInv'
  BY <1>2, <1>3, Sides DEF WinnerInv, LoserInv, Opened, TypeOK
<1>6. LoserInv'
  BY <1>2, <1>3, Sides DEF WinnerInv, LoserInv, Opened, TypeOK
<1>7. ChInv'
  BY <1>2, <1>3, Sides DEF WinnerInv, LoserInv, Opened, TypeOK, ChInv, Candidate
<1>8. PhaseInv'
  BY <1>2 DEF PhaseInv, TypeOK
<1>9. VcInv'
  BY <1>2, <1>3, <1>7, Sides DEF VcInv, Silent, WinnerInv, LoserInv, Opened, TypeOK, ChInv, Candidate
<1>10. ReadyInv'
  <2> SUFFICES ASSUME NEW q \in Proc, NEW e \in Proc PROVE ReadyAt(q, e)'
    BY DEF ReadyInv
  <2>1. /\ \A ev : ev \in ready'[q] => ev \in ready[q]
        /\ <<Listener, c>> \notin ready'[p]
    BY <1>2 DEF TypeOK
  <2>2. ReadyAt(q, e)
    BY DEF ReadyInv
  <2> QED  BY <1>2, <2>1, <2>2 DEF ReadyAt, Reads, TypeOK, LinkType
<1>11. CloseInv' /\ \A r \in Proc : Closes(r)' = Closes(r)
  <2>1. \A r \in Proc :
          /\ Before(r)' <=> Before(r)
          /\ After(r)' <=> After(r)
          /\ \A s \in {"LOCAL_CLOSE", "REMOTE_CLOSE", "CLOSE_ACKED"} : vc'[r] = s <=> vc[r] = s
    BY <1>2 DEF Before, After, TypeOK
  <2> QED  BY <2>1, ClosingStays
<1>12. ASSUME NEW r \in Proc PROVE StreamTo(r)'
  <2>1. \A e \in Proc :
           \/ wire'[r][e] = wire[r][e] /\ Opening(r, e)' = Opening(r, e)
           \/ wire[r][e] = Opening(r, e) /\ wire'[r][e] = Opening(r, e)'
    BY <1>2, <1>12, Sides DEF Opening, WinnerInv, LoserInv, TypeOK
  <2>2. conn[Other(r)][Winner] \in Opened => conn'[Other(r)][Winner] \in Opened
    BY <1>2, <1>12, Sides DEF Opened, TypeOK, WinnerInv
  <2>3. Closes(Other(r))' = Closes(Other(r)) /\ UNCHANGED <<sendq, received, sent>>
    BY <1>2, <1>11, <1>12
  <2> QED  BY <1>3, <1>12, <2>1, <2>2, <2>3, StreamStays
<1> QED  BY <1>1, <1>4, <1>5, <1>6, <1>7, <1>8, <1>9, <1>10, <1>11, <1>12 DEF StreamInv

\* The socket of a connection that p asked for is open, and p writes the
\* request.
LEMMA ConnectLinks ==
    ASSUME LinkInv, NEW p \in Proc, NEW c \in Proc, HandleConnect(p, c)
    PROVE  LinkInv'
<1> USE DEF LinkInv, IInv, Proc, Other, None
<1>1. IInv'
  BY HandleConnectKeeps
<1>2. /\ conn[p][c] = "CONNECTING"
      /\ conn' = [conn EXCEPT ![p][c] = "OPEN_CSEND"]
      /\ ready' = [ready EXCEPT ![p] = @ \ {<<"out", c>>}]
      /\ UNCHANGED <<plan, phase, sent, received, vc, ch, sendq, wire, ops>>
  BY DEF HandleConnect, Handles, MovesTo, program
<1>3. Winner' = Winner /\ Loser' = Loser
  BY <1>2 DEF Winner, Loser, TypeOK
<1>4. LinkType'
  BY <1>2 DEF LinkType
<1>5. WinnerInv'
  BY <1>2, <1>3, Sides DEF WinnerInv, LoserInv, Opened, TypeOK
<1>6. LoserInv'
  BY <1>2, <1>3, Sides DEF WinnerInv, LoserInv, Opened, TypeOK
<1>7. ChInv'
  BY <1>2, <1>3, Sides DEF WinnerInv, LoserInv, Opened, TypeOK, ChInv, Candidate
<1>8. PhaseInv'
  BY <1>2 DEF PhaseInv, TypeOK
<1>9. VcInv'
  BY <1>2, <1>3, <1>7, Sides DEF VcInv, Silent, WinnerInv, LoserInv, Opened, TypeOK, ChInv, Candidate
<1>10. ReadyInv'
  <2> SUFFICES ASSUME NEW q \in Proc, NEW e \in Proc PROVE ReadyAt(q, e)'
    BY DEF ReadyInv
  <2>1. /\ \A ev : ev \in ready'[q] => ev \in ready[q]
        /\ <<"out", c>> \notin ready'[p]
    BY <1>2 DEF TypeOK
  <2>2. ReadyAt(q, e)
    BY DEF ReadyInv
  <2> QED  BY <1>2, <2>1, <2>2 DEF ReadyAt, Reads, TypeOK, LinkType
<1>11. CloseInv' /\ \A r \in Proc : Closes(r)' = Closes(r)
  <2>1. \A r \in Proc :
          /\ Before(r)' <=> Before(r)
          /\ After(r)' <=> After(r)
          /\ \A s \in {"LOCAL_CLOSE", "REMOTE_CLOSE", "CLOSE_ACKED"} : vc'[r] = s <=> vc[r] = s
    BY <1>2 DEF Before, After, TypeOK
  <2> QED  BY <2>1, ClosingStays
<1>12. ASSUME NEW r \in Proc PROVE StreamTo(r)'
  <2>1. \A e \in Proc :
           \/ wire'[r][e] = wire[r][e] /\ Opening(r, e)' = Opening(r, e)
           \/ wire[r][e] = Opening(r, e) /\ wire'[r][e] = Opening(r, e)'
    BY <1>2, <1>12, Sides DEF Opening, WinnerInv, LoserInv, TypeOK, Opened
  <2>2. conn[Other(r)][Winner] \in Opened => conn'[Other(r)][Winner] \in Opened
    BY <1>2, <1>12, Sides DEF Opened, TypeOK, WinnerInv
  <2>3. Closes(Other(r))' = Closes(Other(r)) /\ UNCHANGED <<sendq, received, sent>>
    BY <1>2, <1>11, <1>12
  <2> QED  BY <1>3, <1>12, <2>1, <2>2, <2>3, StreamStays
<1> QED  BY <1>1, <1>4, <1>5, <1>6, <1>7, <1>8, <1>9, <1>10, <1>11, <1>12 DEF StreamInv

\* The request is written, and p waits for the response.
LEMMA ReqWrittenLinks ==
    ASSUME LinkInv, NEW p \in Proc, NEW c \in Proc, HandleReqWritten(p, c)
    PROVE  LinkInv'
<1> USE DEF LinkInv, IInv, Proc, Other, None
<1>1. IInv'
  BY HandleReqWrittenKeeps
<1>2. /\ c = p /\ conn[p][p] = "OPEN_CSEND" /\ wire[Other(p)][p] = <<>>
      /\ conn' = [conn EXCEPT ![p][p] = "OPEN_CRECV"]
      /\ ready' = [ready EXCEPT ![p] = @ \ {<<"out", p>>}]
      /\ <<OpenReq, PgId>> \in Seq(Pkt)
      /\ wire' = [wire EXCEPT ![Other(p)][p] = <<OpenReq, PgId>>]
      /\ UNCHANGED <<plan, phase, sent, received, vc, ch, sendq, ops>>
  <2>1. /\ conn[p][c] = "OPEN_CSEND"
        /\ conn' = [conn EXCEPT ![p][c] = "OPEN_CRECV"]
        /\ ready' = [ready EXCEPT ![p] = @ \ {<<"out", c>>}]
        /\ wire' = [wire EXCEPT ![Other(p)][c] = @ \o <<OpenReq, PgId>>]
        /\ UNCHANGED <<plan, phase, sent, received, vc, ch, sendq, ops>>
    BY DEF HandleReqWritten, Handles, MovesTo, program
  <2>2. c = p
    BY <2>1, Sides DEF WinnerInv, LoserInv, Opened
  <2>3. Opening(Other(p), p) = <<>>
    BY <2>1, <2>2 DEF Opening
  <2>4. wire[Other(p)][p] = <<>>
    BY <2>1, <2>2, <2>3, OnlyOpening DEF Opened
  <2>5. <<OpenReq, PgId>> \in Seq(Pkt)
    BY Short
  <2>6. <<>> \o <<OpenReq, PgId>> = <<OpenReq, PgId>>
    BY <2>5, ConcatEmptySeq
  <2> QED  BY <2>1, <2>2, <2>4, <2>5, <2>6 DEF LinkType
<1>3. Winner' = Winner /\ Loser' = Loser
  BY <1>2 DEF Winner, Loser, TypeOK
<1>4. LinkType'
  BY <1>2, WireTyped DEF LinkType
<1>5. WinnerInv'
  BY <1>2, <1>3, Sides DEF WinnerInv, LoserInv, Opened, TypeOK
<1>6. LoserInv'
  BY <1>2, <1>3, Sides DEF WinnerInv, LoserInv, Opened, TypeOK
<1>7. ChInv'
  BY <1>2, <1>3, Sides DEF WinnerInv, LoserInv, Opened, TypeOK, ChInv, Candidate
<1>8. PhaseInv'
  BY <1>2 DEF PhaseInv, TypeOK
<1>9. VcInv'
  BY <1>2, <1>3, <1>7, Sides DEF VcInv, Silent, WinnerInv, LoserInv, Opened, TypeOK, ChInv, Candidate
<1>10. ReadyInv'
  <2> SUFFICES ASSUME NEW q \in Proc, NEW e \in Proc PROVE ReadyAt(q, e)'
    BY DEF ReadyInv
  <2>1. /\ \A ev : ev \in ready'[q] => ev \in ready[q]
        /\ <<"out", c>> \notin ready'[p]
    BY <1>2 DEF TypeOK
  <2>2. ReadyAt(q, e)
    BY DEF ReadyInv
  <2> QED  BY <1>2, <2>1, <2>2 DEF ReadyAt, Reads, TypeOK, LinkType
<1>11. CloseInv' /\ \A r \in Proc : Closes(r)' = Closes(r)
  <2>1. \A r \in Proc :
          /\ Before(r)' <=> Before(r)
          /\ After(r)' <=> After(r)
          /\ \A s \in {"LOCAL_CLOSE", "REMOTE_CLOSE", "CLOSE_ACKED"} : vc'[r] = s <=> vc[r] = s
    BY <1>2 DEF Before, After, TypeOK
  <2> QED  BY <2>1, ClosingStays
<1>12. ASSUME NEW r \in Proc PROVE StreamTo(r)'
  <2>1. \A e \in Proc :
           \/ wire'[r][e] = wire[r][e] /\ Opening(r, e)' = Opening(r, e)
           \/ wire[r][e] = Opening(r, e) /\ wire'[r][e] = Opening(r, e)'
    <3> SUFFICES ASSUME NEW e \in Proc
                 PROVE  \/ wire'[r][e] = wire[r][e] /\ Opening(r, e)' = Opening(r, e)
                        \/ wire[r][e] = Opening(r, e) /\ wire'[r][e] = Opening(r, e)'
      OBVIOUS
    <3>1. CASE r = Other(p) /\ e = p
      <4>1. Opening(Other(p), p) = <<>>
        BY <1>2, Sides DEF Opening, WinnerInv, LoserInv, Opened
      <4>2. Opening(Other(p), p)' = <<OpenReq, PgId>>
        BY <1>2, Sides DEF Opening, WinnerInv, LoserInv, Opened, TypeOK, OpenReq, PgId, OpenResp
      <4> QED  BY <1>2, <3>1, <4>1, <4>2 DEF LinkType
    <3>2. CASE r # Other(p) \/ e # p
      <4>1. wire'[r][e] = wire[r][e]
        BY <1>2, <1>12, <3>2 DEF LinkType
      <4>2. Opening(r, e)' = Opening(r, e)
        BY <1>2, <1>12, <3>2, Sides DEF Opening, WinnerInv, LoserInv, Opened, TypeOK, OpenReq, PgId, OpenResp
      <4> QED  BY <4>1, <4>2
    <3> QED  BY <3>1, <3>2
  <2>2. conn[Other(r)][Winner] \in Opened => conn'[Other(r)][Winner] \in Opened
    BY <1>2, <1>12, Sides DEF Opened, TypeOK, WinnerInv
  <2>3. Closes(Other(r))' = Closes(Other(r)) /\ UNCHANGED <<sendq, received, sent>>
    BY <1>2, <1>11, <1>12
  <2> QED  BY <1>3, <1>12, <2>1, <2>2, <2>3, StreamStays
<1> QED  BY <1>1, <1>4, <1>5, <1>6, <1>7, <1>8, <1>9, <1>10, <1>11, <1>12 DEF StreamInv

\* Process p reads the request, and will read the process group of the one
\* that asks.
LEMMA OpenReqLinks ==
    ASSUME LinkInv, NEW p \in Proc, NEW c \in Proc, HandleOpenReq(p, c)
    PROVE  LinkInv'
<1> USE DEF LinkInv, IInv, Proc, Other, None
<1>1. IInv'
  BY HandleOpenReqKeeps
<1>2. /\ c = Other(p) /\ conn[p][c] = "OPEN_LRECV_PKT" /\ conn[c][c] = "OPEN_CRECV"
      /\ wire[p][c] = <<OpenReq, PgId>>
      /\ conn' = [conn EXCEPT ![p][c] = "OPEN_LRECV_DATA"]
      /\ ready' = [ready EXCEPT ![p] = @ \ {<<"in", c>>}]
      /\ <<PgId>> \in Seq(Pkt)
      /\ wire' = [wire EXCEPT ![p][c] = <<PgId>>]
      /\ UNCHANGED <<plan, phase, sent, received, vc, ch, sendq, ops>>
  <2>1. /\ conn[p][c] = "OPEN_LRECV_PKT" /\ wire[p][c] # <<>>
        /\ conn' = [conn EXCEPT ![p][c] = "OPEN_LRECV_DATA"]
        /\ ready' = [ready EXCEPT ![p] = @ \ {<<"in", c>>}]
        /\ wire' = [wire EXCEPT ![p][c] = Tail(wire[p][c])]
        /\ UNCHANGED <<plan, phase, sent, received, vc, ch, sendq, ops>>
    BY DEF HandleOpenReq, Handles, MovesTo, program, Consumed, ReadyInv, ReadyAt
  <2>2. c = Other(p) /\ conn[c][c] \notin Opened
    BY <2>1, Sides DEF WinnerInv, LoserInv, Opened
  <2>3. wire[p][c] = Opening(p, c)
    BY <2>1, <2>2, OnlyOpening
  <2>4. conn[c][c] = "OPEN_CRECV" /\ wire[p][c] = <<OpenReq, PgId>>
    BY <2>1, <2>2, <2>3 DEF Opening
  <2>5. <<PgId>> \in Seq(Pkt) /\ Tail(<<OpenReq, PgId>>) = <<PgId>>
    BY Short
  <2> QED  BY <2>1, <2>2, <2>4, <2>5
<1>3. Winner' = Winner /\ Loser' = Loser
  BY <1>2 DEF Winner, Loser, TypeOK
<1>4. LinkType'
  BY <1>2, WireTyped DEF LinkType
<1>5. WinnerInv'
  BY <1>2, <1>3, Sides DEF WinnerInv, LoserInv, Opened, TypeOK
<1>6. LoserInv'
  BY <1>2, <1>3, Sides DEF WinnerInv, LoserInv, Opened, TypeOK
<1>7. ChInv'
  BY <1>2, <1>3, Sides DEF WinnerInv, LoserInv, Opened, TypeOK, ChInv, Candidate
<1>8. PhaseInv'
  BY <1>2 DEF PhaseInv, TypeOK
<1>9. VcInv'
  BY <1>2, <1>3, <1>7, Sides DEF VcInv, Silent, WinnerInv, LoserInv, Opened, TypeOK, ChInv, Candidate
<1>10. ReadyInv'
  <2> SUFFICES ASSUME NEW q \in Proc, NEW e \in Proc PROVE ReadyAt(q, e)'
    BY DEF ReadyInv
  <2>1. /\ \A ev : ev \in ready'[q] => ev \in ready[q]
        /\ <<"in", c>> \notin ready'[p]
    BY <1>2 DEF TypeOK
  <2>2. ReadyAt(q, e)
    BY DEF ReadyInv
  <2> QED  BY <1>2, <2>1, <2>2 DEF ReadyAt, Reads, TypeOK, LinkType
<1>11. CloseInv' /\ \A r \in Proc : Closes(r)' = Closes(r)
  <2>1. \A r \in Proc :
          /\ Before(r)' <=> Before(r)
          /\ After(r)' <=> After(r)
          /\ \A s \in {"LOCAL_CLOSE", "REMOTE_CLOSE", "CLOSE_ACKED"} : vc'[r] = s <=> vc[r] = s
    BY <1>2 DEF Before, After, TypeOK
  <2> QED  BY <2>1, ClosingStays
<1>12. ASSUME NEW r \in Proc PROVE StreamTo(r)'
  <2>1. \A e \in Proc :
           \/ wire'[r][e] = wire[r][e] /\ Opening(r, e)' = Opening(r, e)
           \/ wire[r][e] = Opening(r, e) /\ wire'[r][e] = Opening(r, e)'
    <3> SUFFICES ASSUME NEW e \in Proc
                 PROVE  \/ wire'[r][e] = wire[r][e] /\ Opening(r, e)' = Opening(r, e)
                        \/ wire[r][e] = Opening(r, e) /\ wire'[r][e] = Opening(r, e)'
      OBVIOUS
    <3>1. CASE r = p /\ e = c
      <4>1. Opening(p, c) = <<OpenReq, PgId>>
        BY <1>2, Sides DEF Opening, WinnerInv, LoserInv, Opened
      <4>2. Opening(p, c)' = <<PgId>>
        BY <1>2, Sides DEF Opening, WinnerInv, LoserInv, Opened, TypeOK, OpenReq, PgId, OpenResp
      <4> QED  BY <1>2, <3>1, <4>1, <4>2 DEF LinkType
    <3>2. CASE r # p \/ e # c
      <4>1. wire'[r][e] = wire[r][e]
        BY <1>2, <1>12, <3>2 DEF LinkType
      <4>2. Opening(r, e)' = Opening(r, e)
        BY <1>2, <1>12, <3>2, Sides DEF Opening, WinnerInv, LoserInv, Opened, TypeOK, OpenReq, PgId, OpenResp
      <4> QED  BY <4>1, <4>2
    <3> QED  BY <3>1, <3>2
  <2>2. conn[Other(r)][Winner] \in Opened => conn'[Other(r)][Winner] \in Opened
    BY <1>2, <1>12, Sides DEF Opened, TypeOK, WinnerInv
  <2>3. Closes(Other(r))' = Closes(Other(r)) /\ UNCHANGED <<sendq, received, sent>>
    BY <1>2, <1>11, <1>12
  <2> QED  BY <1>3, <1>12, <2>1, <2>2, <2>3, StreamStays
<1> QED  BY <1>1, <1>4, <1>5, <1>6, <1>7, <1>8, <1>9, <1>10, <1>11, <1>12 DEF StreamInv

\* Process p reads the process group and takes the connection or refuses it.
\* Process 1, which has asked, refuses the request of process 0, since its
\* own connection is not closed yet: the assumption on Others.
LEMMA ConnOpenLinks ==
    ASSUME LinkInv, 1 \notin Others, NEW p \in Proc, NEW c \in Proc, HandleConnOpen(p, c)
    PROVE  LinkInv'
<1> USE DEF LinkInv, IInv, Proc, Other, None
<1>1. IInv'
  BY HandleConnOpenKeeps
<1>2. /\ c = Other(p) /\ conn[p][c] = "OPEN_LRECV_DATA" /\ conn[c][c] = "OPEN_CRECV"
      /\ wire[p][c] = <<PgId>>
      /\ conn' = [conn EXCEPT ![p][c] = IF c = Winner THEN "OPEN_LSEND" ELSE "OPEN_LSEND_NACK"]
      /\ ch' = IF c = Winner THEN [ch EXCEPT ![p] = [state |-> "CONNECTING", conn |-> c]] ELSE ch
      /\ ready' = [ready EXCEPT ![p] = @ \ {<<"in", c>>}]
      /\ <<>> \in Seq(Pkt)
      /\ wire' = [wire EXCEPT ![p][c] = <<>>]
      /\ vc' = [vc EXCEPT ![p] = IF vc[p] = "INACTIVE" THEN "ACTIVE" ELSE vc[p]]
      /\ vc[p] = "INACTIVE" => phase[p] = "running"
      /\ vc[p] # "INACTIVE_CLOSED"
      /\ UNCHANGED <<plan, phase, sent, received, sendq, ops>>
  <2>1. /\ conn[p][c] = "OPEN_LRECV_DATA" /\ wire[p][c] # <<>>
        /\ IF Accepts(p)
           THEN /\ ch' = [ch EXCEPT ![p] = [state |-> "CONNECTING", conn |-> c]]
                /\ conn' = [conn EXCEPT ![p][c] = "OPEN_LSEND"]
           ELSE /\ UNCHANGED ch
                /\ conn' = [conn EXCEPT ![p][c] = "OPEN_LSEND_NACK"]
        /\ ready' = [ready EXCEPT ![p] = @ \ {<<"in", c>>}]
        /\ wire' = [wire EXCEPT ![p][c] = Tail(wire[p][c])]
        /\ vc' = [vc EXCEPT ![p] = IF @ = "INACTIVE" THEN "ACTIVE" ELSE @]
        /\ UNCHANGED <<plan, phase, sent, received, sendq, ops>>
    BY DEF HandleConnOpen, Handles, MovesTo, program, Consumed, ReadyInv, ReadyAt, SetActive
  <2>2. c = Other(p) /\ conn[c][c] \notin Opened
    BY <2>1, Sides DEF WinnerInv, LoserInv, Opened
  <2>3. wire[p][c] = Opening(p, c)
    BY <2>1, <2>2, OnlyOpening
  <2>4. conn[c][c] = "OPEN_CRECV" /\ wire[p][c] = <<PgId>>
    BY <2>1, <2>2, <2>3 DEF Opening
  <2>5. <<>> \in Seq(Pkt) /\ Tail(<<PgId>>) = <<>>
    BY Short
  <2>6. Progressing(p)
    BY DEF HandleConnOpen, Handles
  <2>7. conn[p][Winner] # "CLOSED"
    <3>1. CASE c = Winner
      BY <2>1, <3>1
    <3>2. CASE c # Winner
      <4>1. p = 1 /\ Winner = 1
        BY <2>1, <2>2, <3>2, Sides
      <4> QED  BY <2>6, <4>1 DEF VcInv, NormalTermination, Progressing
    <3> QED  BY <3>1, <3>2
  <2>8. Accepts(p) <=> c = Winner
    BY <2>1, <2>2, <2>4, <2>7, Sides DEF Accepts, ChInv, Candidate, WinnerInv, LoserInv, Opened
  <2>9. vc[p] = "INACTIVE" => phase[p] = "running"
    BY <2>7 DEF VcInv
  <2>10. vc[p] # "INACTIVE_CLOSED"
    BY <2>2, <2>4 DEF VcInv
  <2> QED  BY <2>1, <2>2, <2>4, <2>5, <2>8, <2>9, <2>10
<1>3. Winner' = Winner /\ Loser' = Loser
  BY <1>2 DEF Winner, Loser, TypeOK
<1>4. LinkType'
  BY <1>2, WireTyped DEF LinkType
<1>5. WinnerInv'
  BY <1>2, <1>3, Sides DEF WinnerInv, LoserInv, Opened, TypeOK
<1>6. LoserInv'
  BY <1>2, <1>3, Sides DEF WinnerInv, LoserInv, Opened, TypeOK
<1>7. ChInv'
  BY <1>2, <1>3, Sides DEF WinnerInv, LoserInv, Opened, TypeOK, ChInv, Candidate
<1>8. PhaseInv'
  BY <1>2 DEF PhaseInv, TypeOK
<1>9. VcInv'
  BY <1>2, <1>3, <1>7, Sides DEF VcInv, Silent, WinnerInv, LoserInv, Opened, TypeOK, ChInv, Candidate
<1>10. ReadyInv'
  <2> SUFFICES ASSUME NEW q \in Proc, NEW e \in Proc PROVE ReadyAt(q, e)'
    BY DEF ReadyInv
  <2>1. /\ \A ev : ev \in ready'[q] => ev \in ready[q]
        /\ <<"in", c>> \notin ready'[p]
    BY <1>2 DEF TypeOK
  <2>2. ReadyAt(q, e)
    BY DEF ReadyInv
  <2> QED  BY <1>2, <2>1, <2>2 DEF ReadyAt, Reads, TypeOK, LinkType
<1>11. CloseInv' /\ \A r \in Proc : Closes(r)' = Closes(r)
  <2>1. \A r \in Proc :
          /\ Before(r)' <=> Before(r)
          /\ After(r)' <=> After(r)
          /\ \A s \in {"LOCAL_CLOSE", "REMOTE_CLOSE", "CLOSE_ACKED"} : vc'[r] = s <=> vc[r] = s
    BY <1>2 DEF Before, After, TypeOK
  <2> QED  BY <2>1, ClosingStays
<1>12. ASSUME NEW r \in Proc PROVE StreamTo(r)'
  <2>1. \A e \in Proc :
           \/ wire'[r][e] = wire[r][e] /\ Opening(r, e)' = Opening(r, e)
           \/ wire[r][e] = Opening(r, e) /\ wire'[r][e] = Opening(r, e)'
    <3> SUFFICES ASSUME NEW e \in Proc
                 PROVE  \/ wire'[r][e] = wire[r][e] /\ Opening(r, e)' = Opening(r, e)
                        \/ wire[r][e] = Opening(r, e) /\ wire'[r][e] = Opening(r, e)'
      OBVIOUS
    <3>1. CASE r = p /\ e = c
      <4>1. Opening(p, c) = <<PgId>>
        BY <1>2, Sides DEF Opening, WinnerInv, LoserInv, Opened
      <4>2. Opening(p, c)' = <<>>
        BY <1>2, Sides DEF Opening, WinnerInv, LoserInv, Opened, TypeOK, OpenReq, PgId, OpenResp
      <4> QED  BY <1>2, <3>1, <4>1, <4>2 DEF LinkType
    <3>2. CASE r # p \/ e # c
      <4>1. wire'[r][e] = wire[r][e]
        BY <1>2, <1>12, <3>2 DEF LinkType
      <4>2. Opening(r, e)' = Opening(r, e)
        BY <1>2, <1>12, <3>2, Sides DEF Opening, WinnerInv, LoserInv, Opened, TypeOK, OpenReq, PgId, OpenResp
      <4> QED  BY <4>1, <4>2
    <3> QED  BY <3>1, <3>2
  <2>2. conn[Other(r)][Winner] \in Opened => conn'[Other(r)][Winner] \in Opened
    BY <1>2, <1>12, Sides DEF Opened, TypeOK, WinnerInv
  <2>3. Closes(Other(r))' = Closes(Other(r)) /\ UNCHANGED <<sendq, received, sent>>
    BY <1>2, <1>11, <1>12
  <2> QED  BY <1>3, <1>12, <2>1, <2>2, <2>3, StreamStays
<1> QED  BY <1>1, <1>4, <1>5, <1>6, <1>7, <1>8, <1>9, <1>10, <1>11, <1>12 DEF StreamInv

\* The response is written; the connection that was taken is in use, and the
\* one that was refused is closing.
LEMMA RespWrittenLinks ==
    ASSUME LinkInv, NEW p \in Proc, NEW c \in Proc, HandleRespWritten(p, c)
    PROVE  LinkInv'
<1> USE DEF LinkInv, IInv, Proc, Other, None
<1>1. IInv'
  BY HandleRespWrittenKeeps
<1>2. /\ c = Other(p) /\ conn[c][c] = "OPEN_CRECV" /\ wire[c][c] = <<>>
      /\ conn[p][c] = IF c = Winner THEN "OPEN_LSEND" ELSE "OPEN_LSEND_NACK"
      /\ conn' = [conn EXCEPT ![p][c] = IF c = Winner THEN "CONNECTED" ELSE "CLOSING"]
      /\ ch' = IF c = Winner THEN [ch EXCEPT ![p] = [state |-> "CONNECTED", conn |-> c]] ELSE ch
      /\ ready' = [ready EXCEPT ![p] = @ \ {<<"out", c>>}]
      /\ <<IF c = Winner THEN OpenResp(TRUE) ELSE OpenResp(FALSE)>> \in Seq(Pkt)
      /\ wire' = [wire EXCEPT ![c][c] = <<IF c = Winner THEN OpenResp(TRUE) ELSE OpenResp(FALSE)>>]
      /\ UNCHANGED <<plan, phase, sent, received, sendq, ops, vc>>
  <2>1. /\ \/ /\ conn[p][c] = "OPEN_LSEND"
              /\ conn' = [conn EXCEPT ![p][c] = "CONNECTED"]
              /\ ch' = [ch EXCEPT ![p].state = "CONNECTED"]
              /\ wire' = [wire EXCEPT ![Other(p)][c] = Append(@, OpenResp(TRUE))]
           \/ /\ conn[p][c] = "OPEN_LSEND_NACK"
              /\ conn' = [conn EXCEPT ![p][c] = "CLOSING"]
              /\ wire' = [wire EXCEPT ![Other(p)][c] = Append(@, OpenResp(FALSE))]
              /\ UNCHANGED ch
        /\ ready' = [ready EXCEPT ![p] = @ \ {<<"out", c>>}]
        /\ UNCHANGED <<plan, phase, sent, received, sendq, ops, vc>>
    BY DEF HandleRespWritten, Handles, MovesTo, program
  <2>2. /\ c = Other(p) /\ conn[c][c] = "OPEN_CRECV"
        /\ conn[p][c] = IF c = Winner THEN "OPEN_LSEND" ELSE "OPEN_LSEND_NACK"
    BY <2>1, Sides DEF WinnerInv, LoserInv, Opened
  <2>3. wire[c][c] = <<>>
    <3>1. Opening(c, c) = <<>>
      BY <2>1, <2>2 DEF Opening
    <3>2. conn[p][c] \notin Opened
      BY <2>1 DEF Opened
    <3> QED  BY <2>2, <3>1, <3>2, OnlyOpening
  <2>4. \A ack \in BOOLEAN : Append(<<>>, OpenResp(ack)) = <<OpenResp(ack)>> /\ <<OpenResp(ack)>> \in Seq(Pkt)
    BY Short
  <2>5. CASE c = Winner
    <3>2. ch[p] = [state |-> "CONNECTING", conn |-> c]
      BY <2>2, <2>5 DEF ChInv, Candidate
    <3>3. [ch EXCEPT ![p].state = "CONNECTED"] = [ch EXCEPT ![p] = [state |-> "CONNECTED", conn |-> c]]
      <4>1. [state |-> "CONNECTING", conn |-> c].state = "CONNECTING"
        OBVIOUS
      <4>2. [ch[p] EXCEPT !.state = "CONNECTED"] = [state |-> "CONNECTED", conn |-> c]
        BY <3>2
      <4> QED  BY <4>2
    <3>4. [wire EXCEPT ![c][c] = Append(@, OpenResp(TRUE))] = [wire EXCEPT ![c][c] = <<OpenResp(TRUE)>>]
      BY <2>3, <2>4 DEF LinkType
    <3> QED  BY <2>1, <2>2, <2>3, <2>4, <2>5, <3>3, <3>4
  <2>6. CASE c # Winner
    <3>4. [wire EXCEPT ![c][c] = Append(@, OpenResp(FALSE))] = [wire EXCEPT ![c][c] = <<OpenResp(FALSE)>>]
      BY <2>3, <2>4 DEF LinkType
    <3> QED  BY <2>1, <2>2, <2>3, <2>4, <2>6, <3>4
  <2> QED  BY <2>5, <2>6
<1>3. Winner' = Winner /\ Loser' = Loser
  BY <1>2 DEF Winner, Loser, TypeOK
<1>4. LinkType'
  BY <1>2, WireTyped DEF LinkType
<1>5. WinnerInv'
  BY <1>2, <1>3, Sides DEF WinnerInv, LoserInv, Opened, TypeOK
<1>6. LoserInv'
  BY <1>2, <1>3, Sides DEF WinnerInv, LoserInv, Opened, TypeOK
<1>7. ChInv'
  BY <1>2, <1>3, Sides DEF WinnerInv, LoserInv, Opened, TypeOK, ChInv, Candidate
<1>8. PhaseInv'
  BY <1>2 DEF PhaseInv, TypeOK
<1>9. VcInv'
  BY <1>2, <1>3, <1>7, Sides DEF VcInv, Silent, WinnerInv, LoserInv, Opened, TypeOK, ChInv, Candidate
<1>10. ReadyInv'
  <2> SUFFICES ASSUME NEW q \in Proc, NEW e \in Proc PROVE ReadyAt(q, e)'
    BY DEF ReadyInv
  <2>1. /\ \A ev : ev \in ready'[q] => ev \in ready[q]
        /\ <<"out", c>> \notin ready'[p]
    BY <1>2 DEF TypeOK
  <2>2. ReadyAt(q, e)
    BY DEF ReadyInv
  <2> QED  BY <1>2, <2>1, <2>2 DEF ReadyAt, Reads, TypeOK, LinkType
<1>11. CloseInv' /\ \A r \in Proc : Closes(r)' = Closes(r)
  <2>1. \A r \in Proc :
          /\ Before(r)' <=> Before(r)
          /\ After(r)' <=> After(r)
          /\ \A s \in {"LOCAL_CLOSE", "REMOTE_CLOSE", "CLOSE_ACKED"} : vc'[r] = s <=> vc[r] = s
    BY <1>2 DEF Before, After, TypeOK
  <2> QED  BY <2>1, ClosingStays
<1>12. ASSUME NEW r \in Proc PROVE StreamTo(r)'
  <2>1. \A e \in Proc :
           \/ wire'[r][e] = wire[r][e] /\ Opening(r, e)' = Opening(r, e)
           \/ wire[r][e] = Opening(r, e) /\ wire'[r][e] = Opening(r, e)'
    <3> SUFFICES ASSUME NEW e \in Proc
                 PROVE  \/ wire'[r][e] = wire[r][e] /\ Opening(r, e)' = Opening(r, e)
                        \/ wire[r][e] = Opening(r, e) /\ wire'[r][e] = Opening(r, e)'
      OBVIOUS
    <3>1. CASE r = c /\ e = c
      <4>1. Opening(c, c) = <<>>
        BY <1>2, Sides DEF Opening, WinnerInv, LoserInv, Opened
      <4>2. Opening(c, c)' = <<IF c = Winner THEN OpenResp(TRUE) ELSE OpenResp(FALSE)>>
        <5>1. CASE c = Winner
          <6>1. conn'[c][c] = "OPEN_CRECV" /\ conn'[Other(c)][c] = "CONNECTED"
            BY <1>2, <5>1 DEF TypeOK
          <6> QED  BY <5>1, <6>1 DEF Opening, OpenResp
        <5>2. CASE c # Winner
          <6>1. conn'[c][c] = "OPEN_CRECV" /\ conn'[Other(c)][c] = "CLOSING"
            BY <1>2, <5>2 DEF TypeOK
          <6> QED  BY <5>2, <6>1 DEF Opening, OpenResp
        <5> QED  BY <5>1, <5>2
      <4> QED  BY <1>2, <3>1, <4>1, <4>2 DEF LinkType
    <3>2. CASE r # c \/ e # c
      <4>1. wire'[r][e] = wire[r][e]
        BY <1>2, <1>12, <3>2 DEF LinkType
      <4>2. Opening(r, e)' = Opening(r, e)
        BY <1>2, <1>12, <3>2, Sides DEF Opening, WinnerInv, LoserInv, Opened, TypeOK, OpenReq, PgId, OpenResp
      <4> QED  BY <4>1, <4>2
    <3> QED  BY <3>1, <3>2
  <2>2. conn[Other(r)][Winner] \in Opened => conn'[Other(r)][Winner] \in Opened
    BY <1>2, <1>12, Sides DEF Opened, TypeOK, WinnerInv
  <2>3. Closes(Other(r))' = Closes(Other(r)) /\ UNCHANGED <<sendq, received, sent>>
    BY <1>2, <1>11, <1>12
  <2> QED  BY <1>3, <1>12, <2>1, <2>2, <2>3, StreamStays
<1> QED  BY <1>1, <1>4, <1>5, <1>6, <1>7, <1>8, <1>9, <1>10, <1>11, <1>12 DEF StreamInv

\* The response accepts the connection of the winner and refuses that of the
\* loser.
LEMMA OpenRespRead ==
    ASSUME LinkInv, NEW p \in Proc, conn[p][p] = "OPEN_CRECV", wire[p][p] # <<>>
    PROVE  /\ Head(wire[p][p]).ack <=> p = Winner
           /\ p = Winner => conn[Other(p)][p] = "CONNECTED"
           /\ p # Winner => /\ conn[Other(p)][p] \in {"CLOSING", "CLOSED"}
                            /\ wire[p][p] = <<OpenResp(FALSE)>>
<1> USE DEF LinkInv, Proc, Other
<1>1. CASE p = Winner
  <2>1. PICK d \in Seq(Pkt) : /\ wire[p][p] = Opening(p, p) \o d
                              /\ d # <<>> => conn[Other(p)][p] \in Opened
    BY <1>1 DEF StreamInv, StreamTo, Carries
  <2>2. conn[Other(p)][p] = "CONNECTED" \/ conn[Other(p)][p] \notin Opened
    BY <1>1, Sides DEF WinnerInv, Opened
  <2>3. conn[Other(p)][p] = "CONNECTED"
    <3> SUFFICES ASSUME conn[Other(p)][p] \notin Opened PROVE FALSE
      BY <2>2
    <3>1. Opening(p, p) = <<>>
      BY DEF Opening, Opened
    <3>2. d = <<>>
      BY <2>1
    <3>3. <<>> \o <<>> = <<>>
      BY ConcatEmptySeq, EmptySeq
    <3> QED  BY <2>1, <3>1, <3>2, <3>3
  <2>4. Opening(p, p) = <<OpenResp(TRUE)>>
    BY <2>3 DEF Opening
  <2>5. Head(wire[p][p]) = OpenResp(TRUE)
    <3> DEFINE yes == <<OpenResp(TRUE)>>
    <3>1. yes \in Seq(Pkt) /\ yes # <<>> /\ Head(yes) = OpenResp(TRUE)
      BY Short
    <3> HIDE DEF yes
    <3>2. Head(yes \o d) = Head(yes)
      BY <3>1, Takes
    <3> QED  BY <2>1, <2>4, <3>1, <3>2 DEF yes
  <2> QED  BY <1>1, <2>3, <2>5 DEF OpenResp
<1>2. CASE p # Winner
  <2>1. p = Loser /\ wire[p][p] = Opening(p, p)
    BY <1>2, Sides DEF StreamInv, StreamTo
  <2>2. conn[Other(p)][p] \in {"CLOSING", "CLOSED"} /\ wire[p][p] = <<OpenResp(FALSE)>>
    <3>1. conn[Other(p)][p] \notin {"CONNECTED"}
      BY <1>2, <2>1, Sides DEF LoserInv
    <3> QED  BY <2>1, <3>1 DEF Opening
  <2> QED  BY <1>2, <2>2 DEF OpenResp
<1> QED  BY <1>1, <1>2

\* Process p reads that its request lost, and closes the connection, which
\* its VC no longer holds or holds as an earlier candidate.
LEMMA RefusedLinks ==
    ASSUME LinkInv, NEW p \in Proc, NEW c \in Proc, HandleOpenResp(p, c), c # Winner
    PROVE  LinkInv'
<1> USE DEF LinkInv, IInv, Proc, Other, None
<1>1. IInv'
  BY HandleOpenRespKeeps
<1>2. /\ c = p /\ p = 0 /\ Winner = 1 /\ Loser = 0
      /\ conn[0][0] = "OPEN_CRECV" /\ conn[1][0] \in {"CLOSING", "CLOSED"}
      /\ wire[0][0] = <<OpenResp(FALSE)>>
      /\ conn' = [conn EXCEPT ![0][0] = "CLOSING"]
      /\ ch' = IF ch[0].conn = 0 THEN [ch EXCEPT ![0] = [state |-> "CONNECTING", conn |-> None]] ELSE ch
      /\ ready' = [ready EXCEPT ![0] = @ \ {<<"in", 0>>}]
      /\ <<>> \in Seq(Pkt)
      /\ wire' = [wire EXCEPT ![0][0] = <<>>]
      /\ UNCHANGED <<plan, phase, sent, received, sendq, ops, vc>>
  <2>1. /\ conn[p][c] = "OPEN_CRECV" /\ wire[p][c] # <<>>
        /\ IF Head(wire[p][c]).ack
           THEN /\ conn' = [conn EXCEPT ![p][c] = "CONNECTED"]
                /\ ch' = [ch EXCEPT ![p].state = "CONNECTED"]
           ELSE /\ conn' = [conn EXCEPT ![p][c] = "CLOSING"]
                /\ ch' = [ch EXCEPT ![p].conn = Without(p, c)]
        /\ ready' = [ready EXCEPT ![p] = @ \ {<<"in", c>>}]
        /\ wire' = [wire EXCEPT ![p][c] = Tail(wire[p][c])]
        /\ UNCHANGED <<plan, phase, sent, received, sendq, ops, vc>>
    BY DEF HandleOpenResp, Handles, MovesTo, program, Consumed, ReadyInv, ReadyAt
  <2>2. c = p
    BY <2>1, Sides DEF WinnerInv, LoserInv, Opened
  <2>3. p = 0 /\ Winner = 1 /\ Loser = 0
    BY <2>1, <2>2, Sides
  <2>4. /\ ~ Head(wire[p][p]).ack
        /\ conn[Other(p)][p] \in {"CLOSING", "CLOSED"} /\ wire[p][p] = <<OpenResp(FALSE)>>
    BY <2>1, <2>2, OpenRespRead
  <2>5. ch' = IF ch[0].conn = 0 THEN [ch EXCEPT ![0] = [state |-> "CONNECTING", conn |-> None]] ELSE ch
    <3>1. ch[0].conn = 0 => ch[0] = [state |-> "CONNECTING", conn |-> 0]
      BY <2>3 DEF ChInv, Candidate
    <3>2. ch[0].conn = 0 => [ch[0] EXCEPT !.conn = None] = [state |-> "CONNECTING", conn |-> None]
      BY <3>1
    <3>3. [ch[0] EXCEPT !.conn = ch[0].conn] = ch[0]
      BY DEF TypeOK
    <3>4. ch' = [ch EXCEPT ![0] = IF ch[0].conn = 0 THEN [ch[0] EXCEPT !.conn = None] ELSE [ch[0] EXCEPT !.conn = ch[0].conn]]
      BY <2>1, <2>2, <2>3, <2>4 DEF Without, TypeOK
    <3> QED  BY <3>2, <3>3, <3>4 DEF TypeOK
  <2>6. <<>> \in Seq(Pkt) /\ Tail(<<OpenResp(FALSE)>>) = <<>>
    BY Short
  <2> QED  BY <2>1, <2>2, <2>3, <2>4, <2>5, <2>6
<1>3. Winner' = Winner /\ Loser' = Loser
  BY <1>2 DEF Winner, Loser, TypeOK
<1>4. LinkType'
  BY <1>2, WireTyped DEF LinkType
<1>5. WinnerInv'
  BY <1>2, <1>3, Sides DEF WinnerInv, LoserInv, Opened, TypeOK
<1>6. LoserInv'
  BY <1>2, <1>3, Sides DEF WinnerInv, LoserInv, Opened, TypeOK
<1>7. ChInv'
  BY <1>2, <1>3, Sides DEF WinnerInv, LoserInv, Opened, TypeOK, ChInv, Candidate
<1>8. PhaseInv'
  BY <1>2 DEF PhaseInv, TypeOK
<1>9. VcInv'
  BY <1>2, <1>3, <1>7, Sides DEF VcInv, Silent, WinnerInv, LoserInv, Opened, TypeOK, ChInv, Candidate
<1>10. ReadyInv'
  <2> SUFFICES ASSUME NEW q \in Proc, NEW e \in Proc PROVE ReadyAt(q, e)'
    BY DEF ReadyInv
  <2>1. /\ \A ev : ev \in ready'[q] => ev \in ready[q]
        /\ <<"in", c>> \notin ready'[p]
    BY <1>2 DEF TypeOK
  <2>2. ReadyAt(q, e)
    BY DEF ReadyInv
  <2> QED  BY <1>2, <2>1, <2>2 DEF ReadyAt, Reads, TypeOK, LinkType
<1>11. CloseInv' /\ \A r \in Proc : Closes(r)' = Closes(r)
  <2>1. \A r \in Proc :
          /\ Before(r)' <=> Before(r)
          /\ After(r)' <=> After(r)
          /\ \A s \in {"LOCAL_CLOSE", "REMOTE_CLOSE", "CLOSE_ACKED"} : vc'[r] = s <=> vc[r] = s
    BY <1>2 DEF Before, After, TypeOK
  <2> QED  BY <2>1, ClosingStays
<1>12. ASSUME NEW r \in Proc PROVE StreamTo(r)'
  <2>1. \A e \in Proc :
           \/ wire'[r][e] = wire[r][e] /\ Opening(r, e)' = Opening(r, e)
           \/ wire[r][e] = Opening(r, e) /\ wire'[r][e] = Opening(r, e)'
    <3> SUFFICES ASSUME NEW e \in Proc
                 PROVE  \/ wire'[r][e] = wire[r][e] /\ Opening(r, e)' = Opening(r, e)
                        \/ wire[r][e] = Opening(r, e) /\ wire'[r][e] = Opening(r, e)'
      OBVIOUS
    <3>1. CASE r = 0 /\ e = 0
      <4>1. Opening(0, 0) = <<OpenResp(FALSE)>>
        <5>1. conn[0][0] = "OPEN_CRECV" /\ conn[Other(0)][0] \in {"CLOSING", "CLOSED"} /\ conn[Other(0)][0] # "CONNECTED"
          BY <1>2
        <5> QED  BY <5>1 DEF Opening
      <4>2. Opening(0, 0)' = <<>>
        BY <1>2, Sides DEF Opening, WinnerInv, LoserInv, Opened, TypeOK, OpenReq, PgId, OpenResp
      <4> QED  BY <1>2, <3>1, <4>1, <4>2 DEF LinkType
    <3>2. CASE r # 0 \/ e # 0
      <4>1. wire'[r][e] = wire[r][e]
        BY <1>2, <1>12, <3>2 DEF LinkType
      <4>2. Opening(r, e)' = Opening(r, e)
        BY <1>2, <1>12, <3>2, Sides DEF Opening, WinnerInv, LoserInv, Opened, TypeOK, OpenReq, PgId, OpenResp
      <4> QED  BY <4>1, <4>2
    <3> QED  BY <3>1, <3>2
  <2>2. conn[Other(r)][Winner] \in Opened => conn'[Other(r)][Winner] \in Opened
    BY <1>2, <1>12, Sides DEF Opened, TypeOK, WinnerInv
  <2>3. Closes(Other(r))' = Closes(Other(r)) /\ UNCHANGED <<sendq, received, sent>>
    BY <1>2, <1>11, <1>12
  <2> QED  BY <1>3, <1>12, <2>1, <2>2, <2>3, StreamStays
<1> QED  BY <1>1, <1>4, <1>5, <1>6, <1>7, <1>8, <1>9, <1>10, <1>11, <1>12 DEF StreamInv

\* Process p reads that its request is accepted: its VC still holds the
\* connection, and what was queued will be written.
LEMMA AcceptedLinks ==
    ASSUME LinkInv, NEW p \in Proc, NEW c \in Proc, HandleOpenResp(p, c), c = Winner
    PROVE  LinkInv'
<1> USE DEF LinkInv, IInv, Proc, Other, None
<1>1. IInv'
  BY HandleOpenRespKeeps
<1>2. /\ c = p /\ p = Winner /\ Other(p) = Loser
      /\ conn[p][p] = "OPEN_CRECV" /\ conn[Other(p)][p] = "CONNECTED"
      /\ conn' = [conn EXCEPT ![p][p] = "CONNECTED"]
      /\ ch' = [ch EXCEPT ![p] = [state |-> "CONNECTED", conn |-> p]]
      /\ ready' = [ready EXCEPT ![p] = @ \ {<<"in", p>>}]
      /\ Tail(wire[p][p]) \in Seq(Pkt)
      /\ wire' = [wire EXCEPT ![p][p] = Tail(wire[p][p])]
      /\ UNCHANGED <<plan, phase, sent, received, sendq, ops, vc>>
  <2>1. /\ conn[p][c] = "OPEN_CRECV" /\ wire[p][c] # <<>>
        /\ IF Head(wire[p][c]).ack
           THEN /\ conn' = [conn EXCEPT ![p][c] = "CONNECTED"]
                /\ ch' = [ch EXCEPT ![p].state = "CONNECTED"]
           ELSE /\ conn' = [conn EXCEPT ![p][c] = "CLOSING"]
                /\ ch' = [ch EXCEPT ![p].conn = Without(p, c)]
        /\ ready' = [ready EXCEPT ![p] = @ \ {<<"in", c>>}]
        /\ wire' = [wire EXCEPT ![p][c] = Tail(wire[p][c])]
        /\ UNCHANGED <<plan, phase, sent, received, sendq, ops, vc>>
    BY DEF HandleOpenResp, Handles, MovesTo, program, Consumed, ReadyInv, ReadyAt
  <2>2. c = p
    BY <2>1, Sides DEF WinnerInv, LoserInv, Opened
  <2>3. p = Winner /\ Other(p) = Loser
    BY <2>2, Sides
  <2>4. Head(wire[p][p]).ack /\ conn[Other(p)][p] = "CONNECTED"
    BY <2>1, <2>2, <2>3, OpenRespRead
  <2>5. Tail(wire[p][p]) \in Seq(Pkt)
    BY <2>1, <2>2, HeadTailProperties DEF LinkType
  <2>6. ch' = [ch EXCEPT ![p] = [state |-> "CONNECTED", conn |-> p]]
    <3>1. ch[p] = [state |-> "CONNECTING", conn |-> p]
      BY <2>1, <2>2, <2>3 DEF ChInv, Candidate
    <3>2. [ch[p] EXCEPT !.state = "CONNECTED"] = [state |-> "CONNECTED", conn |-> p]
      BY <3>1
    <3> QED  BY <2>1, <2>4, <2>2, <3>2
  <2> QED  BY <2>1, <2>2, <2>3, <2>4, <2>5, <2>6
<1>3. Winner' = Winner /\ Loser' = Loser
  BY <1>2 DEF Winner, Loser, TypeOK
<1>4. LinkType'
  BY <1>2, WireTyped DEF LinkType
<1>5. WinnerInv'
  BY <1>2, <1>3, Sides DEF WinnerInv, LoserInv, Opened, TypeOK
<1>6. LoserInv'
  BY <1>2, <1>3, Sides DEF WinnerInv, LoserInv, Opened, TypeOK
<1>7. ChInv'
  BY <1>2, <1>3, Sides DEF WinnerInv, LoserInv, Opened, TypeOK, ChInv, Candidate
<1>8. PhaseInv'
  BY <1>2 DEF PhaseInv, TypeOK
<1>9. VcInv'
  BY <1>2, <1>3, <1>7, Sides DEF VcInv, Silent, WinnerInv, LoserInv, Opened, TypeOK, ChInv, Candidate
<1>10. ReadyInv'
  <2> SUFFICES ASSUME NEW q \in Proc, NEW e \in Proc PROVE ReadyAt(q, e)'
    BY DEF ReadyInv
  <2>1. /\ \A ev : ev \in ready'[q] => ev \in ready[q]
        /\ <<"in", c>> \notin ready'[p]
    BY <1>2 DEF TypeOK
  <2>2. ReadyAt(q, e)
    BY DEF ReadyInv
  <2> QED  BY <1>2, <2>1, <2>2 DEF ReadyAt, Reads, TypeOK, LinkType
<1>11. CloseInv' /\ \A r \in Proc : Closes(r)' = Closes(r)
  <2>1. \A r \in Proc :
          /\ Before(r)' <=> Before(r)
          /\ After(r)' <=> After(r)
          /\ \A s \in {"LOCAL_CLOSE", "REMOTE_CLOSE", "CLOSE_ACKED"} : vc'[r] = s <=> vc[r] = s
    BY <1>2 DEF Before, After, TypeOK
  <2> QED  BY <2>1, ClosingStays
<1>12. StreamTo(Other(p))'
  <2>1. ASSUME NEW e \in Proc
        PROVE  wire'[Other(p)][e] = wire[Other(p)][e] /\ Opening(Other(p), e)' = Opening(Other(p), e)
    <3>1. wire'[Other(p)] = wire[Other(p)]
      BY <1>2 DEF LinkType
    <3>2. CASE e = p
      <4>1. conn'[p][p] = "CONNECTED" /\ conn'[Other(p)] = conn[Other(p)]
        BY <1>2 DEF TypeOK
      <4> QED  BY <1>2, <3>1, <3>2, <4>1 DEF Opening
    <3>3. CASE e = Other(p)
      <4>1. conn'[p][e] = conn[p][e] /\ conn'[e] = conn[e]
        BY <1>2, <3>3 DEF TypeOK
      <4> QED  BY <3>1, <3>3, <4>1 DEF Opening, OpenResp
    <3> QED  BY <2>1, <3>2, <3>3
  <2>2. conn[p][Winner] \in Opened => conn'[p][Winner] \in Opened
    BY <1>2 DEF Opened
  <2>3. Other(p) \in Proc /\ Other(Other(p)) = p
    OBVIOUS
  <2>4. Closes(p)' = Closes(p) /\ UNCHANGED <<sendq, received, sent>>
    BY <1>2, <1>11
  <2> HIDE DEF Other
  <2> QED  BY <1>3, <2>1, <2>2, <2>3, <2>4, StreamStays
<1>13. StreamTo(p)'
  <2>1. /\ Opening(p, p) = <<OpenResp(TRUE)>> /\ Opening(p, p)' = <<>>
        /\ Opening(p, Loser)' = Opening(p, Loser)
    <3>1. conn'[p][p] = "CONNECTED" /\ conn'[Loser] = conn[Loser] /\ conn'[p][Loser] = conn[p][Loser]
      BY <1>2 DEF TypeOK
    <3>2. Opening(p, p) = <<OpenResp(TRUE)>>
      BY <1>2 DEF Opening
    <3>3. Opening(p, p)' = <<>>
      BY <3>1 DEF Opening
    <3>4. Opening(p, Loser)' = Opening(p, Loser)
      BY <1>2, <1>3, <3>1 DEF Opening, OpenReq, PgId
    <3> QED  BY <3>2, <3>3, <3>4
  <2>2. PICK t \in Closes(Other(p)) : Carries(p, Run(received[p], sent[Other(p)]) \o t)
    BY DEF StreamInv, StreamTo
  <2> DEFINE packets == Run(received[p], sent[Other(p)]) \o t
  <2>3. packets' = packets
    BY <1>2 DEF Run, Message
  <2> HIDE DEF packets
  <2>4. PICK d \in Seq(Pkt) : /\ wire[p][p] = <<OpenResp(TRUE)>> \o d
                              /\ d \o sendq[Other(p)] = packets
                              /\ d # <<>> => conn[Other(p)][p] \in Opened
    BY <1>2, <2>1, <2>2 DEF Carries, packets
  <2>5. Tail(wire[p][p]) = d
    <3> DEFINE yes == <<OpenResp(TRUE)>>
    <3>1. yes \in Seq(Pkt) /\ yes # <<>> /\ Tail(yes) = <<>>
      BY Short
    <3> HIDE DEF yes
    <3>2. Tail(yes \o d) = <<>> \o d
      BY <3>1, Takes
    <3> QED  BY <2>4, <3>2, ConcatEmptySeq DEF yes
  <2>6. wire'[p][p] = Opening(p, p)' \o d
    BY <1>2, <2>1, <2>5, ConcatEmptySeq DEF LinkType
  <2>7. /\ conn'[Other(p)][p] = conn[Other(p)][p]
        /\ wire'[p][Loser] = wire[p][Loser]
    BY <1>2 DEF TypeOK, LinkType
  <2>8. Carries(p, packets)'
    BY <1>2, <1>3, <2>3, <2>4, <2>6, <2>7 DEF Carries
  <2>9. wire'[p][Loser] = Opening(p, Loser)'
    BY <2>1, <2>7 DEF StreamInv, StreamTo
  <2>10. t \in Closes(Other(p))'
    BY <1>11, <2>2
  <2> QED  BY <1>3, <2>8, <2>9, <2>10 DEF StreamTo, packets
<1> QED  BY <1>1, <1>4, <1>5, <1>6, <1>7, <1>8, <1>9, <1>10, <1>11, <1>12, <1>13 DEF StreamInv

\* The socket of a connection is closed, under a VC that is through with the
\* close protocol or under one that has another connection.
LEMMA CloseEventLinks ==
    ASSUME LinkInv, NEW p \in Proc, NEW c \in Proc, HandleCloseEvent(p, c)
    PROVE  LinkInv'
<1> USE DEF LinkInv, IInv, Proc, Other, None
<1>1. IInv'
  BY HandleCloseEventKeeps
<1>2. /\ ready[p] = {} /\ conn[p][c] = "CLOSING" /\ phase[p] # "exited"
      /\ conn' = [conn EXCEPT ![p][c] = "CLOSED"]
      /\ c = Winner => /\ vc[p] = "CLOSED" /\ phase[p] # "running"
                       /\ ch' = [ch EXCEPT ![p] = [state |-> "UNCONNECTED", conn |-> None]]
                       /\ vc' = [vc EXCEPT ![p] = "INACTIVE"]
      /\ c # Winner => UNCHANGED <<ch, vc, ops>>
      /\ \A r \in Proc \ {p} : ops'[r] = ops[r]
      /\ UNCHANGED <<plan, phase, sent, received, sendq, wire, ready>>
  <2>1. /\ ready[p] = {} /\ conn[p][c] = "CLOSING" /\ phase[p] # "exited"
        /\ conn' = [conn EXCEPT ![p][c] = "CLOSED"]
        /\ IF ch[p].conn = c
           THEN /\ vc[p] = "CLOSED"
                /\ ch' = [ch EXCEPT ![p] = [state |-> "UNCONNECTED", conn |-> None]]
                /\ vc' = [vc EXCEPT ![p] = "INACTIVE"]
                /\ ops' = [ops EXCEPT ![p] = @ - 1]
           ELSE UNCHANGED <<ch, vc, ops>>
        /\ UNCHANGED <<plan, phase, sent, received, sendq, wire, ready>>
    BY DEF HandleCloseEvent, MovesTo, program, Progressing
  <2>2. ch[p].conn = c <=> c = Winner
    BY <2>1, Sides DEF ChInv, Candidate
  <2>3. c = Winner => phase[p] # "running"
    BY <2>1 DEF VcInv, PhaseInv
  <2> QED  BY <2>1, <2>2, <2>3 DEF TypeOK
<1>3. Winner' = Winner /\ Loser' = Loser
  BY <1>2 DEF Winner, Loser, TypeOK
<1>4. LinkType'
  BY <1>2, WireTyped DEF LinkType
<1>5. WinnerInv'
  BY <1>2, <1>3, Sides DEF WinnerInv, LoserInv, Opened, TypeOK
<1>6. LoserInv'
  BY <1>2, <1>3, Sides DEF WinnerInv, LoserInv, Opened, TypeOK
<1>7. ChInv'
  BY <1>2, <1>3, Sides DEF WinnerInv, LoserInv, Opened, TypeOK, ChInv, Candidate
<1>8. PhaseInv'
  BY <1>2 DEF PhaseInv, TypeOK
<1>9. VcInv'
  BY <1>2, <1>3, <1>7, Sides DEF VcInv, Silent, WinnerInv, LoserInv, Opened, TypeOK, ChInv, Candidate
<1>10. ReadyInv'
  <2> SUFFICES ASSUME NEW q \in Proc, NEW e \in Proc PROVE ReadyAt(q, e)'
    BY DEF ReadyInv
  <2>1. ReadyAt(q, e)
    BY DEF ReadyInv
  <2>2. q = p => <<"in", e>> \notin ready'[q] /\ <<Listener, e>> \notin ready'[q] /\ <<"out", e>> \notin ready'[q]
    BY <1>2
  <2>3. q # p => conn'[q] = conn[q]
    BY <1>2 DEF TypeOK
  <2>4. conn[e][e] # "none" => conn'[e][e] # "none"
    BY <1>2 DEF TypeOK
  <2> QED  BY <1>2, <2>1, <2>2, <2>3, <2>4 DEF ReadyAt
<1>11. CloseInv' /\ \A r \in Proc : Closes(r)' = Closes(r)
  <2>1. \A r \in Proc :
          /\ Before(r)' <=> Before(r)
          /\ After(r)' <=> After(r)
          /\ \A s \in {"LOCAL_CLOSE", "REMOTE_CLOSE", "CLOSE_ACKED"} : vc'[r] = s <=> vc[r] = s
    BY <1>2 DEF Before, After, TypeOK
  <2> QED  BY <2>1, ClosingStays
<1>12. ASSUME NEW r \in Proc PROVE StreamTo(r)'
  <2>1. \A e \in Proc :
           \/ wire'[r][e] = wire[r][e] /\ Opening(r, e)' = Opening(r, e)
           \/ wire[r][e] = Opening(r, e) /\ wire'[r][e] = Opening(r, e)'
    <3>1. ASSUME NEW e \in Proc PROVE Opening(r, e)' = Opening(r, e)
      <4>1. /\ conn'[e][e] = "OPEN_CRECV" <=> conn[e][e] = "OPEN_CRECV"
            /\ \A s \in {"none", "OPEN_LRECV_PKT", "OPEN_LRECV_DATA", "CONNECTED"} : conn'[r][e] = s <=> conn[r][e] = s
            /\ \A s \in {"none", "OPEN_LRECV_PKT", "OPEN_LRECV_DATA", "CONNECTED"} : conn'[Other(r)][e] = s <=> conn[Other(r)][e] = s
            /\ conn'[Other(r)][e] \in {"CLOSING", "CLOSED"} <=> conn[Other(r)][e] \in {"CLOSING", "CLOSED"}
        BY <1>2, <1>12, <3>1 DEF TypeOK
      <4> QED  BY <4>1 DEF Opening, OpenReq, PgId, OpenResp
    <3> QED  BY <1>2, <3>1
  <2>2. conn[Other(r)][Winner] \in Opened => conn'[Other(r)][Winner] \in Opened
    BY <1>2, <1>12, Sides DEF Opened, TypeOK, WinnerInv
  <2>3. Closes(Other(r))' = Closes(Other(r)) /\ UNCHANGED <<sendq, received, sent>>
    BY <1>2, <1>11, <1>12
  <2> QED  BY <1>3, <1>12, <2>1, <2>2, <2>3, StreamStays
<1> QED  BY <1>1, <1>4, <1>5, <1>6, <1>7, <1>8, <1>9, <1>10, <1>11, <1>12 DEF StreamInv

\* A step that moves neither packets nor connections nor the VCs keeps what
\* the invariant says of them.
LEMMA QuietLinks ==
    ASSUME LinkInv, UNCHANGED <<plan, sent, received, vc, ch, sendq, conn, wire, ops>>,
           \A r \in Proc : phase'[r] = "running" <=> phase[r] = "running",
           IInv', LinkType', PhaseInv', ReadyInv'
    PROVE  LinkInv'
<1> USE DEF LinkInv, Proc, Other
<1>1. Winner' = Winner /\ Loser' = Loser
  BY DEF Winner, Loser
<1>2. WinnerInv' /\ LoserInv'
  BY <1>1 DEF WinnerInv, LoserInv, Opened
<1>3. ChInv'
  BY <1>1 DEF ChInv, Candidate, None
<1>4. VcInv'
  BY <1>1 DEF VcInv, Silent
<1>5. CloseInv' /\ \A r \in Proc : Closes(r)' = Closes(r)
  <2>1. \A r \in Proc :
          /\ Before(r)' <=> Before(r)
          /\ After(r)' <=> After(r)
          /\ \A s \in {"LOCAL_CLOSE", "REMOTE_CLOSE", "CLOSE_ACKED"} : vc'[r] = s <=> vc[r] = s
    BY DEF Before, After
  <2> QED  BY <2>1, ClosingStays
<1>6. ASSUME NEW r \in Proc PROVE StreamTo(r)'
  <2>1. \A e \in Proc : wire'[r][e] = wire[r][e] /\ Opening(r, e)' = Opening(r, e)
    BY DEF Opening, OpenReq, PgId, OpenResp
  <2>2. Closes(Other(r))' = Closes(Other(r))
    BY <1>5
  <2> QED  BY <1>1, <2>1, <2>2, StreamStays
<1> QED  BY <1>2, <1>3, <1>4, <1>5, <1>6 DEF StreamInv

\* A round of poll reports events that can be handled.
LEMMA PollLinks ==
    ASSUME LinkInv, NEW p \in Proc, Poll(p)
    PROVE  LinkInv'
<1> USE DEF LinkInv
<1>1. IInv'
  BY PollKeeps
<1>2. UNCHANGED <<plan, phase, sent, received, vc, ch, sendq, conn, wire, ops>>
  BY DEF Poll, program, link
<1>3. LinkType' /\ PhaseInv'
  BY <1>2 DEF LinkType, PhaseInv
<1>4. ReadyInv'
  <2> SUFFICES ASSUME NEW q \in Proc, NEW e \in Proc PROVE ReadyAt(q, e)'
    BY DEF ReadyInv
  <2>1. CASE q # p
    <3>1. ready'[q] = ready[q] /\ ReadyAt(q, e)
      BY <2>1 DEF Poll, IInv, TypeOK, ReadyInv
    <3> QED  BY <1>2, <3>1 DEF ReadyAt
  <2>2. CASE q = p
    <3>1. ready'[p] \subseteq PollResult(p)
      BY DEF Poll, IInv, TypeOK
    <3>2. <<"in", e>> \in PollResult(p) => wire[p][e] # <<>> /\ conn[p][e] \in Reads
      BY DEF PollResult, Readable, Writable, Acceptable, Listener
    <3>3. <<Listener, e>> \in PollResult(p) => conn[e][e] # "none"
      BY DEF PollResult, Readable, Writable, Acceptable, Listener
    <3>4. <<"out", e>> \in PollResult(p) =>
              \/ conn[p][e] \in {"CONNECTING", "OPEN_CSEND", "OPEN_LSEND", "OPEN_LSEND_NACK", "CLOSING"}
              \/ conn[p][e] = "CONNECTED" /\ sendq[p] # <<>>
      BY DEF PollResult, Readable, Writable, Acceptable, Listener
    <3> QED  BY <1>2, <2>2, <3>1, <3>2, <3>3, <3>4 DEF ReadyAt
  <2> QED  BY <2>1, <2>2
<1> QED  BY <1>1, <1>2, <1>3, <1>4, QuietLinks

\* MPI_Finalize returns.
LEMMA ExitLinks ==
    ASSUME LinkInv, NEW p \in Proc, Exit(p)
    PROVE  LinkInv'
<1> USE DEF LinkInv
<1>1. IInv'
  BY ExitKeeps
<1>2. /\ UNCHANGED <<plan, sent, received, vc, ch, sendq, conn, wire, ops, ready>>
      /\ phase[p] = "closing" /\ ops[p] = 0 /\ phase' = [phase EXCEPT ![p] = "exited"]
  BY DEF Exit, link
<1>3. LinkType' /\ PhaseInv'
  BY <1>2 DEF LinkType, PhaseInv
<1>4. ReadyInv'
  BY <1>2 DEF ReadyInv, ReadyAt
<1>5. \A r \in Proc : phase'[r] = "running" <=> phase[r] = "running"
  BY <1>2 DEF LinkType
<1> QED  BY <1>1, <1>2, <1>3, <1>4, <1>5, QuietLinks

\* A second connection reaches a process that has ended.
LEMMA ResetLinks ==
    ASSUME LinkInv, NEW p \in Proc, HandleReset(p)
    PROVE  LinkInv'
<1> USE DEF LinkInv
<1>1. IInv'
  BY HandleResetKeeps
<1>2. /\ UNCHANGED <<plan, sent, received, vc, ch, sendq, conn, wire, ops, ready>>
      /\ phase' = [phase EXCEPT ![p] = "failed"]
      /\ conn[p][p] # "none" /\ phase[Other(p)] = "exited"
  BY DEF HandleReset, link
<1>3. phase[p] # "running"
  <2>1. vc[Other(p)] \in {"INACTIVE", "INACTIVE_CLOSED"}
    BY <1>2 DEF PhaseInv, IInv, NormalTermination, Proc, Other
  <2>2. vc[Other(p)] # "INACTIVE_CLOSED"
    BY <1>2 DEF VcInv, Proc, Other
  <2>3. After(Other(p))
    BY <1>2, <2>1, <2>2 DEF After
  <2>4. After(p) \/ vc[p] = "CLOSE_ACKED"
    BY <2>3 DEF CloseInv, Proc, Other
  <2> QED  BY <2>4 DEF After, PhaseInv
<1>4. LinkType' /\ PhaseInv'
  BY <1>2, <1>3 DEF LinkType, PhaseInv
<1>5. ReadyInv'
  BY <1>2 DEF ReadyInv, ReadyAt
<1>6. \A r \in Proc : phase'[r] = "running" <=> phase[r] = "running"
  BY <1>2, <1>3 DEF LinkType
<1> QED  BY <1>1, <1>2, <1>4, <1>5, <1>6, QuietLinks

\* A packet on a connection in use is on the winning one, and is what the
\* stream starts with: a message, if one is due, or else the first of the
\* closes.
LEMMA NextPacket ==
    ASSUME LinkInv, NEW p \in Proc, NEW q \in Proc, q = Other(p), p = Other(q),
           NEW c \in Proc, conn[p][c] = "CONNECTED", wire[p][c] # <<>>
    PROVE  /\ c = Winner /\ conn[q][c] \in Opened
           /\ Tail(wire[p][c]) \in Seq(Pkt)
           /\ received[p] <= sent[q] /\ received[p] \in Nat /\ sent[q] \in Nat
           /\ \E t \in Closes(q) :
                \/ /\ received[p] < sent[q]
                   /\ Head(wire[p][c]) = Message(received[p] + 1)
                   /\ Tail(wire[p][c]) \o sendq[q] = Run(received[p] + 1, sent[q]) \o t
                \/ /\ received[p] = sent[q]
                   /\ t # <<>> /\ Head(wire[p][c]) = Head(t)
                   /\ Tail(wire[p][c]) \o sendq[q] = Tail(t)
<1>1. c = Winner
  BY Sides DEF LoserInv, LinkInv, Proc, Other
<1>2. Opening(p, c) = <<>>
  <2>1. c # p \/ conn[p][c] = "CONNECTED"
    OBVIOUS
  <2>2. /\ p # c => conn[p][c] \notin {"none", "OPEN_LRECV_PKT", "OPEN_LRECV_DATA"}
        /\ p = c => conn[c][c] # "OPEN_CRECV"
    OBVIOUS
  <2> QED  BY <2>2 DEF Opening
<1>3. PICK t \in Closes(q) : Carries(p, Run(received[p], sent[q]) \o t)
  BY DEF LinkInv, StreamInv, StreamTo
<1> DEFINE run == Run(received[p], sent[q])
           s == sendq[q]
           d == wire[p][c]
<1>4. PICK e \in Seq(Pkt) : /\ d = <<>> \o e /\ e \o s = run \o t
                            /\ e # <<>> => conn[q][c] \in Opened
  BY <1>1, <1>2, <1>3 DEF Carries
<1>5. /\ s \in Seq(Pkt) /\ received[p] \in Nat /\ sent[q] \in Nat
      /\ received[p] <= sent[q]
  BY DEF LinkInv, LinkType, PhaseInv
<1>6. run \in Seq(Pkt) /\ t \in Seq(Pkt)
  BY <1>5, RunIsSeq, Short DEF Closes
<1> HIDE DEF s, d
<1>7. d = e /\ d \in Seq(Pkt) /\ d # <<>>
  BY <1>4, ConcatEmptySeq DEF d
<1>8. /\ d \o s = run \o t
      /\ conn[q][c] \in Opened
  BY <1>4, <1>7
<1>9. /\ Head(d \o s) = Head(d) /\ Tail(d \o s) = Tail(d) \o s /\ Tail(d) \in Seq(Pkt)
  BY <1>5, <1>7, Takes
<1> DEFINE Goal(u) ==
             \/ /\ received[p] < sent[q]
                /\ Head(d) = Message(received[p] + 1)
                /\ Tail(d) \o s = Run(received[p] + 1, sent[q]) \o u
             \/ /\ received[p] = sent[q]
                /\ u # <<>> /\ Head(d) = Head(u)
                /\ Tail(d) \o s = Tail(u)
<1>10. ASSUME received[p] < sent[q] PROVE Goal(t)
  <2>1. /\ run # <<>> /\ Head(run) = Message(received[p] + 1)
        /\ Tail(run) = Run(received[p] + 1, sent[q])
    BY <1>5, <1>10, RunShrinks
  <2> HIDE DEF run
  <2>2. Head(run \o t) = Head(run) /\ Tail(run \o t) = Tail(run) \o t
    BY <1>6, <2>1, Takes
  <2> QED  BY <1>8, <1>9, <1>10, <2>1, <2>2
<1>11. ASSUME received[p] = sent[q] PROVE Goal(t)
  <2>1. run = <<>>
    BY <1>5, <1>11, RunEmpty
  <2> HIDE DEF run
  <2>2. d \o s = t
    BY <1>6, <1>8, <2>1, ConcatEmptySeq
  <2>3. t # <<>>
    BY <1>5, <1>7, <2>2, Takes
  <2> QED  BY <1>8, <1>9, <1>11, <2>2, <2>3
<1>12. received[p] < sent[q] \/ received[p] = sent[q]
  BY <1>5
<1> HIDE DEF Goal
<1>13. \E u \in Closes(q) : Goal(u)
  BY <1>10, <1>11, <1>12
<1> QED  BY <1>1, <1>5, <1>8, <1>9, <1>13 DEF Goal, d, s

\* Process p writes what its queue starts with.
LEMMA WrittenLinks ==
    ASSUME LinkInv, NEW p \in Proc, NEW c \in Proc, HandleWritten(p, c)
    PROVE  LinkInv'
<1> DEFINE q == Other(p)
<1>0. q \in Proc /\ q = Other(p) /\ p = Other(q) /\ q # p /\ (\A r \in Proc : r = p \/ r = q)
  BY DEF Proc, Other
<1> HIDE DEF q
<1> USE DEF LinkInv, IInv
<1>1. IInv'
  BY HandleWrittenKeeps
<1>2. /\ conn[p][c] = "CONNECTED" /\ sendq[p] # <<>>
      /\ ready' = [ready EXCEPT ![p] = @ \ {<<"out", c>>}]
      /\ wire' = [wire EXCEPT ![q][c] = Append(@, Head(sendq[p]))]
      /\ sendq' = [sendq EXCEPT ![p] = Tail(@)]
      /\ UNCHANGED <<plan, phase, sent, received, vc, ch, conn, ops>>
  BY <1>0 DEF HandleWritten, Handles, program, ReadyInv, ReadyAt
<1>3. Winner' = Winner /\ Loser' = Loser /\ c = Winner
  BY <1>2, Sides DEF Winner, Loser, LoserInv, Proc, Other
<1>4. Head(sendq[p]) \in Pkt /\ Tail(sendq[p]) \in Seq(Pkt) /\ Append(wire[q][c], Head(sendq[p])) \in Seq(Pkt)
  BY <1>0, <1>2, HeadTailProperties, AppendProperties DEF LinkType
<1>5. LinkType'
  BY <1>0, <1>2, <1>4, WireTyped DEF LinkType
<1>6. WinnerInv' /\ LoserInv' /\ PhaseInv'
  BY <1>2, <1>3 DEF WinnerInv, LoserInv, Opened, PhaseInv, Other, Proc
<1>7. ChInv' /\ VcInv'
  BY <1>2, <1>3 DEF ChInv, Candidate, None, VcInv, Silent
<1>8. CloseInv' /\ \A r \in Proc : Closes(r)' = Closes(r)
  <2>1. \A r \in Proc :
          /\ Before(r)' <=> Before(r)
          /\ After(r)' <=> After(r)
          /\ \A s \in {"LOCAL_CLOSE", "REMOTE_CLOSE", "CLOSE_ACKED"} : vc'[r] = s <=> vc[r] = s
    BY <1>2 DEF Before, After
  <2> QED  BY <2>1, ClosingStays
<1>9. ReadyInv'
  <2> SUFFICES ASSUME NEW r \in Proc, NEW e \in Proc PROVE ReadyAt(r, e)'
    BY DEF ReadyInv
  <2>1. /\ \A ev : ev \in ready'[r] => ev \in ready[r]
        /\ <<"out", c>> \notin ready'[p]
    BY <1>2 DEF TypeOK
  <2>2. ReadyAt(r, e)
    BY DEF ReadyInv
  <2>3. wire[r][e] # <<>> => wire'[r][e] # <<>>
    <3>1. CASE r = q /\ e = c
      <4> DEFINE s == wire[r][e]
      <4>1. s \in Seq(Pkt)
        BY DEF LinkType
      <4>2. wire'[r][e] = Append(s, Head(sendq[p]))
        BY <1>2, <3>1 DEF LinkType
      <4> HIDE DEF s
      <4>3. Append(s, Head(sendq[p])) # <<>>
        BY <1>4, <4>1, AppendProperties, EmptySeq
      <4> QED  BY <4>2, <4>3
    <3>2. CASE r # q \/ e # c
      BY <1>2, <3>2 DEF LinkType
    <3> QED  BY <3>1, <3>2
  <2>4. r # p => sendq'[r] = sendq[r]
    BY <1>2 DEF LinkType
  <2>5. r = p /\ e # c => conn[r][e] # "CONNECTED"
    BY <1>3, Sides DEF LoserInv, Proc, Other
  <2> QED  BY <1>2, <2>1, <2>2, <2>3, <2>4, <2>5 DEF ReadyAt, Reads
<1>10. StreamTo(p)'
  <2>1. ASSUME NEW e \in Proc PROVE wire'[p][e] = wire[p][e] /\ Opening(p, e)' = Opening(p, e)
    BY <1>0, <1>2, <2>1 DEF Opening, OpenReq, PgId, OpenResp, LinkType
  <2>2. sendq'[q] = sendq[q] /\ Closes(q)' = Closes(q)
    BY <1>0, <1>2, <1>8 DEF LinkType
  <2> QED  BY <1>0, <1>2, <1>3, <2>1, <2>2, StreamStays
<1>11. StreamTo(q)'
  <2> DEFINE o == Opening(q, c)
             u == sendq[p]
  <2>1. PICK t \in Closes(p) : Carries(q, Run(received[q], sent[p]) \o t)
    BY <1>0 DEF StreamInv, StreamTo
  <2> DEFINE packets == Run(received[q], sent[p]) \o t
  <2>2. packets' = packets
    BY <1>2 DEF Run, Message, q
  <2> HIDE DEF packets
  <2>3. PICK d \in Seq(Pkt) : wire[q][c] = o \o d /\ d \o u = packets
    BY <1>0, <1>3, <2>1 DEF Carries, packets
  <2>4. o \in Seq(Pkt) /\ u \in Seq(Pkt) /\ u # <<>> /\ Head(u) \in Pkt
    BY <1>2, <1>4, OpeningTyped DEF LinkType
  <2>5. ASSUME NEW e \in Proc PROVE Opening(q, e)' = Opening(q, e)
    <3>1. q' = q
      BY DEF q, Other
    <3> QED  BY <1>2, <3>1 DEF Opening, OpenReq, PgId, OpenResp, Other
  <2>6. /\ wire'[q][c] = Append(o \o d, Head(u)) /\ sendq'[p] = Tail(u)
        /\ wire'[q][Loser] = wire[q][Loser] /\ Loser \in Proc
    <3>1. wire'[q][c] = Append(o \o d, Head(u)) /\ sendq'[p] = Tail(u)
      BY <1>0, <1>2, <2>3 DEF LinkType
    <3>2. Loser # c /\ Loser \in Proc
      BY <1>3, Sides DEF Proc
    <3> QED  BY <1>0, <1>2, <3>1, <3>2 DEF LinkType
  <2>11. o' = o
    BY <2>5
  <2> HIDE DEF o, u
  <2>7. /\ Append(d, Head(u)) \o Tail(u) = packets /\ Append(d, Head(u)) \in Seq(Pkt)
        /\ o \o Append(d, Head(u)) = Append(o \o d, Head(u))
    BY <2>3, <2>4, Moves, Appends
  <2>8. Carries(q, packets)'
    <3>1. wire'[q][Winner'] = Opening(q, Winner)' \o Append(d, Head(u))
      BY <1>3, <2>5, <2>6, <2>7, <2>11 DEF o
    <3>2. conn'[p][Winner'] \in Opened
      BY <1>2, <1>3 DEF Opened
    <3>3. Append(d, Head(u)) \o sendq'[p] = packets'
      BY <2>2, <2>6, <2>7
    <3>4. Opened' = Opened /\ q' = q /\ Other(q)' = p
      BY <1>0 DEF Opened, q, Other
    <3> QED  BY <2>7, <3>1, <3>2, <3>3, <3>4 DEF Carries
  <2>9. wire'[q][Loser] = Opening(q, Loser)'
    <3>1. wire[q][Loser] = Opening(q, Loser)
      BY <1>0 DEF StreamInv, StreamTo
    <3>2. Opening(q, Loser)' = Opening(q, Loser)
      <4> SUFFICES ASSUME NEW e \in Proc, e = Loser, e = Loser' PROVE Opening(q, e)' = Opening(q, e)
        BY <1>3, <2>6
      <4> QED  BY <2>5
    <3> QED  BY <2>6, <3>1, <3>2
  <2>10. t \in Closes(p)'
    BY <1>8, <2>1
  <2> QED  BY <1>0, <1>3, <2>8, <2>9, <2>10 DEF StreamTo, packets
<1> QED  BY <1>0, <1>1, <1>5, <1>6, <1>7, <1>8, <1>9, <1>10, <1>11 DEF StreamInv

\* The stream to p after p has read its first packet.
LEMMA ReadOn ==
    ASSUME LinkInv, NEW p \in Proc, NEW q \in Proc, q = Other(p), p = Other(q),
           conn[p][Winner] = "CONNECTED", wire[p][Winner] # <<>>,
           Winner' = Winner, Loser' = Loser,
           wire'[p] = [wire[p] EXCEPT ![Winner] = Tail(@)], sendq'[q] = sendq[q],
           conn'[q] = conn[q], conn'[p][Winner] \in Opened, conn'[p][Loser] = conn[p][Loser],
           NEW t, t \in Closes(q)',
           Tail(wire[p][Winner]) \o sendq[q] = Run(received'[p], sent'[q]) \o t
    PROVE  StreamTo(p)'
<1>1. Winner \in Proc /\ Loser \in Proc /\ Winner # Loser /\ Other(p)' = q /\ Opened' = Opened
  BY Sides DEF Proc, Other, Opened
<1>2. Opening(p, Winner)' = <<>>
  <2>1. \/ p = Winner' /\ conn'[Winner'][Winner'] # "OPEN_CRECV"
        \/ p # Winner' /\ conn'[p][Winner'] \notin {"none", "OPEN_LRECV_PKT", "OPEN_LRECV_DATA"}
    BY DEF Opened
  <2> QED  BY <2>1 DEF Opening
<1>3. Opening(p, Loser)' = Opening(p, Loser)
  <2> SUFFICES ASSUME NEW e, e = Loser PROVE Opening(p, e)' = Opening(p, e)
    OBVIOUS
  <2>1. conn'[p][e] = conn[p][e] /\ conn'[q][e] = conn[q][e] /\ (e = p \/ e = q)
    BY <1>1 DEF Proc, Other
  <2>2. conn'[e][e] = conn[e][e]
    BY <2>1
  <2> QED  BY <1>1, <2>1, <2>2 DEF Opening, OpenReq, PgId, OpenResp
<1>4. wire'[p][Loser] = Opening(p, Loser)' /\ wire'[p][Winner] = Tail(wire[p][Winner])
  <2>1. wire[p] \in [Proc -> Seq(Pkt)] /\ wire[p][Loser] = Opening(p, Loser)
    BY DEF LinkInv, LinkType, StreamInv, StreamTo
  <2> QED  BY <1>1, <1>3, <2>1
<1>5. Tail(wire[p][Winner]) \in Seq(Pkt) /\ conn[q][Winner] \in Opened
  BY <1>1, NextPacket
<1> DEFINE packets == Run(received[p], sent[q]) \o t
<1>6. Carries(p, Run(received[p], sent[q]) \o t)'
  <2> DEFINE d == Tail(wire[p][Winner])
  <2>1. wire'[p][Winner'] = Opening(p, Winner)' \o d
    <3> HIDE DEF d
    <3>1. d \in Seq(Pkt) /\ wire'[p][Winner] = d
      BY <1>4, <1>5 DEF d
    <3> QED  BY <1>2, <3>1, ConcatEmptySeq
  <2>2. conn'[q][Winner'] \in Opened
    BY <1>5
  <2>3. d \in Seq(Pkt) /\ d \o sendq'[q] = Run(received[p], sent[q])' \o t
    <3>1. Run(received[p], sent[q])' = Run(received'[p], sent'[q])
      BY DEF Run, Message
    <3> QED  BY <1>5, <3>1
  <2> HIDE DEF d
  <2>4. Carries(p, packets)'
    <3>1. /\ wire'[p][Winner'] = Opening(p, Winner)' \o d
          /\ d \o sendq'[q] = packets'
          /\ d # <<>> => conn'[q][Winner'] \in Opened'
      BY <1>1, <2>1, <2>2, <2>3
    <3> HIDE DEF packets
    <3> QED  BY <1>1, <2>3, <3>1 DEF Carries
  <2> QED  BY <2>4
<1> QED  BY <1>1, <1>4, <1>6 DEF StreamTo

\* The stream to q after p has written a packet or queued it.
LEMMA SentOn ==
    ASSUME LinkInv, NEW p \in Proc, NEW q \in Proc, q = Other(p), p = Other(q),
           NEW pkt \in Pkt, NEW w,
           iStartMsg(p, pkt, w), w \in [Proc -> [Proc -> Seq(Pkt)]], w[q] = wire[q],
           Winner' = Winner, Loser' = Loser,
           \A e \in Proc : Opening(q, e)' = Opening(q, e),
           conn[p][Winner] \in Opened => conn'[p][Winner] \in Opened,
           \A t \in Closes(p) : \E u \in Closes(p)' :
              Append(Run(received[q], sent[p]) \o t, pkt) = Run(received'[q], sent'[p]) \o u
    PROVE  StreamTo(q)'
<1>1. Winner \in Proc /\ Loser \in Proc /\ Winner # Loser /\ Other(q)' = p /\ Opened' = Opened
  BY Sides DEF Proc, Other, Opened
<1>2. PICK t \in Closes(p) : Carries(q, Run(received[q], sent[p]) \o t)
  BY DEF LinkInv, StreamInv, StreamTo
<1>3. PICK u \in Closes(p)' : Append(Run(received[q], sent[p]) \o t, pkt) = Run(received'[q], sent'[p]) \o u
  BY <1>2
<1> DEFINE packets == Run(received[q], sent[p]) \o t
           packets2 == Run(received'[q], sent'[p]) \o u
<1>4. Carries(q, packets) /\ packets2 = Append(packets, pkt)
  BY <1>2, <1>3
<1> HIDE DEF packets, packets2
<1>5. Opening(q, Winner)' = Opening(q, Winner) /\ Opening(q, Loser)' = Opening(q, Loser)
  <2>1. ASSUME NEW e \in Proc, NEW f, f = e, f' = e PROVE Opening(q, f)' = Opening(q, f)
    BY <2>1
  <2> QED  BY <1>1, <2>1
<1>6. PICK d \in Seq(Pkt) :
              /\ wire'[q][Winner] = Opening(q, Winner)' \o d
              /\ d \o sendq'[p] = packets2
              /\ d # <<>> => conn'[p][Winner] \in Opened
  <2> DEFINE o == Opening(q, Winner)
             s == sendq[p]
  <2>1. PICK d \in Seq(Pkt) : /\ wire[q][Winner] = o \o d
                              /\ d \o s = packets
                              /\ d # <<>> => conn[p][Winner] \in Opened
    BY <1>4 DEF Carries
  <2>2. o \in Seq(Pkt) /\ s \in Seq(Pkt)
    BY OpeningTyped DEF LinkInv, LinkType
  <2>3. CASE AtOnce(p)
    <3>1. /\ conn[p][Winner] \in Opened /\ ch[p].conn = Winner
      <4>1. ch[p] = Candidate(p) /\ ch[p].state = "CONNECTED"
        BY <2>3 DEF LinkInv, AtOnce, ChInv
      <4>2. conn[p][Winner] \in {"CONNECTED", "CLOSING"}
        BY <4>1 DEF Candidate
      <4> QED  BY <4>1, <4>2 DEF Candidate, Opened
    <3>2. /\ s = <<>> /\ sendq'[p] = <<>>
          /\ wire'[q][Winner] = Append(wire[q][Winner], pkt)
      <4>1. sendq[p] = <<>> /\ sendq' = sendq
        BY <2>3 DEF iStartMsg, AtOnce
      <4>2. wire' = [w EXCEPT ![q][Winner] = Append(@, pkt)]
        BY <2>3, <3>1 DEF iStartMsg
      <4>3. wire'[q][Winner] = Append(w[q][Winner], pkt)
        BY <1>1, <4>2
      <4> QED  BY <4>1, <4>3
    <3>3. Append(d, pkt) \in Seq(Pkt)
      BY AppendProperties
    <3> HIDE DEF o, s
    <3>4. o \o Append(d, pkt) = Append(o \o d, pkt)
      BY <2>2, Appends
    <3>5. Append(d, pkt) \o <<>> = packets2
      <4>1. Append(d, pkt) \o s = Append(d \o s, pkt)
        BY <2>2, <3>2, Appends
      <4> QED  BY <1>4, <2>1, <3>2, <4>1
    <3>6. Opening(q, Winner)' = o
      BY <1>5 DEF o
    <3> QED  BY <2>1, <3>1, <3>2, <3>3, <3>4, <3>5, <3>6
  <2>4. CASE ~ AtOnce(p)
    <3>1. wire'[q] = wire[q] /\ sendq'[p] = Append(s, pkt)
      BY <2>4 DEF iStartMsg, LinkInv, LinkType
    <3> HIDE DEF o, s
    <3>2. d \o Append(s, pkt) = packets2
      <4>1. d \o Append(s, pkt) = Append(d \o s, pkt)
        BY <2>2, Appends
      <4> QED  BY <1>4, <2>1, <4>1
    <3>3. Opening(q, Winner)' = o
      BY <1>5 DEF o
    <3> QED  BY <2>1, <3>1, <3>2, <3>3
  <2> QED  BY <2>3, <2>4
<1>7. Carries(q, Run(received[q], sent[p]) \o u)'
  <2>1. Run(received[q], sent[p])' = Run(received'[q], sent'[p])
    BY DEF Run, Message
  <2> QED  BY <1>1, <1>6, <2>1 DEF Carries, packets2
<1>8. wire'[q][Loser] = Opening(q, Loser)'
  <2>1. wire[q][Loser] = Opening(q, Loser)
    BY DEF LinkInv, StreamInv, StreamTo
  <2>2. wire'[q][Loser] = wire[q][Loser]
    <3>1. AtOnce(p) => ch[p].conn = Winner
      <4>1. AtOnce(p) => ch[p] = Candidate(p) /\ ch[p].state = "CONNECTED"
        BY DEF LinkInv, AtOnce, ChInv
      <4> QED  BY <4>1 DEF Candidate
    <3> QED  BY <1>1, <3>1 DEF iStartMsg
  <2> QED  BY <1>5, <2>1, <2>2
<1> QED  BY <1>1, <1>7, <1>8 DEF StreamTo

\* Process p receives a message: it is the next one.
LEMMA MessageLinks ==
    ASSUME LinkInv, NEW p \in Proc, NEW c \in Proc, HandleMessage(p, c)
    PROVE  LinkInv'
<1> DEFINE q == Other(p)
<1>0. q \in Proc /\ q = Other(p) /\ p = Other(q) /\ q # p /\ (\A r \in Proc : r = p \/ r = q)
  BY DEF Proc, Other
<1> HIDE DEF q
<1> USE DEF LinkInv, IInv
<1>1. IInv'
  BY HandleMessageKeeps
<1>2. /\ conn[p][c] = "CONNECTED" /\ wire[p][c] # <<>> /\ Head(wire[p][c]).type = "MESSAGE"
      /\ ready' = [ready EXCEPT ![p] = @ \ {<<"in", c>>}]
      /\ wire' = [wire EXCEPT ![p][c] = Tail(wire[p][c])]
      /\ received' = [received EXCEPT ![p] = @ + 1]
      /\ UNCHANGED <<plan, phase, sent, sendq, vc, ch, conn, ops>>
  BY <1>0 DEF HandleMessage, Handles, Packet, ReadyInv, ReadyAt, Consumed
<1>3. /\ c = Winner /\ conn[q][c] \in Opened
      /\ Tail(wire[p][c]) \in Seq(Pkt)
      /\ received[p] <= sent[q] /\ received[p] \in Nat /\ sent[q] \in Nat
  BY <1>0, <1>2, NextPacket
<1>4. PICK t \in Closes(q) :
         \/ /\ received[p] < sent[q]
            /\ Head(wire[p][c]) = Message(received[p] + 1)
            /\ Tail(wire[p][c]) \o sendq[q] = Run(received[p] + 1, sent[q]) \o t
         \/ /\ received[p] = sent[q]
            /\ t # <<>> /\ Head(wire[p][c]) = Head(t)
            /\ Tail(wire[p][c]) \o sendq[q] = Tail(t)
  BY <1>0, <1>2, NextPacket
<1>5. t # <<>> => Head(t).type = "CLOSE"
  <2>1. ASSUME NEW x, NEW y PROVE Head(<<x>>) = x /\ Head(<<x, y>>) = x
    OBVIOUS
  <2>2. t \in {<<Asked>>, <<Acked>>, <<Asked, Acked>>, <<>>}
    BY <1>4 DEF Closes
  <2> QED  BY <2>1, <2>2, ClosePackets
<1>6. /\ received[p] < sent[q]
      /\ Tail(wire[p][c]) \o sendq[q] = Run(received'[p], sent'[q]) \o t
  BY <1>2, <1>4, <1>5 DEF LinkType
<1>7. Winner' = Winner /\ Loser' = Loser
  BY <1>2 DEF Winner, Loser
<1>8. LinkType'
  <2>1. wire' \in [Proc -> [Proc -> Seq(Pkt)]]
    BY <1>2, <1>3, WireTyped
  <2>2. received' \in [Proc -> Nat]
    <3>1. received \in [Proc -> Nat]
      BY DEF LinkType
    <3>2. received[p] + 1 \in Nat
      BY <1>3
    <3> QED  BY <1>2, <3>1, <3>2
  <2> QED  BY <1>2, <2>1, <2>2 DEF LinkType
<1>9. WinnerInv' /\ LoserInv'
  BY <1>2, <1>7 DEF WinnerInv, LoserInv, Opened
<1>10. PhaseInv'
  <2>1. phase[p] = "running"
    <3>1. phase[p] # "running" => received[p] = plan[q]
      BY <1>0 DEF PhaseInv
    <3>2. sent[q] <= plan[q] /\ plan[q] \in Nat
      BY <1>0 DEF PhaseInv, LinkType
    <3> QED  BY <1>3, <1>6, <3>1, <3>2
  <2>2. received'[p] = received[p] + 1 /\ received'[q] = received[q]
    BY <1>0, <1>2 DEF LinkType
  <2>3. received'[p] <= sent[q]
    BY <1>3, <1>6, <2>2
  <2> SUFFICES ASSUME NEW r \in Proc
               PROVE  /\ phase'[r] = "running" => vc'[r] \in {"INACTIVE", "ACTIVE", "REMOTE_CLOSE"}
                      /\ phase'[r] # "running" =>
                          /\ vc'[r] \in {"INACTIVE", "INACTIVE_CLOSED", "LOCAL_CLOSE", "CLOSE_ACKED", "CLOSED"}
                          /\ sent'[r] = plan'[r] /\ received'[r] = plan'[Other(r)]
                      /\ phase'[r] = "exited" => ops'[r] = 0
                      /\ received'[Other(r)] <= sent'[r] /\ sent'[r] <= plan'[r]
    BY DEF PhaseInv, Other
  <2>4. CASE r = p
    BY <1>0, <1>2, <2>1, <2>2, <2>4 DEF PhaseInv
  <2>5. CASE r = q
    BY <1>0, <1>2, <2>2, <2>3, <2>5 DEF PhaseInv
  <2> QED  BY <1>0, <2>4, <2>5
<1>11. ChInv'
  BY <1>2, <1>7 DEF ChInv, Candidate, None
<1>12. VcInv'
  <2>1. vc[p] # "INACTIVE"
    BY <1>2, <1>3 DEF VcInv, ChInv, Candidate
  <2> QED  BY <1>2, <1>7, <2>1 DEF VcInv, Silent, LinkType
<1>13. CloseInv' /\ \A r \in Proc : Closes(r)' = Closes(r)
  <2>1. \A r \in Proc :
          /\ Before(r)' <=> Before(r)
          /\ After(r)' <=> After(r)
          /\ \A s \in {"LOCAL_CLOSE", "REMOTE_CLOSE", "CLOSE_ACKED"} : vc'[r] = s <=> vc[r] = s
    BY <1>2 DEF Before, After
  <2> QED  BY <2>1, ClosingStays
<1>14. ReadyInv'
  <2> SUFFICES ASSUME NEW r \in Proc, NEW e \in Proc PROVE ReadyAt(r, e)'
    BY DEF ReadyInv
  <2>1. /\ \A ev : ev \in ready'[r] => ev \in ready[r]
        /\ <<"in", c>> \notin ready'[p]
    BY <1>2 DEF TypeOK
  <2>2. ReadyAt(r, e)
    BY DEF ReadyInv
  <2>3. r # p \/ e # c => wire'[r][e] = wire[r][e]
    BY <1>2 DEF LinkType
  <2> QED  BY <1>2, <2>1, <2>2, <2>3 DEF ReadyAt, Reads
<1>15. StreamTo(p)'
  <2>1. wire'[p] = [wire[p] EXCEPT ![Winner] = Tail(@)]
    BY <1>2, <1>3 DEF LinkType
  <2>2. conn'[p][Winner] \in Opened
    BY <1>2, <1>3 DEF Opened
  <2>3. t \in Closes(q)'
    BY <1>0, <1>4, <1>13
  <2> QED  BY <1>0, <1>2, <1>3, <1>6, <1>7, <2>1, <2>2, <2>3, ReadOn
<1>16. StreamTo(q)'
  <2>1. ASSUME NEW e \in Proc PROVE wire'[q][e] = wire[q][e] /\ Opening(q, e)' = Opening(q, e)
    BY <1>0, <1>2, <2>1 DEF Opening, OpenReq, PgId, OpenResp, LinkType, Other
  <2>2. Closes(p)' = Closes(p) /\ received'[q] = received[q]
    BY <1>0, <1>2, <1>13 DEF LinkType
  <2> QED  BY <1>0, <1>2, <1>7, <2>1, <2>2, StreamStays
<1> QED  BY <1>0, <1>1, <1>8, <1>9, <1>10, <1>11, <1>12, <1>13, <1>14, <1>15, <1>16 DEF StreamInv

\* Appending to a sequence of one packet.
LEMMA Pairs ==
    ASSUME NEW x \in Pkt, NEW y \in Pkt
    PROVE  Append(<<x>>, y) = <<x, y>>
<1> DEFINE s == <<x>>
           a == Append(s, y)
           b == <<x, y>>
<1>1. s \in Seq(Pkt) /\ Len(s) = 1 /\ s[1] = x
  OBVIOUS
<1>2. b \in Seq(Pkt) /\ Len(b) = 2 /\ b[1] = x /\ b[2] = y
  OBVIOUS
<1> HIDE DEF s, b
<1>3. a \in Seq(Pkt) /\ Len(a) = 2 /\ a[1] = x /\ a[2] = y
  <2>1. a \in Seq(Pkt)
    BY <1>1, AppendProperties
  <2>2. Len(a) = Len(s) + 1
    BY <1>1, AppendProperties
  <2>3. a[Len(s) + 1] = y
    BY <1>1, AppendProperties
  <2>4. 1 \in 1 .. Len(s)
    BY <1>1
  <2>5. a[1] = s[1]
    BY <1>1, <2>4, AppendProperties
  <2> QED  BY <1>1, <2>1, <2>2, <2>3, <2>5
<1> HIDE DEF a
<1>4. \A i \in 1 .. 2 : a[i] = b[i]
  BY <1>2, <1>3
<1>5. a = b
  BY <1>2, <1>3, <1>4, SeqEqual
<1> QED  BY <1>5 DEF a, b, s

\* The next packet asks for the close: the other process has not acknowledged
\* one yet, or has done so right after.
NextAsks(p, q) ==
    /\ Head(wire[p][Winner]) = Asked
    /\ \/ /\ vc[q] = "LOCAL_CLOSE" /\ (Before(p) \/ vc[p] = "LOCAL_CLOSE")
          /\ Tail(wire[p][Winner]) \o sendq[q] = <<>>
       \/ /\ vc[q] = "CLOSE_ACKED" /\ vc[p] = "LOCAL_CLOSE"
          /\ Tail(wire[p][Winner]) \o sendq[q] = <<Acked>>

\* The next packet acknowledges the close that p asked for, and is the last
\* one.
NextAcknowledges(p, q) ==
    /\ Head(wire[p][Winner]) = Acked
    /\ Tail(wire[p][Winner]) \o sendq[q] = <<>>
    /\ \/ vc[q] = "CLOSE_ACKED" /\ vc[p] = "LOCAL_CLOSE"
       \/ (vc[q] = "CLOSE_ACKED" \/ After(q)) /\ vc[p] = "CLOSE_ACKED"

\* A close packet that p reads comes after every message, and is one that the
\* state of the two VCs allows for.
LEMMA NextClose ==
    ASSUME LinkInv, NEW p \in Proc, NEW q \in Proc, q = Other(p), p = Other(q),
           NEW c \in Proc, conn[p][c] = "CONNECTED", wire[p][c] # <<>>, Head(wire[p][c]).type = "CLOSE"
    PROVE  /\ c = Winner /\ conn[q][c] \in Opened
           /\ received[p] = sent[q] /\ sent[q] \in Nat /\ Tail(wire[p][c]) \in Seq(Pkt)
           /\ NextAsks(p, q) \/ NextAcknowledges(p, q)
<1>1. PICK t \in Closes(q) :
         \/ /\ received[p] < sent[q]
            /\ Head(wire[p][c]) = Message(received[p] + 1)
            /\ Tail(wire[p][c]) \o sendq[q] = Run(received[p] + 1, sent[q]) \o t
         \/ /\ received[p] = sent[q]
            /\ t # <<>> /\ Head(wire[p][c]) = Head(t)
            /\ Tail(wire[p][c]) \o sendq[q] = Tail(t)
  BY NextPacket
<1>2. /\ received[p] = sent[q]
      /\ t # <<>> /\ Head(wire[p][c]) = Head(t)
      /\ Tail(wire[p][c]) \o sendq[q] = Tail(t)
  <2>1. Message(received[p] + 1).type = "MESSAGE"
    BY DEF Message
  <2>2. Head(wire[p][c]) # Message(received[p] + 1)
    BY <2>1
  <2> QED  BY <1>1, <2>2
<1>3. /\ c = Winner /\ conn[q][c] \in Opened
      /\ Tail(wire[p][c]) \in Seq(Pkt) /\ sent[q] \in Nat
  BY NextPacket
<1> DEFINE rest == Tail(wire[p][c]) \o sendq[q]
           pkt == Head(wire[p][c])
<1>4. rest = Tail(t) /\ pkt = Head(t)
  BY <1>2
<1> HIDE DEF rest, pkt
<1>5. /\ Head(<<Asked>>) = Asked /\ Tail(<<Asked>>) = <<>>
      /\ Head(<<Acked>>) = Acked /\ Tail(<<Acked>>) = <<>>
      /\ Head(<<Asked, Acked>>) = Asked /\ Tail(<<Asked, Acked>>) = <<Acked>>
  <2>1. ASSUME NEW x, NEW y
        PROVE  /\ Head(<<x>>) = x /\ Tail(<<x>>) = <<>>
               /\ Head(<<x, y>>) = x /\ Tail(<<x, y>>) = <<y>>
    OBVIOUS
  <2> QED  BY <2>1
<1> DEFINE F == <<Asked>>
           T == <<Acked>>
           FT == <<Asked, Acked>>
<1>6. \/ t = F /\ vc[q] = "LOCAL_CLOSE" /\ (Before(p) \/ vc[p] = "LOCAL_CLOSE")
      \/ (t = T \/ t = FT) /\ vc[q] = "CLOSE_ACKED" /\ vc[p] = "LOCAL_CLOSE"
      \/ t = T /\ (vc[q] = "CLOSE_ACKED" \/ After(q)) /\ vc[p] = "CLOSE_ACKED"
  <2> HIDE DEF F, T, FT
  <2>1. Closes(q) = IF vc[q] = "LOCAL_CLOSE" /\ (Before(p) \/ vc[p] = "LOCAL_CLOSE")
                    THEN {F}
                    ELSE IF vc[q] = "CLOSE_ACKED" /\ vc[p] = "LOCAL_CLOSE" THEN {T, FT}
                    ELSE IF (vc[q] = "CLOSE_ACKED" \/ After(q)) /\ vc[p] = "CLOSE_ACKED" THEN {T}
                    ELSE {<<>>}
    BY DEF Closes, F, T, FT
  <2> QED  BY <1>2, <2>1
<1>7. /\ t = F => pkt = Asked /\ rest = <<>>
      /\ t = T => pkt = Acked /\ rest = <<>>
      /\ t = FT => pkt = Asked /\ rest = T
  BY <1>4, <1>5
<1> HIDE DEF F, T, FT
<1>8. \/ /\ pkt = Asked
         /\ \/ /\ vc[q] = "LOCAL_CLOSE" /\ (Before(p) \/ vc[p] = "LOCAL_CLOSE")
               /\ rest = <<>>
            \/ /\ vc[q] = "CLOSE_ACKED" /\ vc[p] = "LOCAL_CLOSE"
               /\ rest = T
      \/ /\ pkt = Acked
         /\ rest = <<>>
         /\ \/ vc[q] = "CLOSE_ACKED" /\ vc[p] = "LOCAL_CLOSE"
            \/ (vc[q] = "CLOSE_ACKED" \/ After(q)) /\ vc[p] = "CLOSE_ACKED"
  BY <1>6, <1>7
<1> QED  BY <1>2, <1>3, <1>8 DEF NextAsks, NextAcknowledges, rest, pkt, T

\* iStartMsg writes the packet or queues it, and changes nothing of the other
\* process.
LEMMA StartMsg ==
    ASSUME LinkInv, NEW p \in Proc, NEW q \in Proc, q = Other(p), p = Other(q),
           NEW pkt \in Pkt, NEW w,
           iStartMsg(p, pkt, w), w \in [Proc -> [Proc -> Seq(Pkt)]], w[q] = wire[q]
    PROVE  /\ wire' \in [Proc -> [Proc -> Seq(Pkt)]] /\ sendq' \in [Proc -> Seq(Pkt)]
           /\ wire'[p] = w[p] /\ sendq'[q] = sendq[q]
           /\ sendq[p] # <<>> => sendq'[p] # <<>>
           /\ \A e \in Proc : wire[q][e] # <<>> => wire'[q][e] # <<>>
<1>0. p # q
  BY DEF Proc, Other
<1>1. ASSUME NEW s \in Seq(Pkt) PROVE Append(s, pkt) \in Seq(Pkt) /\ Append(s, pkt) # <<>>
  <2>1. Append(s, pkt) \in Seq(Pkt) /\ Len(Append(s, pkt)) = Len(s) + 1 /\ Len(s) \in Nat
    BY <1>1, AppendProperties, LenProperties
  <2>2. Len(Append(s, pkt)) # 0
    BY <2>1
  <2> QED  BY <2>1, <2>2, EmptySeq
<1>2. sendq \in [Proc -> Seq(Pkt)]
  BY DEF LinkInv, LinkType
<1>3. CASE AtOnce(p)
  <2>1. wire' = [w EXCEPT ![q][ch[p].conn] = Append(@, pkt)] /\ sendq' = sendq
    BY <1>3 DEF iStartMsg
  <2>2. ch[p].conn \in Proc
    <3>1. ch[p] = Candidate(p) /\ ch[p].state = "CONNECTED"
      BY <1>3 DEF LinkInv, AtOnce, ChInv
    <3>2. ch[p].conn = Winner
      BY <3>1 DEF Candidate
    <3> QED  BY <3>2, Sides DEF Proc
  <2> DEFINE x == ch[p].conn
  <2>3. w[q][x] \in Seq(Pkt) /\ Append(w[q][x], pkt) \in Seq(Pkt) /\ Append(w[q][x], pkt) # <<>>
    BY <1>1, <2>2
  <2> HIDE DEF x
  <2>4. wire' = [w EXCEPT ![q][x] = Append(w[q][x], pkt)] /\ x \in Proc
    BY <2>1, <2>2 DEF x
  <2>5. wire' \in [Proc -> [Proc -> Seq(Pkt)]] /\ wire'[p] = w[p]
    BY <1>0, <2>3, <2>4
  <2>6. \A e \in Proc : wire[q][e] # <<>> => wire'[q][e] # <<>>
    BY <2>3, <2>4
  <2> QED  BY <1>2, <2>1, <2>5, <2>6
<1>4. CASE ~ AtOnce(p)
  <2>1. wire' = w /\ sendq' = [sendq EXCEPT ![p] = Append(sendq[p], pkt)]
    BY <1>4 DEF iStartMsg
  <2>2. Append(sendq[p], pkt) \in Seq(Pkt) /\ Append(sendq[p], pkt) # <<>>
    BY <1>1, <1>2
  <2> QED  BY <1>0, <1>2, <2>1, <2>2
<1> QED  BY <1>3, <1>4

\* iStartMsg leaves what p has yet to read alone.
LEMMA StartMsgHere ==
    ASSUME LinkInv, NEW p \in Proc, NEW pkt, NEW w, iStartMsg(p, pkt, w),
           w \in [Proc -> [Proc -> Seq(Pkt)]]
    PROVE  wire'[p] = w[p]
<1>1. p # Other(p) /\ Other(p) \in Proc
  BY DEF Proc, Other
<1> QED  BY <1>1 DEF iStartMsg

\* Process p reads that the other one asks for the close, and acknowledges
\* it, at once if it has finished.
LEMMA CloseLinks ==
    ASSUME LinkInv, NEW p \in Proc, NEW c \in Proc, HandleClose(p, c)
    PROVE  LinkInv'
<1> DEFINE q == Other(p)
           w == Consumed(p, c)
<1>0. q \in Proc /\ q = Other(p) /\ p = Other(q) /\ q # p /\ (\A r \in Proc : r = p \/ r = q)
  BY DEF Proc, Other
<1> HIDE DEF q
<1>1. IInv'
  BY HandleCloseKeeps DEF LinkInv
<1>2. /\ conn[p][c] = "CONNECTED" /\ wire[p][c] # <<>>
      /\ Head(wire[p][c]).type = "CLOSE" /\ Head(wire[p][c]) # Acked
      /\ ready' = [ready EXCEPT ![p] = @ \ {<<"in", c>>}]
      /\ vc[p] \in {"LOCAL_CLOSE", "ACTIVE"}
      /\ vc' = [vc EXCEPT ![p] = IF @ = "LOCAL_CLOSE" THEN "CLOSE_ACKED" ELSE "REMOTE_CLOSE"]
      /\ IF vc[p] = "LOCAL_CLOSE" THEN iStartMsg(p, Acked, w)
                                  ELSE wire' = w /\ UNCHANGED sendq
      /\ UNCHANGED <<plan, phase, sent, received, ch, conn, ops>>
  BY <1>0, ClosePackets DEF HandleClose, Handles, Packet, LinkInv, ReadyInv, ReadyAt, AnswersClose, program, Acked
<1>3. /\ c = Winner /\ conn[q][c] \in Opened
      /\ received[p] = sent[q] /\ sent[q] \in Nat /\ Tail(wire[p][c]) \in Seq(Pkt)
  <2>1. conn[p][c] = "CONNECTED" /\ wire[p][c] # <<>> /\ Head(wire[p][c]).type = "CLOSE"
    BY <1>2
  <2> QED  BY <1>0, <2>1, NextClose
<1>4. \/ /\ vc[q] = "LOCAL_CLOSE"
         /\ Tail(wire[p][c]) \o sendq[q] = <<>>
      \/ /\ vc[q] = "CLOSE_ACKED" /\ vc[p] = "LOCAL_CLOSE"
         /\ Tail(wire[p][c]) \o sendq[q] = <<Acked>>
  <2>1. conn[p][c] = "CONNECTED" /\ wire[p][c] # <<>> /\ Head(wire[p][c]).type = "CLOSE"
    BY <1>2
  <2>2. NextAsks(p, q) \/ NextAcknowledges(p, q)
    BY <1>0, <2>1, NextClose
  <2> QED  BY <1>2, <1>3, <2>2 DEF NextAsks, NextAcknowledges
<1>5. /\ w \in [Proc -> [Proc -> Seq(Pkt)]] /\ w[q] = wire[q]
      /\ w[p] = [wire[p] EXCEPT ![c] = Tail(@)]
  <2>1. w = [wire EXCEPT ![p][c] = Tail(wire[p][c])]
    BY DEF Consumed
  <2>2. w \in [Proc -> [Proc -> Seq(Pkt)]]
    BY <1>3, <2>1, WireTyped DEF LinkInv
  <2>3. w[q] = wire[q] /\ w[p] = [wire[p] EXCEPT ![c] = Tail(@)]
    BY <1>0, <2>1 DEF LinkInv, LinkType
  <2> QED  BY <2>2, <2>3
<1> HIDE DEF w
<1>6. /\ wire' \in [Proc -> [Proc -> Seq(Pkt)]] /\ sendq' \in [Proc -> Seq(Pkt)]
      /\ wire'[p] = w[p] /\ sendq'[q] = sendq[q]
      /\ sendq[p] # <<>> => sendq'[p] # <<>>
      /\ \A e \in Proc : wire[q][e] # <<>> => wire'[q][e] # <<>>
  <2>1. CASE vc[p] = "LOCAL_CLOSE"
    <3>1. Acked \in Pkt /\ iStartMsg(p, Acked, w)
      BY <1>2, <2>1, ClosePackets
    <3>2. w \in [Proc -> [Proc -> Seq(Pkt)]] /\ w[q] = wire[q]
      BY <1>5
    <3>3. wire' \in [Proc -> [Proc -> Seq(Pkt)]]
      BY <1>0, <3>1, <3>2, StartMsg
    <3>4. sendq' \in [Proc -> Seq(Pkt)]
      BY <1>0, <3>1, <3>2, StartMsg
    <3>5. wire'[p] = w[p]
      BY <3>1, <3>2, StartMsgHere
    <3>8. sendq'[q] = sendq[q]
      BY <1>0, <3>1, <3>2, StartMsg
    <3>6. sendq[p] # <<>> => sendq'[p] # <<>>
      BY <1>0, <3>1, <3>2, StartMsg
    <3>7. ASSUME NEW e \in Proc, wire[q][e] # <<>> PROVE wire'[q][e] # <<>>
      BY <1>0, <3>1, <3>2, <3>7, StartMsg
    <3> QED  BY <3>3, <3>4, <3>5, <3>6, <3>7, <3>8
  <2>2. CASE vc[p] # "LOCAL_CLOSE"
    <3>1. wire' = w /\ sendq' = sendq
      BY <1>2, <2>2
    <3>2. sendq' \in [Proc -> Seq(Pkt)]
      BY <3>1 DEF LinkInv, LinkType
    <3> QED  BY <1>5, <3>1, <3>2
  <2> QED  BY <2>1, <2>2
<1> USE DEF LinkInv, IInv
<1>7. Winner' = Winner /\ Loser' = Loser
  BY <1>2 DEF Winner, Loser
<1>8. LinkType'
  BY <1>2, <1>6 DEF LinkType
<1>9. WinnerInv' /\ LoserInv'
  BY <1>2, <1>7 DEF WinnerInv, LoserInv, Opened
<1>10. /\ vc'[p] \in {"CLOSE_ACKED", "REMOTE_CLOSE"}
       /\ vc[p] = "LOCAL_CLOSE" => vc'[p] = "CLOSE_ACKED"
       /\ vc[p] = "ACTIVE" => vc'[p] = "REMOTE_CLOSE"
       /\ vc'[q] = vc[q]
  BY <1>0, <1>2 DEF TypeOK
<1>11. PhaseInv'
  <2>1. \A r \in Proc :
           /\ phase[r] = "running" => vc'[r] \in {"INACTIVE", "ACTIVE", "REMOTE_CLOSE"}
           /\ phase[r] # "running" => vc'[r] \in {"INACTIVE", "INACTIVE_CLOSED", "LOCAL_CLOSE", "CLOSE_ACKED", "CLOSED"}
    BY <1>0, <1>2, <1>10 DEF PhaseInv
  <2> QED  BY <1>2, <2>1 DEF PhaseInv, Other
<1>12. ChInv'
  BY <1>2, <1>7 DEF ChInv, Candidate, None
<1>13. VcInv'
  <2>1. \A r \in Proc : \A s \in {"INACTIVE", "INACTIVE_CLOSED", "CLOSED"} : vc'[r] = s <=> vc[r] = s
    BY <1>0, <1>2, <1>10
  <2> QED  BY <1>2, <1>7, <2>1 DEF VcInv, Silent
<1>14. CloseInv'
  <2>1. ~ Before(q)' /\ ~ After(q)'
    BY <1>2, <1>4, <1>10 DEF Before, After
  <2>2. ~ Before(p)' /\ ~ After(p)'
    BY <1>10 DEF Before, After
  <2>3. /\ vc'[p] = "REMOTE_CLOSE" => vc'[q] = "LOCAL_CLOSE"
        /\ vc'[q] # "REMOTE_CLOSE"
    BY <1>2, <1>4, <1>10
  <2> QED  BY <1>0, <2>1, <2>2, <2>3 DEF CloseInv, Other
<1>15. ReadyInv'
  <2> SUFFICES ASSUME NEW r \in Proc, NEW e \in Proc PROVE ReadyAt(r, e)'
    BY DEF ReadyInv
  <2>1. /\ \A ev : ev \in ready'[r] => ev \in ready[r]
        /\ <<"in", c>> \notin ready'[p]
    BY <1>2 DEF TypeOK
  <2>2. ReadyAt(r, e)
    BY DEF ReadyInv
  <2>3. r # p \/ e # c => (wire[r][e] # <<>> => wire'[r][e] # <<>>)
    <3>1. CASE r = q
      BY <1>6, <3>1
    <3>2. CASE r = p
      <4>1. wire'[p] = [wire[p] EXCEPT ![c] = Tail(@)]
        BY <1>5, <1>6
      <4>2. wire[p] \in [Proc -> Seq(Pkt)]
        BY DEF LinkType
      <4> QED  BY <3>2, <4>1, <4>2
    <3> QED  BY <1>0, <3>1, <3>2
  <2>4. sendq[r] # <<>> => sendq'[r] # <<>>
    BY <1>0, <1>6
  <2> QED  BY <1>2, <2>1, <2>2, <2>3, <2>4 DEF ReadyAt, Reads
<1>16. StreamTo(p)'
  <2>1. wire'[p] = [wire[p] EXCEPT ![Winner] = Tail(@)]
    BY <1>3, <1>5, <1>6
  <2>2. conn'[p][Winner] \in Opened
    BY <1>2, <1>3 DEF Opened
  <2>3. Run(received'[p], sent'[q]) = <<>>
    BY <1>2, <1>3, RunEmpty
  <2>4. Other(q)' = p
    BY <1>0 DEF Other
  <2>5. CASE Tail(wire[p][c]) \o sendq[q] = <<>> /\ vc[q] = "LOCAL_CLOSE"
    <3>1. <<>> \in Closes(q)'
      BY <1>10, <2>4, <2>5 DEF Closes, Before, After
    <3>2. Tail(wire[p][Winner]) \o sendq[q] = Run(received'[p], sent'[q]) \o <<>>
      BY <1>3, <2>3, <2>5, ConcatEmptySeq, EmptySeq
    <3> QED  BY <1>0, <1>2, <1>3, <1>6, <1>7, <2>1, <2>2, <3>1, <3>2, ReadOn
  <2>6. CASE Tail(wire[p][c]) \o sendq[q] = <<Acked>> /\ vc[q] = "CLOSE_ACKED" /\ vc[p] = "LOCAL_CLOSE"
    <3> DEFINE t == <<Acked>>
    <3>1. t \in Closes(q)'
      BY <1>10, <2>4, <2>6 DEF Closes
    <3>2. t \in Seq(Pkt) /\ Tail(wire[p][Winner]) \o sendq[q] = t
      BY <1>3, <2>6, Short
    <3> HIDE DEF t
    <3>3. Tail(wire[p][Winner]) \o sendq[q] = Run(received'[p], sent'[q]) \o t
      BY <2>3, <3>2, ConcatEmptySeq
    <3> QED  BY <1>0, <1>2, <1>3, <1>6, <1>7, <2>1, <2>2, <3>1, <3>3, ReadOn
  <2> QED  BY <1>4, <2>5, <2>6
<1>17. StreamTo(q)'
  <2>1. ASSUME NEW e \in Proc PROVE Opening(q, e)' = Opening(q, e)
    BY <1>0, <1>2 DEF Opening, OpenReq, PgId, OpenResp, Other
  <2>2. Other(p)' = q
    BY <1>0 DEF Other
  <2>3. CASE vc[p] = "ACTIVE"
    <3>1. Closes(p)' = {<<>>} /\ Closes(p) = {<<>>}
      BY <1>10, <2>2, <2>3 DEF Closes, After
    <3>2. wire'[q] = wire[q] /\ sendq' = sendq
      BY <1>2, <1>5, <2>3
    <3> QED  BY <1>0, <1>2, <1>7, <2>1, <3>1, <3>2, StreamStays
  <2>4. CASE vc[p] = "LOCAL_CLOSE"
    <3> DEFINE run == Run(received[q], sent[p])
               pkt == Acked
    <3>1. Closes(p) = IF vc[q] = "LOCAL_CLOSE" THEN {<<Asked>>} ELSE {<<>>}
      BY <1>0, <1>4, <2>4 DEF Closes, Before, After
    <3>2. Closes(p)' = IF vc[q] = "LOCAL_CLOSE" THEN {<<Acked>>, <<Asked, Acked>>} ELSE {<<Acked>>}
      BY <1>4, <1>10, <2>2, <2>4 DEF Closes
    <3>3. Append(<<Asked>>, Acked) = <<Asked, Acked>>
          /\ Append(<<>>, Acked) = <<Acked>>
      BY ClosePackets, Pairs, Short
    <3>4. pkt \in Pkt /\ \A t \in Closes(p) : t \in Seq(Pkt)
      BY <3>1, ClosePackets, Short
    <3>5. run \in Seq(Pkt) /\ Run(received'[q], sent'[p]) = run
      <4>1. received[q] \in Nat /\ sent[p] \in Nat /\ received[q] <= sent[p]
        BY <1>0 DEF LinkType, PhaseInv
      <4> QED  BY <1>2, <4>1, RunIsSeq
    <3>6. ASSUME NEW t \in Closes(p) PROVE Append(t, pkt) \in Closes(p)'
      BY <3>1, <3>2, <3>3
    <3> HIDE DEF run, pkt
    <3>7. ASSUME NEW t \in Closes(p)
          PROVE  \E u \in Closes(p)' : Append(run \o t, pkt) = Run(received'[q], sent'[p]) \o u
      <4>1. run \o Append(t, pkt) = Append(run \o t, pkt)
        BY <3>4, <3>5, Appends
      <4> QED  BY <3>5, <3>6, <4>1
    <3>8. iStartMsg(p, pkt, w)
      BY <1>2, <2>4 DEF pkt
    <3>9. conn[p][Winner] \in Opened => conn'[p][Winner] \in Opened
      BY <1>2
    <3> HIDE DEF LinkInv, IInv
    <3> QED  BY <1>0, <1>5, <1>7, <2>1, <3>4, <3>7, <3>8, <3>9, SentOn DEF run
  <2> QED  BY <1>2, <2>3, <2>4
<1> QED  BY <1>0, <1>1, <1>8, <1>9, <1>11, <1>12, <1>13, <1>14, <1>15, <1>16, <1>17 DEF StreamInv

\* Process p reads the acknowledgement; it closes the socket if it has
\* acknowledged the other's close.
LEMMA CloseAckLinks ==
    ASSUME LinkInv, NEW p \in Proc, NEW c \in Proc, HandleCloseAck(p, c)
    PROVE  LinkInv'
<1> DEFINE q == Other(p)
           w == Consumed(p, c)
<1>0. q \in Proc /\ q = Other(p) /\ p = Other(q) /\ q # p /\ (\A r \in Proc : r = p \/ r = q)
  BY DEF Proc, Other
<1> HIDE DEF q
<1>1. IInv'
  BY HandleCloseAckKeeps DEF LinkInv
<1>2. /\ conn[p][c] = "CONNECTED" /\ wire[p][c] # <<>>
      /\ Head(wire[p][c]).type = "CLOSE" /\ Head(wire[p][c]) # Asked
      /\ ready' = [ready EXCEPT ![p] = @ \ {<<"in", c>>}]
      /\ vc[p] \in {"LOCAL_CLOSE", "CLOSE_ACKED"}
      /\ vc' = [vc EXCEPT ![p] = "CLOSED"]
      /\ IF vc[p] = "LOCAL_CLOSE" THEN iStartMsg(p, Acked, w)
                                  ELSE wire' = w /\ UNCHANGED sendq
      /\ conn' = [conn EXCEPT ![p][ch[p].conn] = "CLOSING"]
      /\ UNCHANGED <<plan, phase, sent, received, ch, ops>>
  BY <1>0, ClosePackets DEF HandleCloseAck, MovesTo, Handles, Packet, LinkInv, ReadyInv, ReadyAt, AnswersClose, program, Acked
<1>3. /\ c = Winner /\ conn[q][c] \in Opened
      /\ received[p] = sent[q] /\ sent[q] \in Nat /\ Tail(wire[p][c]) \in Seq(Pkt)
  <2>1. conn[p][c] = "CONNECTED" /\ wire[p][c] # <<>> /\ Head(wire[p][c]).type = "CLOSE"
    BY <1>2
  <2> QED  BY <1>0, <2>1, NextClose
<1>4. /\ Tail(wire[p][c]) \o sendq[q] = <<>>
      /\ \/ vc[q] = "CLOSE_ACKED" /\ vc[p] = "LOCAL_CLOSE"
         \/ (vc[q] = "CLOSE_ACKED" \/ After(q)) /\ vc[p] = "CLOSE_ACKED"
  <2>1. conn[p][c] = "CONNECTED" /\ wire[p][c] # <<>> /\ Head(wire[p][c]).type = "CLOSE"
    BY <1>2
  <2>2. NextAsks(p, q) \/ NextAcknowledges(p, q)
    BY <1>0, <2>1, NextClose
  <2> QED  BY <1>2, <1>3, <2>2 DEF NextAsks, NextAcknowledges
<1>5. /\ w \in [Proc -> [Proc -> Seq(Pkt)]] /\ w[q] = wire[q]
      /\ w[p] = [wire[p] EXCEPT ![c] = Tail(@)]
  <2>1. w = [wire EXCEPT ![p][c] = Tail(wire[p][c])]
    BY DEF Consumed
  <2>2. w \in [Proc -> [Proc -> Seq(Pkt)]]
    BY <1>3, <2>1, WireTyped DEF LinkInv
  <2>3. w[q] = wire[q] /\ w[p] = [wire[p] EXCEPT ![c] = Tail(@)]
    BY <1>0, <2>1 DEF LinkInv, LinkType
  <2> QED  BY <2>2, <2>3
<1> HIDE DEF w
<1>6. /\ wire' \in [Proc -> [Proc -> Seq(Pkt)]] /\ sendq' \in [Proc -> Seq(Pkt)]
      /\ wire'[p] = w[p] /\ sendq'[q] = sendq[q]
      /\ sendq[p] # <<>> => sendq'[p] # <<>>
      /\ \A e \in Proc : wire[q][e] # <<>> => wire'[q][e] # <<>>
  <2>1. CASE vc[p] = "LOCAL_CLOSE"
    <3>1. Acked \in Pkt /\ iStartMsg(p, Acked, w)
      BY <1>2, <2>1, ClosePackets
    <3>2. w \in [Proc -> [Proc -> Seq(Pkt)]] /\ w[q] = wire[q]
      BY <1>5
    <3>3. wire' \in [Proc -> [Proc -> Seq(Pkt)]]
      BY <1>0, <3>1, <3>2, StartMsg
    <3>4. sendq' \in [Proc -> Seq(Pkt)]
      BY <1>0, <3>1, <3>2, StartMsg
    <3>5. wire'[p] = w[p]
      BY <3>1, <3>2, StartMsgHere
    <3>8. sendq'[q] = sendq[q]
      BY <1>0, <3>1, <3>2, StartMsg
    <3>6. sendq[p] # <<>> => sendq'[p] # <<>>
      BY <1>0, <3>1, <3>2, StartMsg
    <3>7. ASSUME NEW e \in Proc, wire[q][e] # <<>> PROVE wire'[q][e] # <<>>
      BY <1>0, <3>1, <3>2, <3>7, StartMsg
    <3> QED  BY <3>3, <3>4, <3>5, <3>6, <3>7, <3>8
  <2>2. CASE vc[p] # "LOCAL_CLOSE"
    <3>1. wire' = w /\ sendq' = sendq
      BY <1>2, <2>2
    <3>2. sendq' \in [Proc -> Seq(Pkt)]
      BY <3>1 DEF LinkInv, LinkType
    <3> QED  BY <1>5, <3>1, <3>2
  <2> QED  BY <2>1, <2>2
<1> USE DEF LinkInv, IInv
<1>18. conn' = [conn EXCEPT ![p][c] = "CLOSING"] /\ ch[p] = [state |-> "CONNECTED", conn |-> c]
  <2>1. ch[p] = [state |-> "CONNECTED", conn |-> c]
    BY <1>2, <1>3 DEF ChInv, Candidate
  <2> QED  BY <1>2, <2>1
<1>7. Winner' = Winner /\ Loser' = Loser
  BY <1>2, <1>18 DEF Winner, Loser, TypeOK
<1>8. LinkType'
  BY <1>2, <1>6 DEF LinkType
<1>19. /\ conn'[p][Winner] = "CLOSING" /\ conn'[q] = conn[q] /\ conn'[p][Loser] = conn[p][Loser]
  <2>1. Winner \in Proc /\ Loser \in Proc /\ Winner # Loser
    BY Sides DEF Proc
  <2> QED  BY <1>0, <1>3, <1>18, <2>1 DEF TypeOK
<1>9. WinnerInv' /\ LoserInv'
  <2>1. WinnerInv'
    BY <1>0, <1>2, <1>3, <1>7, <1>18, Sides DEF WinnerInv, Opened, TypeOK, Proc, Other
  <2>2. LoserInv'
    <3>1. conn'[Loser][Loser] = conn[Loser][Loser] /\ conn'[Winner][Loser] = conn[Winner][Loser]
      BY <1>0, <1>3, <1>18, Sides DEF TypeOK, Proc
    <3> QED  BY <1>7, <3>1 DEF LoserInv
  <2> QED  BY <2>1, <2>2
<1>10. /\ vc'[p] = "CLOSED" /\ vc'[q] = vc[q]
  BY <1>0, <1>2 DEF TypeOK
<1>11. PhaseInv'
  <2>1. \A r \in Proc :
           /\ phase[r] = "running" => vc'[r] \in {"INACTIVE", "ACTIVE", "REMOTE_CLOSE"}
           /\ phase[r] # "running" => vc'[r] \in {"INACTIVE", "INACTIVE_CLOSED", "LOCAL_CLOSE", "CLOSE_ACKED", "CLOSED"}
    BY <1>0, <1>2, <1>10 DEF PhaseInv
  <2> QED  BY <1>2, <2>1 DEF PhaseInv, Other
<1>12. ChInv'
  <2> SUFFICES ASSUME NEW r \in Proc PROVE ch'[r] = Candidate(r)'
    BY DEF ChInv
  <2>1. CASE r = q
    <3>1. conn'[r] = conn[r] /\ ch'[r] = ch[r] /\ ch[r] = Candidate(r)
      BY <1>2, <1>19, <2>1 DEF ChInv
    <3> QED  BY <1>7, <3>1 DEF Candidate, None
  <2>2. CASE r = p
    <3>1. ch'[r] = [state |-> "CONNECTED", conn |-> Winner'] /\ conn'[r][Winner'] = "CLOSING"
      BY <1>2, <1>3, <1>7, <1>18, <1>19, <2>2
    <3> QED  BY <3>1 DEF Candidate
  <2> QED  BY <1>0, <2>1, <2>2
<1>13. VcInv'
  <2> SUFFICES ASSUME NEW r \in Proc
               PROVE  /\ vc'[r] \in {"INACTIVE", "INACTIVE_CLOSED"} <=> ch'[r].state = "UNCONNECTED"
                      /\ conn'[r][Winner'] = "CLOSED" <=> vc'[r] = "INACTIVE" /\ phase'[r] # "running"
                      /\ conn'[r][Winner'] = "CLOSING" <=> vc'[r] = "CLOSED"
                      /\ phase'[r] = "running" /\ vc'[r] = "INACTIVE" => sent'[r] = 0 /\ received'[r] = 0
                      /\ vc'[r] = "INACTIVE_CLOSED" => Silent'
                      /\ conn'[r][r] # "none" => ~ Silent'
    BY DEF VcInv
  <2>0. Silent' <=> Silent
    BY <1>2 DEF Silent
  <2>1. CASE r = q
    <3>1. conn'[r] = conn[r] /\ ch'[r] = ch[r] /\ vc'[r] = vc[r]
      BY <1>2, <1>10, <1>19, <2>1
    <3> QED  BY <1>2, <1>7, <2>0, <3>1 DEF VcInv
  <2>2. CASE r = p
    <3>1. conn'[r][r] # "none" => conn[r][r] # "none"
      BY <1>2, <1>3, <1>18, <2>2 DEF TypeOK
    <3>2. ~ Silent \/ conn'[r][r] = "none"
      BY <3>1 DEF VcInv
    <3> QED  BY <1>2, <1>7, <1>10, <1>18, <1>19, <2>0, <2>2, <3>2
  <2> QED  BY <1>0, <2>1, <2>2
<1>14. CloseInv'
  <2>1. ~ Before(q)' /\ (After(q)' <=> After(q)) /\ vc'[q] # "REMOTE_CLOSE"
    BY <1>2, <1>4, <1>10 DEF Before, After
  <2>2. ~ Before(p)' /\ After(p)' /\ vc'[p] # "REMOTE_CLOSE"
    BY <1>10 DEF Before, After
  <2>3. After(q)' \/ vc'[q] = "CLOSE_ACKED"
    BY <1>4, <1>10, <2>1
  <2> QED  BY <1>0, <2>1, <2>2, <2>3 DEF CloseInv, Other
<1>15. ReadyInv'
  <2> SUFFICES ASSUME NEW r \in Proc, NEW e \in Proc PROVE ReadyAt(r, e)'
    BY DEF ReadyInv
  <2>1. /\ \A ev : ev \in ready'[r] => ev \in ready[r]
        /\ <<"in", c>> \notin ready'[p]
    BY <1>2 DEF TypeOK
  <2>2. ReadyAt(r, e)
    BY DEF ReadyInv
  <2>3. r # p \/ e # c => (wire[r][e] # <<>> => wire'[r][e] # <<>>)
    <3>1. CASE r = q
      BY <1>6, <3>1
    <3>2. CASE r = p
      <4>1. wire'[p] = [wire[p] EXCEPT ![c] = Tail(@)]
        BY <1>5, <1>6
      <4>2. wire[p] \in [Proc -> Seq(Pkt)]
        BY DEF LinkType
      <4> QED  BY <3>2, <4>1, <4>2
    <3> QED  BY <1>0, <3>1, <3>2
  <2>4. sendq[r] # <<>> => sendq'[r] # <<>>
    BY <1>0, <1>6
  <2>5. r # p \/ e # c => conn'[r][e] = conn[r][e]
    BY <1>18 DEF TypeOK
  <2>6. conn[e][e] # "none" => conn'[e][e] # "none"
    BY <1>18 DEF TypeOK
  <2>7. r = p /\ e = c => conn'[r][e] = "CLOSING"
    BY <1>3, <1>19
  <2> QED  BY <1>2, <2>1, <2>2, <2>3, <2>4, <2>5, <2>6, <2>7 DEF ReadyAt, Reads
<1>16. StreamTo(p)'
  <2>1. wire'[p] = [wire[p] EXCEPT ![Winner] = Tail(@)]
    BY <1>3, <1>5, <1>6
  <2>2. conn'[p][Winner] \in Opened
    BY <1>19 DEF Opened
  <2>3. Run(received'[p], sent'[q]) = <<>>
    BY <1>2, <1>3, RunEmpty
  <2>4. <<>> \in Closes(q)'
    <3>1. Other(q)' = p
      BY <1>0 DEF Other
    <3> QED  BY <1>4, <1>10, <3>1 DEF Closes, Before, After
  <2>5. Tail(wire[p][Winner]) \o sendq[q] = Run(received'[p], sent'[q]) \o <<>>
    BY <1>3, <1>4, <2>3, ConcatEmptySeq, EmptySeq
  <2>6. conn[p][Winner] = "CONNECTED" /\ wire[p][Winner] # <<>>
    BY <1>2, <1>3
  <2> QED  BY <1>0, <1>6, <1>7, <1>19, <2>1, <2>2, <2>4, <2>5, <2>6, ReadOn
<1>17. StreamTo(q)'
  <2>1. ASSUME NEW e \in Proc PROVE Opening(q, e)' = Opening(q, e)
    <3>0. Other(q)' = p /\ Other(q) = p /\ Other(p) = q
      BY <1>0 DEF Other
    <3>1. conn'[q] = conn[q] /\ conn[p][c] = "CONNECTED" /\ conn'[p][c] = "CLOSING"
      BY <1>2, <1>3, <1>19
    <3>2. e # c => conn'[p][e] = conn[p][e]
      BY <1>18 DEF TypeOK
    <3>3. CASE e = c
      <4>1. conn[e][e] # "OPEN_CRECV" /\ conn'[e][e] # "OPEN_CRECV"
        BY <1>0, <1>3, <3>1, <3>3 DEF Opened
      <4> QED  BY <4>1 DEF Opening
    <3>4. CASE e # c
      <4>1. conn'[e][e] = conn[e][e]
        BY <1>0, <3>1, <3>2, <3>4
      <4> QED  BY <3>0, <3>1, <3>2, <3>4, <4>1 DEF Opening, OpenReq, PgId, OpenResp
    <3> QED  BY <3>3, <3>4
  <2>2. Other(p)' = q
    BY <1>0 DEF Other
  <2>10. conn[p][Winner] \in Opened => conn'[p][Winner] \in Opened
    BY <1>19 DEF Opened
  <2>3. CASE vc[p] = "CLOSE_ACKED"
    <3>1. Closes(p)' = Closes(p)
      <4>1. Closes(p) = IF vc[q] = "CLOSE_ACKED" THEN {<<Acked>>} ELSE {<<>>}
        BY <1>0, <1>4, <2>3 DEF Closes, Before, After
      <4>2. Closes(p)' = IF vc[q] = "CLOSE_ACKED" THEN {<<Acked>>} ELSE {<<>>}
        BY <1>4, <1>10, <2>2 DEF Closes, Before, After, Asked, Acked, Close
      <4> QED  BY <4>1, <4>2
    <3>2. wire'[q] = wire[q] /\ sendq' = sendq
      BY <1>2, <1>5, <2>3
    <3> QED  BY <1>0, <1>2, <1>7, <2>1, <2>10, <3>1, <3>2, StreamStays
  <2>4. CASE vc[p] = "LOCAL_CLOSE"
    <3> DEFINE run == Run(received[q], sent[p])
    <3>1. Closes(p) = {<<>>} /\ vc[q] = "CLOSE_ACKED"
      BY <1>0, <1>4, <2>4 DEF Closes, Before, After
    <3>2. Closes(p)' = {<<Acked>>}
      BY <3>1, <1>10, <2>2 DEF Closes, After, Acked, Close
    <3>3. Acked \in Pkt /\ <<>> \in Seq(Pkt) /\ <<Acked>> \in Seq(Pkt) /\ Append(<<>>, Acked) = <<Acked>>
      BY ClosePackets, Short
    <3>5. run \in Seq(Pkt) /\ Run(received'[q], sent'[p]) = run
      <4>1. received[q] \in Nat /\ sent[p] \in Nat /\ received[q] <= sent[p]
        BY <1>0 DEF LinkType, PhaseInv
      <4> QED  BY <1>2, <4>1, RunIsSeq
    <3> HIDE DEF run
    <3>7. ASSUME NEW t \in Closes(p)
          PROVE  \E u \in Closes(p)' : Append(run \o t, Acked) = Run(received'[q], sent'[p]) \o u
      <4>1. t = <<>> /\ t \in Seq(Pkt)
        BY <3>1, <3>3, <3>7
      <4>2. run \o Append(t, Acked) = Append(run \o t, Acked)
        BY <3>3, <3>5, <4>1, Appends
      <4> QED  BY <3>2, <3>3, <3>5, <4>1, <4>2
    <3>8. iStartMsg(p, Acked, w)
      BY <1>2, <2>4
    <3> HIDE DEF LinkInv, IInv
    <3> DEFINE pkt == Acked
    <3>9. pkt \in Pkt /\ iStartMsg(p, pkt, w)
      BY <3>3, <3>8
    <3>10. \A t \in Closes(p) : \E u \in Closes(p)' :
              Append(Run(received[q], sent[p]) \o t, pkt) = Run(received'[q], sent'[p]) \o u
      BY <3>7 DEF run
    <3> HIDE DEF pkt
    <3> QED  BY <1>0, <1>5, <1>7, <2>1, <2>10, <3>9, <3>10, SentOn
  <2> QED  BY <1>2, <2>3, <2>4
<1> QED  BY <1>0, <1>1, <1>8, <1>9, <1>11, <1>12, <1>13, <1>14, <1>15, <1>16, <1>17 DEF StreamInv

\* MPI_Finalize asks for the close of the VC, after the last message.
LEMMA FinalizeLinks ==
    ASSUME LinkInv, NEW p \in Proc, Finalize(p)
    PROVE  LinkInv'
<1> DEFINE q == Other(p)
           pkt == Close(Acknowledges(p))
<1>0. q \in Proc /\ q = Other(p) /\ p = Other(q) /\ q # p /\ (\A r \in Proc : r = p \/ r = q)
  BY DEF Proc, Other
<1> HIDE DEF q
<1>1. IInv'
  BY FinalizeKeeps DEF LinkInv
<1>2. /\ phase[p] = "running" /\ sent[p] = plan[p] /\ received[p] = plan[q]
      /\ phase' = [phase EXCEPT ![p] = "closing"]
      /\ UNCHANGED <<plan, sent, received, ready>>
  BY <1>0 DEF Finalize
<1>3. /\ vc[p] \in {"INACTIVE", "ACTIVE", "REMOTE_CLOSE"}
      /\ vc[p] = "INACTIVE" => /\ vc' = [vc EXCEPT ![p] = "INACTIVE_CLOSED"]
                               /\ UNCHANGED <<ops, ch, sendq, conn, wire>>
      /\ vc[p] # "INACTIVE" => /\ vc' = [vc EXCEPT ![p] = IF @ = "ACTIVE" THEN "LOCAL_CLOSE" ELSE "CLOSE_ACKED"]
                               /\ iStartMsg(p, pkt, wire) /\ UNCHANGED <<ch, conn>>
  <2>1. vc[p] \in {"INACTIVE", "ACTIVE", "REMOTE_CLOSE"}
    BY <1>2 DEF LinkInv, PhaseInv
  <2>2. vc[p] # "INACTIVE" => ch[p].state # "UNCONNECTED"
    BY <2>1 DEF LinkInv, VcInv
  <2> HIDE DEF pkt
  <2> QED  BY <2>1, <2>2 DEF Finalize, CloseVC, PostConnect, link, pkt
<1>4. pkt \in Pkt
  BY PktTypes DEF Acknowledges
<1>5. wire \in [Proc -> [Proc -> Seq(Pkt)]]
  BY DEF LinkInv, LinkType
<1>6. /\ wire' \in [Proc -> [Proc -> Seq(Pkt)]] /\ sendq' \in [Proc -> Seq(Pkt)]
      /\ wire'[p] = wire[p] /\ sendq'[q] = sendq[q]
      /\ sendq[p] # <<>> => sendq'[p] # <<>>
      /\ \A e \in Proc : wire[q][e] # <<>> => wire'[q][e] # <<>>
  <2>1. CASE vc[p] # "INACTIVE"
    <3> HIDE DEF pkt
    <3>1. pkt \in Pkt /\ iStartMsg(p, pkt, wire)
      BY <1>3, <1>4, <2>1
    <3> DEFINE w == wire
    <3>2. w \in [Proc -> [Proc -> Seq(Pkt)]] /\ w[q] = wire[q] /\ iStartMsg(p, pkt, w)
      BY <1>5, <3>1
    <3> HIDE DEF w
    <3>3. wire' \in [Proc -> [Proc -> Seq(Pkt)]]
      BY <1>0, <3>1, <3>2, StartMsg
    <3>4. sendq' \in [Proc -> Seq(Pkt)]
      BY <1>0, <3>1, <3>2, StartMsg
    <3>5. wire'[p] = w[p]
      BY <3>1, <3>2, StartMsgHere
    <3>8. sendq'[q] = sendq[q]
      BY <1>0, <3>1, <3>2, StartMsg
    <3>6. sendq[p] # <<>> => sendq'[p] # <<>>
      BY <1>0, <3>1, <3>2, StartMsg
    <3>7. ASSUME NEW e \in Proc, wire[q][e] # <<>> PROVE wire'[q][e] # <<>>
      BY <1>0, <3>1, <3>2, <3>7, StartMsg
    <3> QED  BY <3>3, <3>4, <3>5, <3>6, <3>7, <3>8 DEF w
  <2>2. CASE vc[p] = "INACTIVE"
    <3>1. wire' = wire /\ sendq' = sendq
      BY <1>3, <2>2
    <3>2. sendq' \in [Proc -> Seq(Pkt)]
      BY <3>1 DEF LinkInv, LinkType
    <3> QED  BY <1>5, <3>1, <3>2
  <2> QED  BY <2>1, <2>2
<1> HIDE DEF pkt
<1>7. UNCHANGED <<ch, conn>>
  BY <1>3
<1> USE DEF LinkInv, IInv
<1>8. Winner' = Winner /\ Loser' = Loser
  BY <1>7 DEF Winner, Loser
<1>9. LinkType'
  BY <1>2, <1>6 DEF LinkType
<1>10. WinnerInv' /\ LoserInv'
  BY <1>7, <1>8 DEF WinnerInv, LoserInv, Opened
<1>11. /\ vc[p] = "INACTIVE" => vc'[p] = "INACTIVE_CLOSED"
       /\ vc[p] = "ACTIVE" => vc'[p] = "LOCAL_CLOSE"
       /\ vc[p] = "REMOTE_CLOSE" => vc'[p] = "CLOSE_ACKED"
       /\ vc'[q] = vc[q] /\ phase'[p] = "closing" /\ phase'[q] = phase[q]
       /\ (vc[p] = "INACTIVE" \/ vc[p] = "ACTIVE" \/ vc[p] = "REMOTE_CLOSE")
  BY <1>0, <1>2, <1>3 DEF TypeOK, LinkType
<1>12. PhaseInv'
  <2> SUFFICES ASSUME NEW r \in Proc
               PROVE  /\ phase'[r] = "running" => vc'[r] \in {"INACTIVE", "ACTIVE", "REMOTE_CLOSE"}
                      /\ phase'[r] # "running" =>
                          /\ vc'[r] \in {"INACTIVE", "INACTIVE_CLOSED", "LOCAL_CLOSE", "CLOSE_ACKED", "CLOSED"}
                          /\ sent'[r] = plan'[r] /\ received'[r] = plan'[Other(r)]
                      /\ phase'[r] = "exited" => ops'[r] = 0
                      /\ received'[Other(r)] <= sent'[r] /\ sent'[r] <= plan'[r]
    BY DEF PhaseInv, Other
  <2>1. CASE r = p
    BY <1>0, <1>2, <1>11, <2>1 DEF PhaseInv
  <2>2. CASE r = q
    <3>1. ops'[q] = ops[q]
      BY <1>0 DEF Finalize, CloseVC, TypeOK
    <3> QED  BY <1>0, <1>2, <1>11, <2>2, <3>1 DEF PhaseInv
  <2> QED  BY <1>0, <2>1, <2>2
<1>13. ChInv'
  BY <1>7, <1>8 DEF ChInv, Candidate, None
<1>14. VcInv'
  <2> SUFFICES ASSUME NEW r \in Proc
               PROVE  /\ vc'[r] \in {"INACTIVE", "INACTIVE_CLOSED"} <=> ch'[r].state = "UNCONNECTED"
                      /\ conn'[r][Winner'] = "CLOSED" <=> vc'[r] = "INACTIVE" /\ phase'[r] # "running"
                      /\ conn'[r][Winner'] = "CLOSING" <=> vc'[r] = "CLOSED"
                      /\ phase'[r] = "running" /\ vc'[r] = "INACTIVE" => sent'[r] = 0 /\ received'[r] = 0
                      /\ vc'[r] = "INACTIVE_CLOSED" => Silent'
                      /\ conn'[r][r] # "none" => ~ Silent'
    BY DEF VcInv
  <2>0. Silent' <=> Silent
    BY <1>2 DEF Silent
  <2>1. CASE r = q
    BY <1>2, <1>7, <1>8, <1>11, <2>0, <2>1 DEF VcInv
  <2>2. CASE r = p
    <3>1. vc[p] = "INACTIVE" => plan[p] = 0 /\ plan[q] = 0
      BY <1>2 DEF VcInv
    <3>2. vc[p] = "INACTIVE" => Silent
      BY <1>0, <3>1 DEF Silent, Proc
    <3>3. /\ vc[p] \in {"INACTIVE", "INACTIVE_CLOSED"} <=> ch[p].state = "UNCONNECTED"
          /\ conn[p][Winner] # "CLOSED"
          /\ conn[p][Winner] # "CLOSING"
          /\ conn[p][p] # "none" => ~ Silent
      BY <1>2, <1>11 DEF VcInv
    <3>4. vc'[p] # "INACTIVE" /\ vc'[p] # "CLOSED" /\ (vc'[p] = "INACTIVE_CLOSED" <=> vc[p] = "INACTIVE") /\ vc[p] # "INACTIVE_CLOSED"
      BY <1>11
    <3> QED  BY <1>7, <1>8, <1>11, <2>0, <2>2, <3>2, <3>3, <3>4
  <2> QED  BY <1>0, <2>1, <2>2
<1>15. /\ vc[p] = "ACTIVE" => Before(q) \/ vc[q] = "LOCAL_CLOSE"
       /\ vc[p] = "INACTIVE" => Before(q) \/ vc[q] = "LOCAL_CLOSE"
       /\ vc[p] = "REMOTE_CLOSE" => vc[q] = "LOCAL_CLOSE"
  BY <1>0, <1>2 DEF CloseInv, Before
<1>16. CloseInv'
  <2>1. (Before(q)' <=> Before(q)) /\ ~ After(q)'
    BY <1>11, <1>15 DEF Before, After
  <2>2. /\ vc[p] = "INACTIVE" <=> Before(p)'
        /\ ~ After(p)' /\ vc'[p] # "REMOTE_CLOSE"
    BY <1>11 DEF Before, After
  <2>3. vc'[q] # "REMOTE_CLOSE"
    BY <1>0, <1>11, <1>15 DEF Before
  <2>4. Before(q)' => Before(p)' \/ vc'[p] = "LOCAL_CLOSE"
    BY <1>11, <1>15, <2>1, <2>2 DEF Before
  <2>5. Before(p)' => Before(q)' \/ vc'[q] = "LOCAL_CLOSE"
    BY <1>11, <1>15, <2>1, <2>2
  <2> QED  BY <1>0, <2>1, <2>2, <2>3, <2>4, <2>5 DEF CloseInv, Other
<1>17. ReadyInv'
  <2> SUFFICES ASSUME NEW r \in Proc, NEW e \in Proc PROVE ReadyAt(r, e)'
    BY DEF ReadyInv
  <2>1. ReadyAt(r, e)
    BY DEF ReadyInv
  <2>2. wire[r][e] # <<>> => wire'[r][e] # <<>>
    BY <1>0, <1>6
  <2>3. sendq[r] # <<>> => sendq'[r] # <<>>
    BY <1>0, <1>6
  <2> QED  BY <1>2, <1>7, <2>1, <2>2, <2>3 DEF ReadyAt, Reads
<1>18. \A r \in Proc, e \in Proc : Opening(r, e)' = Opening(r, e)
  BY <1>7 DEF Opening, OpenReq, PgId, OpenResp
<1>19. Other(p)' = q /\ Other(q)' = p
  BY <1>0 DEF Other
<1>20. Closes(q)' = Closes(q)
  <2>1. Closes(q) = IF vc[p] # "REMOTE_CLOSE" /\ vc[q] = "LOCAL_CLOSE" THEN {<<Asked>>} ELSE {<<>>}
    BY <1>0, <1>2, <1>11, <1>15 DEF Closes, Before, After
  <2>2. Closes(q)' = IF vc[p] # "REMOTE_CLOSE" /\ vc[q] = "LOCAL_CLOSE" THEN {<<Asked>>} ELSE {<<>>}
    BY <1>11, <1>15, <1>19 DEF Closes, Before, After, Asked, Close
  <2> QED  BY <2>1, <2>2
<1>21. StreamTo(p)'
  <2>1. \A e \in Proc : wire'[p][e] = wire[p][e]
    BY <1>6
  <2> QED  BY <1>0, <1>2, <1>6, <1>7, <1>8, <1>18, <1>20, <2>1, StreamStays
<1>22. StreamTo(q)'
  <2>1. CASE vc[p] = "INACTIVE"
    <3>1. Closes(p)' = {<<>>} /\ Closes(p) = {<<>>}
      BY <1>0, <1>2, <1>11, <1>19, <2>1 DEF Closes, After
    <3>2. wire' = wire /\ sendq' = sendq
      BY <1>3, <2>1
    <3> QED  BY <1>0, <1>2, <1>7, <1>8, <1>18, <3>1, <3>2, StreamStays
  <2>2. CASE vc[p] # "INACTIVE"
    <3> DEFINE run == Run(received[q], sent[p])
    <3>1. pkt = (IF vc[p] = "ACTIVE" THEN Asked ELSE Acked) /\ pkt \in Pkt
      <4>1. vc[p] = "ACTIVE" => Acknowledges(p) = FALSE
        BY DEF Acknowledges
      <4>2. vc[p] # "ACTIVE" => Acknowledges(p) = TRUE
        BY <1>11, <2>2 DEF Acknowledges
      <4> QED  BY <1>4, <4>1, <4>2 DEF pkt, Asked, Acked
    <3>2. Closes(p) = {<<>>}
      BY <1>0, <1>2, <1>11, <1>15, <2>2 DEF Closes, After
    <3>3. /\ vc[p] = "ACTIVE" => Closes(p)' = {<<Asked>>}
          /\ vc[p] # "ACTIVE" => Closes(p)' = {<<Acked>>, <<Asked, Acked>>}
      <4>1. Before(q)' <=> Before(q)
        BY <1>11 DEF Before
      <4> QED  BY <1>11, <1>15, <1>19, <2>2, <4>1 DEF Closes, Asked, Acked, Close
    <3>4. <<>> \in Seq(Pkt) /\ Append(<<>>, Asked) = <<Asked>> /\ Append(<<>>, Acked) = <<Acked>>
      BY Short
    <3>5. run \in Seq(Pkt) /\ Run(received'[q], sent'[p]) = run
      <4>1. received[q] \in Nat /\ sent[p] \in Nat /\ received[q] <= sent[p]
        BY <1>0 DEF LinkType, PhaseInv
      <4> QED  BY <1>2, <4>1, RunIsSeq
    <3>6. Append(<<>>, pkt) \in Closes(p)'
      BY <3>1, <3>3, <3>4
    <3> HIDE DEF run
    <3>7. ASSUME NEW t \in Closes(p)
          PROVE  \E u \in Closes(p)' : Append(run \o t, pkt) = Run(received'[q], sent'[p]) \o u
      <4>1. t = <<>> /\ t \in Seq(Pkt)
        BY <3>2, <3>4, <3>7
      <4>2. run \o Append(t, pkt) = Append(run \o t, pkt)
        BY <3>1, <3>5, <4>1, Appends
      <4> QED  BY <3>5, <3>6, <4>1, <4>2
    <3>8. conn[p][Winner] \in Opened => conn'[p][Winner] \in Opened
      BY <1>7
    <3> HIDE DEF LinkInv, IInv
    <3> DEFINE w == wire
    <3>9. pkt \in Pkt /\ iStartMsg(p, pkt, w) /\ w \in [Proc -> [Proc -> Seq(Pkt)]] /\ w[q] = wire[q]
      BY <1>3, <1>5, <2>2, <3>1
    <3>10. \A t \in Closes(p) : \E u \in Closes(p)' :
              Append(Run(received[q], sent[p]) \o t, pkt) = Run(received'[q], sent'[p]) \o u
      BY <3>7 DEF run
    <3>11. \A e \in Proc : Opening(q, e)' = Opening(q, e)
      BY <1>0, <1>18
    <3> HIDE DEF w
    <3> QED  BY <1>0, <1>8, <3>8, <3>9, <3>10, <3>11, SentOn
  <2> QED  BY <2>1, <2>2
<1> QED  BY <1>0, <1>1, <1>9, <1>10, <1>12, <1>13, <1>14, <1>16, <1>17, <1>21, <1>22 DEF StreamInv

\* A program sends while both are running.
LEMMA IsendMoves ==
    ASSUME LinkInv, NEW p \in Proc, NEW q \in Proc, q = Other(p), p = Other(q), Isend(p)
    PROVE  /\ phase[p] = "running" /\ phase[q] = "running"
           /\ sent[p] < plan[p] /\ received[q] <= sent[p]
           /\ sent[p] \in Nat /\ plan[p] \in Nat /\ received[q] \in Nat
           /\ vc[p] \in {"INACTIVE", "ACTIVE"} /\ vc[q] \in {"INACTIVE", "ACTIVE"}
           /\ vc'[p] = "ACTIVE" /\ vc'[q] = vc[q]
           /\ \A r \in Proc : Closes(r) = {<<>>} /\ Closes(r)' = {<<>>} /\ Before(r) /\ Before(r)'
<1> USE DEF LinkInv, IInv
<1>0. q # p /\ \A r \in Proc : r = p \/ r = q
  BY DEF Proc, Other
<1>1. phase[p] = "running" /\ sent[p] < plan[p] /\ received[q] <= sent[p]
      /\ sent[p] \in Nat /\ plan[p] \in Nat /\ received[q] \in Nat
  BY DEF Isend, LinkType, PhaseInv
<1>2. phase[q] = "running"
  BY <1>1 DEF PhaseInv
<1>3. vc[p] \in {"INACTIVE", "ACTIVE"} /\ vc[q] \in {"INACTIVE", "ACTIVE"}
  <2>1. vc[p] \in {"INACTIVE", "ACTIVE", "REMOTE_CLOSE"} /\ vc[q] \in {"INACTIVE", "ACTIVE", "REMOTE_CLOSE"}
    BY <1>1, <1>2 DEF PhaseInv
  <2>2. vc[p] # "REMOTE_CLOSE" /\ vc[q] # "REMOTE_CLOSE"
    BY <2>1 DEF CloseInv
  <2> QED  BY <2>1, <2>2
<1>4. vc'[p] = "ACTIVE" /\ vc'[q] = vc[q] /\ phase' = phase
  BY <1>0, <1>3 DEF Isend, SetActive, TypeOK
<1>5. ASSUME NEW r \in Proc PROVE Before(r) /\ Before(r)' /\ vc[r] \in {"INACTIVE", "ACTIVE"} /\ vc'[r] \in {"INACTIVE", "ACTIVE"}
  BY <1>0, <1>1, <1>2, <1>3, <1>4 DEF Before
<1>6. ASSUME NEW r \in Proc PROVE Closes(r) = {<<>>} /\ Closes(r)' = {<<>>}
  <2>1. Other(r) \in Proc /\ Other(r)' = Other(r)
    BY DEF Proc, Other
  <2>2. vc[r] \in {"INACTIVE", "ACTIVE"} /\ vc'[r] \in {"INACTIVE", "ACTIVE"}
        /\ vc[Other(r)] \in {"INACTIVE", "ACTIVE"} /\ vc'[Other(r)] \in {"INACTIVE", "ACTIVE"}
    BY <1>5, <2>1
  <2> QED  BY <2>1, <2>2 DEF Closes
<1> QED  BY <1>1, <1>2, <1>3, <1>4, <1>5, <1>6

\* Sending a message keeps the parts of the invariant that are not about
\* connections.
LEMMA IsendFrame ==
    ASSUME LinkInv, NEW p \in Proc, Isend(p)
    PROVE  /\ LinkType' /\ PhaseInv' /\ CloseInv'
           /\ wire'[p] = wire[p] /\ sendq'[Other(p)] = sendq[Other(p)]
           /\ sendq[p] # <<>> => sendq'[p] # <<>>
           /\ \A e \in Proc : wire[Other(p)][e] # <<>> => wire'[Other(p)][e] # <<>>
<1> DEFINE q == Other(p)
           pkt == Message(sent[p] + 1)
           w == wire
<1>0. q \in Proc /\ q = Other(p) /\ p = Other(q) /\ q # p /\ (\A r \in Proc : r = p \/ r = q)
  BY DEF Proc, Other
<1> HIDE DEF q
<1>1. /\ phase[p] = "running" /\ phase[q] = "running"
      /\ sent[p] < plan[p] /\ received[q] <= sent[p]
      /\ sent[p] \in Nat /\ plan[p] \in Nat /\ received[q] \in Nat
      /\ vc'[p] = "ACTIVE" /\ vc'[q] = vc[q] /\ vc[q] \in {"INACTIVE", "ACTIVE"}
  BY <1>0, IsendMoves
<1>2. \A r \in Proc : Before(r)'
  BY <1>0, IsendMoves
<1>3. /\ sent' = [sent EXCEPT ![p] = @ + 1]
      /\ UNCHANGED <<plan, phase, received, ready, ops>>
  BY DEF Isend
<1>4. pkt \in Pkt
  BY <1>1, PktTypes
<1> HIDE DEF pkt
<1>5. iStartMsg(p, pkt, w) /\ w \in [Proc -> [Proc -> Seq(Pkt)]] /\ w[q] = wire[q]
  BY DEF Isend, LinkInv, LinkType, pkt
<1> HIDE DEF w
<1>6. wire' \in [Proc -> [Proc -> Seq(Pkt)]]
  BY <1>0, <1>4, <1>5, StartMsg
<1>7. sendq' \in [Proc -> Seq(Pkt)]
  BY <1>0, <1>4, <1>5, StartMsg
<1>8. wire'[p] = w[p]
  BY <1>5, StartMsgHere
<1>9. sendq'[q] = sendq[q]
  BY <1>0, <1>4, <1>5, StartMsg
<1>10. sendq[p] # <<>> => sendq'[p] # <<>>
  BY <1>0, <1>4, <1>5, StartMsg
<1>11. ASSUME NEW e \in Proc, wire[q][e] # <<>> PROVE wire'[q][e] # <<>>
  BY <1>0, <1>4, <1>5, <1>11, StartMsg
<1>12. LinkType'
  <2>1. sent \in [Proc -> Nat] /\ sent[p] + 1 \in Nat
    <3>1. sent \in [Proc -> Nat]
      BY DEF LinkInv, LinkType
    <3>2. sent[p] + 1 \in Nat
      BY <1>1
    <3> QED  BY <3>1, <3>2
  <2>2. sent' \in [Proc -> Nat]
    BY <1>3, <2>1
  <2> QED  BY <1>3, <1>6, <1>7, <2>2 DEF LinkInv, LinkType
<1>13. PhaseInv'
  <2>1. sent'[p] = sent[p] + 1 /\ sent'[q] = sent[q]
    BY <1>0, <1>3 DEF LinkInv, LinkType
  <2>2. sent'[p] <= plan[p] /\ received[q] <= sent'[p]
    BY <1>1, <2>1
  <2> SUFFICES ASSUME NEW r \in Proc
               PROVE  /\ phase'[r] = "running" => vc'[r] \in {"INACTIVE", "ACTIVE", "REMOTE_CLOSE"}
                      /\ phase'[r] # "running" =>
                          /\ vc'[r] \in {"INACTIVE", "INACTIVE_CLOSED", "LOCAL_CLOSE", "CLOSE_ACKED", "CLOSED"}
                          /\ sent'[r] = plan'[r] /\ received'[r] = plan'[Other(r)]
                      /\ phase'[r] = "exited" => ops'[r] = 0
                      /\ received'[Other(r)] <= sent'[r] /\ sent'[r] <= plan'[r]
    BY DEF PhaseInv, Other
  <2>3. CASE r = p
    BY <1>0, <1>1, <1>3, <2>2, <2>3
  <2>4. CASE r = q
    BY <1>0, <1>1, <1>3, <2>1, <2>4 DEF LinkInv, PhaseInv
  <2> QED  BY <1>0, <2>3, <2>4
<1>14. CloseInv'
  <2>1. \A r \in Proc : vc'[r] \in {"INACTIVE", "ACTIVE"} /\ phase'[r] = "running"
    BY <1>0, <1>1, <1>3
  <2>2. \A r \in Proc : vc'[r] # "REMOTE_CLOSE" /\ ~ After(r)'
    BY <2>1 DEF After
  <2> QED  BY <1>0, <1>2, <2>2 DEF CloseInv, Proc, Other
<1> QED  BY <1>8, <1>9, <1>10, <1>11, <1>12, <1>13, <1>14 DEF w, q

\* The first message of a VC that has none asks for a connection. Where the
\* other process has asked already, this one wins or loses by rank.
LEMMA IsendOpens ==
    ASSUME LinkInv, NEW p \in Proc, NEW q \in Proc, q = Other(p), p = Other(q),
           Isend(p), ch[p].state = "UNCONNECTED"
    PROVE  /\ conn[p][p] = "none" /\ conn[q][p] = "none"
           /\ conn' = [conn EXCEPT ![p][p] = "CONNECTING"]
           /\ ch' = [ch EXCEPT ![p] = [state |-> "CONNECTING", conn |-> p]]
           /\ p = 1 => Winner = 0 /\ conn[1][0] \in {"none", "OPEN_LRECV_PKT", "OPEN_LRECV_DATA"}
<1> USE DEF LinkInv, IInv
<1>1. phase[p] = "running" /\ vc[p] \in {"INACTIVE", "ACTIVE"}
  BY IsendMoves
<1>2. conn[p][Winner] # "CLOSED" /\ conn[p][Winner] # "CLOSING"
  BY <1>1 DEF VcInv
<1>3. conn[p][Winner] \in {"none", "OPEN_LRECV_PKT", "OPEN_LRECV_DATA"}
  <2>1. ch[p] = Candidate(p)
    BY DEF ChInv
  <2>2. conn[p][Winner] \notin {"CONNECTED", "CONNECTING", "OPEN_CSEND", "OPEN_CRECV", "OPEN_LSEND"}
    BY <2>1 DEF Candidate
  <2>3. conn[p][Winner] \in {"none", "CONNECTING", "OPEN_CSEND", "OPEN_CRECV", "OPEN_LRECV_PKT",
                             "OPEN_LRECV_DATA", "OPEN_LSEND", "CONNECTED", "CLOSING", "CLOSED"}
    BY Sides DEF WinnerInv, Opened, Proc, Other
  <2> QED  BY <1>2, <2>2, <2>3
<1>4. CASE p = Winner
  <2>1. conn[p][p] = "none" /\ conn[q][p] = "none"
    BY <1>3, <1>4, Sides DEF WinnerInv, Opened, Proc, Other
  <2>2. p = 0
    BY <1>4, <2>1, Sides
  <2> QED  BY <2>1, <2>2 DEF Isend, PostConnect
<1>5. CASE p # Winner
  <2>0. p = Loser /\ q = Winner
    BY <1>5, Sides DEF Proc, Other
  <2>1. conn[p][Loser] = "none"
    <3>1. ch[p] = Candidate(p)
      BY DEF ChInv
    <3> QED  BY <1>2, <1>3, <1>5, <3>1 DEF Candidate
  <2>2. conn[p][p] = "none" /\ conn[q][p] = "none"
    BY <2>0, <2>1 DEF LoserInv
  <2>3. p = 1 => Winner = 0 /\ conn[1][0] \in {"none", "OPEN_LRECV_PKT", "OPEN_LRECV_DATA"}
    BY <1>3, <1>5, Sides DEF Proc
  <2> QED  BY <2>2, <2>3 DEF Isend, PostConnect
<1> QED  BY <1>4, <1>5

\* The message is the last of the stream to q, and the stream to p is as it
\* was.
LEMMA IsendSends ==
    ASSUME LinkInv, NEW p \in Proc, NEW q \in Proc, q = Other(p), p = Other(q), Isend(p),
           Winner' = Winner, Loser' = Loser,
           \A r \in Proc, e \in Proc : Opening(r, e)' = Opening(r, e),
           \A r \in Proc : conn[r][Winner] \in Opened => conn'[r][Winner] \in Opened
    PROVE  StreamTo(p)' /\ StreamTo(q)'
<1>0. p # q
  BY DEF Proc, Other
<1>1. \A r \in Proc : Closes(r) = {<<>>} /\ Closes(r)' = {<<>>}
  BY IsendMoves
<1>2. /\ sent[p] \in Nat /\ received[q] \in Nat /\ received[q] <= sent[p]
  BY IsendMoves
<1>3. wire'[p] = wire[p] /\ sendq'[q] = sendq[q]
  BY IsendFrame
<1>4. /\ sent' = [sent EXCEPT ![p] = @ + 1] /\ received' = received
      /\ iStartMsg(p, Message(sent[p] + 1), wire)
  BY DEF Isend
<1>5. sent'[p] = sent[p] + 1 /\ sent'[q] = sent[q]
  BY <1>0, <1>4 DEF LinkInv, LinkType
<1>6. StreamTo(p)'
  <2>1. \A e \in Proc : wire'[p][e] = wire[p][e] /\ Opening(p, e)' = Opening(p, e)
    BY <1>3
  <2>2. Closes(q)' = Closes(q)
    BY <1>1
  <2> QED  BY <1>3, <1>4, <1>5, <2>1, <2>2, StreamStays
<1>7. StreamTo(q)'
  <2> DEFINE pkt == Message(sent[p] + 1)
             w == wire
             run == Run(received[q], sent[p])
  <2>1. pkt \in Pkt /\ iStartMsg(p, pkt, w) /\ w[q] = wire[q]
    BY <1>2, <1>4, PktTypes
  <2>2. w \in [Proc -> [Proc -> Seq(Pkt)]]
    BY DEF LinkInv, LinkType
  <2>3. run \in Seq(Pkt)
    BY <1>2, RunIsSeq
  <2>4. Append(run, pkt) = Run(received'[q], sent'[p])
    BY <1>2, <1>4, <1>5, RunGrows
  <2>5. Run(received'[q], sent'[p]) \in Seq(Pkt)
    <3>1. sent[p] + 1 \in Nat /\ received[q] <= sent[p] + 1
      BY <1>2
    <3> QED  BY <1>2, <1>4, <1>5, <3>1, RunIsSeq
  <2> HIDE DEF pkt, w, run
  <2>6. <<>> \in Closes(p)'
    BY <1>1
  <2>7. ASSUME NEW t \in Closes(p)
        PROVE  \E u \in Closes(p)' : Append(run \o t, pkt) = Run(received'[q], sent'[p]) \o u
    <3>1. t = <<>>
      BY <1>1, <2>7
    <3>2. Append(run \o t, pkt) = Run(received'[q], sent'[p]) \o <<>>
      BY <2>3, <2>4, <2>5, <3>1, ConcatEmptySeq
    <3> QED  BY <2>6, <3>2
  <2>8. \A t \in Closes(p) : \E u \in Closes(p)' :
              Append(Run(received[q], sent[p]) \o t, pkt) = Run(received'[q], sent'[p]) \o u
    BY <2>7 DEF run
  <2> QED  BY <2>1, <2>2, <2>8, SentOn
<1> QED  BY <1>6, <1>7

\* A message on a VC that is connected or connecting.
LEMMA IsendOnLinks ==
    ASSUME LinkInv, NEW p \in Proc, Isend(p), ch[p].state # "UNCONNECTED"
    PROVE  LinkInv'
<1> DEFINE q == Other(p)
<1>0. q \in Proc /\ q = Other(p) /\ p = Other(q) /\ q # p /\ (\A r \in Proc : r = p \/ r = q)
  BY DEF Proc, Other
<1> HIDE DEF q
<1>1. IInv'
  BY IsendKeeps DEF LinkInv
<1>2. LinkType' /\ PhaseInv' /\ CloseInv'
  BY IsendFrame
<1>3. /\ wire'[p] = wire[p] /\ sendq'[q] = sendq[q]
      /\ sendq[p] # <<>> => sendq'[p] # <<>>
      /\ \A e \in Proc : wire[q][e] # <<>> => wire'[q][e] # <<>>
  BY <1>0, IsendFrame
<1>4. phase[p] = "running" /\ vc'[p] = "ACTIVE" /\ vc'[q] = vc[q] /\ vc[p] \in {"INACTIVE", "ACTIVE"}
  BY <1>0, IsendMoves
<1>5. UNCHANGED <<plan, phase, received, ready, ops, ch, conn>>
  BY DEF Isend, PostConnect
<1>6. Winner' = Winner /\ Loser' = Loser
  BY <1>5 DEF Winner, Loser
<1>7. \A r \in Proc, e \in Proc : Opening(r, e)' = Opening(r, e)
  BY <1>5 DEF Opening, OpenReq, PgId, OpenResp
<1>8. \A r \in Proc : conn[r][Winner] \in Opened => conn'[r][Winner] \in Opened
  BY <1>5
<1>9. StreamTo(p)' /\ StreamTo(q)'
  BY <1>0, <1>6, <1>7, <1>8, IsendSends
<1> USE DEF LinkInv, IInv
<1>10. vc[p] = "ACTIVE"
  BY <1>4 DEF VcInv
<1>11. WinnerInv' /\ LoserInv' /\ ChInv'
  BY <1>5, <1>6 DEF WinnerInv, LoserInv, Opened, ChInv, Candidate, None
<1>12. VcInv'
  <2> SUFFICES ASSUME NEW r \in Proc
               PROVE  /\ vc'[r] \in {"INACTIVE", "INACTIVE_CLOSED"} <=> ch'[r].state = "UNCONNECTED"
                      /\ conn'[r][Winner'] = "CLOSED" <=> vc'[r] = "INACTIVE" /\ phase'[r] # "running"
                      /\ conn'[r][Winner'] = "CLOSING" <=> vc'[r] = "CLOSED"
                      /\ phase'[r] = "running" /\ vc'[r] = "INACTIVE" => sent'[r] = 0 /\ received'[r] = 0
                      /\ vc'[r] = "INACTIVE_CLOSED" => Silent'
                      /\ conn'[r][r] # "none" => ~ Silent'
    BY DEF VcInv
  <2>1. vc'[r] = vc[r] /\ (Silent' <=> Silent)
    BY <1>0, <1>4, <1>5, <1>10 DEF Silent
  <2>2. vc'[r] = "INACTIVE" => sent'[r] = sent[r]
    <3>1. sent' = [sent EXCEPT ![p] = @ + 1]
      BY DEF Isend
    <3> QED  BY <1>4, <3>1 DEF LinkType
  <2> QED  BY <1>5, <1>6, <2>1, <2>2 DEF VcInv
<1>13. ReadyInv'
  <2> SUFFICES ASSUME NEW r \in Proc, NEW e \in Proc PROVE ReadyAt(r, e)'
    BY DEF ReadyInv
  <2>1. ReadyAt(r, e)
    BY DEF ReadyInv
  <2>2. wire[r][e] # <<>> => wire'[r][e] # <<>>
    BY <1>0, <1>3
  <2>3. sendq[r] # <<>> => sendq'[r] # <<>>
    BY <1>0, <1>3
  <2> QED  BY <1>5, <2>1, <2>2, <2>3 DEF ReadyAt, Reads
<1> QED  BY <1>0, <1>1, <1>2, <1>9, <1>11, <1>12, <1>13 DEF StreamInv

\* A message on a VC that is not connected.
LEMMA IsendOpenLinks ==
    ASSUME LinkInv, NEW p \in Proc, Isend(p), ch[p].state = "UNCONNECTED"
    PROVE  LinkInv'
<1> DEFINE q == Other(p)
<1>0. q \in Proc /\ q = Other(p) /\ p = Other(q) /\ q # p /\ (\A r \in Proc : r = p \/ r = q)
  BY DEF Proc, Other
<1> HIDE DEF q
<1>1. IInv'
  BY IsendKeeps DEF LinkInv
<1>2. LinkType' /\ PhaseInv' /\ CloseInv'
  BY IsendFrame
<1>3. /\ wire'[p] = wire[p] /\ sendq'[q] = sendq[q]
      /\ sendq[p] # <<>> => sendq'[p] # <<>>
      /\ \A e \in Proc : wire[q][e] # <<>> => wire'[q][e] # <<>>
  BY <1>0, IsendFrame
<1>4. phase[p] = "running" /\ phase[q] = "running" /\ vc'[p] = "ACTIVE" /\ vc'[q] = vc[q]
      /\ vc[p] \in {"INACTIVE", "ACTIVE"} /\ vc[q] \in {"INACTIVE", "ACTIVE"} /\ sent[p] < plan[p]
      /\ sent[p] \in Nat /\ plan[p] \in Nat /\ received[q] \in Nat /\ received[q] <= sent[p]
  BY <1>0, IsendMoves
<1>5. /\ conn[p][p] = "none" /\ conn[q][p] = "none"
      /\ conn' = [conn EXCEPT ![p][p] = "CONNECTING"]
      /\ ch' = [ch EXCEPT ![p] = [state |-> "CONNECTING", conn |-> p]]
      /\ p = 1 => Winner = 0 /\ conn[1][0] \in {"none", "OPEN_LRECV_PKT", "OPEN_LRECV_DATA"}
  BY <1>0, IsendOpens
<1>6. /\ UNCHANGED <<plan, phase, received, ready, ops>>
      /\ sent' = [sent EXCEPT ![p] = @ + 1]
      /\ wire' = wire /\ sendq' = [sendq EXCEPT ![p] = Append(@, Message(sent[p] + 1))]
  BY DEF Isend, iStartMsg, AtOnce
<1> USE DEF LinkInv, IInv
<1>7. conn'[p][p] = "CONNECTING" /\ \A r \in Proc, e \in Proc : (r # p \/ e # p) => conn'[r][e] = conn[r][e]
  BY <1>5 DEF TypeOK
<1>8. \/ p = 0 /\ q = 1 /\ Winner' = Winner /\ Loser' = Loser
      \/ p = 1 /\ q = 0 /\ Winner = 0 /\ Loser = 1 /\ Winner' = 1 /\ Loser' = 0
  BY <1>5, <1>7 DEF Winner, Loser, Proc, Other, q
<1>9. WinnerInv'
  BY <1>0, <1>5, <1>7, <1>8, Sides DEF WinnerInv, LoserInv, Opened, Proc
<1>10. LoserInv'
  BY <1>0, <1>5, <1>7, <1>8, Sides DEF WinnerInv, LoserInv, Opened, Proc
<1>11. ASSUME NEW r \in Proc
       PROVE  conn[r][Winner] # "CLOSED" /\ conn[r][Winner] # "CLOSING"
  BY <1>0, <1>4 DEF VcInv
<1>12. ChInv'
  <2> SUFFICES ASSUME NEW r \in Proc PROVE ch'[r] = Candidate(r)'
    BY DEF ChInv
  <2>1. CASE r = p
    <3>1. ch'[p] = [state |-> "CONNECTING", conn |-> p]
      BY <1>5 DEF TypeOK
    <3>2. ch[p] = Candidate(p)
      BY DEF ChInv
    <3>3. CASE p = Winner'
      BY <1>7, <2>1, <3>1, <3>3 DEF Candidate
    <3>4. CASE p # Winner'
      <4>1. p = 0 /\ Winner = 1 /\ Winner' = 1 /\ Loser' = 0
        BY <1>8, <3>4, Sides
      <4>2. conn[0][1] \notin {"CONNECTED", "CLOSING", "CONNECTING", "OPEN_CSEND", "OPEN_CRECV", "OPEN_LSEND", "CLOSED"}
        BY <1>11, <3>2, <4>1 DEF Candidate
      <4>3. conn'[0][1] = conn[0][1] /\ conn'[0][0] = "CONNECTING"
        BY <1>7, <4>1 DEF Proc
      <4> QED  BY <2>1, <3>1, <4>1, <4>2, <4>3 DEF Candidate
    <3> QED  BY <3>3, <3>4
  <2>2. CASE r = q
    <3>1. ch'[q] = ch[q] /\ ch[q] = Candidate(q) /\ conn'[q][0] = conn[q][0] /\ conn'[q][1] = conn[q][1]
      BY <1>0, <1>5, <1>7 DEF ChInv, Proc, TypeOK
    <3>2. CASE Winner' = Winner /\ Loser' = Loser
      BY <2>2, <3>1, <3>2, Sides DEF Candidate, None
    <3>3. CASE q = 0 /\ Winner = 0 /\ Loser = 1 /\ Winner' = 1 /\ Loser' = 0
      <4>1. conn[0][1] = "none" /\ conn[0][0] \in {"none", "CONNECTING", "OPEN_CSEND", "OPEN_CRECV"}
        BY <1>5, <1>8, <3>3, Sides DEF WinnerInv, Opened
      <4> QED  BY <2>2, <3>1, <3>3, <4>1 DEF Candidate, None
    <3> QED  BY <1>8, <3>2, <3>3
  <2> QED  BY <1>0, <2>1, <2>2
<1>13. VcInv'
  <2> SUFFICES ASSUME NEW r \in Proc
               PROVE  /\ vc'[r] \in {"INACTIVE", "INACTIVE_CLOSED"} <=> ch'[r].state = "UNCONNECTED"
                      /\ conn'[r][Winner'] = "CLOSED" <=> vc'[r] = "INACTIVE" /\ phase'[r] # "running"
                      /\ conn'[r][Winner'] = "CLOSING" <=> vc'[r] = "CLOSED"
                      /\ phase'[r] = "running" /\ vc'[r] = "INACTIVE" => sent'[r] = 0 /\ received'[r] = 0
                      /\ vc'[r] = "INACTIVE_CLOSED" => Silent'
                      /\ conn'[r][r] # "none" => ~ Silent'
    BY DEF VcInv
  <2>1. ~ Silent' /\ phase'[r] = "running" /\ vc'[r] # "CLOSED" /\ vc'[r] # "INACTIVE_CLOSED"
    <3>1. plan'[p] # 0
      BY <1>4, <1>6
    <3> QED  BY <1>0, <1>4, <1>6, <3>1 DEF Silent, Proc
  <2>2. conn'[r][Winner'] # "CLOSED" /\ conn'[r][Winner'] # "CLOSING"
    <3>1. CASE r = p /\ Winner' = p
      BY <1>7, <3>1
    <3>2. CASE r # p \/ Winner' # p
      <4>1. Winner' \in Proc /\ conn'[r][Winner'] = conn[r][Winner']
        BY <1>7, <1>8, <3>2, Sides DEF Proc
      <4>2. CASE Winner' = Winner
        BY <1>11, <4>1, <4>2
      <4>3. CASE Winner' = 1 /\ Winner = 0
        BY <4>1, <4>3, Sides DEF Proc
      <4> QED  BY <1>8, <4>2, <4>3
    <3> QED  BY <3>1, <3>2
  <2>3. CASE r = p
    <3>1. ch'[p].state = "CONNECTING"
      BY <1>5 DEF TypeOK
    <3> QED  BY <1>4, <2>1, <2>2, <2>3, <3>1
  <2>4. CASE r = q
    <3>1. ch'[q] = ch[q] /\ sent'[q] = sent[q] /\ received'[q] = received[q] /\ vc'[q] = vc[q]
      BY <1>0, <1>4, <1>5, <1>6 DEF TypeOK, LinkType
    <3>2. vc[q] \in {"INACTIVE", "INACTIVE_CLOSED"} <=> ch[q].state = "UNCONNECTED"
      BY <1>0 DEF VcInv
    <3>3. vc[q] = "INACTIVE" => sent[q] = 0 /\ received[q] = 0
      BY <1>0, <1>4 DEF VcInv
    <3> QED  BY <2>1, <2>2, <2>4, <3>1, <3>2, <3>3
  <2> QED  BY <1>0, <2>3, <2>4
<1>14. ReadyInv'
  <2> SUFFICES ASSUME NEW r \in Proc, NEW e \in Proc PROVE ReadyAt(r, e)'
    BY DEF ReadyInv
  <2>1. ReadyAt(r, e)
    BY DEF ReadyInv
  <2>2. sendq[r] # <<>> => sendq'[r] # <<>>
    BY <1>0, <1>3
  <2>3. r # p \/ e # p => conn'[r][e] = conn[r][e]
    BY <1>7
  <2>4. conn[e][e] # "none" => conn'[e][e] # "none"
    BY <1>0, <1>7
  <2> QED  BY <1>5, <1>6, <1>7, <2>1, <2>2, <2>3, <2>4 DEF ReadyAt, Reads
<1>15. \A r \in Proc, e \in Proc : Opening(r, e)' = Opening(r, e)
  <2> SUFFICES ASSUME NEW r \in Proc, NEW e \in Proc PROVE Opening(r, e)' = Opening(r, e)
    OBVIOUS
  <2>1. CASE e = p
    <3>1. conn[e][e] # "OPEN_CRECV" /\ conn'[e][e] # "OPEN_CRECV"
      BY <1>5, <1>7, <2>1
    <3> QED  BY <3>1 DEF Opening
  <2>2. CASE e # p
    <3>1. \A s \in Proc : conn'[s][e] = conn[s][e]
      BY <1>7, <2>2
    <3>2. Other(r) \in Proc /\ Other(r)' = Other(r)
      BY DEF Proc, Other
    <3> QED  BY <3>1, <3>2 DEF Opening, OpenReq, PgId, OpenResp
  <2> QED  BY <2>1, <2>2
<1>16. CASE Winner' = Winner /\ Loser' = Loser
  <2>1. \A r \in Proc : conn[r][Winner] \in Opened => conn'[r][Winner] \in Opened
    BY <1>5, <1>7, <1>16, Sides DEF Proc, Opened
  <2>2. StreamTo(p)' /\ StreamTo(q)'
    <3> HIDE DEF LinkInv, IInv
    <3> QED  BY <1>0, <1>15, <1>16, <2>1, IsendSends
  <2> QED  BY <1>0, <1>1, <1>2, <1>9, <1>10, <1>12, <1>13, <1>14, <2>2 DEF StreamInv
<1>17. CASE p = 1 /\ q = 0 /\ Winner = 0 /\ Loser = 1 /\ Winner' = 1 /\ Loser' = 0
  <2>1. conn[0][0] \notin Opened /\ conn[1][0] \notin Opened
    BY <1>5, <1>17 DEF WinnerInv, Opened
  <2>2. ASSUME NEW r \in Proc PROVE wire[r][0] = Opening(r, 0) /\ wire[r][1] = <<>>
    <3>1. Opening(r, 1) = <<>>
      BY <1>5, <1>17 DEF Opening
    <3>2. wire[r][0] = Opening(r, 0)
      <4>1. 0 \in Proc /\ Other(r) \in Proc /\ conn[Other(r)][0] \notin Opened
        BY <2>1 DEF Proc, Other
      <4> QED  BY <4>1, OnlyOpening
    <3>3. wire[r][1] = Opening(r, 1)
      BY <1>17 DEF StreamInv, StreamTo
    <3> QED  BY <3>1, <3>2, <3>3
  <2>3. ASSUME NEW r \in Proc PROVE sendq[Other(r)] = Run(received[r], sent[Other(r)])
    <3>1. PICK t \in Closes(Other(r)) : Carries(r, Run(received[r], sent[Other(r)]) \o t)
      BY DEF StreamInv, StreamTo
    <3> DEFINE run == Run(received[r], sent[Other(r)])
               s == sendq[Other(r)]
    <3>2. t = <<>>
      <4>1. Other(r) \in Proc
        BY DEF Proc, Other
      <4> QED  BY <1>0, <3>1, <4>1, IsendMoves
    <3>3. PICK d \in Seq(Pkt) : d \o s = run \o <<>> /\ (d # <<>> => conn[Other(r)][0] \in Opened)
      BY <1>17, <3>1, <3>2 DEF Carries
    <3>4. d = <<>>
      BY <2>1, <3>3 DEF Proc, Other
    <3>5. s \in Seq(Pkt) /\ run \in Seq(Pkt)
      <4>1. Other(r) \in Proc /\ r = Other(Other(r))
        BY DEF Proc, Other
      <4>2. received[r] \in Nat /\ sent[Other(r)] \in Nat /\ received[r] <= sent[Other(r)]
        BY <4>1 DEF PhaseInv, LinkType
      <4> QED  BY <4>1, <4>2, RunIsSeq DEF LinkType
    <3> HIDE DEF s, run
    <3> QED  BY <3>3, <3>4, <3>5, ConcatEmptySeq DEF s, run
  <2>4. ASSUME NEW r \in Proc PROVE sendq'[Other(r)] = Run(received'[r], sent'[Other(r)])
    <3>1. CASE r = p
      <4>1. sendq'[q] = sendq[q] /\ sent'[q] = sent[q]
        BY <1>0, <1>6 DEF LinkType
      <4>2. sendq[q] = Run(received[p], sent[q])
        BY <1>0, <2>3
      <4> QED  BY <1>0, <1>6, <3>1, <4>1, <4>2
    <3>2. CASE r = q
      <4>1. sendq'[p] = Append(sendq[p], Message(sent[p] + 1)) /\ sent'[p] = sent[p] + 1
        BY <1>6 DEF LinkType
      <4>2. sendq[p] = Run(received[q], sent[p])
        BY <1>0, <2>3
      <4>3. Append(Run(received[q], sent[p]), Message(sent[p] + 1)) = Run(received[q], sent[p] + 1)
        BY <1>4, RunGrows
      <4> QED  BY <1>0, <1>6, <3>2, <4>1, <4>2, <4>3
    <3> QED  BY <1>0, <3>1, <3>2
  <2>5. ASSUME NEW r \in Proc PROVE StreamTo(r)'
    <3> DEFINE run == Run(received[r], sent[Other(r)])
    <3>1. wire'[r][0] = Opening(r, 0)' /\ wire'[r][1] = <<>> /\ Opening(r, 1)' = <<>>
      <4>1. Opening(r, 1)' = <<>>
        <5>1. conn'[1][1] = "CONNECTING"
          BY <1>7, <1>17
        <5> QED  BY <5>1 DEF Opening
      <4>2. Opening(r, 0)' = Opening(r, 0)
        BY <1>15 DEF Proc
      <4> QED  BY <1>6, <2>2, <4>1, <4>2
    <3>2. run' = Run(received'[r], sent'[Other(r)])
      BY DEF Run, Message, Other
    <3>3. run' \in Seq(Pkt)
      <4>1. Other(r) \in Proc
        BY DEF Proc, Other
      <4>2. sendq'[Other(r)] \in Seq(Pkt)
        BY <1>2, <4>1 DEF LinkType
      <4> QED  BY <2>4, <3>2, <4>2
    <3>4. <<>> \in Closes(Other(r))'
      <4>1. Other(r) \in Proc /\ Other(r)' = Other(r)
        BY DEF Proc, Other
      <4> QED  BY <1>0, <4>1, IsendMoves
    <3>5. Carries(r, run \o <<>>)'
      <4>1. run' \o <<>> = run' /\ <<>> \o run' = run' /\ <<>> \in Seq(Pkt) /\ <<>> \o <<>> = <<>>
        BY <3>3, ConcatEmptySeq, EmptySeq
      <4>2. sendq'[Other(r)] = run' /\ Other(r)' = Other(r)
        BY <2>4, <3>2 DEF Other
      <4> HIDE DEF run
      <4> QED  BY <1>17, <3>1, <4>1, <4>2 DEF Carries
    <3>6. wire'[r][Loser'] = Opening(r, Loser)'
      <4> SUFFICES ASSUME NEW e, e = Loser' PROVE wire'[r][e] = Opening(r, e)'
        OBVIOUS
      <4> QED  BY <1>17, <3>1
    <3> QED  BY <3>4, <3>5, <3>6 DEF StreamTo
  <2> QED  BY <1>1, <1>2, <1>9, <1>10, <1>12, <1>13, <1>14, <2>5 DEF StreamInv
<1> QED  BY <1>8, <1>16, <1>17

\* Every step keeps the invariant.
LEMMA LinkStep == 1 \notin Others /\ LinkInv /\ [Next]_vars => LinkInv'
<1> SUFFICES ASSUME 1 \notin Others, LinkInv, [Next]_vars PROVE LinkInv'
  OBVIOUS
<1>1. ASSUME NEW p \in Proc, Program(p) PROVE LinkInv'
  <2>1. CASE Isend(p)
    BY <2>1, IsendOnLinks, IsendOpenLinks
  <2> QED  BY <1>1, <2>1, FinalizeLinks, ExitLinks DEF Program
<1>2. ASSUME NEW p \in Proc, NEW c \in Proc, Event(p, c) PROVE LinkInv'
  <2>1. CASE HandleOpenResp(p, c)
    BY <2>1, RefusedLinks, AcceptedLinks
  <2> QED  BY <1>2, <2>1, AcceptLinks, ConnectLinks, ReqWrittenLinks, OpenReqLinks, ConnOpenLinks, RespWrittenLinks,
              WrittenLinks, MessageLinks, CloseLinks, CloseAckLinks, CloseEventLinks
           DEF Event
<1>3. ASSUME NEW p \in Proc, ProgressEngine(p) PROVE LinkInv'
  BY <1>2, <1>3, PollLinks, ResetLinks DEF ProgressEngine
<1>4. CASE UNCHANGED vars
  <2>1. UNCHANGED <<plan, phase, vc, ch, sendq, conn, wire, ready, ops, sent, received>>
    BY <1>4 DEF vars, program, link
  <2>2. IInv'
    BY <1>4, StepKeeps DEF LinkInv
  <2>3. LinkType' /\ PhaseInv' /\ ReadyInv'
    BY <2>1 DEF LinkInv, LinkType, PhaseInv, ReadyInv, ReadyAt
  <2> QED  BY <2>1, <2>2, <2>3, QuietLinks
<1> QED  BY <1>1, <1>3, <1>4 DEF Next

\* The invariant implies OneConnection: both channels are connected through
\* the winning connection.
LEMMA OneInUse == LinkInv => OneConnection
<1> SUFFICES ASSUME LinkInv, NEW p \in Proc, ch[p].state = "CONNECTED"
             PROVE  ch[p].conn = Winner /\ conn[p][Winner] \in {"CONNECTED", "CLOSING"}
  BY DEF OneConnection, Proc, Other
<1>1. ch[p] = Candidate(p)
  BY DEF LinkInv, ChInv
<1> QED  BY <1>1 DEF Candidate

\* The invariant implies AssertionsHold: only the winner's request is
\* accepted, and its VC holds that connection; a close packet fits the state
\* of the VC.
LEMMA ReadsWhatItExpects == LinkInv => AssertionsHold
<1> SUFFICES ASSUME LinkInv, NEW p \in Proc, NEW c \in Proc
             PROVE  /\ Reading(p, c, "OPEN_CRECV") /\ Head(wire[p][c]).ack => ch[p].conn = c
                    /\ Reading(p, c, "CONNECTED") /\ Head(wire[p][c]).type = "CLOSE" =>
                          vc[p] \in IF Head(wire[p][c]).ack THEN {"LOCAL_CLOSE", "CLOSE_ACKED"}
                                                            ELSE {"LOCAL_CLOSE", "ACTIVE"}
  BY DEF AssertionsHold
<1>0. ASSUME NEW s, Reading(p, c, s) PROVE wire[p][c] # <<>> /\ conn[p][c] = s
  BY <1>0 DEF Reading, LinkInv, ReadyInv, ReadyAt
<1>1. ASSUME Reading(p, c, "OPEN_CRECV"), Head(wire[p][c]).ack PROVE ch[p].conn = c
  <2>1. wire[p][c] # <<>> /\ conn[p][c] = "OPEN_CRECV"
    BY <1>0, <1>1
  <2>2. c = p
    BY <2>1, Sides DEF LinkInv, WinnerInv, LoserInv, Opened, Proc
  <2>3. p = Winner
    BY <1>1, <2>1, <2>2, OpenRespRead
  <2>4. ch[p] = Candidate(p)
    BY DEF LinkInv, ChInv
  <2> QED  BY <2>1, <2>2, <2>3, <2>4 DEF Candidate
<1>2. ASSUME Reading(p, c, "CONNECTED"), Head(wire[p][c]).type = "CLOSE"
      PROVE  vc[p] \in IF Head(wire[p][c]).ack THEN {"LOCAL_CLOSE", "CLOSE_ACKED"}
                                               ELSE {"LOCAL_CLOSE", "ACTIVE"}
  <2> DEFINE q == Other(p)
  <2>0. q \in Proc /\ q = Other(p) /\ p = Other(q)
    BY DEF Proc, Other
  <2> HIDE DEF q
  <2>1. wire[p][c] # <<>> /\ conn[p][c] = "CONNECTED"
    BY <1>0, <1>2
  <2>2. c = Winner /\ (NextAsks(p, q) \/ NextAcknowledges(p, q))
    BY <1>2, <2>0, <2>1, NextClose
  <2>3. vc[p] \notin {"INACTIVE", "INACTIVE_CLOSED"}
    <3>1. ch[p] = Candidate(p)
      BY DEF LinkInv, ChInv
    <3>2. ch[p].state = "CONNECTED"
      BY <2>1, <2>2, <3>1 DEF Candidate
    <3> QED  BY <3>2 DEF LinkInv, VcInv
  <2>4. CASE NextAsks(p, q)
    BY <2>2, <2>3, <2>4, ClosePackets DEF NextAsks, Before
  <2>5. CASE NextAcknowledges(p, q)
    BY <2>2, <2>5, ClosePackets DEF NextAcknowledges
  <2> QED  BY <2>2, <2>4, <2>5
<1> QED  BY <1>1, <1>2

\* There is no message among the packets s.
Quiet(s) == \A i \in 1 .. Len(s) : s[i].type # "MESSAGE"

\* There is none in two sequences that have none.
LEMMA QuietTogether ==
    ASSUME NEW s \in Seq(Pkt), NEW t \in Seq(Pkt), Quiet(s), Quiet(t)
    PROVE  s \o t \in Seq(Pkt) /\ Quiet(s \o t)
<1> DEFINE u == s \o t
<1>0. Len(s) \in Nat /\ Len(t) \in Nat
  BY LenProperties
<1>1. u \in Seq(Pkt)
  BY ConcatProperties
<1>2. Len(u) = Len(s) + Len(t)
  BY ConcatProperties
<1>3. \A i \in 1 .. Len(s) + Len(t) : u[i] = IF i <= Len(s) THEN s[i] ELSE t[i - Len(s)]
  BY ConcatProperties
<1> HIDE DEF u
<1>4. ASSUME NEW i \in 1 .. Len(u) PROVE u[i].type # "MESSAGE"
  <2>1. CASE i <= Len(s)
    BY <1>0, <1>2, <1>3, <2>1 DEF Quiet
  <2>2. CASE ~ i <= Len(s)
    <3>1. i - Len(s) \in 1 .. Len(t)
      BY <1>0, <1>2, <2>2
    <3> QED  BY <1>0, <1>2, <1>3, <2>2, <3>1 DEF Quiet
  <2> QED  BY <2>1, <2>2
<1> QED  BY <1>1, <1>4 DEF u, Quiet

\* An opening has no messages.
LEMMA QuietOpening == ASSUME NEW p, NEW c PROVE Quiet(Opening(p, c))
<1>1. ASSUME NEW x, NEW y, x.type # "MESSAGE", y.type # "MESSAGE"
      PROVE  Quiet(<<>>) /\ Quiet(<<x>>) /\ Quiet(<<x, y>>)
  BY <1>1 DEF Quiet
<1>2. \A ack \in BOOLEAN : OpenReq.type # "MESSAGE" /\ PgId.type # "MESSAGE" /\ OpenResp(ack).type # "MESSAGE"
  BY DEF OpenReq, PgId, OpenResp
<1> DEFINE None0 == <<>>
           Both == <<OpenReq, PgId>>
           Id == <<PgId>>
           Yes == <<OpenResp(TRUE)>>
           No == <<OpenResp(FALSE)>>
<1>3. Quiet(None0) /\ Quiet(Both) /\ Quiet(Id) /\ Quiet(Yes) /\ Quiet(No)
  BY <1>1, <1>2
<1>4. Opening(p, c) \in {None0, Both, Id, Yes, No}
  BY DEF Opening
<1> HIDE DEF None0, Both, Id, Yes, No
<1> QED  BY <1>3, <1>4

\* The closes have none.
LEMMA QuietCloses == ASSUME NEW p, NEW t \in Closes(p) PROVE t \in Seq(Pkt) /\ Quiet(t)
<1>1. ASSUME NEW x, NEW y, x.type # "MESSAGE", y.type # "MESSAGE"
      PROVE  Quiet(<<>>) /\ Quiet(<<x>>) /\ Quiet(<<x, y>>)
  BY <1>1 DEF Quiet
<1> DEFINE None0 == <<>>
           F == <<Asked>>
           T == <<Acked>>
           FT == <<Asked, Acked>>
<1>2. Quiet(None0) /\ Quiet(F) /\ Quiet(T) /\ Quiet(FT)
  BY <1>1, ClosePackets
<1>3. None0 \in Seq(Pkt) /\ F \in Seq(Pkt) /\ T \in Seq(Pkt) /\ FT \in Seq(Pkt)
  BY Short
<1>4. t \in {None0, F, T, FT}
  BY DEF Closes
<1> HIDE DEF None0, F, T, FT
<1> QED  BY <1>2, <1>3, <1>4

\* A run of messages between packets that are not messages.
LEMMA MessagesOf ==
    ASSUME NEW o \in Seq(Pkt), NEW r \in Nat, NEW s \in Nat, r <= s, NEW t \in Seq(Pkt),
           Quiet(o), Quiet(t), NEW packets, packets = o \o (Run(r, s) \o t)
    PROVE  CarriesInOrder(packets, r + 1, s)
<1> DEFINE run == Run(r, s)
           rest == run \o t
           k == Len(o)
           m == s - r
           z == Len(t)
<1>0. k \in Nat /\ m \in Nat /\ z \in Nat /\ s = r + m
  BY LenProperties
<1>1. run \in Seq(Pkt) /\ Len(run) = m /\ \A i \in 1 .. m : run[i] = Message(r + i)
  BY RunIsSeq DEF Run
<1> HIDE DEF run, m, z
<1>2. rest \in Seq(Pkt)
  BY <1>1, ConcatProperties
<1>3. Len(rest) = m + z
  BY <1>1, ConcatProperties DEF z
<1>4. \A i \in 1 .. m + z : rest[i] = IF i <= m THEN run[i] ELSE t[i - m]
  BY <1>1, ConcatProperties DEF z
<1>5. packets = o \o rest
  BY DEF run
<1> HIDE DEF rest
<1>6. packets \in Seq(Pkt) /\ Len(packets) = k + (m + z)
  BY <1>2, <1>3, <1>5, ConcatProperties
<1>7. \A i \in 1 .. k + (m + z) : packets[i] = IF i <= k THEN o[i] ELSE rest[i - k]
  BY <1>2, <1>3, <1>5, ConcatProperties
<1>8. \A i \in 1 .. k : o[i].type # "MESSAGE"
  BY DEF Quiet
<1>9. \A i \in 1 .. z : t[i].type # "MESSAGE"
  BY DEF Quiet, z
<1> HIDE DEF k
<1>10. DOMAIN packets = 1 .. k + (m + z)
  BY <1>6
<1>11. ASSUME NEW i \in 1 .. k + (m + z), i <= k PROVE packets[i].type # "MESSAGE"
  <2>1. i \in 1 .. k
    BY <1>0, <1>11
  <2>2. packets[i] = o[i]
    BY <1>7, <1>11
  <2> QED  BY <1>8, <2>1, <2>2
<1>12. ASSUME NEW i \in 1 .. m PROVE k + i \in 1 .. k + (m + z) /\ packets[k + i] = Message(r + i)
  <2>1. k + i \in 1 .. k + (m + z) /\ ~ k + i <= k /\ (k + i) - k = i /\ i \in 1 .. m + z /\ i <= m
    BY <1>0
  <2>2. packets[k + i] = rest[i]
    BY <1>7, <2>1
  <2>3. rest[i] = run[i]
    BY <1>4, <2>1
  <2> QED  BY <1>1, <2>1, <2>2, <2>3
<1>13. ASSUME NEW i \in 1 .. k + (m + z), k + m < i PROVE packets[i].type # "MESSAGE"
  <2>1. PICK j \in 1 .. z : i = k + (m + j)
    <3>1. i - (k + m) \in 1 .. z /\ i = k + (m + (i - (k + m)))
      BY <1>0, <1>13
    <3> QED  BY <3>1
  <2>2. i \in Int /\ ~ i <= k /\ i - k = m + j /\ m + j \in 1 .. m + z /\ ~ m + j <= m /\ (m + j) - m = j
    BY <1>0, <2>1
  <2>3. packets[i] = rest[m + j]
    BY <1>7, <2>2
  <2>4. rest[m + j] = t[j]
    BY <1>4, <2>2
  <2> QED  BY <1>9, <2>3, <2>4
<1> DEFINE messages == MessagesAt(packets)
<1>14. ASSUME NEW i \in messages PROVE \E j \in 1 .. m : i = k + j
  <2>1. i \in 1 .. k + (m + z) /\ packets[i].type = "MESSAGE"
    BY <1>10 DEF MessagesAt
  <2>2. ~ i <= k /\ ~ k + m < i
    BY <1>11, <1>13, <2>1
  <2>3. i - k \in 1 .. m /\ i = k + (i - k)
    BY <1>0, <2>1, <2>2
  <2> QED  BY <2>3
<1>15. ASSUME NEW j \in 1 .. m PROVE k + j \in messages /\ packets[k + j].n = r + j
  <2>1. k + j \in DOMAIN packets /\ packets[k + j] = Message(r + j)
    BY <1>10, <1>12
  <2> QED  BY <2>1 DEF MessagesAt, Message
<1> HIDE DEF messages
<1>16. {packets[i].n : i \in messages} = r + 1 .. s
  <2>1. ASSUME NEW i \in messages PROVE packets[i].n \in r + 1 .. s
    <3>1. PICK j \in 1 .. m : i = k + j
      BY <1>14
    <3>2. r + j \in r + 1 .. s
      BY <1>0
    <3> QED  BY <1>15, <3>1, <3>2
  <2>2. ASSUME NEW x \in r + 1 .. s PROVE \E i \in messages : packets[i].n = x
    <3>1. PICK j \in 1 .. m : x = r + j
      <4>1. x - r \in 1 .. m /\ x = r + (x - r)
        BY <1>0
      <4> QED  BY <4>1
    <3> QED  BY <1>15, <3>1
  <2> QED  BY <2>1, <2>2
<1>17. ASSUME NEW i \in messages, NEW j \in messages, i < j PROVE packets[i].n < packets[j].n
  <2>1. PICK a \in 1 .. m : i = k + a
    BY <1>14
  <2>2. PICK b \in 1 .. m : j = k + b
    BY <1>14
  <2>3. r + a < r + b
    BY <1>0, <1>17, <2>1, <2>2
  <2> QED  BY <1>15, <2>1, <2>2, <2>3
<1> QED  BY <1>16, <1>17 DEF messages, CarriesInOrder

\* The invariant implies NothingLost: the streams carry the run of the
\* messages that are under way.
LEMMA KeepsMessages == LinkInv => NothingLost
<1> SUFFICES ASSUME LinkInv, NEW p \in Proc
             PROVE  CarriesInOrder(wire[p][0] \o wire[p][1] \o sendq[Other(p)], received[p] + 1, sent[Other(p)])
  BY DEF NothingLost
<1> DEFINE q == Other(p)
           s == sendq[q]
           run == Run(received[p], sent[q])
<1>1. q \in Proc /\ p = Other(q)
  BY DEF Proc, Other
<1>2. received[p] \in Nat /\ sent[q] \in Nat /\ received[p] <= sent[q] /\ s \in Seq(Pkt)
  <2> HIDE DEF q
  <2>1. received[p] <= sent[q]
    BY <1>1 DEF LinkInv, PhaseInv
  <2> QED  BY <1>1, <2>1 DEF LinkInv, LinkType
<1>3. PICK t \in Closes(q) : Carries(p, run \o t)
  BY DEF LinkInv, StreamInv, StreamTo
<1>4. t \in Seq(Pkt) /\ Quiet(t)
  BY <1>3, QuietCloses
<1> HIDE DEF run
<1>5. PICK d \in Seq(Pkt) : wire[p][Winner] = Opening(p, Winner) \o d /\ d \o s = run \o t
  BY <1>3 DEF Carries
<1> HIDE DEF s, q
<1>6. wire[p][Loser] = Opening(p, Loser)
  BY DEF LinkInv, StreamInv, StreamTo
<1>7. \A c : Opening(p, c) \in Seq(Pkt) /\ Quiet(Opening(p, c))
  BY OpeningTyped, QuietOpening
<1>8. \E o \in Seq(Pkt) : Quiet(o) /\ wire[p][0] \o wire[p][1] \o s = o \o (run \o t)
  <2> DEFINE o0 == Opening(p, 0)
             o1 == Opening(p, 1)
  <2>1. o0 \in Seq(Pkt) /\ o1 \in Seq(Pkt) /\ Quiet(o0) /\ Quiet(o1)
    BY <1>7
  <2>2. CASE Winner = 0
    <3>1. o1 = <<>>
      BY <2>2, Sides DEF Opening
    <3>2. wire[p][0] = o0 \o d /\ wire[p][1] = <<>>
      BY <1>5, <1>6, <2>2, <3>1 DEF Loser
    <3> HIDE DEF o0, o1
    <3>3. o0 \o d \in Seq(Pkt) /\ (o0 \o d) \o <<>> = o0 \o d
      BY <2>1, ConcatProperties, ConcatEmptySeq
    <3>4. (o0 \o d) \o s = o0 \o (d \o s)
      BY <1>2, <2>1, ConcatAssociative
    <3>5. wire[p][0] \o wire[p][1] \o s = o0 \o (run \o t)
      BY <1>5, <3>2, <3>3, <3>4
    <3> QED  BY <2>1, <3>5
  <2>3. CASE Winner = 1
    <3>1. wire[p][1] = o1 \o d /\ wire[p][0] = o0
      BY <1>5, <1>6, <2>3 DEF Loser
    <3> HIDE DEF o0, o1
    <3> DEFINE o == o0 \o o1
    <3>2. o \in Seq(Pkt) /\ Quiet(o)
      BY <2>1, QuietTogether
    <3>3. o0 \o (o1 \o d) = o \o d
      BY <2>1, ConcatAssociative
    <3> HIDE DEF o
    <3>4. (o \o d) \o s = o \o (d \o s)
      BY <1>2, <3>2, ConcatAssociative
    <3>5. wire[p][0] \o wire[p][1] \o s = o \o (run \o t)
      BY <1>5, <3>1, <3>3, <3>4
    <3> QED  BY <3>2, <3>5
  <2> QED  BY <2>2, <2>3, Sides
<1>9. PICK o \in Seq(Pkt) : Quiet(o) /\ wire[p][0] \o wire[p][1] \o s = o \o (run \o t)
  BY <1>8
<1> DEFINE packets == wire[p][0] \o wire[p][1] \o s
<1>10. packets = o \o (Run(received[p], sent[q]) \o t)
  BY <1>9 DEF run
<1> HIDE DEF packets
<1>11. CarriesInOrder(packets, received[p] + 1, sent[q])
  BY <1>2, <1>4, <1>9, <1>10, MessagesOf
<1> QED  BY <1>11 DEF packets, s, q

\* Two processes that connect to each other at once come to use the same
\* connection, with any number of messages to send and in any order of
\* events, provided that process 1 polls for no other connection after the VC
\* is closed.
THEOREM UseOneConnection == ASSUME 1 \notin Others PROVE Spec => []OneConnection
BY InvInitially, LinkStep, OneInUse, PTL DEF Spec

\* What the handlers assert holds: the response that accepts a connection
\* finds the VC with that connection (ch3u_connect_sock.c:794), and a close
\* packet finds the VC in a state where one is due, provided that process 1
\* polls for no other connection after the VC is closed.
THEOREM HandlersFindWhatTheyAssert == ASSUME 1 \notin Others PROVE Spec => []AssertionsHold
BY InvInitially, LinkStep, ReadsWhatItExpects, PTL DEF Spec

\* No message is lost, repeated or overtaken on the way, in the queue or
\* between the two connections, for any number of messages, provided that
\* process 1 polls for no other connection after the VC is closed.
THEOREM DeliversInOrder == ASSUME 1 \notin Others PROVE Spec => []NothingLost
BY InvInitially, LinkStep, KeepsMessages, PTL DEF Spec
=============================================================================
