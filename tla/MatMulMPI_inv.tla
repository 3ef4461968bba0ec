--------------------------- MODULE MatMulMPI_inv ---------------------------
(***************************************************************************)
(* The inductive invariant of MatMulMPI.  Its heart is ChannelInv: what is *)
(* in flight between rank 0 and a worker is the part of the list of        *)
(* messages of that worker that the one has sent and the other has not yet *)
(* taken, and how far each of them is can be read off its program counter. *)
(***************************************************************************)
EXTENDS MatMulMPI

\* The block of worker w.
First(w) == OffsetOf(matrixSize, numworkers, w)
Count(w) == RowsFor(matrixSize, numworkers, w)
Block(w) == [i \in 1 .. Count(w) |-> First(w) + i - 1]

\* The four messages worker w is sent, and the three it sends back.
ToWorker(w) ==
    << IntMsg(FROM_MASTER, First(w)),
       IntMsg(FROM_MASTER, Count(w)),
       RowsMsg(FROM_MASTER, matrixSize, Block(w)),
       RowsMsg(FROM_MASTER, matrixSize, [i \in 1 .. matrixSize |-> i - 1]) >>

ToMaster(w) ==
    << IntMsg(FROM_WORKER, First(w)),
       IntMsg(FROM_WORKER, Count(w)),
       RowsMsg(FROM_WORKER, matrixSize, Block(w)) >>

Sending == {"sendOffset", "sendRows", "sendA", "sendB"}
Receiving == {"recvOffset", "recvRows", "recvC"}
Collected == {"finalize", "done"}

\* How many of ToWorker(w) rank 0 has sent, and w has taken.
SentTo(w) ==
    IF pc[0] = "start" THEN 0
    ELSE IF pc[0] \notin Sending THEN 4
    ELSE IF w < peer THEN 4
    ELSE IF w > peer THEN 0
    ELSE IF pc[0] = "sendOffset" THEN 0
    ELSE IF pc[0] = "sendRows" THEN 1
    ELSE IF pc[0] = "sendA" THEN 2 ELSE 3

TakenBy(w) ==
    IF pc[w] \in {"start", "recvOffset"} THEN 0
    ELSE IF pc[w] = "recvRows" THEN 1
    ELSE IF pc[w] = "recvA" THEN 2
    ELSE IF pc[w] = "recvB" THEN 3 ELSE 4

\* How many of ToMaster(w) w has sent, and rank 0 has taken.
SentBy(w) ==
    IF pc[w] = "sendRows" THEN 1
    ELSE IF pc[w] = "sendC" THEN 2
    ELSE IF pc[w] \in Collected THEN 3 ELSE 0

TakenFrom(w) ==
    IF pc[0] \in Collected THEN 3
    ELSE IF pc[0] \notin Receiving THEN 0
    ELSE IF w < peer THEN 3
    ELSE IF w > peer THEN 0
    ELSE IF pc[0] = "recvOffset" THEN 0
    ELSE IF pc[0] = "recvRows" THEN 1 ELSE 2

\* q holds messages number a + 1 to b of the list e.
InFlight(q, e, a, b) ==
    /\ q \in Seq(Message)
    /\ Len(q) = b - a
    /\ \A i \in 1 .. (b - a) : q[i] = e[a + i]

\* The number of workers whose block has reached C.
Delivered ==
    IF pc[0] \in Collected THEN numworkers
    ELSE IF pc[0] \in Receiving THEN peer - 1 ELSE 0
-----------------------------------------------------------------------------
\* Types, and which statements belong to which kind of rank.
TypeInv ==
    /\ numtasks \in 1 .. MaxTasks
    /\ eager_max_msg_sz \in EagerLimits
    /\ matrixSize \in MatrixSizes
    /\ aborted \in BOOLEAN
    /\ chan \in [Rank -> [Rank -> Seq(Message)]]
    /\ pc \in [Rank -> Statement]
    /\ pc[0] \in {"start"} \cup Sending \cup Receiving \cup Collected
    /\ \A w \in Rank \ {0} : pc[w] \notin {"sendA", "sendB", "recvC"}
    /\ \A w \in Rank : w >= numtasks => pc[w] = "start"
    /\ offset \in [Rank -> Int]
    /\ rows \in [Rank -> Int]
    /\ peer \in Int
    /\ matrixA \in [Rank -> Matrix]
    /\ matrixB \in [Rank -> Matrix]
    /\ matrixC \in [Rank -> Matrix]

LaunchInv ==
    /\ aborted => numtasks < 2
    /\ numtasks < 2 => pc[0] = "start"

MasterInv ==
    /\ pc[0] \in Sending =>
         /\ peer \in Worker
         /\ offset[0] = First(peer)
         /\ matrixA[0] = Identity
         /\ matrixB[0] = Identity
    /\ pc[0] \in Sending \ {"sendOffset"} => rows[0] = Count(peer)
    /\ pc[0] \in Receiving => peer \in Worker
    /\ pc[0] \in {"recvRows", "recvC"} => offset[0] = First(peer)
    /\ pc[0] = "recvC" => rows[0] = Count(peer)

WorkerOK(w) ==
    /\ TakenBy(w) >= 1 => offset[w] = First(w)
    /\ TakenBy(w) >= 2 => rows[w] = Count(w)
    /\ TakenBy(w) >= 3 =>
         \A i \in 0 .. Count(w) - 1 : matrixA[w][i] = First(w) + i
    /\ TakenBy(w) >= 4 => matrixB[w] = Identity
    /\ pc[w] \in {"sendOffset", "sendRows", "sendC"} =>
         \A i \in 0 .. Count(w) - 1 : matrixC[w][i] = First(w) + i

WorkerInv == \A w \in Worker : WorkerOK(w)

ChannelInv ==
    /\ \A w \in Worker :
        /\ TakenBy(w) <= SentTo(w)
        /\ InFlight(chan[0][w], ToWorker(w), TakenBy(w), SentTo(w))
        /\ TakenFrom(w) <= SentBy(w)
        /\ InFlight(chan[w][0], ToMaster(w), TakenFrom(w), SentBy(w))
    /\ \A s, d \in Rank :
        ~ (s = 0 /\ d \in Worker) /\ ~ (s \in Worker /\ d = 0) =>
            chan[s][d] = <<>>

\* C holds the rows of the delivered blocks, each at its place, and no other.
ResultInv ==
    /\ numtasks < 2 => matrixC[0] = Uninitialised
    /\ numtasks >= 2 =>
         \A i \in Row :
             matrixC[0][i] = IF i < First(Delivered + 1) THEN i ELSE Garbage

IInv ==
    /\ TypeInv
    /\ LaunchInv
    /\ MasterInv
    /\ WorkerInv
    /\ ChannelInv
    /\ ResultInv
=============================================================================
