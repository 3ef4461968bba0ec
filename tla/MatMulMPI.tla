----------------------------- MODULE MatMulMPI -----------------------------
(***************************************************************************)
(* Module3/M3.T1P/mm_mpi.cpp: rank 0 cuts matrix A into one block of rows  *)
(* per worker, sends every worker its offset, its number of rows, its      *)
(* block and matrix B, then collects the blocks of C in rank order; a      *)
(* worker receives, multiplies, and sends offset, rows and its block back. *)
(*                                                                         *)
(* The contents of a matrix are abstracted to where a row comes from: row  *)
(* i of A and of B is the number i, and row i of C is the number r when it *)
(* was computed from row r of A and the whole of B, Garbage when anything  *)
(* it was computed from was uninitialised.  C is right when row i is i.    *)
(***************************************************************************)
EXTENDS MpiPt2Pt, RowPartition

CONSTANT MatrixSizes    \* the values argv[1] may have

ASSUME MatrixSizesAssumption == MatrixSizes \subseteq Nat \ {0}

VARIABLES
    matrixSize,    \* fixed by the command line, the same at every rank
    pc,            \* the MPI call (or computation) a rank does next
    offset, rows,  \* the variables of these names of every rank
    peer,          \* rank 0: `dest` of the send loop, `source` of the other
    matrixA, matrixB, matrixC

mem == <<offset, rows, peer, matrixA, matrixB, matrixC>>
vars == <<mpiVars, matrixSize, pc, mem>>

FROM_MASTER == 1
FROM_WORKER == 2

Row == 0 .. matrixSize - 1
Worker == 1 .. numtasks - 1
numworkers == numtasks - 1

Identity == [i \in Row |-> i]
Uninitialised == [i \in Row |-> Garbage]

Init ==
    /\ MPI_Init
    /\ matrixSize \in MatrixSizes
    /\ pc = [p \in Rank |-> "start"]
    /\ offset = [p \in Rank |-> Garbage]
    /\ rows = [p \in Rank |-> Garbage]
    /\ peer = Garbage
    /\ matrixA = [p \in Rank |-> Uninitialised]
    /\ matrixB = [p \in Rank |-> Uninitialised]
    /\ matrixC = [p \in Rank |-> Uninitialised]

\* Rank p executes its next statement: the one labelled `from`, then `to`.
Step(p, from, to) ==
    /\ p \in Task
    /\ ~ aborted
    /\ pc[p] = from
    /\ SendReturned(p)
    /\ pc' = [pc EXCEPT ![p] = to]
    /\ UNCHANGED <<numtasks, eager_max_msg_sz, matrixSize>>

Send(p, d, m) ==
    /\ MPI_Send(p, d, m)
    /\ UNCHANGED aborted

\* MPI_Recv into a buffer of `capacity` bytes.
Recv(p, s, tag, capacity) ==
    /\ CanRecv(s, p, tag)
    /\ TakeIncoming(s, p, tag)
    /\ aborted' = Truncates(Incoming(s, p, tag), capacity)

INT == 4
ROWS(n) == 8 * matrixSize * n
-----------------------------------------------------------------------------
\* MPI_Init, and MPI_Abort when there is no worker.
Quit(p) ==
    /\ Step(p, "start", "start")
    /\ numtasks < 2
    /\ MPI_Abort
    /\ UNCHANGED <<chan, mem>>

\* Rank 0 fills A and B and enters the send loop with dest = 1.
StartMaster ==
    /\ Step(0, "start", "sendOffset")
    /\ numtasks >= 2
    /\ matrixA' = [matrixA EXCEPT ![0] = Identity]
    /\ matrixB' = [matrixB EXCEPT ![0] = Identity]
    /\ offset' = [offset EXCEPT ![0] = 0]
    /\ peer' = 1
    /\ UNCHANGED <<chan, aborted, rows, matrixC>>

MasterSendOffset ==
    /\ Step(0, "sendOffset", "sendRows")
    /\ rows' = [rows EXCEPT ![0] = RowsFor(matrixSize, numworkers, peer)]
    /\ Send(0, peer, IntMsg(FROM_MASTER, offset[0]))
    /\ UNCHANGED <<offset, peer, matrixA, matrixB, matrixC>>

\* Mistake: the offset is sent twice.
BugMasterSendRows ==
    /\ Step(0, "sendRows", "sendA")
    /\ Send(0, peer, IntMsg(FROM_MASTER, offset[0]))
    /\ UNCHANGED mem

MasterSendRows ==
    /\ Step(0, "sendRows", "sendA")
    /\ Send(0, peer, IntMsg(FROM_MASTER, rows[0]))
    /\ UNCHANGED mem

MasterSendA ==
    /\ Step(0, "sendA", "sendB")
    /\ Send(0, peer, RowsMsg(FROM_MASTER, matrixSize,
                             RowsOf(matrixA[0], offset[0], rows[0])))
    /\ UNCHANGED mem

\* Mistake: the send loop is left before the last worker (`dest < numworkers`).
BugMasterSendB ==
    /\ Step(0, "sendB",
            IF peer < numworkers - 1 THEN "sendOffset" ELSE "recvOffset")
    /\ Send(0, peer, RowsMsg(FROM_MASTER, matrixSize,
                             RowsOf(matrixB[0], 0, matrixSize)))
    /\ offset' = [offset EXCEPT ![0] = @ + rows[0]]
    /\ peer' = IF peer < numworkers - 1 THEN peer + 1 ELSE 1
    /\ UNCHANGED <<rows, matrixA, matrixB, matrixC>>

\* The last send of an iteration, and the loop's increment and test.
MasterSendB ==
    /\ Step(0, "sendB", IF peer < numworkers THEN "sendOffset" ELSE "recvOffset")
    /\ Send(0, peer, RowsMsg(FROM_MASTER, matrixSize,
                             RowsOf(matrixB[0], 0, matrixSize)))
    /\ offset' = [offset EXCEPT ![0] = @ + rows[0]]
    /\ peer' = IF peer < numworkers THEN peer + 1 ELSE 1
    /\ UNCHANGED <<rows, matrixA, matrixB, matrixC>>

MasterRecvOffset ==
    /\ Step(0, "recvOffset", "recvRows")
    /\ Recv(0, peer, FROM_WORKER, INT)
    /\ offset' = [offset EXCEPT ![0] = Incoming(peer, 0, FROM_WORKER).int]
    /\ UNCHANGED <<rows, peer, matrixA, matrixB, matrixC>>

MasterRecvRows ==
    /\ Step(0, "recvRows", "recvC")
    /\ Recv(0, peer, FROM_WORKER, INT)
    /\ rows' = [rows EXCEPT ![0] = Incoming(peer, 0, FROM_WORKER).int]
    /\ UNCHANGED <<offset, peer, matrixA, matrixB, matrixC>>

\* Mistake: the receive loop is left before the last worker.
BugMasterRecvC ==
    /\ Step(0, "recvC", IF peer < numworkers - 1 THEN "recvOffset" ELSE "finalize")
    /\ Recv(0, peer, FROM_WORKER, ROWS(rows[0]))
    /\ matrixC' = [matrixC EXCEPT
                     ![0] = Stored(@, offset[0], Incoming(peer, 0, FROM_WORKER))]
    /\ peer' = peer + 1
    /\ UNCHANGED <<offset, rows, matrixA, matrixB>>

MasterRecvC ==
    /\ Step(0, "recvC", IF peer < numworkers THEN "recvOffset" ELSE "finalize")
    /\ Recv(0, peer, FROM_WORKER, ROWS(rows[0]))
    /\ matrixC' = [matrixC EXCEPT
                     ![0] = Stored(@, offset[0], Incoming(peer, 0, FROM_WORKER))]
    /\ peer' = peer + 1
    /\ UNCHANGED <<offset, rows, matrixA, matrixB>>
-----------------------------------------------------------------------------
StartWorker(w) ==
    /\ Step(w, "start", "recvOffset")
    /\ numtasks >= 2
    /\ UNCHANGED <<chan, aborted, mem>>

WorkerRecvOffset(w) ==
    /\ Step(w, "recvOffset", "recvRows")
    /\ Recv(w, 0, FROM_MASTER, INT)
    /\ offset' = [offset EXCEPT ![w] = Incoming(0, w, FROM_MASTER).int]
    /\ UNCHANGED <<rows, peer, matrixA, matrixB, matrixC>>

WorkerRecvRows(w) ==
    /\ Step(w, "recvRows", "recvA")
    /\ Recv(w, 0, FROM_MASTER, INT)
    /\ rows' = [rows EXCEPT ![w] = Incoming(0, w, FROM_MASTER).int]
    /\ UNCHANGED <<offset, peer, matrixA, matrixB, matrixC>>

\* The block lands at row 0 of the worker's A, whatever its offset.
WorkerRecvA(w) ==
    /\ Step(w, "recvA", "recvB")
    /\ Recv(w, 0, FROM_MASTER, ROWS(rows[w]))
    /\ matrixA' = [matrixA EXCEPT
                     ![w] = Stored(@, 0, Incoming(0, w, FROM_MASTER))]
    /\ UNCHANGED <<offset, rows, peer, matrixB, matrixC>>

WorkerRecvB(w) ==
    /\ Step(w, "recvB", "compute")
    /\ Recv(w, 0, FROM_MASTER, ROWS(matrixSize))
    /\ matrixB' = [matrixB EXCEPT
                     ![w] = Stored(@, 0, Incoming(0, w, FROM_MASTER))]
    /\ UNCHANGED <<offset, rows, peer, matrixA, matrixC>>

\* All matrixSize rows are multiplied, the uninitialised rows of A included.
Compute(w) ==
    /\ Step(w, "compute", "sendOffset")
    /\ matrixC' = [matrixC EXCEPT
                     ![w] = [i \in Row |-> IF matrixB[w] = Identity
                                           THEN matrixA[w][i] ELSE Garbage]]
    /\ UNCHANGED <<chan, aborted, offset, rows, peer, matrixA, matrixB>>

WorkerSendOffset(w) ==
    /\ Step(w, "sendOffset", "sendRows")
    /\ Send(w, 0, IntMsg(FROM_WORKER, offset[w]))
    /\ UNCHANGED mem

WorkerSendRows(w) ==
    /\ Step(w, "sendRows", "sendC")
    /\ Send(w, 0, IntMsg(FROM_WORKER, rows[w]))
    /\ UNCHANGED mem

\* Mistake: the block is sent from row `offset` of the worker's matrix.
BugWorkerSendC(w) ==
    /\ Step(w, "sendC", "finalize")
    /\ Send(w, 0, RowsMsg(FROM_WORKER, matrixSize,
                          RowsOf(matrixC[w], offset[w], rows[w])))
    /\ UNCHANGED mem

WorkerSendC(w) ==
    /\ Step(w, "sendC", "finalize")
    /\ Send(w, 0, RowsMsg(FROM_WORKER, matrixSize,
                          RowsOf(matrixC[w], 0, rows[w])))
    /\ UNCHANGED mem

\* MPI_Finalize, for every rank.
Finalize(p) ==
    /\ Step(p, "finalize", "done")
    /\ UNCHANGED <<chan, aborted, mem>>
-----------------------------------------------------------------------------
Master ==
    \/ Quit(0) \/ StartMaster
    \/ MasterSendOffset \/ MasterSendRows \/ MasterSendA \/ MasterSendB
    \/ MasterRecvOffset \/ MasterRecvRows \/ MasterRecvC
    \/ Finalize(0)

WorkerStep(w) ==
    \/ StartWorker(w)
    \/ WorkerRecvOffset(w) \/ WorkerRecvRows(w)
    \/ WorkerRecvA(w) \/ WorkerRecvB(w)
    \/ Compute(w)
    \/ WorkerSendOffset(w) \/ WorkerSendRows(w) \/ WorkerSendC(w)
    \/ Finalize(w)

AllDone == \A p \in Task : pc[p] = "done"

Terminated == (AllDone \/ aborted) /\ UNCHANGED vars

Next == Master \/ (\E w \in Worker : WorkerStep(w)) \/ Terminated

\* Every process is scheduled, and MPI delivers what was sent.
Fairness ==
    /\ WF_vars(Master)
    /\ \A w \in Rank \ {0} : WF_vars(WorkerStep(w))

Spec == Init /\ [][Next]_vars

FairSpec == Spec /\ Fairness
-----------------------------------------------------------------------------
Statement == {"start", "sendOffset", "sendRows", "sendA", "sendB", "recvOffset",
              "recvRows", "recvA", "recvB", "recvC", "compute", "sendC",
              "finalize", "done"}

Matrix == [Row -> Row \cup {Garbage}]

\* The type invariant of the variables of mm_mpi.cpp and of the messages.
TypeOK ==
    /\ numtasks \in 1 .. MaxTasks
    /\ eager_max_msg_sz \in EagerLimits
    /\ chan \in [Rank -> [Rank -> Seq(Message)]]
    /\ aborted \in BOOLEAN
    /\ matrixSize \in MatrixSizes
    /\ pc \in [Rank -> Statement]
    /\ offset \in [Rank -> Int]
    /\ rows \in [Rank -> Int]
    /\ peer \in Int
    /\ matrixA \in [Rank -> Matrix]
    /\ matrixB \in [Rank -> Matrix]
    /\ matrixC \in [Rank -> Matrix]

\* No receive is ever shorter than the message it takes, so the job is aborted
\* only by the test of line 38 (fewer than two tasks): the sizes the two sides
\* compute for the seven messages of a worker agree, also with empty blocks.
NoTruncation == aborted => numtasks < 2

\* The blocks rank 0 reads from A and writes to C lie inside the matrix, for
\* any number of rows and workers (more workers than rows included).
BlocksInBounds ==
    /\ pc[0] \in {"sendA", "sendB"} =>
         offset[0] >= 0 /\ rows[0] >= 0 /\ offset[0] + rows[0] <= matrixSize
    /\ pc[0] = "recvC" =>
         offset[0] >= 0 /\ rows[0] >= 0 /\ offset[0] + rows[0] <= matrixSize

\* A worker multiplies rows of A it never received (line 133 runs over all of
\* matrixSize), yet no message carries a row computed from them.
NoGarbageTravels ==
    \A s, d \in Rank : \A i \in DOMAIN chan[s][d] :
        chan[s][d][i].bytes > 4 => Garbage \notin ToSet(chan[s][d][i].block)

\* Rank 0 stops collecting only when C is the whole product: every row is
\* there, at its place, computed from its own row of A and all of B.
ProductComplete ==
    pc[0] \in {"finalize", "done"} => matrixC[0] = Identity

\* No message is left in the network when every rank has finished: the sends
\* and the receives of the two loops pair up.
Drained ==
    AllDone => \A s, d \in Rank : chan[s][d] = <<>>

\* Line 95 never overwrites a row of C that an earlier worker delivered.
RowsWrittenOnce ==
    [][\A i \in Row : matrixC[0][i] # Garbage
                          => matrixC'[0][i] = matrixC[0][i]]_vars

\* Every launch ends, by MPI_Finalize at every rank or by MPI_Abort: the
\* blocking sends of rank 0 and of the workers never wait for each other.
Termination == <>(AllDone \/ aborted)

\* mm_mpi.cpp implements the abstract distributed product.
Abstract == INSTANCE DistributedProduct WITH
    Unknown <- Garbage,
    size <- matrixSize,
    product <- matrixC[0],
    outcome <- IF aborted THEN "refused"
               ELSE IF pc[0] = "done" THEN "complete" ELSE "running"

ImplementsProduct == Abstract!Spec
=============================================================================
