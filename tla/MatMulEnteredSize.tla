------------------------- MODULE MatMulEnteredSize -------------------------
(***************************************************************************)
(* Module3/M3.T1P/MatMult_MPI.cpp: the statements of mm_mpi.cpp, but every *)
(* rank starts with the matrix size DefaultSize and declares the matrices  *)
(* with it, and then rank 0 alone reads another size.  The steps are those *)
(* of MatMulMPI, taken with its own size by each rank.                     *)
(***************************************************************************)
EXTENDS MatMulMPI

CONSTANT DefaultSize    \* 10 in the program

ASSUME DefaultSizeAssumption == DefaultSize \in Nat \ {0}

VARIABLE workerSize     \* matrixSize at the workers; rank 0's is matrixSize

enteredVars == <<vars, workerSize>>

\* A size above DefaultSize makes rank 0 write outside its matrices: undefined.
\* Size 0 asks for an empty product, and is left out.
EnteredSizes == {n \in MatrixSizes : n <= DefaultSize}

W == INSTANCE MatMulMPI WITH matrixSize <- workerSize

Unset == [p \in Rank |-> IF p = 0 THEN Uninitialised ELSE W!Uninitialised]

EnteredInit ==
    /\ MPI_Init
    /\ matrixSize \in EnteredSizes
    /\ workerSize = DefaultSize
    /\ pc = [p \in Rank |-> "start"]
    /\ offset = [p \in Rank |-> Garbage]
    /\ rows = [p \in Rank |-> Garbage]
    /\ peer = Garbage
    /\ matrixA = Unset /\ matrixB = Unset /\ matrixC = Unset

\* Rank 0 reads its size and fills the matrices.  Their rows in memory are
\* workerSize long: with another size the blocks sent are no rows of them.
StartEntered ==
    /\ Step(0, "start", "sendOffset")
    /\ numtasks >= 2
    /\ LET filled == IF matrixSize = workerSize THEN Identity ELSE Uninitialised
       IN /\ matrixA' = [matrixA EXCEPT ![0] = filled]
          /\ matrixB' = [matrixB EXCEPT ![0] = filled]
    /\ offset' = [offset EXCEPT ![0] = 0]
    /\ peer' = 1
    /\ UNCHANGED <<chan, aborted, rows, matrixC>>

EnteredMaster ==
    /\ \/ Quit(0) \/ StartEntered
       \/ MasterSendOffset \/ MasterSendRows \/ MasterSendA \/ MasterSendB
       \/ MasterRecvOffset \/ MasterRecvRows \/ MasterRecvC
       \/ Finalize(0)
    /\ UNCHANGED workerSize

EnteredWorker(w) == W!WorkerStep(w) /\ UNCHANGED matrixSize

EnteredNext ==
    \/ EnteredMaster
    \/ \E w \in Worker : EnteredWorker(w)
    \/ Terminated /\ UNCHANGED workerSize

\* Every process is scheduled, and MPI delivers what was sent.
EnteredFairness ==
    /\ WF_enteredVars(EnteredMaster)
    /\ \A w \in Rank \ {0} : WF_enteredVars(EnteredWorker(w))

EnteredSpec == EnteredInit /\ [][EnteredNext]_enteredVars /\ EnteredFairness
-----------------------------------------------------------------------------
\* Rank 0 never prints a wrong product: with a size other than the workers' the
\* job is aborted before the last result is collected.
NoWrongResult ==
    pc[0] \in {"finalize", "done"} /\ ~ aborted =>
        matrixSize = workerSize /\ matrixC[0] = Identity

\* Whatever size is entered, no rank waits for ever.
Ends == <>(AllDone \/ aborted)
=============================================================================
