------------------------------ MODULE MpiPt2Pt ------------------------------
(***************************************************************************)
(* Blocking point-to-point messages as the matrix programs use them:       *)
(* MPI_Send and MPI_Recv on MPI_COMM_WORLD with a given source and tag,    *)
(* after the ch3 device of the MPICH 3.0.2 kept in Module3.  The messages  *)
(* from one rank to another stay in the order they were sent and a receive *)
(* takes the first one with its tag.  A message with data that is larger   *)
(* than the eager limit goes by rendezvous: MPI_Send does not return       *)
(* before a receive has taken it.  A receive whose buffer is smaller than  *)
(* the message is an MPI_ERR_TRUNCATE, and under the default error handler *)
(* that ends every process of the job.                                     *)
(***************************************************************************)
EXTENDS Integers, Sequences, SequencesExt

CONSTANTS
    MaxTasks,      \* bound: the largest `mpirun -n` considered
    EagerLimits    \* the eager limits (in bytes) a channel may have

ASSUME MaxTasksAssumption == MaxTasks \in Nat \ {0}
ASSUME EagerLimitsAssumption == EagerLimits \subseteq Nat

VARIABLES
    numtasks,          \* size of MPI_COMM_WORLD, fixed by mpirun
    eager_max_msg_sz,  \* eager limit of the connections, fixed by the channel
    chan,              \* chan[s][d]: what s sent to d and d has not received
    aborted            \* MPI_Abort was called, or a fatal MPI error occurred

mpiVars == <<numtasks, eager_max_msg_sz, chan, aborted>>

Rank == 0 .. MaxTasks - 1

Task == 0 .. numtasks - 1

MPI_Init ==
    /\ numtasks \in 1 .. MaxTasks
    /\ eager_max_msg_sz \in EagerLimits
    /\ chan = [s \in Rank |-> [d \in Rank |-> <<>>]]
    /\ aborted = FALSE

\* What an uninitialised variable or array element holds.
Garbage == -1

\* A message has a tag, a size in bytes and its contents: the number of an
\* MPI_INT message, or the rows of an MPI_DOUBLE message.  MPI does not check
\* that the receive asks for the type that was sent: an MPI_INT read into an
\* array of doubles is a row of garbage.
Message == [tag : Nat, bytes : Nat, int : Int, block : Seq(Int)]

IntMsg(tag, i) == [tag |-> tag, bytes |-> 4, int |-> i, block |-> <<Garbage>>]

RowsMsg(tag, width, block) ==
    [tag |-> tag, bytes |-> 8 * width * Len(block), int |-> Garbage,
     block |-> block]

\* Rows first .. first + count - 1 of an array of rows, as a message block.
RowsOf(array, first, count) == [i \in 1 .. count |-> array[first + i - 1]]

\* The array after block m was received at row `first` of it.
Stored(array, first, m) ==
    [i \in DOMAIN array |->
        IF i - first + 1 \in DOMAIN m.block THEN m.block[i - first + 1]
                                            ELSE array[i]]

IsRendezvous(m) == m.bytes > 0 /\ m.bytes > eager_max_msg_sz

\* The previous MPI_Send of s, if any, has returned.
SendReturned(s) ==
    \A d \in Rank : \A i \in DOMAIN chan[s][d] : ~ IsRendezvous(chan[s][d][i])

MPI_Send(s, d, m) == chan' = [chan EXCEPT ![s][d] = Append(@, m)]

Matching(s, d, tag) == {i \in DOMAIN chan[s][d] : chan[s][d][i].tag = tag}

FirstMatch(s, d, tag) ==
    CHOOSE i \in Matching(s, d, tag) : \A j \in Matching(s, d, tag) : i <= j

\* MPI_Recv of rank d has a message to take; it is Incoming(s, d, tag).
CanRecv(s, d, tag) == Matching(s, d, tag) # {}

Incoming(s, d, tag) == chan[s][d][FirstMatch(s, d, tag)]

TakeIncoming(s, d, tag) ==
    chan' = [chan EXCEPT ![s][d] = RemoveAt(@, FirstMatch(s, d, tag))]

\* Mistake: a long message is cut to the buffer without an error.
BugTruncates(m, capacity) == FALSE

Truncates(m, capacity) == m.bytes > capacity

MPI_Abort == aborted' = TRUE
=============================================================================
