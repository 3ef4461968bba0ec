----------------------------- MODULE RecvQueue -----------------------------
(***************************************************************************)
(* The two queues of receive requests of the ch3 device (ch3u_recvq.c) as  *)
(* sequences, the head first.  An entry has the handle of its request and  *)
(* its `match`: the rank and the tag a posted receive asks for, wildcards  *)
(* included, or those of the message an unexpected request stands for.     *)
(* The context is left out: one communicator.                              *)
(***************************************************************************)
EXTENDS Integers, Sequences, SequencesExt

CONSTANTS
    MPI_ANY_SOURCE,
    MPI_ANY_TAG

Entry(rreq, match) == [rreq |-> rreq, match |-> match]

\* A receive with the match `want` may take a message with the match `env`.
Matches(want, env) ==
    /\ want.rank \in {MPI_ANY_SOURCE, env.rank}
    /\ want.tag \in {MPI_ANY_TAG, env.tag}

\* Mistake: the unexpected queue is searched without the masks.
BugUnexpectedFor(queue, want) == {i \in DOMAIN queue : queue[i].match = want}

\* The unexpected messages a receive with the match `want` may take, and the
\* posted receives that may take a message with the match `env`.
UnexpectedFor(queue, want) == {i \in DOMAIN queue : Matches(want, queue[i].match)}

PostedFor(queue, env) == {i \in DOMAIN queue : Matches(queue[i].match, env)}

\* Mistake: a new entry goes to the head.
BugEnqueued(queue, entry) == <<entry>> \o queue

\* New entries go to the tail.
Enqueued(queue, entry) == Append(queue, entry)

IsFirst(i, places) == i \in places /\ \A j \in places : i <= j

\* Mistake: the search for a message to cancel ends at the first candidate.
BugIsCancelled(i, places) == IsFirst(i, places)

\* The search for a message to cancel walks the whole queue and keeps the
\* last candidate.
IsCancelled(i, places) == i \in places /\ \A j \in places : j <= i
=============================================================================
