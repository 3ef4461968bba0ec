----------------------------- MODULE RowTicket -----------------------------
(***************************************************************************)
(* Module2/Seminar 5/matrixMultiply_pthread_test.cpp (and _test_2.cpp,     *)
(* with larger constants): every thread takes the number of a row from the *)
(* shared counter step_i, without any lock, and adds the products of that  *)
(* row to matC, which starts at zero.                                      *)
(*                                                                         *)
(* One cell stands for a row of matC: it holds the number of terms added.  *)
(***************************************************************************)
EXTENDS Integers, FiniteSets

CONSTANTS
    Thread,    \* MAX_THREAD of them, 5 in the program
    MAX,       \* rows and columns; 100 in the program
    NoRow      \* what the local variable i holds before it is set

ASSUME ThreadAssumption == IsFiniteSet(Thread) /\ NoRow \notin Nat
ASSUME MAXAssumption == MAX \in Nat \ {0} /\ Cardinality(Thread) <= MAX

VARIABLES
    step_i,    \* the shared counter
    pc,        \* what a thread does next
    i,         \* the row of a thread, as read from step_i
    k,         \* the term a thread adds next
    cell,      \* matC[i][j] as a thread read it
    matC       \* the number of terms in a row of matC

vars == <<step_i, pc, i, k, cell, matC>>

Row == 0 .. MAX - 1

Init ==
    /\ step_i = 0
    /\ pc = [t \in Thread |-> "create"]
    /\ i = [t \in Thread |-> NoRow]
    /\ k = [t \in Thread |-> 0]
    /\ cell = [t \in Thread |-> 0]
    /\ matC = [r \in Row |-> 0]

Step(t, from, to) ==
    /\ pc[t] = from
    /\ pc' = [pc EXCEPT ![t] = to]

\* pthread_create, by main; in any order, which is more than the code does.
Create(t) ==
    /\ Step(t, "create", "take")
    /\ UNCHANGED <<step_i, i, k, cell, matC>>

\* int i = step_i++ reads the counter ...
TakeRow(t) ==
    /\ Step(t, "take", "advance")
    /\ i' = [i EXCEPT ![t] = step_i]
    /\ UNCHANGED <<step_i, k, cell, matC>>

\* Mistake: the counter is advanced past a row.
BugAdvance(t) ==
    /\ Step(t, "advance", "read")
    /\ step_i' = i[t] + 2
    /\ UNCHANGED <<i, k, cell, matC>>

\* ... and writes it back.
Advance(t) ==
    /\ Step(t, "advance", "read")
    /\ step_i' = i[t] + 1
    /\ UNCHANGED <<i, k, cell, matC>>

\* matC[i][j] += ... reads the cell ...
ReadCell(t) ==
    /\ Step(t, "read", "write")
    /\ cell' = [cell EXCEPT ![t] = matC[i[t]]]
    /\ UNCHANGED <<step_i, i, k, matC>>

\* Mistake: the loop over k ends one term early.
BugWriteCell(t) ==
    /\ Step(t, "write", IF k[t] + 2 < MAX THEN "read" ELSE "done")
    /\ matC' = [matC EXCEPT ![i[t]] = cell[t] + 1]
    /\ k' = [k EXCEPT ![t] = @ + 1]
    /\ UNCHANGED <<step_i, i, cell>>

\* Mistake: = instead of +=.
BugAssignCell(t) ==
    /\ Step(t, "write", IF k[t] + 1 < MAX THEN "read" ELSE "done")
    /\ matC' = [matC EXCEPT ![i[t]] = 1]
    /\ k' = [k EXCEPT ![t] = @ + 1]
    /\ UNCHANGED <<step_i, i, cell>>

\* ... and writes it with a term more.
WriteCell(t) ==
    /\ Step(t, "write", IF k[t] + 1 < MAX THEN "read" ELSE "done")
    /\ matC' = [matC EXCEPT ![i[t]] = cell[t] + 1]
    /\ k' = [k EXCEPT ![t] = @ + 1]
    /\ UNCHANGED <<step_i, i, cell>>

ThreadStep(t) ==
    \/ Create(t) \/ TakeRow(t) \/ Advance(t) \/ ReadCell(t) \/ WriteCell(t)

\* pthread_join of every thread.
Joined == \A t \in Thread : pc[t] = "done"

Next == (\E t \in Thread : ThreadStep(t)) \/ (Joined /\ UNCHANGED vars)

Spec == Init /\ [][Next]_vars
-----------------------------------------------------------------------------
Working == {t \in Thread : pc[t] \notin {"create", "take"}}

Owners(r) == {t \in Working : i[t] = r}

\* Without a lock the counter can go back, yet the rows taken never have a gap:
\* below the row of a thread every row has been taken by some thread.
NoRowSkipped ==
    \A t \in Working : \A r \in 0 .. i[t] - 1 : Owners(r) # {}

\* matC is only written inside the matrix, since there are at most MAX threads.
RowsInBounds == \A t \in Working : i[t] \in Row

\* A row that exactly one thread took is complete and right when all threads
\* have been joined, and a row that none took is untouched, whatever happened
\* on the other rows.
SoleOwnerRowsRight ==
    Joined => \A r \in Row :
        /\ Cardinality(Owners(r)) = 1 => matC[r] = MAX
        /\ Owners(r) = {} => matC[r] = 0

\* Threads on one row lose additions of each other, but two of them survive (the
\* last thread to write has read the row after its own first write), and never
\* more than one product per thread is added.
SharedRowsBounded ==
    Joined /\ MAX > 1 => \A r \in Row :
        Owners(r) # {} => matC[r] \in 2 .. Cardinality(Owners(r)) * MAX
=============================================================================
