--------------------------- MODULE MatMulPthread ---------------------------
(***************************************************************************)
(* Module2/Seminar 5/matrixMultiply_pthread.cpp: main allocates and fills  *)
(* the matrices in threads, copies the three structs, and starts threads   *)
(* that each multiply the whole of x and y into z, all at the same time.   *)
(*                                                                         *)
(* One cell of z stands for all of them: it holds how many terms have been *)
(* added to what the memory held before (nothing sets z to zero).          *)
(***************************************************************************)
EXTENDS ForkJoin, FiniteSets

CONSTANTS
    Multiplier,    \* the threads of lines 159-162; 100 in the program
    Terms          \* the size of the matrices; 1000 in the program

ASSUME TermsAssumption == Terms \in Nat \ {0}

VARIABLES
    matrix,      \* struct_x, struct_y, struct_z
    main_mat,    \* the copies the multiplying threads use, taken at line 152
    cell,        \* the terms added to a cell of z
    k, z,        \* of each multiplying thread: next term, and z[i][j] as read
    wild         \* "no", "unnoticed" or "crash": a use of an uninitialised pointer

data == <<matrix, main_mat, cell, k, z, wild>>
vars == <<forkJoinVars, data>>

Matrix == {"x", "y", "z"}

allocates == [allocate_x |-> "x", allocate_y |-> "y", allocate_z |-> "z"]
fills == [randMatX |-> "x", randMatY |-> "y"]

Preparing == DOMAIN allocates \cup DOMAIN fills

ASSUME MultiplierAssumption ==
    IsFiniteSet(Multiplier) /\ Multiplier # {} /\ Multiplier \cap Preparing = {}
ASSUME ThreadAssumption == Thread = Preparing \cup Multiplier

\* Lines 159-166: all multiplying threads are created, then all are joined.
InOrder == CHOOSE order \in [1 .. Cardinality(Multiplier) -> Multiplier] :
               \A i, j \in DOMAIN order : i # j => order[i] # order[j]
Creates == [i \in DOMAIN InOrder |-> Create(InOrder[i])]
Joins == [i \in DOMAIN InOrder |-> Join(InOrder[i])]

\* Mistake: the last allocation is joined after the matrices are filled.
BugPreparation ==
    << Create("allocate_x"), Create("allocate_y"), Create("allocate_z"),
       Join("allocate_x"), Join("allocate_z"),
       Create("randMatX"), Create("randMatY"),
       Join("allocate_y"), Join("randMatX"), Join("randMatY") >>

\* Lines 132-150, before the copy.
Preparation ==
    << Create("allocate_x"), Create("allocate_y"), Create("allocate_z"),
       Join("allocate_x"), Join("allocate_y"), Join("allocate_z"),
       Create("randMatX"), Create("randMatY"), Join("randMatX"), Join("randMatY") >>

Copy == [call |-> "copy"]

Program == Preparation \o <<Copy>> \o Creates \o Joins

Init ==
    /\ ForkJoin_Init
    /\ matrix = [m \in Matrix |-> "wild"]
    /\ main_mat = [m \in Matrix |-> "wild"]
    /\ cell = 0
    /\ k = [t \in Multiplier |-> 0]
    /\ z = [t \in Multiplier |-> -1]
    /\ wild = "no"

Ended == wild = "crash" \/ Called(Program)

\* The use of an uninitialised pointer ends the process, or is not noticed.
WildAccess == wild' \in {"unnoticed", "crash"}
-----------------------------------------------------------------------------
MainCallsNext ==
    /\ ~ Ended
    /\ MainCalls(Program)
    /\ UNCHANGED data

\* Lines 152-154: the pointers as they are now, right or not.
MainCopies ==
    /\ ~ Ended
    /\ Main(Program, "copy")
    /\ pc' = pc + 1
    /\ main_mat' = matrix
    /\ UNCHANGED <<pthreadVars, matrix, cell, k, z, wild>>

ThreadDetaches(t) ==
    /\ ~ Ended
    /\ ThreadDetach(t)
    /\ UNCHANGED data

ThreadAllocate(t) ==
    /\ ~ Ended
    /\ t \in DOMAIN allocates
    /\ Works(t, TRUE)
    /\ matrix' = [matrix EXCEPT ![allocates[t]] = "allocated"]
    /\ UNCHANGED <<main_mat, cell, k, z, wild>>

ThreadFill(t) ==
    /\ ~ Ended
    /\ t \in DOMAIN fills
    /\ Works(t, TRUE)
    /\ IF matrix[fills[t]] = "wild" THEN WildAccess ELSE UNCHANGED wild
    /\ UNCHANGED <<matrix, main_mat, cell, k, z>>

\* z[i][j] += x[i][k] * y[k][j] reads the cell ...
ThreadReadsCell(t) ==
    /\ ~ Ended
    /\ t \in Multiplier
    /\ Works(t, FALSE)
    /\ z[t] = -1
    /\ z' = [z EXCEPT ![t] = cell]
    /\ IF \E m \in Matrix : main_mat[m] = "wild" THEN WildAccess ELSE UNCHANGED wild
    /\ UNCHANGED <<matrix, main_mat, cell, k>>

\* Mistake: = instead of +=.
BugThreadWritesCell(t) ==
    /\ ~ Ended
    /\ t \in Multiplier
    /\ Works(t, k[t] + 1 = Terms)
    /\ z[t] # -1
    /\ cell' = 1
    /\ z' = [z EXCEPT ![t] = -1]
    /\ k' = [k EXCEPT ![t] = @ + 1]
    /\ UNCHANGED <<matrix, main_mat, wild>>

\* ... and writes it, with whatever was added in between lost.
ThreadWritesCell(t) ==
    /\ ~ Ended
    /\ t \in Multiplier
    /\ Works(t, k[t] + 1 = Terms)
    /\ z[t] # -1
    /\ cell' = z[t] + 1
    /\ z' = [z EXCEPT ![t] = -1]
    /\ k' = [k EXCEPT ![t] = @ + 1]
    /\ UNCHANGED <<matrix, main_mat, wild>>
-----------------------------------------------------------------------------
MainStep == MainCallsNext \/ MainCopies

ThreadStep(t) ==
    \/ ThreadDetaches(t) \/ ThreadAllocate(t) \/ ThreadFill(t)
    \/ ThreadReadsCell(t) \/ ThreadWritesCell(t)

Next ==
    \/ MainStep
    \/ \E t \in Thread : ThreadStep(t)
    \/ Ended /\ UNCHANGED vars

Fairness ==
    /\ WF_vars(MainStep)
    /\ \A t \in Thread : WF_vars(ThreadStep(t))

Spec == Init /\ [][Next]_vars /\ Fairness
-----------------------------------------------------------------------------
\* The copies are taken after the allocations whenever those are waited for:
\* no multiplying thread follows a pointer that was copied too early.
CopiesAreFresh ==
    (\A t \in DOMAIN allocates : joinid[t] # "self") => wild = "no"

\* However the additions of the threads overwrite each other, when all have been
\* waited for a cell holds at least two terms (the last thread to write has read
\* after its first write) and at most those of every thread.
LostUpdatesBounded ==
    EveryJoinWaits /\ Called(Program) =>
        cell \in (IF Terms = 1 THEN 1 ELSE 2) .. Cardinality(Multiplier) * Terms
=============================================================================
