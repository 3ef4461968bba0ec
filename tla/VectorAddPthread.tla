-------------------------- MODULE VectorAddPthread --------------------------
(***************************************************************************)
(* Module2/Seminar 4/VectorAdd_final.cpp (VectorAdd_scratch.cpp and        *)
(* Seminar 5/VectorAdd_pthread.cpp are the same program): main creates a   *)
(* thread per vector to allocate it, joins them, creates a thread for each *)
(* of v1 and v2 to fill it, joins them, and adds.  Every thread detaches   *)
(* itself first.                                                           *)
(*                                                                         *)
(* A vector is the number of its leading elements that have been filled,   *)
(* or Wild while its pointer is uninitialised.                             *)
(***************************************************************************)
EXTENDS ForkJoin

CONSTANT Size    \* elements of a vector; 100000 in the program

ASSUME SizeAssumption == Size \in Nat \ {0}

VARIABLES
    vector,    \* struct_v1, struct_v2, struct_v3
    sum,       \* the elements main has written to v3: right or not
    wild       \* "no", "unnoticed" or "crash": a use of an uninitialised pointer

data == <<vector, sum, wild>>
vars == <<forkJoinVars, data>>

Vector == {"v1", "v2", "v3"}

allocates == [allocate_v1 |-> "v1", allocate_v2 |-> "v2", allocate_v3 |-> "v3"]
fills == [randVect1 |-> "v1", randVect2 |-> "v2"]

ASSUME ThreadAssumption == Thread = DOMAIN allocates \cup DOMAIN fills

\* Mistake: the allocating threads are joined together with the filling ones.
BugProgram ==
    << Create("allocate_v1"), Create("allocate_v2"), Create("allocate_v3"),
       Create("randVect1"), Create("randVect2"),
       Join("allocate_v1"), Join("allocate_v2"), Join("allocate_v3"),
       Join("randVect1"), Join("randVect2") >>

\* Mistake: the filling threads are not joined.
BugProgramFillNotJoined ==
    << Create("allocate_v1"), Create("allocate_v2"), Create("allocate_v3"),
       Join("allocate_v1"), Join("allocate_v2"), Join("allocate_v3"),
       Create("randVect1"), Create("randVect2") >>

Program ==
    << Create("allocate_v1"), Create("allocate_v2"), Create("allocate_v3"),
       Join("allocate_v1"), Join("allocate_v2"), Join("allocate_v3"),
       Create("randVect1"), Create("randVect2"),
       Join("randVect1"), Join("randVect2") >>

\* The loop bound sizeof(vector) / sizeof(vector[0]) of randomVector: a pointer
\* of 8 bytes over an int of 4.
FillCount == 2

Wild == -1

Init ==
    /\ ForkJoin_Init
    /\ vector = [v \in Vector |-> Wild]
    /\ sum = <<>>
    /\ wild = "no"

Adding == Called(Program)
Ended == wild = "crash" \/ (Adding /\ Len(sum) = Size)

\* The use of an uninitialised pointer ends the process, or is not noticed.
WildAccess == wild' \in {"unnoticed", "crash"}
-----------------------------------------------------------------------------
MainCallsNext ==
    /\ ~ Ended
    /\ MainCalls(Program)
    /\ UNCHANGED data

\* v3[i] = v1[i] + v2[i], for i = Len(sum).  Nothing orders the loop after the
\* threads, so the build may keep an uninitialised pointer it loaded before.
MainAdd ==
    /\ ~ Ended /\ Adding
    /\ \E current \in BOOLEAN :
         /\ wild = "no" => current
         /\ sum' = Append(sum, current /\ Len(sum) < vector["v1"]
                                       /\ Len(sum) < vector["v2"]
                                       /\ vector["v3"] # Wild)
    /\ IF \E v \in Vector : vector[v] = Wild THEN WildAccess ELSE UNCHANGED wild
    /\ UNCHANGED <<forkJoinVars, vector>>
-----------------------------------------------------------------------------
ThreadDetaches(t) ==
    /\ ~ Ended
    /\ ThreadDetach(t)
    /\ UNCHANGED data

\* malloc: the old contents of the struct are gone, the elements garbage.
ThreadAllocate(t) ==
    /\ t \in DOMAIN allocates
    /\ ~ Ended
    /\ Works(t, TRUE)
    /\ vector' = [vector EXCEPT ![allocates[t]] = 0]
    /\ UNCHANGED <<sum, wild>>

\* One element of randomVector; the pointer was passed by value at the start.
ThreadFill(t) ==
    /\ t \in DOMAIN fills
    /\ ~ Ended
    /\ LET v == fills[t] IN
       IF vector[v] = Wild
       THEN /\ Works(t, TRUE)
            /\ WildAccess
            /\ UNCHANGED vector
       ELSE /\ Works(t, vector[v] + 1 = FillCount)
            /\ vector' = [vector EXCEPT ![v] = @ + 1]
            /\ UNCHANGED wild
    /\ UNCHANGED sum
-----------------------------------------------------------------------------
MainStep == MainCallsNext \/ MainAdd

ThreadStep(t) == ThreadDetaches(t) \/ ThreadAllocate(t) \/ ThreadFill(t)

Next ==
    \/ MainStep
    \/ \E t \in Thread : ThreadStep(t)
    \/ Ended /\ UNCHANGED vars

Fairness ==
    /\ WF_vars(MainStep)
    /\ \A t \in Thread : WF_vars(ThreadStep(t))

Spec == Init /\ [][Next]_vars /\ Fairness
-----------------------------------------------------------------------------
\* As long as no allocating thread has detached itself before main came to join
\* it, no thread and no addition uses a vector that is not there, whatever the
\* filling threads do: the joins of lines 90-92 are all that orders them.
SafeWhenJoinsWait ==
    (\A t \in DOMAIN allocates : joinid[t] # "self") => wild = "no"

\* And when no join misses its thread, exactly the elements randomVector has
\* filled are added rightly.
SumRightWhenJoinsWait ==
    EveryJoinWaits => \A i \in DOMAIN sum : sum[i] <=> i <= FillCount

\* Joins that do not wait lose the order but never hang main: a join returns at
\* once, or claims its thread before the thread can detach and end unnoticed.
MainEnds == <>Ended
=============================================================================
