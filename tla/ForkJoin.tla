------------------------------ MODULE ForkJoin ------------------------------
(***************************************************************************)
(* The skeleton the pthread programs of Module2 share: main runs through a *)
(* list of pthread_create and pthread_join calls and then does the rest by *)
(* itself; a thread detaches itself, works, and exits.  All of them stop   *)
(* when the process ends.                                                  *)
(***************************************************************************)
EXTENDS Integers, Sequences, Pthread

VARIABLES
    pc,     \* the number of main's next call
    tpc     \* "detach", "work" or "gone": what a thread does next

forkJoinVars == <<pthreadVars, pc, tpc>>

Create(t) == [call |-> "create", thread |-> t]
Join(t) == [call |-> "join", thread |-> t]

ForkJoin_Init ==
    /\ Pthread_Init
    /\ pc = 1
    /\ tpc = [t \in Thread |-> "detach"]

Called(program) == pc = Len(program) + 1

Main(program, call) ==
    /\ pc <= Len(program)
    /\ program[pc].call = call
    /\ UNCHANGED tpc

MainCreate(program) ==
    /\ Main(program, "create")
    /\ pthread_create(program[pc].thread)
    /\ pc' = pc + 1

MainJoinClaims(program) ==
    /\ Main(program, "join")
    /\ pthread_join_claims(program[pc].thread)
    /\ UNCHANGED pc

MainJoinReturns(program) ==
    /\ Main(program, "join")
    /\ pthread_join_returns(program[pc].thread)
    /\ pc' = pc + 1
    /\ UNCHANGED pthreadVars

MainCalls(program) ==
    MainCreate(program) \/ MainJoinClaims(program) \/ MainJoinReturns(program)

\* Thread t does what comes at `at`, and then `next`.
Runs(t, at, next) ==
    /\ life[t] = "running"
    /\ tpc[t] = at
    /\ tpc' = [tpc EXCEPT ![t] = next]
    /\ UNCHANGED pc

ThreadDetach(t) == Runs(t, "detach", "work") /\ pthread_detach(t)

\* Mistake: the thread returns to a loop and never exits.
BugWorks(t, last) == Runs(t, "work", "work") /\ UNCHANGED pthreadVars

\* A step of the work of t, with pthread_exit after the last one.
Works(t, last) ==
    /\ Runs(t, "work", IF last THEN "gone" ELSE "work")
    /\ IF last THEN pthread_exit(t) ELSE UNCHANGED pthreadVars
=============================================================================
