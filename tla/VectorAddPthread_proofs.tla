----------------------- MODULE VectorAddPthread_proofs -----------------------
(***************************************************************************)
(* The joins of VectorAdd_final.cpp order its threads as long as they      *)
(* wait, for vectors of any size: nothing is used before it is allocated,  *)
(* and what was filled, and only that, is added rightly.                   *)
(***************************************************************************)
EXTENDS VectorAddPthread, TLAPS

\* Where main creates and joins a thread.
CreateAt ==
    [allocate_v1 |-> 1, allocate_v2 |-> 2, allocate_v3 |-> 3,
     randVect1 |-> 7, randVect2 |-> 8]

JoinAt ==
    [allocate_v1 |-> 4, allocate_v2 |-> 5, allocate_v3 |-> 6,
     randVect1 |-> 9, randVect2 |-> 10]

TypeOK ==
    /\ life \in [Thread -> {"none", "running", "exited"}]
    /\ joinid \in [Thread -> {"none", "joiner", "self"}]
    /\ pc \in 1 .. 11
    /\ tpc \in [Thread -> {"detach", "work", "gone"}]
    /\ vector \in [Vector -> {Wild} \cup 0 .. FillCount]
    /\ sum \in Seq(BOOLEAN)

\* A thread lives from its creation to its last step, and has detached itself,
\* or failed to because a join was first, before it works.
Lives ==
    \A t \in Thread :
        /\ life[t] = "none" <=> pc <= CreateAt[t]
        /\ life[t] = "exited" <=> tpc[t] = "gone"
        /\ tpc[t] # "detach" => joinid[t] # "none"

\* Main is past a join that waited only if the thread has ended.
Joined ==
    \A t \in Thread : pc > JoinAt[t] /\ joinid[t] # "self" => tpc[t] = "gone"

\* What the threads that have ended have done.
Allocated ==
    \A t \in DOMAIN allocates : tpc[t] = "gone" => vector[allocates[t]] # Wild

Filled ==
    \A t \in DOMAIN fills :
        /\ vector[fills[t]] = FillCount => tpc[t] = "gone"
        /\ EveryJoinWaits /\ tpc[t] = "gone" => vector[fills[t]] = FillCount

AddsAtEnd == sum # <<>> => pc = 11

IInv ==
    /\ TypeOK /\ Lives /\ Joined /\ Allocated /\ Filled /\ AddsAtEnd
    /\ SafeWhenJoinsWait /\ SumRightWhenJoinsWait

-----------------------------------------------------------------------------
\* The five threads, and what main does at each of its ten calls.
LEMMA Threads ==
    /\ Thread = {"allocate_v1", "allocate_v2", "allocate_v3", "randVect1", "randVect2"}
    /\ DOMAIN allocates = {"allocate_v1", "allocate_v2", "allocate_v3"}
    /\ DOMAIN fills = {"randVect1", "randVect2"}
    /\ \A t \in DOMAIN allocates : allocates[t] \in Vector
    /\ \A t \in DOMAIN fills : fills[t] \in Vector
    /\ \A v \in Vector : \E t \in DOMAIN allocates : allocates[t] = v
    /\ CreateAt \in [Thread -> 1 .. 8] /\ JoinAt \in [Thread -> 4 .. 10]
    /\ \A t \in Thread : CreateAt[t] < JoinAt[t]
BY ThreadAssumption DEF allocates, fills, Vector, CreateAt, JoinAt

LEMMA MainStepAt ==
    ASSUME pc \in 1 .. 11, MainCalls(Program)
    PROVE  /\ UNCHANGED tpc
           /\ pc \in 1 .. 10
           /\ \E t \in Thread :
                \/ pc = CreateAt[t] /\ pc' = pc + 1 /\ pthread_create(t)
                \/ pc = JoinAt[t] /\ pc' = pc /\ pthread_join_claims(t)
                \/ /\ pc = JoinAt[t] /\ pc' = pc + 1
                   /\ pthread_join_returns(t) /\ UNCHANGED pthreadVars
<1>1. /\ Len(Program) = 10
      /\ pc <= 10
      /\ UNCHANGED tpc
  BY DEF Program, MainCalls, MainCreate, MainJoinClaims, MainJoinReturns, Main
<1>2. \A n \in 1 .. 10 :
        /\ Program[n].thread \in Thread
        /\ Program[n].call = "create" => n = CreateAt[Program[n].thread]
        /\ Program[n].call = "join" => n = JoinAt[Program[n].thread]
  BY Threads DEF Program, Create, Join, CreateAt, JoinAt
<1>3. pc \in 1 .. 10
  BY <1>1
<1> QED  BY <1>1, <1>2, <1>3 DEF MainCalls, MainCreate, MainJoinClaims, MainJoinReturns, Main

LEMMA Initially == Init => IInv
<1> SUFFICES ASSUME Init PROVE IInv
  OBVIOUS
<1>1. TypeOK
  BY Threads DEF Init, ForkJoin_Init, Pthread_Init, TypeOK
<1>2. Lives /\ Joined /\ Allocated /\ Filled /\ AddsAtEnd
  BY Threads DEF Init, ForkJoin_Init, Pthread_Init, Lives, Joined, Allocated, Filled, AddsAtEnd, Wild, FillCount
<1>3. SafeWhenJoinsWait /\ SumRightWhenJoinsWait
  BY DEF Init, SafeWhenJoinsWait, SumRightWhenJoinsWait
<1> QED  BY <1>1, <1>2, <1>3 DEF IInv

\* Main calls.
LEMMA CallsKeep ==
    ASSUME IInv, MainCallsNext
    PROVE  IInv'
<1> USE DEF IInv, TypeOK
<1>1. /\ UNCHANGED <<vector, sum, wild>>
      /\ MainCalls(Program)
  BY DEF MainCallsNext, data
<1>2. PICK t \in Thread :
        \/ pc = CreateAt[t] /\ pc' = pc + 1 /\ pthread_create(t)
        \/ pc = JoinAt[t] /\ pc' = pc /\ pthread_join_claims(t)
        \/ /\ pc = JoinAt[t] /\ pc' = pc + 1
           /\ pthread_join_returns(t) /\ UNCHANGED pthreadVars
  BY <1>1, MainStepAt
<1>3. /\ pc \in 1 .. 10 /\ UNCHANGED tpc
  BY <1>1, MainStepAt
<1>4. \A u \in Thread : joinid'[u] = "self" <=> joinid[u] = "self"
  BY <1>2 DEF pthread_create, pthread_join_claims, pthreadVars
<1>5. TypeOK'
  BY <1>1, <1>2, <1>3 DEF pthread_create, pthread_join_claims, pthreadVars
<1>6. Lives' /\ Joined'
  BY <1>2, <1>3, Threads DEF Lives, Joined, pthread_create, pthread_join_claims, pthread_join_returns, pthreadVars, CreateAt, JoinAt
<1>7. Allocated' /\ Filled' /\ AddsAtEnd'
  BY <1>1, <1>3, <1>4, Threads DEF Allocated, Filled, AddsAtEnd, EveryJoinWaits
<1>8. SafeWhenJoinsWait' /\ SumRightWhenJoinsWait'
  BY <1>1, <1>4, Threads DEF SafeWhenJoinsWait, SumRightWhenJoinsWait, EveryJoinWaits
<1> QED  BY <1>5, <1>6, <1>7, <1>8

\* Main adds an element.
LEMMA AddKeeps ==
    ASSUME IInv, MainAdd
    PROVE  IInv'
<1> USE DEF IInv, TypeOK
<1>1. /\ UNCHANGED <<life, joinid, pc, tpc, vector>>
      /\ pc = 11
  BY DEF MainAdd, Adding, Called, Program, forkJoinVars, pthreadVars
<1>2. PICK current \in BOOLEAN :
        /\ wild = "no" => current
        /\ sum' = Append(sum, current /\ Len(sum) < vector["v1"]
                                      /\ Len(sum) < vector["v2"]
                                      /\ vector["v3"] # Wild)
  BY DEF MainAdd
<1> DEFINE right == current /\ Len(sum) < vector["v1"] /\ Len(sum) < vector["v2"]
                            /\ vector["v3"] # Wild
<1>3. /\ sum' \in Seq(BOOLEAN) /\ sum' = Append(sum, right)
      /\ DOMAIN sum' = 1 .. Len(sum) + 1
      /\ \A i \in 1 .. Len(sum) : sum'[i] = sum[i]
      /\ sum'[Len(sum) + 1] = right
  BY <1>2
<1>4. TypeOK' /\ Lives' /\ Joined' /\ Allocated' /\ Filled' /\ AddsAtEnd'
  BY <1>1, <1>3 DEF Lives, Joined, Allocated, Filled, AddsAtEnd, EveryJoinWaits
<1>5. ASSUME NEW t \in Thread, joinid[t] # "self" PROVE tpc[t] = "gone"
  BY <1>1, <1>5, Threads DEF Joined, JoinAt
<1>6. SafeWhenJoinsWait'
  <2> SUFFICES ASSUME \A t \in DOMAIN allocates : joinid[t] # "self"
               PROVE  wild' = "no"
    BY <1>1 DEF SafeWhenJoinsWait
  <2>1. wild = "no"
    BY DEF SafeWhenJoinsWait
  <2>2. \A v \in Vector : vector[v] # Wild
    BY <1>5, Threads DEF Allocated
  <2> QED  BY <2>1, <2>2 DEF MainAdd
<1>7. SumRightWhenJoinsWait'
  <2> SUFFICES ASSUME EveryJoinWaits, NEW i \in DOMAIN sum'
               PROVE  sum'[i] <=> i <= FillCount
    BY <1>1 DEF SumRightWhenJoinsWait, EveryJoinWaits
  <2>1. \A t \in Thread : tpc[t] = "gone"
    BY <1>5 DEF EveryJoinWaits
  <2>2. wild = "no"
    BY Threads DEF SafeWhenJoinsWait, EveryJoinWaits
  <2>3. vector["v1"] = FillCount /\ vector["v2"] = FillCount /\ vector["v3"] # Wild
    BY <2>1, Threads DEF Filled, Allocated, fills, allocates
  <2>4. right <=> Len(sum) < FillCount
    BY <1>2, <2>2, <2>3
  <2>5. CASE i \in 1 .. Len(sum)
    BY <1>3, <2>5 DEF SumRightWhenJoinsWait
  <2>6. CASE i = Len(sum) + 1
    <3>1. i <= FillCount <=> Len(sum) < FillCount
      BY <2>6 DEF FillCount
    <3>2. sum'[i] = right
      BY <1>3, <2>6
    <3> HIDE DEF right
    <3> QED  BY <2>4, <3>1, <3>2, Zenon
  <2> QED  BY <1>3, <2>5, <2>6
<1> QED  BY <1>4, <1>6, <1>7

\* A thread detaches itself: from now on its join does not wait, unless main has
\* claimed it already.
LEMMA DetachKeeps ==
    ASSUME IInv, NEW t \in Thread, ThreadDetaches(t)
    PROVE  IInv'
<1> USE DEF IInv, TypeOK
<1>1. /\ UNCHANGED <<vector, sum, wild, pc, life>>
      /\ life[t] = "running" /\ tpc[t] = "detach"
      /\ tpc' = [tpc EXCEPT ![t] = "work"]
      /\ joinid' = [joinid EXCEPT ![t] = IF joinid[t] = "none" THEN "self" ELSE joinid[t]]
  BY DEF ThreadDetaches, ThreadDetach, Runs, pthread_detach, data
<1>2. \A u \in Thread : joinid'[u] # "self" => joinid[u] # "self"
  BY <1>1
<1>3. \A u \in Thread : tpc'[u] = "gone" <=> tpc[u] = "gone"
  BY <1>1
<1>4. TypeOK' /\ Lives'
  BY <1>1 DEF Lives
<1>5. Joined' /\ Allocated' /\ Filled' /\ AddsAtEnd'
  BY <1>1, <1>2, <1>3, Threads DEF Joined, Allocated, Filled, AddsAtEnd, EveryJoinWaits
<1>6. SafeWhenJoinsWait' /\ SumRightWhenJoinsWait'
  BY <1>1, <1>2, Threads DEF SafeWhenJoinsWait, SumRightWhenJoinsWait, EveryJoinWaits
<1> QED  BY <1>4, <1>5, <1>6

\* What a step of the work of t does to the threads.
LEMMA WorkStep ==
    ASSUME IInv, NEW t \in Thread, NEW last \in BOOLEAN, Works(t, last)
    PROVE  /\ UNCHANGED <<pc, joinid>>
           /\ life[t] = "running" /\ tpc[t] = "work"
           /\ life' \in [Thread -> {"none", "running", "exited"}]
           /\ tpc' = [tpc EXCEPT ![t] = IF last THEN "gone" ELSE "work"]
           /\ Lives' /\ Joined'
<1>1. /\ UNCHANGED <<pc, joinid>>
      /\ life[t] = "running" /\ tpc[t] = "work"
      /\ tpc' = [tpc EXCEPT ![t] = IF last THEN "gone" ELSE "work"]
      /\ life' = IF last THEN [life EXCEPT ![t] = "exited"] ELSE life
  BY DEF Works, Runs, pthread_exit, pthreadVars
<1>2. life' \in [Thread -> {"none", "running", "exited"}]
  BY <1>1 DEF IInv, TypeOK
<1>3. Lives' /\ Joined'
  BY <1>1 DEF IInv, TypeOK, Lives, Joined
<1> QED  BY <1>1, <1>2, <1>3

\* While a thread that main creates later is running, the joins before its
\* creation are over; and while any is, main does not add.
LEMMA Running ==
    ASSUME IInv, NEW t \in Thread, life[t] = "running"
    PROVE  /\ t \in DOMAIN fills => \A u \in DOMAIN allocates :
                 joinid[u] # "self" => vector[allocates[u]] # Wild
           /\ t \in DOMAIN allocates /\ EveryJoinWaits => \A u \in DOMAIN fills :
                 life[u] = "none"
           /\ EveryJoinWaits => sum = <<>>
<1> USE DEF IInv, TypeOK, Lives
<1>1. pc > CreateAt[t] /\ tpc[t] # "gone"
  BY Threads
<1>2. joinid[t] # "self" => pc <= JoinAt[t]
  BY <1>1, Threads DEF Joined
<1>3. t \in DOMAIN fills => \A u \in DOMAIN allocates : pc > JoinAt[u]
  BY <1>1, Threads DEF CreateAt, JoinAt
<1>4. t \in DOMAIN allocates /\ EveryJoinWaits => \A u \in DOMAIN fills : pc <= CreateAt[u]
  BY <1>2, Threads DEF CreateAt, JoinAt, EveryJoinWaits
<1>5. EveryJoinWaits => pc <= 10
  BY <1>2, Threads DEF EveryJoinWaits
<1>6. \A u \in DOMAIN fills : u \in Thread
  BY Threads
<1>7. \A u \in DOMAIN allocates : u \in Thread
  BY Threads
<1>8. t \in DOMAIN fills => \A u \in DOMAIN allocates :
                 joinid[u] # "self" => vector[allocates[u]] # Wild
  BY <1>3, <1>7 DEF Joined, Allocated
<1>9. t \in DOMAIN allocates /\ EveryJoinWaits => \A u \in DOMAIN fills :
                 life[u] = "none"
  BY <1>4, <1>6
<1>10. EveryJoinWaits => sum = <<>>
  BY <1>5 DEF AddsAtEnd
<1> QED  BY <1>8, <1>9, <1>10

LEMMA AllocateKeeps ==
    ASSUME IInv, NEW t \in Thread, ThreadAllocate(t)
    PROVE  IInv'
<1> USE DEF IInv, TypeOK
<1>1. /\ t \in DOMAIN allocates
      /\ Works(t, TRUE)
      /\ vector' = [vector EXCEPT ![allocates[t]] = 0]
      /\ UNCHANGED <<sum, wild>>
  BY DEF ThreadAllocate
<1>2. /\ UNCHANGED <<pc, joinid>>
      /\ life[t] = "running" /\ tpc[t] = "work"
      /\ life' \in [Thread -> {"none", "running", "exited"}]
      /\ tpc' = [tpc EXCEPT ![t] = "gone"]
      /\ Lives' /\ Joined'
  BY <1>1, WorkStep
<1>3. TypeOK'
  BY <1>1, <1>2, Threads DEF FillCount, Wild
<1>4. Allocated'
  BY <1>1, <1>2, Threads DEF Allocated, Wild
<1>5. Filled'
  <2> SUFFICES ASSUME NEW u \in DOMAIN fills
               PROVE  /\ vector'[fills[u]] = FillCount => tpc'[u] = "gone"
                      /\ EveryJoinWaits /\ tpc'[u] = "gone" => vector'[fills[u]] = FillCount
    BY <1>2 DEF Filled, EveryJoinWaits
  <2>1. vector'[fills[u]] = FillCount => vector[fills[u]] = FillCount
    BY <1>1, Threads DEF FillCount
  <2>2. u # t /\ u \in Thread
    BY <1>1, Threads
  <2>3. EveryJoinWaits => life[u] = "none"
    BY <1>1, <1>2, Running
  <2> QED  BY <1>2, <2>1, <2>2, <2>3 DEF Filled, Lives
<1>6. AddsAtEnd'
  BY <1>1, <1>2 DEF AddsAtEnd
<1>7. SafeWhenJoinsWait' /\ SumRightWhenJoinsWait'
  BY <1>1, <1>2 DEF SafeWhenJoinsWait, SumRightWhenJoinsWait, EveryJoinWaits
<1> QED  BY <1>2, <1>3, <1>4, <1>5, <1>6, <1>7

LEMMA FillKeeps ==
    ASSUME IInv, NEW t \in Thread, ThreadFill(t)
    PROVE  IInv'
<1> USE DEF IInv, TypeOK
<1> DEFINE v == fills[t]
<1>0. t \in DOMAIN fills /\ v \in Vector /\ sum' = sum
  BY Threads DEF ThreadFill
<1>1. CASE vector[v] = Wild
  <2>1. Works(t, TRUE) /\ vector' = vector
    BY <1>1 DEF ThreadFill
  <2>2. /\ UNCHANGED <<pc, joinid>>
        /\ life[t] = "running" /\ tpc[t] = "work"
        /\ life' \in [Thread -> {"none", "running", "exited"}]
        /\ tpc' = [tpc EXCEPT ![t] = "gone"]
        /\ Lives' /\ Joined'
    BY <2>1, WorkStep
  <2>3. \E u \in DOMAIN allocates : joinid[u] = "self"
    <3>1. PICK u \in DOMAIN allocates : allocates[u] = v
      <4> HIDE DEF v
      <4> QED  BY <1>0, Threads
    <3>2. joinid[u] # "self" => vector[allocates[u]] # Wild
      BY <1>0, <2>2, Running
    <3> QED  BY <1>1, <3>1, <3>2
  <2>4. ~ EveryJoinWaits /\ ~ EveryJoinWaits'
    BY <2>2, <2>3, Threads DEF EveryJoinWaits
  <2>5. TypeOK' /\ Allocated' /\ AddsAtEnd'
    BY <1>0, <2>1, <2>2, Threads DEF Allocated, AddsAtEnd, fills
  <2>6. Filled'
    BY <1>0, <2>1, <2>2, <2>4, Threads DEF Filled
  <2>7. SafeWhenJoinsWait' /\ SumRightWhenJoinsWait'
    BY <2>2, <2>3, <2>4 DEF SafeWhenJoinsWait, SumRightWhenJoinsWait
  <2> QED  BY <2>2, <2>5, <2>6, <2>7
<1>2. CASE vector[v] # Wild
  <2>1. /\ Works(t, vector[v] + 1 = FillCount)
        /\ vector' = [vector EXCEPT ![v] = vector[v] + 1]
        /\ wild' = wild
    BY <1>2 DEF ThreadFill
  <2>2. /\ UNCHANGED <<pc, joinid>>
        /\ life[t] = "running" /\ tpc[t] = "work"
        /\ life' \in [Thread -> {"none", "running", "exited"}]
        /\ tpc' = [tpc EXCEPT ![t] = IF vector[v] + 1 = FillCount THEN "gone" ELSE "work"]
        /\ Lives' /\ Joined'
    BY <2>1, WorkStep
  <2>3. vector[v] \in 0 .. FillCount - 1
    BY <1>0, <1>2, <2>2 DEF Filled, FillCount
  <2>4. TypeOK'
    BY <1>0, <2>1, <2>2, <2>3, Threads DEF FillCount, Wild
  <2>5. Allocated' /\ AddsAtEnd'
    BY <1>0, <2>1, <2>2, <2>3, Threads DEF Allocated, AddsAtEnd, Wild
  <2>6. Filled'
    BY <1>0, <2>1, <2>2, <2>3, Threads DEF Filled, fills, FillCount, EveryJoinWaits
  <2>7. SafeWhenJoinsWait' /\ SumRightWhenJoinsWait'
    BY <1>0, <2>1, <2>2 DEF SafeWhenJoinsWait, SumRightWhenJoinsWait, EveryJoinWaits
  <2> QED  BY <2>2, <2>4, <2>5, <2>6, <2>7
<1> QED  BY <1>1, <1>2

-----------------------------------------------------------------------------
\* Every step keeps the invariant.
LEMMA StepKeeps == IInv /\ [Next]_vars => IInv'
<1> SUFFICES ASSUME IInv, [Next]_vars PROVE IInv'
  OBVIOUS
<1>1. CASE MainStep
  BY <1>1, CallsKeep, AddKeeps DEF MainStep
<1>2. ASSUME NEW t \in Thread, ThreadStep(t) PROVE IInv'
  BY <1>2, DetachKeeps, AllocateKeeps, FillKeeps DEF ThreadStep
<1>3. CASE UNCHANGED vars
  BY <1>3 DEF vars, data, forkJoinVars, pthreadVars, IInv, TypeOK, Lives, Joined, Allocated, Filled,
     AddsAtEnd, SafeWhenJoinsWait, SumRightWhenJoinsWait, EveryJoinWaits
<1> QED  BY <1>1, <1>2, <1>3 DEF Next

LEMMA Inductive == Spec => []IInv
BY Initially, StepKeeps, PTL DEF Spec

\* No vector is used before it is allocated, by main or by a filling thread, as
\* long as the joins of lines 90-92 wait for the allocating threads.
THEOREM SafeWhileAwaited == Spec => []SafeWhenJoinsWait
<1>1. IInv => SafeWhenJoinsWait
  BY DEF IInv
<1> QED  BY <1>1, Inductive, PTL

\* When every join waits, main adds rightly the elements that randomVector fills
\* (lines 18 and 103-105) and no others, whatever the size of the vectors.
THEOREM SumsFilledPart == Spec => []SumRightWhenJoinsWait
<1>1. IInv => SumRightWhenJoinsWait
  BY DEF IInv
<1> QED  BY <1>1, Inductive, PTL
=============================================================================
