------------------------ MODULE MatMulPthread_proofs ------------------------
(***************************************************************************)
(* matrixMultiply_pthread.cpp for any number of multiplying threads and    *)
(* matrices of any size: the structs are copied after the allocations that *)
(* were waited for, and a cell ends between two terms and those of every   *)
(* thread together.                                                        *)
(***************************************************************************)
EXTENDS MatMulPthread, FiniteSetTheorems, SequenceTheorems, TLAPS

Threads == Cardinality(Multiplier)

Turn(t) == CHOOSE i \in 1 .. Threads : InOrder[i] = t

\* Where main creates and joins a thread.
CreateAt ==
    [t \in Thread |->
       CASE t = "allocate_x" -> 1 [] t = "allocate_y" -> 2 [] t = "allocate_z" -> 3
         [] t = "randMatX" -> 7 [] t = "randMatY" -> 8
         [] OTHER -> 11 + Turn(t)]

JoinAt ==
    [t \in Thread |->
       CASE t = "allocate_x" -> 4 [] t = "allocate_y" -> 5 [] t = "allocate_z" -> 6
         [] t = "randMatX" -> 9 [] t = "randMatY" -> 10
         [] OTHER -> 11 + Threads + Turn(t)]

Last == 11 + 2 * Threads

TypeOK ==
    /\ life \in [Thread -> {"none", "running", "exited"}]
    /\ joinid \in [Thread -> {"none", "joiner", "self"}]
    /\ pc \in 1 .. Last + 1
    /\ tpc \in [Thread -> {"detach", "work", "gone"}]
    /\ matrix \in [Matrix -> {"wild", "allocated"}]
    /\ main_mat \in [Matrix -> {"wild", "allocated"}]
    /\ cell \in Nat
    /\ k \in [Multiplier -> Nat]
    /\ z \in [Multiplier -> Nat \cup {-1}]

\* A thread lives from its creation to its last step, and has detached itself,
\* or failed to because a join was first, before it works.
Lives ==
    \A t \in Thread :
        /\ life[t] = "none" <=> pc <= CreateAt[t]
        /\ life[t] = "exited" <=> tpc[t] = "gone"
        /\ tpc[t] # "detach" => joinid[t] # "none"

\* Main is past a join that waited only if the thread has ended.
Joined ==
    \A t \in Thread : pc > JoinAt[t] /\ joinid[t] # "self" => tpc[t] = "gone"

Allocated ==
    \A t \in DOMAIN allocates : tpc[t] = "gone" => matrix[allocates[t]] = "allocated"

\* What main has copied.
Copied ==
    pc > 11 /\ (\A t \in DOMAIN allocates : joinid[t] # "self") =>
        \A m \in Matrix : main_mat[m] = "allocated"

FreshInv == TypeOK /\ Lives /\ Joined /\ Allocated /\ Copied /\ CopiesAreFresh

-----------------------------------------------------------------------------
\* How far a multiplying thread is in its loop over the terms.
LoopInv ==
    \A t \in Multiplier :
        /\ tpc[t] = "detach" => k[t] = 0 /\ z[t] = -1
        /\ tpc[t] = "work" => k[t] < Terms
        /\ tpc[t] = "gone" => k[t] = Terms /\ z[t] = -1

\* The additions made: each is a thread and the number of its term.
Additions == {a \in Multiplier \X Nat : a[2] < k[a[1]]}

\* The cell never holds more terms than were added, nor does a thread that read it.
UpperInv ==
    /\ cell <= Cardinality(Additions)
    /\ \A t \in Multiplier : z[t] <= Cardinality(Additions)

\* A cell that was written holds a term, a thread that has written before has
\* read one, and when all have written twice there are two.
LowerInv ==
    /\ \A t \in Multiplier : k[t] > 0 => cell >= 1
    /\ \A t \in Multiplier : k[t] > 0 /\ z[t] # -1 => z[t] >= 1
    /\ (\A t \in Multiplier : k[t] >= 2) => cell >= 2

TermsInv == LoopInv /\ UpperInv /\ LowerInv

-----------------------------------------------------------------------------
\* The list InOrder names every multiplying thread once.
LEMMA OrderFacts ==
    /\ Threads \in Nat \ {0}
    /\ InOrder \in [1 .. Threads -> Multiplier]
    /\ DOMAIN InOrder = 1 .. Threads
    /\ \A i, j \in 1 .. Threads : i # j => InOrder[i] # InOrder[j]
    /\ \A t \in Multiplier : Turn(t) \in 1 .. Threads /\ InOrder[Turn(t)] = t
<1>1. Threads \in Nat /\ ExistsBijection(1 .. Threads, Multiplier)
  BY MultiplierAssumption, FS_CardinalityType DEF Threads
<1>2. Threads # 0
  BY MultiplierAssumption, FS_EmptySet DEF Threads
<1>3. \E order \in [1 .. Threads -> Multiplier] :
         \A i, j \in DOMAIN order : i # j => order[i] # order[j]
  <2>1. PICK f : f \in Bijection(1 .. Threads, Multiplier)
    BY <1>1 DEF ExistsBijection
  <2> QED  BY <2>1 DEF Bijection, Injection, Surjection, IsInjective
<1>4. /\ InOrder \in [1 .. Threads -> Multiplier]
      /\ \A i, j \in DOMAIN InOrder : i # j => InOrder[i] # InOrder[j]
  BY <1>3 DEF InOrder, Threads
<1>5. InOrder \in Surjection(1 .. Threads, Multiplier)
  <2>1. InOrder \in Injection(1 .. Threads, Multiplier)
    BY <1>4 DEF Injection, IsInjective
  <2>2. Cardinality(1 .. Threads) = Threads
    BY <1>1, FS_Interval
  <2> QED  BY <2>1, <2>2, MultiplierAssumption, FS_Injection DEF Threads
<1>6. \A t \in Multiplier : \E i \in 1 .. Threads : InOrder[i] = t
  BY <1>5 DEF Surjection
<1> QED  BY <1>1, <1>2, <1>4, <1>6 DEF Turn

LEMMA ThreadFacts ==
    /\ DOMAIN allocates = {"allocate_x", "allocate_y", "allocate_z"}
    /\ DOMAIN fills = {"randMatX", "randMatY"}
    /\ Thread = DOMAIN allocates \cup DOMAIN fills \cup Multiplier
    /\ \A t \in Multiplier : t \notin DOMAIN allocates /\ t \notin DOMAIN fills
    /\ \A t \in DOMAIN allocates : allocates[t] \in Matrix
    /\ \A t \in DOMAIN fills : fills[t] \in Matrix
    /\ \A m \in Matrix : \E t \in DOMAIN allocates : allocates[t] = m
BY ThreadAssumption, MultiplierAssumption DEF Preparing, allocates, fills, Matrix

LEMMA Positions ==
    /\ CreateAt["allocate_x"] = 1 /\ JoinAt["allocate_x"] = 4
    /\ CreateAt["allocate_y"] = 2 /\ JoinAt["allocate_y"] = 5
    /\ CreateAt["allocate_z"] = 3 /\ JoinAt["allocate_z"] = 6
    /\ CreateAt["randMatX"] = 7 /\ JoinAt["randMatX"] = 9
    /\ CreateAt["randMatY"] = 8 /\ JoinAt["randMatY"] = 10
    /\ \A t \in Multiplier :
          CreateAt[t] = 11 + Turn(t) /\ JoinAt[t] = 11 + Threads + Turn(t)
BY ThreadFacts DEF CreateAt, JoinAt

\* A thread is created before it is joined; the allocating threads are joined
\* before the others are created; the multiplying ones come after the copy.
LEMMA Places ==
    /\ \A t \in Thread :
          /\ CreateAt[t] \in 1 .. Last /\ JoinAt[t] \in 1 .. Last
          /\ CreateAt[t] < JoinAt[t]
          /\ CreateAt[t] # 11 /\ JoinAt[t] # 11
    /\ \A t \in DOMAIN allocates : JoinAt[t] <= 6
    /\ \A t \in DOMAIN fills : CreateAt[t] > 6
    /\ \A t \in Multiplier : CreateAt[t] > 11
<1>1. Threads \in Nat \ {0} /\ \A t \in Multiplier : Turn(t) \in 1 .. Threads
  BY OrderFacts
<1>2. \A t \in Multiplier :
        /\ CreateAt[t] \in 12 .. Last /\ JoinAt[t] \in 12 .. Last
        /\ CreateAt[t] < JoinAt[t]
  BY <1>1, Positions DEF Last
<1>3. \A t \in DOMAIN allocates \cup DOMAIN fills :
        /\ CreateAt[t] \in 1 .. 10 /\ JoinAt[t] \in 1 .. 10
        /\ CreateAt[t] < JoinAt[t]
  BY ThreadFacts, Positions
<1>4. Last \in Nat /\ Last > 11
  BY <1>1 DEF Last
<1>5. \A t \in DOMAIN allocates : JoinAt[t] <= 6
  BY ThreadFacts, Positions
<1>6. \A t \in DOMAIN fills : CreateAt[t] > 6
  BY ThreadFacts, Positions
<1> QED  BY <1>2, <1>3, <1>4, <1>5, <1>6, ThreadFacts

\* Where the elements of two sequences are in their concatenation.
LEMMA Concatenated ==
    ASSUME NEW R, NEW s, NEW u, NEW w, s \in Seq(R), u \in Seq(R), w = s \o u
    PROVE  /\ w \in Seq(R)
           /\ Len(w) = Len(s) + Len(u)
           /\ \A i \in 1 .. Len(s) : w[i] = s[i]
           /\ \A i \in 1 .. Len(u) : w[Len(s) + i] = u[i]
<1>1. Len(s) \in Nat /\ Len(u) \in Nat
  OBVIOUS
<1>2. \A i \in 1 .. Len(u) :
        /\ Len(s) + i \in 1 .. Len(s) + Len(u)
        /\ ~ (Len(s) + i <= Len(s)) /\ Len(s) + i - Len(s) = i
  BY <1>1
<1>3. \A i \in 1 .. Len(s) : i \in 1 .. Len(s) + Len(u) /\ i <= Len(s)
  BY <1>1
<1> QED  BY <1>2, <1>3, ConcatProperties

\* The calls of main, by their place in its program.
LEMMA Calls ==
    /\ Len(Program) = Last
    /\ \A n \in 1 .. 10 : Program[n] = Preparation[n]
    /\ Program[11] = Copy
    /\ \A i \in 1 .. Threads : Program[11 + i] = Create(InOrder[i])
    /\ \A i \in 1 .. Threads : Program[11 + Threads + i] = Join(InOrder[i])
<1> DEFINE T == Threads
           R == [call : {"create", "join"}, thread : Thread] \cup {Copy}
<1>1. /\ T \in Nat \ {0}
      /\ \A i \in 1 .. T : InOrder[i] \in Multiplier
      /\ DOMAIN InOrder = 1 .. T
  BY OrderFacts
<1>2. /\ Creates \in Seq(R) /\ Len(Creates) = T
      /\ \A i \in 1 .. T : Creates[i] = Create(InOrder[i])
  BY <1>1, ThreadFacts DEF Creates, Create
<1>3. /\ Joins \in Seq(R) /\ Len(Joins) = T
      /\ \A i \in 1 .. T : Joins[i] = Join(InOrder[i])
  BY <1>1, ThreadFacts DEF Joins, Join
<1>4. Preparation \in Seq(R) /\ Len(Preparation) = 10
  BY ThreadFacts DEF Preparation, Create, Join
<1> DEFINE C == <<Copy>>
           A == Preparation \o C
           B == A \o Creates
<1>5. C \in Seq(R) /\ Len(C) = 1 /\ C[1] = Copy
  OBVIOUS
<1>8. Preparation \in Seq(R) /\ C \in Seq(R) /\ Creates \in Seq(R) /\ Joins \in Seq(R)
  BY <1>2, <1>3, <1>4, <1>5
<1>a. A = Preparation \o C
  OBVIOUS
<1>b. B = A \o Creates
  OBVIOUS
<1>c. Program = B \o Joins
  BY DEF Program
<1> HIDE DEF R, T, A, B, C
<1>6. /\ A \in Seq(R) /\ Len(A) = 11
      /\ \A n \in 1 .. 10 : A[n] = Preparation[n]
      /\ A[11] = Copy
  <2>1. /\ A \in Seq(R) /\ Len(A) = Len(Preparation) + Len(C)
        /\ \A n \in 1 .. Len(Preparation) : A[n] = Preparation[n]
        /\ \A i \in 1 .. Len(C) : A[Len(Preparation) + i] = C[i]
    BY <1>8, <1>a, Concatenated
  <2> QED  BY <1>4, <1>5, <2>1
<1>7. /\ B \in Seq(R) /\ Len(B) = 11 + T
      /\ \A n \in 1 .. 11 : B[n] = A[n]
      /\ \A i \in 1 .. T : B[11 + i] = Creates[i]
  <2>0. A \in Seq(R)
    BY <1>6
  <2>1. /\ B \in Seq(R) /\ Len(B) = Len(A) + Len(Creates)
        /\ \A n \in 1 .. Len(A) : B[n] = A[n]
        /\ \A i \in 1 .. Len(Creates) : B[Len(A) + i] = Creates[i]
    BY <1>8, <2>0, <1>b, Concatenated
  <2> QED  BY <1>2, <1>6, <2>1
<1>9. /\ Len(Program) = 11 + T + T
      /\ \A n \in 1 .. 11 + T : Program[n] = B[n]
      /\ \A i \in 1 .. T : Program[11 + T + i] = Joins[i]
  <2>0. B \in Seq(R)
    BY <1>7
  <2>1. /\ Len(Program) = Len(B) + Len(Joins)
        /\ \A n \in 1 .. Len(B) : Program[n] = B[n]
        /\ \A i \in 1 .. Len(Joins) : Program[Len(B) + i] = Joins[i]
    BY <1>8, <2>0, <1>c, Concatenated
  <2> QED  BY <1>3, <1>7, <2>1
<1>10. Last = 11 + T + T
  BY <1>1 DEF Last, T
<1>11. \A n \in 1 .. 10 : Program[n] = Preparation[n]
  BY <1>1, <1>6, <1>7, <1>9
<1>12. Program[11] = Copy
  BY <1>1, <1>6, <1>7, <1>9
<1>13. ASSUME NEW i \in 1 .. T PROVE Program[11 + i] = Create(InOrder[i])
  <2>1. 11 + i \in 1 .. 11 + T
    BY <1>1
  <2> QED  BY <2>1, <1>2, <1>7, <1>9
<1>14. ASSUME NEW i \in 1 .. T PROVE Program[11 + T + i] = Join(InOrder[i])
  BY <1>3, <1>9
<1> QED  BY <1>9, <1>10, <1>11, <1>12, <1>13, <1>14 DEF T

\* Every call is at the place of its thread.
LEMMA CallsInPlace ==
    ASSUME NEW n \in 1 .. Last
    PROVE  /\ Program[n].call = "copy" <=> n = 11
           /\ Program[n].call \in {"create", "join"} => Program[n].thread \in Thread
           /\ Program[n].call = "create" => n = CreateAt[Program[n].thread]
           /\ Program[n].call = "join" => n = JoinAt[Program[n].thread]
<1> DEFINE T == Threads
<1>1. /\ T \in Nat \ {0}
      /\ \A i \in 1 .. T : InOrder[i] \in Multiplier
      /\ \A i \in 1 .. T : Turn(InOrder[i]) = i
  <2>1. \A i \in 1 .. T : InOrder[i] \in Multiplier
    BY OrderFacts
  <2> QED  BY <2>1, OrderFacts
<1>2. \/ n \in 1 .. 10 \/ n = 11
      \/ \E i \in 1 .. T : n = 11 + i
      \/ \E i \in 1 .. T : n = 11 + T + i
  <2>1. n \in 1 .. 11 + 2 * T
    BY DEF Last
  <2>2. n > 11 /\ n <= 11 + T => n - 11 \in 1 .. T /\ n = 11 + (n - 11)
    BY <1>1, <2>1
  <2>3. n > 11 + T => n - 11 - T \in 1 .. T /\ n = 11 + T + (n - 11 - T)
    BY <1>1, <2>1
  <2> QED  BY <1>1, <2>1, <2>2, <2>3
<1>3. CASE n \in 1 .. 10
  <2>1. /\ Preparation[n].call # "copy"
        /\ Preparation[n].thread \in Thread
        /\ Preparation[n].call = "create" => n = CreateAt[Preparation[n].thread]
        /\ Preparation[n].call = "join" => n = JoinAt[Preparation[n].thread]
    BY <1>3, ThreadFacts, Positions DEF Preparation, Create, Join
  <2> QED  BY <1>3, <2>1, Calls
<1>4. CASE n = 11
  BY <1>4, Calls DEF Copy
<1>5. ASSUME NEW i \in 1 .. T, n = 11 + i
      PROVE  /\ Program[n].call = "create" /\ Program[n].thread = InOrder[i]
             /\ n = CreateAt[InOrder[i]] /\ InOrder[i] \in Thread /\ n # 11
  <2>1. Program[n] = Create(InOrder[i])
    BY <1>5, Calls
  <2> QED  BY <1>1, <1>5, <2>1, Positions, ThreadFacts DEF Create
<1>6. ASSUME NEW i \in 1 .. T, n = 11 + T + i
      PROVE  /\ Program[n].call = "join" /\ Program[n].thread = InOrder[i]
             /\ n = JoinAt[InOrder[i]] /\ InOrder[i] \in Thread /\ n # 11
  <2>1. Program[n] = Join(InOrder[i])
    BY <1>6, Calls
  <2> QED  BY <1>1, <1>6, <2>1, Positions, ThreadFacts DEF Join
<1> QED  BY <1>2, <1>3, <1>4, <1>5, <1>6

\* No two calls are at one place.
LEMMA PlacesDiffer ==
    \A t, u \in Thread :
        /\ t # u => CreateAt[t] # CreateAt[u] /\ JoinAt[t] # JoinAt[u]
        /\ CreateAt[t] # JoinAt[u]
<1>1. ASSUME NEW t \in Thread
      PROVE  Program[CreateAt[t]] = Create(t) /\ Program[JoinAt[t]] = Join(t)
  <2>1. CASE t \in Multiplier
    <3>1. PICK i \in 1 .. Threads : i = Turn(t) /\ InOrder[i] = t
      BY <2>1, OrderFacts
    <3>2. CreateAt[t] = 11 + i /\ JoinAt[t] = 11 + Threads + i
      BY <2>1, <3>1, Positions
    <3> QED  BY <3>1, <3>2, Calls
  <2>2. CASE t \in DOMAIN allocates \cup DOMAIN fills
    <3>1. CreateAt[t] \in 1 .. 10 /\ JoinAt[t] \in 1 .. 10
      BY <2>2, ThreadFacts, Positions
    <3>2. Preparation[CreateAt[t]] = Create(t) /\ Preparation[JoinAt[t]] = Join(t)
      BY <2>2, ThreadFacts, Positions DEF Preparation
    <3> QED  BY <3>1, <3>2, Calls
  <2> QED  BY <2>1, <2>2, ThreadFacts
<1>2. \A t, u \in Thread : Create(t) # Join(u)
  BY DEF Create, Join
<1>3. \A t, u \in Thread : t # u => Create(t) # Create(u) /\ Join(t) # Join(u)
  BY DEF Create, Join
<1> QED  BY <1>1, <1>2, <1>3

\* A call of main is made at its place.
LEMMA MainStepAt ==
    ASSUME pc \in 1 .. Last + 1
    PROVE  /\ MainCalls(Program) =>
                /\ UNCHANGED tpc /\ pc \in 1 .. Last /\ pc # 11
                /\ \E t \in Thread :
                     \/ pc = CreateAt[t] /\ pc' = pc + 1 /\ pthread_create(t)
                     \/ pc = JoinAt[t] /\ pc' = pc /\ pthread_join_claims(t)
                     \/ /\ pc = JoinAt[t] /\ pc' = pc + 1
                        /\ pthread_join_returns(t) /\ UNCHANGED pthreadVars
           /\ Main(Program, "copy") => UNCHANGED tpc /\ pc = 11
<1>0. Last \in Nat
  BY OrderFacts DEF Last
<1>1. ASSUME NEW call, Main(Program, call)
      PROVE  UNCHANGED tpc /\ pc \in 1 .. Last /\ Program[pc].call = call
  BY <1>0, <1>1, Calls DEF Main
<1>2. Main(Program, "copy") => UNCHANGED tpc /\ pc = 11
  BY <1>1, CallsInPlace
<1>3. ASSUME MainCalls(Program)
      PROVE  /\ UNCHANGED tpc /\ pc \in 1 .. Last /\ pc # 11
             /\ \E t \in Thread :
                     \/ pc = CreateAt[t] /\ pc' = pc + 1 /\ pthread_create(t)
                     \/ pc = JoinAt[t] /\ pc' = pc /\ pthread_join_claims(t)
                     \/ /\ pc = JoinAt[t] /\ pc' = pc + 1
                        /\ pthread_join_returns(t) /\ UNCHANGED pthreadVars
  <2>1. CASE MainCreate(Program)
    BY <1>1, <2>1, CallsInPlace DEF MainCreate
  <2>2. CASE MainJoinClaims(Program)
    BY <1>1, <2>2, CallsInPlace DEF MainJoinClaims
  <2>3. CASE MainJoinReturns(Program)
    BY <1>1, <2>3, CallsInPlace DEF MainJoinReturns
  <2> QED  BY <1>3, <2>1, <2>2, <2>3 DEF MainCalls
<1> QED  BY <1>2, <1>3

-----------------------------------------------------------------------------
LEMMA FreshInit == Init => FreshInv
<1> SUFFICES ASSUME Init PROVE FreshInv
  OBVIOUS
<1> USE DEF Init, ForkJoin_Init, Pthread_Init
<1>0. Last \in Nat
  BY OrderFacts DEF Last
<1>1. TypeOK
  BY <1>0 DEF TypeOK
<1>2. Lives /\ Joined
  BY Places DEF Lives, Joined
<1>3. Allocated /\ Copied /\ CopiesAreFresh
  BY ThreadFacts DEF Allocated, Copied, CopiesAreFresh
<1> QED  BY <1>1, <1>2, <1>3 DEF FreshInv

\* Main creates or joins.
LEMMA CallsKeep ==
    ASSUME FreshInv, MainCallsNext
    PROVE  FreshInv'
<1> USE DEF FreshInv, TypeOK
<1>0. Last \in Nat
  BY OrderFacts DEF Last
<1>1. UNCHANGED <<matrix, main_mat, cell, k, z, wild>> /\ MainCalls(Program)
  BY DEF MainCallsNext, data
<1>2. /\ UNCHANGED tpc /\ pc \in 1 .. Last /\ pc # 11
      /\ \E t \in Thread :
                     \/ pc = CreateAt[t] /\ pc' = pc + 1 /\ pthread_create(t)
                     \/ pc = JoinAt[t] /\ pc' = pc /\ pthread_join_claims(t)
                     \/ /\ pc = JoinAt[t] /\ pc' = pc + 1
                        /\ pthread_join_returns(t) /\ UNCHANGED pthreadVars
  BY <1>1, MainStepAt
<1>3. PICK t \in Thread :
                     \/ pc = CreateAt[t] /\ pc' = pc + 1 /\ pthread_create(t)
                     \/ pc = JoinAt[t] /\ pc' = pc /\ pthread_join_claims(t)
                     \/ /\ pc = JoinAt[t] /\ pc' = pc + 1
                        /\ pthread_join_returns(t) /\ UNCHANGED pthreadVars
  BY <1>2
<1>4. \A u \in Thread : joinid'[u] = "self" <=> joinid[u] = "self"
  BY <1>3 DEF pthread_create, pthread_join_claims, pthreadVars
<1>5. TypeOK'
  BY <1>0, <1>1, <1>2, <1>3 DEF pthread_create, pthread_join_claims, pthreadVars
<1>6. Lives' /\ Joined'
  <2>1. \A u \in Thread :
          /\ CreateAt[u] \in Int /\ JoinAt[u] \in Int /\ CreateAt[u] < JoinAt[u]
          /\ u # t => CreateAt[u] # CreateAt[t] /\ JoinAt[u] # JoinAt[t]
                      /\ CreateAt[u] # JoinAt[t]
    BY Places, PlacesDiffer DEF Last
  <2>2. Lives'
    BY <1>2, <1>3, <2>1 DEF Lives, pthread_create, pthread_join_claims, pthread_join_returns, pthreadVars
  <2>3. Joined'
    <3>1. pc \in Int
      BY <1>0
    <3>2. CASE pc = CreateAt[t] /\ pc' = pc + 1 /\ pthread_create(t)
      <4>1. \A u \in Thread : pc' > JoinAt[u] => pc > JoinAt[u]
        BY <1>2, <2>1, <3>1, <3>2, PlacesDiffer
      <4> QED  BY <1>2, <3>2, <4>1 DEF Joined, pthread_create
    <3>3. CASE pc = JoinAt[t] /\ pc' = pc /\ pthread_join_claims(t)
      <4>1. \A u \in Thread : pc > JoinAt[u] /\ joinid'[u] # "self" => joinid[u] # "self"
        BY <1>4
      <4> QED  BY <1>2, <3>3, <4>1 DEF Joined
    <3>4. CASE /\ pc = JoinAt[t] /\ pc' = pc + 1
               /\ pthread_join_returns(t) /\ UNCHANGED pthreadVars
      <4>1. \A u \in Thread : u # t /\ pc' > JoinAt[u] => pc > JoinAt[u]
        BY <2>1, <3>1, <3>4
      <4>2. joinid[t] # "self" => tpc[t] = "gone"
        BY <3>4 DEF Lives, pthread_join_returns
      <4> QED  BY <1>2, <3>4, <4>1, <4>2 DEF Joined, pthreadVars
    <3> QED  BY <1>3, <3>2, <3>3, <3>4
  <2> QED  BY <2>2, <2>3
<1>7. Allocated' /\ Copied'
  BY <1>1, <1>2, <1>3, <1>4, ThreadFacts DEF Allocated, Copied
<1>8. CopiesAreFresh'
  BY <1>1, <1>4, ThreadFacts DEF CopiesAreFresh
<1> QED  BY <1>5, <1>6, <1>7, <1>8

\* Main copies the structs.
LEMMA CopyKeeps ==
    ASSUME FreshInv, MainCopies
    PROVE  FreshInv'
<1> USE DEF FreshInv, TypeOK
<1>1. /\ UNCHANGED <<life, joinid, tpc, matrix, cell, k, z, wild>>
      /\ pc = 11 /\ pc' = 12 /\ main_mat' = matrix
  BY MainStepAt DEF MainCopies, pthreadVars
<1>2. TypeOK'
  BY <1>1, OrderFacts DEF Last
<1>3. \A u \in Thread : CreateAt[u] \in Int /\ CreateAt[u] # 11 /\ JoinAt[u] \in Int /\ JoinAt[u] # 11
  BY Places DEF Last
<1>4. Lives' /\ Joined'
  BY <1>1, <1>3 DEF Lives, Joined
<1>5. Allocated' /\ CopiesAreFresh'
  BY <1>1 DEF Allocated, CopiesAreFresh
<1>6. Copied'
  <2> SUFFICES ASSUME \A t \in DOMAIN allocates : joinid[t] # "self", NEW m \in Matrix
               PROVE  matrix[m] = "allocated"
    BY <1>1 DEF Copied
  <2>1. PICK t \in DOMAIN allocates : allocates[t] = m
    BY ThreadFacts
  <2>2. tpc[t] = "gone"
    BY <1>1, ThreadFacts, Positions DEF Joined
  <2> QED  BY <2>1, <2>2 DEF Allocated
<1> QED  BY <1>2, <1>4, <1>5, <1>6

LEMMA DetachKeeps ==
    ASSUME FreshInv, NEW t \in Thread, ThreadDetaches(t)
    PROVE  FreshInv'
<1> USE DEF FreshInv, TypeOK
<1>1. /\ UNCHANGED <<matrix, main_mat, cell, k, z, wild, pc, life>>
      /\ life[t] = "running" /\ tpc[t] = "detach"
      /\ tpc' = [tpc EXCEPT ![t] = "work"]
      /\ joinid' = [joinid EXCEPT ![t] = IF joinid[t] = "none" THEN "self" ELSE joinid[t]]
  BY DEF ThreadDetaches, ThreadDetach, Runs, pthread_detach, data
<1>2. \A u \in Thread : joinid'[u] # "self" => joinid[u] # "self"
  BY <1>1
<1>3. \A u \in Thread : tpc'[u] = "gone" <=> tpc[u] = "gone"
  BY <1>1
<1>4. TypeOK' /\ Lives'
  BY <1>1 DEF Lives
<1>5. Joined' /\ Allocated'
  BY <1>1, <1>2, <1>3, ThreadFacts DEF Joined, Allocated
<1>6. Copied' /\ CopiesAreFresh'
  BY <1>1, <1>2, ThreadFacts DEF Copied, CopiesAreFresh
<1> QED  BY <1>4, <1>5, <1>6

\* What a step of the work of t does to the threads.
LEMMA WorkStep ==
    ASSUME FreshInv, NEW t \in Thread, NEW last \in BOOLEAN, Works(t, last)
    PROVE  /\ UNCHANGED <<pc, joinid>>
           /\ life[t] = "running" /\ tpc[t] = "work"
           /\ life' \in [Thread -> {"none", "running", "exited"}]
           /\ tpc' = [tpc EXCEPT ![t] = IF last THEN "gone" ELSE "work"]
           /\ Lives' /\ Joined'
<1>1. /\ UNCHANGED <<pc, joinid>>
      /\ life[t] = "running" /\ tpc[t] = "work"
      /\ tpc' = [tpc EXCEPT ![t] = IF last THEN "gone" ELSE "work"]
      /\ life' = IF last THEN [life EXCEPT ![t] = "exited"] ELSE life
  BY DEF Works, Runs, pthread_exit, pthreadVars
<1>2. life' \in [Thread -> {"none", "running", "exited"}]
  BY <1>1 DEF FreshInv, TypeOK
<1>3. Lives' /\ Joined'
  BY <1>1 DEF FreshInv, TypeOK, Lives, Joined
<1> QED  BY <1>1, <1>2, <1>3

LEMMA AllocateKeeps ==
    ASSUME FreshInv, NEW t \in Thread, ThreadAllocate(t)
    PROVE  FreshInv'
<1> USE DEF FreshInv, TypeOK
<1>1. /\ t \in DOMAIN allocates
      /\ Works(t, TRUE)
      /\ matrix' = [matrix EXCEPT ![allocates[t]] = "allocated"]
      /\ UNCHANGED <<main_mat, cell, k, z, wild>>
  BY DEF ThreadAllocate
<1>2. /\ UNCHANGED <<pc, joinid>>
      /\ life' \in [Thread -> {"none", "running", "exited"}]
      /\ tpc' = [tpc EXCEPT ![t] = "gone"]
      /\ Lives' /\ Joined'
  BY <1>1, WorkStep
<1>3. TypeOK'
  BY <1>1, <1>2
<1>4. Allocated'
  BY <1>1, <1>2, ThreadFacts DEF Allocated
<1>5. Copied' /\ CopiesAreFresh'
  BY <1>1, <1>2 DEF Copied, CopiesAreFresh
<1> QED  BY <1>2, <1>3, <1>4, <1>5

\* A running filling thread finds its matrix where the allocations were waited for.
LEMMA FillKeeps ==
    ASSUME FreshInv, NEW t \in Thread, ThreadFill(t)
    PROVE  FreshInv'
<1> USE DEF FreshInv, TypeOK
<1>1. /\ t \in DOMAIN fills
      /\ Works(t, TRUE)
      /\ matrix[fills[t]] # "wild" => wild' = wild
      /\ UNCHANGED <<matrix, main_mat, cell, k, z>>
  BY DEF ThreadFill
<1>2. /\ UNCHANGED <<pc, joinid>>
      /\ life[t] = "running"
      /\ life' \in [Thread -> {"none", "running", "exited"}]
      /\ tpc' = [tpc EXCEPT ![t] = "gone"]
      /\ Lives' /\ Joined'
  BY <1>1, WorkStep
<1>3. TypeOK'
  BY <1>1, <1>2
<1>4. Allocated' /\ Copied'
  BY <1>1, <1>2, ThreadFacts DEF Allocated, Copied
<1>5. CopiesAreFresh'
  <2> SUFFICES ASSUME \A u \in DOMAIN allocates : joinid[u] # "self"
               PROVE  wild' = "no"
    BY <1>2 DEF CopiesAreFresh
  <2>1. wild = "no"
    BY DEF CopiesAreFresh
  <2>2. pc > 6
    <3>1. pc > CreateAt[t] /\ CreateAt[t] > 6 /\ CreateAt[t] \in Int /\ pc \in Int
      BY <1>1, <1>2, Places, OrderFacts DEF Lives, Last
    <3> QED  BY <3>1
  <2>3. PICK u \in DOMAIN allocates : allocates[u] = fills[t]
    BY <1>1, ThreadFacts
  <2>4. tpc[u] = "gone"
    <3>1. JoinAt[u] <= 6 /\ JoinAt[u] \in Int /\ u \in Thread /\ pc \in Int
      BY Places, ThreadFacts, OrderFacts DEF Last
    <3> QED  BY <2>2, <3>1 DEF Joined
  <2> QED  BY <1>1, <2>1, <2>3, <2>4 DEF Allocated
<1> QED  BY <1>2, <1>3, <1>4, <1>5

\* A running multiplying thread uses the copies, which are fresh.
LEMMA MultiplyKeeps ==
    ASSUME FreshInv, NEW t \in Thread, ThreadReadsCell(t) \/ ThreadWritesCell(t)
    PROVE  FreshInv'
<1> USE DEF FreshInv, TypeOK
<1>1. /\ t \in Multiplier
      /\ \E last \in BOOLEAN : Works(t, last)
      /\ (\A m \in Matrix : main_mat[m] # "wild") => wild' = wild
      /\ UNCHANGED <<matrix, main_mat>>
  BY DEF ThreadReadsCell, ThreadWritesCell
<1>2. /\ UNCHANGED <<pc, joinid>>
      /\ life[t] = "running"
      /\ life' \in [Thread -> {"none", "running", "exited"}]
      /\ \E last \in BOOLEAN : tpc' = [tpc EXCEPT ![t] = IF last THEN "gone" ELSE "work"]
      /\ Lives' /\ Joined'
  BY <1>1, WorkStep
<1>3. cell' \in Nat /\ k' \in [Multiplier -> Nat] /\ z' \in [Multiplier -> Nat \cup {-1}]
  <2>1. CASE ThreadReadsCell(t)
    BY <1>1, <2>1 DEF ThreadReadsCell
  <2>2. CASE ThreadWritesCell(t)
    <3>1. /\ z[t] \in Nat /\ cell' = z[t] + 1
          /\ z' = [z EXCEPT ![t] = -1] /\ k' = [k EXCEPT ![t] = k[t] + 1]
      BY <1>1, <2>2 DEF ThreadWritesCell
    <3>2. k[t] + 1 \in Nat /\ z[t] + 1 \in Nat
      BY <1>1, <3>1
    <3>3. k' \in [Multiplier -> Nat] /\ z' \in [Multiplier -> Nat \cup {-1}]
      BY <3>1, <3>2
    <3> QED  BY <3>1, <3>2, <3>3
  <2> QED  BY <2>1, <2>2
<1>4. TypeOK'
  BY <1>1, <1>2, <1>3
<1>5. Allocated' /\ Copied'
  BY <1>1, <1>2, ThreadFacts DEF Allocated, Copied
<1>6. CopiesAreFresh'
  <2> SUFFICES ASSUME \A u \in DOMAIN allocates : joinid[u] # "self"
               PROVE  wild' = "no"
    BY <1>2 DEF CopiesAreFresh
  <2>1. pc > 11
    <3>1. pc > CreateAt[t] /\ CreateAt[t] > 11 /\ CreateAt[t] \in Int /\ pc \in Int
      BY <1>1, <1>2, Places, OrderFacts DEF Lives, Last
    <3> QED  BY <3>1
  <2> QED  BY <1>1, <2>1 DEF Copied, CopiesAreFresh
<1> QED  BY <1>2, <1>4, <1>5, <1>6

LEMMA FreshInductive == Spec => []FreshInv
<1>1. FreshInv /\ [Next]_vars => FreshInv'
  <2> SUFFICES ASSUME FreshInv, [Next]_vars PROVE FreshInv'
    OBVIOUS
  <2>1. CASE MainStep
    BY <2>1, CallsKeep, CopyKeeps DEF MainStep
  <2>2. ASSUME NEW t \in Thread, ThreadStep(t) PROVE FreshInv'
    BY <2>2, DetachKeeps, AllocateKeeps, FillKeeps, MultiplyKeeps DEF ThreadStep
  <2>3. CASE UNCHANGED vars
    BY <2>3 DEF vars, data, forkJoinVars, pthreadVars, FreshInv, TypeOK, Lives, Joined, Allocated,
       Copied, CopiesAreFresh
  <2> QED  BY <2>1, <2>2, <2>3 DEF Next
<1> QED  BY <1>1, FreshInit, PTL DEF Spec

\* No thread follows a struct that was copied or filled too early, as long as the
\* joins of lines 140-142 wait for the allocating threads, with any number of
\* multiplying threads.
THEOREM CopiesFresh == Spec => []CopiesAreFresh
<1>1. FreshInv => CopiesAreFresh
  BY DEF FreshInv
<1> QED  BY <1>1, FreshInductive, PTL

-----------------------------------------------------------------------------
\* The additions are finitely many, at most Terms of each thread.
LEMMA AdditionsFinite ==
    ASSUME FreshInv, LoopInv
    PROVE  /\ IsFiniteSet(Additions)
           /\ Cardinality(Additions) \in Nat
           /\ Cardinality(Additions) <= Threads * Terms
<1> DEFINE All == Multiplier \X (0 .. Terms - 1)
<1>1. \A t \in Multiplier : k[t] \in Nat /\ k[t] <= Terms
  BY TermsAssumption, ThreadFacts DEF FreshInv, TypeOK, LoopInv
<1>2. Additions \subseteq All
  BY <1>1, TermsAssumption DEF Additions
<1>3. IsFiniteSet(0 .. Terms - 1) /\ Cardinality(0 .. Terms - 1) = Terms
  <2>1. Terms \in Nat /\ Terms > 0 /\ Terms - 1 \in Int /\ 0 \in Int
    BY TermsAssumption
  <2> QED  BY <2>1, FS_Interval
<1>4. IsFiniteSet(All) /\ Cardinality(All) = Threads * Terms
  BY <1>3, MultiplierAssumption, FS_Product DEF Threads
<1> HIDE DEF All
<1> QED  BY <1>2, <1>4, FS_Subset, FS_CardinalityType

\* What a read and a write of the cell do, the rest of the thread's loop included.
LEMMA ReadStep ==
    ASSUME FreshInv, NEW t \in Thread, ThreadReadsCell(t)
    PROVE  /\ t \in Multiplier /\ tpc[t] = "work" /\ tpc' = tpc
           /\ k' = k /\ cell' = cell /\ z' = [z EXCEPT ![t] = cell] /\ cell \in Nat
<1>1. tpc' = [tpc EXCEPT ![t] = "work"] /\ tpc[t] = "work"
  BY DEF ThreadReadsCell, Works, Runs
<1> QED  BY <1>1 DEF ThreadReadsCell, FreshInv, TypeOK

LEMMA WriteStep ==
    ASSUME FreshInv, NEW t \in Thread, ThreadWritesCell(t)
    PROVE  /\ t \in Multiplier /\ tpc[t] = "work"
           /\ tpc' = [tpc EXCEPT ![t] = IF k[t] + 1 = Terms THEN "gone" ELSE "work"]
           /\ k[t] \in Nat /\ z[t] \in Nat
           /\ k' = [k EXCEPT ![t] = k[t] + 1] /\ cell' = z[t] + 1
           /\ z' = [z EXCEPT ![t] = -1]
<1>1. /\ tpc[t] = "work"
      /\ tpc' = [tpc EXCEPT ![t] = IF k[t] + 1 = Terms THEN "gone" ELSE "work"]
  BY DEF ThreadWritesCell, Works, Runs
<1> QED  BY <1>1 DEF ThreadWritesCell, FreshInv, TypeOK

\* No other step touches the loops of the multiplying threads, but for the one
\* with which such a thread gets from its detach to its loop.
LEMMA OtherSteps ==
    ASSUME FreshInv, [Next]_vars,
           \A t \in Thread : ~ ThreadReadsCell(t) /\ ~ ThreadWritesCell(t)
    PROVE  /\ UNCHANGED <<k, z, cell>>
           /\ \A t \in Multiplier : tpc'[t] = tpc[t] \/ (tpc[t] = "detach" /\ tpc'[t] = "work")
<1> USE DEF FreshInv, TypeOK
<1>1. CASE MainStep
  BY <1>1 DEF MainStep, MainCallsNext, MainCopies, MainCalls, MainCreate, MainJoinClaims,
     MainJoinReturns, Main, data
<1>2. ASSUME NEW t \in Thread, ThreadDetaches(t)
      PROVE  /\ UNCHANGED <<k, z, cell>>
             /\ \A u \in Multiplier : tpc'[u] = tpc[u] \/ (tpc[u] = "detach" /\ tpc'[u] = "work")
  BY <1>2, ThreadFacts DEF ThreadDetaches, ThreadDetach, Runs, data
<1>3. ASSUME NEW t \in Thread, ThreadAllocate(t) \/ ThreadFill(t)
      PROVE  /\ UNCHANGED <<k, z, cell>>
             /\ \A u \in Multiplier : tpc'[u] = tpc[u]
  BY <1>3, ThreadFacts DEF ThreadAllocate, ThreadFill, Works, Runs
<1>4. CASE UNCHANGED vars
  BY <1>4 DEF vars, data, forkJoinVars
<1> QED  BY <1>1, <1>2, <1>3, <1>4 DEF Next, ThreadStep

LEMMA ReadKeepsTerms ==
    ASSUME FreshInv, TermsInv, NEW t \in Thread, ThreadReadsCell(t)
    PROVE  TermsInv'
<1> USE DEF FreshInv, TypeOK, TermsInv
<1>1. /\ t \in Multiplier /\ tpc[t] = "work" /\ tpc' = tpc
      /\ k' = k /\ cell' = cell /\ z' = [z EXCEPT ![t] = cell] /\ cell \in Nat
  BY ReadStep
<1>2. LoopInv'
  BY <1>1 DEF LoopInv
<1>3. UpperInv'
  <2>1. Cardinality(Additions') = Cardinality(Additions)
    BY <1>1 DEF Additions
  <2> QED  BY <1>1, <2>1 DEF UpperInv
<1>4. LowerInv'
  BY <1>1 DEF LowerInv
<1> QED  BY <1>2, <1>3, <1>4

LEMMA WriteKeepsTerms ==
    ASSUME FreshInv, TermsInv, NEW t \in Thread, ThreadWritesCell(t)
    PROVE  TermsInv'
<1> USE DEF TermsInv
<1>1. /\ t \in Multiplier /\ tpc[t] = "work"
      /\ tpc' = [tpc EXCEPT ![t] = IF k[t] + 1 = Terms THEN "gone" ELSE "work"]
      /\ k[t] \in Nat /\ z[t] \in Nat
      /\ k' = [k EXCEPT ![t] = k[t] + 1] /\ cell' = z[t] + 1
      /\ z' = [z EXCEPT ![t] = -1]
  BY WriteStep
<1>2. /\ k'[t] = k[t] + 1 /\ z'[t] = -1
      /\ tpc'[t] = IF k[t] + 1 = Terms THEN "gone" ELSE "work"
      /\ \A u \in Multiplier :
            /\ k[u] \in Nat /\ z[u] \in Nat \cup {-1}
            /\ u # t => k'[u] = k[u] /\ z'[u] = z[u] /\ tpc'[u] = tpc[u]
  BY <1>1, ThreadFacts DEF FreshInv, TypeOK
<1>3. LoopInv'
  BY <1>1, <1>2, TermsAssumption DEF LoopInv
<1>4. UpperInv'
  <2> DEFINE Count == Cardinality(Additions)
             Later == Cardinality(Additions')
  <2>1. Additions' = Additions \cup {<<t, k[t]>>}
    <3>1. \A a \in Multiplier \X Nat :
            a[2] < k'[a[1]] <=> a[2] < k[a[1]] \/ a = <<t, k[t]>>
      BY <1>1, <1>2
    <3>2. <<t, k[t]>> \in Multiplier \X Nat
      BY <1>1
    <3> QED  BY <3>1, <3>2 DEF Additions
  <2>2. <<t, k[t]>> \notin Additions
    BY <1>1 DEF Additions
  <2>3. Count \in Nat /\ Later = Count + 1
    BY <2>1, <2>2, AdditionsFinite, FS_AddElement
  <2>4. z[t] <= Count /\ \A u \in Multiplier : z[u] <= Count
    BY <1>1 DEF UpperInv
  <2> HIDE DEF Count, Later
  <2>5. cell' <= Later
    BY <1>1, <2>3, <2>4
  <2>6. \A u \in Multiplier : z'[u] <= Later
    BY <1>1, <1>2, <2>3, <2>4
  <2> QED  BY <2>5, <2>6 DEF UpperInv, Later
<1>5. LowerInv'
  <2>1. cell' >= 1 /\ cell' \in Nat
    BY <1>1
  <2>2. \A u \in Multiplier : k'[u] > 0 /\ z'[u] # -1 => z'[u] >= 1
    BY <1>2 DEF LowerInv
  <2>3. ASSUME \A u \in Multiplier : k'[u] >= 2 PROVE cell' >= 2
    <3>1. k[t] > 0 /\ z[t] # -1
      BY <1>1, <1>2, <2>3
    <3> QED  BY <1>1, <3>1 DEF LowerInv
  <2> QED  BY <2>1, <2>2, <2>3 DEF LowerInv
<1> QED  BY <1>3, <1>4, <1>5

\* A thread that enters its loop has not run it; else nothing changes.
LEMMA OthersKeepTerms ==
    ASSUME FreshInv, TermsInv, [Next]_vars,
           \A t \in Thread : ~ ThreadReadsCell(t) /\ ~ ThreadWritesCell(t)
    PROVE  TermsInv'
<1> USE DEF TermsInv
<1>1. /\ UNCHANGED <<k, z, cell>>
      /\ \A t \in Multiplier : tpc'[t] = tpc[t] \/ (tpc[t] = "detach" /\ tpc'[t] = "work")
  BY OtherSteps
<1>2. LoopInv'
  BY <1>1, TermsAssumption DEF LoopInv
<1>3. UpperInv' /\ LowerInv'
  BY <1>1 DEF UpperInv, LowerInv, Additions
<1> QED  BY <1>2, <1>3

LEMMA TermsInductive == Spec => []TermsInv
<1>1. Init => TermsInv
  <2> SUFFICES ASSUME Init PROVE TermsInv
    OBVIOUS
  <2>1. /\ cell = 0 /\ k = [t \in Multiplier |-> 0] /\ z = [t \in Multiplier |-> -1]
        /\ tpc = [t \in Thread |-> "detach"]
    BY DEF Init, ForkJoin_Init
  <2>2. Additions = {}
    BY <2>1 DEF Additions
  <2>3. Cardinality(Additions) = 0
    BY <2>2, FS_EmptySet
  <2>4. LoopInv
    BY <2>1, ThreadFacts DEF LoopInv
  <2>5. UpperInv
    BY <2>1, <2>3 DEF UpperInv
  <2>6. LowerInv
    BY <2>1, MultiplierAssumption DEF LowerInv
  <2> QED  BY <2>4, <2>5, <2>6 DEF TermsInv
<1>2. FreshInv /\ TermsInv /\ [Next]_vars => TermsInv'
  BY ReadKeepsTerms, WriteKeepsTerms, OthersKeepTerms
<1> QED  BY <1>1, <1>2, FreshInductive, PTL DEF Spec

\* However the multiplying threads overwrite each other's additions (lines 59-69
\* take no lock), a cell ends with two terms at least and with those of every
\* thread at most, when all were waited for.
THEOREM LostUpdates == Spec => []LostUpdatesBounded
<1>1. FreshInv /\ TermsInv => LostUpdatesBounded
  <2> SUFFICES ASSUME FreshInv, TermsInv, EveryJoinWaits, Called(Program)
               PROVE  cell \in (IF Terms = 1 THEN 1 ELSE 2) .. Threads * Terms
    BY DEF LostUpdatesBounded, Threads
  <2>1. cell \in Nat /\ Threads \in Nat /\ Terms \in Nat \ {0}
    BY OrderFacts, TermsAssumption DEF FreshInv, TypeOK
  <2>2. \A t \in Multiplier : tpc[t] = "gone"
    <3>1. pc = Last + 1
      BY Calls DEF Called
    <3>2. \A t \in Multiplier : JoinAt[t] \in 1 .. Last /\ t \in Thread
      BY Places, ThreadFacts
    <3>3. \A t \in Multiplier : pc > JoinAt[t]
      <4>1. Last \in Nat
        BY OrderFacts DEF Last
      <4> QED  BY <3>1, <3>2, <4>1
    <3> QED  BY <3>2, <3>3 DEF FreshInv, Joined, EveryJoinWaits
  <2>3. \A t \in Multiplier : k[t] = Terms
    BY <2>2 DEF TermsInv, LoopInv
  <2>4. cell <= Threads * Terms
    <3>1. cell <= Cardinality(Additions)
      BY DEF TermsInv, UpperInv
    <3>2. Cardinality(Additions) \in Nat /\ Cardinality(Additions) <= Threads * Terms
      BY AdditionsFinite DEF TermsInv
    <3>3. Threads * Terms \in Nat
      BY <2>1
    <3> QED  BY <2>1, <3>1, <3>2, <3>3
  <2>5. cell >= 1
    BY <2>1, <2>3, MultiplierAssumption DEF TermsInv, LowerInv
  <2>6. Terms # 1 => cell >= 2
    BY <2>1, <2>3 DEF TermsInv, LowerInv
  <2>7. Threads * Terms \in Int
    BY <2>1
  <2> QED  BY <2>1, <2>4, <2>5, <2>6, <2>7
<1> QED  BY <1>1, FreshInductive, TermsInductive, PTL
=============================================================================
