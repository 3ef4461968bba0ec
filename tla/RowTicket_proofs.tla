-------------------------- MODULE RowTicket_proofs --------------------------
(***************************************************************************)
(* The rows of matrixMultiply_pthread_test.cpp have no gap and stay in the *)
(* matrix, a row taken by one thread alone is right, and one that several  *)
(* threads took holds two terms at least and no more than they added, for  *)
(* any number of threads and rows.                                         *)
(***************************************************************************)
EXTENDS RowTicket, FiniteSetTheorems, TLAPS

TypeInv ==
    /\ step_i \in Nat
    /\ pc \in [Thread -> {"create", "take", "advance", "read", "write", "done"}]
    /\ i \in [Thread -> Nat \cup {NoRow}]
    /\ \A t \in Working : i[t] \in Nat

\* Whatever the counter is, every row below it has an owner.
CounterInv == \A r \in 0 .. step_i - 1 : Owners(r) # {}

IInv == TypeInv /\ CounterInv /\ NoRowSkipped

\* A thread keeps the row it has taken.
LEMMA OwnersStay ==
    ASSUME TypeInv, NEW t \in Thread, NEW from, NEW to, Step(t, from, to),
           to \notin {"create", "take"},
           \/ i' = i
           \/ from = "take" /\ i' = [i EXCEPT ![t] = step_i]
    PROVE  /\ Working \subseteq Working'
           /\ Working' \subseteq Working \cup {t}
           /\ t \in Working'
           /\ \A u \in Working : i'[u] = i[u]
           /\ \A r : Owners(r) \subseteq Owners(r)'
<1>1. /\ pc[t] = from /\ pc'[t] = to
      /\ \A u \in Thread : u # t => pc'[u] = pc[u]
  BY DEF Step, TypeInv
<1>2. /\ Working \subseteq Working'
      /\ Working' \subseteq Working \cup {t}
      /\ t \in Working'
  BY <1>1 DEF Working
<1>3. ASSUME NEW u \in Working PROVE i'[u] = i[u]
  BY <1>1 DEF Working, TypeInv
<1> QED BY <1>2, <1>3 DEF Owners

LEMMA Preserved ==
    ASSUME IInv, [Next]_vars
    PROVE  IInv'
<1> USE DEF IInv
<1>1. ASSUME NEW t \in Thread, Create(t) PROVE IInv'
  <2>1. /\ UNCHANGED <<step_i, i>>
        /\ Working' = Working
        /\ pc' \in [Thread -> {"create", "take", "advance", "read", "write", "done"}]
    BY <1>1 DEF Create, Step, TypeInv, Working
  <2>2. \A r : Owners(r)' = Owners(r)
    BY <2>1 DEF Owners
  <2> QED BY <2>1, <2>2 DEF TypeInv, CounterInv, NoRowSkipped
<1>2. ASSUME NEW t \in Thread, TakeRow(t) PROVE IInv'
  <2>1. /\ Step(t, "take", "advance")
        /\ i' = [i EXCEPT ![t] = step_i]
        /\ step_i' = step_i
    BY <1>2 DEF TakeRow
  <2>2. /\ Working' \subseteq Working \cup {t}
        /\ \A u \in Working : i'[u] = i[u]
        /\ \A r : Owners(r) \subseteq Owners(r)'
    BY <2>1, OwnersStay
  <2>3. i'[t] = step_i /\ step_i \in Nat /\ i' \in [Thread -> Nat \cup {NoRow}]
    BY <2>1 DEF TypeInv
  <2>4. TypeInv'
    BY <2>1, <2>2, <2>3 DEF TypeInv, Step
  <2>5. CounterInv'
    BY <2>1, <2>2 DEF CounterInv
  <2>6. ASSUME NEW u \in Working', NEW r \in 0 .. i'[u] - 1
        PROVE  Owners(r)' # {}
    <3>1. CASE u = t
      BY <2>2, <2>3, <2>6, <3>1 DEF CounterInv
    <3>2. CASE u # t
      BY <2>2, <2>6, <3>2 DEF NoRowSkipped
    <3> QED BY <3>1, <3>2
  <2> QED BY <2>4, <2>5, <2>6 DEF NoRowSkipped
<1>3. ASSUME NEW t \in Thread, Advance(t) PROVE IInv'
  <2>1. /\ Step(t, "advance", "read")
        /\ step_i' = i[t] + 1
        /\ i' = i
    BY <1>3 DEF Advance
  <2>2. /\ Working' \subseteq Working \cup {t}
        /\ t \in Working /\ i[t] \in Nat
        /\ \A r : Owners(r) \subseteq Owners(r)'
    <3>1. t \in Working
      BY <2>1 DEF Step, Working
    <3> QED BY <2>1, <3>1, OwnersStay DEF TypeInv
  <2>3. TypeInv'
    BY <2>1, <2>2 DEF TypeInv, Step
  <2>4. ASSUME NEW r \in 0 .. step_i' - 1 PROVE Owners(r)' # {}
    <3>1. CASE r = i[t]
      BY <2>2, <3>1 DEF Owners
    <3>2. CASE r # i[t]
      BY <2>1, <2>2, <3>2 DEF NoRowSkipped
    <3> QED BY <3>1, <3>2
  <2>5. NoRowSkipped'
    BY <2>1, <2>2 DEF NoRowSkipped
  <2> QED BY <2>3, <2>4, <2>5 DEF CounterInv
<1>4. ASSUME NEW t \in Thread, ReadCell(t) \/ WriteCell(t) PROVE IInv'
  <2>1. /\ UNCHANGED <<step_i, i>>
        /\ \E from \in {"read", "write"}, to \in {"read", "write", "done"} :
              Step(t, from, to)
    BY <1>4 DEF ReadCell, WriteCell
  <2>2. /\ Working' = Working
        /\ pc' \in [Thread -> {"create", "take", "advance", "read", "write", "done"}]
    BY <2>1 DEF Step, TypeInv, Working
  <2>3. \A r : Owners(r)' = Owners(r)
    BY <2>1, <2>2 DEF Owners
  <2> QED BY <2>1, <2>2, <2>3 DEF TypeInv, CounterInv, NoRowSkipped
<1>5. ASSUME UNCHANGED vars PROVE IInv'
  <2>1. UNCHANGED <<step_i, pc, i>>
    BY <1>5 DEF vars
  <2>2. Working' = Working /\ \A r : Owners(r)' = Owners(r)
    BY <2>1 DEF Working, Owners
  <2> QED BY <2>1, <2>2 DEF TypeInv, CounterInv, NoRowSkipped
<1> QED BY <1>1, <1>2, <1>3, <1>4, <1>5 DEF Next, ThreadStep

LEMMA Inductive == Spec => []IInv
<1>1. Init => IInv
  BY DEF Init, IInv, TypeInv, CounterInv, NoRowSkipped, Working
<1>2. IInv /\ [Next]_vars => IInv'
  BY Preserved
<1> QED BY <1>1, <1>2, PTL DEF Spec

\* The rows taken from the unlocked counter have no gap.
THEOREM NoGaps == Spec => []NoRowSkipped
<1>1. IInv => NoRowSkipped
  BY DEF IInv
<1> QED BY <1>1, Inductive, PTL

\* No thread leaves matC: the rows up to its own have different owners, so its
\* row is less than the number of threads, which is at most MAX.
THEOREM InBounds == Spec => []RowsInBounds
<1>1. IInv => RowsInBounds
  <2> SUFFICES ASSUME IInv, NEW t \in Working
               PROVE  i[t] \in Row
    BY DEF RowsInBounds
  <2>1. i[t] \in Nat /\ t \in Thread
    BY DEF IInv, TypeInv, Working
  <2>2. ASSUME NEW r \in 0 .. i[t] PROVE Owners(r) # {}
    BY <2>1 DEF IInv, NoRowSkipped, Owners
  <2> DEFINE owner == [r \in 0 .. i[t] |-> CHOOSE u \in Thread : u \in Owners(r)]
  <2>3. ASSUME NEW r \in 0 .. i[t]
        PROVE  owner[r] \in Thread /\ i[owner[r]] = r
    BY <2>2 DEF Owners, Working
  <2>4. owner \in Injection(0 .. i[t], Thread)
    BY <2>3 DEF Injection, IsInjective
  <2>5. IsFiniteSet(0 .. i[t]) /\ Cardinality(0 .. i[t]) = i[t] + 1
    BY <2>1, FS_Interval
  <2>6. Cardinality(0 .. i[t]) <= Cardinality(Thread)
    BY <2>4, ThreadAssumption, FS_Injection
  <2>7. Cardinality(Thread) \in Nat
    BY ThreadAssumption, FS_CardinalityType
  <2> QED BY <2>1, <2>5, <2>6, <2>7, MAXAssumption DEF Row
<1> QED BY <1>1, Inductive, PTL

-----------------------------------------------------------------------------
\* How far a thread is in its loop over the terms.
LoopInv ==
    /\ k \in [Thread -> Nat]
    /\ cell \in [Thread -> Nat]
    /\ matC \in [Row -> Nat]
    /\ \A t \in Thread :
         /\ pc[t] \in {"create", "take", "advance"} => k[t] = 0
         /\ pc[t] \in {"read", "write"} => k[t] < MAX
         /\ pc[t] = "done" => k[t] = MAX

Alone(t) == \A u \in Working : i[u] = i[t] => u = t

\* A row without an owner is untouched, and one with a single owner holds the
\* terms that owner has added.
RowsInv ==
    \A r \in Row :
        /\ (\A t \in Working : i[t] # r) => matC[r] = 0
        /\ \A t \in Working : i[t] = r /\ Alone(t) =>
              matC[r] = k[t] /\ (pc[t] = "write" => cell[t] = k[t])

SoleInv == LoopInv /\ RowsInv

LEMMA SoleInit == Init => SoleInv
BY MAXAssumption DEF Init, SoleInv, LoopInv, RowsInv, Working, Row

\* Each step of a thread keeps its loop, ...
LEMMA LoopPreserved ==
    ASSUME IInv, RowsInBounds, LoopInv, NEW t \in Thread, ThreadStep(t)
    PROVE  LoopInv'
<1> USE MAXAssumption DEF IInv, TypeInv, LoopInv, Step
<1>1. CASE Create(t)
  BY <1>1 DEF Create
<1>2. CASE TakeRow(t)
  BY <1>2 DEF TakeRow
<1>3. CASE Advance(t)
  BY <1>3 DEF Advance
<1>4. CASE ReadCell(t)
  <2>1. i[t] \in Row
    BY <1>4 DEF ReadCell, RowsInBounds, Working
  <2> QED  BY <1>4, <2>1 DEF ReadCell
<1>5. CASE WriteCell(t)
  <2>1. /\ pc[t] = "write" /\ k[t] < MAX
        /\ pc' = [pc EXCEPT ![t] = IF k[t] + 1 < MAX THEN "read" ELSE "done"]
        /\ k' = [k EXCEPT ![t] = k[t] + 1]
    BY <1>5 DEF WriteCell
  <2>2. /\ k' \in [Thread -> Nat]
        /\ \A u \in Thread : u # t => k'[u] = k[u] /\ pc'[u] = pc[u]
        /\ k'[t] = k[t] + 1
        /\ pc'[t] = IF k[t] + 1 < MAX THEN "read" ELSE "done"
    BY <2>1
  <2>3. cell' \in [Thread -> Nat] /\ matC' \in [Row -> Nat]
    <3>1. cell' = cell /\ matC' = [matC EXCEPT ![i[t]] = cell[t] + 1]
      BY <1>5 DEF WriteCell
    <3>2. cell[t] + 1 \in Nat
      OBVIOUS
    <3> QED  BY <3>1, <3>2
  <2> QED  BY <2>1, <2>2, <2>3
<1> QED  BY <1>1, <1>2, <1>3, <1>4, <1>5 DEF ThreadStep

\* ... and the rows.
LEMMA RowsPreserved ==
    ASSUME IInv, LoopInv, RowsInv, NEW t \in Thread, ThreadStep(t)
    PROVE  RowsInv'
<1> USE DEF IInv, TypeInv, LoopInv, RowsInv, Alone, Step, Working
<1>1. CASE Create(t)
  BY <1>1 DEF Create
<1>2. CASE TakeRow(t)
  BY <1>2 DEF TakeRow
<1>3. CASE Advance(t)
  BY <1>3 DEF Advance
<1>4. CASE ReadCell(t)
  BY <1>4 DEF ReadCell
<1>5. CASE WriteCell(t)
  BY <1>5 DEF WriteCell
<1> QED  BY <1>1, <1>2, <1>3, <1>4, <1>5 DEF ThreadStep

LEMMA SoleInductive == Spec => []SoleInv
<1>1. IInv /\ RowsInBounds /\ SoleInv /\ [Next]_vars => SoleInv'
  <2> SUFFICES ASSUME IInv, RowsInBounds, SoleInv, [Next]_vars
               PROVE  SoleInv'
    OBVIOUS
  <2>1. ASSUME NEW t \in Thread, ThreadStep(t) PROVE SoleInv'
    BY <2>1, LoopPreserved, RowsPreserved DEF SoleInv
  <2>2. CASE UNCHANGED vars
    BY <2>2 DEF vars, SoleInv, LoopInv, RowsInv, Alone, Working
  <2> QED  BY <2>1, <2>2 DEF Next
<1> QED  BY <1>1, SoleInit, Inductive, InBounds, PTL DEF Spec

\* When all threads have been joined, a row that one thread took is complete and
\* one that none took is untouched, whatever was lost on other rows (lines 34-38).
THEOREM SoleOwnersRight == Spec => []SoleOwnerRowsRight
<1>1. SoleInv => SoleOwnerRowsRight
  <2> SUFFICES ASSUME SoleInv, Joined, NEW r \in Row
               PROVE  /\ Cardinality(Owners(r)) = 1 => matC[r] = MAX
                      /\ Owners(r) = {} => matC[r] = 0
    BY DEF SoleOwnerRowsRight
  <2>1. ASSUME Cardinality(Owners(r)) = 1 PROVE matC[r] = MAX
    <3>1. IsFiniteSet(Owners(r))
      BY ThreadAssumption, FS_Subset DEF Owners, Working
    <3>2. PICK t : Owners(r) = {t}
      BY <2>1, <3>1, FS_Singleton
    <3>3. t \in Working /\ i[t] = r /\ Alone(t)
      BY <3>2 DEF Owners, Alone
    <3>4. k[t] = MAX
      BY <3>3 DEF Joined, SoleInv, LoopInv, Working
    <3> QED  BY <3>3, <3>4 DEF SoleInv, RowsInv
  <2>2. Owners(r) = {} => matC[r] = 0
    BY DEF Owners, SoleInv, RowsInv
  <2> QED  BY <2>1, <2>2
<1> QED  BY <1>1, SoleInductive, PTL

-----------------------------------------------------------------------------
\* The additions to row r: each is a thread and the number of its turn.
Additions(r) == {a \in Thread \X Nat : a[1] \in Owners(r) /\ a[2] < k[a[1]]}

\* A cell never holds more terms than were added, nor does a thread that read it.
UpperInv ==
    \A r \in Row :
        /\ matC[r] <= Cardinality(Additions(r))
        /\ \A t \in Thread : pc[t] = "write" /\ i[t] = r =>
              cell[t] <= Cardinality(Additions(r))

\* A row that was written holds a term, a thread in its second turn or later has
\* read one, and a row whose owners have all written twice holds two.
LowerInv ==
    /\ \A t \in Working : k[t] > 0 => matC[i[t]] >= 1
    /\ \A t \in Working : pc[t] = "write" /\ k[t] > 0 => cell[t] >= 1
    /\ \A t \in Working : (\A u \in Working : i[u] = i[t] => k[u] >= 2) => matC[i[t]] >= 2

LEMMA LowerPreserved ==
    ASSUME IInv, RowsInBounds, RowsInBounds', LoopInv, LowerInv, NEW t \in Thread, ThreadStep(t)
    PROVE  LowerInv'
<1> USE DEF IInv, TypeInv, LoopInv, LowerInv, RowsInBounds, Step, Working
<1>1. CASE Create(t)
  BY <1>1 DEF Create
<1>2. CASE TakeRow(t)
  BY <1>2 DEF TakeRow
<1>3. CASE Advance(t)
  BY <1>3 DEF Advance
<1>4. CASE ReadCell(t)
  BY <1>4 DEF ReadCell
<1>5. CASE WriteCell(t)
  BY <1>5 DEF WriteCell
<1> QED  BY <1>1, <1>2, <1>3, <1>4, <1>5 DEF ThreadStep

\* The additions to a row are finitely many, at most MAX of each owner.
LEMMA AdditionsFinite ==
    ASSUME IInv, LoopInv, NEW r
    PROVE  /\ IsFiniteSet(Additions(r))
           /\ Cardinality(Additions(r)) \in Nat
           /\ Cardinality(Additions(r)) <= Cardinality(Owners(r)) * MAX
<1> DEFINE All == Owners(r) \X (0 .. MAX - 1)
<1>1. \A t \in Thread : k[t] \in Nat /\ k[t] <= MAX
  BY MAXAssumption DEF IInv, TypeInv, LoopInv
<1>2. Additions(r) \subseteq All
  BY <1>1, MAXAssumption DEF Additions, Owners, Working
<1>3. IsFiniteSet(Owners(r))
  BY ThreadAssumption, FS_Subset DEF Owners, Working
<1>4. IsFiniteSet(0 .. MAX - 1) /\ Cardinality(0 .. MAX - 1) = MAX
  <2>1. MAX \in Nat /\ MAX > 0 /\ MAX - 1 \in Int /\ 0 \in Int
    BY MAXAssumption
  <2> QED  BY <2>1, FS_Interval
<1>5. IsFiniteSet(All) /\ Cardinality(All) = Cardinality(Owners(r)) * MAX
  BY <1>3, <1>4, FS_Product
<1> HIDE DEF All
<1> QED  BY <1>2, <1>5, FS_Subset, FS_CardinalityType

\* The only step that adds to a row is the write of a thread to its own row.
LEMMA AdditionsStay ==
    ASSUME IInv, LoopInv, NEW t \in Thread, ThreadStep(t), ~ WriteCell(t), NEW r
    PROVE  Additions(r)' = Additions(r)
<1> USE DEF IInv, TypeInv, LoopInv, Step, Working, Owners, Additions
<1>1. CASE Create(t)
  BY <1>1 DEF Create
<1>2. CASE TakeRow(t)
  BY <1>2 DEF TakeRow
<1>3. CASE Advance(t)
  BY <1>3 DEF Advance
<1>4. CASE ReadCell(t)
  BY <1>4 DEF ReadCell
<1> QED  BY <1>1, <1>2, <1>3, <1>4 DEF ThreadStep

LEMMA AdditionsGrow ==
    ASSUME IInv, LoopInv, NEW t \in Thread, WriteCell(t)
    PROVE  /\ \A r : r # i[t] => Additions(r)' = Additions(r)
           /\ \A r : r = i[t] => Additions(r)' = Additions(r) \cup {<<t, k[t]>>}
           /\ <<t, k[t]>> \notin Additions(i[t])
<1>1. /\ pc[t] = "write" /\ UNCHANGED i
      /\ \A u \in Thread : u # t => k'[u] = k[u]
      /\ k'[t] = k[t] + 1 /\ k[t] \in Nat
      /\ Working' = Working /\ t \in Working
  BY DEF WriteCell, Step, Working, IInv, TypeInv, LoopInv
<1>2. \A r : Owners(r)' = Owners(r)
  BY <1>1 DEF Owners
<1>3. ASSUME NEW r, r # i[t] PROVE Additions(r)' = Additions(r)
  <2>1. \A a \in Thread \X Nat : a[1] \in Owners(r) => k'[a[1]] = k[a[1]]
    BY <1>1, <1>3 DEF Owners
  <2> QED  BY <2>1, <1>2 DEF Additions
<1>4. ASSUME NEW r, r = i[t] PROVE Additions(r)' = Additions(r) \cup {<<t, k[t]>>}
  <2>1. t \in Owners(r)
    BY <1>1, <1>4 DEF Owners
  <2>2. \A a \in Thread \X Nat :
           a[2] < k'[a[1]] <=> a[2] < k[a[1]] \/ a = <<t, k[t]>>
    BY <1>1 DEF LoopInv
  <2>3. <<t, k[t]>> \in Thread \X Nat /\ <<t, k[t]>>[1] = t
    BY <1>1
  <2> QED  BY <2>1, <2>2, <2>3, <1>2 DEF Additions
<1>5. <<t, k[t]>> \notin Additions(i[t])
  BY <1>1 DEF Additions
<1> QED  BY <1>3, <1>4, <1>5

LEMMA UpperPreserved ==
    ASSUME IInv, RowsInBounds, LoopInv, UpperInv, NEW t \in Thread, ThreadStep(t)
    PROVE  UpperInv'
<1> SUFFICES ASSUME NEW r \in Row
             PROVE  /\ matC'[r] <= Cardinality(Additions(r)')
                    /\ \A u \in Thread : pc'[u] = "write" /\ i'[u] = r =>
                          cell'[u] <= Cardinality(Additions(r)')
  BY DEF UpperInv
<1> DEFINE Count == Cardinality(Additions(r))
           Later == Cardinality(Additions(r)')
<1>a. Count \in Nat /\ IsFiniteSet(Additions(r))
  BY AdditionsFinite
<1>b. /\ matC[r] \in Nat /\ matC[r] <= Count
      /\ \A u \in Thread : cell[u] \in Nat
      /\ \A u \in Thread : pc[u] = "write" /\ i[u] = r => cell[u] <= Count
  BY DEF UpperInv, LoopInv
<1>1. CASE ~ WriteCell(t)
  <2>1. Later = Count
    BY <1>1, AdditionsStay
  <2>2. matC' = matC
    BY <1>1 DEF ThreadStep, Create, TakeRow, Advance, ReadCell
  <2>3. ASSUME NEW u \in Thread, pc'[u] = "write", i'[u] = r
        PROVE  cell'[u] <= Count
    <3>1. CASE ReadCell(t) /\ u = t
      <4>1. cell'[t] = matC[r]
        BY <2>3, <3>1 DEF ReadCell, LoopInv
      <4> QED  BY <4>1, <3>1, <1>b
    <3>2. CASE ~ (ReadCell(t) /\ u = t)
      <4>1. pc[u] = "write" /\ cell'[u] = cell[u] /\ i'[u] = i[u]
        BY <2>3, <3>2, <1>1 DEF ThreadStep, Create, TakeRow, Advance, ReadCell, Step, IInv, TypeInv, LoopInv
      <4> QED  BY <4>1, <2>3, <1>b
    <3> QED  BY <3>1, <3>2
  <2> QED  BY <2>1, <2>2, <2>3, <1>b
<1>2. CASE WriteCell(t)
  <2>1. /\ pc[t] = "write" /\ i' = i /\ cell' = cell
        /\ matC' = [matC EXCEPT ![i[t]] = cell[t] + 1]
        /\ \A u \in Thread : u # t => pc'[u] = pc[u]
        /\ pc'[t] # "write" \/ pc'[t] = pc[t]
    BY <1>2 DEF WriteCell, Step, IInv, TypeInv
  <2>2. CASE r = i[t]
    <3>1. Later = Count + 1
      <4>1. /\ Additions(r)' = Additions(r) \cup {<<t, k[t]>>}
            /\ <<t, k[t]>> \notin Additions(r)
        BY <2>2, <1>2, AdditionsGrow
      <4> QED  BY <4>1, <1>a, FS_AddElement
    <3>2. matC'[r] = cell[t] + 1
      BY <2>1, <2>2 DEF LoopInv
    <3>3. \A u \in Thread : pc'[u] = "write" /\ i'[u] = r => pc[u] = "write" /\ i[u] = r
      BY <2>1
    <3> QED  BY <3>1, <3>2, <3>3, <2>1, <2>2, <1>a, <1>b
  <2>3. CASE r # i[t]
    <3>1. Later = Count
      BY <2>3, <1>2, AdditionsGrow
    <3>2. matC'[r] = matC[r]
      BY <2>1, <2>3 DEF LoopInv
    <3>3. \A u \in Thread : pc'[u] = "write" /\ i'[u] = r => pc[u] = "write" /\ i[u] = r
      BY <2>1
    <3> QED  BY <3>1, <3>2, <3>3, <2>1, <1>a, <1>b
  <2> QED  BY <2>2, <2>3
<1> QED  BY <1>1, <1>2

\* Threads on one row lose additions of each other, but a row that is taken ends
\* with two terms at least, and with at most one product of each of its owners
\* (lines 34-38).
THEOREM SharedRowsKeepTwo == Spec => []SharedRowsBounded
<1>1. Init => UpperInv /\ LowerInv
  <2>1. ASSUME Init, NEW r \in Row PROVE matC[r] <= Cardinality(Additions(r))
    <3>1. matC[r] = 0 /\ Additions(r) = {}
      BY <2>1 DEF Init, Additions
    <3> QED  BY <3>1, FS_EmptySet
  <2> QED  BY <2>1 DEF Init, UpperInv, LowerInv, Working
<1>2. IInv /\ RowsInBounds /\ RowsInBounds' /\ SoleInv /\ UpperInv /\ LowerInv /\ [Next]_vars
        => UpperInv' /\ LowerInv'
  <2> SUFFICES ASSUME IInv, RowsInBounds, RowsInBounds', SoleInv, UpperInv, LowerInv, [Next]_vars
               PROVE  UpperInv' /\ LowerInv'
    OBVIOUS
  <2>1. ASSUME NEW t \in Thread, ThreadStep(t) PROVE UpperInv' /\ LowerInv'
    BY <2>1, UpperPreserved, LowerPreserved DEF SoleInv
  <2>2. CASE UNCHANGED vars
    BY <2>2 DEF vars, UpperInv, LowerInv, Additions, Owners, Working
  <2> QED  BY <2>1, <2>2 DEF Next
<1>3. IInv /\ SoleInv /\ UpperInv /\ LowerInv => SharedRowsBounded
  <2> SUFFICES ASSUME IInv, LoopInv, UpperInv, LowerInv, Joined, MAX > 1,
                      NEW r \in Row, Owners(r) # {}
               PROVE  matC[r] \in 2 .. Cardinality(Owners(r)) * MAX
    BY DEF SharedRowsBounded, SoleInv
  <2>1. matC[r] \in Nat /\ Cardinality(Owners(r)) \in Nat
    BY ThreadAssumption, FS_Subset, FS_CardinalityType DEF LoopInv, Owners, Working
  <2>2. matC[r] <= Cardinality(Owners(r)) * MAX
    BY <2>1, AdditionsFinite, MAXAssumption DEF UpperInv
  <2>3. matC[r] >= 2
    <3>1. PICK t \in Working : i[t] = r
      BY DEF Owners
    <3>2. \A u \in Working : k[u] >= 2
      BY MAXAssumption DEF Joined, LoopInv, Working
    <3> QED  BY <3>1, <3>2 DEF LowerInv
  <2> QED  BY <2>1, <2>2, <2>3, MAXAssumption
<1>4. Spec => []SoleInv
  BY SoleInductive
<1> QED  BY <1>1, <1>2, <1>3, <1>4, Inductive, InBounds, PTL DEF Spec
=============================================================================
