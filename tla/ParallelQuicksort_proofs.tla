---------------------- MODULE ParallelQuicksort_proofs ----------------------
(***************************************************************************)
(* Sorting by segments leaves a sorted array: the segments stay apart, and *)
(* two elements are out of order only inside one of them.  The parallel    *)
(* quicksorts sort by segments, for every size, every values and every     *)
(* schedule of the sections, so the array is sorted when the first call    *)
(* returns.                                                                *)
(***************************************************************************)
EXTENDS ParallelQuicksort, TLAPS

Safety == Init /\ [][Next]_vars

TypeOK ==
    /\ program \in Sources
    /\ array \in [Index -> Int]
    /\ pc \in [Call -> {"none", "called", "loop", "sections", "done"}]
    /\ pivot \in [Call -> Int]
    /\ store \in [Call -> Int]
    /\ scan \in [Call -> Int]
    /\ index \in [Call -> Int]

\* The elements compared with the pivot are those of Base(c) + 1 .. Last(c).
Base(c) == IF program = "quicksort_parallel" THEN c[1] - 1 ELSE c[1]
Last(c) == IF program = "quicksort_parallel" THEN c[2] - 1 ELSE c[2]

\* In the loop of a partition, what has been scanned is smaller than the pivot
\* up to store and not smaller behind it, and the pivot is in its place.
Loop(c) ==
    /\ Base(c) <= store[c] /\ store[c] < scan[c] /\ scan[c] <= Last(c) + 1
    /\ \A x \in Base(c) + 1 .. store[c] : array[x] < pivot[c]
    /\ \A x \in store[c] + 1 .. scan[c] - 1 : pivot[c] <= array[x]
    /\ array[PivotAt(c)] = pivot[c]

Loops == \A c \in Call : pc[c] = "loop" => Loop(c)

\* What is unsorted inside a call whose sections are open is in its halves, and
\* nothing is unsorted inside a call that has returned.
Opened ==
    \A c \in Call : pc[c] = "sections" =>
        /\ index[c] \in Within(c)
        /\ \A u \in Unsorted : \/ Within(u) \cap Within(c) = {}
                               \/ Within(u) \subseteq Within(Left(c))
                               \/ Within(u) \subseteq Within(Right(c))

Closed ==
    \A c \in Call : pc[c] = "done" =>
        /\ index[c] \in Within(c)
        /\ \A u \in Unsorted : Within(u) \cap Within(c) = {}

\* Segments that are still to be sorted have no position in common, ...
Apart == \A u, v \in Unsorted : u # v => Within(u) \cap Within(v) = {}

\* ... and two positions of a are in order, or wait in one segment of S.
OrderedBut(a, S) ==
    \A x, y \in Index : x < y =>
        a[x] <= a[y] \/ \E u \in S : x \in Within(u) /\ y \in Within(u)

SortInv == array \in [Index -> Int] /\ Apart /\ OrderedBut(array, Unsorted)

IInv == TypeOK /\ Loops /\ Opened /\ Closed /\ SortInv
-----------------------------------------------------------------------------
\* The range of a call, its pivot and the elements compared with it.
LEMMA Range ==
    ASSUME NEW c \in Call
    PROVE  /\ c \in Int \X Int /\ c = <<c[1], c[2]>>
           /\ c[1] \in Int /\ c[2] \in Int /\ c[1] < c[2]
           /\ Within(c) \subseteq Index /\ Within(c) # {}
           /\ Index \subseteq Int
           /\ PivotAt(c) \in Within(c)
           /\ Base(c) \in Int /\ Last(c) \in Int
           /\ Base(c) + 1 .. Last(c) \subseteq Within(c)
           /\ PivotAt(c) \notin Base(c) + 1 .. Last(c)
  <1>1. /\ c \in Index \X Index /\ c[1] \in Index /\ c[2] \in Index
        /\ c[1] < c[2] /\ c = <<c[1], c[2]>>
    BY DEF Call
  <1>2. Index = 0 .. N - 1 /\ N \in Int
    BY NAssumption DEF Index
  <1> QED  BY <1>1, <1>2 DEF Within, PivotAt, Base, Last

-----------------------------------------------------------------------------
\* An exchange inside a segment puts nothing out of order that was in order.
LEMMA ExchangeInside ==
    ASSUME SortInv, NEW s \in Unsorted, NEW u \in Within(s), NEW v \in Within(s),
           Segments!Exchange(u, v)
    PROVE  /\ array' \in [Index -> Int]
           /\ OrderedBut(array', Unsorted)
  <1>1. /\ s \in Call /\ s[1] \in Int /\ s[2] \in Int
        /\ Within(s) \subseteq Index
        /\ array \in [Index -> Int]
        /\ Index \subseteq Int
    BY Range DEF SortInv, Unsorted
  <1>2. array' = [array EXCEPT ![u] = array[v], ![v] = array[u]]
    BY DEF Segments!Exchange
  <1>3. array' \in [Index -> Int]
    BY <1>1, <1>2
  <1>4. \A x \in Index \ Within(s) : array'[x] = array[x]
    BY <1>1, <1>2
  <1>5. \A x \in Within(s) : \E w \in Within(s) : array'[x] = array[w]
    BY <1>1, <1>2
  <1>6. ASSUME NEW x \in Within(s), NEW y \in Index \ Within(s)
        PROVE  ~ \E t \in Unsorted : x \in Within(t) /\ y \in Within(t)
    BY <1>6 DEF SortInv, Apart
  <1>7. OrderedBut(array', Unsorted)
    <2> SUFFICES ASSUME NEW x \in Index, NEW y \in Index, x < y,
                        ~ \E t \in Unsorted : x \in Within(t) /\ y \in Within(t)
                 PROVE  array'[x] <= array'[y]
      BY DEF OrderedBut
    <2>1. CASE x \in Within(s) /\ y \in Within(s)
      BY <2>1
    <2>2. CASE x \in Within(s) /\ y \notin Within(s)
      <3>1. PICK w \in Within(s) : array'[x] = array[w]
        BY <2>2, <1>5
      <3>2. w < y
        BY <1>1, <2>2 DEF Within
      <3>3. array[w] <= array[y]
        BY <1>1, <1>6, <2>2, <3>2 DEF SortInv, OrderedBut
      <3> QED  BY <1>4, <2>2, <3>1, <3>3
    <2>3. CASE x \notin Within(s) /\ y \in Within(s)
      <3>1. PICK w \in Within(s) : array'[y] = array[w]
        BY <2>3, <1>5
      <3>2. x < w
        BY <1>1, <2>3 DEF Within
      <3>3. array[x] <= array[w]
        BY <1>1, <1>6, <2>3, <3>2 DEF SortInv, OrderedBut
      <3> QED  BY <1>4, <2>3, <3>1, <3>3
    <2>4. CASE x \notin Within(s) /\ y \notin Within(s)
      BY <1>4, <2>4 DEF SortInv, OrderedBut
    <2> QED  BY <2>1, <2>2, <2>3, <2>4
  <1> QED  BY <1>3, <1>7

\* A split at p leaves two elements out of order only inside the halves.
LEMMA SplitOrders ==
    ASSUME NEW s \in Unsorted, NEW p \in Within(s),
           NEW a \in [Index -> Int], OrderedBut(a, Unsorted), Segments!SplitsAt(a, s, p)
    PROVE  OrderedBut(a, (Unsorted \ {s}) \cup {h \in Segments!Halves(s, p) : Segments!Long(h)})
  <1> DEFINE T == (Unsorted \ {s}) \cup {h \in Segments!Halves(s, p) : Segments!Long(h)}
  <1>1. s[1] \in Int /\ s[2] \in Int /\ p \in Index /\ p \in Int /\ Index \subseteq Int
    BY Range DEF Unsorted
  <1> SUFFICES ASSUME NEW x \in Index, NEW y \in Index, x < y, ~ (a[x] <= a[y])
               PROVE  \E t \in T : x \in Within(t) /\ y \in Within(t)
    BY DEF OrderedBut
  <1>2. PICK t \in Unsorted : x \in Within(t) /\ y \in Within(t)
    BY DEF OrderedBut
  <1>3. CASE t # s
    BY <1>2, <1>3
  <1>4. CASE t = s
    <2>1. x \in s[1] .. s[2] /\ y \in s[1] .. s[2]
      BY <1>2, <1>4 DEF Within
    <2>2. a[x] \in Int /\ a[y] \in Int /\ a[p] \in Int
      BY <1>1
    <2>3. y < p \/ p < x
      <3>1. ASSUME ~ (y < p), ~ (p < x)  PROVE FALSE
        <4>1. x \in s[1] .. p - 1 \/ x = p
          BY <1>1, <2>1, <3>1
        <4>2. y \in p + 1 .. s[2] \/ y = p
          BY <1>1, <2>1, <3>1
        <4>3. a[x] <= a[p]
          BY <2>2, <4>1 DEF Segments!SplitsAt
        <4>4. a[p] <= a[y]
          BY <2>2, <4>2 DEF Segments!SplitsAt
        <4> QED  BY <2>2, <4>3, <4>4
      <3> QED  BY <3>1
    <2>4. CASE y < p
      <3> DEFINE h == <<s[1], p - 1>>
      <3>1. Segments!Long(h) /\ x \in Within(h) /\ y \in Within(h)
        BY <1>1, <2>1, <2>4 DEF Segments!Long, Within
      <3>2. h \in T
        BY <3>1 DEF Segments!Halves
      <3> QED  BY <3>1, <3>2
    <2>5. CASE p < x
      <3> DEFINE h == <<p + 1, s[2]>>
      <3>1. Segments!Long(h) /\ x \in Within(h) /\ y \in Within(h)
        BY <1>1, <2>1, <2>5 DEF Segments!Long, Within
      <3>2. h \in T
        BY <3>1 DEF Segments!Halves
      <3> QED  BY <3>1, <3>2
    <2> QED  BY <2>3, <2>4, <2>5
  <1> QED  BY <1>3, <1>4

\* The halves of a segment are inside it and apart from each other.
LEMMA HalvesApart ==
    ASSUME NEW s \in Unsorted, NEW p \in Within(s)
    PROVE  /\ \A h \in Segments!Halves(s, p) : Within(h) \subseteq Within(s)
           /\ \A h, k \in Segments!Halves(s, p) : h # k => Within(h) \cap Within(k) = {}
  <1>1. s[1] \in Int /\ s[2] \in Int /\ p \in Int /\ p \in s[1] .. s[2]
    BY Range DEF Unsorted, Within
  <1>2. Within(<<s[1], p - 1>>) = s[1] .. p - 1
    BY DEF Within
  <1>3. Within(<<p + 1, s[2]>>) = p + 1 .. s[2]
    BY DEF Within
  <1>4. /\ s[1] .. p - 1 \subseteq s[1] .. s[2]
        /\ p + 1 .. s[2] \subseteq s[1] .. s[2]
        /\ (s[1] .. p - 1) \cap (p + 1 .. s[2]) = {}
    BY <1>1
  <1> QED  BY <1>2, <1>3, <1>4 DEF Segments!Halves, Within

LEMMA SortInitially == Segments!Init => SortInv
  <1> SUFFICES ASSUME Segments!Init PROVE SortInv
    OBVIOUS
  <1>1. array \in [Index -> Int]
    BY ValueAssumption DEF Segments!Init, Segments!Index, Index
  <1>2. CASE N > 1
    <2>1. Unsorted = {<<0, N - 1>>}
      BY <1>2 DEF Segments!Init
    <2>2. \A x \in Index : x \in Within(<<0, N - 1>>)
      BY NAssumption DEF Index, Within
    <2> QED  BY <1>1, <2>1, <2>2 DEF SortInv, Apart, OrderedBut
  <1>3. CASE ~ (N > 1)
    <2>1. Unsorted = {}
      BY <1>3 DEF Segments!Init
    <2>2. \A x, y \in Index : ~ (x < y)
      BY <1>3, NAssumption DEF Index
    <2> QED  BY <1>1, <2>1, <2>2 DEF SortInv, Apart, OrderedBut
  <1> QED  BY <1>2, <1>3

LEMMA SortStepwise == SortInv /\ [Segments!Next]_(Segments!vars) => SortInv'
  <1> SUFFICES ASSUME SortInv, [Segments!Next]_(Segments!vars) PROVE SortInv'
    OBVIOUS
  <1>1. CASE Segments!Rearrange
    <2>1. PICK s \in Unsorted : \E u, v \in Within(s) : Segments!Exchange(u, v)
      BY <1>1 DEF Segments!Rearrange, Segments!Within, Within
    <2>2. array' \in [Index -> Int] /\ OrderedBut(array', Unsorted)
      BY <2>1, ExchangeInside
    <2>3. Unsorted' = Unsorted
      BY <1>1 DEF Segments!Rearrange
    <2> QED  BY <2>2, <2>3 DEF SortInv, Apart, OrderedBut, Within
  <1>2. CASE Segments!Split
    <2>0. PICK s \in Unsorted :
            \E u, v, p \in Within(s) :
               /\ Segments!Exchange(u, v)
               /\ Segments!SplitsAt(array', s, p)
               /\ Unsorted' = (Unsorted \ {s})
                                \cup {h \in Segments!Halves(s, p) : Segments!Long(h)}
      BY <1>2 DEF Segments!Split, Segments!Within, Within
    <2>1. PICK u, v, p \in Within(s) :
               /\ Segments!Exchange(u, v)
               /\ Segments!SplitsAt(array', s, p)
               /\ Unsorted' = (Unsorted \ {s})
                                \cup {h \in Segments!Halves(s, p) : Segments!Long(h)}
      BY <2>0
    <2>2. array' \in [Index -> Int] /\ OrderedBut(array', Unsorted)
      BY <2>1, ExchangeInside
    <2>3. OrderedBut(array', Unsorted')
      BY <2>1, <2>2, SplitOrders
    <2>4. Apart'
      <3> SUFFICES ASSUME NEW t \in Unsorted', NEW r \in Unsorted', t # r
                   PROVE  Within(t) \cap Within(r) = {}
        BY DEF Apart, Within
      <3>1. CASE t \in Unsorted \ {s} /\ r \in Unsorted \ {s}
        BY <3>1 DEF SortInv, Apart
      <3>2. CASE t \in Unsorted \ {s} /\ r \in Segments!Halves(s, p)
        BY <3>2, HalvesApart DEF SortInv, Apart
      <3>3. CASE t \in Segments!Halves(s, p) /\ r \in Unsorted \ {s}
        BY <3>3, HalvesApart DEF SortInv, Apart
      <3>4. CASE t \in Segments!Halves(s, p) /\ r \in Segments!Halves(s, p)
        BY <3>4, HalvesApart
      <3> QED  BY <2>1, <3>1, <3>2, <3>3, <3>4
    <2> QED  BY <2>2, <2>3, <2>4 DEF SortInv, OrderedBut, Within
  <1>3. CASE UNCHANGED Segments!vars
    BY <1>3 DEF Segments!vars, SortInv, Apart, OrderedBut, Within
  <1> QED  BY <1>1, <1>2, <1>3 DEF Segments!Next

\* Whatever the order in which segments are worked on, the array is sorted when
\* none is left: what lines 54-67 rely on.
THEOREM SortedWhenSplitUp ==
    Segments!Init /\ [][Segments!Next]_(Segments!vars) => []Segments!SortedAtEnd
  <1>1. SortInv => Segments!SortedAtEnd
    BY DEF SortInv, OrderedBut, Segments!SortedAtEnd, Segments!Index, Index
  <1> QED  BY <1>1, SortInitially, SortStepwise, PTL
-----------------------------------------------------------------------------
\* While a call partitions, the place of its pivot is in its range.
LEMMA PlaceInRange ==
    ASSUME TypeOK, NEW c \in Call, Loop(c)
    PROVE  /\ Place(c) \in Within(c) /\ Place(c) \in Int
           /\ ~ Scanned(c) => scan[c] \in Base(c) + 1 .. Last(c)
           /\ ~ Scanned(c) => store[c] + 1 \in Base(c) + 1 .. Last(c)
           /\ Scanned(c) => scan[c] = Last(c) + 1
  <1>1. store[c] \in Int /\ scan[c] \in Int
    BY DEF TypeOK
  <1> QED  BY <1>1, Range DEF Place, Within, Loop, Scanned, Base, Last

\* An exchange inside the range of one call leaves the loops of the others alone.
LEMMA OtherLoops ==
    ASSUME IInv, NEW c \in Unsorted, NEW d \in Call, d # c,
           pc[d] = "loop",
           \A x \in Index \ Within(c) : array'[x] = array[x],
           program' = program,
           store'[d] = store[d], scan'[d] = scan[d], pivot'[d] = pivot[d]
    PROVE  Loop(d)'
  <1>1. Within(d) \cap Within(c) = {}
    <2>1. d \in Unsorted /\ c \in Call
      BY DEF Unsorted
    <2> QED  BY <2>1 DEF IInv, SortInv, Apart
  <1>2. \A x \in Within(d) : array'[x] = array[x]
    BY <1>1, Range
  <1>3. Loop(d)
    BY DEF IInv, Loops
  <1>4. store[d] \in Int /\ scan[d] \in Int
    BY DEF IInv, TypeOK
  <1>5. Base(d) + 1 .. store[d] \subseteq Within(d)
    BY <1>3, <1>4, Range DEF Loop
  <1>6. store[d] + 1 .. scan[d] - 1 \subseteq Within(d)
    BY <1>3, <1>4, Range DEF Loop
  <1>7. Base(d)' = Base(d) /\ Last(d)' = Last(d) /\ PivotAt(d)' = PivotAt(d)
    BY DEF Base, Last, PivotAt
  <1>8. \A x \in Base(d) + 1 .. store[d] : array'[x] < pivot[d]
    BY <1>2, <1>3, <1>5 DEF Loop
  <1>9. \A x \in store[d] + 1 .. scan[d] - 1 : pivot[d] <= array'[x]
    BY <1>2, <1>3, <1>6 DEF Loop
  <1>10. array'[PivotAt(d)] = pivot[d]
    BY <1>2, <1>3, Range DEF Loop
  <1> QED  BY <1>3, <1>7, <1>8, <1>9, <1>10 DEF Loop
-----------------------------------------------------------------------------
LEMMA InitiallyMapped == Init => Segments!Init
  <1> SUFFICES ASSUME Init PROVE Segments!Init
    OBVIOUS
  <1>1. Unsorted = IF N > 1 THEN {<<0, N - 1>>} ELSE {}
    <2>1. Unsorted = {c \in Call : c = First}
      BY DEF Init, Unsorted
    <2>2. First \in Call <=> N > 1
      BY NAssumption DEF First, Call, Index
    <2> QED  BY <2>1, <2>2 DEF First
  <1> QED  BY <1>1 DEF Init, Segments!Init, Segments!Index, Index

LEMMA Initially == Init => IInv
  <1> SUFFICES ASSUME Init PROVE IInv
    OBVIOUS
  <1>1. TypeOK
    <2>1. array \in [Index -> Int]
      BY ValueAssumption DEF Init
    <2>2. pc \in [Call -> {"none", "called", "loop", "sections", "done"}]
      BY DEF Init
    <2> QED  BY <2>1, <2>2 DEF Init, TypeOK
  <1>2. Loops /\ Opened /\ Closed
    BY DEF Init, Loops, Opened, Closed
  <1>3. SortInv
    BY InitiallyMapped, SortInitially
  <1> QED  BY <1>1, <1>2, <1>3 DEF IInv
-----------------------------------------------------------------------------
LEMMA BeginStep ==
    ASSUME IInv, NEW c \in Call, Begin(c)
    PROVE  TypeOK' /\ Loops' /\ Opened' /\ Closed' /\ UNCHANGED <<array, Unsorted>>
  <1>1. TypeOK /\ Base(c) \in Int /\ c[1] \in Int /\ c[1] < c[2]
    BY Range DEF IInv
  <1>2. /\ store' = [store EXCEPT ![c] = Base(c)]
        /\ scan' = [scan EXCEPT ![c] = Base(c) + 1]
        /\ pivot' = [pivot EXCEPT ![c] = array[PivotAt(c)]]
        /\ pc[c] = "called"
        /\ pc' = [pc EXCEPT ![c] = "loop"]
        /\ UNCHANGED <<program, array, index>>
    BY <1>1 DEF Begin, Base
  <1>3. TypeOK'
    BY <1>1, <1>2, Range DEF TypeOK
  <1>4. Unsorted' = Unsorted
    BY <1>1, <1>2 DEF Unsorted, TypeOK
  <1>5. Loops'
    <2> SUFFICES ASSUME NEW d \in Call, pc'[d] = "loop" PROVE Loop(d)'
      BY DEF Loops
    <2>1. CASE d = c
      <3>1. /\ store'[c] = Base(c) /\ scan'[c] = Base(c) + 1
            /\ pivot'[c] = array[PivotAt(c)]
        BY <1>1, <1>2 DEF TypeOK
      <3>2. Base(c)' = Base(c) /\ Last(c)' = Last(c) /\ PivotAt(c)' = PivotAt(c)
        BY <1>2 DEF Base, Last, PivotAt
      <3>3. Base(c) <= Last(c)
        BY Range DEF Base, Last
      <3> QED  BY <1>1, <1>2, <2>1, <3>1, <3>2, <3>3, Range DEF Loop
    <2>2. CASE d # c
      <3>1. /\ store'[d] = store[d] /\ scan'[d] = scan[d] /\ pivot'[d] = pivot[d]
            /\ pc[d] = "loop"
        BY <1>1, <1>2, <2>2 DEF TypeOK
      <3>2. c \in Unsorted
        BY <1>2 DEF Unsorted
      <3> QED  BY <1>2, <2>2, <3>1, <3>2, OtherLoops
    <2> QED  BY <2>1, <2>2
  <1>6. \A d \in Call : pc'[d] \in {"sections", "done"} => pc[d] = pc'[d]
    BY <1>1, <1>2 DEF TypeOK
  <1>7. Opened' /\ Closed'
    BY <1>2, <1>4, <1>6 DEF IInv, Opened, Closed, Left, Right, Within
  <1> QED  BY <1>2, <1>3, <1>4, <1>5, <1>7

LEMMA CompareStep ==
    ASSUME IInv, NEW c \in Call, Compare(c)
    PROVE  /\ TypeOK' /\ Loops' /\ Opened' /\ Closed'
           /\ Segments!Rearrange \/ UNCHANGED <<array, Unsorted>>
  <1> DEFINE u == store[c] + 1
             v == scan[c]
  <1>1. TypeOK /\ c \in Unsorted /\ Loop(c) /\ pc[c] = "loop" /\ ~ Scanned(c)
    BY DEF IInv, Loops, Compare, Unsorted
  <1>2. /\ u \in Base(c) + 1 .. Last(c) /\ v \in Base(c) + 1 .. Last(c)
        /\ u \in Within(c) /\ v \in Within(c)
        /\ u \in Index /\ v \in Index
        /\ u # PivotAt(c) /\ v # PivotAt(c) /\ u <= v
    BY <1>1, PlaceInRange, Range DEF Loop, TypeOK
  <1>3. UNCHANGED <<program, pc, pivot, index>> /\ scan' = [scan EXCEPT ![c] = @ + 1]
    BY DEF Compare
  <1>4. Unsorted' = Unsorted
    BY <1>3 DEF Unsorted
  <1>5. Opened' /\ Closed'
    BY <1>3, <1>4 DEF IInv, Opened, Closed, Left, Right, Within
  <1>6. \/ /\ array[v] < pivot[c]
           /\ array' = [array EXCEPT ![u] = array[v], ![v] = array[u]]
           /\ store' = [store EXCEPT ![c] = u]
        \/ /\ ~ (array[v] < pivot[c])
           /\ UNCHANGED <<array, store>>
    BY <1>1 DEF Compare, swap_elements, TypeOK
  <1>7. TypeOK'
    BY <1>1, <1>2, <1>3, <1>6 DEF TypeOK
  <1>8. \A x \in Index \ Within(c) : array'[x] = array[x]
    BY <1>1, <1>2, <1>6 DEF TypeOK
  <1>9. Loop(c)'
    <2>1. /\ Base(c)' = Base(c) /\ Last(c)' = Last(c) /\ PivotAt(c)' = PivotAt(c)
          /\ scan'[c] = v + 1 /\ pivot'[c] = pivot[c]
      BY <1>1, <1>3 DEF TypeOK, Base, Last, PivotAt
    <2>2. /\ store[c] \in Int /\ v \in Int /\ Base(c) \in Int /\ Last(c) \in Int
          /\ array[v] \in Int /\ array[u] \in Int /\ pivot[c] \in Int
          /\ PivotAt(c) \in Index
      BY <1>1, <1>2, Range DEF TypeOK
    <2>3. /\ Base(c) + 1 .. store[c] \subseteq Index
          /\ u .. v - 1 \subseteq Index
      BY <1>1, <1>2, <2>2, Range DEF Loop
    <2>4. CASE array[v] < pivot[c]
      <3>1. /\ array' = [array EXCEPT ![u] = array[v], ![v] = array[u]]
            /\ store'[c] = u
        BY <1>1, <1>6, <2>4 DEF TypeOK
      <3>2. \A x \in Base(c) + 1 .. u : array'[x] < pivot[c]
        <4> SUFFICES ASSUME NEW x \in Base(c) + 1 .. u PROVE array'[x] < pivot[c]
          OBVIOUS
        <4>1. CASE x = u
          BY <1>1, <1>2, <2>4, <3>1, <4>1 DEF TypeOK
        <4>2. CASE x # u
          <5>1. x \in Base(c) + 1 .. store[c] /\ x # v /\ x \in Index
            BY <1>2, <2>2, <2>3, <4>2
          <5>2. array'[x] = array[x]
            BY <1>1, <1>2, <3>1, <4>2, <5>1 DEF TypeOK
          <5> QED  BY <1>1, <5>1, <5>2 DEF Loop
        <4> QED  BY <4>1, <4>2
      <3>3. \A x \in u + 1 .. v : pivot[c] <= array'[x]
        <4> SUFFICES ASSUME NEW x \in u + 1 .. v PROVE pivot[c] <= array'[x]
          OBVIOUS
        <4>1. CASE x = v
          <5>1. u \in store[c] + 1 .. scan[c] - 1
            BY <2>2, <4>1
          <5>2. pivot[c] <= array[u]
            BY <1>1, <5>1 DEF Loop
          <5>3. array'[v] = array[u]
            BY <1>1, <1>2, <3>1 DEF TypeOK
          <5> QED  BY <4>1, <5>2, <5>3
        <4>2. CASE x # v
          <5>1. x \in u .. v - 1 /\ x # u /\ x \in Index
            BY <2>2, <2>3, <4>2
          <5>2. array'[x] = array[x]
            BY <1>1, <1>2, <3>1, <4>2, <5>1 DEF TypeOK
          <5> QED  BY <1>1, <5>1, <5>2 DEF Loop
        <4> QED  BY <4>1, <4>2
      <3>4. array'[PivotAt(c)] = pivot[c]
        BY <1>1, <1>2, <2>2, <3>1 DEF Loop, TypeOK
      <3>5. Base(c) <= u /\ u < v + 1 /\ v + 1 <= Last(c) + 1
        BY <1>1, <1>2, <2>2 DEF Loop
      <3>6. scan'[c] - 1 = v
        BY <2>1, <2>2
      <3>7. /\ \A x \in Base(c) + 1 .. store'[c] : array'[x] < pivot'[c]
            /\ \A x \in store'[c] + 1 .. scan'[c] - 1 : pivot'[c] <= array'[x]
        BY <2>1, <3>1, <3>2, <3>3, <3>6
      <3>8. /\ Base(c) <= store'[c] /\ store'[c] < scan'[c]
            /\ scan'[c] <= Last(c) + 1 /\ array'[PivotAt(c)] = pivot'[c]
        BY <2>1, <3>1, <3>4, <3>5
      <3> QED  BY ONLY <2>1, <3>7, <3>8 DEF Loop
    <2>5. CASE ~ (array[v] < pivot[c])
      <3>1. array' = array /\ store'[c] = store[c]
        BY <1>6, <2>5
      <3>2. \A x \in u .. v : pivot[c] <= array[x]
        <4> SUFFICES ASSUME NEW x \in u .. v PROVE pivot[c] <= array[x]
          OBVIOUS
        <4>1. CASE x = v
          BY <2>2, <2>5, <4>1
        <4>2. CASE x # v
          BY <1>1, <2>2, <4>2 DEF Loop
        <4> QED  BY <4>1, <4>2
      <3>3. Base(c) <= store[c] /\ store[c] < v + 1 /\ v + 1 <= Last(c) + 1
        BY <1>1, <1>2, <2>2 DEF Loop
      <3>4. scan'[c] - 1 = v /\ store[c] + 1 = u
        BY <2>1, <2>2
      <3>5. /\ \A x \in Base(c) + 1 .. store'[c] : array'[x] < pivot'[c]
            /\ \A x \in store'[c] + 1 .. scan'[c] - 1 : pivot'[c] <= array'[x]
        BY <1>1, <2>1, <3>1, <3>2, <3>4 DEF Loop
      <3>6. /\ Base(c) <= store'[c] /\ store'[c] < scan'[c]
            /\ scan'[c] <= Last(c) + 1 /\ array'[PivotAt(c)] = pivot'[c]
        BY <1>1, <2>1, <3>1, <3>3 DEF Loop
      <3> QED  BY ONLY <2>1, <3>5, <3>6 DEF Loop
    <2> QED  BY <2>4, <2>5
  <1>10. Loops'
    <2> SUFFICES ASSUME NEW d \in Call, pc'[d] = "loop", d # c PROVE Loop(d)'
      BY <1>9 DEF Loops
    <2>1. /\ store'[d] = store[d] /\ scan'[d] = scan[d] /\ pivot'[d] = pivot[d]
          /\ pc[d] = "loop"
      BY <1>1, <1>3, <1>6 DEF TypeOK
    <2> QED  BY <1>1, <1>3, <1>8, <2>1, OtherLoops
  <1>11. Segments!Rearrange \/ UNCHANGED <<array, Unsorted>>
    <2>1. CASE array' = array
      BY <1>4, <2>1
    <2>2. CASE Segments!Exchange(u, v)
      <3>1. u \in Segments!Within(c) /\ v \in Segments!Within(c)
        BY <1>2 DEF Segments!Within, Within
      <3> QED  BY <1>1, <1>4, <2>2, <3>1 DEF Segments!Rearrange
    <2> QED  BY <1>6, <2>1, <2>2 DEF Segments!Exchange
  <1> QED  BY <1>5, <1>7, <1>10, <1>11

\* The exchange at the end of partition leaves nothing greater than the pivot
\* before it and nothing smaller behind it.
LEMMA PivotSplits ==
    ASSUME TypeOK, NEW c \in Call, Loop(c), Scanned(c),
           swap_elements(Place(c), PivotAt(c))
    PROVE  Segments!SplitsAt(array', c, Place(c))
  <1> DEFINE p == Place(c)
  <1>1. /\ c[1] \in Int /\ c[2] \in Int /\ c[1] < c[2]
        /\ store[c] \in Int /\ pivot[c] \in Int
        /\ Within(c) \subseteq Index
    BY Range DEF TypeOK
  <1>2. p \in Within(c) /\ p \in Index /\ scan[c] = Last(c) + 1
    BY PlaceInRange, Range
  <1>3. c[1] .. p - 1 \subseteq Index /\ p + 1 .. c[2] \subseteq Index
    BY <1>1, <1>2, Range DEF Within
  <1>4. array \in [Index -> Int]
    BY DEF TypeOK
  <1>5. CASE program = "quicksort_parallel"
    <2>1. /\ p = store[c] + 1 /\ PivotAt(c) = c[2] /\ c[2] \in Index
          /\ Base(c) + 1 = c[1] /\ scan[c] - 1 = c[2] - 1
      BY <1>1, <1>2, <1>5, Range DEF Place, PivotAt, Base, Last
    <2>2. array[c[2]] = pivot[c]
      BY <2>1 DEF Loop
    <2>3. array'[p] = pivot[c]
      BY <1>2, <1>4, <2>1, <2>2 DEF swap_elements
    <2>4. ASSUME NEW x \in c[1] .. p - 1 PROVE array'[x] <= array'[p]
      <3>1. x \in Base(c) + 1 .. store[c] /\ x # p /\ x # c[2] /\ x \in Index
        BY <1>1, <1>2, <1>3, <2>1 DEF Within
      <3>2. array'[x] = array[x]
        BY <1>4, <2>1, <3>1 DEF swap_elements
      <3>3. array[x] < pivot[c]
        BY <3>1 DEF Loop
      <3> QED  BY <1>1, <1>4, <2>3, <3>1, <3>2, <3>3
    <2>5. ASSUME NEW x \in p + 1 .. c[2] PROVE array'[p] <= array'[x]
      <3>1. CASE x = c[2]
        <4>1. p \in store[c] + 1 .. scan[c] - 1
          BY <1>1, <1>2, <2>1, <3>1
        <4>2. pivot[c] <= array[p]
          BY <4>1 DEF Loop
        <4>3. array'[x] = array[p]
          BY <1>2, <1>4, <2>1, <3>1 DEF swap_elements
        <4> QED  BY <2>3, <4>2, <4>3
      <3>2. CASE x # c[2]
        <4>1. x \in store[c] + 1 .. scan[c] - 1 /\ x # p /\ x \in Index
          BY <1>1, <1>2, <1>3, <2>1, <3>2
        <4>2. pivot[c] <= array[x]
          BY <4>1 DEF Loop
        <4>3. array'[x] = array[x]
          BY <1>4, <2>1, <3>2, <4>1 DEF swap_elements
        <4> QED  BY <2>3, <4>2, <4>3
      <3> QED  BY <3>1, <3>2
    <2> QED  BY <2>4, <2>5 DEF Segments!SplitsAt
  <1>6. CASE program # "quicksort_parallel"
    <2>1. /\ p = store[c] /\ PivotAt(c) = c[1] /\ c[1] \in Index
          /\ Base(c) + 1 = c[1] + 1 /\ scan[c] - 1 = c[2]
      BY <1>1, <1>2, <1>6, Range DEF Place, PivotAt, Base, Last
    <2>2. array[c[1]] = pivot[c]
      BY <2>1 DEF Loop
    <2>3. array'[p] = pivot[c]
      BY <1>2, <1>4, <2>1, <2>2 DEF swap_elements
    <2>4. ASSUME NEW x \in c[1] .. p - 1 PROVE array'[x] <= array'[p]
      <3>1. CASE x = c[1]
        <4>1. p \in Base(c) + 1 .. store[c]
          BY <1>1, <1>2, <2>1, <3>1
        <4>2. array[p] < pivot[c]
          BY <4>1 DEF Loop
        <4>3. array'[x] = array[p]
          BY <1>2, <1>4, <2>1, <3>1 DEF swap_elements
        <4> QED  BY <1>1, <1>2, <1>4, <2>3, <4>2, <4>3
      <3>2. CASE x # c[1]
        <4>1. x \in Base(c) + 1 .. store[c] /\ x # p /\ x \in Index
          BY <1>1, <1>2, <1>3, <2>1, <3>2
        <4>2. array[x] < pivot[c]
          BY <4>1 DEF Loop
        <4>3. array'[x] = array[x]
          BY <1>4, <2>1, <3>2, <4>1 DEF swap_elements
        <4> QED  BY <1>1, <1>4, <2>3, <4>1, <4>2, <4>3
      <3> QED  BY <3>1, <3>2
    <2>5. ASSUME NEW x \in p + 1 .. c[2] PROVE array'[p] <= array'[x]
      <3>1. x \in store[c] + 1 .. scan[c] - 1 /\ x # p /\ x # c[1] /\ x \in Index
        BY <1>1, <1>2, <1>3, <2>1 DEF Within
      <3>2. pivot[c] <= array[x]
        BY <3>1 DEF Loop
      <3>3. array'[x] = array[x]
        BY <1>4, <2>1, <3>1 DEF swap_elements
      <3> QED  BY <2>3, <3>2, <3>3
    <2> QED  BY <2>4, <2>5 DEF Segments!SplitsAt
  <1> QED  BY <1>5, <1>6

LEMMA PartitionedStep ==
    ASSUME IInv, NEW c \in Call, Partitioned(c)
    PROVE  TypeOK' /\ Loops' /\ Opened' /\ Closed' /\ Segments!Split
  <1> DEFINE p == Place(c)
             l == <<c[1], p - 1>>
             r == <<p + 1, c[2]>>
  <1>1. TypeOK /\ c \in Unsorted /\ Loop(c) /\ pc[c] = "loop" /\ Scanned(c)
    BY DEF IInv, Loops, Partitioned, Unsorted
  <1>2. /\ p \in Within(c) /\ p \in Index /\ p \in Int
        /\ PivotAt(c) \in Within(c) /\ PivotAt(c) \in Index
    BY <1>1, PlaceInRange, Range
  <1>3. /\ swap_elements(p, PivotAt(c))
        /\ index' = [index EXCEPT ![c] = p]
        /\ UNCHANGED <<program, pivot, store, scan>>
    BY DEF Partitioned
  <1>4. index'[c] = p /\ Left(c)' = l /\ Right(c)' = r
    BY <1>1, <1>3 DEF TypeOK, Left, Right
  <1>5. pc' = [d \in Call |-> IF d = c THEN "sections"
                             ELSE IF d \in {l, r} THEN "called" ELSE pc[d]]
    BY <1>4 DEF Partitioned
  <1>6. \A x \in Index \ Within(c) : array'[x] = array[x]
    BY <1>1, <1>2, <1>3 DEF TypeOK, swap_elements
  <1>7. TypeOK'
    <2>1. array' \in [Index -> Int]
      BY <1>1, <1>2, <1>3 DEF TypeOK, swap_elements
    <2>2. pc' \in [Call -> {"none", "called", "loop", "sections", "done"}]
      BY <1>1, <1>5 DEF TypeOK
    <2>3. index' \in [Call -> Int]
      BY <1>1, <1>2, <1>3 DEF TypeOK
    <2> QED  BY <1>1, <1>3, <2>1, <2>2, <2>3 DEF TypeOK
  <1>8. /\ l # c /\ r # c
        /\ Within(l) \subseteq Within(c) /\ Within(r) \subseteq Within(c)
    <2>1. c = <<c[1], c[2]>> /\ c[1] \in Int /\ c[2] \in Int
      BY Range
    <2>2. p - 1 # c[2] /\ p + 1 # c[1]
      BY <1>2, <2>1 DEF Within
    <2>3. l # c /\ r # c
      BY <2>1, <2>2
    <2>4. c[1] .. p - 1 \subseteq c[1] .. c[2] /\ p + 1 .. c[2] \subseteq c[1] .. c[2]
      BY <1>2, <2>1 DEF Within
    <2> QED  BY <2>3, <2>4 DEF Within
  <1>9. \A h \in {l, r} : h \in Call <=> Segments!Long(h)
    <2>1. Index = 0 .. N - 1 /\ N \in Int /\ c[1] \in Index /\ c[2] \in Index
      BY NAssumption DEF Index, Call
    <2>2. c[1] < p - 1 => p - 1 \in Index
      BY <1>2, <2>1
    <2>3. p + 1 < c[2] => p + 1 \in Index
      BY <1>2, <2>1
    <2>4. l \in Call <=> c[1] < p - 1
      BY <2>1, <2>2 DEF Call
    <2>5. r \in Call <=> p + 1 < c[2]
      BY <2>1, <2>3 DEF Call
    <2> QED  BY <2>4, <2>5 DEF Segments!Long
  <1>10. Unsorted' = (Unsorted \ {c}) \cup {h \in Segments!Halves(c, p) : Segments!Long(h)}
    <2>1. Segments!Halves(c, p) = {l, r}
      BY DEF Segments!Halves
    <2>2. \A d \in Call : pc'[d] \in {"called", "loop"} <=>
            d # c /\ (d \in {l, r} \/ pc[d] \in {"called", "loop"})
      BY <1>5, <1>8
    <2>3. \A d : d \in Unsorted' <=>
            /\ d \in Call
            /\ d # c /\ (d \in {l, r} \/ pc[d] \in {"called", "loop"})
      BY <2>2 DEF Unsorted
    <2>4. \A d : d \in Unsorted <=> d \in Call /\ pc[d] \in {"called", "loop"}
      BY DEF Unsorted
    <2>5. \A d \in {l, r} : d # c /\ (d \in Call <=> Segments!Long(d))
      BY <1>8, <1>9
    <2>6. \A d : d \in Unsorted' <=>
            (d \in Unsorted /\ d # c) \/ (d \in {l, r} /\ Segments!Long(d))
      BY ONLY <2>3, <2>4, <2>5
    <2> QED  BY <2>1, <2>6
  <1>11. Segments!Split
    <2>1. Segments!SplitsAt(array', c, p)
      BY <1>1, <1>3, PivotSplits
    <2>2. Segments!Exchange(p, PivotAt(c))
      BY <1>3 DEF Segments!Exchange, swap_elements
    <2>3. p \in Segments!Within(c) /\ PivotAt(c) \in Segments!Within(c)
      BY <1>2 DEF Segments!Within, Within
    <2> QED  BY <1>1, <1>10, <2>1, <2>2, <2>3 DEF Segments!Split
  <1>12. Loops'
    <2> SUFFICES ASSUME NEW d \in Call, pc'[d] = "loop" PROVE Loop(d)'
      BY DEF Loops
    <2>1. d # c /\ pc[d] = "loop"
      BY <1>5
    <2> QED  BY <1>1, <1>3, <1>6, <2>1, OtherLoops
  <1>13. \A u \in Unsorted' : u \in Unsorted \ {c} \/ u \in {l, r}
    BY <1>10 DEF Segments!Halves
  <1>14. Opened'
    <2> SUFFICES ASSUME NEW d \in Call, pc'[d] = "sections"
                 PROVE  /\ index'[d] \in Within(d)
                        /\ \A u \in Unsorted' :
                             \/ Within(u) \cap Within(d) = {}
                             \/ Within(u) \subseteq Within(Left(d)')
                             \/ Within(u) \subseteq Within(Right(d)')
      BY DEF Opened, Within, Left, Right
    <2>1. CASE d = c
      <3>1. \A u \in Unsorted \ {c} : Within(u) \cap Within(c) = {}
        BY <1>1 DEF IInv, SortInv, Apart
      <3> QED  BY <1>2, <1>4, <1>13, <2>1, <3>1
    <2>2. CASE d # c
      <3>1. pc[d] = "sections"
        BY <1>5, <2>2
      <3>2. index'[d] = index[d] /\ Left(d)' = Left(d) /\ Right(d)' = Right(d)
        BY <1>1, <1>3, <2>2 DEF TypeOK, Left, Right
      <3>3. /\ index[d] \in Within(d)
            /\ \A u \in Unsorted : \/ Within(u) \cap Within(d) = {}
                                   \/ Within(u) \subseteq Within(Left(d))
                                   \/ Within(u) \subseteq Within(Right(d))
        BY <3>1 DEF IInv, Opened
      <3> QED  BY <1>1, <1>8, <1>13, <3>2, <3>3
    <2> QED  BY <2>1, <2>2
  <1>15. Closed'
    <2> SUFFICES ASSUME NEW d \in Call, pc'[d] = "done"
                 PROVE  /\ index'[d] \in Within(d)
                        /\ \A u \in Unsorted' : Within(u) \cap Within(d) = {}
      BY DEF Closed, Within
    <2>1. pc[d] = "done" /\ d # c
      BY <1>5
    <2>2. /\ index[d] \in Within(d)
          /\ \A t \in Unsorted : Within(t) \cap Within(d) = {}
      BY <2>1 DEF IInv, Closed
    <2>3. index'[d] = index[d]
      BY <1>1, <1>3, <2>1 DEF TypeOK
    <2> QED  BY <1>1, <1>8, <1>13, <2>2, <2>3
  <1> QED  BY <1>7, <1>11, <1>12, <1>14, <1>15

LEMMA ReturnStep ==
    ASSUME IInv, NEW c \in Call, Return(c)
    PROVE  TypeOK' /\ Loops' /\ Opened' /\ Closed' /\ UNCHANGED <<array, Unsorted>>
  <1>1. /\ TypeOK /\ pc[c] = "sections" /\ pc' = [pc EXCEPT ![c] = "done"]
        /\ UNCHANGED <<program, array, pivot, store, scan, index>>
    BY DEF Return, IInv
  <1>2. TypeOK'
    BY <1>1 DEF TypeOK
  <1>3. Unsorted' = Unsorted
    BY <1>1 DEF Unsorted, TypeOK
  <1>4. \A d \in Call : d # c => pc'[d] = pc[d]
    BY <1>1 DEF TypeOK
  <1>5. pc'[c] = "done"
    BY <1>1 DEF TypeOK
  <1>6. Loops'
    BY <1>1, <1>4, <1>5 DEF IInv, Loops, Loop, Base, Last, PivotAt
  <1>7. Opened'
    BY <1>1, <1>3, <1>4, <1>5 DEF IInv, Opened, Left, Right, Within
  <1>8. \A u \in Unsorted : Within(u) \cap Within(c) = {}
    <2> SUFFICES ASSUME NEW u \in Unsorted, Within(u) \cap Within(c) # {}
                 PROVE  FALSE
      OBVIOUS
    <2>1. u \in Call /\ Within(u) # {}
      BY Range DEF Unsorted
    <2>2. \/ Within(u) \subseteq Within(Left(c))
          \/ Within(u) \subseteq Within(Right(c))
      BY <1>1 DEF IInv, Opened
    <2>3. index[c] \in Within(c)
      BY <1>1 DEF IInv, Opened
    <2>4. ASSUME NEW h \in {Left(c), Right(c)}, Within(u) \subseteq Within(h)
          PROVE  FALSE
      <3>1. /\ u[1] \in Within(u) /\ u[2] \in Within(u) /\ u[1] < u[2]
            /\ u[1] \in Int /\ u[2] \in Int
        BY <2>1, Range DEF Within
      <3>2. h[1] <= u[1] /\ u[2] <= h[2] /\ h[1] \in Int /\ h[2] \in Int
        <4>1. u[1] \in h[1] .. h[2] /\ u[2] \in h[1] .. h[2]
          BY <2>4, <3>1 DEF Within
        <4>2. h[1] \in Int /\ h[2] \in Int
          BY <1>1, Range DEF Left, Right, TypeOK
        <4> QED  BY <3>1, <4>1, <4>2
      <3>3. h \in Call
        <4>1. c[1] \in Index /\ c[2] \in Index
          BY DEF Call
        <4>2. Index = 0 .. N - 1 /\ N \in Int
          BY NAssumption DEF Index
        <4>3. h[1] < h[2]
          BY <3>1, <3>2
        <4>4. c[1] <= index[c] /\ index[c] <= c[2] /\ index[c] \in Int
          BY <1>1, <2>3, Range DEF Within, TypeOK
        <4>5. CASE h = Left(c)
          <5>1. index[c] - 1 \in Index
            BY <4>1, <4>2, <4>3, <4>4, <4>5 DEF Left
          <5> QED  BY <4>1, <4>3, <4>5, <5>1 DEF Left, Call
        <4>6. CASE h = Right(c)
          <5>1. index[c] + 1 \in Index
            BY <4>1, <4>2, <4>3, <4>4, <4>6 DEF Right
          <5> QED  BY <4>1, <4>3, <4>6, <5>1 DEF Right, Call
        <4> QED  BY <4>5, <4>6
      <3>4. pc[h] = "done"
        BY <3>3 DEF Return, Finished
      <3>5. Within(u) \cap Within(h) = {}
        BY <3>3, <3>4 DEF IInv, Closed
      <3> QED  BY <2>1, <2>4, <3>5
    <2> QED  BY <2>2, <2>4
  <1>9. index[c] \in Within(c)
    BY <1>1 DEF IInv, Opened
  <1>10. Closed'
    BY <1>1, <1>3, <1>4, <1>8, <1>9 DEF IInv, Closed, Within
  <1> QED  BY <1>1, <1>2, <1>3, <1>6, <1>7, <1>10
-----------------------------------------------------------------------------
\* A step of the program is a step of sorting by segments, or changes neither
\* the array nor what is left to sort.
LEMMA Stepwise ==
    ASSUME IInv, [Next]_vars
    PROVE  IInv' /\ [Segments!Next]_(Segments!vars)
  <1> DEFINE Rest == TypeOK' /\ Loops' /\ Opened' /\ Closed'
             Maps == Segments!Next \/ UNCHANGED <<array, Unsorted>>
  <1>1. ASSUME NEW c \in Call, CallStep(c) PROVE Rest /\ Maps
    <2>1. CASE Begin(c)
      BY <2>1, BeginStep
    <2>2. CASE Compare(c)
      BY <2>2, CompareStep DEF Segments!Next
    <2>3. CASE Partitioned(c)
      BY <2>3, PartitionedStep DEF Segments!Next
    <2>4. CASE Return(c)
      BY <2>4, ReturnStep
    <2> QED  BY <1>1, <2>1, <2>2, <2>3, <2>4 DEF CallStep
  <1>2. ASSUME UNCHANGED vars PROVE Rest /\ Maps
    <2>1. UNCHANGED <<program, array, pc, pivot, store, scan, index>>
      BY <1>2 DEF vars
    <2>2. TypeOK'
      BY <2>1 DEF IInv, TypeOK
    <2>3. Loops'
      BY <2>1 DEF IInv, Loops, Loop, Base, Last, PivotAt
    <2>4. Unsorted' = Unsorted
      BY <2>1 DEF Unsorted
    <2>5. Opened' /\ Closed'
      BY <2>1, <2>4 DEF IInv, Opened, Closed, Left, Right, Within
    <2> QED  BY <2>1, <2>2, <2>3, <2>4, <2>5
  <1>3. Rest /\ Maps
    BY <1>1, <1>2 DEF Next
  <1>4. [Segments!Next]_(Segments!vars)
    BY <1>3 DEF Segments!vars
  <1>5. SortInv'
    BY <1>4, SortStepwise DEF IInv
  <1> QED  BY <1>3, <1>4, <1>5 DEF IInv

\* The inductive invariant holds in every reachable state.
THEOREM Inductive == Spec => []IInv
  <1>1. IInv /\ [Next]_vars => IInv'
    BY Stepwise
  <1>2. Safety => []IInv
    BY Initially, <1>1, PTL DEF Safety
  <1> QED  BY <1>2, PTL DEF Spec, Safety

\* The parallel sections sort by segments: a step of quicksort_parallel or of
\* qs::sort rearranges elements inside one unsorted range, or splits it rightly.
THEOREM Implements == Spec => Segments!Init /\ [][Segments!Next]_(Segments!vars)
  <1>1. Init => Segments!Init
    BY InitiallyMapped
  <1>2. IInv /\ [Next]_vars => [Segments!Next]_(Segments!vars)
    BY Stepwise
  <1> QED  BY <1>1, <1>2, Inductive, PTL DEF Spec

\* Two threads that run the loop of partition never touch a common element.
THEOREM SectionsNeverRace == Spec => []NoRace
  <1>1. IInv => NoRace
    BY DEF IInv, NoRace, SortInv, Apart, Unsorted
  <1> QED  BY <1>1, Inductive, PTL

\* No index of partition leaves the range it was called on.
THEOREM PartitionStaysInRange == Spec => []IndicesInRange
  <1>1. IInv => IndicesInRange
    <2> SUFFICES ASSUME IInv, NEW c \in Call, pc[c] = "loop"
                 PROVE  /\ Place(c) \in Within(c)
                        /\ ~ Scanned(c) => /\ scan[c] \in Within(c)
                                           /\ store[c] + 1 \in Within(c)
      BY DEF IndicesInRange
    <2>1. TypeOK /\ Loop(c)
      BY DEF IInv, Loops
    <2> QED  BY <2>1, PlaceInRange, Range
  <1> QED  BY <1>1, Inductive, PTL

\* When the first call returns, main has a sorted array.
THEOREM ReturnsSorted == Spec => []SortedAtReturn
  <1>1. IInv => SortedAtReturn
    <2> SUFFICES ASSUME IInv, Returned,
                        NEW x \in Index, NEW y \in Index, x < y
                 PROVE  array[x] <= array[y]
      BY DEF SortedAtReturn
    <2>1. First \in Call /\ pc[First] = "done"
      <3>1. N > 1
        BY NAssumption DEF Index
      <3>2. First \in Call
        BY <3>1, NAssumption DEF First, Call, Index
      <3> QED  BY <3>2 DEF Returned, Finished
    <2>2. \A u \in Unsorted : Within(u) \cap Within(First) = {}
      BY <2>1 DEF IInv, Closed
    <2>3. Within(First) = Index
      BY DEF Within, First, Index
    <2>4. Unsorted = {}
      BY <2>2, <2>3, Range DEF Unsorted
    <2> QED  BY <2>4 DEF IInv, SortInv, OrderedBut
  <1> QED  BY <1>1, Inductive, PTL

\* A pivot in its place is never moved, by whatever section.
THEOREM PivotsNeverMove == Spec => PivotsStay
  <1> DEFINE Stay == \A c \in Call : pc[c] \in {"sections", "done"}
                                        => array'[index[c]] = array[index[c]]
  <1>1. IInv /\ [Next]_vars => Stay
    <2> SUFFICES ASSUME IInv, [Next]_vars,
                        NEW c \in Call, pc[c] \in {"sections", "done"}
                 PROVE  array'[index[c]] = array[index[c]]
      OBVIOUS
    <2>1. /\ index[c] \in Within(c)
          /\ \A u \in Unsorted : index[c] \notin Within(u)
      <3>1. CASE pc[c] = "done"
        BY <3>1 DEF IInv, Closed
      <3>2. CASE pc[c] = "sections"
        <4>1. /\ index[c] \notin Within(Left(c)) /\ index[c] \notin Within(Right(c))
          BY Range DEF Within, Left, Right, IInv, TypeOK
        <4> QED  BY <3>2, <4>1 DEF IInv, Opened
      <3> QED  BY <3>1, <3>2
    <2>2. index[c] \in Index /\ TypeOK
      BY <2>1, Range DEF IInv
    <2>3. [Segments!Next]_(Segments!vars)
      BY Stepwise
    <2>4. ASSUME NEW u \in Unsorted,
                 \E x, y \in Segments!Within(u) : Segments!Exchange(x, y)
          PROVE  array'[index[c]] = array[index[c]]
      BY <2>1, <2>2, <2>4 DEF Segments!Within, Within, Segments!Exchange, TypeOK
    <2> QED
      BY <2>3, <2>4 DEF Segments!Next, Segments!Rearrange, Segments!Split, Segments!vars
  <1> QED  BY <1>1, Inductive, PTL DEF Spec, PivotsStay
=============================================================================
