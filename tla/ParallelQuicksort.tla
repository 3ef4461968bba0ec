------------------------- MODULE ParallelQuicksort -------------------------
(***************************************************************************)
(* The parallel quicksorts of Module2/Complex Threading.  A call on a      *)
(* range partitions it and then runs the calls on the two halves as OpenMP *)
(* sections of a parallel region, with the barrier at its end.             *)
(*                                                                         *)
(* quicksort_parallel.cpp takes the last element as pivot and leaves       *)
(* nested parallelism off, so only the region of the first call has a team *)
(* of several threads; quicksort_parallel_new.cpp takes the first element  *)
(* and switches nesting on, so all sections run at the same time.          *)
(***************************************************************************)
EXTENDS SortData, FiniteSets

VARIABLES
    program,  \* which of the two runs
    array,
    pc,       \* of each call: "none", "called", "loop", "sections" or "done"
    pivot,    \* pivot or key
    store,    \* the index behind which the smaller elements end: i or j
    scan,     \* the loop variable: j or i
    index     \* index or mid: where the pivot is

vars == <<program, array, pc, pivot, store, scan, index>>

Sources == {"quicksort_parallel", "quicksort_parallel_new"}

\* No range is sorted by two calls, so a call is known by its range.
Call == {c \in Index \X Index : c[1] < c[2]}
First == <<0, N - 1>>

PivotAt(c) == IF program = "quicksort_parallel" THEN c[2] ELSE c[1]

Left(c) == <<c[1], index[c] - 1>>

\* Mistake: the range is split in its middle, wherever the pivot is.
BugRight(c) == <<(c[1] + c[2] + 1) \div 2, c[2]>>

Right(c) == <<index[c] + 1, c[2]>>

Init ==
    /\ program \in Sources
    /\ array \in [Index -> Value]
    /\ pc = [c \in Call |-> IF c = First THEN "called" ELSE "none"]
    /\ pivot = [c \in Call |-> 0]
    /\ store = [c \in Call |-> 0]
    /\ scan = [c \in Call |-> 0]
    /\ index = [c \in Call |-> 0]

\* A call on at most one element returns at once.
Finished(c) == c \in Call => pc[c] = "done"

\* The thread of section c is free to run it: one thread runs the two sections
\* of a region in order, unless the region has a team of several.
SectionRuns(c) ==
    \A p \in Call :
        pc[p] = "sections" /\ Right(p) = c /\ p # First
            => program = "quicksort_parallel_new" \/ Finished(Left(p))

\* The exchange of array[x] and array[y].
swap_elements(x, y) == array' = [array EXCEPT ![x] = array[y], ![y] = array[x]]
-----------------------------------------------------------------------------
\* Mistake: the smaller elements are stored from one place further on.
BugBegin(c) ==
    /\ pc[c] = "called"
    /\ SectionRuns(c)
    /\ pc' = [pc EXCEPT ![c] = "loop"]
    /\ pivot' = [pivot EXCEPT ![c] = array[PivotAt(c)]]
    /\ IF program = "quicksort_parallel"
       THEN /\ store' = [store EXCEPT ![c] = c[1]]
            /\ scan' = [scan EXCEPT ![c] = c[1]]
       ELSE /\ store' = [store EXCEPT ![c] = c[1] + 1]
            /\ scan' = [scan EXCEPT ![c] = c[1] + 1]
    /\ UNCHANGED <<program, array, index>>

\* The call gets a thread, and reads the pivot.
Begin(c) ==
    /\ pc[c] = "called"
    /\ SectionRuns(c)
    /\ pc' = [pc EXCEPT ![c] = "loop"]
    /\ pivot' = [pivot EXCEPT ![c] = array[PivotAt(c)]]
    /\ IF program = "quicksort_parallel"
       THEN /\ store' = [store EXCEPT ![c] = c[1] - 1]
            /\ scan' = [scan EXCEPT ![c] = c[1]]
       ELSE /\ store' = [store EXCEPT ![c] = c[1]]
            /\ scan' = [scan EXCEPT ![c] = c[1] + 1]
    /\ UNCHANGED <<program, array, index>>

\* Mistake: the loop ends one element early.
BugScanned(c) ==
    scan[c] > IF program = "quicksort_parallel" THEN c[2] - 2 ELSE c[2] - 1

Scanned(c) == scan[c] > IF program = "quicksort_parallel" THEN c[2] - 1 ELSE c[2]

\* Mistake: the loop variable advances only when an element is exchanged.
BugCompareStays(c) ==
    /\ pc[c] = "loop"
    /\ ~ Scanned(c)
    /\ IF array[scan[c]] < pivot[c]
       THEN /\ swap_elements(store[c] + 1, scan[c])
            /\ store' = [store EXCEPT ![c] = @ + 1]
            /\ scan' = [scan EXCEPT ![c] = @ + 1]
       ELSE UNCHANGED <<array, store, scan>>
    /\ UNCHANGED <<program, pc, pivot, index>>

\* One turn of the loop of partition.
Compare(c) ==
    /\ pc[c] = "loop"
    /\ ~ Scanned(c)
    /\ IF array[scan[c]] < pivot[c]
       THEN /\ swap_elements(store[c] + 1, scan[c])
            /\ store' = [store EXCEPT ![c] = @ + 1]
       ELSE UNCHANGED <<array, store>>
    /\ scan' = [scan EXCEPT ![c] = @ + 1]
    /\ UNCHANGED <<program, pc, pivot, index>>

\* Where the pivot belongs.
Place(c) == IF program = "quicksort_parallel" THEN store[c] + 1 ELSE store[c]

\* The pivot goes to its place, partition returns, and the sections are open.
Partitioned(c) ==
    /\ pc[c] = "loop"
    /\ Scanned(c)
    /\ swap_elements(Place(c), PivotAt(c))
    /\ index' = [index EXCEPT ![c] = Place(c)]
    /\ pc' = [d \in Call |->
                IF d = c THEN "sections"
                ELSE IF d \in {Left(c)', Right(c)'} THEN "called" ELSE pc[d]]
    /\ UNCHANGED <<program, pivot, store, scan>>

\* Mistake: the region has no barrier at its end (nowait).
BugReturn(c) ==
    /\ pc[c] = "sections"
    /\ Finished(Left(c))
    /\ pc' = [pc EXCEPT ![c] = "done"]
    /\ UNCHANGED <<program, array, pivot, store, scan, index>>

\* The barrier at the end of the region.
Return(c) ==
    /\ pc[c] = "sections"
    /\ Finished(Left(c)) /\ Finished(Right(c))
    /\ pc' = [pc EXCEPT ![c] = "done"]
    /\ UNCHANGED <<program, array, pivot, store, scan, index>>
-----------------------------------------------------------------------------
CallStep(c) == Begin(c) \/ Compare(c) \/ Partitioned(c) \/ Return(c)

Returned == Finished(First)

Next == (\E c \in Call : CallStep(c)) \/ (Returned /\ UNCHANGED vars)

\* The OpenMP threads are scheduled fairly.
Fairness == \A c \in Call : WF_vars(CallStep(c))

Spec == Init /\ [][Next]_vars /\ Fairness
-----------------------------------------------------------------------------
Within(c) == c[1] .. c[2]

\* Two sections that are partitioning at the same time share no element.
NoRace ==
    \A c, d \in Call :
        pc[c] = "loop" /\ pc[d] = "loop" /\ c # d => Within(c) \cap Within(d) = {}

\* Every index of a swap or a comparison lies in the range of its call.
IndicesInRange ==
    \A c \in Call : pc[c] = "loop" =>
        /\ Place(c) \in Within(c)
        /\ ~ Scanned(c) => scan[c] \in Within(c) /\ store[c] + 1 \in Within(c)

\* When the first call returns the array is sorted.
SortedAtReturn ==
    Returned => \A x, y \in Index : x < y => array[x] <= array[y]

\* A pivot never moves again once its call has opened its sections, whatever
\* the sections do.
PivotsStay ==
    [][\A c \in Call : pc[c] \in {"sections", "done"}
                          => array'[index[c]] = array[index[c]]]_vars

\* The first call returns.
Terminates == <>Returned

\* The ranges that are not partitioned yet.
Unsorted == {c \in Call : pc[c] \in {"called", "loop"}}

Segments == INSTANCE SegmentSort WITH segments <- Unsorted

\* Every call on a segment works inside it, and the segments are split rightly.
ImplementsSegmentSort == Segments!Spec
=============================================================================
