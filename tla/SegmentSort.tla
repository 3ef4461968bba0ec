---------------------------- MODULE SegmentSort ----------------------------
(***************************************************************************)
(* What the parallel quicksorts promise: an array and a set of segments    *)
(* still to be sorted.  A step rearranges elements inside one segment, or  *)
(* splits a segment at a position that has nothing greater to its left and *)
(* nothing smaller to its right.  The array is sorted when no segment is   *)
(* left, in whatever order the segments were worked on.                    *)
(***************************************************************************)
EXTENDS SortData

VARIABLES
    array,
    segments    \* the <<low, high>> with low < high that are not sorted yet

vars == <<array, segments>>

Long(s) == s[1] < s[2]

Within(s) == s[1] .. s[2]

Init ==
    /\ array \in [Index -> Value]
    /\ segments = IF N > 1 THEN {<<0, N - 1>>} ELSE {}

Exchange(x, y) == array' = [array EXCEPT ![x] = array[y], ![y] = array[x]]

Rearrange ==
    /\ \E s \in segments : \E x, y \in Within(s) : Exchange(x, y)
    /\ UNCHANGED segments

SplitsAt(a, s, p) ==
    /\ \A x \in s[1] .. p - 1 : a[x] <= a[p]
    /\ \A x \in p + 1 .. s[2] : a[p] <= a[x]

Halves(s, p) == {<<s[1], p - 1>>, <<p + 1, s[2]>>}

\* The exchange that puts the pivot at its place may come with the split.
Split ==
    \E s \in segments : \E x, y, p \in Within(s) :
        /\ Exchange(x, y)
        /\ SplitsAt(array', s, p)
        /\ segments' = (segments \ {s}) \cup {h \in Halves(s, p) : Long(h)}

Next == Rearrange \/ Split

Spec == Init /\ [][Next]_vars /\ WF_vars(Split)

\* The array is sorted when no segment is left: what the callers of the
\* quicksorts rely on.
SortedAtEnd == segments = {} => \A x, y \in Index : x < y => array[x] <= array[y]
=============================================================================
