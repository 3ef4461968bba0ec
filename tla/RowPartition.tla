---------------------------- MODULE RowPartition ----------------------------
(***************************************************************************)
(* How rank 0 of the matrix programs (Module3/M3.T1P/mm_mpi.cpp and its    *)
(* siblings) cuts n rows into one block per worker: the first n % w        *)
(* workers get one row more than the others.  The program accumulates the  *)
(* offset block by block; OffsetOf is the closed form the invariants and   *)
(* the proofs compare it with.                                             *)
(***************************************************************************)
EXTENDS Integers

AvgRow(n, w) == n \div w

ReRow(n, w) == n % w

\* Mistake in the size of a block: the remainder is dropped.
BugRowsForNoRemainder(n, w, d) == AvgRow(n, w)

\* `rows = (dest <= reRow) ? avgRow + 1 : avgRow`
RowsFor(n, w, d) ==
    IF d <= ReRow(n, w) THEN AvgRow(n, w) + 1 ELSE AvgRow(n, w)

\* The first row of block d, for d in 1..w+1 (OffsetOf(n, w, w + 1) = n).
OffsetOf(n, w, d) ==
    (d - 1) * AvgRow(n, w)
        + (IF d - 1 <= ReRow(n, w) THEN d - 1 ELSE ReRow(n, w))
=============================================================================
