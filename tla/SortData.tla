------------------------------ MODULE SortData ------------------------------
(***************************************************************************)
(* What the quicksorts of Module2/Complex Threading sort.                  *)
(***************************************************************************)
EXTENDS Integers

CONSTANTS
    N,        \* the number of elements: 100000 in the one, read in the other
    Value     \* the values of the elements

ASSUME NAssumption == N \in Nat
ASSUME ValueAssumption == Value \subseteq Int

Index == 0 .. N - 1
=============================================================================
