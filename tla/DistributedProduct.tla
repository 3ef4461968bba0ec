------------------------- MODULE DistributedProduct -------------------------
(***************************************************************************)
(* What the distributed matrix programs promise, without messages: the     *)
(* rows of the product arrive at rank 0 block by block, each row once and  *)
(* right, and the program says it is done only when the product is whole.  *)
(* A launch that has nobody to do the work is refused before any row.      *)
(***************************************************************************)
EXTENDS Integers

CONSTANT Unknown    \* the value of a row that has not arrived

VARIABLES
    size,       \* number of rows
    product,    \* row i is i when it is right
    outcome     \* "running", "complete" or "refused"

vars == <<size, product, outcome>>

Missing == {i \in 0 .. size - 1 : product[i] = Unknown}

Init ==
    /\ size \in Nat \ {0}
    /\ product = [i \in 0 .. size - 1 |-> Unknown]
    /\ outcome = "running"

Deliver ==
    /\ outcome = "running"
    /\ \E first \in Missing : \E last \in first .. size - 1 :
          /\ first .. last \subseteq Missing
          /\ product' = [i \in 0 .. size - 1 |->
                            IF i \in first .. last THEN i ELSE product[i]]
    /\ UNCHANGED <<size, outcome>>

Complete ==
    /\ outcome = "running"
    /\ Missing = {}
    /\ outcome' = "complete"
    /\ UNCHANGED <<size, product>>

Refuse ==
    /\ outcome = "running"
    /\ Missing = 0 .. size - 1
    /\ outcome' = "refused"
    /\ UNCHANGED <<size, product>>

Next == Deliver \/ Complete \/ Refuse

Spec == Init /\ [][Next]_vars /\ WF_vars(Next)
=============================================================================
