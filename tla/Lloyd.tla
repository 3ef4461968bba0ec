------------------------------- MODULE Lloyd -------------------------------
(***************************************************************************)
(* What an iteration of k-means promises: every point joins a cluster of   *)
(* nearest centroid, all by the centroids of the iteration before, and     *)
(* every centroid with points moves to their mean.  Which of several       *)
(* nearest clusters a point joins is left open.                            *)
(***************************************************************************)
EXTENDS Space

VARIABLES
    point,       \* the data, never changed
    centroid     \* in units of 1 / Scale

vars == <<point, centroid>>

Init ==
    /\ point \in [Points -> [Coordinates -> Value]]
    /\ \E seed \in [Clusters -> Points] :
        centroid = [c \in Clusters |-> [j \in Coordinates |-> Scale * point[seed[c]][j]]]

IsNearest(c, i) ==
    \A d \in Clusters : Distance(point[i], centroid[c]) <= Distance(point[i], centroid[d])

\* m is the mean of the points of S.
IsMean(m, S) ==
    \A j \in Coordinates :
        Cardinality(S) * m[j] = Scale * Total(point, S, j)

\* The centroids a may follow, in which the points of c are those at c.
Follows(a) ==
    \A c \in Clusters :
        LET S == {i \in Points : a[i] = c} IN
        IF S = {} THEN centroid'[c] = centroid[c] ELSE IsMean(centroid'[c], S)

Iterate ==
    /\ \E a \in [Points -> Clusters] :
        /\ \A i \in Points : IsNearest(a[i], i)
        /\ Follows(a)
    /\ UNCHANGED point

Spec == Init /\ [][Iterate]_vars
=============================================================================
