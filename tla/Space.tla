------------------------------- MODULE Space -------------------------------
(***************************************************************************)
(* Points and the distance between them, in units of 1 / Scale, so that    *)
(* the mean of any set of points is exact: the programs' doubles are       *)
(* replaced by exact numbers.  Distances are squared, which keeps their    *)
(* order.                                                                  *)
(***************************************************************************)
EXTENDS Integers, FiniteSets

CONSTANTS
    N,             \* points
    K,             \* clusters
    Dimensions,
    Value,         \* the coordinates of the points
    Scale          \* a multiple of every size of a cluster

ASSUME SizeAssumption == N \in Nat /\ K \in 1 .. N /\ Dimensions \in Nat \ {0}
ASSUME ValueAssumption == Value \subseteq Int
ASSUME ScaleAssumption == Scale \in Nat \ {0} /\ \A n \in 1 .. N : Scale % n = 0

Points == 1 .. N
Clusters == 1 .. K
Coordinates == 1 .. Dimensions

Square(x) == x * x

\* From a point to a centroid.
Distance(p, c) ==
    LET sum[j \in 0 .. Dimensions] ==
            IF j = 0 THEN 0 ELSE sum[j - 1] + Square(c[j] - Scale * p[j])
    IN sum[Dimensions]

\* The sum of the coordinates j of the points of S.
Total(point, S, j) ==
    LET sum[i \in 0 .. N] ==
            IF i = 0 THEN 0 ELSE sum[i - 1] + IF i \in S THEN point[i][j] ELSE 0
    IN sum[N]
=============================================================================
