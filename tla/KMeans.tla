------------------------------- MODULE KMeans -------------------------------
(***************************************************************************)
(* KMeans::run of kmean_parallel.cpp: the points look for their nearest    *)
(* cluster in the 16 threads of an OpenMP loop, in any order; the clusters *)
(* are then filled again and their centroids moved by the first thread and *)
(* by loops that only add up.  kmean.cpp is the same program with one      *)
(* thread, whose order is one of those.                                    *)
(***************************************************************************)
EXTENDS Space

CONSTANT iters    \* the limit on the iterations, 100 in main

ASSUME ItersAssumption == iters \in Nat \ {0}

VARIABLES
    point,        \* all_points: their coordinates,
    cluster,      \* and their clusterId, 0 before the first
    centroid,
    iter,
    done,
    pending,      \* the points the loop has not come to
    finished      \* run has left its loop

vars == <<point, cluster, centroid, iter, done, pending, finished>>

\* K different points, drawn with rand(), become the first centroids.
Init ==
    /\ point \in [Points -> [Coordinates -> Value]]
    /\ \E seed \in [Clusters -> Points] :
        /\ \A c, d \in Clusters : seed[c] = seed[d] => c = d
        /\ centroid = [c \in Clusters |-> [j \in Coordinates |-> Scale * point[seed[c]][j]]]
        /\ cluster = [i \in Points |->
                        IF \E c \in Clusters : seed[c] = i
                        THEN CHOOSE c \in Clusters : seed[c] = i ELSE 0]
    /\ iter = 1
    /\ done = TRUE
    /\ pending = Points
    /\ finished = FALSE

\* Mistake: min_dist keeps the distance to the first cluster.
BugNearest(i) ==
    LET dist(c) == Distance(point[i], centroid[c])
        closer == {c \in Clusters : dist(c) < dist(1)}
    IN IF closer = {} THEN 1 ELSE CHOOSE c \in closer : \A d \in closer : d <= c

\* The first of the nearest clusters.
getNearestClusterId(i) ==
    LET dist(c) == Distance(point[i], centroid[c])
    IN CHOOSE c \in Clusters : \A d \in Clusters :
           dist(c) < dist(d) \/ (dist(c) = dist(d) /\ c <= d)

\* Mistake: done is shared without the reduction, and the last point decides.
BugAssign(i) ==
    /\ i \in pending
    /\ cluster' = [cluster EXCEPT ![i] = getNearestClusterId(i)]
    /\ done' = (cluster'[i] = cluster[i])
    /\ pending' = pending \ {i}
    /\ UNCHANGED <<point, centroid, iter, finished>>

\* One turn of the parallel loop.
Assign(i) ==
    /\ i \in pending
    /\ cluster' = [cluster EXCEPT ![i] = getNearestClusterId(i)]
    /\ done' = (done /\ cluster'[i] = cluster[i])
    /\ pending' = pending \ {i}
    /\ UNCHANGED <<point, centroid, iter, finished>>

Members(c) == {i \in Points : cluster[i] = c}

\* Mistake: an empty cluster is moved to the origin.
BugCentre(c) ==
    LET size == IF Members(c) = {} THEN 1 ELSE Cardinality(Members(c))
    IN [j \in Coordinates |->
          (Scale * Total(point, Members(c), j)) \div size]

Centre(c) ==
    IF Members(c) = {} THEN centroid[c]
    ELSE [j \in Coordinates |->
            (Scale * Total(point, Members(c), j))
                \div Cardinality(Members(c))]

\* Mistake: done is declared before the loop over the iterations.
BugRecentre ==
    /\ pending = {} /\ ~ finished
    /\ centroid' = [c \in Clusters |-> Centre(c)]
    /\ IF done \/ iter >= iters
       THEN finished' = TRUE /\ UNCHANGED <<iter, done, pending>>
       ELSE /\ iter' = iter + 1
            /\ pending' = Points
            /\ UNCHANGED <<finished, done>>
    /\ UNCHANGED <<point, cluster>>

\* The clusters are cleared and filled again, their centroids recalculated, and
\* the next iteration begins unless no point has moved.
Recentre ==
    /\ pending = {} /\ ~ finished
    /\ centroid' = [c \in Clusters |-> Centre(c)]
    /\ IF done \/ iter >= iters
       THEN finished' = TRUE /\ UNCHANGED <<iter, done, pending>>
       ELSE /\ iter' = iter + 1
            /\ done' = TRUE
            /\ pending' = Points
            /\ UNCHANGED finished
    /\ UNCHANGED <<point, cluster>>

Next ==
    \/ \E i \in Points : Assign(i)
    \/ Recentre
    \/ finished /\ UNCHANGED vars

\* The threads of the loop are scheduled fairly.
Fairness == WF_vars(Recentre) /\ \A i \in Points : WF_vars(Assign(i))

Spec == Init /\ [][Next]_vars /\ Fairness
-----------------------------------------------------------------------------
\* When run ends because no point has moved, what it writes out is a clustering
\* that another iteration would not change: every point is in a cluster whose
\* final centroid is nearest.
FixedPoint ==
    finished /\ done =>
        \A i \in Points, d \in Clusters :
            Distance(point[i], centroid[cluster[i]]) <= Distance(point[i], centroid[d])

\* Neither moving points nor moving centroids ever makes the clustering worse.
Cost ==
    LET sum[i \in 0 .. N] ==
            IF i = 0 THEN 0 ELSE sum[i - 1] + Distance(point[i], centroid[cluster[i]])
    IN sum[N]
CostNeverRises == [][(\A i \in Points : cluster[i] # 0) => Cost' <= Cost]_vars

\* The clustering settles before the limit on the iterations is reached.
Converges == <>(finished /\ done)

\* Whatever the order of the threads, an iteration is one of k-means.
Iterations == INSTANCE Lloyd
ImplementsLloyd == Iterations!Spec
=============================================================================
