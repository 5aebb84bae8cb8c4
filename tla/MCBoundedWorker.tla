--------------------------- MODULE MCBoundedWorker ---------------------------
EXTENDS BoundedWorker, TLC

CONSTANTS t1, t2, t3, t4, c1, c2

MCPlaces == t1 :> 0 @@ t2 :> 1 @@ t3 :> 2 @@ t4 :> 3
MCRank == [t \in Tasks |-> MCPlaces[t]]
MCTarget == [c \in Cancellers |-> IF c = c1 THEN t1 ELSE t2]
=============================================================================
