-------------------------- MODULE MCAsyncTaskWorker --------------------------
(***************************************************************************)
(* Small instances of AsyncTaskWorker.  The priorities of the tasks are in *)
(* the order of their names; all tasks make the same call, so those that   *)
(* use the cache share one entry.                                          *)
(***************************************************************************)
EXTENDS AsyncTaskWorkerProperties, TLC

CONSTANTS t1, t2, t3

MCRank2 == t1 :> 0 @@ t2 :> 1
MCRank3 == MCRank2 @@ t3 :> 2

MCKeyOf == [t \in Tasks |-> CHOOSE k \in Keys : TRUE]

\* Only in runs of safety properties.
MCSymmetry == Permutations(Workers)
=============================================================================
