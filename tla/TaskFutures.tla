---------------------------- MODULE TaskFutures ----------------------------
(***************************************************************************)
(* The futures of async_task_worker/futures.py as a value.                 *)
(*                                                                         *)
(* There is one asyncio.Future per task id, shared by everyone who waits   *)
(* for that task.  The manager holds it only weakly (_futures, and         *)
(* _task_futures of the worker, which always refers to the same object):   *)
(* a future nobody holds is gone ("none").  _pending_tasks is a strong set *)
(* of ids kept beside it, and what cancel_all_futures() iterates over.     *)
(***************************************************************************)
CONSTANT FutureIds      \* the task ids futures are asked for

FutureState == {"none", "pending", "result", "exception", "cancelled"}

FuturesType ==
    [ state   : [FutureIds -> FutureState],
      tracked : SUBSET FutureIds ]              \* _pending_tasks

NoFutures == [state |-> [t \in FutureIds |-> "none"], tracked |-> {}]

\* A done future can no longer be resolved or cancelled.
Unresolved(f, t) == f.state[t] = "pending"

\* Seeded fault: the new future is not tracked.
GetFuture_Untracked(f, t) ==
    IF f.state[t] # "none" THEN f ELSE [f EXCEPT !.state[t] = "pending"]

\* get_future(): the existing future if somebody still holds it.
GetFuture(f, t) ==
    IF f.state[t] # "none" THEN f
    ELSE [f EXCEPT !.state[t] = "pending", !.tracked = @ \union {t}]

\* set_result(), set_exception() and cancel_future() share this shape: only
\* a future that is not done changes, and its id is no longer tracked.
Resolve(f, t, outcome) ==
    IF Unresolved(f, t)
    THEN [f EXCEPT !.state[t] = outcome, !.tracked = @ \ {t}]
    ELSE f

SetResult(f, t) == Resolve(f, t, "result")
SetException(f, t) == Resolve(f, t, "exception")

\* The same for a set of ids, one after the other.
ResolveAll(f, S, outcome) ==
    [ state   |-> [t \in FutureIds |-> IF t \in S /\ Unresolved(f, t)
                                       THEN outcome ELSE f.state[t]],
      tracked |-> f.tracked \ {t \in S : Unresolved(f, t)} ]

SetExceptionAll(f, S) == ResolveAll(f, S, "exception")
CancelFutures(f, S) == ResolveAll(f, S, "cancelled")

\* Seeded fault: the status is not looked at.
CompleteFrom_AnyStatus(f, t, status) == SetResult(f, t)

\* complete_from_task_info(), given the status of a task in a terminal state.
CompleteFrom(f, t, status) ==
    IF status = "COMPLETED" THEN SetResult(f, t) ELSE SetException(f, t)

\* cancel_all_futures(): every tracked future that is still unresolved; the
\* futures of untracked ids are out of its sight.
CancelAllFutures(f) ==
    [ state   |-> [t \in FutureIds |-> IF t \in f.tracked /\ Unresolved(f, t)
                                       THEN "cancelled" ELSE f.state[t]],
      tracked |-> {} ]

\* _cleanup_completed_futures(): forget the ids of resolved and lost futures.
CleanupCompleted(f) ==
    [f EXCEPT !.tracked = {t \in @ : Unresolved(f, t)}]

\* The last strong reference to the future goes away.
Lose(f, t) == [f EXCEPT !.state[t] = "none"]

\* A waiter's asyncio.timeout cancels the await, and with it the shared
\* future.  The manager is not told.
CancelledByWaiter(f, t) == [f EXCEPT !.state[t] = "cancelled"]
=============================================================================
