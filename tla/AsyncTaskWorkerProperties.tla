---------------------- MODULE AsyncTaskWorkerProperties ----------------------
(***************************************************************************)
(* What AsyncTaskWorker should guarantee, and the fairness under which it  *)
(* makes progress.                                                         *)
(***************************************************************************)
EXTENDS AsyncTaskWorker

Working(w, t) == wpc[w] = "busy" /\ wtask[w] = t

-----------------------------------------------------------------------------
(* What holds whatever the clients call, and whenever.                     *)

\* A task shown as PENDING "is queued but not yet running": its entry is in
\* the heap and nothing will make a worker skip it.
PendingIsQueued ==
    \A t \in Tasks : status[t] = "PENDING" => t \in Valid(queue)

\* A task shown as RUNNING has a worker that will report its end.  Were a
\* worker to die or forget it, the status would stay RUNNING for ever.
RunningHasWorker ==
    \A t \in Tasks : status[t] = "RUNNING" => \E w \in Workers : Working(w, t)

\* No lost wakeup: a future that is still unresolved belongs to a task whose
\* end is still to come.  get_task_future() races with every way a task ends.
NoWaiterLeftBehind ==
    \A t \in Tasks : F!Unresolved(futures, t) => status[t] \in {"PENDING", "RUNNING"}

\* The count that TaskQueue.join() waits for: every entry gets exactly one
\* task_done(), the skipped ones, the cancelled ones and those whose worker
\* was cancelled included.
UnfinishedCount ==
    queue.unfinished =
        Cardinality(queue.heap) + Cardinality({w \in Workers : wpc[w] = "busy"})

\* from_cache tells whether the function was really not called.
FromCacheTruthful ==
    \A t \in Tasks : status[t] = "COMPLETED" => (t \in fromCache <=> t \notin called)

\* Workers serve the waiting tasks in the order of their priorities.
PriorityOrder ==
    [][\A s, t \in Tasks :
          exec[t] = "none" /\ exec'[t] = "created" /\ status[s] = "PENDING"
              => Rank[t] <= Rank[s]]_vars

\* What makes the first three inductive: of a task that was never submitted
\* there is no trace, a queued task was never executed, and an execution that
\* returned has ended its task before its worker knows.
AbsentLeavesNoTrace ==
    \A t \in Tasks : status[t] = "absent" =>
        t \notin queue.heap /\ t \notin queue.cancelled /\ exec[t] = "none"

QueuedIsNotExecuted == \A t \in queue.heap : exec[t] = "none"

ReturnedHasEnded ==
    \A t \in Tasks : exec[t] = "returned" => status[t] \notin {"PENDING", "RUNNING"}

\* Every task is either still queued, or in the hands of a worker, or at its
\* end; and whoever waits for it waits for something that is still to come.
CoreInv ==
    /\ NoWaiterLeftBehind
    /\ PendingIsQueued
    /\ RunningHasWorker
    /\ AbsentLeavesNoTrace
    /\ QueuedIsNotExecuted
    /\ ReturnedHasEnded

-----------------------------------------------------------------------------
(* What holds of a worker that is not stopped.                             *)

\* What a future says is what the status says: a result only for a COMPLETED
\* task, an exception only for one that FAILED or was CANCELLED.  A future may
\* outlive the record of its task.
FutureAgrees ==
    \A t \in Tasks :
        /\ futures.state[t] = "result" => status[t] \in {"COMPLETED", "removed"}
        /\ futures.state[t] = "exception" => status[t] \in {"FAILED", "CANCELLED", "removed"}

\* A task cancelled before it was started is never started.
CancelledIsNeverStarted ==
    [][\A t \in Tasks :
          status[t] = "CANCELLED" /\ exec[t] = "none" => exec'[t] = "none"]_vars

\* The worker implements the life of a task as its clients know it.
Lifecycle == INSTANCE TaskLifecycle WITH future <- futures.state
ImplementsLifecycle == Lifecycle!Spec

-----------------------------------------------------------------------------
(* Shutdown.                                                               *)

Serving(t) == exec[t] \in ExecLive

\* At no time, and after no restart, are more tasks executed than the pool
\* has workers.
WithinMaxWorkers ==
    Cardinality({t \in Tasks : Serving(t)}) <= MaxWorkers

\* When stop() has returned nothing of the pool is left: no execution, no
\* worker, no request on its way.
StopLeavesNothing ==
    ~running /\ stopPc = "none" =>
        /\ \A w \in Workers : wpc[w] = "off"
        /\ \A t \in Tasks : exec[t] \notin ExecLive \union ExecDone
        /\ wcancel = {} /\ execCancel = {}

\* Between the cancellation of the workers and the next start() no worker
\* picks up another task, although the queue may hold many.
StoppedPoolStartsNothing ==
    [][~poolRunning => \A t \in Tasks : exec[t] = "none" => exec'[t] = "none"]_vars

\* The step of stop() that cancels the futures leaves no waiter pending.
StopReleasesWaiters ==
    [][stopPc = "closing" /\ stopPc' # "closing" =>
          \A t \in Tasks : futures'.state[t] # "pending"]_vars

-----------------------------------------------------------------------------
(* Progress.                                                               *)

\* The event loop runs what is ready and fires what is due.  Nothing is
\* assumed of the clients, and of a task function only that one which does
\* not catch CancelledError is left by it.
Fairness ==
    /\ \A w \in Workers : WF_vars(Worker(w))
    /\ \A t \in Tasks :
          WF_vars(ExecTypeError(t) \/ ExecCacheHit(t) \/ ExecCall(t) \/ ExecCancelledEarly(t))
    /\ \A t \in Tasks \ Stubborn : WF_vars(ExecCancelled(t))
    /\ WF_vars(StopPool \/ StopGathered)
    /\ WF_vars(StopTimeout)
    /\ WF_vars(StopForce)

FairSpec == Spec /\ Fairness

\* Task functions end by themselves.
FunctionsEnd ==
    \A t \in Tasks : WF_vars(ExecReturn(t) \/ ExecRaise(t) \/ ExecCancelled(t))

\* If task functions end by themselves, every submitted task comes to an end,
\* unless the worker is stopped.
EveryTaskEnds ==
    FunctionsEnd =>
        \A t \in Tasks :
            status[t] = "PENDING" ~> status[t] \in Terminal \union {"removed"} \/ ~running

\* If task functions end by themselves, nobody waits for ever on a worker that
\* is not stopped.
EveryWaiterWakes ==
    FunctionsEnd =>
        \A t \in Tasks : F!Unresolved(futures, t) ~> ~F!Unresolved(futures, t) \/ ~running

\* stop() returns, even if no task function would end by itself.
StopReturns == stopPc # "none" ~> stopPc = "none"
=============================================================================
