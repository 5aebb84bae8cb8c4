---------------------- MODULE AsyncTaskWorkerRefinement ----------------------
(***************************************************************************)
(* A worker that is not stopped implements TaskLifecycle, for any number   *)
(* of tasks and workers, with cancellation and retention.                  *)
(***************************************************************************)
EXTENDS AsyncTaskWorkerProofs

\* There is no stop(): nobody cancels a worker.
NeverStopped == stopPc = "none" /\ wcancel = {}

\* A queued task can still be cancelled in the queue.
PendingIsTracked == \A t \in Tasks : status[t] = "PENDING" => t \in queue.queued

\* What a worker can still get is PENDING, or its record is gone and with it
\* the mark of its cancellation.
ValidIsPending == \A t \in Valid(queue) : status[t] \in {"PENDING", "removed"}

\* An execution that has not returned belongs to a task that was started and
\* has not ended, unless by cancel_task().
UnreturnedIsRunning ==
    \A t \in Tasks : exec[t] \in ExecLive \union {"raised", "cancelled"} =>
        status[t] \in {"RUNNING", "CANCELLED", "removed"}

LifecycleInv ==
    /\ NeverStopped
    /\ PendingIsTracked
    /\ ValidIsPending
    /\ UnreturnedIsRunning

-----------------------------------------------------------------------------
(* The invariant.                                                          *)

\* The callbacks at the end of a task, seen from its status.
LEMMA OnEndedStatus ==
    ASSUME TypeOK, NEW t \in Tasks, NEW s \in {"FAILED", "CANCELLED"}, OnEnded(t, s)
    PROVE  status' = [status EXCEPT ![t] = IF InTable(t) THEN s ELSE @]
  BY DEF TypeOK, OnEnded, Marked

LEMMA ClientLifecycleInv ==
    ASSUME "stop" \notin Calls, TypeOK, CoreInv, LifecycleInv, Clients
    PROVE  LifecycleInv'
<1> USE DEF LifecycleInv
<1>t. /\ status \in [Tasks -> Status]
      /\ exec \in [Tasks -> ExecState]
      /\ queue \in QueueType
  BY DEF TypeOK
<1>1. CASE Start
  <2>1. UNCHANGED <<stopPc, wcancel, queue, exec, status>>
    BY <1>1 DEF Start, workerVars, stopVars, execVars
  <2> QED
    BY <2>1 DEF NeverStopped, PendingIsTracked, ValidIsPending, UnreturnedIsRunning, Valid
<1>2. CASE StopBegin
  BY <1>2 DEF StopBegin
<1>3. CASE CleanupOldTasks
  <2>1. PICK S \in SUBSET {t \in Tasks : status[t] \in Terminal} :
           /\ status' = [t \in Tasks |-> IF t \in S THEN "removed" ELSE status[t]]
           /\ queue' = CleanCancelledTasks(queue, S)
    BY <1>3 DEF CleanupOldTasks
  <2>2. /\ queue'.heap = queue.heap
        /\ queue'.queued = queue.queued \ S
        /\ queue'.cancelled = queue.cancelled \ S
    BY <1>t, <2>1 DEF CleanCancelledTasks, QueueType
  <2>3. UNCHANGED <<stopPc, wcancel, exec>>
    BY <1>3 DEF CleanupOldTasks, workerVars, stopVars, execVars
  <2>4. PendingIsTracked'
    BY <2>1, <2>2 DEF PendingIsTracked, Terminal
  <2>5. ValidIsPending'
    BY <1>t, <2>1, <2>2 DEF ValidIsPending, Valid, QueueType
  <2>6. UnreturnedIsRunning'
    BY <1>t, <2>1, <2>3 DEF UnreturnedIsRunning
  <2> QED
    BY <2>3, <2>4, <2>5, <2>6 DEF NeverStopped
<1>4. ASSUME NEW t \in Tasks, AddTask(t) PROVE LifecycleInv'
  <2>1. /\ status' = [status EXCEPT ![t] = "PENDING"]
        /\ status[t] = "absent"
        /\ UNCHANGED <<stopPc, wcancel, exec>>
    BY <1>4 DEF AddTask, workerVars, stopVars, execVars
  <2>2. /\ queue'.heap = queue.heap \union {t}
        /\ queue'.queued = queue.queued \union {t}
        /\ queue'.cancelled = queue.cancelled
    BY <1>4 DEF AddTask, Put
  <2>3. exec[t] = "none"
    BY <2>1 DEF CoreInv, AbsentLeavesNoTrace
  <2>4. PendingIsTracked'
    BY <1>t, <2>1, <2>2 DEF PendingIsTracked
  <2>5. ValidIsPending'
    BY <1>t, <2>1, <2>2 DEF ValidIsPending, Valid, QueueType
  <2>6. UnreturnedIsRunning'
    BY <1>t, <2>1, <2>3 DEF UnreturnedIsRunning, ExecLive
  <2> QED
    BY <2>1, <2>4, <2>5, <2>6 DEF NeverStopped
<1>5. ASSUME NEW t \in Tasks, CancelPending(t) PROVE LifecycleInv'
  <2>1. /\ status' = [status EXCEPT ![t] = "CANCELLED"]
        /\ status[t] = "PENDING"
        /\ UNCHANGED <<stopPc, wcancel, exec>>
    BY <1>5, <1>t, OnEndedStatus DEF CancelPending, InTable, workerVars, stopVars, execVars
  <2>2. t \in queue.queued
    BY <2>1 DEF PendingIsTracked
  <2>3. /\ queue'.heap = queue.heap
        /\ queue'.queued = queue.queued \ {t}
        /\ queue'.cancelled = queue.cancelled \union {t}
    BY <1>5, <2>2 DEF CancelPending, RemoveTask
  <2>4. PendingIsTracked'
    BY <1>t, <2>1, <2>3 DEF PendingIsTracked
  <2>5. ValidIsPending'
    BY <1>t, <2>1, <2>3 DEF ValidIsPending, Valid, QueueType
  <2>6. UnreturnedIsRunning'
    BY <1>t, <2>1 DEF UnreturnedIsRunning
  <2> QED
    BY <2>1, <2>4, <2>5, <2>6 DEF NeverStopped
<1>6. ASSUME NEW t \in Tasks, CancelRunning(t) PROVE LifecycleInv'
  <2>1. /\ status' = [status EXCEPT ![t] = "CANCELLED"]
        /\ status[t] = "RUNNING"
        /\ UNCHANGED <<stopPc, wcancel, exec, queue>>
    BY <1>6, <1>t, OnEndedStatus DEF CancelRunning, InTable, workerVars, stopVars
  <2> QED
    BY <1>t, <2>1 DEF NeverStopped, PendingIsTracked, ValidIsPending, UnreturnedIsRunning, Valid,
       QueueType
<1>7. ASSUME NEW t \in Tasks, GetTaskFuture(t) \/ WaiterTimeout(t) \/ DropFuture(t)
      PROVE  LifecycleInv'
  <2>1. UNCHANGED <<stopPc, wcancel, exec, queue, status>>
    BY <1>7 DEF GetTaskFuture, WaiterTimeout, DropFuture, workerVars, stopVars, execVars
  <2> QED
    BY <2>1 DEF NeverStopped, PendingIsTracked, ValidIsPending, UnreturnedIsRunning, Valid
<1> QED
  BY <1>1, <1>2, <1>3, <1>4, <1>5, <1>6, <1>7 DEF Clients

LEMMA ExecutionLifecycleInv ==
    ASSUME TypeOK, LifecycleInv, NEW t \in Tasks, Execution(t)
    PROVE  LifecycleInv'
<1> USE DEF LifecycleInv, ExecLive
<1>t. /\ status \in [Tasks -> Status]
      /\ exec \in [Tasks -> ExecState]
      /\ queue \in QueueType
  BY DEF TypeOK
<1>1. UNCHANGED <<stopPc, wcancel, queue>>
  BY DEF Execution, ExecTypeError, ExecCacheHit, ExecCall, ExecCancelledEarly, ExecReturn, ExecRaise,
     ExecCancelled, ExecSwallow, stopVars, workerVars
<1>2. exec[t] \in ExecLive /\ status[t] \in {"RUNNING", "CANCELLED", "removed"}
  BY DEF Execution, ExecTypeError, ExecCacheHit, ExecCall, ExecCancelledEarly, ExecReturn, ExecRaise,
     ExecCancelled, ExecSwallow, Begins, UnreturnedIsRunning
<1>3. CASE ExecCacheHit(t) \/ ExecReturn(t)
  <2>1. /\ status' = [status EXCEPT ![t] = IF @ \in {"PENDING", "RUNNING"} THEN "COMPLETED" ELSE @]
        /\ exec' = [exec EXCEPT ![t] = "returned"]
    BY <1>3 DEF ExecCacheHit, ExecReturn, OnCompleted, Ended
  <2>2. PendingIsTracked' /\ UnreturnedIsRunning'
    BY <1>t, <1>1, <2>1 DEF PendingIsTracked, UnreturnedIsRunning
  <2>3. ValidIsPending'
    BY <1>t, <1>1, <1>2, <2>1 DEF ValidIsPending, Valid, QueueType
  <2> QED
    BY <1>1, <2>2, <2>3 DEF NeverStopped
<1>4. CASE ~(ExecCacheHit(t) \/ ExecReturn(t))
  <2>1. status' = status
    BY <1>4 DEF Execution, ExecTypeError, ExecCall, ExecCancelledEarly, ExecRaise, ExecCancelled,
       ExecSwallow
  <2>2. \A u \in Tasks : u # t => exec'[u] = exec[u]
    BY <1>t, <1>4 DEF Execution, ExecTypeError, ExecCall, ExecCancelledEarly, ExecRaise,
       ExecCancelled, ExecSwallow, Ended
  <2> QED
    BY <1>t, <1>1, <1>2, <2>1, <2>2 DEF NeverStopped, PendingIsTracked, ValidIsPending,
       UnreturnedIsRunning, Valid
<1> QED
  BY <1>3, <1>4

LEMMA WorkerLifecycleInv ==
    ASSUME TypeOK, CoreInv, LifecycleInv, NEW w \in Workers, Worker(w)
    PROVE  LifecycleInv'
<1> USE DEF LifecycleInv
<1>t. /\ status \in [Tasks -> Status]
      /\ exec \in [Tasks -> ExecState]
      /\ queue \in QueueType
      /\ wpc[w] = "busy" => wtask[w] \in Tasks
  BY DEF TypeOK
<1>1. CASE WorkerTake(w)
  <2>1. PICK t \in Tasks :
           /\ IsNext(queue, t)
           /\ queue' = Take(queue, t)
           /\ OnStarted(t)
           /\ exec' = [exec EXCEPT ![t] = "created"]
    BY <1>1 DEF WorkerTake
  <2>2. UNCHANGED <<stopPc, wcancel>>
    BY <1>1 DEF WorkerTake, stopVars
  <2>3. /\ queue'.heap = queue.heap \ (Before(queue, t) \union {t})
        /\ queue'.cancelled = queue.cancelled \ Before(queue, t)
        /\ queue'.queued = queue.queued \ {t}
    BY <2>1 DEF Take, Skip
  <2>4. t \in Valid(queue) /\ Valid(queue') \subseteq Valid(queue) \ {t}
    BY <2>1, <2>3 DEF IsNext, Valid
  <2>5. /\ status[t] \in {"PENDING", "removed"}
        /\ status' = [status EXCEPT ![t] = IF @ = "removed" THEN @ ELSE "RUNNING"]
    BY <1>t, <2>1, <2>4 DEF ValidIsPending, OnStarted, Marked, InTable
  <2>6. PendingIsTracked'
    BY <1>t, <2>3, <2>5 DEF PendingIsTracked
  <2>7. ValidIsPending'
    BY <1>t, <2>4, <2>5 DEF ValidIsPending, Valid, QueueType
  <2>8. UnreturnedIsRunning'
    BY <1>t, <2>1, <2>5 DEF UnreturnedIsRunning
  <2> QED
    BY <2>2, <2>6, <2>7, <2>8 DEF NeverStopped
<1>2. CASE WorkerDrain(w)
  <2>1. /\ queue'.heap = {}
        /\ queue'.queued = queue.queued
        /\ UNCHANGED <<stopPc, wcancel, exec, status>>
    BY <1>2 DEF WorkerDrain, Skip, stopVars, workerVars, execVars
  <2> QED
    BY <2>1 DEF NeverStopped, PendingIsTracked, ValidIsPending, UnreturnedIsRunning, Valid
<1>3. CASE WorkerLeave(w)
  <2>1. UNCHANGED <<stopPc, queue, exec, status>> /\ wcancel' \subseteq wcancel
    BY <1>3 DEF WorkerLeave, stopVars, execVars
  <2> QED
    BY <2>1 DEF NeverStopped, PendingIsTracked, ValidIsPending, UnreturnedIsRunning, Valid
<1>4. CASE WorkerReturned(w) \/ WorkerFailed(w) \/ WorkerCancelled(w)
  <2> DEFINE t == wtask[w]
  <2>1. /\ t \in Tasks
        /\ exec' = [exec EXCEPT ![t] = "over"]
        /\ queue' = TaskDone(queue)
        /\ exec[t] \in ExecDone
        /\ stopPc' = stopPc
        /\ wcancel' \subseteq wcancel
    BY <1>t, <1>4 DEF WorkerReturned, WorkerFailed, WorkerCancelled, Finished, stopVars, ExecDone
  <2>2. /\ queue'.heap = queue.heap
        /\ queue'.queued = queue.queued
        /\ queue'.cancelled = queue.cancelled
    BY <2>1 DEF TaskDone
  <2>3. t \notin Valid(queue)
    BY <2>1 DEF CoreInv, QueuedIsNotExecuted, Valid, ExecDone
  <2>4. /\ \A u \in Tasks : u # t => status'[u] = status[u]
        /\ status'[t] = "PENDING" => status[t] = "PENDING"
    BY <1>t, <1>4, <2>1, OnEndedStatus DEF WorkerReturned, WorkerFailed, WorkerCancelled
  <2>5. PendingIsTracked'
    BY <2>2, <2>4 DEF PendingIsTracked
  <2>6. ValidIsPending'
    BY <1>t, <2>2, <2>3, <2>4 DEF ValidIsPending, Valid, QueueType
  <2>7. UnreturnedIsRunning'
    BY <1>t, <2>1, <2>4 DEF UnreturnedIsRunning, ExecLive
  <2> QED
    BY <2>1, <2>5, <2>6, <2>7 DEF NeverStopped
<1> QED
  BY <1>1, <1>2, <1>3, <1>4 DEF Worker

LEMMA LifecycleInvariant == ASSUME "stop" \notin Calls PROVE Spec => []LifecycleInv
<1>1. Init => LifecycleInv
  BY DEF Init, EmptyQueue, LifecycleInv, NeverStopped, PendingIsTracked, ValidIsPending, Valid,
     UnreturnedIsRunning, ExecLive
<1>2. ASSUME TypeOK, CoreInv, LifecycleInv, [Next]_vars
      PROVE  LifecycleInv'
  <2>1. CASE UNCHANGED vars \/ Housekeeping
    <3>1. UNCHANGED <<stopPc, wcancel, queue, exec, status>>
      BY <2>1 DEF vars, Housekeeping, FutureCleanup, CacheForget, stopVars, workerVars, execVars
    <3> QED
      BY <1>2, <3>1 DEF LifecycleInv, NeverStopped, PendingIsTracked, ValidIsPending,
         UnreturnedIsRunning, Valid
  <2>2. ~Stopping
    BY <1>2 DEF LifecycleInv, NeverStopped, Stopping, StopPool, StopTimeout, StopForce, StopGathered
  <2> QED
    BY <1>2, <2>1, <2>2, ClientLifecycleInv, ExecutionLifecycleInv, WorkerLifecycleInv DEF Next
<1> QED
  BY <1>1, <1>2, TypeCorrect, CoreCorrect, PTL DEF Spec

-----------------------------------------------------------------------------
(* The steps, as their clients see them.                                   *)

StepOrStutter == [Lifecycle!Next]_(Lifecycle!vars)

LEMMA Stutters == (UNCHANGED <<status, futures>>) => StepOrStutter
  BY DEF StepOrStutter, Lifecycle!vars

\* Settling the future of a task, as a function of the futures.
LEMMA ResolveMap ==
    ASSUME NEW t \in Tasks, NEW o \in {"result", "exception"}, futures \in F!FuturesType
    PROVE  F!Resolve(futures, t, o).state =
               [futures.state EXCEPT ![t] = IF @ = "pending" THEN o ELSE @]
  BY DEF F!FuturesType, F!Resolve, F!Unresolved

\* _on_task_failed() and _on_task_cancelled() end the task, or change nothing.
LEMMA OnEndedRefines ==
    ASSUME TypeOK, NoWaiterLeftBehind, NEW t \in Tasks, NEW s \in {"FAILED", "CANCELLED"},
           OnEnded(t, s), status[t] \in {"PENDING", "RUNNING", "CANCELLED", "removed"},
           status[t] = "PENDING" => s = "CANCELLED"
    PROVE  StepOrStutter
<1>t. status \in [Tasks -> Status] /\ futures \in F!FuturesType
  BY DEF TypeOK
<1>0. status' = [status EXCEPT ![t] = IF InTable(t) THEN s ELSE @]
  BY OnEndedStatus
<1>1. CASE status[t] = "removed"
  BY <1>t, <1>0, <1>1, Stutters DEF OnEnded, InTable
<1>2. CASE status[t] = "CANCELLED" /\ s = "CANCELLED"
  <2>1. ~F!Unresolved(futures, t)
    BY <1>2 DEF NoWaiterLeftBehind
  <2>2. futures' = futures
    BY <2>1 DEF OnEnded, F!SetException, F!Resolve
  <2> QED
    BY <1>t, <1>0, <1>2, <2>2, Stutters
<1>3. CASE status[t] \in {"PENDING", "RUNNING"} \/ (status[t] = "CANCELLED" /\ s = "FAILED")
  <2>1. InTable(t) /\ s \in Terminal
    BY <1>3 DEF InTable, Terminal
  <2>2. futures'.state = [futures.state EXCEPT ![t] = IF @ = "pending" THEN "exception" ELSE @]
    BY <1>t, <2>1, ResolveMap DEF OnEnded, F!SetException
  <2>3. status[t] \in Lifecycle!MayEnd(s)
    BY <1>3 DEF Lifecycle!MayEnd
  <2>4. Lifecycle!OutcomeOf(s) = "exception"
    BY DEF Lifecycle!OutcomeOf
  <2>5. Lifecycle!End(t, s)
    BY <1>0, <2>1, <2>2, <2>3, <2>4 DEF Lifecycle!End
  <2> QED
    BY <2>1, <2>5 DEF StepOrStutter, Lifecycle!Next, Lifecycle!Terminal, Terminal
<1> QED
  BY <1>1, <1>2, <1>3

\* _on_task_completed() ends a running task and changes no other.
LEMMA OnCompletedRefines ==
    ASSUME TypeOK, NoWaiterLeftBehind, NEW t \in Tasks, NEW hit \in BOOLEAN,
           OnCompleted(t, hit), status[t] \in {"RUNNING", "CANCELLED", "removed"}
    PROVE  StepOrStutter
<1>t. status \in [Tasks -> Status] /\ futures \in F!FuturesType
  BY DEF TypeOK
<1>1. CASE status[t] = "removed"
  BY <1>t, <1>1, Stutters DEF OnCompleted, InTable
<1>2. CASE status[t] = "CANCELLED"
  <2>1. ~F!Unresolved(futures, t)
    BY <1>2 DEF NoWaiterLeftBehind
  <2>2. futures' = futures
    BY <2>1 DEF OnCompleted, F!SetResult, F!Resolve
  <2> QED
    BY <1>t, <1>2, <2>2, Stutters DEF OnCompleted
<1>3. CASE status[t] = "RUNNING"
  <2>1. status' = [status EXCEPT ![t] = "COMPLETED"]
    BY <1>t, <1>3 DEF OnCompleted
  <2>2. futures'.state = [futures.state EXCEPT ![t] = IF @ = "pending" THEN "result" ELSE @]
    BY <1>t, <1>3, ResolveMap DEF OnCompleted, InTable, F!SetResult
  <2>3. status[t] \in Lifecycle!MayEnd("COMPLETED")
    BY <1>3 DEF Lifecycle!MayEnd
  <2>4. Lifecycle!End(t, "COMPLETED")
    BY <2>1, <2>2, <2>3 DEF Lifecycle!End, Lifecycle!OutcomeOf
  <2> QED
    BY <2>4 DEF StepOrStutter, Lifecycle!Next, Lifecycle!Terminal
<1> QED
  BY <1>1, <1>2, <1>3

LEMMA ClientRefines ==
    ASSUME TypeOK, CoreInv, Clients
    PROVE  StepOrStutter
<1>t. /\ status \in [Tasks -> Status]
      /\ futures \in F!FuturesType
      /\ NoWaiterLeftBehind
  BY DEF TypeOK, CoreInv
<1>1. CASE Start \/ StopBegin
  BY <1>1, Stutters DEF Start, StopBegin
<1>2. CASE CleanupOldTasks
  <2>1. PICK S \in SUBSET {t \in Tasks : status[t] \in Terminal} :
           /\ status' = [t \in Tasks |-> IF t \in S THEN "removed" ELSE status[t]]
           /\ futures' = F!CancelFutures(futures, S)
    BY <1>2 DEF CleanupOldTasks
  <2>2. \A t \in S : ~F!Unresolved(futures, t)
    BY <1>t, <2>1 DEF NoWaiterLeftBehind, Terminal
  <2>3. futures'.state = futures.state
    BY <1>t, <2>1, <2>2 DEF F!CancelFutures, F!ResolveAll, F!FuturesType
  <2>4. Lifecycle!Forget(S)
    BY <2>1, <2>2, <2>3 DEF Lifecycle!Forget, Lifecycle!Terminal, Terminal, F!Unresolved
  <2> QED
    BY <2>1, <2>4 DEF StepOrStutter, Lifecycle!Next
<1>3. ASSUME NEW t \in Tasks, AddTask(t) PROVE StepOrStutter
  BY <1>3 DEF AddTask, StepOrStutter, Lifecycle!Next, Lifecycle!Submit
<1>4. ASSUME NEW t \in Tasks, CancelPending(t) \/ CancelRunning(t) PROVE StepOrStutter
  BY <1>t, <1>4, OnEndedRefines DEF CancelPending, CancelRunning
<1>5. ASSUME NEW t \in Tasks, GetTaskFuture(t) PROVE StepOrStutter
  <2>1. /\ InTable(t)
        /\ futures.state[t] = "none"
        /\ status' = status
    BY <1>5 DEF GetTaskFuture
  <2> DEFINE f == F!GetFuture(futures, t)
  <2>2. f \in F!FuturesType /\ f.state = [futures.state EXCEPT ![t] = "pending"]
    BY <1>t, <2>1 DEF F!GetFuture, F!FuturesType, F!FutureState
  <2>3. futures'.state = [futures.state EXCEPT ![t] = IF status[t] \in Terminal
                              THEN Lifecycle!OutcomeOf(status[t]) ELSE "pending"]
    <3> HIDE DEF f
    <3>1. futures' = IF status[t] \in Terminal THEN F!CompleteFrom(f, t, status[t]) ELSE f
      BY <1>5 DEF GetTaskFuture, f
    <3> QED
      BY <1>t, <2>2, <3>1 DEF F!CompleteFrom, F!SetResult, F!SetException, F!Resolve, F!Unresolved,
         F!FuturesType, Lifecycle!OutcomeOf
  <2>4. Lifecycle!Watch(t)
    BY <1>t, <2>1, <2>3 DEF Lifecycle!Watch, Lifecycle!Terminal, Terminal, InTable, Status
  <2> QED
    BY <2>4 DEF StepOrStutter, Lifecycle!Next
<1>6. ASSUME NEW t \in Tasks, WaiterTimeout(t) \/ DropFuture(t) PROVE StepOrStutter
  <2>1. Lifecycle!GiveUp(t)
    BY <1>t, <1>6 DEF WaiterTimeout, DropFuture, Lifecycle!GiveUp, F!Unresolved, F!Lose,
       F!CancelledByWaiter, F!FuturesType
  <2> QED
    BY <2>1 DEF StepOrStutter, Lifecycle!Next
<1> QED
  BY <1>1, <1>2, <1>3, <1>4, <1>5, <1>6 DEF Clients

LEMMA HousekeepingRefines == ASSUME TypeOK, Housekeeping PROVE StepOrStutter
<1>1. futures \in F!FuturesType
  BY DEF TypeOK
<1>2. status' = status /\ futures'.state = futures.state
  BY <1>1 DEF Housekeeping, FutureCleanup, CacheForget, F!CleanupCompleted, F!FuturesType
<1> QED
  BY <1>2 DEF StepOrStutter, Lifecycle!vars

LEMMA ExecutionRefines ==
    ASSUME TypeOK, CoreInv, LifecycleInv, NEW t \in Tasks, Execution(t)
    PROVE  StepOrStutter
<1>1. CASE ExecCacheHit(t) \/ ExecReturn(t)
  <2>1. status[t] \in {"RUNNING", "CANCELLED", "removed"}
    BY <1>1 DEF ExecCacheHit, ExecReturn, Begins, ExecLive, LifecycleInv, UnreturnedIsRunning
  <2> QED
    BY <1>1, <2>1, OnCompletedRefines DEF ExecCacheHit, ExecReturn, CoreInv
<1>2. CASE ~(ExecCacheHit(t) \/ ExecReturn(t))
  BY <1>2, Stutters DEF Execution, ExecTypeError, ExecCall, ExecCancelledEarly, ExecRaise,
     ExecCancelled, ExecSwallow
<1> QED
  BY <1>1, <1>2

LEMMA WorkerRefines ==
    ASSUME TypeOK, CoreInv, LifecycleInv, NEW w \in Workers, Worker(w)
    PROVE  StepOrStutter
<1>t. status \in [Tasks -> Status] /\ (wpc[w] = "busy" => wtask[w] \in Tasks)
  BY DEF TypeOK
<1>1. CASE WorkerTake(w)
  <2>1. PICK t \in Tasks : IsNext(queue, t) /\ OnStarted(t) /\ futures' = futures
    BY <1>1 DEF WorkerTake
  <2>2. status[t] \in {"PENDING", "removed"}
    BY <2>1 DEF IsNext, LifecycleInv, ValidIsPending
  <2>3. CASE status[t] = "PENDING"
    BY <2>1, <2>3 DEF OnStarted, Marked, InTable, StepOrStutter, Lifecycle!Next, Lifecycle!Begin
  <2>4. CASE status[t] = "removed"
    BY <1>t, <2>1, <2>4, Stutters DEF OnStarted, Marked, InTable
  <2> QED
    BY <2>2, <2>3, <2>4
<1>2. CASE WorkerDrain(w) \/ WorkerLeave(w) \/ WorkerReturned(w)
  BY <1>2, Stutters DEF WorkerDrain, WorkerLeave, WorkerReturned
<1>3. CASE WorkerFailed(w) \/ WorkerCancelled(w)
  <2>1. exec[wtask[w]] \in {"raised", "cancelled"} /\ wtask[w] \in Tasks
    BY <1>t, <1>3 DEF WorkerFailed, WorkerCancelled, LifecycleInv, NeverStopped
  <2>2. status[wtask[w]] \in {"RUNNING", "CANCELLED", "removed"}
    BY <2>1 DEF LifecycleInv, UnreturnedIsRunning
  <2> QED
    BY <1>3, <2>1, <2>2, OnEndedRefines DEF WorkerFailed, WorkerCancelled, CoreInv
<1> QED
  BY <1>1, <1>2, <1>3 DEF Worker

LEMMA StepRefines ==
    ASSUME TypeOK, CoreInv, LifecycleInv, [Next]_vars
    PROVE  StepOrStutter
<1>1. CASE UNCHANGED vars
  BY <1>1, Stutters DEF vars
<1>2. ~Stopping
  BY DEF LifecycleInv, NeverStopped, Stopping, StopPool, StopTimeout, StopForce, StopGathered
<1> QED
  BY <1>1, <1>2, ClientRefines, HousekeepingRefines, ExecutionRefines, WorkerRefines DEF Next

\* As long as nobody calls stop(), a client that reads statuses and waits on
\* futures cannot tell the worker, with its queue, its workers, its executions
\* and its cache, from the table of TaskLifecycle.
THEOREM LifecycleImplemented == ASSUME "stop" \notin Calls PROVE Spec => ImplementsLifecycle
<1>1. Init => Lifecycle!Init
  BY DEF Init, Lifecycle!Init, F!NoFutures
<1>2. ASSUME TypeOK, CoreInv, LifecycleInv, [Next]_vars
      PROVE  [Lifecycle!Next]_(Lifecycle!vars)
  BY <1>2, StepRefines DEF StepOrStutter
<1> QED
  BY <1>1, <1>2, TypeCorrect, CoreCorrect, LifecycleInvariant, PTL
  DEF Spec, ImplementsLifecycle, Lifecycle!Spec

-----------------------------------------------------------------------------
(* What follows for clients.                                               *)

\* The steps of TaskLifecycle keep what a settled future says true: a task that
\* is COMPLETED stays so, and one that has failed or was cancelled has no other
\* end than these two.
LEMMA LifecycleAgrees ==
    ASSUME TypeOK, FutureAgrees, StepOrStutter
    PROVE  FutureAgrees'
<1>t. /\ status \in [Tasks -> Status]
      /\ futures.state \in [Tasks -> F!FutureState]
  BY DEF TypeOK, F!FuturesType
<1> USE DEF FutureAgrees
<1>1. CASE UNCHANGED Lifecycle!vars
  BY <1>1 DEF Lifecycle!vars
<1>2. ASSUME NEW t \in Tasks,
             Lifecycle!Submit(t) \/ Lifecycle!Begin(t) \/ Lifecycle!Watch(t) \/ Lifecycle!GiveUp(t)
      PROVE  FutureAgrees'
  BY <1>t, <1>2 DEF Lifecycle!Submit, Lifecycle!Begin, Lifecycle!Watch, Lifecycle!GiveUp,
     Lifecycle!Terminal, Lifecycle!OutcomeOf
<1>3. ASSUME NEW t \in Tasks, NEW s \in Lifecycle!Terminal, Lifecycle!End(t, s)
      PROVE  FutureAgrees'
  <2>1. status[t] \in {"PENDING", "RUNNING", "CANCELLED"}
    BY <1>3 DEF Lifecycle!End, Lifecycle!MayEnd, Lifecycle!Terminal
  <2>2. status[t] = "CANCELLED" => s = "FAILED"
    BY <1>3 DEF Lifecycle!End, Lifecycle!MayEnd, Lifecycle!Terminal
  <2> QED
    BY <1>t, <1>3, <2>1, <2>2 DEF Lifecycle!End, Lifecycle!Terminal, Lifecycle!OutcomeOf
<1>4. ASSUME NEW S \in SUBSET Tasks, Lifecycle!Forget(S) PROVE FutureAgrees'
  BY <1>t, <1>4 DEF Lifecycle!Forget, Lifecycle!Terminal
<1> QED
  BY <1>1, <1>2, <1>3, <1>4 DEF StepOrStutter, Lifecycle!Next

\* As long as nobody calls stop(), what a future says is what the status says,
\* whichever way and however late the task ended.
THEOREM FuturesAgree == ASSUME "stop" \notin Calls PROVE Spec => []FutureAgrees
<1>1. Init => FutureAgrees
  BY DEF Init, F!NoFutures, FutureAgrees
<1>2. ASSUME TypeOK, CoreInv, LifecycleInv, FutureAgrees, [Next]_vars
      PROVE  FutureAgrees'
  BY <1>2, StepRefines, LifecycleAgrees
<1> QED
  BY <1>1, <1>2, TypeCorrect, CoreCorrect, LifecycleInvariant, PTL DEF Spec

\* As long as nobody calls stop(), a task that was cancelled before it was
\* started never is: what a worker can still get is PENDING or has no record.
THEOREM CancelledTasksNeverStart ==
    ASSUME "stop" \notin Calls PROVE Spec => CancelledIsNeverStarted
<1>1. ASSUME TypeOK, LifecycleInv, [Next]_vars,
             NEW t \in Tasks, status[t] = "CANCELLED", exec[t] = "none"
      PROVE  exec'[t] = "none"
  <2>1. t \notin Valid(queue)
    BY <1>1 DEF LifecycleInv, ValidIsPending
  <2> QED
    BY <1>1, <2>1, CreatedByTake DEF IsNext
<1>2. TypeOK /\ LifecycleInv /\ [Next]_vars =>
          [\A t \in Tasks : status[t] = "CANCELLED" /\ exec[t] = "none"
                                => exec'[t] = "none"]_vars
  BY <1>1
<1> QED
  BY <1>2, TypeCorrect, LifecycleInvariant, PTL DEF Spec, CancelledIsNeverStarted
=============================================================================
