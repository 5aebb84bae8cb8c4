------------------------ MODULE AsyncTaskWorkerProofs ------------------------
(***************************************************************************)
(* Theorems about AsyncTaskWorker, for any number of tasks and workers.    *)
(***************************************************************************)
EXTENDS AsyncTaskWorkerProperties, FiniteSetTheorems, TLAPS

-----------------------------------------------------------------------------
(* The queue operators keep the type of the queue.                         *)

LEMMA FinitePart ==
    ASSUME NEW S \in SUBSET Tasks
    PROVE  IsFiniteSet(S) /\ Cardinality(S) \in Nat
  BY FS_Subset, FS_CardinalityType, QueueAssumption

LEMMA SkipType ==
    ASSUME NEW q \in QueueType, NEW S \in SUBSET Tasks
    PROVE  Skip(q, S) \in QueueType
<1>1. Cardinality(S) \in Int
  BY FinitePart
<1> QED
  BY <1>1 DEF QueueType, Skip

LEMMA TakeType ==
    ASSUME NEW q \in QueueType, NEW t \in Tasks
    PROVE  Take(q, t) \in QueueType
<1>1. Before(q, t) \in SUBSET Tasks
  BY DEF QueueType, Before
<1>2. Skip(q, Before(q, t)) \in QueueType
  BY <1>1, SkipType
<1> QED
  BY <1>2 DEF QueueType, Take

LEMMA QueueOperatorTypes ==
    ASSUME NEW q \in QueueType, NEW t \in Tasks, NEW S \in SUBSET Tasks
    PROVE  /\ Put(q, t) \in QueueType
           /\ TaskDone(q) \in QueueType
           /\ RemoveTask(q, t) \in QueueType
           /\ CleanCancelledTasks(q, S) \in QueueType
           /\ ClearTracking(q) \in QueueType
<1>1. Put(q, t) \in QueueType
  BY DEF QueueType, Put
<1>2. TaskDone(q) \in QueueType
  BY DEF QueueType, TaskDone
<1>3. RemoveTask(q, t) \in QueueType
  BY DEF QueueType, RemoveTask
<1>4. CleanCancelledTasks(q, S) \in QueueType
  BY DEF QueueType, CleanCancelledTasks
<1>5. ClearTracking(q) \in QueueType
  BY DEF QueueType, ClearTracking
<1> QED
  BY <1>1, <1>2, <1>3, <1>4, <1>5

\* The same for the futures.
LEMMA FuturesOperatorTypes ==
    ASSUME NEW f \in F!FuturesType, NEW t \in Tasks, NEW S \in SUBSET Tasks,
           NEW s \in Status
    PROVE  /\ F!GetFuture(f, t) \in F!FuturesType
           /\ F!SetResult(f, t) \in F!FuturesType
           /\ F!SetException(f, t) \in F!FuturesType
           /\ F!SetExceptionAll(f, S) \in F!FuturesType
           /\ F!CancelFutures(f, S) \in F!FuturesType
           /\ F!CompleteFrom(f, t, s) \in F!FuturesType
           /\ F!CancelAllFutures(f) \in F!FuturesType
           /\ F!CleanupCompleted(f) \in F!FuturesType
           /\ F!Lose(f, t) \in F!FuturesType
           /\ F!CancelledByWaiter(f, t) \in F!FuturesType
  BY DEF F!FuturesType, F!FutureState, F!GetFuture, F!Resolve, F!Unresolved, F!SetResult,
         F!SetException, F!ResolveAll, F!SetExceptionAll, F!CancelFutures, F!CompleteFrom,
         F!CancelAllFutures, F!CleanupCompleted, F!Lose, F!CancelledByWaiter

-----------------------------------------------------------------------------
(* Type correctness.                                                       *)

LEMMA InitType == Init => TypeOK
<1> SUFFICES ASSUME Init PROVE TypeOK
  OBVIOUS
<1>1. queue \in QueueType
  BY DEF Init, EmptyQueue, QueueType
<1>2. futures \in F!FuturesType
  BY DEF Init, F!NoFutures, F!FuturesType, F!FutureState
<1>3. /\ wpc \in [Workers -> {"off", "idle", "busy"}]
      /\ wtask \in [Workers -> Tasks \union {NoTask}]
      /\ \A w \in Workers : wpc[w] = "busy" <=> wtask[w] # NoTask
  BY DEF Init
<1>4. /\ exec \in [Tasks -> ExecState]
      /\ status \in [Tasks -> Status]
  BY DEF Init, ExecState, Status
<1>5. starts \in 0..MaxStarts
  BY WorkerAssumption DEF Init
<1> QED
  BY <1>1, <1>2, <1>3, <1>4, <1>5 DEF Init, TypeOK, StopState

LEMMA StartCount ==
    ASSUME TypeOK, Start
    PROVE  starts' \in 0..MaxStarts
<1>1. starts \in 0..MaxStarts
  BY DEF TypeOK
<1>2. MaxStarts \in Nat
  BY WorkerAssumption
<1>3. starts < MaxStarts /\ starts' = starts + 1
  BY DEF Start
<1> QED
  BY <1>1, <1>2, <1>3

LEMMA ReturnCache ==
    ASSUME TypeOK, NEW t \in Tasks, ExecReturn(t)
    PROVE  cache' \subseteq Keys
<1>1. cache \subseteq Keys
  BY DEF TypeOK
<1>2. \A s \in CacheUsers : KeyOf[s] \in Keys
  BY WorkerAssumption
<1> QED
  BY <1>1, <1>2 DEF ExecReturn

LEMMA ClientType ==
    ASSUME TypeOK, Clients
    PROVE  TypeOK'
<1> USE DEF TypeOK, lifecycleVars, stopVars, poolVars, workerVars, execVars
<1>1. CASE Start
  <2>1. starts' \in 0..MaxStarts
    BY <1>1, StartCount
  <2>2. /\ wpc' \in [Workers -> {"off", "idle", "busy"}]
        /\ wtask' \in [Workers -> Tasks \union {NoTask}]
        /\ \A w \in Workers : wpc'[w] = "busy" <=> wtask'[w] # NoTask
        /\ workers' \subseteq Workers
    <3>1. CASE poolRunning
      BY <1>1, <3>1 DEF Start
    <3>2. CASE ~poolRunning
      <4>1. PICK S \in SUBSET Spare :
               /\ workers' = workers \union S
               /\ wpc' = [w \in Workers |-> IF w \in S THEN "idle" ELSE wpc[w]]
        BY <1>1, <3>2 DEF Start
      <4>2. wtask' = wtask
        BY <1>1, <3>2 DEF Start
      <4> QED
        BY <4>1, <4>2 DEF Spare
    <3> QED
      BY <3>1, <3>2
  <2> QED
    BY <1>1, <2>1, <2>2 DEF Start
<1>2. CASE StopBegin
  BY <1>2 DEF StopBegin, StopState
<1>3. CASE CleanupOldTasks
  BY <1>3, QueueOperatorTypes, FuturesOperatorTypes DEF CleanupOldTasks, Status, Terminal
<1>4. ASSUME NEW t \in Tasks, AddTask(t) PROVE TypeOK'
  BY <1>4, QueueOperatorTypes DEF AddTask, Status
<1>5. ASSUME NEW t \in Tasks, CancelPending(t) PROVE TypeOK'
  BY <1>5, QueueOperatorTypes, FuturesOperatorTypes
  DEF CancelPending, OnEnded, Marked, InTable, Status, Terminal
<1>6. ASSUME NEW t \in Tasks, CancelRunning(t) PROVE TypeOK'
  BY <1>6, QueueOperatorTypes, FuturesOperatorTypes
  DEF CancelRunning, OnEnded, Marked, InTable, Status, Terminal
<1>7. ASSUME NEW t \in Tasks, GetTaskFuture(t) PROVE TypeOK'
  BY <1>7, FuturesOperatorTypes DEF GetTaskFuture
<1>8. ASSUME NEW t \in Tasks, WaiterTimeout(t) PROVE TypeOK'
  BY <1>8, FuturesOperatorTypes DEF WaiterTimeout
<1>9. ASSUME NEW t \in Tasks, DropFuture(t) PROVE TypeOK'
  BY <1>9, FuturesOperatorTypes DEF DropFuture
<1> QED
  BY <1>1, <1>2, <1>3, <1>4, <1>5, <1>6, <1>7, <1>8, <1>9 DEF Clients

LEMMA HousekeepingType ==
    ASSUME TypeOK, Housekeeping
    PROVE  TypeOK'
<1> USE DEF TypeOK, lifecycleVars, stopVars, poolVars, workerVars, execVars
<1>1. CASE FutureCleanup
  <2>1. F!CleanupCompleted(futures) \in F!FuturesType
    BY DEF F!FuturesType, F!CleanupCompleted
  <2> QED
    BY <1>1, <2>1 DEF FutureCleanup
<1>2. CASE CacheForget
  BY <1>2 DEF CacheForget
<1> QED
  BY <1>1, <1>2 DEF Housekeeping

LEMMA ExecutionType ==
    ASSUME TypeOK, NEW t \in Tasks, Execution(t)
    PROVE  TypeOK'
<1> USE DEF TypeOK, lifecycleVars, stopVars, poolVars, workerVars, Ended, Begins,
            ExecState, ExecLive, ExecDone
<1>1. CASE ExecTypeError(t)
  BY <1>1 DEF ExecTypeError
<1>2. CASE ExecCacheHit(t)
  BY <1>2, FuturesOperatorTypes DEF ExecCacheHit, OnCompleted, Status, Terminal
<1>3. CASE ExecCall(t)
  BY <1>3 DEF ExecCall
<1>4. CASE ExecCancelledEarly(t)
  BY <1>4 DEF ExecCancelledEarly
<1>5. CASE ExecReturn(t)
  <2>1. cache' \subseteq Keys
    BY <1>5, ReturnCache
  <2> QED
    BY <1>5, <2>1, FuturesOperatorTypes DEF ExecReturn, OnCompleted, Status, Terminal
<1>6. CASE ExecRaise(t)
  BY <1>6 DEF ExecRaise
<1>7. CASE ExecCancelled(t)
  BY <1>7 DEF ExecCancelled
<1>8. CASE ExecSwallow(t)
  BY <1>8 DEF ExecSwallow
<1> QED
  BY <1>1, <1>2, <1>3, <1>4, <1>5, <1>6, <1>7, <1>8 DEF Execution

LEMMA WorkerType ==
    ASSUME TypeOK, NEW w \in Workers, Worker(w)
    PROVE  TypeOK'
<1> USE WorkerAssumption DEF TypeOK, lifecycleVars, stopVars, poolVars
<1>1. CASE WorkerTake(w)
  <2>1. PICK t \in Tasks :
           /\ queue' = Take(queue, t)
           /\ OnStarted(t)
           /\ exec' = [exec EXCEPT ![t] = "created"]
           /\ runningTasks' = runningTasks \union {t}
           /\ wtask' = [wtask EXCEPT ![w] = t]
    BY <1>1 DEF WorkerTake
  <2>2. queue' \in QueueType
    BY <2>1, TakeType
  <2>3. /\ exec' \in [Tasks -> ExecState]
        /\ status' \in [Tasks -> Status]
    BY <2>1 DEF OnStarted, Marked, ExecState, ExecLive, Status
  <2> QED
    BY <1>1, <2>1, <2>2, <2>3 DEF WorkerTake
<1>2. CASE WorkerDrain(w)
  <2>1. queue' \in QueueType
    BY <1>2, SkipType DEF WorkerDrain, QueueType
  <2> QED
    BY <1>2, <2>1 DEF WorkerDrain, workerVars, execVars
<1>3. CASE WorkerLeave(w)
  BY <1>3 DEF WorkerLeave, execVars
<1> DEFINE t == wtask[w]
<1>4. ASSUME wpc[w] = "busy", NEW next \in {"idle", "off"}, Finished(w, next)
      PROVE  /\ t \in Tasks
             /\ exec' \in [Tasks -> ExecState]
             /\ runningTasks' \subseteq Tasks
             /\ queue' \in QueueType
             /\ wpc' \in [Workers -> {"off", "idle", "busy"}]
             /\ wtask' \in [Workers -> Tasks \union {NoTask}]
             /\ \A v \in Workers : wpc'[v] = "busy" <=> wtask'[v] # NoTask
  <2>1. t \in Tasks
    BY <1>4
  <2>2. queue' \in QueueType
    BY <1>4, <2>1, QueueOperatorTypes DEF Finished
  <2> QED
    BY <1>4, <2>1, <2>2 DEF Finished, ExecState
<1>5. ASSUME t \in Tasks, NEW s \in {"FAILED", "CANCELLED"}, OnEnded(t, s)
      PROVE  status' \in [Tasks -> Status] /\ futures' \in F!FuturesType
  BY <1>5, FuturesOperatorTypes DEF OnEnded, Marked, InTable, Status, Terminal
<1>6. CASE WorkerReturned(w)
  BY <1>4, <1>6 DEF WorkerReturned, NextRound, Finished
<1>7. CASE WorkerFailed(w)
  BY <1>4, <1>5, <1>7 DEF WorkerFailed, NextRound, Finished
<1>8. CASE WorkerCancelled(w)
  BY <1>4, <1>5, <1>8 DEF WorkerCancelled, Finished
<1> QED
  BY <1>1, <1>2, <1>3, <1>6, <1>7, <1>8 DEF Worker

LEMMA StoppingType ==
    ASSUME TypeOK, Stopping
    PROVE  TypeOK'
<1> USE DEF TypeOK, lifecycleVars, poolVars, StopState, CancelWorkers, Delegated
<1>1. \A S \in SUBSET Workers : Delegated(S) \subseteq Tasks
  BY DEF Awaits
<1>2. queue \in QueueType /\ ClearTracking(queue) \in QueueType
  BY DEF QueueType, ClearTracking
<1>3. CASE StopPool
  <2> DEFINE f == F!CancelAllFutures(futures)
             C == {t \in runningTasks : exec[t] \in ExecLive}
  <2>1. f \in F!FuturesType
    BY DEF F!FuturesType, F!CancelAllFutures, F!FutureState
  <2>2. \A S \in SUBSET Tasks : F!SetExceptionAll(f, S) \in F!FuturesType
    BY <2>1 DEF F!FuturesType, F!SetExceptionAll, F!ResolveAll, F!FutureState
  <2>3. CASE poolRunning
    <3>1. futures' = F!SetExceptionAll(f, {t \in C : InTable(t)})
      BY <1>3, <2>3 DEF StopPool
    <3>2. futures' \in F!FuturesType
      BY <2>2, <3>1
    <3>3. status' \in [Tasks -> Status]
      BY <1>3, <2>3 DEF StopPool, Marked, Status, Terminal
    <3>4. execCancel' \subseteq Tasks
      BY <1>1, <1>3, <2>3 DEF StopPool
    <3> QED
      BY <1>2, <1>3, <2>3, <3>2, <3>3, <3>4 DEF StopPool, PoolStopReturn, StopReturn
  <2>4. CASE ~poolRunning
    BY <1>2, <1>3, <2>1, <2>4 DEF StopPool, StopReturn
  <2> QED
    BY <2>3, <2>4
<1>4. CASE StopTimeout
  BY <1>1, <1>4 DEF StopTimeout, Alive
<1>5. CASE StopForce
  BY <1>1, <1>5 DEF StopForce
<1>6. CASE StopGathered
  BY <1>2, <1>6 DEF StopGathered, PoolStopReturn, StopReturn, workerVars, execVars
<1> QED
  BY <1>3, <1>4, <1>5, <1>6 DEF Stopping

\* TypeOK is an invariant, for any number of tasks and workers.
THEOREM TypeCorrect == Spec => []TypeOK
<1>1. ASSUME TypeOK, [Next]_vars
      PROVE  TypeOK'
  <2>1. CASE UNCHANGED vars
    BY <1>1, <2>1 DEF TypeOK, vars, lifecycleVars, stopVars, poolVars, workerVars, execVars
  <2> QED
    BY <1>1, <2>1, ClientType, HousekeepingType, ExecutionType, WorkerType, StoppingType DEF Next
<1> QED
  BY InitType, <1>1, PTL DEF Spec

-----------------------------------------------------------------------------
(* The core invariant: every task is queued, or in the hands of a worker,  *)
(* or at its end.                                                          *)

\* The operators on futures settle what they are asked to, touch no other
\* future, and begin no wait except GetFuture.
LEMMA Settles ==
    ASSUME NEW f \in F!FuturesType, NEW t \in Tasks, NEW S \in SUBSET Tasks,
           NEW s \in Status, NEW u \in Tasks
    PROVE  /\ F!Unresolved(F!SetResult(f, t), u) => F!Unresolved(f, u) /\ u # t
           /\ F!Unresolved(F!SetException(f, t), u) => F!Unresolved(f, u) /\ u # t
           /\ F!Unresolved(F!Lose(f, t), u) => F!Unresolved(f, u) /\ u # t
           /\ F!Unresolved(F!CancelledByWaiter(f, t), u) => F!Unresolved(f, u) /\ u # t
           /\ F!Unresolved(F!SetExceptionAll(f, S), u) => F!Unresolved(f, u) /\ u \notin S
           /\ F!Unresolved(F!CancelFutures(f, S), u) => F!Unresolved(f, u) /\ u \notin S
           /\ F!Unresolved(F!CancelAllFutures(f), u) => F!Unresolved(f, u)
           /\ F!Unresolved(F!CleanupCompleted(f), u) => F!Unresolved(f, u)
           /\ F!Unresolved(F!GetFuture(f, t), u) => F!Unresolved(f, u) \/ u = t
           /\ F!Unresolved(F!CompleteFrom(f, t, s), u) => F!Unresolved(f, u) /\ u # t
  BY DEF F!FuturesType, F!FutureState, F!Resolve, F!ResolveAll, F!Unresolved, F!SetResult,
         F!SetException, F!Lose, F!CancelledByWaiter, F!SetExceptionAll, F!CancelFutures,
         F!CancelAllFutures, F!CleanupCompleted, F!GetFuture, F!CompleteFrom

\* What the callbacks at the end of a task have in common.
Ends(t) ==
    /\ \A u \in Tasks : u # t => status'[u] = status[u]
    /\ status'[t] \notin {"PENDING", "RUNNING"}
    /\ status'[t] = "absent" <=> status[t] = "absent"
    /\ NoWaiterLeftBehind'

LEMMA OnEndedEnds ==
    ASSUME TypeOK, NoWaiterLeftBehind,
           NEW t \in Tasks, NEW s \in {"FAILED", "CANCELLED"}, OnEnded(t, s)
    PROVE  Ends(t)
<1>1. /\ status \in [Tasks -> Status]
      /\ futures \in F!FuturesType
  BY DEF TypeOK
<1>2. \A u \in Tasks : u # t => status'[u] = status[u]
  BY <1>1 DEF OnEnded
<1>3. CASE InTable(t)
  <2>1. status'[t] = s
    BY <1>1, <1>3 DEF OnEnded, Marked
  <2>2. \A u \in Tasks : F!Unresolved(futures', u) => F!Unresolved(futures, u) /\ u # t
    BY <1>1, <1>3, Settles DEF OnEnded
  <2> QED
    BY <1>2, <1>3, <2>1, <2>2 DEF Ends, NoWaiterLeftBehind, InTable
<1>4. CASE ~InTable(t)
  <2>1. status' = status /\ futures' = futures
    BY <1>1, <1>4 DEF OnEnded, Marked
  <2> QED
    BY <1>4, <2>1 DEF Ends, NoWaiterLeftBehind, InTable
<1> QED
  BY <1>3, <1>4

LEMMA OnCompletedEnds ==
    ASSUME TypeOK, NoWaiterLeftBehind,
           NEW t \in Tasks, NEW hit \in BOOLEAN, OnCompleted(t, hit)
    PROVE  Ends(t)
<1>1. /\ status \in [Tasks -> Status]
      /\ futures \in F!FuturesType
  BY DEF TypeOK
<1>2. /\ \A u \in Tasks : u # t => status'[u] = status[u]
      /\ status'[t] = IF status[t] \in {"PENDING", "RUNNING"} THEN "COMPLETED" ELSE status[t]
  BY <1>1 DEF OnCompleted
<1>3. CASE InTable(t)
  <2>1. \A u \in Tasks : F!Unresolved(futures', u) => F!Unresolved(futures, u) /\ u # t
    BY <1>1, <1>3, Settles DEF OnCompleted
  <2> QED
    BY <1>2, <1>3, <2>1 DEF Ends, NoWaiterLeftBehind, InTable
<1>4. CASE ~InTable(t)
  <2>1. futures' = futures
    BY <1>4 DEF OnCompleted
  <2> QED
    BY <1>2, <1>4, <2>1 DEF Ends, NoWaiterLeftBehind, InTable
<1> QED
  BY <1>3, <1>4

LEMMA ClientCore ==
    ASSUME TypeOK, CoreInv, Clients
    PROVE  CoreInv'
<1> USE DEF CoreInv, Working
<1>t. /\ status \in [Tasks -> Status]
      /\ exec \in [Tasks -> ExecState]
      /\ futures \in F!FuturesType
      /\ queue \in QueueType
      /\ wpc \in [Workers -> {"off", "idle", "busy"}]
  BY DEF TypeOK
<1>0. CoreInv
  OBVIOUS
<1>1. CASE Start
  <2>1. /\ wtask' = wtask
        /\ \A w \in Workers : wpc[w] = "busy" => wpc'[w] = "busy"
    BY <1>1 DEF Start, Spare, workerVars
  <2>2. UNCHANGED <<status, exec, futures, queue>>
    BY <1>1 DEF Start, execVars
  <2> QED
    BY <1>0, <2>1, <2>2 DEF NoWaiterLeftBehind, PendingIsQueued, RunningHasWorker,
       AbsentLeavesNoTrace, QueuedIsNotExecuted, ReturnedHasEnded, Valid, F!Unresolved
<1>2. CASE StopBegin
  <2>1. UNCHANGED <<status, exec, futures, queue, wpc, wtask>>
    BY <1>2 DEF StopBegin, workerVars, execVars
  <2> QED
    BY <1>0, <2>1 DEF NoWaiterLeftBehind, PendingIsQueued, RunningHasWorker,
       AbsentLeavesNoTrace, QueuedIsNotExecuted, ReturnedHasEnded, Valid, F!Unresolved
<1>3. CASE CleanupOldTasks
  <2>1. PICK S \in SUBSET {t \in Tasks : status[t] \in Terminal} :
           /\ status' = [t \in Tasks |-> IF t \in S THEN "removed" ELSE status[t]]
           /\ futures' = F!CancelFutures(futures, S)
           /\ queue' = CleanCancelledTasks(queue, S)
    BY <1>3 DEF CleanupOldTasks
  <2>2. UNCHANGED <<exec, wpc, wtask>>
    BY <1>3 DEF CleanupOldTasks, workerVars, execVars
  <2>3. NoWaiterLeftBehind'
    <3>1. \A u \in Tasks : F!Unresolved(futures', u) => F!Unresolved(futures, u) /\ u \notin S
      BY <1>t, <2>1, Settles
    <3> QED
      BY <1>0, <1>t, <2>1, <3>1 DEF NoWaiterLeftBehind
  <2>4. queue'.heap = queue.heap /\ queue'.cancelled \subseteq queue.cancelled
    BY <1>t, <2>1 DEF CleanCancelledTasks, QueueType
  <2>5. PendingIsQueued' /\ AbsentLeavesNoTrace' /\ QueuedIsNotExecuted'
    BY <1>0, <1>t, <2>1, <2>2, <2>4
    DEF PendingIsQueued, AbsentLeavesNoTrace, QueuedIsNotExecuted, Valid
  <2>6. RunningHasWorker' /\ ReturnedHasEnded'
    BY <1>0, <1>t, <2>1, <2>2 DEF RunningHasWorker, ReturnedHasEnded
  <2> QED
    BY <2>3, <2>5, <2>6
<1>4. ASSUME NEW t \in Tasks, AddTask(t) PROVE CoreInv'
  <2>1. /\ status[t] = "absent"
        /\ status' = [status EXCEPT ![t] = "PENDING"]
        /\ queue' = Put(queue, t)
        /\ UNCHANGED <<exec, futures, wpc, wtask>>
    BY <1>4 DEF AddTask, workerVars, execVars
  <2>2. queue'.heap = queue.heap \union {t} /\ queue'.cancelled = queue.cancelled
    BY <2>1 DEF Put
  <2>3. PendingIsQueued' /\ AbsentLeavesNoTrace' /\ QueuedIsNotExecuted'
    BY <1>0, <1>t, <2>1, <2>2
    DEF PendingIsQueued, AbsentLeavesNoTrace, QueuedIsNotExecuted, Valid
  <2>4. NoWaiterLeftBehind' /\ RunningHasWorker' /\ ReturnedHasEnded'
    BY <1>0, <1>t, <2>1 DEF NoWaiterLeftBehind, RunningHasWorker, ReturnedHasEnded,
       AbsentLeavesNoTrace
  <2> QED
    BY <2>3, <2>4
<1>5. ASSUME NEW t \in Tasks, CancelPending(t) PROVE CoreInv'
  <2>1. /\ status[t] = "PENDING"
        /\ queue' = RemoveTask(queue, t)
        /\ UNCHANGED <<exec, wpc, wtask>>
    BY <1>5 DEF CancelPending, workerVars, execVars
  <2>2. Ends(t)
    BY <1>5, OnEndedEnds DEF CancelPending
  <2>3. queue'.heap = queue.heap /\ queue'.cancelled \subseteq queue.cancelled \union {t}
    BY <1>t, <2>1 DEF RemoveTask, QueueType
  <2>4. PendingIsQueued' /\ AbsentLeavesNoTrace' /\ QueuedIsNotExecuted'
    BY <1>0, <2>1, <2>2, <2>3
    DEF PendingIsQueued, AbsentLeavesNoTrace, QueuedIsNotExecuted, Valid, Ends
  <2>5. NoWaiterLeftBehind' /\ RunningHasWorker' /\ ReturnedHasEnded'
    BY <1>0, <2>1, <2>2 DEF RunningHasWorker, ReturnedHasEnded, Ends
  <2> QED
    BY <2>4, <2>5
<1>6. ASSUME NEW t \in Tasks, CancelRunning(t) PROVE CoreInv'
  <2>1. UNCHANGED <<queue, exec, wpc, wtask>>
    BY <1>6 DEF CancelRunning, workerVars
  <2>2. Ends(t)
    BY <1>6, OnEndedEnds DEF CancelRunning
  <2> QED
    BY <1>0, <2>1, <2>2 DEF PendingIsQueued, RunningHasWorker, AbsentLeavesNoTrace,
       QueuedIsNotExecuted, ReturnedHasEnded, Valid, Ends
<1>7. ASSUME NEW t \in Tasks,
             GetTaskFuture(t) \/ WaiterTimeout(t) \/ DropFuture(t)
      PROVE  CoreInv'
  <2>1. UNCHANGED <<status, exec, queue, wpc, wtask>>
    BY <1>7 DEF GetTaskFuture, WaiterTimeout, DropFuture, workerVars, execVars
  <2>2. NoWaiterLeftBehind'
    <3>1. CASE WaiterTimeout(t) \/ DropFuture(t)
      <4>1. \A u \in Tasks : F!Unresolved(futures', u) => F!Unresolved(futures, u)
        BY <1>t, <3>1, Settles DEF WaiterTimeout, DropFuture
      <4> QED
        BY <1>0, <2>1, <4>1 DEF NoWaiterLeftBehind
    <3>2. CASE GetTaskFuture(t)
      <4> DEFINE f == F!GetFuture(futures, t)
      <4>1. f \in F!FuturesType
        BY <1>t, FuturesOperatorTypes
      <4>2. \A u \in Tasks : F!Unresolved(f, u) => F!Unresolved(futures, u) \/ u = t
        BY <1>t, Settles
      <4>3. CASE status[t] \in Terminal
        <5>1. futures' = F!CompleteFrom(f, t, status[t])
          BY <3>2, <4>3 DEF GetTaskFuture
        <5>2. \A u \in Tasks : F!Unresolved(futures', u) => F!Unresolved(futures, u)
          BY <1>t, <4>1, <4>2, <5>1, Settles
        <5> QED
          BY <1>0, <2>1, <5>2 DEF NoWaiterLeftBehind
      <4>4. CASE status[t] \notin Terminal
        <5>1. futures' = f /\ status[t] \in {"PENDING", "RUNNING"}
          BY <1>t, <3>2, <4>4 DEF GetTaskFuture, InTable, Status
        <5> QED
          BY <1>0, <2>1, <4>2, <5>1 DEF NoWaiterLeftBehind
      <4> QED
        BY <4>3, <4>4
    <3> QED
      BY <1>7, <3>1, <3>2
  <2> QED
    BY <1>0, <2>1, <2>2 DEF PendingIsQueued, RunningHasWorker, AbsentLeavesNoTrace,
       QueuedIsNotExecuted, ReturnedHasEnded, Valid
<1> QED
  BY <1>1, <1>2, <1>3, <1>4, <1>5, <1>6, <1>7 DEF Clients

LEMMA HousekeepingCore ==
    ASSUME TypeOK, CoreInv, Housekeeping
    PROVE  CoreInv'
<1>1. UNCHANGED <<status, exec, queue, wpc, wtask>>
  BY DEF Housekeeping, FutureCleanup, CacheForget, workerVars, execVars
<1>2. futures \in F!FuturesType
  BY DEF TypeOK
<1>3. \A u \in Tasks : F!Unresolved(futures', u) => F!Unresolved(futures, u)
  BY <1>2 DEF Housekeeping, FutureCleanup, CacheForget, F!CleanupCompleted, F!Unresolved,
     F!FuturesType
<1>4. CoreInv
  OBVIOUS
<1> QED
  BY <1>1, <1>3, <1>4 DEF CoreInv, NoWaiterLeftBehind, PendingIsQueued, RunningHasWorker,
     AbsentLeavesNoTrace, QueuedIsNotExecuted, ReturnedHasEnded, Valid, Working

LEMMA ExecutionCore ==
    ASSUME TypeOK, CoreInv, NEW t \in Tasks, Execution(t)
    PROVE  CoreInv'
<1> USE DEF CoreInv, Working, ExecLive, ExecDone
<1>0. CoreInv
  OBVIOUS
<1>1. exec \in [Tasks -> ExecState] /\ queue.heap \subseteq Tasks
  BY DEF TypeOK, QueueType
<1>2. UNCHANGED <<queue, wpc, wtask>>
  BY DEF Execution, ExecTypeError, ExecCacheHit, ExecCall, ExecCancelledEarly, ExecReturn,
     ExecRaise, ExecCancelled, ExecSwallow, workerVars
<1>3. /\ exec[t] \in ExecLive
      /\ exec'[t] \in ExecLive \union ExecDone
      /\ \A u \in Tasks : u # t => exec'[u] = exec[u]
  BY <1>1 DEF Execution, ExecTypeError, ExecCacheHit, ExecCall, ExecCancelledEarly, ExecReturn,
     ExecRaise, ExecCancelled, ExecSwallow, Begins, Ended
\* Whatever the execution does to the status, the task is neither queued nor new.
<1>4. t \notin queue.heap /\ status[t] # "absent"
  BY <1>0, <1>3 DEF QueuedIsNotExecuted, AbsentLeavesNoTrace
<1>5. CASE ExecCacheHit(t) \/ ExecReturn(t)
  <2>1. Ends(t)
    BY <1>5, OnCompletedEnds DEF ExecCacheHit, ExecReturn
  <2>2. PendingIsQueued' /\ AbsentLeavesNoTrace' /\ QueuedIsNotExecuted'
    BY <1>0, <1>1, <1>2, <1>3, <1>4, <2>1
    DEF PendingIsQueued, AbsentLeavesNoTrace, QueuedIsNotExecuted, Valid, Ends
  <2>3. NoWaiterLeftBehind' /\ RunningHasWorker' /\ ReturnedHasEnded'
    BY <1>0, <1>2, <1>3, <2>1 DEF RunningHasWorker, ReturnedHasEnded, Ends
  <2> QED
    BY <2>2, <2>3
<1>6. CASE ~(ExecCacheHit(t) \/ ExecReturn(t))
  <2>1. UNCHANGED <<status, futures>> /\ exec'[t] # "returned"
    BY <1>1, <1>6 DEF Execution, ExecTypeError, ExecCall, ExecCancelledEarly, ExecRaise,
       ExecCancelled, ExecSwallow, Begins, Ended
  <2>2. PendingIsQueued' /\ AbsentLeavesNoTrace' /\ QueuedIsNotExecuted'
    BY <1>0, <1>1, <1>2, <1>3, <1>4, <2>1
    DEF PendingIsQueued, AbsentLeavesNoTrace, QueuedIsNotExecuted, Valid
  <2>3. NoWaiterLeftBehind' /\ RunningHasWorker' /\ ReturnedHasEnded'
    BY <1>0, <1>2, <1>3, <2>1
    DEF NoWaiterLeftBehind, RunningHasWorker, ReturnedHasEnded, F!Unresolved
  <2> QED
    BY <2>2, <2>3
<1> QED
  BY <1>5, <1>6

LEMMA WorkerCore ==
    ASSUME TypeOK, CoreInv, NEW w \in Workers, Worker(w)
    PROVE  CoreInv'
<1> USE DEF CoreInv, Working
<1>0. CoreInv
  OBVIOUS
<1>t. /\ status \in [Tasks -> Status]
      /\ exec \in [Tasks -> ExecState]
      /\ queue \in QueueType
      /\ wpc \in [Workers -> {"off", "idle", "busy"}]
      /\ wtask \in [Workers -> Tasks \union {NoTask}]
      /\ wpc[w] = "busy" => wtask[w] \in Tasks
  BY DEF TypeOK
<1>1. CASE WorkerTake(w)
  <2>1. PICK t \in Tasks :
           /\ IsNext(queue, t)
           /\ queue' = Take(queue, t)
           /\ OnStarted(t)
           /\ exec' = [exec EXCEPT ![t] = "created"]
           /\ wtask' = [wtask EXCEPT ![w] = t]
    BY <1>1 DEF WorkerTake
  <2>2. /\ wpc[w] = "idle"
        /\ wpc' = [wpc EXCEPT ![w] = "busy"]
        /\ futures' = futures
    BY <1>1 DEF WorkerTake
  <2>3. /\ t \in queue.heap
        /\ queue'.heap = queue.heap \ (Before(queue, t) \union {t})
        /\ queue'.cancelled = queue.cancelled \ Before(queue, t)
    BY <2>1 DEF IsNext, Valid, Take, Skip
  \* The entries that are dropped with t are no PENDING tasks.
  <2>4. \A u \in Valid(queue) : u \notin Before(queue, t)
    <3>1. Rank[t] \in Nat /\ \A u \in Tasks : Rank[u] \in Nat
      BY QueueAssumption
    <3>2. Valid(queue) \subseteq Tasks
      BY <1>t DEF Valid, QueueType
    <3> QED
      BY <2>1, <3>1, <3>2 DEF IsNext, Before
  <2>5. /\ \A u \in Tasks : u # t => status'[u] = status[u]
        /\ status'[t] # "PENDING"
        /\ status'[t] = "absent" <=> status[t] = "absent"
        /\ \A u \in Tasks : status[u] \in {"PENDING", "RUNNING"}
                                => status'[u] \in {"PENDING", "RUNNING"}
    BY <1>t, <2>1 DEF OnStarted, Marked, InTable
  <2>6. status[t] # "absent"
    BY <1>0, <2>3 DEF AbsentLeavesNoTrace
  <2>7. NoWaiterLeftBehind'
    BY <1>0, <2>2, <2>5 DEF NoWaiterLeftBehind, F!Unresolved
  <2>8. PendingIsQueued'
    BY <1>0, <2>3, <2>4, <2>5 DEF PendingIsQueued, Valid
  <2>9. RunningHasWorker'
    BY <1>0, <1>t, <2>1, <2>2, <2>5 DEF RunningHasWorker
  <2>10. AbsentLeavesNoTrace'
    BY <1>0, <1>t, <2>1, <2>3, <2>5, <2>6 DEF AbsentLeavesNoTrace
  <2>11. QueuedIsNotExecuted'
    BY <1>0, <1>t, <2>1, <2>3 DEF QueuedIsNotExecuted, QueueType
  <2>12. ReturnedHasEnded'
    BY <1>0, <1>t, <2>1, <2>5 DEF ReturnedHasEnded
  <2> QED
    BY <2>7, <2>8, <2>9, <2>10, <2>11, <2>12
<1>2. CASE WorkerDrain(w)
  <2>1. /\ Valid(queue) = {}
        /\ queue' = Skip(queue, queue.heap)
        /\ UNCHANGED <<status, futures, exec, wpc, wtask>>
    BY <1>2 DEF WorkerDrain, workerVars, execVars
  <2>2. queue'.heap = {} /\ queue'.cancelled \subseteq queue.cancelled
    BY <2>1 DEF Skip
  <2>3. PendingIsQueued' /\ AbsentLeavesNoTrace' /\ QueuedIsNotExecuted'
    BY <1>0, <2>1, <2>2 DEF PendingIsQueued, AbsentLeavesNoTrace, QueuedIsNotExecuted
  <2>4. NoWaiterLeftBehind' /\ RunningHasWorker' /\ ReturnedHasEnded'
    BY <1>0, <2>1 DEF NoWaiterLeftBehind, RunningHasWorker, ReturnedHasEnded, F!Unresolved
  <2> QED
    BY <2>3, <2>4
<1>3. CASE WorkerLeave(w)
  <2>1. /\ wpc[w] = "idle"
        /\ wpc' = [wpc EXCEPT ![w] = "off"]
        /\ UNCHANGED <<status, futures, exec, queue, wtask>>
    BY <1>3 DEF WorkerLeave, execVars
  <2> QED
    BY <1>0, <1>t, <2>1 DEF NoWaiterLeftBehind, PendingIsQueued, RunningHasWorker,
       AbsentLeavesNoTrace, QueuedIsNotExecuted, ReturnedHasEnded, Valid, F!Unresolved
\* The worker reports the end of its task, unless the execution already did.
<1>4. CASE WorkerReturned(w) \/ WorkerFailed(w) \/ WorkerCancelled(w)
  <2> DEFINE t == wtask[w]
  <2>1. /\ wpc[w] = "busy"
        /\ t \in Tasks
        /\ exec[t] \in ExecDone
    BY <1>t, <1>4 DEF WorkerReturned, WorkerFailed, WorkerCancelled, ExecDone
  <2>2. PICK next \in {"idle", "off"} : Finished(w, next)
    BY <1>4 DEF WorkerReturned, WorkerFailed, WorkerCancelled, NextRound
  <2>3. Ends(t)
    <3>1. CASE WorkerReturned(w)
      <4>1. UNCHANGED <<status, futures>> /\ exec[t] = "returned"
        BY <3>1 DEF WorkerReturned
      <4> QED
        BY <1>0, <2>1, <4>1 DEF Ends, NoWaiterLeftBehind, ReturnedHasEnded, F!Unresolved
    <3>2. CASE WorkerFailed(w)
      BY <2>1, <3>2, OnEndedEnds DEF WorkerFailed
    <3>3. CASE WorkerCancelled(w)
      BY <2>1, <3>3, OnEndedEnds DEF WorkerCancelled
    <3> QED
      BY <1>4, <3>1, <3>2, <3>3
  <2>4. /\ exec' = [exec EXCEPT ![t] = "over"]
        /\ wtask' = [wtask EXCEPT ![w] = NoTask]
        /\ wpc' = [wpc EXCEPT ![w] = next]
        /\ queue'.heap = queue.heap /\ queue'.cancelled = queue.cancelled
    BY <1>t, <2>2 DEF Finished, TaskDone, QueueType
  <2>5. t \notin queue.heap /\ status[t] # "absent"
    BY <1>0, <2>1 DEF QueuedIsNotExecuted, AbsentLeavesNoTrace, ExecDone
  <2>6. PendingIsQueued' /\ AbsentLeavesNoTrace' /\ QueuedIsNotExecuted'
    BY <1>0, <1>t, <2>1, <2>3, <2>4, <2>5
    DEF PendingIsQueued, AbsentLeavesNoTrace, QueuedIsNotExecuted, Valid, Ends
  <2>7. RunningHasWorker'
    <3> SUFFICES ASSUME NEW u \in Tasks, status'[u] = "RUNNING"
                 PROVE  \E v \in Workers : Working(v, u)'
      BY DEF RunningHasWorker
    <3>1. u # t /\ status[u] = "RUNNING"
      BY <2>1, <2>3 DEF Ends
    <3>2. PICK v \in Workers : wpc[v] = "busy" /\ wtask[v] = u
      BY <1>0, <3>1 DEF RunningHasWorker
    <3> QED
      BY <1>t, <2>4, <3>1, <3>2
  <2>8. NoWaiterLeftBehind' /\ ReturnedHasEnded'
    BY <1>0, <1>t, <2>1, <2>3, <2>4 DEF ReturnedHasEnded, Ends
  <2> QED
    BY <2>6, <2>7, <2>8
<1> QED
  BY <1>1, <1>2, <1>3, <1>4 DEF Worker

LEMMA StoppingCore ==
    ASSUME TypeOK, CoreInv, Stopping
    PROVE  CoreInv'
<1> USE DEF CoreInv, Working
<1>0. CoreInv
  OBVIOUS
<1>t. /\ status \in [Tasks -> Status]
      /\ futures \in F!FuturesType
      /\ runningTasks \subseteq Tasks
      /\ queue \in QueueType
  BY DEF TypeOK
<1>1. UNCHANGED <<exec, wpc, wtask>>
  BY DEF Stopping, StopPool, StopTimeout, StopForce, StopGathered, workerVars, execVars
<1>2. queue'.heap = queue.heap /\ queue'.cancelled \subseteq queue.cancelled
  BY <1>t DEF Stopping, StopPool, StopTimeout, StopForce, StopGathered, PoolStopReturn,
     StopReturn, ClearTracking, QueueType
<1>3. CASE StopPool /\ poolRunning
  <2> DEFINE f == F!CancelAllFutures(futures)
             C == {t \in runningTasks : exec[t] \in ExecLive}
             T == {t \in C : InTable(t)}
  <2>1. /\ status' = [t \in Tasks |-> IF t \in C THEN Marked(t, "CANCELLED") ELSE status[t]]
        /\ futures' = F!SetExceptionAll(f, T)
    BY <1>3 DEF StopPool
  <2>2. /\ \A u \in Tasks : u \notin T => status'[u] = status[u]
        /\ \A u \in T : status'[u] = "CANCELLED" /\ status[u] # "absent"
    BY <1>t, <2>1 DEF Marked, InTable
  <2>3. f \in F!FuturesType
    BY <1>t DEF F!FuturesType, F!CancelAllFutures, F!FutureState
  <2>4. T \in SUBSET Tasks
    BY <1>t
  <2>5. \A u \in Tasks : F!Unresolved(futures', u) => F!Unresolved(futures, u) /\ u \notin T
    <3>1. \A u \in Tasks : F!Unresolved(f, u) => F!Unresolved(futures, u)
      BY <1>t DEF F!CancelAllFutures, F!Unresolved
    <3>2. \A u \in Tasks : F!Unresolved(F!SetExceptionAll(f, T), u)
                               => F!Unresolved(f, u) /\ u \notin T
      BY <2>3, <2>4 DEF F!SetExceptionAll, F!ResolveAll, F!Unresolved
    <3> HIDE DEF f, T
    <3> QED
      BY <2>1, <3>1, <3>2
  <2> HIDE DEF f, C, T
  <2>6. PendingIsQueued' /\ AbsentLeavesNoTrace' /\ QueuedIsNotExecuted'
    BY <1>0, <1>1, <1>2, <2>2, <2>4
    DEF PendingIsQueued, AbsentLeavesNoTrace, QueuedIsNotExecuted, Valid
  <2>7. NoWaiterLeftBehind' /\ RunningHasWorker' /\ ReturnedHasEnded'
    BY <1>0, <1>1, <2>2, <2>5 DEF NoWaiterLeftBehind, RunningHasWorker, ReturnedHasEnded
  <2> QED
    BY <2>6, <2>7
<1>4. CASE ~(StopPool /\ poolRunning)
  <2>1. status' = status
    BY <1>4 DEF Stopping, StopPool, StopTimeout, StopForce, StopGathered
  <2>2. \A u \in Tasks : F!Unresolved(futures', u) => F!Unresolved(futures, u)
    BY <1>t, <1>4 DEF Stopping, StopPool, StopTimeout, StopForce, StopGathered,
       F!CancelAllFutures, F!Unresolved
  <2>3. PendingIsQueued' /\ AbsentLeavesNoTrace' /\ QueuedIsNotExecuted'
    BY <1>0, <1>1, <1>2, <2>1
    DEF PendingIsQueued, AbsentLeavesNoTrace, QueuedIsNotExecuted, Valid
  <2>4. NoWaiterLeftBehind' /\ RunningHasWorker' /\ ReturnedHasEnded'
    BY <1>0, <1>1, <2>1, <2>2 DEF NoWaiterLeftBehind, RunningHasWorker, ReturnedHasEnded
  <2> QED
    BY <2>3, <2>4
<1> QED
  BY <1>3, <1>4

\* Every task is queued, or in the hands of a worker, or at its end, whatever
\* the clients call and whenever: cancellation, retention, stop() and start()
\* during stop() included.
THEOREM CoreCorrect == Spec => []CoreInv
<1>1. Init => CoreInv
  BY DEF Init, EmptyQueue, F!NoFutures, F!Unresolved, CoreInv, NoWaiterLeftBehind,
     PendingIsQueued, RunningHasWorker, AbsentLeavesNoTrace, QueuedIsNotExecuted,
     ReturnedHasEnded
<1>2. ASSUME TypeOK, CoreInv, [Next]_vars
      PROVE  CoreInv'
  <2>1. CASE UNCHANGED vars
    BY <1>2, <2>1 DEF vars, workerVars, execVars, CoreInv, NoWaiterLeftBehind, PendingIsQueued,
       RunningHasWorker, AbsentLeavesNoTrace, QueuedIsNotExecuted, ReturnedHasEnded, Valid,
       Working, F!Unresolved
  <2> QED
    BY <1>2, <2>1, ClientCore, HousekeepingCore, ExecutionCore, WorkerCore, StoppingCore
    DEF Next
<1> QED
  BY <1>1, <1>2, TypeCorrect, PTL DEF Spec

\* A task shown as PENDING is in the heap, unmarked.
THEOREM PendingTasksAreQueued == Spec => []PendingIsQueued
<1>1. CoreInv => PendingIsQueued
  BY DEF CoreInv
<1> QED
  BY <1>1, CoreCorrect, PTL

\* A task shown as RUNNING has a worker that will report its end.
THEOREM RunningTasksHaveWorkers == Spec => []RunningHasWorker
<1>1. CoreInv => RunningHasWorker
  BY DEF CoreInv
<1> QED
  BY <1>1, CoreCorrect, PTL

\* Nobody waits for a task that has ended.
THEOREM NoWaiterIsLeftBehind == Spec => []NoWaiterLeftBehind
<1>1. CoreInv => NoWaiterLeftBehind
  BY DEF CoreInv
<1> QED
  BY <1>1, CoreCorrect, PTL

-----------------------------------------------------------------------------
(* The count that TaskQueue.join() waits for.                              *)

\* The entries that a worker has taken and not yet given its task_done().
Open(q) == q.unfinished - Cardinality(q.heap)

LEMMA PutOpen ==
    ASSUME NEW q \in QueueType, NEW t \in Tasks, t \notin q.heap
    PROVE  Open(Put(q, t)) = Open(q)
<1>1. IsFiniteSet(q.heap) /\ Cardinality(q.heap) \in Nat
  BY FinitePart DEF QueueType
<1>2. Cardinality(q.heap \union {t}) = Cardinality(q.heap) + 1
  BY <1>1, FS_AddElement
<1> QED
  BY <1>1, <1>2 DEF Open, Put, QueueType

LEMMA SkipOpen ==
    ASSUME NEW q \in QueueType, NEW S \in SUBSET q.heap
    PROVE  Open(Skip(q, S)) = Open(q)
<1>1. IsFiniteSet(q.heap) /\ Cardinality(q.heap) \in Nat /\ Cardinality(S) \in Nat
  BY FinitePart DEF QueueType
<1>2. Cardinality(q.heap \ S) = Cardinality(q.heap) - Cardinality(S)
  <2>1. Cardinality(q.heap \ S) = Cardinality(q.heap) - Cardinality(q.heap \cap S)
    BY <1>1, FS_Difference
  <2>2. q.heap \cap S = S
    OBVIOUS
  <2> QED
    BY <2>1, <2>2
<1> QED
  BY <1>1, <1>2 DEF Open, Skip, QueueType

LEMMA TakeOpen ==
    ASSUME NEW q \in QueueType, NEW t \in Tasks, IsNext(q, t)
    PROVE  Open(Take(q, t)) = Open(q) + 1
<1> DEFINE r == Skip(q, Before(q, t))
<1>1. Before(q, t) \in SUBSET q.heap
  BY DEF Before
<1>2. r \in QueueType /\ Open(r) = Open(q)
  BY <1>1, SkipType, SkipOpen DEF QueueType
<1>3. t \in r.heap
  <2>1. Rank[t] \in Nat
    BY QueueAssumption
  <2>2. t \notin Before(q, t)
    BY <2>1 DEF Before
  <2> QED
    BY <2>2 DEF IsNext, Valid, Skip
<1> HIDE DEF r
<1>4. IsFiniteSet(r.heap) /\ Cardinality(r.heap) \in Nat
  BY <1>2, FinitePart DEF QueueType
<1>5. Cardinality(r.heap \ {t}) = Cardinality(r.heap) - 1
  BY <1>3, <1>4, FS_RemoveElement
<1>6. /\ Take(q, t).heap = r.heap \ {t}
      /\ Take(q, t).unfinished = r.unfinished
  BY DEF Take, r
<1>7. r.unfinished \in Int
  BY <1>2 DEF QueueType
<1>8. Open(r) + 1 = r.unfinished - (Cardinality(r.heap) - 1)
  BY <1>4, <1>7 DEF Open
<1>9. Open(Take(q, t)) = r.unfinished - Cardinality(r.heap \ {t})
  BY <1>6 DEF Open
<1> QED
  BY <1>2, <1>5, <1>8, <1>9

LEMMA OtherOpen ==
    ASSUME NEW q \in QueueType, NEW t \in Tasks, NEW S \in SUBSET Tasks
    PROVE  /\ Open(TaskDone(q)) = Open(q) - 1
           /\ Open(RemoveTask(q, t)) = Open(q)
           /\ Open(CleanCancelledTasks(q, S)) = Open(q)
           /\ Open(ClearTracking(q)) = Open(q)
<1>1. Cardinality(q.heap) \in Nat
  BY FinitePart DEF QueueType
<1>2. Open(TaskDone(q)) = Open(q) - 1
  BY <1>1 DEF Open, TaskDone, QueueType
<1>3. Open(RemoveTask(q, t)) = Open(q)
  BY <1>1 DEF Open, RemoveTask, QueueType
<1>4. Open(CleanCancelledTasks(q, S)) = Open(q)
  BY <1>1 DEF Open, CleanCancelledTasks, QueueType
<1>5. Open(ClearTracking(q)) = Open(q)
  BY <1>1 DEF Open, ClearTracking, QueueType
<1> QED
  BY <1>2, <1>3, <1>4, <1>5

Busy == {w \in Workers : wpc[w] = "busy"}

LEMMA BusyFinite == IsFiniteSet(Busy) /\ Cardinality(Busy) \in Nat
<1>1. IsFiniteSet(Workers)
  BY WorkerAssumption
<1>2. Busy \subseteq Workers
  BY DEF Busy
<1> QED
  BY <1>1, <1>2, FS_Subset, FS_CardinalityType

OpenInv == Open(queue) = Cardinality(Busy)

LEMMA ClientOpen ==
    ASSUME TypeOK, AbsentLeavesNoTrace, OpenInv, Clients \/ Housekeeping
    PROVE  OpenInv'
<1>1. queue \in QueueType /\ wpc \in [Workers -> {"off", "idle", "busy"}]
  BY DEF TypeOK
<1>2. Busy' = Busy
  <2>1. CASE Start
    BY <1>1, <2>1 DEF Start, Spare, workerVars, Busy
  <2>2. CASE ~Start
    <3>1. wpc' = wpc
      BY <2>2 DEF Clients, Housekeeping, StopBegin, CleanupOldTasks, AddTask, CancelPending,
         CancelRunning, GetTaskFuture, WaiterTimeout, DropFuture, FutureCleanup, CacheForget,
         workerVars
    <3> QED
      BY <3>1 DEF Busy
  <2> QED
    BY <2>1, <2>2
<1>3. Open(queue') = Open(queue)
  <2>1. CASE CleanupOldTasks
    BY <1>1, <2>1, OtherOpen DEF CleanupOldTasks
  <2>2. ASSUME NEW t \in Tasks, AddTask(t) PROVE Open(queue') = Open(queue)
    BY <1>1, <2>2, PutOpen DEF AddTask, AbsentLeavesNoTrace
  <2>3. ASSUME NEW t \in Tasks, CancelPending(t) PROVE Open(queue') = Open(queue)
    BY <1>1, <2>3, OtherOpen DEF CancelPending
  <2>4. CASE /\ ~CleanupOldTasks
             /\ ~\E t \in Tasks : AddTask(t) \/ CancelPending(t)
    <3>1. queue' = queue
      BY <2>4 DEF Clients, Housekeeping, Start, StopBegin, CancelRunning, GetTaskFuture,
         WaiterTimeout, DropFuture, FutureCleanup, CacheForget
    <3> QED
      BY <3>1
  <2> QED
    BY <2>1, <2>2, <2>3, <2>4
<1> QED
  BY <1>2, <1>3 DEF OpenInv

LEMMA WorkerOpen ==
    ASSUME TypeOK, OpenInv, NEW w \in Workers, Worker(w)
    PROVE  OpenInv'
<1>1. queue \in QueueType /\ wpc \in [Workers -> {"off", "idle", "busy"}]
  BY DEF TypeOK
<1>2. Open(queue) = Cardinality(Busy) /\ Cardinality(Busy) \in Nat
  BY BusyFinite DEF OpenInv
<1>3. CASE WorkerTake(w)
  <2>1. Open(queue') = Open(queue) + 1
    BY <1>1, <1>3, TakeOpen DEF WorkerTake
  <2>2. Busy' = Busy \union {w} /\ w \notin Busy
    BY <1>1, <1>3 DEF WorkerTake, Busy
  <2>3. Cardinality(Busy') = Cardinality(Busy) + 1
    BY <2>2, BusyFinite, FS_AddElement
  <2> QED
    BY <1>2, <2>1, <2>3 DEF OpenInv
<1>4. CASE WorkerDrain(w)
  <2>1. Open(queue') = Open(queue)
    BY <1>1, <1>4, SkipOpen DEF WorkerDrain
  <2>2. Busy' = Busy
    BY <1>4 DEF WorkerDrain, workerVars, Busy
  <2> QED
    BY <1>2, <2>1, <2>2 DEF OpenInv
<1>5. CASE WorkerLeave(w)
  <2>1. Busy' = Busy /\ queue' = queue
    BY <1>1, <1>5 DEF WorkerLeave, Busy
  <2> QED
    BY <1>2, <2>1 DEF OpenInv
<1>6. CASE WorkerReturned(w) \/ WorkerFailed(w) \/ WorkerCancelled(w)
  <2>1. PICK next \in {"idle", "off"} : Finished(w, next)
    BY <1>6 DEF WorkerReturned, WorkerFailed, WorkerCancelled, NextRound
  <2>2. Open(queue') = Open(queue) - 1
    <3>1. PICK t \in Tasks : t = wtask[w]
      BY <1>6 DEF TypeOK, WorkerReturned, WorkerFailed, WorkerCancelled
    <3> QED
      BY <1>1, <2>1, <3>1, OtherOpen DEF Finished
  <2>3. Busy' = Busy \ {w} /\ w \in Busy
    BY <1>1, <1>6, <2>1 DEF WorkerReturned, WorkerFailed, WorkerCancelled, Finished, Busy
  <2>4. Cardinality(Busy') = Cardinality(Busy) - 1
    BY <2>3, BusyFinite, FS_RemoveElement
  <2> QED
    BY <1>2, <2>2, <2>4 DEF OpenInv
<1> QED
  BY <1>3, <1>4, <1>5, <1>6 DEF Worker

LEMMA StoppingOpen ==
    ASSUME TypeOK, OpenInv, Stopping
    PROVE  OpenInv'
<1>1. queue \in QueueType
  BY DEF TypeOK
<1>2. Busy' = Busy
  BY DEF Stopping, StopPool, StopTimeout, StopForce, StopGathered, workerVars, Busy
<1>3. queue' = queue \/ queue' = ClearTracking(queue)
  BY DEF Stopping, StopPool, StopTimeout, StopForce, StopGathered, PoolStopReturn, StopReturn
<1>4. Cardinality(queue.heap) \in Nat
  BY <1>1, FinitePart DEF QueueType
<1>5. Open(ClearTracking(queue)) = Open(queue)
  BY <1>1, <1>4 DEF Open, ClearTracking, QueueType
<1> QED
  BY <1>2, <1>3, <1>5 DEF OpenInv

\* Every entry gets exactly one task_done(): join() waits for the entries in
\* the heap and those in the hands of a worker, and for nothing else.
THEOREM EveryEntryIsDoneOnce == Spec => []UnfinishedCount
<1>1. Init => OpenInv
  <2> SUFFICES ASSUME Init PROVE OpenInv
    OBVIOUS
  <2>1. Busy = {} /\ queue.heap = {} /\ queue.unfinished = 0
    BY DEF Init, EmptyQueue, Busy
  <2> QED
    BY <2>1, FS_EmptySet DEF OpenInv, Open
<1>2. ASSUME TypeOK, CoreInv, OpenInv, [Next]_vars
      PROVE  OpenInv'
  <2>1. CASE UNCHANGED vars \/ \E t \in Tasks : Execution(t)
    <3>1. queue' = queue /\ wpc' = wpc
      BY <2>1 DEF vars, workerVars, Execution, ExecTypeError, ExecCacheHit, ExecCall,
         ExecCancelledEarly, ExecReturn, ExecRaise, ExecCancelled, ExecSwallow
    <3> QED
      BY <1>2, <3>1 DEF OpenInv, Open, Busy
  <2>2. AbsentLeavesNoTrace
    BY <1>2 DEF CoreInv
  <2> QED
    BY <1>2, <2>1, <2>2, ClientOpen, WorkerOpen, StoppingOpen DEF Next
<1>3. TypeOK /\ OpenInv => UnfinishedCount
  <2> SUFFICES ASSUME TypeOK, OpenInv PROVE UnfinishedCount
    OBVIOUS
  <2>1. queue.unfinished \in Int /\ Cardinality(queue.heap) \in Nat
    BY FinitePart DEF TypeOK, QueueType
  <2>2. queue.unfinished - Cardinality(queue.heap) = Cardinality(Busy)
    BY DEF OpenInv, Open
  <2>3. Cardinality(Busy) \in Nat
    BY BusyFinite
  <2>4. queue.unfinished = Cardinality(queue.heap) + Cardinality(Busy)
    BY <2>1, <2>2, <2>3
  <2> QED
    BY <2>4 DEF UnfinishedCount, Busy
<1> QED
  BY <1>1, <1>2, <1>3, TypeCorrect, CoreCorrect, PTL DEF Spec

-----------------------------------------------------------------------------
(* Workers serve the queue in order.                                       *)

\* An execution comes into being in one step only: a worker takes the entry of
\* its task out of the queue.
LEMMA CreatedByTake ==
    ASSUME TypeOK, [Next]_vars, NEW t \in Tasks, exec[t] = "none", exec'[t] # "none"
    PROVE  \E w \in Workers : WorkerTake(w) /\ IsNext(queue, t)
<1>1. exec \in [Tasks -> ExecState]
  BY DEF TypeOK
<1>2. ~(UNCHANGED vars \/ Clients \/ Housekeeping \/ Stopping)
  BY DEF vars, Clients, Housekeeping, Stopping, Start, StopBegin, CleanupOldTasks, AddTask,
     CancelPending, CancelRunning, GetTaskFuture, WaiterTimeout, DropFuture, FutureCleanup,
     CacheForget, StopPool, StopTimeout, StopForce, StopGathered, execVars
<1>3. ASSUME NEW u \in Tasks PROVE ~Execution(u)
  BY <1>1, <1>3 DEF Execution, ExecTypeError, ExecCacheHit, ExecCall, ExecCancelledEarly,
     ExecReturn, ExecRaise, ExecCancelled, ExecSwallow, Begins, Ended
<1>4. PICK w \in Workers : Worker(w)
  BY <1>2, <1>3 DEF Next
<1>5. ~(WorkerDrain(w) \/ WorkerLeave(w))
  BY DEF WorkerDrain, WorkerLeave, execVars
<1>6. ~(WorkerReturned(w) \/ WorkerFailed(w) \/ WorkerCancelled(w))
  BY <1>1 DEF WorkerReturned, WorkerFailed, WorkerCancelled, Finished, ExecDone
<1>7. WorkerTake(w)
  BY <1>4, <1>5, <1>6 DEF Worker
<1>8. PICK u \in Tasks : IsNext(queue, u) /\ exec' = [exec EXCEPT ![u] = "created"]
  BY <1>7 DEF WorkerTake
<1>9. u = t
  BY <1>1, <1>8
<1> QED
  BY <1>7, <1>8, <1>9

\* However the tasks were submitted, cancelled and taken before: the task a
\* worker starts has the best priority of all that wait, for a PENDING task is
\* always in the heap and unmarked.
THEOREM WorkersServeInOrder == Spec => PriorityOrder
<1>1. ASSUME TypeOK, CoreInv, [Next]_vars,
             NEW s \in Tasks, NEW t \in Tasks,
             exec[t] = "none", exec'[t] = "created", status[s] = "PENDING"
      PROVE  Rank[t] <= Rank[s]
  <2>1. IsNext(queue, t)
    BY <1>1, CreatedByTake
  <2>2. s \in Valid(queue)
    BY <1>1 DEF CoreInv, PendingIsQueued
  <2> QED
    BY <2>1, <2>2 DEF IsNext
<1>2. TypeOK /\ CoreInv /\ [Next]_vars =>
          [\A s, t \in Tasks :
              exec[t] = "none" /\ exec'[t] = "created" /\ status[s] = "PENDING"
                  => Rank[t] <= Rank[s]]_vars
  BY <1>1
<1> QED
  BY <1>2, TypeCorrect, CoreCorrect, PTL DEF Spec, PriorityOrder

-----------------------------------------------------------------------------
(* from_cache.                                                             *)

\* The function is entered when the execution becomes "running", and a task is
\* COMPLETED only by its execution, once, when that returns.
CallInv ==
    \A t \in Tasks :
        /\ exec[t] \in {"none", "created"} => t \notin called
        /\ exec[t] = "running" => t \in called
        /\ status[t] = "COMPLETED" =>
              exec[t] \in {"returned", "over"} /\ (t \in fromCache <=> t \notin called)

LEMMA ExecutionCallInv ==
    ASSUME TypeOK, CallInv, NEW t \in Tasks, Execution(t)
    PROVE  CallInv'
<1>t. /\ status \in [Tasks -> Status]
      /\ exec \in [Tasks -> ExecState]
  BY DEF TypeOK
<1>1. CASE ExecCacheHit(t) \/ ExecReturn(t)
  <2>1. PICK hit \in BOOLEAN : OnCompleted(t, hit) /\ (hit <=> exec[t] = "created")
    BY <1>1 DEF ExecCacheHit, ExecReturn, Begins
  <2>2. /\ exec[t] \in {"created", "running"}
        /\ exec' = [exec EXCEPT ![t] = "returned"]
        /\ called' = called
    BY <1>1 DEF ExecCacheHit, ExecReturn, Begins, Ended
  <2>3. status[t] # "COMPLETED"
    BY <2>2 DEF CallInv
  <2>4. status'[t] = "COMPLETED" => InTable(t)
    BY <1>t, <2>1 DEF OnCompleted, InTable
  <2>5. \A u \in Tasks : u # t => status'[u] = status[u] /\ (u \in fromCache' <=> u \in fromCache)
    BY <1>t, <2>1 DEF OnCompleted
  <2>6. InTable(t) => (t \in fromCache' <=> hit)
    BY <2>1 DEF OnCompleted
  <2> QED
    BY <1>t, <2>1, <2>2, <2>3, <2>4, <2>5, <2>6 DEF CallInv
<1>2. CASE ExecCall(t)
  BY <1>t, <1>2 DEF ExecCall, Begins, CallInv
<1>3. CASE ~(ExecCacheHit(t) \/ ExecReturn(t) \/ ExecCall(t))
  <2>1. UNCHANGED <<status, called, fromCache>>
    BY <1>3 DEF Execution, ExecTypeError, ExecCancelledEarly, ExecRaise, ExecCancelled, ExecSwallow
  <2>2. /\ exec[t] \in {"created", "running"}
        /\ exec' = exec \/ exec' = [exec EXCEPT ![t] = "raised"]
                        \/ exec' = [exec EXCEPT ![t] = "cancelled"]
    BY <1>3 DEF Execution, ExecTypeError, ExecCancelledEarly, ExecRaise, ExecCancelled, ExecSwallow,
       Begins, Ended
  <2> QED
    BY <1>t, <2>1, <2>2 DEF CallInv
<1> QED
  BY <1>1, <1>2, <1>3

\* Nobody else touches `called` or from_cache, nor says COMPLETED.
LEMMA OtherCallInv ==
    ASSUME TypeOK, CoreInv, CallInv, [Next]_vars, \A t \in Tasks : ~Execution(t)
    PROVE  CallInv'
<1>t. /\ status \in [Tasks -> Status]
      /\ exec \in [Tasks -> ExecState]
      /\ \A w \in Workers : wpc[w] = "busy" => wtask[w] \in Tasks
  BY DEF TypeOK
<1>1. UNCHANGED <<called, fromCache>>
  BY DEF Next, vars, Clients, Housekeeping, Stopping, Start, StopBegin, CleanupOldTasks, AddTask,
     CancelPending, CancelRunning, GetTaskFuture, WaiterTimeout, DropFuture, FutureCleanup,
     CacheForget, StopPool, StopTimeout, StopForce, StopGathered, execVars, Worker, WorkerTake,
     WorkerDrain, WorkerLeave, WorkerReturned, WorkerFailed, WorkerCancelled, Finished
<1>2. \A t \in Tasks : status'[t] = "COMPLETED" => status[t] = "COMPLETED"
  <2>1. CASE UNCHANGED vars \/ Housekeeping
    BY <2>1 DEF vars, Housekeeping, FutureCleanup, CacheForget
  <2>2. CASE Clients
    BY <1>t, <2>2 DEF Clients, Start, StopBegin, CleanupOldTasks, AddTask, CancelPending,
       CancelRunning, GetTaskFuture, WaiterTimeout, DropFuture, OnEnded, Marked
  <2>3. CASE Stopping
    BY <1>t, <2>3 DEF Stopping, StopPool, StopTimeout, StopForce, StopGathered, Marked
  <2>4. ASSUME NEW w \in Workers, Worker(w)
        PROVE  \A t \in Tasks : status'[t] = "COMPLETED" => status[t] = "COMPLETED"
    BY <1>t, <2>4 DEF Worker, WorkerTake, WorkerDrain, WorkerLeave, WorkerReturned, WorkerFailed,
       WorkerCancelled, OnStarted, OnEnded, Marked
  <2> QED
    BY <2>1, <2>2, <2>3, <2>4 DEF Next
<1>3. \A t \in Tasks : \/ exec'[t] = exec[t]
                       \/ exec[t] = "none" /\ exec'[t] = "created"
                       \/ exec[t] \in ExecDone /\ exec'[t] = "over"
  <2>1. CASE UNCHANGED vars \/ Housekeeping \/ Clients \/ Stopping
    BY <2>1 DEF vars, Clients, Housekeeping, Stopping, Start, StopBegin, CleanupOldTasks, AddTask,
       CancelPending, CancelRunning, GetTaskFuture, WaiterTimeout, DropFuture, FutureCleanup,
       CacheForget, StopPool, StopTimeout, StopForce, StopGathered, execVars
  <2>2. ASSUME NEW w \in Workers, WorkerTake(w)
        PROVE  \E u \in Tasks : exec[u] = "none" /\ exec' = [exec EXCEPT ![u] = "created"]
    BY <2>2 DEF WorkerTake, IsNext, Valid, CoreInv, QueuedIsNotExecuted
  <2>3. ASSUME NEW w \in Workers, WorkerDrain(w) \/ WorkerLeave(w) PROVE exec' = exec
    BY <2>3 DEF WorkerDrain, WorkerLeave, execVars
  <2>4. ASSUME NEW w \in Workers, WorkerReturned(w) \/ WorkerFailed(w) \/ WorkerCancelled(w)
        PROVE  \E u \in Tasks : exec[u] \in ExecDone /\ exec' = [exec EXCEPT ![u] = "over"]
    BY <1>t, <2>4 DEF WorkerReturned, WorkerFailed, WorkerCancelled, Finished, ExecDone
  <2> QED
    BY <1>t, <2>1, <2>2, <2>3, <2>4 DEF Next, Worker
<1> QED
  BY <1>1, <1>2, <1>3 DEF CallInv, ExecDone

\* from_cache of a COMPLETED task tells whether its function was not called,
\* whatever happened to the task, the cache and the worker in between.
THEOREM FromCacheTellsTheTruth == Spec => []FromCacheTruthful
<1>1. Init => CallInv
  BY DEF Init, CallInv
<1>2. TypeOK /\ CoreInv /\ CallInv /\ [Next]_vars => CallInv'
  BY ExecutionCallInv, OtherCallInv
<1>3. CallInv => FromCacheTruthful
  BY DEF CallInv, FromCacheTruthful
<1> QED
  BY <1>1, <1>2, <1>3, TypeCorrect, CoreCorrect, PTL DEF Spec
=============================================================================
