----------------------- MODULE AsyncTaskWorkerShutdown -----------------------
(***************************************************************************)
(* Theorems about stop(): what is left when it returns, and how much runs  *)
(* before and after it.  They are about a start() that never runs in the   *)
(* middle of a stop(); what happens when it does is in the README.         *)
(***************************************************************************)
EXTENDS AsyncTaskWorkerProofs

-----------------------------------------------------------------------------
(* A pool, and the stop() that ends it.                                    *)

Waiting == {"gather", "force", "drain"}

\* The phases of stop().
PhaseInv ==
    /\ stopPc = "none" => (running <=> poolRunning)
    /\ stopPc # "none" => ~running
    /\ stopPc = "closing" => poolRunning
    /\ stopPc \in Waiting => ~poolRunning

\* The workers that live are those of the pool, and stop() waits for them.
MembersInv ==
    /\ Cardinality(workers) <= MaxWorkers
    /\ stopPc = "none" /\ ~poolRunning => workers = {}
    /\ stopPc \in Waiting => awaited \subseteq workers
    /\ \A w \in Workers : wpc[w] # "off" =>
          /\ w \in workers
          /\ stopPc \in Waiting => w \in awaited

\* An execution whose end its worker has not seen yet has a worker, and only
\* such an execution is registered.
ExecInv ==
    /\ \A t \in Tasks : exec[t] \in ExecLive \union ExecDone => \E w \in Workers : Working(w, t)
    /\ \A t \in runningTasks : exec[t] \in ExecLive \union ExecDone

\* A request to cancel is for somebody who will meet it, and every idle worker
\* of a pool that is stopped has one.
RequestInv ==
    /\ \A w \in wcancel : wpc[w] # "off"
    /\ \A t \in execCancel : exec[t] \in ExecLive
    /\ ~poolRunning => \A w \in Workers : wpc[w] = "idle" => w \in wcancel

-----------------------------------------------------------------------------
(* Who changes what.                                                       *)

LEMMA StopVarsChange ==
    ASSUME [Next]_vars
    PROVE  \/ Start \/ StopBegin \/ Stopping
           \/ UNCHANGED <<running, stopPc, awaited, poolRunning, workers>>
  BY DEF Next, vars, Clients, Housekeeping, Execution, Worker, CleanupOldTasks, AddTask,
     CancelPending, CancelRunning, GetTaskFuture, WaiterTimeout, DropFuture, FutureCleanup,
     CacheForget, ExecTypeError, ExecCacheHit, ExecCall, ExecCancelledEarly, ExecReturn, ExecRaise,
     ExecCancelled, ExecSwallow, WorkerTake, WorkerDrain, WorkerLeave, WorkerReturned, WorkerFailed,
     WorkerCancelled, Finished, lifecycleVars, stopVars, poolVars

LEMMA ExecutionChange ==
    ASSUME TypeOK, NEW t \in Tasks, Execution(t)
    PROVE  /\ exec[t] \in ExecLive
           /\ \E s \in ExecLive \union ExecDone : exec' = [exec EXCEPT ![t] = s]
           /\ execCancel' \subseteq execCancel
           /\ t \in execCancel' => exec'[t] \in ExecLive
           /\ UNCHANGED <<wpc, wtask, wcancel, runningTasks>>
<1>t. exec \in [Tasks -> ExecState]
  BY DEF TypeOK
<1>1. CASE ExecTypeError(t)
  BY <1>t, <1>1 DEF ExecTypeError, Begins, Ended, ExecLive, ExecDone, workerVars
<1>2. CASE ExecCacheHit(t)
  BY <1>t, <1>2 DEF ExecCacheHit, Begins, Ended, ExecLive, ExecDone, workerVars
<1>3. CASE ExecCall(t)
  BY <1>t, <1>3 DEF ExecCall, Begins, Ended, ExecLive, ExecDone, workerVars
<1>4. CASE ExecCancelledEarly(t)
  BY <1>t, <1>4 DEF ExecCancelledEarly, Ended, ExecLive, ExecDone, workerVars
<1>5. CASE ExecReturn(t)
  BY <1>t, <1>5 DEF ExecReturn, Ended, ExecLive, ExecDone, workerVars
<1>6. CASE ExecRaise(t)
  BY <1>t, <1>6 DEF ExecRaise, Ended, ExecLive, ExecDone, workerVars
<1>7. CASE ExecCancelled(t)
  BY <1>t, <1>7 DEF ExecCancelled, Ended, ExecLive, ExecDone, workerVars
<1>8. CASE ExecSwallow(t)
  <2>1. exec' = [exec EXCEPT ![t] = exec[t]]
    BY <1>t, <1>8 DEF ExecSwallow
  <2> QED
    BY <1>t, <1>8, <2>1 DEF ExecSwallow, ExecLive, ExecDone, workerVars
<1> QED
  BY <1>1, <1>2, <1>3, <1>4, <1>5, <1>6, <1>7, <1>8 DEF Execution

\* A worker takes a task, lets go of the task whose execution is done, or has
\* none.
Took(w, t) ==
    /\ wpc[w] = "idle"
    /\ wpc' = [wpc EXCEPT ![w] = "busy"]
    /\ wtask' = [wtask EXCEPT ![w] = t]
    /\ wcancel' = wcancel
    /\ exec' = [exec EXCEPT ![t] = "created"]
    /\ runningTasks' = runningTasks \union {t}

LetGo(w) ==
    /\ wpc[w] = "busy"
    /\ exec[wtask[w]] \in ExecDone
    /\ \E l \in {"off", NextRound} : wpc' = [wpc EXCEPT ![w] = l]
    /\ wtask' = [wtask EXCEPT ![w] = NoTask]
    /\ wcancel' = wcancel \ {w}
    /\ exec' = [exec EXCEPT ![wtask[w]] = "over"]
    /\ runningTasks' = runningTasks \ {wtask[w]}

HadNone(w) ==
    /\ wpc[w] = "idle"
    /\ \/ wpc' = wpc /\ wcancel' = wcancel
       \/ wpc' = [wpc EXCEPT ![w] = "off"] /\ wcancel' = wcancel \ {w}
    /\ UNCHANGED <<wtask, exec, runningTasks>>

LEMMA WorkerChange ==
    ASSUME TypeOK, NEW w \in Workers, Worker(w)
    PROVE  /\ execCancel' = execCancel
           /\ HadNone(w) \/ LetGo(w) \/ \E t \in Tasks : Took(w, t)
<1>t. wpc \in [Workers -> {"off", "idle", "busy"}]
  BY DEF TypeOK
<1>1. CASE WorkerTake(w)
  BY <1>1 DEF WorkerTake, Took
<1>2. CASE WorkerDrain(w)
  BY <1>2 DEF WorkerDrain, HadNone, workerVars, execVars
<1>3. CASE WorkerLeave(w)
  BY <1>3 DEF WorkerLeave, HadNone, execVars
<1>4. CASE WorkerReturned(w)
  BY <1>t, <1>4 DEF WorkerReturned, Finished, LetGo, ExecDone
<1>5. CASE WorkerFailed(w)
  BY <1>t, <1>5 DEF WorkerFailed, Finished, LetGo, ExecDone
<1>6. CASE WorkerCancelled(w)
  BY <1>t, <1>6 DEF WorkerCancelled, Finished, LetGo, ExecDone
<1> QED
  BY <1>1, <1>2, <1>3, <1>4, <1>5, <1>6 DEF Worker

-----------------------------------------------------------------------------
(* The four parts are invariants, one on top of the other.                 *)

NoStartDuringStop == "start during stop" \notin Calls

LEMMA PhaseStep ==
    ASSUME NoStartDuringStop, PhaseInv, [Next]_vars
    PROVE  PhaseInv'
<1>1. CASE Start
  BY <1>1 DEF Start, NoStartDuringStop, PhaseInv, poolVars, stopVars, Waiting
<1>2. CASE StopBegin
  BY <1>2 DEF StopBegin, PhaseInv, poolVars, Waiting
<1>3. CASE StopPool
  BY <1>3 DEF StopPool, PoolStopReturn, StopReturn, PhaseInv, lifecycleVars, poolVars, Waiting
<1>4. CASE StopTimeout \/ StopForce \/ StopGathered
  BY <1>4 DEF StopTimeout, StopForce, StopGathered, PoolStopReturn, StopReturn, PhaseInv,
     lifecycleVars, poolVars, Waiting
<1>5. CASE UNCHANGED <<running, stopPc, awaited, poolRunning, workers>>
  BY <1>5 DEF PhaseInv, Waiting
<1> QED
  BY <1>1, <1>2, <1>3, <1>4, <1>5, StopVarsChange DEF Stopping

LEMMA PhaseHolds ==
    ASSUME NoStartDuringStop
    PROVE  Spec => []PhaseInv
<1>1. Init => PhaseInv
  BY DEF Init, PhaseInv, Waiting
<1> QED
  BY <1>1, PhaseStep, PTL DEF Spec

\* Outside of start() no worker comes to life.
LEMMA NobodyWakes ==
    ASSUME TypeOK, [Next]_vars, ~Start, NEW w \in Workers, wpc'[w] # "off"
    PROVE  wpc[w] # "off"
<1>t. wpc \in [Workers -> {"off", "idle", "busy"}]
  BY DEF TypeOK
<1>1. CASE \E v \in Workers : Worker(v)
  <2>1. PICK v \in Workers : Worker(v)
    BY <1>1
  <2>2. HadNone(v) \/ LetGo(v) \/ \E t \in Tasks : Took(v, t)
    BY <2>1, WorkerChange
  <2> QED
    BY <1>t, <2>2 DEF HadNone, LetGo, Took
<1>2. CASE \E t \in Tasks : Execution(t)
  BY <1>2, ExecutionChange
<1>3. CASE ~(\E v \in Workers : Worker(v)) /\ ~(\E t \in Tasks : Execution(t))
  <2>1. wpc' = wpc
    BY <1>3 DEF Next, vars, Clients, Housekeeping, CleanupOldTasks, AddTask, CancelPending,
       CancelRunning, GetTaskFuture, WaiterTimeout, DropFuture, FutureCleanup, CacheForget,
       StopBegin, Stopping, StopPool, StopTimeout, StopForce, StopGathered, workerVars
  <2> QED
    BY <2>1
<1> QED
  BY <1>1, <1>2, <1>3

LEMMA MembersStep ==
    ASSUME TypeOK, NoStartDuringStop, PhaseInv, MembersInv, [Next]_vars
    PROVE  MembersInv'
<1>t. /\ wpc \in [Workers -> {"off", "idle", "busy"}]
      /\ workers \subseteq Workers
      /\ MaxWorkers \in Nat
      /\ stopPc \in StopState
  BY WorkerAssumption DEF TypeOK
<1>1. CASE Start
  <2>1. stopPc = "none" /\ ~poolRunning
    BY <1>1 DEF Start, NoStartDuringStop, PhaseInv
  <2>2. workers = {} /\ \A w \in Workers : wpc[w] = "off"
    BY <2>1 DEF MembersInv
  <2>3. PICK S \in SUBSET Spare :
           /\ Cardinality(S) = MaxWorkers
           /\ workers' = workers \union S
           /\ wpc' = [w \in Workers |-> IF w \in S THEN "idle" ELSE wpc[w]]
    BY <1>1, <2>1 DEF Start
  <2>4. workers' = S
    BY <2>2, <2>3
  <2>5. stopPc' = "none" /\ poolRunning'
    BY <1>1, <2>1 DEF Start, stopVars
  <2> QED
    BY <1>t, <2>2, <2>3, <2>4, <2>5 DEF MembersInv, Waiting
<1>2. CASE StopBegin
  BY <1>t, <1>2 DEF StopBegin, MembersInv, poolVars, workerVars, Waiting
<1>3. CASE StopPool
  <2>1. poolRunning /\ stopPc = "closing" /\ wpc' = wpc
    BY <1>3 DEF StopPool, PhaseInv
  <2>2. CASE workers = {}
    <3>1. workers' = {} /\ stopPc' = "none"
      BY <1>3, <2>1, <2>2 DEF StopPool, PoolStopReturn, StopReturn
    <3> QED
      BY <1>t, <2>1, <2>2, <3>1, FS_EmptySet DEF MembersInv, Waiting
  <2>3. CASE workers # {}
    <3>1. workers' = workers /\ awaited' = workers /\ stopPc' = "gather"
      BY <1>3, <2>1, <2>3 DEF StopPool
    <3> QED
      BY <2>1, <3>1 DEF MembersInv, Waiting
  <2> QED
    BY <2>2, <2>3
<1>4. CASE StopTimeout
  BY <1>4 DEF StopTimeout, MembersInv, Waiting, poolVars, Alive
<1>5. CASE StopForce
  BY <1>5 DEF StopForce, MembersInv, Waiting, poolVars
<1>6. CASE StopGathered
  <2>1. /\ stopPc \in Waiting /\ Alive(awaited) = {}
        /\ workers' = {} /\ stopPc' = "none" /\ wpc' = wpc
    BY <1>6 DEF StopGathered, PoolStopReturn, StopReturn, workerVars, Waiting
  <2>2. \A w \in Workers : wpc[w] = "off"
    BY <2>1 DEF MembersInv, Alive
  <2> QED
    BY <1>t, <2>1, <2>2, FS_EmptySet DEF MembersInv, Waiting
<1>7. CASE ~Start /\ UNCHANGED <<running, stopPc, awaited, poolRunning, workers>>
  BY <1>7, NobodyWakes DEF MembersInv, Waiting
<1> QED
  BY <1>1, <1>2, <1>3, <1>4, <1>5, <1>6, <1>7, StopVarsChange DEF Stopping

LEMMA MembersHold ==
    ASSUME NoStartDuringStop
    PROVE  Spec => []MembersInv
<1>1. Init => MembersInv
  BY WorkerAssumption, FS_EmptySet DEF Init, MembersInv, Waiting
<1> QED
  BY <1>1, MembersStep, TypeCorrect, PhaseHolds, PTL DEF Spec

-----------------------------------------------------------------------------
(* Executions and requests.                                                *)

LEMMA ExecStep ==
    ASSUME TypeOK, ExecInv, [Next]_vars
    PROVE  ExecInv'
<1>t. /\ wpc \in [Workers -> {"off", "idle", "busy"}]
      /\ wtask \in [Workers -> Tasks \union {NoTask}]
      /\ exec \in [Tasks -> ExecState]
      /\ runningTasks \subseteq Tasks
      /\ \A w \in Workers : wpc[w] = "busy" => wtask[w] \in Tasks
  BY DEF TypeOK
<1> USE DEF Working
<1>1. ASSUME NEW w \in Workers, NEW t \in Tasks, Took(w, t)
      PROVE  ExecInv'
  <2>1. Working(w, t)'
    BY <1>t, <1>1 DEF Took
  <2>2. \A v \in Workers, u \in Tasks : Working(v, u) => Working(v, u)'
    BY <1>t, <1>1 DEF Took
  <2>3. exec'[t] = "created" /\ \A u \in Tasks : u # t => exec'[u] = exec[u]
    BY <1>t, <1>1 DEF Took
  <2>4. runningTasks' = runningTasks \union {t}
    BY <1>1 DEF Took
  <2> HIDE DEF Working
  <2> QED
    BY <1>t, <2>1, <2>2, <2>3, <2>4 DEF ExecInv, ExecLive
<1>2. ASSUME NEW w \in Workers, LetGo(w)
      PROVE  ExecInv'
  <2>1. wtask[w] \in Tasks /\ exec'[wtask[w]] = "over"
    BY <1>t, <1>2 DEF LetGo
  <2>2. \A u \in Tasks : u # wtask[w] => exec'[u] = exec[u]
    BY <1>t, <1>2 DEF LetGo
  <2>3. \A v \in Workers, u \in Tasks : u # wtask[w] /\ Working(v, u) => Working(v, u)'
    BY <1>t, <1>2 DEF LetGo
  <2>4. runningTasks' = runningTasks \ {wtask[w]}
    BY <1>2 DEF LetGo
  <2> HIDE DEF Working
  <2> QED
    BY <1>t, <2>1, <2>2, <2>3, <2>4 DEF ExecInv, ExecLive, ExecDone
<1>3. ASSUME NEW w \in Workers, HadNone(w)
      PROVE  ExecInv'
  BY <1>t, <1>3 DEF HadNone, ExecInv
<1>4. ASSUME NEW t \in Tasks, Execution(t)
      PROVE  ExecInv'
  BY <1>t, <1>4, ExecutionChange DEF ExecInv
<1>5. CASE ~(\E w \in Workers : Worker(w)) /\ ~(\E t \in Tasks : Execution(t))
  <2>1. exec' = exec /\ wtask' = wtask /\ runningTasks' \subseteq runningTasks
    BY <1>5 DEF Next, vars, Clients, Housekeeping, Start, CleanupOldTasks, AddTask, CancelPending,
       CancelRunning, GetTaskFuture, WaiterTimeout, DropFuture, FutureCleanup, CacheForget,
       StopBegin, Stopping, StopPool, PoolStopReturn, StopTimeout, StopForce, StopGathered,
       workerVars, execVars
  <2>2. \A w \in Workers : wpc[w] = "busy" => wpc'[w] = "busy"
    <3>1. CASE Start
      BY <1>t, <3>1 DEF Start, Spare, workerVars
    <3>2. CASE ~Start
      BY <1>5, <3>2 DEF Next, vars, Clients, Housekeeping, CleanupOldTasks, AddTask, CancelPending,
         CancelRunning, GetTaskFuture, WaiterTimeout, DropFuture, FutureCleanup, CacheForget,
         StopBegin, Stopping, StopPool, StopTimeout, StopForce, StopGathered, workerVars
    <3> QED
      BY <3>1, <3>2
  <2> QED
    BY <1>t, <2>1, <2>2 DEF ExecInv
<1> QED
  BY <1>1, <1>2, <1>3, <1>4, <1>5, WorkerChange

LEMMA ExecHolds == Spec => []ExecInv
<1>1. Init => ExecInv
  BY DEF Init, ExecInv, ExecLive, ExecDone
<1> QED
  BY <1>1, ExecStep, TypeCorrect, PTL DEF Spec

\* The steps of stop() that cancel the workers in S.
LEMMA CancelledWorkers ==
    ASSUME NEW S, CancelWorkers(S),
           NEW w \in wcancel'
    PROVE  w \in wcancel \/ (w \in S /\ wpc[w] # "off")
  BY DEF CancelWorkers

LEMMA CancelledExecutions ==
    ASSUME NEW S, NEW t \in Delegated(S)
    PROVE  exec[t] \in ExecLive
  BY DEF Delegated, Awaits

LEMMA RequestStep ==
    ASSUME TypeOK, NoStartDuringStop, PhaseInv, MembersInv, ExecInv, RequestInv, [Next]_vars
    PROVE  RequestInv'
<1>t. /\ wpc \in [Workers -> {"off", "idle", "busy"}]
      /\ wtask \in [Workers -> Tasks \union {NoTask}]
      /\ exec \in [Tasks -> ExecState]
      /\ wcancel \subseteq Workers /\ workers \subseteq Workers /\ awaited \subseteq Workers
      /\ execCancel \subseteq Tasks
      /\ \A w \in Workers : wpc[w] = "busy" => wtask[w] \in Tasks
  BY DEF TypeOK
<1>1. CASE Start
  <2>1. ~poolRunning /\ poolRunning'
    BY <1>1 DEF Start, NoStartDuringStop, PhaseInv
  <2>2. wcancel' = wcancel /\ execCancel' = execCancel /\ exec' = exec
    BY <1>1, <2>1 DEF Start, execVars
  <2>3. \A w \in Workers : wpc[w] # "off" => wpc'[w] # "off"
    BY <1>t, <1>1, <2>1 DEF Start
  <2> QED
    BY <1>t, <2>1, <2>2, <2>3 DEF RequestInv
<1>2. CASE StopPool
  <2>1. /\ poolRunning
        /\ CancelWorkers(workers)
        /\ exec' = exec /\ wpc' = wpc
        /\ execCancel' = execCancel \union {t \in runningTasks : exec[t] \in ExecLive}
                                    \union Delegated(workers)
    BY <1>2 DEF StopPool, PhaseInv
  <2>2. \A t \in execCancel' : exec[t] \in ExecLive
    BY <2>1, CancelledExecutions DEF RequestInv
  <2>3. \A w \in wcancel' : wpc[w] # "off"
    BY <2>1, CancelledWorkers DEF RequestInv
  <2>4. \A w \in Workers : wpc[w] = "idle" => w \in wcancel'
    BY <1>t, <2>1 DEF MembersInv, CancelWorkers, Awaits
  <2> QED
    BY <2>1, <2>2, <2>3, <2>4 DEF RequestInv
<1>3. CASE StopTimeout \/ StopForce
  <2>1. PICK S \in {workers, awaited} :
           /\ CancelWorkers(S)
           /\ execCancel' = execCancel \union Delegated(S)
    BY <1>3 DEF StopTimeout, StopForce
  <2>2. exec' = exec /\ wpc' = wpc /\ poolRunning' = poolRunning /\ wcancel \subseteq wcancel'
    BY <1>3, <2>1 DEF StopTimeout, StopForce, poolVars, CancelWorkers
  <2>3. \A t \in execCancel' : exec[t] \in ExecLive
    BY <2>1, CancelledExecutions DEF RequestInv
  <2>4. \A w \in wcancel' : wpc[w] # "off"
    BY <2>1, CancelledWorkers DEF RequestInv
  <2> QED
    BY <2>2, <2>3, <2>4 DEF RequestInv
<1>4. ASSUME NEW t \in Tasks, CancelRunning(t)
      PROVE  RequestInv'
  <2>1. \A u \in execCancel' : u \in execCancel \/ (u \in runningTasks /\ exec[u] \notin ExecDone)
    BY <1>4 DEF CancelRunning
  <2>2. \A u \in execCancel' : exec[u] \in ExecLive
    BY <2>1 DEF RequestInv, ExecInv
  <2> QED
    BY <1>4, <2>2 DEF CancelRunning, RequestInv, poolVars, workerVars
<1>5. ASSUME NEW t \in Tasks, Execution(t)
      PROVE  RequestInv'
  <2>1. poolRunning' = poolRunning
    BY <1>5 DEF Execution, ExecTypeError, ExecCacheHit, ExecCall, ExecCancelledEarly, ExecReturn,
       ExecRaise, ExecCancelled, ExecSwallow, poolVars
  <2>2. PICK s : exec' = [exec EXCEPT ![t] = s]
    BY <1>5, ExecutionChange
  <2>3. /\ execCancel' \subseteq execCancel
        /\ t \in execCancel' => exec'[t] \in ExecLive
        /\ wpc' = wpc /\ wcancel' = wcancel
    BY <1>5, ExecutionChange
  <2> QED
    BY <1>t, <2>1, <2>2, <2>3 DEF RequestInv
<1>6. ASSUME NEW w \in Workers, Worker(w)
      PROVE  RequestInv'
  <2>1. poolRunning' = poolRunning /\ execCancel' = execCancel
    BY <1>6, WorkerChange DEF Worker, WorkerTake, WorkerDrain, WorkerLeave, WorkerReturned, WorkerFailed,
       WorkerCancelled, Finished, poolVars
  <2>2. ASSUME NEW t \in Tasks, Took(w, t) PROVE RequestInv'
    BY <1>t, <2>1, <2>2 DEF Took, RequestInv, ExecLive
  <2>3. CASE LetGo(w)
    <3>1. wtask[w] \in Tasks \ execCancel
      BY <1>t, <2>3 DEF LetGo, RequestInv, ExecLive, ExecDone
    <3>2. \A u \in execCancel : exec'[u] = exec[u]
      BY <1>t, <2>3, <3>1 DEF LetGo
    <3>3. wcancel' = wcancel \ {w} /\ \A v \in Workers : v # w => wpc'[v] = wpc[v]
      BY <1>t, <2>3 DEF LetGo
    <3>4. ~poolRunning => wpc'[w] # "idle"
      BY <1>t, <2>3 DEF LetGo, NextRound
    <3> QED
      BY <1>t, <2>1, <3>2, <3>3, <3>4 DEF RequestInv
  <2>4. CASE HadNone(w)
    BY <1>t, <2>1, <2>4 DEF HadNone, RequestInv
  <2> QED
    BY <1>6, <2>2, <2>3, <2>4, WorkerChange
<1>7. CASE /\ ~Start /\ ~StopPool /\ ~StopTimeout /\ ~StopForce
           /\ ~(\E t \in Tasks : CancelRunning(t) \/ Execution(t))
           /\ ~(\E w \in Workers : Worker(w))
  <2>1. UNCHANGED <<wpc, wcancel, exec, execCancel, poolRunning>>
    BY <1>7 DEF Next, vars, Clients, Housekeeping, CleanupOldTasks, AddTask, CancelPending,
       GetTaskFuture, WaiterTimeout, DropFuture, FutureCleanup, CacheForget,
       StopBegin, Stopping, StopGathered, workerVars, execVars, poolVars
  <2> QED
    BY <2>1 DEF RequestInv
<1> QED
  BY <1>1, <1>2, <1>3, <1>4, <1>5, <1>6, <1>7

LEMMA RequestHolds ==
    ASSUME NoStartDuringStop
    PROVE  Spec => []RequestInv
<1>1. Init => RequestInv
  BY DEF Init, RequestInv
<1> QED
  BY <1>1, RequestStep, TypeCorrect, PhaseHolds, MembersHold, ExecHolds, PTL DEF Spec

-----------------------------------------------------------------------------
(* The theorems.                                                           *)

\* max_workers is a bound on what is executed at a time, through any number of
\* stops and starts: every execution has a worker of its own in the pool, and
\* stop() does not return while a worker of the old pool lives.
THEOREM PoolBoundsExecutions ==
    ASSUME NoStartDuringStop
    PROVE  Spec => []WithinMaxWorkers
<1>1. ASSUME TypeOK, MembersInv, ExecInv PROVE WithinMaxWorkers
  <2> DEFINE S == {t \in Tasks : Serving(t)}
             f == [t \in S |-> CHOOSE w \in Workers : Working(w, t)]
  <2>1. workers \subseteq Workers /\ IsFiniteSet(workers) /\ Cardinality(workers) \in Nat
        /\ MaxWorkers \in Nat /\ Cardinality(workers) <= MaxWorkers
    BY <1>1, WorkerAssumption, FS_Subset, FS_CardinalityType DEF TypeOK, MembersInv
  <2>2. \A t \in S : f[t] \in Workers /\ Working(f[t], t)
    BY <1>1 DEF ExecInv, Serving
  <2> HIDE DEF f
  <2>3. \A t \in S : f[t] \in workers
    BY <1>1, <2>2 DEF MembersInv, Working
  <2>4. \A s, t \in S : f[s] = f[t] => s = t
    BY <2>2 DEF Working
  <2>5. f \in [S -> workers]
    BY <2>3 DEF f
  <2> HIDE DEF S
  <2>6. f \in Injection(S, workers)
    BY <2>4, <2>5 DEF Injection, IsInjective
  <2>7. IsFiniteSet(S) /\ Cardinality(S) <= Cardinality(workers)
    BY <2>1, <2>6, FS_Injection
  <2>8. Cardinality(S) \in Nat
    BY <2>7, FS_CardinalityType
  <2> QED
    BY <2>1, <2>7, <2>8 DEF WithinMaxWorkers, S
<1> QED
  BY <1>1, TypeCorrect, MembersHold, ExecHolds, PTL

\* stop() leaves no worker, no execution and no request to cancel behind,
\* however its timeouts fall and whatever survives its cancellation.
THEOREM StopIsClean ==
    ASSUME NoStartDuringStop
    PROVE  Spec => []StopLeavesNothing
<1>1. ASSUME TypeOK, PhaseInv, MembersInv, ExecInv, RequestInv
      PROVE  StopLeavesNothing
  <2> SUFFICES ASSUME ~running, stopPc = "none"
               PROVE  /\ \A w \in Workers : wpc[w] = "off"
                      /\ \A t \in Tasks : exec[t] \notin ExecLive \union ExecDone
                      /\ wcancel = {} /\ execCancel = {}
    BY DEF StopLeavesNothing
  <2>1. \A w \in Workers : wpc[w] = "off"
    BY <1>1 DEF PhaseInv, MembersInv
  <2>2. \A t \in Tasks : exec[t] \notin ExecLive \union ExecDone
    BY <1>1, <2>1 DEF ExecInv, Working
  <2> QED
    BY <1>1, <2>1, <2>2 DEF RequestInv, TypeOK
<1> QED
  BY <1>1, TypeCorrect, PhaseHolds, MembersHold, ExecHolds, RequestHolds, PTL

\* From the moment the pool is told to stop no worker takes a task: each of the
\* idle ones has met, or is about to meet, its cancellation.
THEOREM StoppedPoolIsIdle ==
    ASSUME NoStartDuringStop
    PROVE  Spec => StoppedPoolStartsNothing
<1>1. ASSUME TypeOK, RequestInv, [Next]_vars, ~poolRunning, NEW t \in Tasks, exec[t] = "none"
      PROVE  exec'[t] = "none"
  <2>1. SUFFICES ASSUME exec'[t] # "none" PROVE FALSE
    OBVIOUS
  <2>2. PICK w \in Workers : WorkerTake(w)
    BY <1>1, <2>1, CreatedByTake
  <2> QED
    BY <1>1, <2>2 DEF WorkerTake, RequestInv
<1>2. TypeOK /\ RequestInv /\ [Next]_vars
        => [~poolRunning => \A t \in Tasks : exec[t] = "none" => exec'[t] = "none"]_vars
  BY <1>1
<1> QED
  BY <1>2, TypeCorrect, RequestHolds, PTL DEF Spec, StoppedPoolStartsNothing

-----------------------------------------------------------------------------
(* The futures.                                                            *)

\* A future that can still be resolved is in the sight of the manager.
Sighted(f) == \A t \in Tasks : F!Unresolved(f, t) => t \in f.tracked

LEMMA ResolvingKeepsSight ==
    ASSUME NEW f \in F!FuturesType, Sighted(f), NEW t \in Tasks, NEW s \in Status
    PROVE  /\ Sighted(F!GetFuture(f, t))
           /\ Sighted(F!SetResult(f, t))
           /\ Sighted(F!SetException(f, t))
           /\ Sighted(F!CompleteFrom(f, t, s))
           /\ Sighted(F!Lose(f, t))
           /\ Sighted(F!CancelledByWaiter(f, t))
<1> USE DEF Sighted, F!FuturesType, F!FutureState, F!Unresolved
<1>1. Sighted(F!GetFuture(f, t))
  BY DEF F!GetFuture
<1>2. ASSUME NEW o \in {"result", "exception"} PROVE Sighted(F!Resolve(f, t, o))
  BY DEF F!Resolve
<1>3. Sighted(F!Lose(f, t)) /\ Sighted(F!CancelledByWaiter(f, t))
  BY DEF F!Lose, F!CancelledByWaiter
<1> HIDE DEF Sighted
<1> QED
  BY <1>1, <1>2, <1>3 DEF F!SetResult, F!SetException, F!CompleteFrom

LEMMA SweepsKeepSight ==
    ASSUME NEW f \in F!FuturesType, Sighted(f), NEW S \in SUBSET Tasks
    PROVE  /\ Sighted(F!SetExceptionAll(f, S))
           /\ Sighted(F!CancelFutures(f, S))
           /\ Sighted(F!CancelAllFutures(f))
           /\ Sighted(F!CleanupCompleted(f))
<1> USE DEF Sighted, F!FuturesType, F!FutureState, F!Unresolved
<1>1. ASSUME NEW o \in {"exception", "cancelled"} PROVE Sighted(F!ResolveAll(f, S, o))
  BY DEF F!ResolveAll
<1>2. Sighted(F!CancelAllFutures(f))
  BY DEF F!CancelAllFutures
<1>3. Sighted(F!CleanupCompleted(f))
  BY DEF F!CleanupCompleted
<1> HIDE DEF Sighted
<1> QED
  BY <1>1, <1>2, <1>3 DEF F!SetExceptionAll, F!CancelFutures

\* cancel_all_futures() leaves nothing unresolved of what it sees.
LEMMA NothingLeftUnresolved ==
    ASSUME NEW f \in F!FuturesType, Sighted(f), NEW S \in SUBSET Tasks
    PROVE  /\ F!CancelAllFutures(f) \in F!FuturesType
           /\ \A t \in Tasks : ~F!Unresolved(F!CancelAllFutures(f), t)
           /\ \A t \in Tasks : ~F!Unresolved(F!SetExceptionAll(F!CancelAllFutures(f), S), t)
<1> USE DEF F!FuturesType, F!FutureState, F!Unresolved
<1> DEFINE g == F!CancelAllFutures(f)
<1>1. g \in F!FuturesType /\ \A t \in Tasks : g.state[t] # "pending"
  BY DEF F!CancelAllFutures, Sighted
<1> HIDE DEF g
<1>2. \A t \in Tasks : F!SetExceptionAll(g, S).state[t] # "pending"
  BY <1>1 DEF F!SetExceptionAll, F!ResolveAll
<1> QED
  BY <1>1, <1>2 DEF g

LEMMA FuturesStep ==
    ASSUME TypeOK, Sighted(futures), [Next]_vars
    PROVE  Sighted(futures')
<1>t. futures \in F!FuturesType /\ status \in [Tasks -> Status]
  BY DEF TypeOK
<1>1. ASSUME NEW t \in Tasks, NEW s, OnEnded(t, s) PROVE Sighted(futures')
  BY <1>t, <1>1, ResolvingKeepsSight DEF OnEnded
<1>2. ASSUME NEW t \in Tasks, NEW hit, OnCompleted(t, hit) PROVE Sighted(futures')
  BY <1>t, <1>2, ResolvingKeepsSight DEF OnCompleted
<1>3. ASSUME NEW t \in Tasks, GetTaskFuture(t) PROVE Sighted(futures')
  <2> DEFINE f == F!GetFuture(futures, t)
  <2>1. f \in F!FuturesType /\ Sighted(f) /\ status[t] \in Status
    BY <1>t, FuturesOperatorTypes, ResolvingKeepsSight
  <2>2. futures' = f \/ futures' = F!CompleteFrom(f, t, status[t])
    BY <1>3 DEF GetTaskFuture
  <2> HIDE DEF f
  <2> QED
    BY <2>1, <2>2, ResolvingKeepsSight
<1>4. ASSUME NEW t \in Tasks,
             CancelPending(t) \/ CancelRunning(t) \/ WaiterTimeout(t) \/ DropFuture(t)
      PROVE  Sighted(futures')
  BY <1>t, <1>1, <1>4, ResolvingKeepsSight DEF CancelPending, CancelRunning, WaiterTimeout, DropFuture
<1>5. CASE CleanupOldTasks
  <2>1. PICK S \in SUBSET Tasks : futures' = F!CancelFutures(futures, S)
    BY <1>5 DEF CleanupOldTasks
  <2> QED
    BY <1>t, <2>1, SweepsKeepSight
<1>6. CASE FutureCleanup
  <2>1. futures' = F!CleanupCompleted(futures)
    BY <1>6 DEF FutureCleanup
  <2> QED
    BY <1>t, <2>1, SweepsKeepSight
<1>7. ASSUME NEW t \in Tasks, Execution(t) PROVE Sighted(futures')
  BY <1>2, <1>7 DEF Execution, ExecTypeError, ExecCacheHit, ExecCall, ExecCancelledEarly, ExecReturn,
     ExecRaise, ExecCancelled, ExecSwallow
<1>8. ASSUME NEW w \in Workers, Worker(w) PROVE Sighted(futures')
  <2>1. wpc[w] = "busy" => wtask[w] \in Tasks
    BY DEF TypeOK
  <2> QED
    BY <1>1, <1>8, <2>1 DEF Worker, WorkerTake, WorkerDrain, WorkerLeave, WorkerReturned, WorkerFailed,
       WorkerCancelled
<1>9. CASE StopPool
  <2>1. {t \in {u \in runningTasks : exec[u] \in ExecLive} : InTable(t)} \in SUBSET Tasks
    BY DEF TypeOK
  <2>2. \/ futures' = F!CancelAllFutures(futures)
        \/ \E S \in SUBSET Tasks : futures' = F!SetExceptionAll(F!CancelAllFutures(futures), S)
    BY <1>9, <2>1 DEF StopPool
  <2> QED
    BY <1>t, <2>2, NothingLeftUnresolved DEF Sighted
<1>10. CASE StopBegin \/ Start \/ CacheForget \/ StopTimeout \/ StopForce \/ StopGathered
            \/ (\E t \in Tasks : AddTask(t)) \/ UNCHANGED vars
  <2>1. futures' = futures
    BY <1>10 DEF StopBegin, Start, CacheForget, StopTimeout, StopForce, StopGathered, AddTask, vars
  <2> QED
    BY <2>1
<1> QED
  BY <1>3, <1>4, <1>5, <1>6, <1>7, <1>8, <1>9, <1>10 DEF Next, Clients, Housekeeping, Stopping

FuturesInv == Sighted(futures)

LEMMA FuturesHold == Spec => []FuturesInv
<1>1. Init => FuturesInv
  BY DEF Init, F!NoFutures, F!Unresolved, Sighted, FuturesInv
<1>2. ASSUME TypeOK, FuturesInv, [Next]_vars PROVE FuturesInv'
  BY <1>2, FuturesStep DEF FuturesInv
<1> QED
  BY <1>1, <1>2, TypeCorrect, PTL DEF Spec

\* stop() leaves nobody waiting: every future that can still be resolved is in
\* the table of the manager, so that cancel_all_futures() reaches it.
THEOREM StopReachesEveryWaiter == Spec => StopReleasesWaiters
<1>1. ASSUME TypeOK, FuturesInv, [Next]_vars, stopPc = "closing", stopPc' # "closing",
             NEW t \in Tasks
      PROVE  futures'.state[t] # "pending"
  <2>1. StopPool
    BY <1>1, StopVarsChange DEF Start, StopBegin, Stopping, StopTimeout, StopForce, StopGathered,
       stopVars
  <2>2. {u \in {v \in runningTasks : exec[v] \in ExecLive} : InTable(u)} \in SUBSET Tasks
    BY <1>1 DEF TypeOK
  <2>3. \/ futures' = F!CancelAllFutures(futures)
        \/ \E S \in SUBSET Tasks : futures' = F!SetExceptionAll(F!CancelAllFutures(futures), S)
    BY <2>1, <2>2 DEF StopPool
  <2>4. futures \in F!FuturesType
    BY <1>1 DEF TypeOK
  <2> QED
    BY <1>1, <2>3, <2>4, NothingLeftUnresolved DEF F!Unresolved, FuturesInv
<1>2. TypeOK /\ FuturesInv /\ [Next]_vars
        => [stopPc = "closing" /\ stopPc' # "closing" =>
              \A t \in Tasks : futures'.state[t] # "pending"]_vars
  BY <1>1
<1> QED
  BY <1>2, TypeCorrect, FuturesHold, PTL DEF Spec, StopReleasesWaiters
=============================================================================
