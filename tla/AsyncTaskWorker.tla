--------------------------- MODULE AsyncTaskWorker ---------------------------
(***************************************************************************)
(* AsyncTaskWorker (core.py) with its WorkerPool (pool.py), TaskExecutor   *)
(* (executor.py), task table (status.py), TaskQueue and TaskFutureManager: *)
(* the life of every task from add_task() to its last status, with         *)
(* cancellation, retention, shutdown and restart.                          *)
(*                                                                         *)
(* An action is what one asyncio task does between two suspensions.  With  *)
(* an unbounded queue none of the package's locks is ever contended, so a  *)
(* call suspends only in queue.get() on an empty queue, in `await          *)
(* execution_task`, inside the task function and in the waits of stop();   *)
(* add_task(), cancel_task(), get_task_future() and every status callback  *)
(* are single steps.                                                       *)
(*                                                                         *)
(* A worker, the execution_task it awaits and the caller of stop() are     *)
(* three asyncio tasks: cancelling one is a request that its next step     *)
(* meets, and the finished execution is seen by its worker one step later. *)
(***************************************************************************)
EXTENDS TaskQueue

CONSTANTS
    Workers,        \* the asyncio tasks worker loops run in
    MaxWorkers,     \* max_workers
    NoTask,         \* what a worker works on when it works on nothing
    CacheUsers,     \* tasks submitted with use_cache to a worker whose cache is enabled
    Keys, KeyOf,    \* KeyOf[t]: the cache key of the call t makes
    NotCoroutine,   \* tasks whose function is not a coroutine function
    Stubborn,       \* tasks whose function may survive a CancelledError
    Calls,          \* the optional calls the clients make
    MaxStarts       \* bound: how often start() takes effect

ClientCalls ==
    { "cancel_task", "get_task_future", "cleanup_old_tasks", "stop", "start during stop" }

ASSUME WorkerAssumption ==
    /\ NoTask \notin Tasks
    /\ IsFiniteSet(Workers)
    /\ MaxWorkers \in Nat
    /\ MaxStarts \in Nat
    /\ KeyOf \in [Tasks -> Keys]
    /\ CacheUsers \subseteq Tasks
    /\ NotCoroutine \subseteq Tasks
    /\ Stubborn \subseteq Tasks
    /\ Calls \subseteq ClientCalls

VARIABLES
    running,        \* AsyncTaskWorker.running
    stopPc,         \* where the stop() in progress waits, "none" if there is none
    awaited,        \* the workers that stop() waits for
    poolRunning,    \* WorkerPool.running
    workers,        \* WorkerPool.workers
    wpc, wtask,     \* each worker loop: where it is and the task it processes
    wcancel,        \* workers whose own cancellation is requested and not yet met
    runningTasks,   \* the ids in _running_tasks and _task_to_worker
    exec,           \* the execution_task of each task
    execCancel,     \* executions whose cancellation is requested and not yet met
    called,         \* history: tasks whose function has been entered
    cache,          \* the keys with a cached result
    queue,          \* the TaskQueue
    futures,        \* the TaskFutureManager
    status,         \* tasks[t].status
    fromCache,      \* tasks with from_cache set
    starts          \* how often start() took effect

lifecycleVars == <<running, starts>>
stopVars == <<stopPc, awaited>>
poolVars == <<poolRunning, workers>>
workerVars == <<wpc, wtask, wcancel>>
execVars == <<exec, execCancel, called>>
vars == << lifecycleVars, stopVars, poolVars, workerVars, runningTasks, execVars,
           cache, queue, futures, status, fromCache >>

F == INSTANCE TaskFutures WITH FutureIds <- Tasks

\* "absent": never submitted; "removed": deleted by cleanup_old_tasks().
Terminal == {"COMPLETED", "FAILED", "CANCELLED"}
Status == {"absent", "PENDING", "RUNNING", "removed"} \union Terminal

\* "over": the worker has seen how the execution ended.
ExecLive == {"created", "running"}
ExecDone == {"returned", "raised", "cancelled"}
ExecState == {"none", "over"} \union ExecLive \union ExecDone

StopState == {"none", "closing", "gather", "force", "drain"}

TypeOK ==
    /\ running \in BOOLEAN
    /\ starts \in 0..MaxStarts
    /\ stopPc \in StopState
    /\ awaited \subseteq Workers
    /\ poolRunning \in BOOLEAN
    /\ workers \subseteq Workers
    /\ wpc \in [Workers -> {"off", "idle", "busy"}]
    /\ wtask \in [Workers -> Tasks \union {NoTask}]
    /\ \A w \in Workers : wpc[w] = "busy" <=> wtask[w] # NoTask
    /\ wcancel \subseteq Workers
    /\ runningTasks \subseteq Tasks
    /\ exec \in [Tasks -> ExecState]
    /\ execCancel \subseteq Tasks
    /\ called \subseteq Tasks
    /\ cache \subseteq Keys
    /\ queue \in QueueType
    /\ futures \in F!FuturesType
    /\ status \in [Tasks -> Status]
    /\ fromCache \subseteq Tasks

Init ==
    /\ running = FALSE
    /\ starts = 0
    /\ stopPc = "none"
    /\ awaited = {}
    /\ poolRunning = FALSE
    /\ workers = {}
    /\ wpc = [w \in Workers |-> "off"]
    /\ wtask = [w \in Workers |-> NoTask]
    /\ wcancel = {}
    /\ runningTasks = {}
    /\ exec = [t \in Tasks |-> "none"]
    /\ execCancel = {}
    /\ called = {}
    /\ cache = {}
    /\ queue = EmptyQueue
    /\ futures = F!NoFutures
    /\ status = [t \in Tasks |-> "absent"]
    /\ fromCache = {}

-----------------------------------------------------------------------------
(* The task table.  A mark on a task that is not in the table is nothing.  *)

InTable(t) == status[t] \notin {"absent", "removed"}

\* status[t] after mark_started(), mark_failed() or mark_cancelled(): none of
\* them looks at the status it replaces.
Marked(t, s) == IF InTable(t) THEN s ELSE status[t]

\* _on_task_started()
OnStarted(t) == status' = [status EXCEPT ![t] = Marked(t, "RUNNING")]

\* Seeded faults: no terminal guard; the waiters are not told.
OnCompleted_Unguarded(t, hit) ==
    /\ status' = [status EXCEPT ![t] = Marked(t, "COMPLETED")]
    /\ fromCache' = IF InTable(t)
                    THEN IF hit THEN fromCache \union {t} ELSE fromCache \ {t}
                    ELSE fromCache
    /\ futures' = IF InTable(t) THEN F!SetResult(futures, t) ELSE futures
OnCompleted_Untold(t, hit) ==
    /\ status' = [status EXCEPT ![t] = IF @ \in {"PENDING", "RUNNING"}
                                       THEN "COMPLETED" ELSE @]
    /\ fromCache' = IF InTable(t)
                    THEN IF hit THEN fromCache \union {t} ELSE fromCache \ {t}
                    ELSE fromCache
    /\ UNCHANGED futures

\* _on_task_completed(): mark_completed() keeps a terminal status, but
\* from_cache and the future are set in any case.
OnCompleted(t, hit) ==
    /\ status' = [status EXCEPT ![t] = IF @ \in {"PENDING", "RUNNING"}
                                       THEN "COMPLETED" ELSE @]
    /\ fromCache' = IF InTable(t)
                    THEN IF hit THEN fromCache \union {t} ELSE fromCache \ {t}
                    ELSE fromCache
    /\ futures' = IF InTable(t) THEN F!SetResult(futures, t) ELSE futures

\* Seeded fault: the waiters are not told.
OnEnded_Untold(t, s) ==
    /\ status' = [status EXCEPT ![t] = Marked(t, s)]
    /\ UNCHANGED futures

\* _on_task_failed() and _on_task_cancelled()
OnEnded(t, s) ==
    /\ status' = [status EXCEPT ![t] = Marked(t, s)]
    /\ futures' = IF InTable(t) THEN F!SetException(futures, t) ELSE futures

-----------------------------------------------------------------------------
(* Clients.                                                                *)

\* Worker tasks that do not exist yet, or no longer.
Spare == {w \in Workers : wpc[w] = "off"} \ (workers \union awaited)

\* start(), with WorkerPool.start(): the pool only starts workers if it is
\* not running itself.
Start ==
    /\ ~running
    /\ starts < MaxStarts
    /\ stopPc # "none" => "start during stop" \in Calls
    /\ running' = TRUE
    /\ starts' = starts + 1
    /\ \/ /\ poolRunning
          /\ UNCHANGED <<poolVars, workerVars>>
       \/ /\ ~poolRunning
          /\ poolRunning' = TRUE
          /\ \E S \in SUBSET Spare :
                /\ Cardinality(S) = MaxWorkers
                /\ workers' = workers \union S
                /\ wpc' = [w \in Workers |-> IF w \in S THEN "idle" ELSE wpc[w]]
          /\ UNCHANGED <<wtask, wcancel>>
    /\ UNCHANGED << stopVars, runningTasks, execVars, cache, queue, futures, status, fromCache >>

\* add_task(): the record first, then the queue.
AddTask(t) ==
    /\ running
    /\ status[t] = "absent"
    /\ status' = [status EXCEPT ![t] = "PENDING"]
    /\ queue' = Put(queue, t)
    /\ UNCHANGED << lifecycleVars, stopVars, poolVars, workerVars, runningTasks, execVars,
                    cache, futures, fromCache >>

\* cancel_task() of a PENDING task.
CancelPending(t) ==
    /\ "cancel_task" \in Calls
    /\ status[t] = "PENDING"
    /\ queue' = RemoveTask(queue, t)
    /\ OnEnded(t, "CANCELLED")
    /\ UNCHANGED << lifecycleVars, stopVars, poolVars, workerVars, runningTasks, execVars,
                    cache, fromCache >>

\* cancel_task() of a RUNNING task, with WorkerPool.cancel_running_task():
\* whatever that answers, the task is marked as cancelled.
CancelRunning(t) ==
    /\ "cancel_task" \in Calls
    /\ status[t] = "RUNNING"
    /\ IF t \in runningTasks /\ exec[t] \in ExecDone
       THEN runningTasks' = runningTasks \ {t} /\ UNCHANGED execCancel
       ELSE /\ UNCHANGED runningTasks
            /\ execCancel' = execCancel \union ({t} \intersect runningTasks)
    /\ OnEnded(t, "CANCELLED")
    /\ UNCHANGED << lifecycleVars, stopVars, poolVars, workerVars, exec, called, cache, queue,
                    fromCache >>

\* get_task_future(): the living future, else a new one that is resolved at
\* once if the task has already ended.
GetTaskFuture(t) ==
    /\ "get_task_future" \in Calls
    /\ InTable(t)
    /\ futures.state[t] = "none"
    /\ LET f == F!GetFuture(futures, t) IN
       futures' = IF status[t] \in Terminal THEN F!CompleteFrom(f, t, status[t]) ELSE f
    /\ UNCHANGED << lifecycleVars, stopVars, poolVars, workerVars, runningTasks, execVars,
                    cache, queue, status, fromCache >>

\* The timeout of one wait_for_tasks() call cancels the future it awaits.
WaiterTimeout(t) ==
    /\ F!Unresolved(futures, t)
    /\ futures' = F!CancelledByWaiter(futures, t)
    /\ UNCHANGED << lifecycleVars, stopVars, poolVars, workerVars, runningTasks, execVars,
                    cache, queue, status, fromCache >>

\* Nobody holds the future of t any more.
DropFuture(t) ==
    /\ futures.state[t] # "none"
    /\ futures' = F!Lose(futures, t)
    /\ UNCHANGED << lifecycleVars, stopVars, poolVars, workerVars, runningTasks, execVars,
                    cache, queue, status, fromCache >>

\* A turn of _periodic_cleanup() of the future manager.
FutureCleanup ==
    /\ F!CleanupCompleted(futures) # futures
    /\ futures' = F!CleanupCompleted(futures)
    /\ UNCHANGED << lifecycleVars, stopVars, poolVars, workerVars, runningTasks, execVars,
                    cache, queue, status, fromCache >>

\* cleanup_old_tasks(): S are the ended tasks older than the retention.
CleanupOldTasks ==
    /\ "cleanup_old_tasks" \in Calls
    /\ \E S \in SUBSET {t \in Tasks : status[t] \in Terminal} :
          /\ S # {}
          /\ status' = [t \in Tasks |-> IF t \in S THEN "removed" ELSE status[t]]
          /\ futures' = F!CancelFutures(futures, S)
          /\ queue' = CleanCancelledTasks(queue, S)
    /\ UNCHANGED << lifecycleVars, stopVars, poolVars, workerVars, runningTasks, execVars,
                    cache, fromCache >>

\* The cache loses an entry: its ttl, its size limit, an invalidation.
CacheForget ==
    /\ \E k \in cache : cache' = cache \ {k}
    /\ UNCHANGED << lifecycleVars, stopVars, poolVars, workerVars, runningTasks, execVars,
                    queue, futures, status, fromCache >>

-----------------------------------------------------------------------------
(* The execution of a task: TaskExecutor.execute_task() in its own asyncio *)
(* task.  Unmet cancellation requests come first.                          *)

Ended(t, outcome) == exec' = [exec EXCEPT ![t] = outcome]

\* The first step of the execution.
Begins(t) == exec[t] = "created" /\ t \notin execCancel

CacheHit(t) == t \in CacheUsers /\ KeyOf[t] \in cache

\* Not a coroutine function: TypeError.
ExecTypeError(t) ==
    /\ Begins(t)
    /\ t \in NotCoroutine
    /\ Ended(t, "raised")
    /\ UNCHANGED << lifecycleVars, stopVars, poolVars, workerVars, runningTasks, execCancel, called,
                    cache, queue, futures, status, fromCache >>

\* Seeded fault: the hit is reported like a call.
ExecCacheHit_AsCall(t) ==
    /\ Begins(t)
    /\ t \notin NotCoroutine
    /\ CacheHit(t)
    /\ Ended(t, "returned")
    /\ OnCompleted(t, FALSE)
    /\ UNCHANGED << lifecycleVars, stopVars, poolVars, workerVars, runningTasks, execCancel, called,
                    cache, queue >>

\* A cached result completes the task without calling its function.
ExecCacheHit(t) ==
    /\ Begins(t)
    /\ t \notin NotCoroutine
    /\ CacheHit(t)
    /\ Ended(t, "returned")
    /\ OnCompleted(t, TRUE)
    /\ UNCHANGED << lifecycleVars, stopVars, poolVars, workerVars, runningTasks, execCancel, called,
                    cache, queue >>

\* The task function is called.
ExecCall(t) ==
    /\ Begins(t)
    /\ t \notin NotCoroutine
    /\ ~CacheHit(t)
    /\ exec' = [exec EXCEPT ![t] = "running"]
    /\ called' = called \union {t}
    /\ UNCHANGED << lifecycleVars, stopVars, poolVars, workerVars, runningTasks, execCancel,
                    cache, queue, futures, status, fromCache >>

\* Cancelled before its first step, the execution never enters execute_task()
\* and no handler turns the CancelledError into a TaskCancellationError.
ExecCancelledEarly(t) ==
    /\ exec[t] = "created"
    /\ t \in execCancel
    /\ Ended(t, "cancelled")
    /\ execCancel' = execCancel \ {t}
    /\ UNCHANGED << lifecycleVars, stopVars, poolVars, workerVars, runningTasks, called,
                    cache, queue, futures, status, fromCache >>

\* The function returns: cache the result, then complete the task.
ExecReturn(t) ==
    /\ exec[t] = "running"
    /\ t \notin execCancel
    /\ Ended(t, "returned")
    /\ cache' = cache \union {KeyOf[s] : s \in {t} \intersect CacheUsers}
    /\ OnCompleted(t, FALSE)
    /\ UNCHANGED << lifecycleVars, stopVars, poolVars, workerVars, runningTasks, execCancel, called,
                    queue >>

\* The function raises, or its timeout expires.
ExecRaise(t) ==
    /\ exec[t] = "running"
    /\ t \notin execCancel
    /\ Ended(t, "raised")
    /\ UNCHANGED << lifecycleVars, stopVars, poolVars, workerVars, runningTasks, execCancel, called,
                    cache, queue, futures, status, fromCache >>

\* The function is cancelled: execute_task() raises TaskCancellationError.
ExecCancelled(t) ==
    /\ exec[t] = "running"
    /\ t \in execCancel
    /\ Ended(t, "raised")
    /\ execCancel' = execCancel \ {t}
    /\ UNCHANGED << lifecycleVars, stopVars, poolVars, workerVars, runningTasks, called,
                    cache, queue, futures, status, fromCache >>

\* The function catches the CancelledError and goes on.
ExecSwallow(t) ==
    /\ exec[t] = "running"
    /\ t \in execCancel
    /\ t \in Stubborn
    /\ execCancel' = execCancel \ {t}
    /\ UNCHANGED << lifecycleVars, stopVars, poolVars, workerVars, runningTasks, exec, called,
                    cache, queue, futures, status, fromCache >>

-----------------------------------------------------------------------------
(* The worker loop.                                                        *)

\* _get_next_task() returns t and _process_task() runs up to `await
\* execution_task`: the status callback, the execution, its registration.
WorkerTake(w) ==
    /\ wpc[w] = "idle"
    /\ w \notin wcancel
    /\ \E t \in Tasks :
          /\ IsNext(queue, t)
          /\ queue' = Take(queue, t)
          /\ OnStarted(t)
          /\ exec' = [exec EXCEPT ![t] = "created"]
          /\ runningTasks' = runningTasks \union {t}
          /\ wtask' = [wtask EXCEPT ![w] = t]
    /\ wpc' = [wpc EXCEPT ![w] = "busy"]
    /\ UNCHANGED << lifecycleVars, stopVars, poolVars, wcancel, execCancel, called, cache, futures,
                    fromCache >>

\* Only cancelled entries are left: they are dropped and the worker waits on.
WorkerDrain(w) ==
    /\ wpc[w] = "idle"
    /\ w \notin wcancel
    /\ queue.heap # {}
    /\ Valid(queue) = {}
    /\ queue' = Skip(queue, queue.heap)
    /\ UNCHANGED << lifecycleVars, stopVars, poolVars, workerVars, runningTasks, execVars,
                    cache, futures, status, fromCache >>

\* An idle worker leaves: it is cancelled, or the poll times out and the pool
\* is not running.
WorkerLeave(w) ==
    /\ wpc[w] = "idle"
    /\ w \in wcancel \/ ~poolRunning
    /\ wpc' = [wpc EXCEPT ![w] = "off"]
    /\ wcancel' = wcancel \ {w}
    /\ UNCHANGED << lifecycleVars, stopVars, poolVars, wtask, runningTasks, execVars,
                    cache, queue, futures, status, fromCache >>

\* Seeded fault: the worker still refers to the finished task.
Finished_TaskKept(w, next) ==
    /\ exec' = [exec EXCEPT ![wtask[w]] = "over"]
    /\ runningTasks' = runningTasks \ {wtask[w]}
    /\ queue' = TaskDone(queue)
    /\ wpc' = [wpc EXCEPT ![w] = next]
    /\ UNCHANGED << lifecycleVars, stopVars, poolVars, execCancel, called, cache, fromCache, wtask >>

\* The finally clauses: the task is unregistered and task_done() called.
Finished(w, next) ==
    /\ exec' = [exec EXCEPT ![wtask[w]] = "over"]
    /\ runningTasks' = runningTasks \ {wtask[w]}
    /\ queue' = TaskDone(queue)
    /\ wtask' = [wtask EXCEPT ![w] = NoTask]
    /\ wpc' = [wpc EXCEPT ![w] = next]
    /\ UNCHANGED << lifecycleVars, stopVars, poolVars, execCancel, called, cache, fromCache >>

\* Seeded fault: the loop does not look at running.
NextRound_Forever == "idle"

\* `while self.running`
NextRound == IF poolRunning THEN "idle" ELSE "off"

\* The execution has returned; its callbacks ran before it did.
WorkerReturned(w) ==
    /\ wpc[w] = "busy"
    /\ w \notin wcancel
    /\ exec[wtask[w]] = "returned"
    /\ Finished(w, NextRound)
    /\ UNCHANGED <<wcancel, futures, status>>

\* Seeded fault: the exception ends the worker loop.
WorkerFailed_LoopEnds(w) ==
    /\ wpc[w] = "busy"
    /\ w \notin wcancel
    /\ exec[wtask[w]] = "raised"
    /\ OnEnded(wtask[w], "FAILED")
    /\ Finished(w, "off")
    /\ UNCHANGED wcancel

\* The execution raised: the task is failed, whatever its status is.
WorkerFailed(w) ==
    /\ wpc[w] = "busy"
    /\ w \notin wcancel
    /\ exec[wtask[w]] = "raised"
    /\ OnEnded(wtask[w], "FAILED")
    /\ Finished(w, NextRound)
    /\ UNCHANGED wcancel

\* Seeded fault: on_task_cancelled is not called.
WorkerCancelled_Silent(w) ==
    /\ wpc[w] = "busy"
    /\ exec[wtask[w]] \in ExecDone
    /\ w \in wcancel \/ exec[wtask[w]] = "cancelled"
    /\ Finished(w, "off")
    /\ wcancel' = wcancel \ {w}
    /\ UNCHANGED <<status, futures>>

\* CancelledError at `await execution_task`, the worker's own or that of an
\* execution cancelled before it began: the loop ends either way.
WorkerCancelled(w) ==
    /\ wpc[w] = "busy"
    /\ exec[wtask[w]] \in ExecDone
    /\ w \in wcancel \/ exec[wtask[w]] = "cancelled"
    /\ OnEnded(wtask[w], "CANCELLED")
    /\ Finished(w, "off")
    /\ wcancel' = wcancel \ {w}

-----------------------------------------------------------------------------
(* AsyncTaskWorker.stop(), with WorkerPool.stop().                         *)

\* Up to the wait for the cleanup tasks.
StopBegin ==
    /\ "stop" \in Calls
    /\ running
    /\ stopPc = "none"
    /\ running' = FALSE
    /\ stopPc' = "closing"
    /\ UNCHANGED << starts, awaited, poolVars, workerVars, runningTasks, execVars, cache, queue,
                    futures, status, fromCache >>

\* worker.cancel() for the workers in S.  A worker that awaits an execution
\* passes the request on to it, unless the execution is done.
Awaits(w) == wpc[w] = "busy" /\ exec[wtask[w]] \in ExecLive

CancelWorkers(S) ==
    wcancel' = wcancel \union {w \in S : wpc[w] # "off" /\ ~Awaits(w)}

Delegated(S) == {wtask[w] : w \in {v \in S : Awaits(v)}}

\* The end of both stop() methods.
StopReturn ==
    /\ stopPc' = "none"
    /\ awaited' = {}
    /\ queue' = ClearTracking(queue)

PoolStopReturn ==
    /\ workers' = {}
    /\ runningTasks' = {}
    /\ StopReturn

\* From the last cleanup task to the wait for the workers: the futures are
\* cancelled, then the registered executions and the workers.
StopPool ==
    /\ stopPc = "closing"
    /\ LET f == F!CancelAllFutures(futures)
           cancelled == {t \in runningTasks : exec[t] \in ExecLive}
       IN IF poolRunning
          THEN /\ poolRunning' = FALSE
               /\ execCancel' = execCancel \union cancelled \union Delegated(workers)
               /\ status' = [t \in Tasks |-> IF t \in cancelled THEN Marked(t, "CANCELLED")
                                             ELSE status[t]]
               /\ futures' = F!SetExceptionAll(f, {t \in cancelled : InTable(t)})
               /\ CancelWorkers(workers)
               /\ IF workers = {}
                  THEN PoolStopReturn
                  ELSE /\ stopPc' = "gather"
                       /\ awaited' = workers
                       /\ UNCHANGED <<workers, runningTasks, queue>>
          ELSE /\ futures' = f
               /\ StopReturn
               /\ UNCHANGED <<poolVars, execCancel, status, wcancel, runningTasks>>
    /\ UNCHANGED << lifecycleVars, wpc, wtask, exec, called, cache, fromCache >>

Alive(S) == {w \in S : wpc[w] # "off"}

\* The wait for the workers times out: those in the list that are not done
\* are cancelled once more and waited for.
StopTimeout ==
    /\ stopPc = "gather"
    /\ Alive(awaited) # {}
    /\ execCancel' = execCancel \union Delegated(workers)
    /\ CancelWorkers(workers)
    /\ stopPc' = "force"
    /\ awaited' = Alive(workers)
    /\ UNCHANGED << lifecycleVars, poolVars, wpc, wtask, runningTasks, exec, called, cache, queue,
                    futures, status, fromCache >>

\* The second timeout cancels the gather() and so, once more, the workers in
\* it; but a gather() that is cancelled still ends only when they all have.
StopForce ==
    /\ stopPc = "force"
    /\ Alive(awaited) # {}
    /\ execCancel' = execCancel \union Delegated(awaited)
    /\ CancelWorkers(awaited)
    /\ stopPc' = "drain"
    /\ UNCHANGED << lifecycleVars, awaited, poolVars, wpc, wtask, runningTasks, exec, called, cache,
                    queue, futures, status, fromCache >>

\* Seeded fault: the workers are not waited for.
StopGathered_AtOnce ==
    /\ stopPc \in {"gather", "force", "drain"}
    /\ PoolStopReturn
    /\ UNCHANGED << lifecycleVars, poolRunning, workerVars, execVars, cache, futures, status,
                    fromCache >>

\* All awaited workers are done.
StopGathered ==
    /\ stopPc \in {"gather", "force", "drain"}
    /\ Alive(awaited) = {}
    /\ PoolStopReturn
    /\ UNCHANGED << lifecycleVars, poolRunning, workerVars, execVars, cache, futures, status,
                    fromCache >>

-----------------------------------------------------------------------------
Clients ==
    \/ Start
    \/ StopBegin
    \/ CleanupOldTasks
    \/ \E t \in Tasks : \/ AddTask(t) \/ CancelPending(t) \/ CancelRunning(t)
                        \/ GetTaskFuture(t) \/ WaiterTimeout(t) \/ DropFuture(t)

Housekeeping == FutureCleanup \/ CacheForget

Execution(t) ==
    \/ ExecTypeError(t) \/ ExecCacheHit(t) \/ ExecCall(t) \/ ExecCancelledEarly(t)
    \/ ExecReturn(t) \/ ExecRaise(t) \/ ExecCancelled(t) \/ ExecSwallow(t)

Worker(w) ==
    \/ WorkerTake(w) \/ WorkerDrain(w) \/ WorkerLeave(w)
    \/ WorkerReturned(w) \/ WorkerFailed(w) \/ WorkerCancelled(w)

Stopping == StopPool \/ StopTimeout \/ StopForce \/ StopGathered

Next ==
    \/ Clients
    \/ Housekeeping
    \/ \E t \in Tasks : Execution(t)
    \/ \E w \in Workers : Worker(w)
    \/ Stopping

Spec == Init /\ [][Next]_vars
=============================================================================
