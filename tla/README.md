# Async Task Worker: models, checks and proofs

The package `src/src/` runs coroutines in the background: `AsyncTaskWorker` takes
task functions, a pool of worker coroutines executes them in the order of their
priorities, a cache may answer instead of the function, and clients read statuses
or await futures. `async_events` delivers events to subscribers. This directory holds TLA+ models of it, the configurations that
TLC checks, and theorems that TLAPS proves.

Line numbers below and in the comments of the modules refer to the files under
`src/src/`; `PROJECT.json` maps every definition to the lines it stands for.

## 1. The system

Everything runs in one asyncio event loop: code is interrupted only where it
suspends. What makes it hard is that a worker, the execution it awaits, the
clients and `stop()` are different asyncio tasks; that a cancellation is a request
which the target meets at its next step, and which awaiting passes on; and that
the same fact is kept in several places (the heap and its tracking sets, the weak
futures and the set of pending ids, the status and the execution).

| Component | State | Operations | Interacts by |
|---|---|---|---|
| **AsyncTaskWorker** `async_task_worker/core.py` | `running`, `tasks` (id to `TaskInfo`), cleanup task | `start`, `stop`, `add_task`, `cancel_task`, `get_task_future`, `wait_for_tasks`, `wait_for_any_task`, `cleanup_old_tasks`, cache calls | calls the queue, the pool, the futures; is called back (`_on_task_started/completed/failed/cancelled`) |
| **WorkerPool** `pool.py` | `running`, `workers`, `_running_tasks`, `_task_to_worker` | `start`, `stop(timeout)`, `cancel_running_task`, the loop of each worker | takes from the queue, creates one execution task per entry, awaits and cancels it |
| **TaskQueue** `queue.py` | an `asyncio.PriorityQueue`, `_queued_task_ids`, `_cancelled_task_ids`, statistics, `_queue_lock` | `put`, `get`, `remove_task`, `clean_cancelled_tasks`, `clear_tracking`, `task_done` | lock shared by clients and workers; `put` waits when the queue is full |
| **TaskExecutor** `executor.py` | none | `execute_task` | cache lookup and store, task function, `on_complete` callback |
| **TaskFutureManager** `futures.py` | `_futures` (weak), `_pending_tasks`, cleanup task | `get_future`, `set_result`, `set_exception`, `cancel_future`, `cancel_all_futures`, `complete_from_task_info`, `_periodic_cleanup` | resolved by the callbacks of the worker, cancelled by the timeout of a waiter |
| **TaskInfo, TaskStatus** `status.py` | status, result, progress, timestamps, `from_cache` | `mark_*`, `update_progress` | table of the worker |
| **AsyncCacheAdapter** `adapters/cache_adapter.py` | the AsyncCache over memory that it makes | `get`, `set`, `get_by_task_id`, `invalidate*`, `clear` | between executor and AsyncCache |
| **AsyncCache** `async_cache/core.py` | `enabled`, `entry_key_map` from entry ids to cache keys, clean-up task | `get`, `set`, `invalidate*`, `clear`, `temporarily_disabled`, `start_cleanup_task`, `stop_cleanup_task` | suspends in a storage adapter |
| **MemoryCacheAdapter**, **RedisCacheAdapter** `async_cache/adapters/` | entries with expiry, access order, size limit / a server | `get`, `set`, `delete`, `clear` | storage of AsyncCache |
| **Keys, serialization** `async_cache/key_utils.py`, `serialization.py` | none | pure conversions | AsyncCache |
| **EventManager** `async_events/event_manager.py` | subscribers with bounded queues, groups, recent events, processed ids | `subscribe`, `unsubscribe`, `publish_event`, `get_recent_events`, `start`, `stop`, the clean-up loop | one queue per subscriber; publishers wait for room in it |
| **SSEClient** `async_events/sse_client.py` | `_running`, `_task`, `_client`, `_events` and their queue | `start`, `stop`, `_connect_and_process`, `get_event`, `wait_for_event` | a server; a callback |
| **HTTP API**, **registry**, **exceptions**, examples | none / a dictionary | translation of requests | calls of AsyncTaskWorker |

What makes each of the main components correct:

* **The life of a task**: PENDING, RUNNING and one end; nobody waits for a task
  that has ended; a task is never lost between the table, the heap, a worker and
  an execution; what was cancelled before it started is not started.
* **Queue**: priorities are kept, cancelled entries skipped, the count
  behind `join()` agrees with the heap, a full queue neither loses an entry
  nor blocks for ever.
* **Pool**: a failing, cancelled or mistyped function costs no worker; everything
  executed can be cancelled; `stop()` returns and leaves nothing running; a
  restarted pool has no more than `max_workers` executions.
* **Futures**: a future says what the status says; every future is settled.
* **Cache**: a result belongs to the call it is returned for; mappings and storage
  come to agree after whatever calls; the size limit holds, and the least recently
  used value is the one to go; nothing is stored while the cache is disabled.
* **Events**: a subscriber gets everything published to its group, once and in
  order; a slow one does not keep the others from it; nothing is delivered after
  `unsubscribe`.
* **SSE client**: every event received in full is delivered, once, and mixed with no
  other; a stopped client comes to rest.

## 2. The modules

| Module | Models | Lines of code it stands for |
|---|---|---|
| `TaskQueue` | the queue as a record; one operator per method | `queue.py` |
| `TaskFutures` | the futures as a record; one operator per method | `futures.py` |
| `AsyncTaskWorker` | worker, pool, executor and table together: one action per call, callback or step of a coroutine; uses both modules above | `core.py`, `pool.py`, `executor.py`, `status.py` |
| `TaskLifecycle` | abstract: what a client sees of a task, with no queue, worker or execution | |
| `AsyncTaskWorkerProperties` | properties and fairness of `AsyncTaskWorker`, and the mapping to `TaskLifecycle` | |
| `BoundedWorker` | `add_task()`, `cancel_task()` and the workers at the level of the two locks, for a queue with a maximal size | `core.py`, `queue.py`, `pool.py` |
| `EventManager` | the event manager, its subscribers and the calls of `publish_event()`; properties at its end | `event_manager.py` |
| `CacheKeys` | the context of a request, the combinators and the key functions made of them | `key_utils.py`, `async_cache/core.py`, `core.py`, `cache_adapter.py` |
| `MemoryCacheAdapter` | the memory adapter as a record; one operator per method | `adapters/memory.py` |
| `AsyncCache` | the cache over memory and over Redis, with the clients' calls and the clean-up of mappings; uses both modules above; properties at its end | `async_cache/core.py`, `adapters/redis.py`, `cache_adapter.py`, `core.py` |
| `SSEClient` | the SSE client and the streams it reads; properties at its end | `sse_client.py` |
| `MCAsyncTaskWorker`, `MCBoundedWorker`, `MCEventManager`, `MCAsyncCache` | values for TLC | |

and the modules with the theorems:

| Module | About | Proves |
|---|---|---|
| `AsyncTaskWorkerProofs` | `AsyncTaskWorker`, any calls | types, the core invariant, the count behind `join()`, the order of priorities, `from_cache` |
| `AsyncTaskWorkerRefinement` | the same, without `stop()` | that it implements `TaskLifecycle`, that futures agree with statuses, that cancelled tasks do not start |
| `AsyncTaskWorkerShutdown` | the same, with `stop()` | what `stop()` leaves, and that a pool keeps its size |
| `BoundedWorkerProofs` | `BoundedWorker` | the locks, and that the queue behind them loses, keeps and counts nothing wrongly |
| `EventManagerProofs` | `EventManager` | types, the index of groups, that nothing is missed |
| `EventManagerDelivery` | the same | that nothing comes twice, out of order or after `unsubscribe()` |
| `AsyncCacheProofs` | `AsyncCache`, `MemoryCacheAdapter`, `CacheKeys` | types, the bound and the order of evictions, that keys tell calls apart, the switch, the mappings |
| `SSEClientProofs` | `SSEClient` | types, that events are whole blocks |

### AsyncTaskWorker

An action is what one asyncio task does between two suspensions.

*State.* `status` is `tasks[t].status` ("absent" before `add_task()`, "removed" after
`cleanup_old_tasks()`). `queue` and `futures` are the records of the two modules.
`wpc` and `wtask` say where each worker loop is: "off", waiting in `get()` ("idle") or
at `await execution_task` ("busy"). `exec` is the execution task: "created" and not yet
run, "running" its function, then "returned", "raised" or "cancelled", and "over" when
its worker has seen that. `wcancel` and `execCancel` are cancellations requested and
not yet met. `stopPc` is where the `stop()` in progress waits: for its cleanup tasks
("closing"), for the workers ("gather"), for them after the first timeout ("force"),
and after the second ("drain").

*Actions.* `Start`, `AddTask`, `CancelPending`, `CancelRunning`, `GetTaskFuture`,
`WaiterTimeout`, `CleanupOldTasks`, `StopBegin` are the clients' calls;
`StopPool`, `StopTimeout`, `StopForce`, `StopGathered` continue `stop()`;
`WorkerTake` is `get()` and `_process_task()` up to its await, with `_on_task_started()`;
`WorkerReturned`, `WorkerFailed`, `WorkerCancelled` are the three ways on from there, with
the callbacks and the `finally` clauses; `Exec...` are the steps of `execute_task()`.
`DropFuture` and `CacheForget` are the environment: the last reference to a future
goes away, an entry of the cache expires, is evicted or invalidated.

*Why a call is one step.* `tasks_lock` and `_queue_lock` are `asyncio.Lock`s; taking a free
one does not suspend. With `max_queue_size=None`, the default, no holder of either
ever suspends, so both are always free. `BoundedWorker` models the locks themselves,
and `LocksNeverContended` checks exactly this. A worker that awaits an execution learns
of its end one step of the loop later, which is why `exec` has states of its own:
`cancel_task()` and `stop()` can come in between.

*What is abstracted.* Results, exceptions and their texts, progress, timestamps and
statistics other than `queue_size`; `Rank` is the place of the entries in tuple order.
A task function is anything that returns, raises (its timeout counts as that), or runs
on; if it is in `Stubborn` it may also survive a `CancelledError`. The cache is the set
of keys with a result, and may lose any of them at any time.

### BoundedWorker

`add_task(t)` is the process `t`, each `cancel_task()` a process of its own. The locks have
an owner and a line of waiters and are handed over in order. A put into the full
queue waits with `_queue_lock` in its hands (`queue.py:106-109`), `cancel_task()` waits for
`_queue_lock` with `tasks_lock` in its hands (`core.py:592-616`), a worker takes its entry off
the heap before it asks for `_queue_lock` (`queue.py:143-154`), and the poll interval of
`_get_next_task()` may end there (`pool.py:212-227`).

`exec` is the execution that a worker awaits: it "runs", `cancel_running_task()` has "asked" it to
cancel, or it has ended by an exception, "raised" (the function failed, or the cancellation became a
`TaskCancellationError`) or "cancelled" (a bare `CancelledError`, met before the first step or in the
callback for a cached result). The three reports take `tasks_lock`: `WorkerCompleted` respects an end
that the task already has (`status.py:177`), `WorkerFailed` writes FAILED over whatever there is
(`status.py:198`), and after `WorkerCancelled` the worker loop has ended (`pool.py:285`). An
execution that waits in line to report its completion can still be asked to cancel.

### EventManager

The lock of the manager protects nothing that suspends and is never waited for. The
one suspension is `put()` into a full queue, in the loop of `publish_event()`
(`event_manager.py:246`); the `QueueFull` of the next line is raised by `put_nowait()` only.

*State.* `subscribers` and `recent_results` are the keys of the dictionaries,
`group_subscriptions` a function whose domain is the groups it has. A call of
`publish_event()` is "waiting" for room in the queue of `at`, with `todo` after it. The
other variables record what happened: `past` and `seen` what a client has read, `by` the
call an event was accepted from, `excused` what a client cannot expect.

*Actions.* `Subscribe` is `subscribe()` with the `get_recent_events()` that follows it in the
README's example: nothing suspends in between. `Publish` marks, stores and
delivers up to the first full queue, in any order of the members; `PublishResume` goes
on from there; `PublishAborted` is the cancellation of the publishing task. `DataGroup` is the
group that the data of an event names before it is published, if any: `get_recent_events()` looks
at the data, the delivery at the `group_id` of the call (`event_manager.py:226-238`). A client
keeps its queue after `unsubscribe()` and may read it or not. `CleanupRound` is one
round of the loop. Any recent event may be too old, as `time.time()` can be set back.

### AsyncCache

*State.* A request stands for one call of a function on behalf of one task and for the entry
id made of both; a value is the request that computed it, a key the tuple of the parts
that the key function joins. A call may also name no task (`Entries`; `AsyncTaskWorker` always
does): it maps nothing, and under the key function of `AsyncCacheAdapter` its key is the function's
name and "no_task_id" (`cache_adapter.py:79`). For arguments that cannot be encoded
`default_key_fn()` draws a uuid at every call (`async_cache/core.py:240`), so that `KeysOf`, the keys
a call may use, are then those that nothing in the system has yet (`InUse`). `mem` is the record of `MemoryCacheAdapter`, `redis` the values of
the server, `entryKeyMap` the mappings. `blocks` holds what each `temporarily_disabled()` block
has saved. `cleanPc`, `cleanStop`, `todo` and `stale` are the clean-up task and the local
variables of its loop. `used` records when a value was really stored or found, apart from
the adapter's own `access`.

*Actions.* Over memory nothing suspends (an `asyncio.Lock` that is free is taken at once, and
nobody waits with one), so that every call, and a whole round of the clean-up, is one
step. Over Redis a call is in `calls` while it waits for the server: `SetRedis`, then
`StoreRedis` and so on. Every request may fail, and the adapter then answers "not found"
(`redis.py:100`) or nothing at all (`redis.py:123`), where `AsyncCache.set()` still returns True; a
request that the server carries out and whose answer is lost is `RedisForget` and a failure.
The clean-up reads the ids (`CleanupScan`), looks each one up (`CleanupCheck`) and removes what it
missed in a later step (`CleanupRemove`). `InvalidateCache` is the call of the worker with its
three attempts. `get()` over Redis changes nothing but the mapping.

*What is abstracted.* The clock advances by `Tick`; several calls may happen at the same time, so
that the eviction may choose among equals. The digest of `default_key_fn()` is taken to be
free of collisions. A result that cannot be serialized, or is too large, leaves no trace and
is no step.

### SSEClient

A `start()` begins a chain of tasks: the first is stored in `_task`, each reconnection runs in
a new one that is not (`sse_client.py:103`). A slot of `Tasks` is one chain, `current` the slot whose
task `_task` still is. `client` is the number of the `start()` that made `_client`. A task is "starting"
until its first step, which reads `_client` and makes the request (`Request`, `sse_client.py:62`);
`on` is the client of that request, whatever `_client` is by the time it is answered
(`Connect`, `ConnectFails`). The blocks of all streams
are numbered; `lines` and `ended` record what the server sent, `parser` is what the task has
collected. `start()` may be called in the middle of `stop()`.

## 3. The runs

Every configuration gives all tasks one cache key, so that those which use the cache
share an entry, and orders the tasks by their names.

| Run | Instance | Shows |
|---|---|---|
| `Lifecycle` | 3 tasks, 2 workers, one cached key, `cancel_task`, `get_task_future`; t1 may survive its cancellation | `TypeOK`; `FutureAgrees`: a future has a result or an exception only if the status says so, or said so when `cleanup_old_tasks()` removed it; `FromCacheTruthful`; `CancelledIsNeverStarted`; `PriorityOrder`; `ImplementsLifecycle` |
| `AnyCalls` | 2 tasks, 2 worker coroutines for a pool of 1, all calls, a start in the middle of a stop, 2 starts | `PendingIsQueued`, `RunningHasWorker`, `NoWaiterLeftBehind`, `UnfinishedCount` |
| `Shutdown` | the same without a start during stop | `WithinMaxWorkers`, `StopLeavesNothing`, `StoppedPoolStartsNothing`, `StopReleasesWaiters` |
| `Progress` | 3 tasks, 1 worker, a cached key, a function that is no coroutine function, `stop` | `EveryTaskEnds`, `EveryWaiterWakes` if functions end and nobody stops the worker; `StopReturns` |
| `Bounded` | 4 `add_task()`, one `cancel_task()`, 2 workers; maximal size none and 1, poll intervals that do and do not run out | `TypeOK` (with no `task_done()` too many), `LocksNeverContended`, `NothingLost`, `MarksAreSpent`, `CancelledIsNotTaken`, `EveryAddReturns` |
| `Events` | 2 subscribers, one task that publishes e1, e2, e3 and another one that publishes e2; the data of e1 names no group, that of e2 its own, that of e3 another one; queues of size 1, ids forgotten above 2 | `TypeOK`, `IndexAgrees`, `NothingMissed`, `HeardOnce`, `InOrder`, `QuietAfterUnsubscribe`, `EveryMemberHears` |
| `Cache` | r1 and r2 call f(a) for two tasks, r3 calls g(a), r4 calls f with arguments that cannot be encoded, r5 calls f(b); each with and without a task id. Memory for 2 values with all three key functions and r1, r3, r4; Redis with the default one and r1, r2, r5; ttl 0 and none; 1 tick; blocks nested twice over memory | `TypeOK`, `KeysTellCallsApart`, `MemoryBounded`, `LeastRecentlyUsedGoes`, `MappingsOutliveValues` and `DisabledStoresNothing` (over memory), `StaleMappingsGo` |
| `SSE` | 3 starts, 3 blocks with up to 2 lines of data, of which the second is no JSON | `TypeOK`, `EventsAreBlocks`, `StopSettles` |

and runs that end in a counterexample, each a disagreement of code and documentation:

| Run | Property | The counterexample |
|---|---|---|
| `CancelKillsWorker` | `EveryTaskEnds` | a task cancelled before the first step of its execution: the worker takes the `CancelledError` for its own and ends; with one worker the rest stays PENDING |
| `BoundedDeadlock` | `EveryCancelReturns` | `cancel_task()` waits for `_queue_lock` with `tasks_lock`, the full `put()` for room with `_queue_lock`, the workers for `tasks_lock` |
| `EventsStuck` | `EveryMemberHears` | a subscriber leaves with a full queue for which `publish_event()` waits: the call never returns and the members after it never get the event |
| `CacheKeys` | `OwnResult` | the key function of `add_task()` asks for "func_name" where the context has "fn_name": the result of f is found under the key of g |

*Bounds.* Three tasks and two workers are the least at which a task waits while others
run, are cancelled in front of it or finish in either order; two tasks and one place
in the pool suffice for `stop()`, where the second task is the one that a stopped pool
must not start. `MaxStarts` = 2 allows one restart with leftovers of the first life.
`Workers` has one more coroutine than the pool, so that an old worker could live on
beside the new one. Each id is submitted once, and there is one `stop()` at a time.
`Bounded` has four calls for one place because only then can every worker be in line for
the lock behind a put that needs a worker (with three, or with a poll interval that
cannot run out, `EveryAddReturns` would not be a question). In `Events`, `Cap` = 1 stands for
100 and `ProcessedLimit` = 2 for 10000; three events are the least at which a call waits
behind one event and could be overtaken by another; `Aging` = {e1} limits expiry to
the first event, which a late subscriber then cannot get, and `Abortable` = {a2} the
cancellation to one call. In `Cache`, the requests over memory are two functions with the same
arguments, and one of them with arguments that cannot be encoded: more keys than places; over
Redis two tasks share a key, and a third one with other arguments must not. Two uuids let a key that matches nothing be
drawn next to one in use; two times tell what was used before what, and let a value expire. One call
at a time waits for Redis, next to lookups, the clean-up and the server. `MaxSize` = 0 is not in
the run; `MemoryIsBounded` covers it. In `SSE`, three starts are the least at which a chain of the
first `start()` reconnects on the client of the second, which a third one in the middle of a
`stop()` replaces; a stream that breaks in a block is followed by two more blocks.

*Deadlock.* A worker without clients' calls may be done with everything; the runs say
`CHECK_DEADLOCK FALSE`, and that nobody is stuck is the liveness properties' business.

*Fairness.* Workers, first steps of executions and the continuation of `stop()` are weakly
fair: the event loop runs what is ready and fires timers that are due. Nothing is
assumed of clients. `FairSpec` assumes of a task function only that a `CancelledError`
leaves it if it does not catch it; `EveryTaskEnds` and `EveryWaiterWakes` add that functions end
(`FunctionsEnd`) as their hypothesis. The clean-up loop of the cache goes on while it is not
cancelled; in `SSEClient` the tasks and `stop()` go on, and the streams of a closed client break.
In `EventManager` a call goes on when there is room; `DrainingSpec` assumes that clients read
their queues to the end, `LeavingSpec`, for the counterexample, that they do while subscribed.
In `BoundedWorker` every `add_task()` is made, a `cancel_task()` that has begun goes on, and the
fairness of the workers includes that task functions end. `EveryAddReturns` speaks of runs in which
no `cancel_task()` has begun, since with one there is the deadlock of the run `BoundedDeadlock`.

*Seeded faults.* For every property of a passing run there is a variant of a definition,
named after it (`OnCompleted_Unguarded`, `Skip_NotDone`, ...), that a plausible slip in the
code would give and that makes the property fail in that run.

## 4. The proofs

All theorems hold for every value of the constants that meets the assumptions at the end of
this section: any number of tasks, workers, subscribers, calls, values and ticks.

### AsyncTaskWorkerProofs

For any calls of the clients, a start during stop included:

* `TypeCorrect`: the types.
* `CoreCorrect`: `[]CoreInv`. Three of its parts are the claims: a PENDING task is in the
  heap and not marked (`PendingTasksAreQueued`), a RUNNING task has a worker that will
  report its end (`RunningTasksHaveWorkers`), an unresolved future belongs to a task that
  has not ended (`NoWaiterIsLeftBehind`). They are not inductive alone: a worker could
  take up a task that has been executed before, or one of which the table has no record,
  and a returned execution could find its task still RUNNING. The other three parts,
  `AbsentLeavesNoTrace`, `QueuedIsNotExecuted` and `ReturnedHasEnded`, exclude that. The
  proof goes by action; `Settles` collects what the operators on futures do to an
  unresolved one, and `OnEndedEnds`, `OnCompletedEnds` what every callback at the end of
  a task has in common.
* `EveryEntryIsDoneOnce`: the count behind `join()` is the number of entries in the heap
  plus that of busy workers. `Open`, the difference of count and heap, is what
  every operator of the queue keeps or changes by one (`PutOpen`, `SkipOpen`, `TakeOpen`,
  `OtherOpen`), and the busy workers change by one with it.
* `WorkersServeInOrder`, an action property: what `get()` finds first among the valid entries
  is what has the best rank among the PENDING tasks, because those are all valid entries
  (`PendingIsQueued`).
* `FromCacheTellsTheTruth`: the invariant behind it, `CallInv`, says that the function is called
  when its execution becomes "running" and not before, and that only an execution that has
  returned completes its task.

### AsyncTaskWorkerRefinement

As long as nobody calls `stop()` (`"stop" \notin Calls`; section 6 says what `stop()` changes):

* `LifecycleImplemented`, that the worker implements `TaskLifecycle`: the initial states map to
  initial states, and every action to a step of the client's view or to none. The
  strengthening `LifecycleInv` says that nobody cancels a worker, that a PENDING task can
  still be found in the tracking of the queue, that what a worker can still get is PENDING
  or has lost its record, and that an execution that has not returned belongs to a task
  that was started and has no end other than by `cancel_task()`. It holds with retention
  too, which the run `Lifecycle` leaves out.
* `FuturesAgree` and `CancelledTasksNeverStart`, by the same invariant.

### AsyncTaskWorkerShutdown

With `stop()` and restarts, if no `start()` comes in the middle of a `stop()`
(`NoStartDuringStop`; section 6 has what happens otherwise):

* `PoolBoundsExecutions`, `StopIsClean`, `StoppedPoolIsIdle`. The invariants follow `stop()`:
  `PhaseInv` relates `stopPc` to the two flags; `MembersInv` says that the workers alive are those of
  the pool, never more than `max_workers`, and that `stop()` awaits each of them; `ExecInv` that
  an execution whose end was not seen yet has a worker, and that only such an execution is
  registered; `RequestInv` that an idle worker of a stopped pool has been told to end, and that
  nobody who has ended is asked to. Each needs the ones before it.
* `StopReachesEveryWaiter` holds for any calls: `FuturesInv` says that an unresolved future is
  still in the table of the manager.

### BoundedWorkerProofs

* `LocksAreFree`: without a maximal size neither lock is ever waited for (`Uncontended`: both are
  free, with nobody in line or on the way to one). This is what makes the calls of
  `AsyncTaskWorker` single steps.
* `AcceptedTasksAreKept`, for any size and any cancellations, if no poll interval can end in
  front of a lock (`polls`; with it the entry is lost, section 6). `EntryInv` says which process holds
  what (what a worker has in hand is in no other hand and not in the heap, a put that
  waits for room has the lock), `KeptInv` that what is tracked or PENDING is in one of these places.
* `EveryMarkIsSpent`, under the same condition: a mark in `_cancelled_task_ids` belongs to an
  entry in the heap or in the hands of a worker before its check.
* `CancelledTasksAreNotTaken`, for any size, with poll intervals that run out or not: no worker takes a
  cancelled task from the queue and no completion is written over CANCELLED. Two steps of a worker that
  had the task in its hands before remain, both in section 6: FAILED over CANCELLED, and with a
  maximal size a late start. `PlaceInv` says that until a worker has looked at an entry the
  tracking tells what became of its task; that needs the order of the line in front of
  `_queue_lock`, where an `add_task()` stands before the `cancel_task()` of its task (`InTurn` of
  `QueueLine`), and that a canceller in that line holds `tasks_lock` over a PENDING task
  (`StatusLine`). `JoinsLine`, `PassesLock`, `LeavesLine` and `TakesLock` say what the operators of a
  lock do to its line.
* `NeverDoneTooOften`: `[]TypeOK`, in which `unfinished \in Nat` is the claim. `CountInv` says
  that it covers the heap and everything in the hands of workers.

### EventManagerProofs and EventManagerDelivery

* `EventTypes`, with the limit on every queue; it needs that a waiting call waits for
  somebody (`WaitsForSomebody`).
* `GroupsAgree` and `NothingIsMissed`. `NothingMissed` is not inductive: a new member finds an
  event among the recent ones only because `publish_event()` stores it before it waits
  (`Retained`), and a published event comes to every member only because the group holds
  all of them (`IndexAgrees`). `DeliverRun` says once what a run of the loop does;
  `MissedStep` goes by action.
* `EventsAreHeardOnce`: what has come to a subscriber and what waiting calls still owe it
  are counted together and bounded by how often the event can have been accepted
  (`Counted`), where a call owes it to everybody once (`OnceEach`). A newcomer is owed nothing of what
  it reads among the recent events, since it is in no snapshot (`Newcomers`).
* `EventsComeInOrder`: as long as no ids are forgotten an event is accepted from one call
  (`AcceptedOnce`), and what a call still owes comes after all that its task has begun
  before (`Begun`). `StreamAppended` and `StreamConsumed` are about sequences: reading moves nothing
  in the stream of what was read and what is queued.
* `UnsubscribedIsQuiet`, an action property: only a call that was waiting for room delivers.

### AsyncCacheProofs

Over both adapters, unless it says otherwise:

* `MemoryIsBounded` and `LeastRecentlyUsedIsEvicted`. The property speaks of the history `used`, the
  code of `access`; the invariant `MemInv` says that they are equal, beside the bound and the
  equal keys of both dictionaries. `Touched` says of an operator of the adapter which times
  it sets, `Shrinks` that it adds no value, and `MemoryStep` that every step of the cache leaves
  the memory alone, takes from it, or is a `set()`, where `RoomStep` shows that one eviction
  is enough.
* `CacheTypes`, which needs `MemInv`: the times are times of values that are there.
* `OnlyOwnResults`. `KeysTellCallsApart` is not inductive, since what was stored under the key
  of one request is found under that of another. `OwnKeys` says of everything that has a key (a
  value in memory or on the server, a mapping, a `set()` that waits) that the key was made for its
  request, with its task or without, and that a key drawn with a uuid has only one request;
  `NewKeyIsFree` uses that no such key is drawn twice. `KeyTellsCalls` says that requests with one key
  make one call, except under the key function of `add_task()` (run `CacheKeys`) and, under
  that of `AsyncCacheAdapter`, for a lookup that names no task (section 6).
* `NothingIsStoredDisabled`, over memory: inside a block the cache is disabled, and of the states
  the nested blocks saved only the outermost can be "enabled" (`SwitchInv`).
* `MappingsStayWithValues`, over memory: an entry id is mapped to a key made for its own request
  (`OwnMappings`), so that the mapping a step removes leads to the value it removes
  (`MappingGoesWithValue`), or to one that the clean-up has just missed. The exception is
  `invalidate()` with arguments that cannot be encoded, whose key is a new one. Over Redis it is
  false (section 6 has both).

### SSEClientProofs

* `ClientTypes`, with `ClientInv`: a client that runs has been made.
* `EventsAreWholeBlocks`: whatever streams break, are cancelled or opened again, each event is
  the data of one block that ended, and each such block with data is one event. `StreamInv` says
  that a stream is in a block of its own and that the parser holds the data of that
  block and no more, `StoredInv` that the events are the blocks that ended (`IsBlock`,
  `NoneTwice`, `NoneLost`).

### Assumptions, and what is not proved

The assumptions are on the constants only: finitely many tasks and workers, different ranks,
processes that are not confused with each other, and the types of the other constants
(`QueueAssumption`, `WorkerAssumption`, `BoundedAssumption`, `EventAssumption`, `MaxSizeAssumption`,
`CacheAssumption`, `SSEAssumption`; TLC evaluates them in the runs). The hypotheses `"stop" \notin Calls` and
`NoStartDuringStop` are those of the runs `Lifecycle` and `Shutdown`.

Every invariant and every action property of the passing runs is stated by a theorem. What is only
model-checked is what needs fairness, for which there are no proof rules here (`ENABLED` and
WF): `EveryTaskEnds`, `EveryWaiterWakes`, `StopReturns`, `EveryAddReturns`, `EveryMemberHears`,
`StaleMappingsGo`, `StopSettles`. A leads-to property from the invariants above would be the next
step where the prover allows it.

## 5. Not modelled

* Of AsyncTaskWorker: `add_task()` with an id already in use, two `stop()` at a time,
  several waiters that share one future by name (the shared future and its
  cancellation by the timeout of one `wait_for_tasks()`, `WaiterTimeout`, are modelled).
  `wait_for_any_task()` has no action: it changes nothing but by `get_task_future()`, since the
  timeout of its `asyncio.wait()` cancels no future, and neither does the shortcut by which
  both waits answer for a COMPLETED task from the table (`core.py:483`, `core.py:540`).
* Of TaskInfo: progress updates. Of TaskQueue: the waiting-time statistics.
* Of EventManager: the number `publish_event()` returns and the data of the events other than the group it names.
* Of AsyncCache: the validation of keys and the set of generated keys, which end in an
  exception or a log; serialization, a conversion without state.
* Of SSEClient: the reading side (`get_event()`, `wait_for_event()`), ids, the callback; two
  `stop()` calls at a time.
* The HTTP API translates requests into calls; registry, exceptions and examples have no
  behaviour of their own.

## 6. Plan, and what is known beyond the runs

1. `AsyncTaskWorker`: resubmission of an id; overlapping `stop()` calls; several waiters.
2. Proofs: every safety property of the passing runs is stated by a theorem. Left are
   further refinements, such as that `BoundedWorker` without a maximal size implements the
   one-step calls of `AsyncTaskWorker`, of which `LocksAreFree` is the essential part, and an
   abstract specification of the delivery in `EventManager`.

Disagreements seen while modelling that have no run of their own:

* `cancel_task()` marks a running task CANCELLED; when the cancelled execution ends,
  `_on_task_failed()` makes it FAILED (`core.py:642`, `core.py:718`; README.md:309-310, and
  tests/test_task_worker.py:639-641 calls CANCELLED the final state). `TaskLifecycle` has that
  step and `CancelledIsNotTaken` leaves it open, so that neither would find it.
* `clear_tracking()` at the end of `stop()` drops the marks and keeps the entries: a task
  cancelled while queued is executed after the next `start()` (`core.py:199`; `queue.py:202`).
* `stop()` overwrites COMPLETED with CANCELLED when it cancels a worker that has not
  yet seen its execution return (`pool.py:272`).
* `cleanup_old_tasks()` drops the mark of a cancelled task whose entry is still
  queued, which is then executed (`core.py:774`); `CancelledIsNeverStarted` is about a task
  whose record is still there.
* `start()` during `stop()` leaves `running` true on a stopped pool (`core.py:138`).
* The future of a cancelled task carries a `TaskError` and not the `CancelledError` of
  the README's example (`core.py:623`).
* With a bounded queue `cancel_task()` can report success for a task that a worker
  already holds and then starts (`core.py:616`): the worker has left `get()` and waits for
  `tasks_lock`. `CancelledIsNotTaken` leaves this step open, with a maximal size only.
* One function that survives its cancellation keeps `stop()` from returning, whatever
  its timeout (`StopReturns` with such a function, `pool.py:157`).
* The poll interval can end between the heap and `_queue_lock`, and the entry is gone
  (`AcceptedIsKept` of `BoundedWorker`, `queue.py:154`).
* A `publish_event()` cancelled while it waits has marked its event, so that a retry
  reaches nobody (`event_manager.py:215`).
* Ids forgotten above 10000 let an event through twice (`event_manager.py:131`).
* A subscriber without a group gets no event at all, where the docstring calls the
  group a filter (`event_manager.py:157`).
* A call of `AsyncCacheAdapter` without a task id has the key of its function and "no_task_id"
  (`cache_adapter.py:79`): two such calls get each other's results whatever their arguments.
  `KeysTellCallsApart` excepts them; `OwnResult` of `AsyncCache` does not, and fails for them.
* For arguments that cannot be encoded `default_key_fn()` returns another key at every call
  (`async_cache/core.py:240`): what `set()` stores `get()` never finds, and a later `get()` or
  `invalidate()` replaces or removes the mapping that led to it, although the value is still there.
* An event whose data names another group than the one it is published to is found among the
  recent events by subscribers of that other group and not of its own (`event_manager.py:226`).
* Over Redis the clean-up removes the mapping of a value that is there, when its lookup fails
  or a `set()` comes between lookup and removal (`async_cache/core.py:670`); README.md:879 says that
  "all valid mappings are preserved".
* Two `temporarily_disabled()` blocks of different tasks that overlap restore each other's state:
  the cache is enabled in the second block when the first ends (`async_cache/core.py:290`).
* `start_cleanup_task()` in the middle of `stop_cleanup_task()` does nothing (`async_cache/core.py:577`).
* The reconnection task outlives `SSEClient.stop()`, "Stop the SSE client and clean up resources":
  it is still asleep when `stop()` returns (`sse_client.py:103`), and a `start()` during its pause
  gives two streams that both deliver.
* `SSEClient.start()` in the middle of `stop()`: `stop()` closes the client just made, and the new
  task reconnects to a closed client for ever (`sse_client.py:159`). The client that it replaced
  is never closed: when a reconnection of an earlier chain is on it, which `stop()` does not
  cancel, its stream goes on delivering after every later `stop()`. `StopSettles` excepts streams on
  such a client (`Orphaned`); without the exception TLC finds them in the run `SSE`: a chain of
  the first `start()` fails and sleeps; `stop()`; a second `start()`; the chain wakes and connects on the
  second client; `stop()` cancels the second chain, and a third `start()` comes before it goes
  on; it closes the third client; a last `stop()`.
* A block without data keeps its event type for the next event (`sse_client.py:74`), where
  `sse_client.py:21` promises a "Proper EventSource spec implementation"; `is_running` is False after a
  reconnection (`sse_client.py:215`).
