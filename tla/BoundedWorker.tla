---------------------------- MODULE BoundedWorker ----------------------------
(***************************************************************************)
(* add_task(), cancel_task() and the workers at the level of the locks     *)
(* they share: tasks_lock of AsyncTaskWorker and _queue_lock of TaskQueue, *)
(* for a queue with or without a maximal size.                             *)
(*                                                                         *)
(* A put() into a full queue waits while it holds _queue_lock, and then    *)
(* everybody who wants that lock suspends too: the steps that are          *)
(* indivisible in AsyncTaskWorker fall apart.  An action below runs from   *)
(* one suspension to the next; a lock that is free is taken, used and      *)
(* released within a single action.                                        *)
(***************************************************************************)
EXTENDS TaskQueue, Sequences

CONSTANTS
    Workers,
    Cancellers, Target,     \* Target[c]: the task that the call cancel_task() c is about
    MaxSizes,               \* what max_queue_size may be, 0 for None
    PollTimeouts,           \* whether worker_poll_interval may run out in get()
    Nobody

\* The call add_task() for t is the process t.
Procs == Tasks \union Workers \union Cancellers

ASSUME BoundedAssumption ==
    /\ IsFiniteSet(Workers)
    /\ Tasks \intersect Workers = {}
    /\ Tasks \intersect Cancellers = {}
    /\ Workers \intersect Cancellers = {}
    /\ MaxSizes \subseteq Nat
    /\ Target \in [Cancellers -> Tasks]
    /\ PollTimeouts \subseteq BOOLEAN
    /\ Nobody \notin Procs

VARIABLES
    maxSize, polls,         \* the configuration of the worker: never changes
    tasksLock, queueLock,   \* asyncio.Lock: its owner and those who wait, in order
    pc,                     \* where each process is suspended
    item,                   \* the entry a worker has taken off the heap
    exec,                   \* the execution that a worker awaits
    queue,                  \* the TaskQueue
    status                  \* tasks[t].status

config == <<maxSize, polls>>
vars == <<config, tasksLock, queueLock, pc, item, exec, queue, status>>

LockType == [owner : Procs \union {Nobody}, waiters : Seq(Procs)]

\* "start", "get" and "run" are at no lock; "tasks" (for the report of an
\* execution "end", for a second attempt of a canceller "again") and "queue"
\* are waits for the two locks; "put" is the wait for room under _queue_lock.
\* An execution "runs", is "asked" to cancel, or has ended by an exception
\* that its worker has yet to see: "raised", or "cancelled" by CancelledError.
TypeOK ==
    /\ maxSize \in MaxSizes
    /\ polls \in PollTimeouts
    /\ tasksLock \in LockType
    /\ queueLock \in LockType
    /\ pc \in [Procs -> {"start", "tasks", "again", "queue", "put", "get", "run", "end", "done"}]
    /\ item \in [Workers -> Tasks \union {Nobody}]
    /\ exec \in [Workers -> {"none", "runs", "asked", "raised", "cancelled"}]
    /\ queue \in QueueType
    /\ queue.unfinished \in Nat        \* task_done() is never called too often
    /\ status \in [Tasks -> {"absent", "PENDING", "RUNNING", "CANCELLED", "COMPLETED", "FAILED"}]

Init ==
    /\ maxSize \in MaxSizes
    /\ polls \in PollTimeouts
    /\ tasksLock = [owner |-> Nobody, waiters |-> <<>>]
    /\ queueLock = [owner |-> Nobody, waiters |-> <<>>]
    /\ pc = [p \in Procs |-> IF p \in Workers THEN "get" ELSE "start"]
    /\ item = [w \in Workers |-> Nobody]
    /\ exec = [w \in Workers |-> "none"]
    /\ queue = EmptyQueue
    /\ status = [t \in Tasks |-> "absent"]

-----------------------------------------------------------------------------
(* asyncio.Lock is fair: release() hands the lock to the first waiter.     *)

Free(l) == l.owner = Nobody
Granted(l, p) == l.owner = p
Held(l, p) == [l EXCEPT !.owner = p]
Queued(l, p) == [l EXCEPT !.waiters = Append(@, p)]
Released(l) ==
    IF l.waiters = <<>> THEN [l EXCEPT !.owner = Nobody]
    ELSE [owner |-> Head(l.waiters), waiters |-> Tail(l.waiters)]

\* The line s without p, which is in it once at most.
Without(s, p) ==
    IF \E i \in DOMAIN s : s[i] = p
    THEN LET i == CHOOSE j \in DOMAIN s : s[j] = p
         IN SubSeq(s, 1, i - 1) \o SubSeq(s, i + 1, Len(s))
    ELSE s

\* A waiter gives up: it leaves the line, or passes on the lock.
Withdrawn(l, p) ==
    IF Granted(l, p) THEN Released(l) ELSE [l EXCEPT !.waiters = Without(@, p)]

\* The lock after p, at a point of its code where it takes the lock, has used
\* it for a moment: as before if it was free.
Used(l, p) == IF Granted(l, p) THEN Released(l) ELSE l

\* p may take l: it is at the acquire() with the lock free, or was granted it
\* at the suspension `at`.
Enters(l, p, from, at) ==
    \/ pc[p] = from /\ Free(l)
    \/ pc[p] = at /\ Granted(l, p)

\* ... or has to wait in line.
MustWait(l, p, from) == pc[p] = from /\ ~Free(l)

Goto(p, l) == pc' = [pc EXCEPT ![p] = l]

-----------------------------------------------------------------------------
(* TaskQueue.put() and get() in the parts the locks divide them into.      *)

\* Seeded fault: None is taken for a size.
Full_NoneIsZero == Cardinality(queue.heap) >= maxSize

Full == maxSize > 0 /\ Cardinality(queue.heap) >= maxSize

Pop(q, t) == [q EXCEPT !.heap = @ \ {t}]

\* The tracking that put() adds before it waits for room, and the entry and
\* its count that it adds after.
Tracked(q, t) == [q EXCEPT !.queued = @ \union {t}]
Inserted_NotCounted(q, t) ==    \* seeded fault
    [q EXCEPT !.heap = @ \union {t}, !.size = @ + 1]
Inserted(q, t) ==
    [ heap       |-> q.heap \union {t},
      queued     |-> q.queued,
      cancelled  |-> q.cancelled,
      size       |-> q.size + 1,
      unfinished |-> q.unfinished + 1 ]

\* What _get_valid_task() does under the lock with an entry off the heap.
Dropped_MarkKept(q, t) == TaskDone(q)   \* seeded fault
Dropped(q, t) == TaskDone([q EXCEPT !.cancelled = @ \ {t}])
Untracked(q, t) ==
    [ heap       |-> q.heap,
      queued     |-> q.queued \ {t},
      cancelled  |-> q.cancelled,
      size       |-> q.size - 1,
      unfinished |-> q.unfinished ]

-----------------------------------------------------------------------------
(* add_task()                                                              *)

\* With _queue_lock in hand: wait for room, or put the entry.
PutOrWait(t) ==
    IF Full
    THEN /\ queueLock' = Held(queueLock, t)
         /\ queue' = Tracked(queue, t)
         /\ Goto(t, "put")
    ELSE /\ queueLock' = Used(queueLock, t)
         /\ queue' = Inserted(Tracked(queue, t), t)
         /\ Goto(t, "done")

AddWait(t) ==
    /\ MustWait(tasksLock, t, "start")
    /\ tasksLock' = Queued(tasksLock, t)
    /\ Goto(t, "tasks")
    /\ UNCHANGED <<queueLock, item, exec, queue, status>>

AddRecord(t) ==
    /\ Enters(tasksLock, t, "start", "tasks")
    /\ status' = [status EXCEPT ![t] = "PENDING"]
    /\ tasksLock' = Used(tasksLock, t)
    /\ \/ Free(queueLock) /\ PutOrWait(t)
       \/ /\ ~Free(queueLock)
          /\ queueLock' = Queued(queueLock, t)
          /\ Goto(t, "queue")
          /\ UNCHANGED queue
    /\ UNCHANGED <<item, exec>>

AddEnqueue(t) ==
    /\ pc[t] = "queue"
    /\ Granted(queueLock, t)
    /\ PutOrWait(t)
    /\ UNCHANGED <<tasksLock, item, exec, status>>

\* Seeded fault: after the wait the entry is forgotten.
AddFinish_NotInserted(t) ==
    /\ pc[t] = "put"
    /\ ~Full
    /\ queueLock' = Released(queueLock)
    /\ Goto(t, "done")
    /\ UNCHANGED <<tasksLock, item, exec, status, queue>>

\* There is room again.
AddFinish(t) ==
    /\ pc[t] = "put"
    /\ ~Full
    /\ queue' = Inserted(queue, t)
    /\ queueLock' = Released(queueLock)
    /\ Goto(t, "done")
    /\ UNCHANGED <<tasksLock, item, exec, status>>

-----------------------------------------------------------------------------
(* cancel_task()                                                           *)

CancelWait(c) ==
    /\ MustWait(tasksLock, c, "start")
    /\ tasksLock' = Queued(tasksLock, c)
    /\ Goto(c, "tasks")
    /\ UNCHANGED <<queueLock, item, exec, queue, status>>

\* Unknown or ended: nothing to cancel.
CancelRefused(c) ==
    /\ Enters(tasksLock, c, "start", "tasks")
    /\ status[Target[c]] \notin {"PENDING", "RUNNING"}
    /\ tasksLock' = Used(tasksLock, c)
    /\ Goto(c, "done")
    /\ UNCHANGED <<queueLock, item, exec, queue, status>>

\* PENDING: remove_task() needs _queue_lock while tasks_lock is held.
CancelPending(c) ==
    /\ Enters(tasksLock, c, "start", "tasks")
    /\ status[Target[c]] = "PENDING"
    /\ \/ /\ Free(queueLock)
          /\ queue' = RemoveTask(queue, Target[c])
          /\ status' = [status EXCEPT ![Target[c]] = "CANCELLED"]
          /\ tasksLock' = Used(tasksLock, c)
          /\ Goto(c, "done")
          /\ UNCHANGED queueLock
       \/ /\ ~Free(queueLock)
          /\ tasksLock' = Held(tasksLock, c)
          /\ queueLock' = Queued(queueLock, c)
          /\ Goto(c, "queue")
          /\ UNCHANGED <<queue, status>>
    /\ UNCHANGED <<item, exec>>

CancelRemove(c) ==
    /\ pc[c] = "queue"
    /\ Granted(queueLock, c)
    /\ queue' = RemoveTask(queue, Target[c])
    /\ status' = [status EXCEPT ![Target[c]] = "CANCELLED"]
    /\ queueLock' = Released(queueLock)
    /\ tasksLock' = Released(tasksLock)
    /\ Goto(c, "done")
    /\ UNCHANGED <<item, exec>>

\* cancel_running_task(): an execution of t that is not over is asked to cancel.
Asked(t) ==
    [w \in Workers |-> IF item[w] = t /\ exec[w] = "runs" THEN "asked" ELSE exec[w]]

\* RUNNING: tasks_lock is released for cancel_running_task() and taken again.
CancelRunning(c) ==
    /\ Enters(tasksLock, c, "start", "tasks")
    /\ status[Target[c]] = "RUNNING"
    /\ exec' = Asked(Target[c])
    /\ IF Free(Used(tasksLock, c))
       THEN /\ status' = [status EXCEPT ![Target[c]] = "CANCELLED"]
            /\ tasksLock' = Used(tasksLock, c)
            /\ Goto(c, "done")
       ELSE /\ tasksLock' = Queued(Used(tasksLock, c), c)
            /\ Goto(c, "again")
            /\ UNCHANGED status
    /\ UNCHANGED <<queueLock, item, queue>>

CancelMark(c) ==
    /\ pc[c] = "again"
    /\ Granted(tasksLock, c)
    /\ status' = [status EXCEPT ![Target[c]] = IF @ \in {"PENDING", "RUNNING"}
                                               THEN "CANCELLED" ELSE @]
    /\ tasksLock' = Released(tasksLock)
    /\ Goto(c, "done")
    /\ UNCHANGED <<queueLock, item, exec, queue>>

-----------------------------------------------------------------------------
(* The worker loop.                                                        *)

\* With _queue_lock in hand: drop the entry, or untrack it, leave get() and
\* go on to _on_task_started(), which may find tasks_lock taken.
Checked(w, t, q) ==
    IF t \in q.cancelled
    THEN /\ queue' = Dropped(q, t)
         /\ item' = [item EXCEPT ![w] = Nobody]
         /\ Goto(w, "get")
         /\ UNCHANGED <<tasksLock, exec, status>>
    ELSE /\ queue' = Untracked(q, t)
         /\ item' = [item EXCEPT ![w] = t]
         /\ IF Free(tasksLock)
            THEN /\ status' = [status EXCEPT ![t] = "RUNNING"]
                 /\ exec' = [exec EXCEPT ![w] = "runs"]
                 /\ Goto(w, "run")
                 /\ UNCHANGED tasksLock
            ELSE /\ tasksLock' = Queued(tasksLock, w)
                 /\ Goto(w, "tasks")
                 /\ UNCHANGED <<exec, status>>

\* The first entry comes off the heap, and then _queue_lock is needed.
WorkerGet(w) ==
    /\ pc[w] = "get"
    /\ \E t \in queue.heap :
          /\ \A s \in queue.heap : Rank[t] <= Rank[s]
          /\ \/ /\ Free(queueLock)
                /\ Checked(w, t, Pop(queue, t))
                /\ UNCHANGED queueLock
             \/ /\ ~Free(queueLock)
                /\ queue' = Pop(queue, t)
                /\ item' = [item EXCEPT ![w] = t]
                /\ queueLock' = Queued(queueLock, w)
                /\ Goto(w, "queue")
                /\ UNCHANGED <<tasksLock, exec, status>>

WorkerCheck(w) ==
    /\ pc[w] = "queue"
    /\ Granted(queueLock, w)
    /\ Checked(w, item[w], queue)
    /\ queueLock' = Released(queueLock)

\* Seeded fault: get() waits for _queue_lock without a time limit.
WorkerPollTimeout_Never(w) == FALSE /\ UNCHANGED vars

\* The poll interval ends while get() waits for _queue_lock: CancelledError
\* leaves _get_valid_task(), and with it the entry is gone.
WorkerPollTimeout(w) ==
    /\ polls
    /\ pc[w] = "queue"
    /\ queueLock' = Withdrawn(queueLock, w)
    /\ item' = [item EXCEPT ![w] = Nobody]
    /\ Goto(w, "get")
    /\ UNCHANGED <<tasksLock, exec, queue, status>>

WorkerStart(w) ==
    /\ pc[w] = "tasks"
    /\ Granted(tasksLock, w)
    /\ status' = [status EXCEPT ![item[w]] = "RUNNING"]
    /\ exec' = [exec EXCEPT ![w] = "runs"]
    /\ tasksLock' = Released(tasksLock)
    /\ Goto(w, "run")
    /\ UNCHANGED <<queueLock, item, queue>>

Unfinished(w) == exec[w] \in {"runs", "asked"}

\* The execution raises: the function failed, or it was asked to cancel, as it
\* may be even while it waits in line to report its completion.  A request met
\* inside execute_task() becomes TaskCancellationError; met before its first
\* step, or in its callback for a cached result, it is CancelledError.
ExecutionRaises(w) ==
    /\ \/ pc[w] = "run" /\ Unfinished(w)
       \/ pc[w] = "end" /\ exec[w] = "asked"
    /\ \E e \in {"raised"} \union IF exec[w] = "asked" THEN {"cancelled"} ELSE {} :
          exec' = [exec EXCEPT ![w] = e]
    /\ tasksLock' = Withdrawn(tasksLock, w)
    /\ Goto(w, "run")
    /\ UNCHANGED <<queueLock, item, queue, status>>

\* The report of the execution needs tasks_lock.  A function that returns
\* although it was asked to cancel has taken the request for itself.
WorkerEndWait(w) ==
    /\ MustWait(tasksLock, w, "run")
    /\ exec' = [exec EXCEPT ![w] = IF @ = "asked" THEN "runs" ELSE @]
    /\ tasksLock' = Queued(tasksLock, w)
    /\ Goto(w, "end")
    /\ UNCHANGED <<queueLock, item, queue, status>>

\* With tasks_lock in hand: the status becomes s, and task_done() is called.
Reports(w, s, next) ==
    /\ Enters(tasksLock, w, "run", "end")
    /\ status' = [status EXCEPT ![item[w]] = s]
    /\ queue' = TaskDone(queue)
    /\ item' = [item EXCEPT ![w] = Nobody]
    /\ exec' = [exec EXCEPT ![w] = "none"]
    /\ tasksLock' = Used(tasksLock, w)
    /\ Goto(w, next)
    /\ UNCHANGED queueLock

\* _on_task_completed(), called by the execution: mark_completed() respects
\* an end the task already has ...
WorkerCompleted(w) ==
    /\ Unfinished(w) /\ (exec[w] = "asked" => pc[w] = "run")
    /\ Reports(w, IF status[item[w]] \in {"PENDING", "RUNNING"} THEN "COMPLETED"
                                                              ELSE status[item[w]], "get")

\* ... _on_task_failed(): mark_failed() does not ...
WorkerFailed(w) == exec[w] = "raised" /\ Reports(w, "FAILED", "get")

\* ... and _on_task_cancelled(), with which the worker loop ends.
WorkerCancelled(w) == exec[w] = "cancelled" /\ Reports(w, "CANCELLED", "done")

-----------------------------------------------------------------------------
Adding(t) == AddWait(t) \/ AddRecord(t) \/ AddEnqueue(t) \/ AddFinish(t)

Cancelling(c) ==
    \/ CancelWait(c) \/ CancelRefused(c) \/ CancelPending(c) \/ CancelRemove(c)
    \/ CancelRunning(c) \/ CancelMark(c)

Working(w) ==
    \/ WorkerGet(w) \/ WorkerCheck(w) \/ WorkerPollTimeout(w)
    \/ WorkerStart(w) \/ ExecutionRaises(w) \/ WorkerEndWait(w)
    \/ WorkerCompleted(w) \/ WorkerFailed(w) \/ WorkerCancelled(w)

Next ==
    /\ \/ \E t \in Tasks : Adding(t)
       \/ \E c \in Cancellers : Cancelling(c)
       \/ \E w \in Workers : Working(w)
    /\ UNCHANGED config

\* The event loop runs what is ready, and the task functions end.  Every
\* add_task() is eventually made; a cancel_task() need not be made.
Fairness ==
    /\ \A t \in Tasks : WF_vars(Adding(t) /\ UNCHANGED config)
    /\ \A c \in Cancellers :
          WF_vars(pc[c] # "start" /\ Cancelling(c) /\ UNCHANGED config)
    /\ \A w \in Workers : WF_vars(Working(w) /\ UNCHANGED config)

Spec == Init /\ [][Next]_vars /\ Fairness

-----------------------------------------------------------------------------
\* Without a maximal size no lock is ever waited for: this is what makes the
\* calls of AsyncTaskWorker indivisible.
LocksNeverContended ==
    maxSize = 0 => \A l \in {tasksLock, queueLock} : l.owner = Nobody /\ l.waiters = <<>>

\* An accepted task is somewhere until it ends: in the heap, or in the hands
\* of a worker.
AcceptedIsKept ==
    \A t \in Tasks : status[t] = "PENDING" /\ pc[t] = "done" =>
        t \in queue.heap \/ \E w \in Workers : item[w] = t

\* The same, unless a poll interval can end while get() waits for a lock.
NothingLost == AcceptedIsKept \/ (polls /\ maxSize > 0)

\* A mark in _cancelled_task_ids is for an entry that is still to be dropped.
MarksAreSpent ==
    ~polls => \A t \in queue.cancelled : t \in queue.heap \/ \E w \in Workers : item[w] = t

\* What may still become of a cancelled task.  No worker takes it from the
\* queue, and no completion is written over it.  A worker that had it in its
\* hands before the cancellation may start it, which takes a lock that
\* somebody waits for and so a maximal size, or report that it failed.
CancelledIsNotTaken ==
    [][\A t \in Tasks :
          status[t] = "CANCELLED" /\ status'[t] # "CANCELLED" =>
              \E w \in Workers :
                  /\ item[w] = t
                  /\ \/ maxSize > 0 /\ pc[w] = "tasks" /\ status'[t] = "RUNNING"
                     \/ pc[w] \in {"run", "end"} /\ status'[t] = "FAILED"]_vars

\* As long as nobody cancels, add_task() returns, however many calls compete
\* for the room in the queue: a poll interval that ends lets the workers go on.
EveryAddReturns ==
    \A t \in Tasks :
        <>(pc[t] = "done" \/ (maxSize > 0 /\ ~polls) \/ \E c \in Cancellers : pc[c] # "start")

\* cancel_task() returns.
EveryCancelReturns == \A c \in Cancellers : pc[c] # "start" ~> pc[c] = "done"
=============================================================================
