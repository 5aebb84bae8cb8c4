----------------------------- MODULE TaskQueue -----------------------------
(***************************************************************************)
(* The priority queue of async_task_worker/queue.py as a value.            *)
(*                                                                         *)
(* A queue is a record: what asyncio.PriorityQueue holds (heap, and the    *)
(* count that join() waits on) together with what TaskQueue tracks beside  *)
(* it (_queued_task_ids, _cancelled_task_ids, stats.queue_size).  The heap *)
(* and the tracking can disagree: a cancelled entry stays in the heap and  *)
(* is only marked.                                                         *)
(*                                                                         *)
(* Every operator below is one method of TaskQueue.  With max_size=None,   *)
(* the default, no holder of _queue_lock ever suspends, so each method is  *)
(* one indivisible step of the event loop; BoundedWorker models the        *)
(* queue with a finite max_size, where that is no longer so.               *)
(***************************************************************************)
EXTENDS Integers, FiniteSets

CONSTANTS
    Tasks,      \* the task ids
    Rank        \* Rank[t]: the place of the entry (priority, task_id, ...) of t in tuple order

\* A run has finitely many tasks.  No two entries compare equal: the ids that
\* follow the priorities differ.
ASSUME QueueAssumption ==
    /\ IsFiniteSet(Tasks)
    /\ Rank \in [Tasks -> Nat]
    /\ \A s, t \in Tasks : Rank[s] = Rank[t] => s = t

QueueType ==
    [ heap       : SUBSET Tasks,    \* queue: the entries of the asyncio.PriorityQueue
      queued     : SUBSET Tasks,    \* _queued_task_ids
      cancelled  : SUBSET Tasks,    \* _cancelled_task_ids
      size       : Int,             \* stats.queue_size
      unfinished : Int ]            \* the PriorityQueue's count of tasks without task_done()

EmptyQueue ==
    [heap |-> {}, queued |-> {}, cancelled |-> {}, size |-> 0, unfinished |-> 0]

\* put()
Put(q, t) ==
    [ heap       |-> q.heap \union {t},
      queued     |-> q.queued \union {t},
      cancelled  |-> q.cancelled,
      size       |-> q.size + 1,
      unfinished |-> q.unfinished + 1 ]

\* Seeded fault: the order of the heap is lost.
IsNext_AnyOrder(q, t) == t \in q.heap \ q.cancelled

\* The entries _get_valid_task() would hand out, and those it would drop.
Valid(q) == q.heap \ q.cancelled

\* t is the entry the loop of _get_valid_task() returns: the first one in
\* tuple order that is not marked as cancelled.
IsNext(q, t) ==
    /\ t \in Valid(q)
    /\ \A s \in Valid(q) : Rank[t] <= Rank[s]

\* Seeded fault: no task_done() for a skipped entry.
Skip_NotDone(q, S) ==
    [q EXCEPT !.heap = @ \ S, !.cancelled = @ \ S]

\* Marked entries are dropped on the way: each spends its mark and gets its
\* task_done().
Skip(q, S) ==
    [ heap       |-> q.heap \ S,
      queued     |-> q.queued,
      cancelled  |-> q.cancelled \ S,
      size       |-> q.size,
      unfinished |-> q.unfinished - Cardinality(S) ]

\* The entries in front of t: all marked if t is next.
Before(q, t) == {s \in q.heap : Rank[s] < Rank[t]}

\* _get_valid_task() pops and drops the marked entries in front of t and then
\* returns t; task_done() for t itself is the worker's.
Take(q, t) ==
    LET r == Skip(q, Before(q, t)) IN
    [ heap       |-> r.heap \ {t},
      queued     |-> r.queued \ {t},
      cancelled  |-> r.cancelled,
      size       |-> r.size - 1,
      unfinished |-> r.unfinished ]

\* task_done()
TaskDone(q) == [q EXCEPT !.unfinished = @ - 1]

\* Seeded fault: the entry is not marked.
RemoveTask_NotMarked(q, t) ==
    IF t \in q.queued THEN [q EXCEPT !.queued = @ \ {t}, !.size = @ - 1] ELSE q

\* remove_task(): mark the entry, do not take it out of the heap.
RemoveTask(q, t) ==
    IF t \in q.queued
    THEN [ heap       |-> q.heap,
           queued     |-> q.queued \ {t},
           cancelled  |-> q.cancelled \union {t},
           size       |-> q.size - 1,
           unfinished |-> q.unfinished ]
    ELSE q

\* clean_cancelled_tasks()
CleanCancelledTasks(q, S) ==
    [q EXCEPT !.cancelled = @ \ S, !.queued = @ \ S]

\* Seeded fault: the entries are cleared with their tracking.
ClearTracking_EntriesToo(q) ==
    [q EXCEPT !.heap = {}, !.cancelled = {}, !.queued = {}, !.unfinished = 0]

\* clear_tracking()
ClearTracking(q) == [q EXCEPT !.cancelled = {}, !.queued = {}]
=============================================================================
