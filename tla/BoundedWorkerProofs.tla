------------------------- MODULE BoundedWorkerProofs -------------------------
(***************************************************************************)
(* Theorems about the two locks and the queue behind them, for any number  *)
(* of calls and workers and any maximal size.                              *)
(***************************************************************************)
EXTENDS BoundedWorker, FiniteSetTheorems, SequenceTheorems, TLAPS

-----------------------------------------------------------------------------
(* The locks.                                                              *)

LEMMA WithoutType ==
    ASSUME NEW s \in Seq(Procs), NEW p
    PROVE  Without(s, p) \in Seq(Procs)
<1>1. CASE ~\E i \in DOMAIN s : s[i] = p
  BY <1>1 DEF Without
<1>2. CASE \E i \in DOMAIN s : s[i] = p
  <2> DEFINE i == CHOOSE j \in DOMAIN s : s[j] = p
  <2>1. i \in DOMAIN s
    BY <1>2
  <2>2. Len(s) \in Nat /\ DOMAIN s = 1 .. Len(s) /\ \A j \in 1 .. Len(s) : s[j] \in Procs
    BY LenProperties, ElementOfSeq
  <2> HIDE DEF i
  <2>3. i \in Int /\ 1 <= i /\ i <= Len(s)
    BY <2>1, <2>2
  <2>4. SubSeq(s, 1, i - 1) \in Seq(Procs)
    BY <2>2, <2>3, SubSeqProperties
  <2>5. SubSeq(s, i + 1, Len(s)) \in Seq(Procs)
    BY <2>2, <2>3, SubSeqProperties
  <2>6. Without(s, p) = SubSeq(s, 1, i - 1) \o SubSeq(s, i + 1, Len(s))
    BY <1>2 DEF Without, i
  <2> QED
    BY <2>4, <2>5, <2>6, ConcatProperties
<1> QED
  BY <1>1, <1>2

\* Whatever is done to a lock, it stays one.
LEMMA LockTypes ==
    ASSUME NEW l \in LockType, NEW p \in Procs
    PROVE  /\ Held(l, p) \in LockType
           /\ Queued(l, p) \in LockType
           /\ Released(l) \in LockType
           /\ Used(l, p) \in LockType
           /\ Withdrawn(l, p) \in LockType
<1>0. Held(l, p) \in LockType
  BY DEF LockType, Held
<1>1. Queued(l, p) \in LockType
  BY DEF LockType, Queued
<1>2. Released(l) \in LockType
  <2>1. CASE l.waiters = <<>>
    BY <2>1 DEF LockType, Released
  <2>2. CASE l.waiters # <<>>
    <3>1. Head(l.waiters) \in Procs /\ Tail(l.waiters) \in Seq(Procs)
      BY <2>2, HeadTailProperties DEF LockType
    <3> QED
      BY <2>2, <3>1 DEF LockType, Released
  <2> QED
    BY <2>1, <2>2
<1>3. Withdrawn(l, p) \in LockType
  BY <1>2, WithoutType DEF Withdrawn, LockType
<1> QED
  BY <1>0, <1>1, <1>2, <1>3 DEF Used

\* Who waits for a lock, or gives up waiting, does not change its owner.
LEMMA LockOwners ==
    ASSUME NEW l \in LockType, NEW p \in Procs
    PROVE  /\ Queued(l, p).owner = l.owner
           /\ Held(l, p).owner = p
           /\ l.owner # p => Used(l, p) = l /\ Withdrawn(l, p).owner = l.owner
  BY DEF LockType, Queued, Held, Used, Withdrawn, Granted

\* With nobody in line a lock is free again after it has been used.
LEMMA FreeLocks ==
    ASSUME NEW l \in LockType, NEW p \in Procs, l.owner = Nobody, l.waiters = <<>>
    PROVE  Used(l, p) = l /\ Withdrawn(l, p) = l
<1>1. ~Granted(l, p)
  BY BoundedAssumption DEF Granted
<1>2. Without(<<>>, p) = <<>>
  BY DEF Without
<1>3. [l EXCEPT !.waiters = Without(@, p)] = l
  BY <1>2 DEF LockType
<1> QED
  BY <1>1, <1>3 DEF Used, Withdrawn

-----------------------------------------------------------------------------
(* The queue: what the parts of put(), get() and remove_task() do to the   *)
(* heap and its tracking.                                                  *)

LEMMA PutParts ==
    ASSUME NEW q \in QueueType, NEW t \in Tasks
    PROVE  /\ Tracked(q, t) \in QueueType
           /\ Tracked(q, t).heap = q.heap
           /\ Tracked(q, t).queued = q.queued \union {t}
           /\ Tracked(q, t).cancelled = q.cancelled
           /\ Tracked(q, t).unfinished = q.unfinished
           /\ Inserted(q, t) \in QueueType
           /\ Inserted(q, t).heap = q.heap \union {t}
           /\ Inserted(q, t).queued = q.queued
           /\ Inserted(q, t).cancelled = q.cancelled
           /\ Inserted(q, t).unfinished = q.unfinished + 1
           /\ RemoveTask(q, t) \in QueueType
           /\ RemoveTask(q, t).heap = q.heap
           /\ RemoveTask(q, t).queued = q.queued \ {t}
           /\ RemoveTask(q, t).cancelled = IF t \in q.queued THEN q.cancelled \union {t} ELSE q.cancelled
           /\ RemoveTask(q, t).unfinished = q.unfinished
<1>1. /\ Tracked(q, t) \in QueueType
      /\ Tracked(q, t).heap = q.heap
      /\ Tracked(q, t).queued = q.queued \union {t}
      /\ Tracked(q, t).cancelled = q.cancelled
      /\ Tracked(q, t).unfinished = q.unfinished
  BY DEF QueueType, Tracked
<1>2. /\ Inserted(q, t) \in QueueType
      /\ Inserted(q, t).heap = q.heap \union {t}
      /\ Inserted(q, t).queued = q.queued
      /\ Inserted(q, t).cancelled = q.cancelled
      /\ Inserted(q, t).unfinished = q.unfinished + 1
  BY DEF QueueType, Inserted
<1>3. /\ RemoveTask(q, t) \in QueueType
      /\ RemoveTask(q, t).heap = q.heap
      /\ RemoveTask(q, t).queued = q.queued \ {t}
      /\ RemoveTask(q, t).cancelled = IF t \in q.queued THEN q.cancelled \union {t} ELSE q.cancelled
      /\ RemoveTask(q, t).unfinished = q.unfinished
  BY DEF QueueType, RemoveTask
<1> QED
  BY <1>1, <1>2, <1>3

\* An entry off the heap, whatever it is.
LEMMA GetParts ==
    ASSUME NEW q \in QueueType, NEW t
    PROVE  /\ Pop(q, t) \in QueueType
           /\ Pop(q, t).heap = q.heap \ {t}
           /\ Pop(q, t).queued = q.queued
           /\ Pop(q, t).cancelled = q.cancelled
           /\ Pop(q, t).unfinished = q.unfinished
           /\ Untracked(q, t) \in QueueType
           /\ Untracked(q, t).heap = q.heap
           /\ Untracked(q, t).queued = q.queued \ {t}
           /\ Untracked(q, t).cancelled = q.cancelled
           /\ Untracked(q, t).unfinished = q.unfinished
           /\ TaskDone(q) \in QueueType
           /\ TaskDone(q).heap = q.heap
           /\ TaskDone(q).queued = q.queued
           /\ TaskDone(q).cancelled = q.cancelled
           /\ TaskDone(q).unfinished = q.unfinished - 1
           /\ Dropped(q, t) \in QueueType
           /\ Dropped(q, t).heap = q.heap
           /\ Dropped(q, t).queued = q.queued
           /\ Dropped(q, t).cancelled = q.cancelled \ {t}
           /\ Dropped(q, t).unfinished = q.unfinished - 1
<1>1. /\ Pop(q, t) \in QueueType
      /\ Pop(q, t).heap = q.heap \ {t}
      /\ Pop(q, t).queued = q.queued
      /\ Pop(q, t).cancelled = q.cancelled
      /\ Pop(q, t).unfinished = q.unfinished
  BY DEF QueueType, Pop
<1>2. /\ Untracked(q, t) \in QueueType
      /\ Untracked(q, t).heap = q.heap
      /\ Untracked(q, t).queued = q.queued \ {t}
      /\ Untracked(q, t).cancelled = q.cancelled
      /\ Untracked(q, t).unfinished = q.unfinished
  BY DEF QueueType, Untracked
<1>3. /\ TaskDone(q) \in QueueType
      /\ TaskDone(q).heap = q.heap
      /\ TaskDone(q).queued = q.queued
      /\ TaskDone(q).cancelled = q.cancelled
      /\ TaskDone(q).unfinished = q.unfinished - 1
  BY DEF QueueType, TaskDone
<1> DEFINE r == [q EXCEPT !.cancelled = @ \ {t}]
<1>r. /\ r \in QueueType
      /\ r.heap = q.heap /\ r.queued = q.queued
      /\ r.cancelled = q.cancelled \ {t} /\ r.unfinished = q.unfinished
  BY DEF QueueType
<1>d. Dropped(q, t) = TaskDone(r)
  BY DEF Dropped
<1> HIDE DEF r
<1>4. /\ Dropped(q, t) \in QueueType
      /\ Dropped(q, t).heap = q.heap
      /\ Dropped(q, t).queued = q.queued
      /\ Dropped(q, t).cancelled = q.cancelled \ {t}
      /\ Dropped(q, t).unfinished = q.unfinished - 1
  BY <1>r, <1>d DEF QueueType, TaskDone
<1> QED
  BY <1>1, <1>2, <1>3, <1>4

-----------------------------------------------------------------------------
(* Types, without the bound on the count of unfinished entries.            *)

ExecState == {"none", "runs", "asked", "raised", "cancelled"}

ProcState == {"start", "tasks", "again", "queue", "put", "get", "run", "end", "done"}

Types ==
    /\ maxSize \in MaxSizes
    /\ polls \in PollTimeouts
    /\ tasksLock \in LockType
    /\ queueLock \in LockType
    /\ pc \in [Procs -> ProcState]
    /\ item \in [Workers -> Tasks \union {Nobody}]
    /\ exec \in [Workers -> ExecState]
    /\ queue \in QueueType
    /\ status \in [Tasks -> {"absent", "PENDING", "RUNNING", "CANCELLED", "COMPLETED", "FAILED"}]

LEMMA AddingTypes ==
    ASSUME Types, NEW t \in Tasks, Adding(t)
    PROVE  /\ tasksLock' \in LockType
           /\ queueLock' \in LockType
           /\ pc' \in [Procs -> ProcState]
           /\ item' \in [Workers -> Tasks \union {Nobody}]
           /\ exec' \in [Workers -> ExecState]
           /\ queue' \in QueueType
           /\ status' \in [Tasks -> {"absent", "PENDING", "RUNNING", "CANCELLED", "COMPLETED", "FAILED"}]
<1> USE DEF Types, Goto, ProcState, ExecState
<1>t. t \in Procs
  BY DEF Procs
<1>1. /\ Tracked(queue, t) \in QueueType
      /\ Inserted(queue, t) \in QueueType
      /\ Inserted(Tracked(queue, t), t) \in QueueType
  BY PutParts
<1>2. \A l \in {tasksLock, queueLock} :
          Held(l, t) \in LockType /\ Queued(l, t) \in LockType /\ Released(l) \in LockType
          /\ Used(l, t) \in LockType
  BY <1>t, LockTypes
<1>3. CASE AddWait(t)
  BY <1>t, <1>2, <1>3 DEF AddWait
<1>4. ASSUME PutOrWait(t)
      PROVE  queueLock' \in LockType /\ pc' \in [Procs -> ProcState] /\ queue' \in QueueType
  BY <1>t, <1>1, <1>2, <1>4 DEF PutOrWait
<1>5. CASE AddRecord(t)
  BY <1>t, <1>2, <1>4, <1>5 DEF AddRecord
<1>6. CASE AddEnqueue(t)
  BY <1>4, <1>6 DEF AddEnqueue
<1>7. CASE AddFinish(t)
  BY <1>t, <1>1, <1>2, <1>7 DEF AddFinish
<1> QED
  BY <1>3, <1>5, <1>6, <1>7 DEF Adding

LEMMA CancellingTypes ==
    ASSUME Types, NEW c \in Cancellers, Cancelling(c)
    PROVE  /\ tasksLock' \in LockType
           /\ queueLock' \in LockType
           /\ pc' \in [Procs -> ProcState]
           /\ item' \in [Workers -> Tasks \union {Nobody}]
           /\ exec' \in [Workers -> ExecState]
           /\ queue' \in QueueType
           /\ status' \in [Tasks -> {"absent", "PENDING", "RUNNING", "CANCELLED", "COMPLETED", "FAILED"}]
<1> USE DEF Types, Goto, ProcState, ExecState
<1>t. c \in Procs /\ Target[c] \in Tasks
  BY BoundedAssumption DEF Procs
<1>1. RemoveTask(queue, Target[c]) \in QueueType
  BY <1>t, PutParts
<1>2. \A l \in {tasksLock, queueLock} :
          Held(l, c) \in LockType /\ Queued(l, c) \in LockType /\ Released(l) \in LockType
          /\ Used(l, c) \in LockType
  BY <1>t, LockTypes
<1>3. Queued(Used(tasksLock, c), c) \in LockType
  BY <1>t, <1>2, LockTypes
<1>4. CASE CancelWait(c) \/ CancelRefused(c)
  BY <1>t, <1>2, <1>4 DEF CancelWait, CancelRefused
<1>5. CASE CancelPending(c)
  BY <1>t, <1>1, <1>2, <1>5 DEF CancelPending
<1>6. CASE CancelRemove(c)
  BY <1>t, <1>1, <1>2, <1>6 DEF CancelRemove
<1>7. CASE CancelRunning(c)
  <2>1. Asked(Target[c]) \in [Workers -> ExecState]
    BY DEF Asked
  <2> QED
    BY <1>t, <1>2, <1>3, <1>7, <2>1 DEF CancelRunning
<1>8. CASE CancelMark(c)
  BY <1>t, <1>2, <1>8 DEF CancelMark
<1> QED
  BY <1>4, <1>5, <1>6, <1>7, <1>8 DEF Cancelling

LEMMA WorkingTypes ==
    ASSUME Types, NEW w \in Workers, Working(w)
    PROVE  /\ tasksLock' \in LockType
           /\ queueLock' \in LockType
           /\ pc' \in [Procs -> ProcState]
           /\ item' \in [Workers -> Tasks \union {Nobody}]
           /\ exec' \in [Workers -> ExecState]
           /\ queue' \in QueueType
           /\ status' \in [Tasks -> {"absent", "PENDING", "RUNNING", "CANCELLED", "COMPLETED", "FAILED"}]
<1> USE DEF Types, Goto, ProcState, ExecState
<1>t. w \in Procs
  BY DEF Procs
<1>1. \A l \in {tasksLock, queueLock} :
          /\ Queued(l, w) \in LockType
          /\ Released(l) \in LockType
          /\ Used(l, w) \in LockType
          /\ Withdrawn(l, w) \in LockType
  BY <1>t, LockTypes
<1>2. ASSUME NEW t \in Tasks \union {Nobody}, NEW q \in QueueType, Checked(w, t, q)
      PROVE  /\ tasksLock' \in LockType
             /\ pc' \in [Procs -> ProcState]
             /\ item' \in [Workers -> Tasks \union {Nobody}]
             /\ exec' \in [Workers -> ExecState]
             /\ queue' \in QueueType
             /\ status' \in [Tasks -> {"absent", "PENDING", "RUNNING", "CANCELLED", "COMPLETED", "FAILED"}]
  <2>1. Dropped(q, t) \in QueueType /\ Untracked(q, t) \in QueueType
    BY GetParts
  <2> QED
    BY <1>t, <1>1, <1>2, <2>1 DEF Checked
<1>3. CASE WorkerGet(w)
  <2>1. PICK t \in queue.heap :
           \/ /\ Checked(w, t, Pop(queue, t))
              /\ UNCHANGED queueLock
           \/ /\ queue' = Pop(queue, t)
              /\ item' = [item EXCEPT ![w] = t]
              /\ queueLock' = Queued(queueLock, w)
              /\ Goto(w, "queue")
              /\ UNCHANGED <<tasksLock, exec, status>>
    BY <1>3 DEF WorkerGet
  <2>2. t \in Tasks /\ Pop(queue, t) \in QueueType
    BY GetParts DEF QueueType
  <2> QED
    BY <1>t, <1>1, <1>2, <2>1, <2>2
<1>4. CASE WorkerCheck(w)
  BY <1>1, <1>2, <1>4 DEF WorkerCheck
<1>5. CASE WorkerPollTimeout(w)
  BY <1>t, <1>1, <1>5 DEF WorkerPollTimeout
<1>6. CASE WorkerStart(w)
  BY <1>t, <1>1, <1>6 DEF WorkerStart
<1>7. CASE WorkerEndWait(w)
  BY <1>t, <1>1, <1>7 DEF WorkerEndWait
<1>8. ASSUME NEW s, NEW l \in {"get", "done"}, Reports(w, s, l),
             item[w] \in Tasks =>
                s \in {"absent", "PENDING", "RUNNING", "CANCELLED", "COMPLETED", "FAILED"}
      PROVE  /\ tasksLock' \in LockType
             /\ queueLock' \in LockType
             /\ pc' \in [Procs -> ProcState]
             /\ item' \in [Workers -> Tasks \union {Nobody}]
             /\ exec' \in [Workers -> ExecState]
             /\ queue' \in QueueType
             /\ status' \in [Tasks -> {"absent", "PENDING", "RUNNING", "CANCELLED", "COMPLETED", "FAILED"}]
  <2>1. TaskDone(queue) \in QueueType
    BY GetParts
  <2> QED
    BY <1>t, <1>1, <1>8, <2>1, BoundedAssumption DEF Reports, Procs
<1>9. CASE ExecutionRaises(w)
  BY <1>t, <1>1, <1>9 DEF ExecutionRaises
<1>10. CASE WorkerCompleted(w)
  <2>1. item[w] \in Tasks => status[item[w]] \in {"absent", "PENDING", "RUNNING", "CANCELLED", "COMPLETED", "FAILED"}
    OBVIOUS
  <2> QED
    BY <1>8, <1>10, <2>1 DEF WorkerCompleted
<1> QED
  BY <1>3, <1>4, <1>5, <1>6, <1>7, <1>8, <1>9, <1>10 DEF Working, WorkerFailed, WorkerCancelled

LEMMA TypesHold == Spec => []Types
<1>1. Init => Types
  <2> SUFFICES ASSUME Init PROVE Types
    OBVIOUS
  <2>1. tasksLock \in LockType /\ queueLock \in LockType
    BY DEF Init, LockType
  <2>2. queue \in QueueType
    BY DEF Init, EmptyQueue, QueueType
  <2> QED
    BY <2>1, <2>2 DEF Init, Types, ProcState, ExecState
<1>2. ASSUME Types, [Next]_vars PROVE Types'
  <2>1. CASE UNCHANGED vars
    BY <1>2, <2>1 DEF Types, vars, config
  <2>2. CASE Next
    <3>1. maxSize' \in MaxSizes /\ polls' \in PollTimeouts
      BY <1>2, <2>2 DEF Types, Next, config
    <3> QED
      BY <1>2, <2>2, <3>1, AddingTypes, CancellingTypes, WorkingTypes DEF Next, Types
  <2> QED
    BY <1>2, <2>1, <2>2
<1> QED
  BY <1>1, <1>2, PTL DEF Spec

-----------------------------------------------------------------------------
(* Without a maximal size the locks are always free, so that nobody is     *)
(* ever in front of one.                                                   *)

Uncontended ==
    maxSize = 0 =>
        /\ \A l \in {tasksLock, queueLock} : l.owner = Nobody /\ l.waiters = <<>>
        /\ \A p \in Procs : pc[p] \in {"start", "get", "run", "done"}

LEMMA UncontendedStep ==
    ASSUME Types, Uncontended, [Next]_vars
    PROVE  Uncontended'
<1> SUFFICES ASSUME maxSize = 0
             PROVE  /\ \A l \in {tasksLock', queueLock'} : l.owner = Nobody /\ l.waiters = <<>>
                    /\ \A p \in Procs : pc'[p] \in {"start", "get", "run", "done"}
  BY DEF Next, vars, config, Uncontended
<1>t. /\ pc \in [Procs -> ProcState]
      /\ tasksLock \in LockType /\ queueLock \in LockType
      /\ Tasks \subseteq Procs /\ Workers \subseteq Procs /\ Cancellers \subseteq Procs
      /\ Nobody \notin Procs
  BY BoundedAssumption DEF Types, Procs
<1>1. /\ \A l \in {tasksLock, queueLock} : l.owner = Nobody /\ l.waiters = <<>>
      /\ \A p \in Procs : pc[p] \in {"start", "get", "run", "done"}
  BY DEF Uncontended
<1>2. /\ Free(tasksLock) /\ Free(queueLock) /\ ~Full
      /\ \A p \in Procs : ~Granted(tasksLock, p) /\ ~Granted(queueLock, p)
  BY <1>t, <1>1 DEF Free, Granted, Full
<1>3. \A p \in Procs :
          /\ Used(tasksLock, p) = tasksLock /\ Withdrawn(tasksLock, p) = tasksLock
          /\ Used(queueLock, p) = queueLock
  BY <1>t, <1>1, FreeLocks
\* No step but those that find both locks free.
<1>4. ASSUME NEW p \in Procs, NEW l \in {"start", "get", "run", "done"},
             tasksLock' = tasksLock, queueLock' = queueLock, Goto(p, l)
      PROVE  /\ \A m \in {tasksLock', queueLock'} : m.owner = Nobody /\ m.waiters = <<>>
             /\ \A q \in Procs : pc'[q] \in {"start", "get", "run", "done"}
  BY <1>t, <1>1, <1>4 DEF Goto
<1>5. ASSUME NEW t \in Tasks, Adding(t)
      PROVE  /\ tasksLock' = tasksLock /\ queueLock' = queueLock
             /\ Goto(t, "done")
  BY <1>t, <1>1, <1>2, <1>3, <1>5
  DEF Adding, AddWait, AddRecord, AddEnqueue, AddFinish, MustWait, PutOrWait
<1>6. ASSUME NEW c \in Cancellers, Cancelling(c)
      PROVE  /\ tasksLock' = tasksLock /\ queueLock' = queueLock
             /\ Goto(c, "done")
  BY <1>t, <1>1, <1>2, <1>3, <1>6
  DEF Cancelling, CancelWait, CancelRefused, CancelPending, CancelRemove, CancelRunning, CancelMark,
      MustWait
<1>7. ASSUME NEW w \in Workers, Working(w)
      PROVE  /\ tasksLock' = tasksLock /\ queueLock' = queueLock
             /\ Goto(w, "get") \/ Goto(w, "run") \/ Goto(w, "done")
  BY <1>t, <1>1, <1>2, <1>3, <1>7
  DEF Working, WorkerGet, WorkerCheck, WorkerPollTimeout, WorkerStart, ExecutionRaises, WorkerEndWait,
      WorkerCompleted, WorkerFailed, WorkerCancelled, Reports, MustWait, Checked
<1>8. CASE UNCHANGED vars
  BY <1>1, <1>8 DEF vars
<1> QED
  BY <1>t, <1>4, <1>5, <1>6, <1>7, <1>8 DEF Next

LEMMA UncontendedHolds == Spec => []Uncontended
<1>1. Init => Uncontended
  BY DEF Init, Uncontended
<1> QED
  BY <1>1, UncontendedStep, TypesHold, PTL DEF Spec

\* Without a maximal size no lock is ever waited for, whatever the number of
\* calls and workers: every call of AsyncTaskWorker is one step.
THEOREM LocksAreFree == Spec => []LocksNeverContended
<1>1. Uncontended => LocksNeverContended
  BY DEF Uncontended, LocksNeverContended
<1> QED
  BY <1>1, UncontendedHolds, PTL

-----------------------------------------------------------------------------
(* Where an entry is, and who may still add to its tracking.               *)

\* Who waits for room has _queue_lock.
RoomIsLocked == \A t \in Tasks : pc[t] = "put" => queueLock.owner = t

\* Before its put() there is no trace of an entry but its tracking.
NotYetQueued ==
    \A t \in Tasks :
        /\ pc[t] \in {"start", "tasks", "queue", "put"} =>
              /\ t \notin queue.heap /\ t \notin queue.cancelled
              /\ \A w \in Workers : item[w] # t
        /\ pc[t] \in {"start", "tasks", "queue"} => t \notin queue.queued

\* A marked task is no longer PENDING, and no longer tracked as queued.
MarkedIsOver == \A t \in queue.cancelled : status[t] # "PENDING" /\ t \notin queue.queued

\* A worker has an entry exactly from get() to the end of its execution, and
\* once it has checked the entry nobody can mark it any more.
HandsFull ==
    \A w \in Workers :
        /\ pc[w] \in {"get", "queue", "tasks", "run", "end", "done"}
        /\ item[w] = Nobody <=> pc[w] \in {"get", "done"}
        /\ pc[w] \in {"tasks", "run", "end"} => item[w] \notin queue.queued \union queue.cancelled

EntryInv == RoomIsLocked /\ NotYetQueued /\ MarkedIsOver /\ HandsFull

LEMMA Different ==
    /\ \A t \in Tasks : \A w \in Workers : t # w
    /\ \A t \in Tasks : \A c \in Cancellers : t # c
    /\ \A w \in Workers : \A c \in Cancellers : w # c
    /\ Tasks \subseteq Procs /\ Workers \subseteq Procs /\ Cancellers \subseteq Procs
    /\ Nobody \notin Procs /\ Nobody \notin Tasks
    /\ \A c \in Cancellers : Target[c] \in Tasks
  BY BoundedAssumption DEF Procs

\* Nobody but the owner of _queue_lock waits for room.
LEMMA OneWaitsForRoom ==
    ASSUME EntryInv, NEW t \in Tasks, pc[t] = "put"
    PROVE  ~Free(queueLock) /\ \A p \in Procs : p # t => ~Granted(queueLock, p)
  BY Different DEF EntryInv, RoomIsLocked, Free, Granted

\* One process goes on, the others stay where they are.
LEMMA OneMoves ==
    ASSUME Types, NEW p \in Procs, NEW l, Goto(p, l)
    PROVE  /\ pc'[p] = l
           /\ \A q \in Procs : q # p => pc'[q] = pc[q]
  BY DEF Types, Goto

LEMMA AddingEntry ==
    ASSUME Types, EntryInv, NEW t \in Tasks, Adding(t)
    PROVE  EntryInv'
<1> USE DEF EntryInv
<1>t. /\ pc \in [Procs -> ProcState]
      /\ status \in [Tasks -> {"absent", "PENDING", "RUNNING", "CANCELLED", "COMPLETED", "FAILED"}]
      /\ queue \in QueueType
      /\ queueLock \in LockType
      /\ t \in Procs
  BY Different DEF Types
<1>i. item' = item
  BY DEF Adding, AddWait, AddRecord, AddEnqueue, AddFinish
\* The entry, on its way into the queue.
<1>1. ASSUME PutOrWait(t), pc[t] \in {"start", "tasks", "queue"},
             Free(queueLock) \/ Granted(queueLock, t),
             \A u \in Tasks : u # t => status'[u] = status[u]
      PROVE  EntryInv'
  <2>1. \A u \in Tasks : pc[u] # "put"
    BY <1>t, <1>1, OneWaitsForRoom, Different
  <2>2. /\ t \notin queue.heap /\ t \notin queue.cancelled /\ t \notin queue.queued
        /\ \A w \in Workers : item[w] # t
    BY <1>1 DEF NotYetQueued
  <2>3. CASE Full
    <3>1. /\ queueLock' = Held(queueLock, t)
          /\ queue' = Tracked(queue, t)
          /\ Goto(t, "put")
      BY <1>1, <2>3 DEF PutOrWait
    <3>2. /\ queue'.heap = queue.heap
          /\ queue'.queued = queue.queued \union {t}
          /\ queue'.cancelled = queue.cancelled
      BY <1>t, <3>1, PutParts
    <3>3. pc'[t] = "put" /\ \A q \in Procs : q # t => pc'[q] = pc[q]
      BY <1>t, <3>1, OneMoves
    <3>4. RoomIsLocked'
      BY <1>t, <2>1, <3>1, <3>3, LockOwners, Different DEF RoomIsLocked
    <3>5. NotYetQueued' /\ MarkedIsOver'
      BY <1>t, <1>i, <1>1, <2>2, <3>2, <3>3, Different DEF NotYetQueued, MarkedIsOver, QueueType
    <3>6. HandsFull'
      BY <1>i, <2>2, <3>2, <3>3, Different DEF HandsFull
    <3> QED
      BY <3>4, <3>5, <3>6
  <2>4. CASE ~Full
    <3>1. /\ queue' = Inserted(Tracked(queue, t), t)
          /\ Goto(t, "done")
      BY <1>1, <2>4 DEF PutOrWait
    <3>2. /\ queue'.heap = queue.heap \union {t}
          /\ queue'.queued = queue.queued \union {t}
          /\ queue'.cancelled = queue.cancelled
      <4>1. /\ Tracked(queue, t) \in QueueType
            /\ Tracked(queue, t).heap = queue.heap
            /\ Tracked(queue, t).queued = queue.queued \union {t}
            /\ Tracked(queue, t).cancelled = queue.cancelled
        BY <1>t, PutParts
      <4> QED
        BY <3>1, <4>1, PutParts
    <3>3. pc'[t] = "done" /\ \A q \in Procs : q # t => pc'[q] = pc[q]
      BY <1>t, <3>1, OneMoves
    <3>4. RoomIsLocked'
      BY <2>1, <3>3, Different DEF RoomIsLocked
    <3>5. NotYetQueued' /\ MarkedIsOver'
      BY <1>t, <1>i, <1>1, <2>2, <3>2, <3>3, Different DEF NotYetQueued, MarkedIsOver, QueueType
    <3>6. HandsFull'
      BY <1>i, <2>2, <3>2, <3>3, Different DEF HandsFull
    <3> QED
      BY <3>4, <3>5, <3>6
  <2> QED
    BY <2>3, <2>4
\* ... or still in front of a lock.
<1>2. ASSUME queue' = queue, queueLock'.owner = queueLock.owner,
             \A u \in Tasks : u # t => status'[u] = status[u],
             \/ pc[t] = "start" /\ Goto(t, "tasks")
             \/ pc[t] \in {"start", "tasks"} /\ Goto(t, "queue")
      PROVE  EntryInv'
  <2>1. PICK l \in {"tasks", "queue"} : Goto(t, l)
    BY <1>2
  <2>2. pc'[t] = l /\ \A q \in Procs : q # t => pc'[q] = pc[q]
    BY <1>t, <2>1, OneMoves
  <2>3. RoomIsLocked'
    BY <1>2, <2>2, Different DEF RoomIsLocked
  <2>4. NotYetQueued' /\ MarkedIsOver'
    BY <1>t, <1>i, <1>2, <2>2, Different DEF NotYetQueued, MarkedIsOver, QueueType
  <2>5. HandsFull'
    BY <1>i, <1>2, <2>2, Different DEF HandsFull
  <2> QED
    BY <2>3, <2>4, <2>5
<1>3. CASE AddWait(t)
  BY <1>2, <1>3 DEF AddWait, MustWait
<1>4. CASE AddRecord(t)
  <2>1. /\ pc[t] \in {"start", "tasks"}
        /\ \A u \in Tasks : u # t => status'[u] = status[u]
    BY <1>t, <1>4 DEF AddRecord, Enters
  <2>2. CASE Free(queueLock) /\ PutOrWait(t)
    BY <1>1, <2>1, <2>2
  <2>3. CASE queueLock' = Queued(queueLock, t) /\ Goto(t, "queue") /\ queue' = queue
    BY <1>t, <1>2, <2>1, <2>3, LockOwners
  <2> QED
    BY <1>4, <2>2, <2>3 DEF AddRecord
<1>5. CASE AddEnqueue(t)
  BY <1>1, <1>5 DEF AddEnqueue
<1>6. CASE AddFinish(t)
  <2>1. /\ pc[t] = "put"
        /\ pc' = [pc EXCEPT ![t] = "done"]
        /\ status' = status
        /\ queue'.heap = queue.heap \union {t}
        /\ queue'.queued = queue.queued
        /\ queue'.cancelled = queue.cancelled
    BY <1>t, <1>6, PutParts DEF AddFinish, Goto
  <2>2. \A u \in Tasks : u # t => pc[u] # "put"
    BY <1>t, <2>1 DEF RoomIsLocked
  <2> QED
    BY <1>t, <1>i, <2>1, <2>2, Different DEF RoomIsLocked, NotYetQueued, MarkedIsOver, HandsFull
<1> QED
  BY <1>3, <1>4, <1>5, <1>6 DEF Adding

LEMMA CancellingEntry ==
    ASSUME Types, EntryInv, NEW c \in Cancellers, Cancelling(c)
    PROVE  EntryInv'
<1> USE DEF EntryInv
<1>t. /\ pc \in [Procs -> ProcState]
      /\ status \in [Tasks -> {"absent", "PENDING", "RUNNING", "CANCELLED", "COMPLETED", "FAILED"}]
      /\ queue \in QueueType
      /\ queueLock \in LockType
      /\ c \in Procs /\ Target[c] \in Tasks
  BY Different DEF Types
<1>1. /\ item' = item
      /\ \A p \in Procs : p # c => pc'[p] = pc[p]
  BY <1>t DEF Cancelling, CancelWait, CancelRefused, CancelPending, CancelRemove, CancelRunning, CancelMark,
     Goto
<1>2. \A u \in Tasks : status'[u] = "PENDING" => status[u] = "PENDING"
  BY <1>t DEF Cancelling, CancelWait, CancelRefused, CancelPending, CancelRemove, CancelRunning, CancelMark
<1>3. CASE queue' = queue
  <2>1. RoomIsLocked'
    <3> SUFFICES ASSUME NEW t \in Tasks, pc'[t] = "put" PROVE queueLock'.owner = t
      BY DEF RoomIsLocked
    <3>1. c # t /\ pc[t] = "put" /\ queueLock.owner = t
      BY <1>1, Different DEF RoomIsLocked
    <3>2. ~Free(queueLock) /\ ~Granted(queueLock, c)
      BY <1>t, <3>1, OneWaitsForRoom
    <3> QED
      BY <1>t, <3>1, <3>2, LockOwners DEF Cancelling, CancelWait, CancelRefused, CancelPending,
         CancelRemove, CancelRunning, CancelMark
  <2>2. NotYetQueued' /\ MarkedIsOver' /\ HandsFull'
    BY <1>t, <1>1, <1>2, <1>3, Different DEF NotYetQueued, MarkedIsOver, HandsFull, QueueType
  <2> QED
    BY <2>1, <2>2
\* A task is marked and CANCELLED in one step, and not while its add_task()
\* waits for room: _queue_lock is free then, or in the hands of the canceller.
<1>4. CASE queue' = RemoveTask(queue, Target[c])
  <2> DEFINE t == Target[c]
  <2>1. CASE t \in queue.queued
    <3>1. /\ status'[t] # "PENDING"
          /\ Free(queueLock) \/ Granted(queueLock, c)
      BY <1>t, <1>4, <2>1 DEF Cancelling, CancelWait, CancelRefused, CancelPending, CancelRemove,
         CancelRunning, CancelMark, RemoveTask, QueueType
    <3>2. \A u \in Tasks : pc[u] # "put"
      <4> TAKE u \in Tasks
      <4>1. c # u
        BY Different
      <4> HIDE DEF t
      <4> QED
        BY <1>t, <3>1, <4>1, OneWaitsForRoom
    <3>3. /\ queue'.heap = queue.heap
          /\ queue'.queued = queue.queued \ {t}
          /\ queue'.cancelled = queue.cancelled \union {t}
      BY <1>t, <1>4, <2>1, PutParts
    <3>4. \A w \in Workers : pc[w] \in {"tasks", "run", "end"} => item[w] # t
      BY <2>1 DEF HandsFull
    <3> HIDE DEF t
    <3>5. t \in Tasks
      BY <1>t DEF t
    <3>6. \A u \in Tasks : pc'[u] = pc[u]
      BY <1>1, Different
    <3>7. RoomIsLocked'
      BY <3>2, <3>6 DEF RoomIsLocked
    <3>8. NotYetQueued' /\ MarkedIsOver'
      BY <1>t, <1>1, <1>2, <2>1, <3>1, <3>2, <3>3, <3>5, <3>6
      DEF NotYetQueued, MarkedIsOver, QueueType
    <3>9. HandsFull'
      BY <1>1, <3>3, <3>4, Different DEF HandsFull
    <3> QED
      BY <3>7, <3>8, <3>9
  <2> QED
    BY <1>3, <1>4, <2>1 DEF RemoveTask
<1> QED
  BY <1>3, <1>4 DEF Cancelling, CancelWait, CancelRefused, CancelPending, CancelRemove, CancelRunning, CancelMark

\* A worker moves nobody else, and changes the status of no task but one that
\* it has, or takes off the heap, to something that is over or RUNNING.
LEMMA WorkerFrame ==
    ASSUME Types, NEW w \in Workers, Working(w)
    PROVE  /\ \A p \in Procs : p # w => pc'[p] = pc[p]
           /\ \A u \in Tasks : pc'[u] = pc[u]
           /\ \A u \in Tasks : status'[u] \in {"absent", "PENDING"} => status'[u] = status[u]
           /\ \A u \in Tasks : status'[u] # status[u] => u \in queue.heap \/ item[w] = u
<1>t. /\ pc \in [Procs -> ProcState]
      /\ status \in [Tasks -> {"absent", "PENDING", "RUNNING", "CANCELLED", "COMPLETED", "FAILED"}]
  BY DEF Types
<1>1. \E l : Goto(w, l)
  BY DEF Working, WorkerGet, WorkerCheck, WorkerPollTimeout, WorkerStart, ExecutionRaises,
     WorkerEndWait, WorkerCompleted, WorkerFailed, WorkerCancelled, Reports, Checked
<1>2. \A p \in Procs : p # w => pc'[p] = pc[p]
  <2>1. PICK l : Goto(w, l)
    BY <1>1
  <2> QED
    BY <2>1, OneMoves, Different
<1>3. \/ status' = status
      \/ \E t \in queue.heap \union {item[w]} :
            \E s : /\ s \notin {"absent", "PENDING"} \/ s = status[t]
                   /\ status' = [status EXCEPT ![t] = s]
  <2>1. CASE WorkerCompleted(w)
    BY <2>1 DEF WorkerCompleted, Reports
  <2>2. CASE WorkerFailed(w) \/ WorkerCancelled(w)
    BY <2>2 DEF WorkerFailed, WorkerCancelled, Reports
  <2>3. CASE WorkerGet(w) \/ WorkerCheck(w)
    BY <2>3 DEF WorkerGet, WorkerCheck, Checked
  <2> QED
    BY <2>1, <2>2, <2>3 DEF Working, WorkerPollTimeout, WorkerStart, ExecutionRaises, WorkerEndWait
<1>4. CASE status' = status
  BY <1>2, <1>4, Different
<1>5. ASSUME NEW t \in queue.heap \union {item[w]}, NEW s,
             s \notin {"absent", "PENDING"} \/ s = status[t],
             status' = [status EXCEPT ![t] = s]
      PROVE  \A u \in Tasks :
                /\ status'[u] \in {"absent", "PENDING"} => status'[u] = status[u]
                /\ status'[u] # status[u] => u \in queue.heap \/ item[w] = u
  BY <1>t, <1>5
<1> QED
  BY <1>2, <1>3, <1>4, <1>5, Different

LEMMA WorkingEntry ==
    ASSUME Types, EntryInv, NEW w \in Workers, Working(w)
    PROVE  EntryInv'
<1> USE DEF EntryInv
<1>t. /\ pc \in [Procs -> ProcState]
      /\ status \in [Tasks -> {"absent", "PENDING", "RUNNING", "CANCELLED", "COMPLETED", "FAILED"}]
      /\ item \in [Workers -> Tasks \union {Nobody}]
      /\ queue \in QueueType
      /\ queueLock \in LockType
      /\ w \in Procs
  BY Different DEF Types
<1>p. \A u \in Tasks : status'[u] = "PENDING" => status[u] = "PENDING"
  BY WorkerFrame
\* Whatever the step, it leaves a worker with or without an entry at the
\* right place, and takes nothing but entries off the queue.
<1>1. ASSUME NEW l, Goto(w, l), NEW t \in Tasks \union {Nobody}, item' = [item EXCEPT ![w] = t],
             queue'.heap \subseteq queue.heap, queue'.queued \subseteq queue.queued,
             queue'.cancelled \subseteq queue.cancelled,
             \A u \in Tasks : pc[u] = "put" => queueLock'.owner = queueLock.owner,
             l \in {"get", "queue", "tasks", "run", "end", "done"},
             t = Nobody <=> l \in {"get", "done"},
             l \in {"tasks", "run", "end"} => t \notin queue'.queued \union queue'.cancelled,
             t \in Tasks => t \in queue.heap \/ \E v \in Workers : item[v] = t
      PROVE  EntryInv'
  <2>1. pc'[w] = l /\ \A q \in Procs : q # w => pc'[q] = pc[q]
    BY <1>t, <1>1, OneMoves
  <2>2. \A u \in Tasks : pc'[u] = pc[u]
    BY <2>1, Different
  <2>3. RoomIsLocked'
    BY <1>1, <2>2 DEF RoomIsLocked
  <2>4. NotYetQueued'
    <3> SUFFICES ASSUME NEW u \in Tasks, pc[u] \in {"start", "tasks", "queue", "put"}
                 PROVE  /\ u \notin queue'.heap /\ u \notin queue'.cancelled
                        /\ \A v \in Workers : item'[v] # u
                        /\ pc[u] # "put" => u \notin queue'.queued
      BY <2>2 DEF NotYetQueued
    <3>1. /\ u \notin queue.heap /\ u \notin queue.cancelled
          /\ \A v \in Workers : item[v] # u
          /\ pc[u] # "put" => u \notin queue.queued
      BY DEF NotYetQueued
    <3>2. u # t
      BY <1>1, <3>1
    <3> QED
      BY <1>t, <1>1, <3>1, <3>2
  <2>5. MarkedIsOver'
    BY <1>t, <1>p, <1>1 DEF MarkedIsOver, QueueType
  <2>6. HandsFull'
    <3> SUFFICES ASSUME NEW v \in Workers
                 PROVE  /\ pc'[v] \in {"get", "queue", "tasks", "run", "end", "done"}
                        /\ item'[v] = Nobody <=> pc'[v] \in {"get", "done"}
                        /\ pc'[v] \in {"tasks", "run", "end"} =>
                              item'[v] \notin queue'.queued \union queue'.cancelled
      BY DEF HandsFull
    <3>1. CASE v = w
      BY <1>t, <1>1, <2>1, <3>1
    <3>2. CASE v # w
      <4>1. pc'[v] = pc[v] /\ item'[v] = item[v]
        BY <1>t, <1>1, <2>1, <3>2, Different
      <4> QED
        BY <1>1, <4>1 DEF HandsFull
    <3> QED
      BY <3>1, <3>2
  <2> QED
    BY <2>3, <2>4, <2>5, <2>6
\* An entry that is looked at under _queue_lock.
<1>2. ASSUME NEW t \in Tasks, NEW q \in QueueType, Checked(w, t, q),
             q.heap \subseteq queue.heap, q.queued = queue.queued, q.cancelled = queue.cancelled,
             t \in queue.heap \/ item[w] = t,
             Free(queueLock) \/ Granted(queueLock, w)
      PROVE  EntryInv'
  <2>1. \A u \in Tasks : pc[u] # "put"
    BY <1>t, <1>2, OneWaitsForRoom, Different
  <2>2. CASE t \in q.cancelled
    <3>1. /\ item' = [item EXCEPT ![w] = Nobody]
          /\ Goto(w, "get")
          /\ queue'.heap = q.heap
          /\ queue'.queued = q.queued
          /\ queue'.cancelled = q.cancelled \ {t}
      <4>1. queue' = Dropped(q, t) /\ item' = [item EXCEPT ![w] = Nobody] /\ Goto(w, "get")
        BY <1>2, <2>2 DEF Checked
      <4> QED
        BY <4>1, GetParts
    <3> QED
      BY <1>1, <1>2, <2>1, <3>1, Different
  <2>3. CASE t \notin q.cancelled
    <3>1. /\ queue' = Untracked(q, t)
          /\ item' = [item EXCEPT ![w] = t]
          /\ \E l \in {"run", "tasks"} : Goto(w, l)
      BY <1>2, <2>3 DEF Checked
    <3>2. t # Nobody
      BY Different
    <3>3. PICK l \in {"run", "tasks"} : Goto(w, l)
      BY <3>1
    <3>4. /\ queue'.heap = q.heap
          /\ queue'.queued = q.queued \ {t}
          /\ queue'.cancelled = q.cancelled
      BY <3>1, GetParts
    <3>5. t \notin queue'.queued \union queue'.cancelled
      BY <1>2, <2>3, <3>4
    <3>6. /\ queue'.heap \subseteq queue.heap
          /\ queue'.queued \subseteq queue.queued
          /\ queue'.cancelled \subseteq queue.cancelled
      BY <1>2, <3>4
    <3>7. \A u \in Tasks : pc[u] = "put" => queueLock'.owner = queueLock.owner
      BY <2>1
    <3>8. t \in queue.heap \/ \E v \in Workers : item[v] = t
      BY <1>2
    <3>9. /\ t \in Tasks \union {Nobody}
          /\ l \in {"get", "queue", "tasks", "run", "end", "done"}
          /\ t = Nobody <=> l \in {"get", "done"}
          /\ item' = [item EXCEPT ![w] = t]
      BY <3>1, <3>2, <3>3
    <3> QED
      BY ONLY <1>1, <3>3, <3>5, <3>6, <3>7, <3>8, <3>9
  <2> QED
    BY <2>2, <2>3
<1>3. CASE WorkerGet(w)
  <2>1. PICK t \in queue.heap :
           \/ /\ Free(queueLock)
              /\ Checked(w, t, Pop(queue, t))
           \/ /\ queue' = Pop(queue, t)
              /\ item' = [item EXCEPT ![w] = t]
              /\ queueLock' = Queued(queueLock, w)
              /\ Goto(w, "queue")
    BY <1>3 DEF WorkerGet
  <2>2. /\ t \in Tasks /\ t # Nobody
        /\ Pop(queue, t) \in QueueType
        /\ Pop(queue, t).heap = queue.heap \ {t}
        /\ Pop(queue, t).queued = queue.queued
        /\ Pop(queue, t).cancelled = queue.cancelled
    BY <1>t, GetParts, Different DEF QueueType
  <2>3. CASE Free(queueLock) /\ Checked(w, t, Pop(queue, t))
    BY <1>2, <2>2, <2>3
  <2>4. CASE /\ queue' = Pop(queue, t)
             /\ item' = [item EXCEPT ![w] = t]
             /\ queueLock' = Queued(queueLock, w)
             /\ Goto(w, "queue")
    <3>1. queueLock'.owner = queueLock.owner
      BY <1>t, <2>4, LockOwners
    <3> QED
      BY <1>1, <2>2, <2>4, <3>1
  <2> QED
    BY <2>1, <2>3, <2>4
<1>4. CASE WorkerCheck(w)
  <2>1. item[w] \in Tasks
    BY <1>t, <1>4, Different DEF WorkerCheck, HandsFull
  <2> QED
    BY <1>t, <1>2, <1>4, <2>1 DEF WorkerCheck
<1>5. CASE WorkerPollTimeout(w)
  <2>1. \A u \in Tasks : pc[u] = "put" => queueLock.owner # w
    BY Different DEF RoomIsLocked
  <2>2. \A u \in Tasks : pc[u] = "put" => queueLock'.owner = queueLock.owner
    BY <1>t, <1>5, <2>1, LockOwners DEF WorkerPollTimeout
  <2> QED
    BY <1>1, <1>5, <2>2, Different DEF WorkerPollTimeout
<1>6. CASE WorkerStart(w) \/ ExecutionRaises(w) \/ WorkerEndWait(w)
  <2>1. /\ item' = [item EXCEPT ![w] = item[w]]
        /\ queue' = queue /\ queueLock' = queueLock
        /\ Goto(w, "run") \/ Goto(w, "end")
        /\ pc[w] \in {"tasks", "run", "end"}
    BY <1>t, <1>6 DEF WorkerStart, ExecutionRaises, WorkerEndWait, MustWait
  <2>2. item[w] \in Tasks /\ item[w] # Nobody /\ item[w] \notin queue.queued \union queue.cancelled
    BY <1>t, <2>1, Different DEF HandsFull
  <2>3. PICK l \in {"run", "end"} : Goto(w, l)
    BY <2>1
  <2> QED
    BY <1>1, <2>1, <2>2, <2>3
<1>7. ASSUME NEW s, NEW l \in {"get", "done"}, Reports(w, s, l) PROVE EntryInv'
  <2>1. /\ queue'.heap = queue.heap
        /\ queue'.queued = queue.queued
        /\ queue'.cancelled = queue.cancelled
        /\ queueLock' = queueLock
        /\ item' = [item EXCEPT ![w] = Nobody]
        /\ Goto(w, l)
    BY <1>t, <1>7, GetParts DEF Reports
  <2> QED
    BY <1>1, <2>1, Different
<1> QED
  BY <1>3, <1>4, <1>5, <1>6, <1>7 DEF Working, WorkerCompleted, WorkerFailed, WorkerCancelled

LEMMA EntryHolds == Spec => []EntryInv
<1>1. Init => EntryInv
  BY Different DEF Init, EmptyQueue, EntryInv, RoomIsLocked, NotYetQueued, MarkedIsOver, HandsFull
<1>2. ASSUME Types, EntryInv, [Next]_vars PROVE EntryInv'
  <2>1. CASE UNCHANGED vars
    BY <1>2, <2>1 DEF vars, EntryInv, RoomIsLocked, NotYetQueued, MarkedIsOver, HandsFull
  <2> QED
    BY <1>2, <2>1, AddingEntry, CancellingEntry, WorkingEntry DEF Next
<1> QED
  BY <1>1, <1>2, TypesHold, PTL DEF Spec

-----------------------------------------------------------------------------
(* What a worker does to the heap, the tracking and the entry in its hands.*)

\* It takes t off the heap, and keeps it or drops it ...
Takes(w, t) ==
    /\ t \in queue.heap
    /\ item[w] = Nobody
    /\ item' = [item EXCEPT ![w] = t]
    /\ queue'.heap = queue.heap \ {t}
    /\ queue'.queued \subseteq queue.queued
    /\ queue'.cancelled = queue.cancelled
    /\ queue'.unfinished = queue.unfinished

TakesAndDrops(w, t) ==
    /\ t \in queue.heap \intersect queue.cancelled
    /\ item[w] = Nobody
    /\ item' = [item EXCEPT ![w] = Nobody]
    /\ queue'.heap = queue.heap \ {t}
    /\ queue'.queued = queue.queued
    /\ queue'.cancelled = queue.cancelled \ {t}
    /\ queue'.unfinished = queue.unfinished - 1

\* ... it goes on with the entry it has, drops it, or is done with it.
Keeps(w) ==
    /\ item[w] \in Tasks
    /\ item' = item
    /\ queue'.heap = queue.heap
    /\ queue'.queued \subseteq queue.queued
    /\ queue'.cancelled = queue.cancelled
    /\ queue'.unfinished = queue.unfinished

Drops(w) ==
    /\ item[w] \in queue.cancelled
    /\ item' = [item EXCEPT ![w] = Nobody]
    /\ queue'.heap = queue.heap
    /\ queue'.queued = queue.queued
    /\ queue'.cancelled = queue.cancelled \ {item[w]}
    /\ queue'.unfinished = queue.unfinished - 1

Ends(w) ==
    /\ item[w] \in Tasks \ (queue.queued \union queue.cancelled)
    /\ status'[item[w]] # "PENDING"
    /\ item' = [item EXCEPT ![w] = Nobody]
    /\ queue'.heap = queue.heap
    /\ queue'.queued = queue.queued
    /\ queue'.cancelled = queue.cancelled
    /\ queue'.unfinished = queue.unfinished - 1

LEMMA WorkerOutcome ==
    ASSUME Types, EntryInv, NEW w \in Workers, Working(w)
    PROVE  \/ \E t \in Tasks : Takes(w, t) \/ TakesAndDrops(w, t)
           \/ Keeps(w) \/ Drops(w) \/ Ends(w)
           \/ WorkerPollTimeout(w)
<1>t. /\ status \in [Tasks -> {"absent", "PENDING", "RUNNING", "CANCELLED", "COMPLETED", "FAILED"}]
      /\ item \in [Workers -> Tasks \union {Nobody}]
      /\ queue \in QueueType
  BY DEF Types
<1>h. /\ item[w] = Nobody <=> pc[w] \in {"get", "done"}
      /\ pc[w] \in {"tasks", "run", "end"} => item[w] \notin queue.queued \union queue.cancelled
      /\ pc[w] \notin {"get", "done"} => item[w] \in Tasks
  BY <1>t DEF EntryInv, HandsFull
<1>1. CASE WorkerGet(w)
  <2>1. PICK t \in queue.heap :
           \/ Checked(w, t, Pop(queue, t))
           \/ queue' = Pop(queue, t) /\ item' = [item EXCEPT ![w] = t]
    BY <1>1 DEF WorkerGet
  <2> DEFINE q == Pop(queue, t)
  <2>2. /\ t \in Tasks
        /\ item[w] = Nobody
        /\ q \in QueueType
        /\ q.heap = queue.heap \ {t}
        /\ q.queued = queue.queued
        /\ q.cancelled = queue.cancelled
        /\ q.unfinished = queue.unfinished
    BY <1>t, <1>h, <1>1, GetParts DEF QueueType, WorkerGet
  <2>3. CASE queue' = q /\ item' = [item EXCEPT ![w] = t]
    BY <2>2, <2>3 DEF Takes
  <2>4. CASE Checked(w, t, q)
    <3> HIDE DEF q
    <3>1. CASE t \in q.cancelled
      <4>1. queue' = Dropped(q, t) /\ item' = [item EXCEPT ![w] = Nobody]
        BY <2>4, <3>1 DEF Checked
      <4>2. /\ queue'.heap = q.heap
            /\ queue'.queued = q.queued
            /\ queue'.cancelled = q.cancelled \ {t}
            /\ queue'.unfinished = q.unfinished - 1
        BY <2>2, <4>1, GetParts
      <4> QED
        BY <2>2, <3>1, <4>1, <4>2 DEF TakesAndDrops
    <3>2. CASE t \notin q.cancelled
      <4>1. queue' = Untracked(q, t) /\ item' = [item EXCEPT ![w] = t]
        BY <2>4, <3>2 DEF Checked
      <4>2. /\ queue'.heap = q.heap
            /\ queue'.queued = q.queued \ {t}
            /\ queue'.cancelled = q.cancelled
            /\ queue'.unfinished = q.unfinished
        BY <2>2, <4>1, GetParts
      <4> QED
        BY <2>2, <4>1, <4>2 DEF Takes
    <3> QED
      BY <3>1, <3>2
  <2> QED
    BY <2>1, <2>3, <2>4
<1>2. CASE WorkerCheck(w)
  <2> DEFINE t == item[w]
  <2>1. t \in Tasks /\ Checked(w, t, queue)
    BY <1>h, <1>2 DEF WorkerCheck
  <2>2. CASE t \in queue.cancelled
    <3>1. queue' = Dropped(queue, t) /\ item' = [item EXCEPT ![w] = Nobody]
      BY <2>1, <2>2 DEF Checked
    <3> QED
      BY <1>t, <2>2, <3>1, GetParts DEF Drops
  <2>3. CASE t \notin queue.cancelled
    <3>1. queue' = Untracked(queue, t) /\ item' = item
      BY <1>t, <2>1, <2>3 DEF Checked
    <3> QED
      BY <1>t, <2>1, <3>1, GetParts DEF Keeps
  <2> QED
    BY <2>2, <2>3
<1>3. CASE WorkerStart(w) \/ ExecutionRaises(w) \/ WorkerEndWait(w)
  BY <1>h, <1>3 DEF WorkerStart, ExecutionRaises, WorkerEndWait, MustWait, Keeps
<1>4. ASSUME NEW s, NEW l, Reports(w, s, l), s # "PENDING"
      PROVE  Ends(w)
  <2>1. pc[w] \in {"run", "end"}
    BY <1>4 DEF Reports, Enters
  <2>2. item[w] \in Tasks \ (queue.queued \union queue.cancelled)
    BY <1>h, <2>1
  <2>3. status'[item[w]] # "PENDING"
    BY <1>t, <1>4, <2>2 DEF Reports
  <2>4. queue' = TaskDone(queue) /\ item' = [item EXCEPT ![w] = Nobody]
    BY <1>4 DEF Reports
  <2> QED
    BY <1>t, <2>2, <2>3, <2>4, GetParts DEF Ends
<1>5. CASE WorkerCompleted(w)
  BY <1>4, <1>5 DEF WorkerCompleted
<1> QED
  BY <1>1, <1>2, <1>3, <1>4, <1>5 DEF Working, WorkerFailed, WorkerCancelled

\* What add_task() does to them.
LEMMA AdderOutcome ==
    ASSUME Types, NEW t \in Tasks, Adding(t)
    PROVE  /\ item' = item
           /\ queue'.cancelled = queue.cancelled
           /\ \A u \in Tasks : u # t => status'[u] = status[u] /\ pc'[u] = pc[u]
           /\ \/ /\ queue'.heap = queue.heap
                 /\ queue'.queued \subseteq queue.queued \union IF pc'[t] = "put" THEN {t} ELSE {}
                 /\ queue'.unfinished = queue.unfinished
                 /\ pc[t] # "put" /\ pc'[t] # "done"
              \/ /\ queue'.heap = queue.heap \union {t}
                 /\ queue'.queued \subseteq queue.queued \union {t}
                 /\ queue'.unfinished = queue.unfinished + 1
<1>t. /\ pc \in [Procs -> ProcState]
      /\ status \in [Tasks -> {"absent", "PENDING", "RUNNING", "CANCELLED", "COMPLETED", "FAILED"}]
      /\ queue \in QueueType
      /\ t \in Procs /\ Tasks \subseteq Procs
  BY Different DEF Types
<1>1. /\ item' = item
      /\ \A u \in Tasks : u # t => status'[u] = status[u] /\ pc'[u] = pc[u]
  BY <1>t DEF Adding, AddWait, AddRecord, AddEnqueue, AddFinish, PutOrWait, Goto
\* The entry is tracked, inserted, or both.
<1>2. /\ Tracked(queue, t) \in QueueType
      /\ Tracked(queue, t).heap = queue.heap
      /\ Tracked(queue, t).queued = queue.queued \union {t}
      /\ Tracked(queue, t).cancelled = queue.cancelled
      /\ Tracked(queue, t).unfinished = queue.unfinished
  BY <1>t, PutParts
<1>3. ASSUME NEW q \in QueueType, q.queued \subseteq queue.queued \union {t},
             q.heap = queue.heap, q.cancelled = queue.cancelled, q.unfinished = queue.unfinished,
             queue' = Inserted(q, t)
      PROVE  /\ queue'.heap = queue.heap \union {t}
             /\ queue'.queued \subseteq queue.queued \union {t}
             /\ queue'.cancelled = queue.cancelled
             /\ queue'.unfinished = queue.unfinished + 1
  <2>1. /\ Inserted(q, t).heap = q.heap \union {t}
        /\ Inserted(q, t).queued = q.queued
        /\ Inserted(q, t).cancelled = q.cancelled
        /\ Inserted(q, t).unfinished = q.unfinished + 1
    BY PutParts
  <2> QED
    BY <1>3, <2>1
<1>4. \/ /\ queue' = queue
         /\ \E l \in {"tasks", "queue"} : Goto(t, l)
         /\ pc[t] # "put"
      \/ /\ queue' = Tracked(queue, t)
         /\ Goto(t, "put")
         /\ pc[t] # "put"
      \/ queue' = Inserted(Tracked(queue, t), t)
      \/ queue' = Inserted(queue, t)
  BY DEF Adding, AddWait, AddRecord, AddEnqueue, AddFinish, PutOrWait, Enters, MustWait
<1>5. CASE queue' = queue /\ (\E l \in {"tasks", "queue"} : Goto(t, l)) /\ pc[t] # "put"
  <2>1. pc'[t] # "done"
    BY <1>t, <1>5 DEF Goto
  <2> QED
    BY <1>1, <1>5, <2>1
<1>6. CASE queue' = Tracked(queue, t) /\ Goto(t, "put") /\ pc[t] # "put"
  <2>1. pc'[t] = "put"
    BY <1>t, <1>6 DEF Goto
  <2> QED
    BY <1>1, <1>2, <1>6, <2>1
<1>7. CASE queue' = Inserted(Tracked(queue, t), t)
  BY <1>1, <1>2, <1>3, <1>7
<1>8. CASE queue' = Inserted(queue, t)
  BY <1>t, <1>1, <1>3, <1>8
<1> QED
  BY <1>4, <1>5, <1>6, <1>7, <1>8

-----------------------------------------------------------------------------
(* Nothing that is tracked gets lost, unless a worker can give up in front *)
(* of _queue_lock.                                                         *)

Somewhere(t) == t \in queue.heap \/ \E w \in Workers : item[w] = t

KeptInv ==
    ~(polls /\ maxSize > 0) =>
        \A t \in Tasks :
            /\ t \in queue.queued \union queue.cancelled => Somewhere(t) \/ pc[t] = "put"
            /\ status[t] = "PENDING" /\ pc[t] = "done" => Somewhere(t)

LEMMA KeptStep ==
    ASSUME Types, Uncontended, EntryInv, KeptInv, [Next]_vars
    PROVE  KeptInv'
<1> SUFFICES ASSUME ~(polls /\ maxSize > 0), NEW u \in Tasks
             PROVE  /\ u \in queue'.queued \union queue'.cancelled => Somewhere(u)' \/ pc'[u] = "put"
                    /\ status'[u] = "PENDING" /\ pc'[u] = "done" => Somewhere(u)'
  BY DEF KeptInv, Next, vars, config
<1>t. /\ pc \in [Procs -> ProcState]
      /\ status \in [Tasks -> {"absent", "PENDING", "RUNNING", "CANCELLED", "COMPLETED", "FAILED"}]
      /\ item \in [Workers -> Tasks \union {Nobody}]
      /\ queue \in QueueType
      /\ maxSize \in Nat
  BY BoundedAssumption DEF Types
<1>k. /\ u \in queue.queued \union queue.cancelled => Somewhere(u) \/ pc[u] = "put"
      /\ status[u] = "PENDING" /\ pc[u] = "done" => Somewhere(u)
  BY DEF KeptInv
<1>1. CASE UNCHANGED vars
  BY <1>k, <1>1 DEF vars, Somewhere
<1>2. ASSUME NEW t \in Tasks, Adding(t)
      PROVE  /\ u \in queue'.queued \union queue'.cancelled => Somewhere(u)' \/ pc'[u] = "put"
             /\ status'[u] = "PENDING" /\ pc'[u] = "done" => Somewhere(u)'
  <2>1. CASE /\ queue'.heap = queue.heap
             /\ queue'.queued \subseteq queue.queued \union IF pc'[t] = "put" THEN {t} ELSE {}
             /\ pc[t] # "put" /\ pc'[t] # "done"
    BY <1>2, <1>k, <2>1, AdderOutcome DEF Somewhere
  <2>2. CASE /\ queue'.heap = queue.heap \union {t}
             /\ queue'.queued \subseteq queue.queued \union {t}
    BY <1>2, <1>k, <2>2, AdderOutcome DEF Somewhere
  <2> QED
    BY <1>2, <2>1, <2>2, AdderOutcome
<1>3. ASSUME NEW c \in Cancellers, Cancelling(c)
      PROVE  /\ u \in queue'.queued \union queue'.cancelled => Somewhere(u)' \/ pc'[u] = "put"
             /\ status'[u] = "PENDING" /\ pc'[u] = "done" => Somewhere(u)'
  <2>1. /\ item' = item
        /\ status'[u] = "PENDING" => status[u] = "PENDING"
        /\ pc'[u] = pc[u]
        /\ queue' = queue \/ queue' = RemoveTask(queue, Target[c])
    BY <1>t, <1>3, Different
    DEF Cancelling, CancelWait, CancelRefused, CancelPending, CancelRemove, CancelRunning, CancelMark, Goto
  <2>2. /\ queue'.heap = queue.heap
        /\ queue'.queued \union queue'.cancelled \subseteq queue.queued \union queue.cancelled
    <3>1. CASE queue' = RemoveTask(queue, Target[c])
      <4> DEFINE t == Target[c]
      <4>1. t \in Tasks
        BY Different
      <4> HIDE DEF t
      <4>2. /\ RemoveTask(queue, t).heap = queue.heap
            /\ RemoveTask(queue, t).queued = queue.queued \ {t}
            /\ RemoveTask(queue, t).cancelled =
                  IF t \in queue.queued THEN queue.cancelled \union {t} ELSE queue.cancelled
        BY <1>t, <4>1, PutParts
      <4>3. queue' = RemoveTask(queue, t)
        BY <3>1 DEF t
      <4> QED
        BY <4>2, <4>3
    <3> QED
      BY <2>1, <3>1
  <2> QED
    BY <1>k, <2>1, <2>2 DEF Somewhere
<1>4. ASSUME NEW w \in Workers, Working(w)
      PROVE  /\ u \in queue'.queued \union queue'.cancelled => Somewhere(u)' \/ pc'[u] = "put"
             /\ status'[u] = "PENDING" /\ pc'[u] = "done" => Somewhere(u)'
  <2>1. pc'[u] = pc[u] /\ (status'[u] = "PENDING" => status[u] = "PENDING")
    BY <1>4, WorkerFrame
  \* An entry that goes is no longer tracked, and its task no longer PENDING.
  <2>2. /\ queue'.queued \union queue'.cancelled \subseteq queue.queued \union queue.cancelled
        /\ Somewhere(u) => \/ Somewhere(u)'
                           \/ u \notin queue'.queued \union queue'.cancelled /\ status'[u] # "PENDING"
    <3>m. u \in queue.cancelled => status[u] # "PENDING" /\ u \notin queue.queued
      BY DEF EntryInv, MarkedIsOver
    <3>1. ASSUME NEW t \in Tasks, Takes(w, t)
          PROVE  /\ queue'.queued \subseteq queue.queued /\ queue'.cancelled = queue.cancelled
                 /\ Somewhere(u) => Somewhere(u)'
      BY <1>t, <3>1, Different DEF Takes, Somewhere
    <3>2. ASSUME NEW t \in Tasks, TakesAndDrops(w, t)
          PROVE  /\ queue'.queued = queue.queued /\ queue'.cancelled = queue.cancelled \ {t}
                 /\ t \in queue.cancelled
                 /\ Somewhere(u) => Somewhere(u)' \/ u = t
      BY <1>t, <3>2, Different DEF TakesAndDrops, Somewhere
    <3>3. CASE Keeps(w)
      BY <3>3 DEF Keeps, Somewhere
    <3>4. CASE Drops(w)
      <4>1. Somewhere(u) => Somewhere(u)' \/ u = item[w]
        BY <1>t, <3>4, Different DEF Drops, Somewhere
      <4> QED
        BY <2>1, <3>m, <3>4, <4>1 DEF Drops
    <3>5. CASE Ends(w)
      <4>1. Somewhere(u) => Somewhere(u)' \/ u = item[w]
        BY <1>t, <3>5, Different DEF Ends, Somewhere
      <4> QED
        BY <3>5, <4>1 DEF Ends
    <3>6. ~WorkerPollTimeout(w)
      BY <1>t, Different DEF Uncontended, WorkerPollTimeout
    <3> QED
      BY <1>4, <2>1, <3>m, <3>1, <3>2, <3>3, <3>4, <3>5, <3>6, WorkerOutcome
  <2> QED
    BY <1>k, <2>1, <2>2
<1> QED
  BY <1>1, <1>2, <1>3, <1>4 DEF Next

LEMMA KeptHolds == Spec => []KeptInv
<1>1. Init => KeptInv
  BY DEF Init, EmptyQueue, KeptInv
<1> QED
  BY <1>1, KeptStep, TypesHold, UncontendedHolds, EntryHolds, PTL DEF Spec

\* add_task() never accepts a task and loses it: until its end it is in the
\* heap or in the hands of a worker, whatever the size of the queue and
\* whoever cancels, unless a poll interval can end in front of a lock.
THEOREM AcceptedTasksAreKept == Spec => []NothingLost
<1>1. KeptInv => NothingLost
  BY DEF KeptInv, NothingLost, AcceptedIsKept, Somewhere
<1> QED
  BY <1>1, KeptHolds, PTL

\* _cancelled_task_ids has no mark but for entries that get() will still drop:
\* the set does not grow for ever, unless a poll interval can end in front of
\* a lock.
THEOREM EveryMarkIsSpent == Spec => []MarksAreSpent
<1>1. Types /\ EntryInv /\ KeptInv => MarksAreSpent
  BY DEF Types, QueueType, EntryInv, NotYetQueued, KeptInv, MarksAreSpent, Somewhere
<1> QED
  BY <1>1, TypesHold, EntryHolds, KeptHolds, PTL

-----------------------------------------------------------------------------
(* Who waits in line for a lock.                                           *)

\* p has the lock, or waits for it.
InLine(l, p) == l.owner = p \/ \E i \in 1 .. Len(l.waiters) : l.waiters[i] = p

\* Nobody is in line twice, or for a lock that is free.
Line(l) ==
    /\ l.owner = Nobody => l.waiters = <<>>
    /\ \A i \in 1 .. Len(l.waiters) : l.waiters[i] # l.owner
    /\ \A i, j \in 1 .. Len(l.waiters) : l.waiters[i] = l.waiters[j] => i = j

\* a gets the lock before b does.
Ahead(l, a, b) ==
    /\ l.owner # b
    /\ \/ l.owner = a
       \/ \A j \in 1 .. Len(l.waiters) :
             l.waiters[j] = b => \E i \in 1 .. Len(l.waiters) : i < j /\ l.waiters[i] = a

\* The line without one of its places.
LEMMA WithoutShifts ==
    ASSUME NEW s \in Seq(Procs), NEW p, \E i \in 1 .. Len(s) : s[i] = p
    PROVE  \E k \in 1 .. Len(s) :
              /\ s[k] = p
              /\ Len(Without(s, p)) = Len(s) - 1
              /\ \A i \in 1 .. Len(s) - 1 :
                    Without(s, p)[i] = IF i < k THEN s[i] ELSE s[i + 1]
<1>0. Len(s) \in Nat /\ DOMAIN s = 1 .. Len(s) /\ \A j \in 1 .. Len(s) : s[j] \in Procs
  BY LenProperties, ElementOfSeq
<1> DEFINE k == CHOOSE j \in DOMAIN s : s[j] = p
           x == SubSeq(s, 1, k - 1)
           y == SubSeq(s, k + 1, Len(s))
<1>1. k \in DOMAIN s /\ s[k] = p
  BY <1>0
<1>2. Without(s, p) = x \o y
  BY <1>0 DEF Without
<1> HIDE DEF k
<1>3. k \in Int /\ 1 <= k /\ k <= Len(s)
  BY <1>0, <1>1
<1>4. /\ x \in Seq(Procs) /\ Len(x) = k - 1
      /\ \A i \in 1 .. k - 1 : x[i] = s[i]
  <2>1. \A i \in 1 .. k - 1 : s[i] \in Procs
    BY <1>0, <1>3
  <2>2. x \in Seq(Procs) /\ Len(x) = IF 1 <= k - 1 THEN k - 1 ELSE 0
    BY <1>0, <1>3, <2>1, SubSeqProperties
  <2>3. \A i \in 1 .. k - 1 : x[i] = s[i]
    BY <1>0, <1>3, <2>1, SubSeqProperties
  <2> QED
    BY <1>3, <2>2, <2>3
<1>5. /\ y \in Seq(Procs) /\ Len(y) = Len(s) - k
      /\ \A i \in 1 .. Len(s) - k : y[i] = s[k + i]
  <2>1. \A i \in k + 1 .. Len(s) : s[i] \in Procs
    BY <1>0, <1>3
  <2>2. y \in Seq(Procs) /\ Len(y) = IF k + 1 <= Len(s) THEN Len(s) - k ELSE 0
    BY <1>0, <1>3, <2>1, SubSeqProperties
  <2>3. \A i \in 1 .. Len(s) - k : y[i] = s[k + i]
    BY <1>0, <1>3, <2>1, SubSeqProperties
  <2> HIDE DEF x, y
  <2>4. Len(y) = Len(s) - k
    <3>1. Len(s) \in Nat /\ k \in Int /\ k <= Len(s)
      BY <1>0, <1>3
    <3>2. CASE k + 1 <= Len(s)
      BY <2>2, <3>2
    <3>3. CASE ~(k + 1 <= Len(s))
      <4>1. Len(s) - k = 0
        BY <3>1, <3>3
      <4> QED
        BY <2>2, <3>3, <4>1
    <3> QED
      BY <3>2, <3>3
  <2> QED
    BY <2>2, <2>3, <2>4
<1> HIDE DEF x, y
<1>6. /\ x \o y \in Seq(Procs)
      /\ Len(x \o y) = Len(x) + Len(y)
      /\ \A i \in 1 .. Len(x) + Len(y) : (x \o y)[i] = IF i <= Len(x) THEN x[i] ELSE y[i - Len(x)]
  BY <1>4, <1>5, ConcatProperties
<1>7. Len(x \o y) = Len(s) - 1
  BY <1>0, <1>3, <1>4, <1>5, <1>6
<1>8. ASSUME NEW i \in 1 .. Len(s) - 1
      PROVE  (x \o y)[i] = IF i < k THEN s[i] ELSE s[i + 1]
  <2>1. (x \o y)[i] = IF i <= k - 1 THEN x[i] ELSE y[i - (k - 1)]
    BY <1>0, <1>3, <1>4, <1>5, <1>6
  <2>2. CASE i < k
    BY <1>0, <1>3, <1>4, <2>1, <2>2
  <2>3. CASE ~(i < k)
    <3>1. i - (k - 1) \in 1 .. Len(s) - k /\ k + (i - (k - 1)) = i + 1
      BY <1>0, <1>3, <2>3
    <3>2. y[i - (k - 1)] = s[k + (i - (k - 1))]
      BY <1>5, <3>1
    <3> QED
      BY <1>3, <2>1, <2>3, <3>1, <3>2
  <2> QED
    BY <2>2, <2>3
<1>9. k \in 1 .. Len(s)
  BY <1>0, <1>1
<1>10. Len(Without(s, p)) = Len(s) - 1
  BY <1>2, <1>7
<1>11. \A i \in 1 .. Len(s) - 1 : Without(s, p)[i] = IF i < k THEN s[i] ELSE s[i + 1]
  BY <1>2, <1>8
<1> QED
  BY <1>1, <1>9, <1>10, <1>11

\* p joins the line at its end ...
LEMMA JoinsLine ==
    ASSUME NEW l \in LockType, Line(l), NEW p \in Procs, l.owner # Nobody, ~InLine(l, p)
    PROVE  /\ Line(Queued(l, p))
           /\ \A a \in Procs : InLine(Queued(l, p), a) <=> InLine(l, a) \/ a = p
           /\ \A a \in Procs : InLine(l, a) => Ahead(Queued(l, p), a, p)
           /\ \A a, b \in Procs : b # p /\ Ahead(l, a, b) => Ahead(Queued(l, p), a, b)
<1> DEFINE m == Queued(l, p)
           n == Len(l.waiters)
<1>1. /\ l.waiters \in Seq(Procs)
      /\ m.owner = l.owner
      /\ m.waiters = Append(l.waiters, p)
  BY DEF LockType, Queued
<1>2. /\ n \in Nat
      /\ Len(m.waiters) = n + 1
      /\ \A i \in 1 .. n : m.waiters[i] = l.waiters[i]
      /\ m.waiters[n + 1] = p
  BY <1>1, AppendProperties, LenProperties
<1>3. /\ l.owner # p
      /\ \A i \in 1 .. n : l.waiters[i] # p
  BY DEF InLine
<1> HIDE DEF m
<1>4. \A i \in 1 .. n + 1 : i \in 1 .. n \/ i = n + 1
  BY <1>2
<1>5. Line(m)
  BY <1>1, <1>2, <1>3, <1>4 DEF Line
<1>6. ASSUME NEW a \in Procs PROVE InLine(m, a) <=> InLine(l, a) \/ a = p
  <2>1. 1 .. n \subseteq 1 .. n + 1 /\ n + 1 \in 1 .. n + 1
    BY <1>2
  <2> QED
    BY <1>1, <1>2, <1>4, <2>1 DEF InLine
<1>7. ASSUME NEW a \in Procs, InLine(l, a) PROVE Ahead(m, a, p)
  <2>1. CASE l.owner = a
    BY <1>1, <1>3, <2>1 DEF Ahead
  <2>2. CASE \E i \in 1 .. n : l.waiters[i] = a
    <3>1. PICK i \in 1 .. n : l.waiters[i] = a
      BY <2>2
    <3>2. i \in 1 .. n + 1 /\ i < n + 1 /\ m.waiters[i] = a
      BY <1>2, <3>1
    <3>3. \A j \in 1 .. n + 1 : m.waiters[j] = p => j = n + 1
      BY <1>2, <1>3, <1>4
    <3> QED
      BY <1>1, <1>2, <1>3, <3>2, <3>3 DEF Ahead
  <2> QED
    BY <1>7, <2>1, <2>2 DEF InLine
<1>8. ASSUME NEW a \in Procs, NEW b \in Procs, b # p, Ahead(l, a, b) PROVE Ahead(m, a, b)
  <2>1. CASE l.owner = a
    BY <1>1, <1>8, <2>1 DEF Ahead
  <2>2. CASE l.owner # a
    <3> SUFFICES ASSUME NEW j \in 1 .. n + 1, m.waiters[j] = b
                 PROVE  \E i \in 1 .. n + 1 : i < j /\ m.waiters[i] = a
      BY <1>1, <1>2, <1>8 DEF Ahead
    <3>1. j \in 1 .. n /\ l.waiters[j] = b
      BY <1>2, <1>4, <1>8
    <3>2. PICK i \in 1 .. n : i < j /\ l.waiters[i] = a
      BY <1>8, <2>2, <3>1 DEF Ahead
    <3>3. i \in 1 .. n + 1 /\ m.waiters[i] = a
      BY <1>2, <3>2
    <3> QED
      BY <3>2, <3>3
  <2> QED
    BY <2>1, <2>2
<1> QED
  BY <1>5, <1>6, <1>7, <1>8 DEF m

\* ... passes the lock on ...
LEMMA PassesLock ==
    ASSUME NEW l \in LockType, Line(l), NEW p \in Procs, Granted(l, p)
    PROVE  /\ Line(Released(l))
           /\ \A a \in Procs : InLine(Released(l), a) <=> InLine(l, a) /\ a # p
           /\ \A a, b \in Procs : a # p /\ Ahead(l, a, b) => Ahead(Released(l), a, b)
<1> DEFINE m == Released(l)
           n == Len(l.waiters)
<1>1. l.waiters \in Seq(Procs) /\ l.owner = p /\ n \in Nat
  BY LenProperties DEF LockType, Granted
<1>2. CASE l.waiters = <<>>
  <2>1. m.owner = Nobody /\ m.waiters = <<>> /\ Len(<<>>) = 0
    BY <1>2 DEF LockType, Released
  <2>2. \A a : ~InLine(m, a) \/ a = Nobody
    BY <2>1 DEF InLine
  <2>3. \A a \in Procs : InLine(l, a) => a = p
    BY <1>1, <1>2, <2>1 DEF InLine
  <2>4. Line(m)
    BY <2>1 DEF Line
  <2>5. \A a, b \in Procs : Ahead(m, a, b)
    BY <2>1, Different DEF Ahead
  <2> QED
    BY <1>1, <2>2, <2>3, <2>4, <2>5, Different
<1>3. CASE l.waiters # <<>>
  <2>1. /\ m.owner = l.waiters[1]
        /\ m.waiters = Tail(l.waiters)
    BY <1>1, <1>3, HeadTailProperties DEF LockType, Released
  <2>2. /\ n \in Nat /\ n >= 1
        /\ Len(m.waiters) = n - 1
        /\ \A i \in 1 .. n - 1 : m.waiters[i] = l.waiters[i + 1]
    BY <1>1, <1>3, <2>1, HeadTailProperties, EmptySeq
  <2>3. \A i \in 1 .. n : l.waiters[i] # p /\ l.waiters[i] \in Procs
    BY <1>1, ElementOfSeq DEF Line
  <2> HIDE DEF m, n
  <2>4. /\ 1 \in 1 .. n
        /\ \A i \in 1 .. n - 1 : i + 1 \in 1 .. n /\ i + 1 # 1
        /\ \A i \in 1 .. n : i # 1 => i - 1 \in 1 .. n - 1 /\ (i - 1) + 1 = i
        /\ \A i, j \in 1 .. n - 1 : i + 1 = j + 1 => i = j
    BY <2>2
  <2>5. \A i, j \in 1 .. n : l.waiters[i] = l.waiters[j] => i = j
    BY DEF Line, n
  <2>6. Line(m)
    <3>1. m.owner # Nobody
      BY <2>1, <2>3, <2>4, Different
    <3>2. \A i \in 1 .. n - 1 : m.waiters[i] # m.owner
      BY <2>1, <2>2, <2>4, <2>5
    <3>3. \A i, j \in 1 .. n - 1 : m.waiters[i] = m.waiters[j] => i = j
      BY <2>2, <2>4, <2>5
    <3> QED
      BY <2>2, <3>1, <3>2, <3>3 DEF Line
  <2>7. ASSUME NEW a \in Procs PROVE InLine(m, a) <=> InLine(l, a) /\ a # p
    <3>1. InLine(m, a) <=> \E i \in 1 .. n : l.waiters[i] = a
      BY <2>1, <2>2, <2>4 DEF InLine
    <3>2. InLine(l, a) <=> a = p \/ \E i \in 1 .. n : l.waiters[i] = a
      BY <1>1 DEF InLine, n
    <3> QED
      BY <2>3, <3>1, <3>2
  <2>8. ASSUME NEW a \in Procs, NEW b \in Procs, a # p, Ahead(l, a, b) PROVE Ahead(m, a, b)
    <3>1. \A j \in 1 .. n : l.waiters[j] = b => \E i \in 1 .. n : i < j /\ l.waiters[i] = a
      BY <1>1, <2>8 DEF Ahead, n
    <3>2. m.owner # b
      <4> SUFFICES ASSUME l.waiters[1] = b PROVE FALSE
        BY <2>1
      <4>1. PICK i \in 1 .. n : i < 1
        BY <2>4, <3>1
      <4> QED
        BY <2>2, <4>1
    <3>3. CASE m.owner = a
      BY <3>2, <3>3 DEF Ahead
    <3>4. CASE m.owner # a
      <4> SUFFICES ASSUME NEW j \in 1 .. n - 1, m.waiters[j] = b
                   PROVE  \E i \in 1 .. n - 1 : i < j /\ m.waiters[i] = a
        BY <2>2, <3>2 DEF Ahead
      <4>1. j + 1 \in 1 .. n /\ l.waiters[j + 1] = b
        BY <2>2, <2>4
      <4>2. PICK i \in 1 .. n : i < j + 1 /\ l.waiters[i] = a
        BY <3>1, <4>1
      <4>3. i # 1
        BY <2>1, <3>4, <4>2
      <4>4. i - 1 \in 1 .. n - 1 /\ i - 1 < j /\ (i - 1) + 1 = i
        BY <2>2, <4>2, <4>3
      <4>5. m.waiters[i - 1] = a
        BY <2>2, <4>2, <4>4
      <4> QED
        BY <4>4, <4>5
    <3> QED
      BY <3>3, <3>4
  <2> QED
    BY <2>6, <2>7, <2>8 DEF m
<1> QED
  BY <1>2, <1>3

\* ... or gives up its place.
LEMMA LeavesLine ==
    ASSUME NEW l \in LockType, Line(l), NEW p \in Procs, InLine(l, p)
    PROVE  /\ Line(Withdrawn(l, p))
           /\ \A a \in Procs : InLine(Withdrawn(l, p), a) <=> InLine(l, a) /\ a # p
           /\ \A a, b \in Procs : a # p /\ b # p /\ Ahead(l, a, b) => Ahead(Withdrawn(l, p), a, b)
<1>1. CASE Granted(l, p)
  BY <1>1, PassesLock DEF Withdrawn
<1>2. CASE ~Granted(l, p)
  <2> DEFINE s == l.waiters
             m == Withdrawn(l, p)
  <2>1. /\ s \in Seq(Procs)
        /\ m.owner = l.owner /\ m.waiters = Without(s, p)
        /\ l.owner # p
    BY <1>2 DEF LockType, Withdrawn, Granted
  <2>2. PICK h \in 1 .. Len(s) : s[h] = p
    BY <2>1 DEF InLine
  <2>3. Len(s) \in Nat /\ DOMAIN s = 1 .. Len(s)
    BY <2>1, LenProperties
  <2>4. PICK k \in 1 .. Len(s) :
           /\ s[k] = p
           /\ Len(m.waiters) = Len(s) - 1
           /\ \A i \in 1 .. Len(s) - 1 : m.waiters[i] = IF i < k THEN s[i] ELSE s[i + 1]
    <3> HIDE DEF s, m
    <3>1. \E k \in 1 .. Len(s) :
             /\ s[k] = p
             /\ Len(Without(s, p)) = Len(s) - 1
             /\ \A i \in 1 .. Len(s) - 1 :
                   Without(s, p)[i] = IF i < k THEN s[i] ELSE s[i + 1]
      BY <2>1, <2>2, WithoutShifts
    <3> QED
      BY <2>1, <3>1
  <2> DEFINE n == Len(s)
             f(i) == IF i < k THEN i ELSE i + 1
             g(i) == IF i < k THEN i ELSE i - 1
  <2>5. /\ \A i, j \in 1 .. n : s[i] = s[j] => i = j
        /\ \A i \in 1 .. n : s[i] # l.owner
        /\ l.owner # Nobody
    <3>1. n # 0
      BY <2>2, <2>3
    <3> QED
      BY <2>1, <3>1, EmptySeq DEF Line
  <2> HIDE DEF s, m, n
  <2>6. n \in Nat /\ k \in 1 .. n
    BY <2>3, <2>4 DEF n
  <2>7. \A i \in 1 .. n - 1 : f(i) \in 1 .. n /\ f(i) # k /\ m.waiters[i] = s[f(i)]
    BY <2>4, <2>6 DEF n
  <2>8. \A i \in 1 .. n : s[i] # p => g(i) \in 1 .. n - 1 /\ f(g(i)) = i
    BY <2>4, <2>6
  <2>9. /\ \A i, j \in 1 .. n - 1 : f(i) = f(j) => i = j
        /\ \A i, j \in 1 .. n : i < j /\ i # k /\ j # k => g(i) < g(j)
    BY <2>6
  <2>10. \A i \in 1 .. n - 1 : g(f(i)) = i
    BY <2>6
  <2>11. \A i \in 1 .. n : s[i] = p <=> i = k
    BY <2>4, <2>5, <2>6
  <2>12. Len(m.waiters) = n - 1
    BY <2>4 DEF n
  <2> HIDE DEF f, g
  <2>13. Line(m)
    <3>1. \A i \in 1 .. n - 1 : m.waiters[i] # m.owner
      BY <2>1, <2>5, <2>7
    <3>2. \A i, j \in 1 .. n - 1 : m.waiters[i] = m.waiters[j] => i = j
      BY <2>5, <2>7, <2>9
    <3> QED
      BY <2>1, <2>5, <2>12, <3>1, <3>2 DEF Line
  <2>14. ASSUME NEW a \in Procs PROVE InLine(m, a) <=> InLine(l, a) /\ a # p
    <3>1. InLine(m, a) <=> l.owner = a \/ \E i \in 1 .. n - 1 : s[f(i)] = a
      BY <2>1, <2>7, <2>12 DEF InLine
    <3>2. InLine(l, a) <=> l.owner = a \/ \E i \in 1 .. n : s[i] = a
      BY DEF InLine, n, s
    <3>3. (\E i \in 1 .. n - 1 : s[f(i)] = a) <=> a # p /\ \E i \in 1 .. n : s[i] = a
      BY <2>7, <2>8, <2>11
    <3> QED
      BY <2>1, <3>1, <3>2, <3>3
  <2>15. ASSUME NEW a \in Procs, NEW b \in Procs, a # p, b # p, Ahead(l, a, b) PROVE Ahead(m, a, b)
    <3>1. l.owner # b
      BY <2>15 DEF Ahead
    <3>2. CASE l.owner = a
      BY <2>1, <3>1, <3>2 DEF Ahead
    <3>3. CASE l.owner # a
      <4> SUFFICES ASSUME NEW j \in 1 .. n - 1, m.waiters[j] = b
                   PROVE  \E i \in 1 .. n - 1 : i < j /\ m.waiters[i] = a
        BY <2>1, <2>12, <3>1 DEF Ahead
      <4>1. f(j) \in 1 .. n /\ s[f(j)] = b /\ f(j) # k
        BY <2>7
      <4>2. PICK i \in 1 .. n : i < f(j) /\ s[i] = a
        BY <2>15, <3>3, <4>1 DEF Ahead, n, s
      <4>3. i # k
        BY <2>4, <2>15, <4>2
      <4>4. g(i) < g(f(j)) /\ g(f(j)) = j
        BY <2>9, <2>10, <4>1, <4>2, <4>3
      <4>5. g(i) \in 1 .. n - 1 /\ m.waiters[g(i)] = a
        BY <2>7, <2>8, <2>15, <4>2
      <4> QED
        BY <4>4, <4>5
    <3> QED
      BY <3>2, <3>3
  <2> QED
    BY <2>13, <2>14, <2>15 DEF m
<1> QED
  BY <1>1, <1>2

\* A lock that is free has nobody in line, and a process that takes it is alone.
LEMMA TakesLock ==
    ASSUME NEW l \in LockType, Line(l), NEW p \in Procs, Free(l)
    PROVE  /\ Line(Held(l, p))
           /\ \A a \in Procs : ~InLine(l, a)
           /\ \A a \in Procs : InLine(Held(l, p), a) <=> a = p
<1>1. l.owner = Nobody /\ l.waiters = <<>> /\ Len(<<>>) = 0
  BY DEF Line, Free
<1>2. Held(l, p).owner = p /\ Held(l, p).waiters = <<>>
  BY <1>1 DEF LockType, Held
<1> QED
  BY <1>1, <1>2, Different DEF Line, InLine

-----------------------------------------------------------------------------
(* _queue_lock, and who stands in front of it.                             *)

\* A task that is being cancelled comes before its canceller: where add_task()
\* still waits for _queue_lock, it waits in front of remove_task().
InTurn ==
    \A c \in Cancellers :
        pc[c] = "queue" /\ pc[Target[c]] = "queue" => Ahead(queueLock, Target[c], c)

QueueLine ==
    /\ Line(queueLock)
    /\ \A p \in Procs : InLine(queueLock, p) <=> pc[p] \in {"queue", "put"}
    /\ InTurn

\* Who waits for _queue_lock to cancel a task has tasks_lock, under which the
\* task stays PENDING; a task that was once RUNNING is never PENDING again.
StatusLine ==
    /\ \A c \in Cancellers : pc[c] = "queue" => tasksLock.owner = c /\ status[Target[c]] = "PENDING"
    /\ \A c \in Cancellers : pc[c] = "again" => status[Target[c]] \notin {"absent", "PENDING"}
    /\ \A t \in Tasks : pc[t] \in {"start", "tasks"} => status[t] = "absent"
    /\ \A t \in Tasks : pc[t] \in {"queue", "put"} => status[t] = "PENDING"

\* What a step of p may do with _queue_lock.
Passes(p, k) ==
    /\ pc[p] \notin {"queue", "put"} /\ k \notin {"queue", "put"}
    /\ queueLock' = queueLock
Joins(p, k) ==
    /\ pc[p] \notin {"queue", "put"} /\ k = "queue"
    /\ ~Free(queueLock) /\ queueLock' = Queued(queueLock, p)
    /\ \A c \in Cancellers : Target[c] = p => pc[c] # "queue"
Holds(p, k) ==
    /\ k = "put"
    /\ Free(queueLock) \/ (Granted(queueLock, p) /\ pc[p] = "queue")
    /\ queueLock' = Held(queueLock, p)
Leaves(p, k) ==
    /\ pc[p] \in {"queue", "put"} /\ k \notin {"queue", "put"}
    /\ \/ Granted(queueLock, p) /\ queueLock' = Released(queueLock)
       \/ queueLock' = Withdrawn(queueLock, p)

LEMMA LineMoves ==
    ASSUME Types, QueueLine, NEW p \in Procs, NEW k, Goto(p, k),
           Passes(p, k) \/ Joins(p, k) \/ Holds(p, k) \/ Leaves(p, k)
    PROVE  QueueLine'
<1>t. /\ queueLock \in LockType
      /\ \A c \in Cancellers : c \in Procs /\ Target[c] \in Procs /\ c # Target[c]
  BY Different DEF Types
<1>m. /\ pc'[p] = k
      /\ \A q \in Procs : q # p => pc'[q] = pc[q]
  BY OneMoves
<1>q. /\ Line(queueLock)
      /\ \A q \in Procs : InLine(queueLock, q) <=> pc[q] \in {"queue", "put"}
      /\ \A c \in Cancellers :
            pc[c] = "queue" /\ pc[Target[c]] = "queue" => Ahead(queueLock, Target[c], c)
  BY DEF QueueLine, InTurn
<1>s. SUFFICES /\ Line(queueLock')
               /\ \A q \in Procs : InLine(queueLock', q) <=> pc'[q] \in {"queue", "put"}
               /\ \A c \in Cancellers :
                     pc'[c] = "queue" /\ pc'[Target[c]] = "queue" => Ahead(queueLock', Target[c], c)
  BY DEF QueueLine, InTurn
<1>1. CASE Passes(p, k)
  BY <1>t, <1>m, <1>q, <1>1 DEF Passes
<1>2. CASE Joins(p, k)
  <2>1. /\ queueLock.owner # Nobody /\ ~InLine(queueLock, p)
        /\ queueLock' = Queued(queueLock, p)
    BY <1>q, <1>2 DEF Joins, Free
  <2>2. /\ Line(queueLock')
        /\ \A a \in Procs : InLine(queueLock', a) <=> InLine(queueLock, a) \/ a = p
        /\ \A a \in Procs : InLine(queueLock, a) => Ahead(queueLock', a, p)
        /\ \A a, b \in Procs : b # p /\ Ahead(queueLock, a, b) => Ahead(queueLock', a, b)
    BY <1>t, <1>q, <2>1, JoinsLine
  <2>3. \A q \in Procs : InLine(queueLock', q) <=> pc'[q] \in {"queue", "put"}
    BY <1>m, <1>q, <1>2, <2>2 DEF Joins
  <2>4. ASSUME NEW c \in Cancellers, pc'[c] = "queue", pc'[Target[c]] = "queue"
        PROVE  Ahead(queueLock', Target[c], c)
    <3>1. CASE c = p
      <4>1. InLine(queueLock, Target[c])
        BY <1>t, <1>m, <1>q, <2>4, <3>1
      <4> QED
        BY <1>t, <2>2, <3>1, <4>1
    <3>2. CASE c # p
      <4>1. pc[c] = "queue" /\ Target[c] # p
        BY <1>t, <1>m, <1>2, <2>4, <3>2 DEF Joins
      <4>2. Ahead(queueLock, Target[c], c)
        BY <1>t, <1>m, <1>q, <2>4, <4>1
      <4> QED
        BY <1>t, <2>2, <3>2, <4>2
    <3> QED
      BY <3>1, <3>2
  <2> QED
    BY <2>2, <2>3, <2>4
<1>3. CASE Holds(p, k)
  <2>1. CASE Free(queueLock)
    <3>1. /\ Line(queueLock')
          /\ \A a \in Procs : ~InLine(queueLock, a)
          /\ \A a \in Procs : InLine(queueLock', a) <=> a = p
      BY <1>t, <1>q, <1>3, <2>1, TakesLock DEF Holds
    <3> QED
      BY <1>t, <1>m, <1>q, <1>3, <3>1 DEF Holds
  <2>2. CASE Granted(queueLock, p) /\ pc[p] = "queue"
    <3>1. queueLock' = queueLock
      BY <1>t, <1>3, <2>2 DEF Holds, Held, Granted, LockType
    <3> QED
      BY <1>t, <1>m, <1>q, <1>3, <2>2, <3>1 DEF Holds
  <2> QED
    BY <1>3, <2>1, <2>2 DEF Holds
<1>4. CASE Leaves(p, k)
  <2>1. queueLock' = Withdrawn(queueLock, p) /\ InLine(queueLock, p)
    BY <1>q, <1>4 DEF Leaves, Withdrawn
  <2>2. /\ Line(queueLock')
        /\ \A a \in Procs : InLine(queueLock', a) <=> InLine(queueLock, a) /\ a # p
        /\ \A a, b \in Procs : a # p /\ b # p /\ Ahead(queueLock, a, b) => Ahead(queueLock', a, b)
    BY <1>t, <1>q, <2>1, LeavesLine
  <2>3. k \notin {"queue", "put"}
    BY <1>4 DEF Leaves
  <2> QED
    BY <1>t, <1>m, <1>q, <2>2, <2>3
<1> QED
  BY <1>1, <1>2, <1>3, <1>4

\* Everybody's steps are such steps.
LEMMA LineSteps ==
    ASSUME Types, EntryInv, QueueLine, StatusLine, [Next]_vars
    PROVE  QueueLine'
<1>t. /\ Tasks \subseteq Procs /\ Workers \subseteq Procs /\ Cancellers \subseteq Procs
      /\ queueLock \in LockType
  BY Different DEF Types
<1>1. CASE UNCHANGED vars
  BY <1>1 DEF vars, QueueLine, InTurn
<1>2. ASSUME NEW t \in Tasks, Adding(t) PROVE QueueLine'
  <2>r. pc[t] = "put" => Granted(queueLock, t)
    BY DEF EntryInv, RoomIsLocked, Granted
  <2>1. CASE AddWait(t)
    <3>1. Goto(t, "tasks") /\ Passes(t, "tasks")
      BY <2>1 DEF AddWait, MustWait, Passes
    <3> QED
      BY <1>t, <3>1, LineMoves
  <2>2. ASSUME PutOrWait(t),
               \/ pc[t] \in {"start", "tasks"} /\ Free(queueLock)
               \/ pc[t] = "queue" /\ Granted(queueLock, t)
        PROVE  QueueLine'
    <3>1. CASE Full
      <4>1. Goto(t, "put") /\ Holds(t, "put")
        BY <2>2, <3>1 DEF PutOrWait, Holds
      <4> QED
        BY <1>t, <4>1, LineMoves
    <3>2. CASE ~Full
      <4>1. Goto(t, "done") /\ queueLock' = Used(queueLock, t)
        BY <2>2, <3>2 DEF PutOrWait
      <4>2. Passes(t, "done") \/ Leaves(t, "done")
        <5>1. CASE Granted(queueLock, t)
          <6>1. pc[t] = "queue"
            BY <1>t, <2>2, <5>1, Different DEF Free, Granted
          <6> QED
            BY <4>1, <5>1, <6>1 DEF Leaves, Used
        <5>2. CASE ~Granted(queueLock, t)
          BY <2>2, <4>1, <5>2 DEF Passes, Used
        <5> QED
          BY <5>1, <5>2
      <4> QED
        BY <1>t, <4>1, <4>2, LineMoves
    <3> QED
      BY <3>1, <3>2
  <2>3. CASE AddRecord(t)
    <3>1. pc[t] \in {"start", "tasks"}
      BY <2>3 DEF AddRecord, Enters
    <3>2. CASE Free(queueLock) /\ PutOrWait(t)
      BY <2>2, <3>1, <3>2
    <3>3. CASE ~Free(queueLock) /\ queueLock' = Queued(queueLock, t) /\ Goto(t, "queue")
      <4>1. \A c \in Cancellers : Target[c] = t => pc[c] # "queue"
        BY <3>1 DEF StatusLine
      <4>2. Joins(t, "queue")
        BY <3>1, <3>3, <4>1 DEF Joins
      <4> QED
        BY <1>t, <3>3, <4>2, LineMoves
    <3> QED
      BY <2>3, <3>2, <3>3 DEF AddRecord
  <2>4. CASE AddEnqueue(t)
    BY <2>2, <2>4 DEF AddEnqueue
  <2>5. CASE AddFinish(t)
    <3>1. Goto(t, "done") /\ Leaves(t, "done")
      BY <2>r, <2>5 DEF AddFinish, Leaves
    <3> QED
      BY <1>t, <3>1, LineMoves
  <2> QED
    BY <1>2, <2>1, <2>3, <2>4, <2>5 DEF Adding
<1>3. ASSUME NEW c \in Cancellers, Cancelling(c) PROVE QueueLine'
  <2>1. CASE CancelRemove(c)
    <3>1. Goto(c, "done") /\ Leaves(c, "done")
      BY <2>1 DEF CancelRemove, Leaves
    <3> QED
      BY <1>t, <3>1, LineMoves
  <2>2. CASE CancelPending(c) /\ ~Free(queueLock)
    <3>1. /\ Goto(c, "queue") /\ queueLock' = Queued(queueLock, c)
          /\ pc[c] \in {"start", "tasks"}
      BY <2>2 DEF CancelPending, Enters
    <3>2. Joins(c, "queue")
      BY <2>2, <3>1, Different DEF Joins
    <3> QED
      BY <1>t, <3>1, <3>2, LineMoves
  <2>3. ASSUME queueLock' = queueLock, pc[c] \in {"start", "tasks", "again"},
               NEW k \in {"tasks", "again", "done"}, Goto(c, k)
        PROVE  QueueLine'
    <3>1. Passes(c, k)
      BY <2>3 DEF Passes
    <3> QED
      BY <1>t, <2>3, <3>1, LineMoves
  <2>4. CASE CancelPending(c) /\ Free(queueLock)
    BY <2>3, <2>4 DEF CancelPending, Enters
  <2>5. CASE CancelWait(c) \/ CancelRefused(c) \/ CancelRunning(c) \/ CancelMark(c)
    BY <2>3, <2>5 DEF CancelWait, CancelRefused, CancelRunning, CancelMark, Enters, MustWait
  <2> QED
    BY <1>3, <2>1, <2>2, <2>4, <2>5 DEF Cancelling
<1>4. ASSUME NEW w \in Workers, Working(w) PROVE QueueLine'
  <2>1. ASSUME queueLock' = queueLock, pc[w] \in {"get", "tasks", "run", "end"},
               NEW k \in {"get", "tasks", "run", "end", "done"}, Goto(w, k)
        PROVE  QueueLine'
    <3>1. Passes(w, k)
      BY <2>1 DEF Passes
    <3> QED
      BY <1>t, <2>1, <3>1, LineMoves
  <2>2. CASE WorkerGet(w)
    <3>1. PICK t \in queue.heap :
             \/ Checked(w, t, Pop(queue, t)) /\ queueLock' = queueLock
             \/ ~Free(queueLock) /\ queueLock' = Queued(queueLock, w) /\ Goto(w, "queue")
      BY <2>2 DEF WorkerGet
    <3>2. pc[w] = "get"
      BY <2>2 DEF WorkerGet
    <3>3. CASE Checked(w, t, Pop(queue, t)) /\ queueLock' = queueLock
      <4>1. Goto(w, "get") \/ Goto(w, "run") \/ Goto(w, "tasks")
        BY <3>3 DEF Checked
      <4> QED
        BY <2>1, <3>2, <3>3, <4>1
    <3>4. CASE ~Free(queueLock) /\ queueLock' = Queued(queueLock, w) /\ Goto(w, "queue")
      <4>1. Joins(w, "queue")
        BY <3>2, <3>4, Different DEF Joins
      <4> QED
        BY <1>t, <3>4, <4>1, LineMoves
    <3> QED
      BY <3>1, <3>3, <3>4
  <2>3. CASE WorkerCheck(w)
    <3>1. \E k \in {"get", "run", "tasks"} : Goto(w, k)
      BY <2>3 DEF WorkerCheck, Checked
    <3>2. PICK k \in {"get", "run", "tasks"} : Goto(w, k)
      BY <3>1
    <3>3. Leaves(w, k)
      BY <2>3 DEF WorkerCheck, Leaves
    <3> QED
      BY <1>t, <3>2, <3>3, LineMoves
  <2>4. CASE WorkerPollTimeout(w)
    <3>1. Goto(w, "get") /\ Leaves(w, "get")
      BY <2>4 DEF WorkerPollTimeout, Leaves
    <3> QED
      BY <1>t, <3>1, LineMoves
  <2>5. CASE WorkerStart(w) \/ ExecutionRaises(w) \/ WorkerEndWait(w)
    BY <2>1, <2>5 DEF WorkerStart, ExecutionRaises, WorkerEndWait, MustWait
  <2>6. ASSUME NEW s, NEW k \in {"get", "done"}, Reports(w, s, k) PROVE QueueLine'
    BY <2>1, <2>6 DEF Reports, Enters
  <2> QED
    BY <1>4, <2>2, <2>3, <2>4, <2>5, <2>6 DEF Working, WorkerCompleted, WorkerFailed, WorkerCancelled
<1> QED
  BY <1>1, <1>2, <1>3, <1>4 DEF Next

-----------------------------------------------------------------------------
(* tasks_lock guards the status of the tasks.                              *)

LEMMA TasksLockGuards ==
    ASSUME Types, NEW o \in Cancellers, tasksLock.owner = o
    PROVE  /\ \A t \in Tasks : Adding(t) => tasksLock'.owner = o /\ status' = status
           /\ \A c \in Cancellers : c # o /\ Cancelling(c) /\ pc[c] # "queue"
                                        => tasksLock'.owner = o /\ status' = status
           /\ \A w \in Workers : Working(w) => tasksLock'.owner = o /\ status' = status
<1>t. /\ tasksLock \in LockType /\ ~Free(tasksLock)
      /\ \A p \in Procs : p # o => ~Granted(tasksLock, p)
  BY Different DEF Types, Free, Granted
<1>1. \A p \in Procs : p # o =>
         /\ Queued(tasksLock, p).owner = o
         /\ Used(tasksLock, p) = tasksLock
         /\ Withdrawn(tasksLock, p).owner = o
  BY <1>t, LockOwners
<1>2. ASSUME NEW t \in Tasks, Adding(t) PROVE tasksLock'.owner = o /\ status' = status
  <2>1. t \in Procs /\ t # o
    BY Different
  <2> QED
    BY <1>t, <1>1, <1>2, <2>1 DEF Adding, AddWait, AddRecord, AddEnqueue, AddFinish, Enters
<1>3. ASSUME NEW c \in Cancellers, c # o, Cancelling(c)
      PROVE  pc[c] = "queue" \/ (tasksLock'.owner = o /\ status' = status)
  <2>1. c \in Procs
    BY Different
  <2> QED
    BY <1>t, <1>1, <1>3, <2>1 DEF Cancelling, CancelWait, CancelRefused, CancelPending, CancelRemove,
       CancelRunning, CancelMark, Enters
<1>4. ASSUME NEW w \in Workers, Working(w) PROVE tasksLock'.owner = o /\ status' = status
  <2>1. w \in Procs /\ w # o
    BY Different
  <2>2. CASE WorkerGet(w) \/ WorkerCheck(w)
    BY <1>t, <1>1, <2>1, <2>2 DEF WorkerGet, WorkerCheck, Checked
  <2>3. ASSUME NEW s, NEW k, Reports(w, s, k) PROVE FALSE
    BY <1>t, <2>1, <2>3 DEF Reports, Enters
  <2> QED
    BY <1>t, <1>1, <1>4, <2>1, <2>2, <2>3 DEF Working, WorkerPollTimeout, WorkerStart, ExecutionRaises,
       WorkerEndWait, WorkerCompleted, WorkerFailed, WorkerCancelled
<1> QED
  BY <1>2, <1>3, <1>4

LEMMA StatusSteps ==
    ASSUME Types, EntryInv, QueueLine, StatusLine, [Next]_vars
    PROVE  StatusLine'
<1>t. /\ pc \in [Procs -> ProcState]
      /\ status \in [Tasks -> {"absent", "PENDING", "RUNNING", "CANCELLED", "COMPLETED", "FAILED"}]
      /\ Tasks \subseteq Procs /\ Workers \subseteq Procs /\ Cancellers \subseteq Procs
      /\ tasksLock \in LockType
  BY Different DEF Types
<1>s. /\ \A c \in Cancellers : pc[c] = "queue" => tasksLock.owner = c /\ status[Target[c]] = "PENDING"
      /\ \A c \in Cancellers : pc[c] = "again" => status[Target[c]] \notin {"absent", "PENDING"}
      /\ \A t \in Tasks : pc[t] \in {"start", "tasks"} => status[t] = "absent"
      /\ \A t \in Tasks : pc[t] \in {"queue", "put"} => status[t] = "PENDING"
  BY DEF StatusLine
<1>1. CASE UNCHANGED vars
  BY <1>1 DEF vars, StatusLine
<1>2. ASSUME NEW t \in Tasks, Adding(t) PROVE StatusLine'
  <2>1. /\ \A u \in Tasks : u # t => status'[u] = status[u] /\ pc'[u] = pc[u]
        /\ \A c \in Cancellers : pc'[c] = pc[c]
    BY <1>t, <1>2, Different
    DEF Adding, AddWait, AddRecord, AddEnqueue, AddFinish, PutOrWait, Goto
  <2>2. \/ pc[t] = "start" /\ pc'[t] = "tasks" /\ status'[t] = status[t]
        \/ pc[t] \in {"start", "tasks"} /\ pc'[t] \notin {"start", "tasks"} /\ status'[t] = "PENDING"
        \/ pc[t] \in {"queue", "put"} /\ pc'[t] \notin {"start", "tasks"} /\ status'[t] = status[t]
    <3>1. CASE AddRecord(t)
      BY <1>t, <3>1 DEF AddRecord, Enters, PutOrWait, Goto
    <3> QED
      BY <1>t, <1>2, <3>1 DEF Adding, AddWait, AddEnqueue, AddFinish, MustWait, PutOrWait, Goto
  <2>3. \A c \in Cancellers : pc[c] = "queue" => tasksLock'.owner = c /\ status' = status
    BY <1>s, <1>2, TasksLockGuards
  <2>4. \A c \in Cancellers : pc[c] = "again" => status'[Target[c]] \notin {"absent", "PENDING"}
    BY <1>s, <2>1, <2>2, Different
  <2>5. \A u \in Tasks : /\ pc'[u] \in {"start", "tasks"} => status'[u] = "absent"
                         /\ pc'[u] \in {"queue", "put"} => status'[u] = "PENDING"
    BY <1>s, <2>1, <2>2
  <2> QED
    BY <1>s, <2>1, <2>3, <2>4, <2>5 DEF StatusLine
<1>3. ASSUME NEW c \in Cancellers, Cancelling(c) PROVE StatusLine'
  <2> DEFINE t == Target[c]
  <2>1. t \in Tasks
    BY Different
  <2>2. \A p \in Procs : p # c => pc'[p] = pc[p]
    BY <1>t, <1>3
    DEF Cancelling, CancelWait, CancelRefused, CancelPending, CancelRemove, CancelRunning, CancelMark, Goto
  \* Whoever is cancelled has been recorded, and has its entry in the queue.
  <2>3. \/ status' = status
        \/ /\ status' = [status EXCEPT ![t] = "CANCELLED"]
           /\ pc[t] \notin {"start", "tasks", "queue", "put"}
    <3>q. pc[t] \in {"queue", "put"} => InLine(queueLock, t)
      BY <1>t, <2>1 DEF QueueLine
    <3>1. CASE CancelPending(c)
      <4>1. status[t] = "PENDING" /\ (status' = status \/ Free(queueLock))
        BY <3>1 DEF CancelPending
      <4>2. CASE Free(queueLock)
        <5>1. ~InLine(queueLock, t)
          BY <1>t, <2>1, <4>2, TakesLock DEF QueueLine, Types
        <5> QED
          BY <1>s, <2>1, <3>1, <3>q, <4>1, <4>2, <5>1 DEF CancelPending
      <4> QED
        BY <4>1, <4>2
    <3>2. CASE CancelRemove(c)
      <4>1. pc[c] = "queue" /\ queueLock.owner = c /\ status' = [status EXCEPT ![t] = "CANCELLED"]
        BY <3>2 DEF CancelRemove, Granted
      <4>2. status[t] = "PENDING"
        BY <1>s, <4>1
      <4>3. pc[t] # "queue"
        BY <4>1 DEF QueueLine, InTurn, Ahead
      <4>4. pc[t] # "put"
        BY <2>1, <4>1, Different DEF EntryInv, RoomIsLocked
      <4> QED
        BY <1>s, <2>1, <4>1, <4>2, <4>3, <4>4
    <3>3. CASE CancelRunning(c)
      <4>1. status[t] = "RUNNING"
        BY <3>3 DEF CancelRunning
      <4> QED
        BY <1>s, <2>1, <3>3, <4>1 DEF CancelRunning
    <3>4. CASE CancelMark(c)
      <4>1. status[t] \notin {"absent", "PENDING"}
        BY <1>s, <3>4 DEF CancelMark
      <4>2. status' = [status EXCEPT ![t] = IF @ \in {"PENDING", "RUNNING"} THEN "CANCELLED" ELSE @]
        BY <3>4 DEF CancelMark
      <4>3. status' = [status EXCEPT ![t] = "CANCELLED"] \/ status' = status
        BY <1>t, <2>1, <4>2
      <4> QED
        BY <1>s, <2>1, <4>1, <4>3
    <3> QED
      BY <1>3, <3>1, <3>2, <3>3, <3>4 DEF Cancelling, CancelWait, CancelRefused
  <2>4. /\ pc'[c] = "queue" => tasksLock'.owner = c /\ status' = status /\ status[t] = "PENDING"
        /\ pc'[c] = "again" => status[t] = "RUNNING" /\ status' = status
    <3>1. tasksLock' = Held(tasksLock, c) => tasksLock'.owner = c
      BY <1>t, LockOwners
    <3> QED
      BY <1>t, <1>3, <3>1
      DEF Cancelling, CancelWait, CancelRefused, CancelPending, CancelRemove, CancelRunning, CancelMark, Goto
  <2>5. \A d \in Cancellers : d # c /\ pc[d] = "queue" =>
            \/ tasksLock'.owner = d /\ status' = status
            \/ pc[c] = "queue"
    BY <1>s, <1>3, TasksLockGuards
  <2>6. \A d \in Cancellers : d # c /\ pc[d] = "queue" => pc[c] # "queue"
    BY <1>s
  <2> HIDE DEF t
  <2>7. \A d \in Cancellers : pc'[d] = "queue" => tasksLock'.owner = d /\ status'[Target[d]] = "PENDING"
    BY <1>t, <1>s, <2>2, <2>4, <2>5, <2>6 DEF t
  <2>8. \A d \in Cancellers : pc'[d] = "again" => status'[Target[d]] \notin {"absent", "PENDING"}
    <3> TAKE d \in Cancellers
    <3>1. CASE d = c
      BY <2>4, <3>1 DEF t
    <3>2. CASE d # c
      BY <1>t, <1>s, <2>1, <2>2, <2>3, <3>2, Different
    <3> QED
      BY <3>1, <3>2
  <2>9. \A u \in Tasks : /\ pc'[u] \in {"start", "tasks"} => status'[u] = "absent"
                         /\ pc'[u] \in {"queue", "put"} => status'[u] = "PENDING"
    BY <1>t, <1>s, <2>1, <2>2, <2>3, Different
  <2> QED
    BY <2>7, <2>8, <2>9 DEF StatusLine
<1>4. ASSUME NEW w \in Workers, Working(w) PROVE StatusLine'
  <2>1. /\ \A u \in Tasks : pc'[u] = pc[u]
        /\ \A u \in Tasks : status'[u] \in {"absent", "PENDING"} => status'[u] = status[u]
        /\ \A u \in Tasks : status'[u] # status[u] => u \in queue.heap \/ item[w] = u
        /\ \A c \in Cancellers : pc'[c] = pc[c]
    BY <1>t, <1>4, WorkerFrame, Different
  <2>2. \A c \in Cancellers : pc[c] = "queue" => tasksLock'.owner = c /\ status' = status
    BY <1>s, <1>4, TasksLockGuards
  <2>3. \A u \in Tasks : pc[u] \in {"start", "tasks", "queue", "put"} => status'[u] = status[u]
    BY <2>1 DEF EntryInv, NotYetQueued
  <2> QED
    BY <1>s, <2>1, <2>2, <2>3, Different DEF StatusLine
<1> QED
  BY <1>1, <1>2, <1>3, <1>4 DEF Next

LEMMA LinesHold == Spec => [](QueueLine /\ StatusLine)
<1>1. Init => QueueLine /\ StatusLine
  <2> SUFFICES ASSUME Init PROVE QueueLine /\ StatusLine
    OBVIOUS
  <2>1. /\ queueLock.owner = Nobody /\ queueLock.waiters = <<>> /\ Len(<<>>) = 0
        /\ \A p \in Procs : pc[p] \in {"start", "get"}
        /\ \A t \in Tasks : status[t] = "absent"
    BY DEF Init
  <2>2. Line(queueLock) /\ \A p \in Procs : ~InLine(queueLock, p)
    BY <2>1, Different DEF Line, InLine
  <2> QED
    BY <2>1, <2>2, Different DEF QueueLine, InTurn, StatusLine
<1>2. Types /\ EntryInv /\ (QueueLine /\ StatusLine) /\ [Next]_vars => (QueueLine /\ StatusLine)'
  BY LineSteps, StatusSteps
<1> QED
  BY <1>1, <1>2, TypesHold, EntryHolds, PTL DEF Spec

-----------------------------------------------------------------------------
(* Who may still change the status of a cancelled task.                    *)

\* The entry of t has yet to be looked at by a worker.
ToCome(t) == t \in queue.heap \/ \E w \in Workers : item[w] = t /\ pc[w] = "queue"

\* An entry is at one place; until a worker has looked at it, its tracking
\* tells what became of the task.
PlaceInv ==
    \A t \in Tasks :
        /\ \A v, w \in Workers : item[v] = t /\ item[w] = t => v = w
        /\ t \in queue.heap => \A w \in Workers : item[w] # t
        /\ pc[t] = "put" => t \in queue.queued
        /\ ToCome(t) =>
              /\ status[t] # "RUNNING"
              /\ status[t] = "CANCELLED" => t \in queue.cancelled
              /\ status[t] = "PENDING" => t \in queue.queued

\* What may be written over CANCELLED, for the entry t of w.
Overwrites(w, t) ==
    /\ item[w] = t
    /\ \/ pc[w] = "tasks" /\ status'[t] = "RUNNING"
       \/ pc[w] \in {"run", "end"} /\ status'[t] = "FAILED"

\* The step of a worker concerns one entry, which it has or takes off the heap.
Handles(w, t) ==
    /\ t \in queue.heap \/ item[w] = t
    /\ \A v \in Workers : v # w => item'[v] = item[v]
    /\ item'[w] \in {t, Nobody}
    /\ queue'.heap = queue.heap \ {t}
    /\ \A u \in Tasks : u # t \/ (item'[w] = t /\ pc'[w] = "queue") =>
          /\ status'[u] = status[u]
          /\ u \in queue'.queued <=> u \in queue.queued
          /\ u \in queue'.cancelled <=> u \in queue.cancelled
    /\ status[t] = "CANCELLED" => status'[t] = "CANCELLED" \/ Overwrites(w, t)

LEMMA WorkerHandles ==
    ASSUME Types, EntryInv, PlaceInv, NEW w \in Workers, Working(w)
    PROVE  \E t \in Tasks : Handles(w, t)
<1>t. /\ status \in [Tasks -> {"absent", "PENDING", "RUNNING", "CANCELLED", "COMPLETED", "FAILED"}]
      /\ item \in [Workers -> Tasks \union {Nobody}]
      /\ pc \in [Procs -> ProcState]
      /\ queue \in QueueType
      /\ w \in Procs
  BY Different DEF Types
<1>h. /\ item[w] = Nobody <=> pc[w] \in {"get", "done"}
      /\ pc[w] \notin {"get", "done"} => item[w] \in Tasks /\ item[w] \notin queue.heap
  BY <1>t DEF EntryInv, HandsFull, PlaceInv
<1>c. ASSUME NEW t \in Tasks, NEW q \in QueueType, Checked(w, t, q), ToCome(t),
             t \in queue.heap \/ item[w] = t,
             q.heap = queue.heap \ {t}, q.queued = queue.queued, q.cancelled = queue.cancelled
      PROVE  Handles(w, t)
  <2>1. CASE t \in q.cancelled
    <3>1. /\ queue' = Dropped(q, t)
          /\ item' = [item EXCEPT ![w] = Nobody]
          /\ status' = status
      BY <1>c, <2>1 DEF Checked
    <3>2. queue'.heap = q.heap /\ queue'.queued = q.queued /\ queue'.cancelled = q.cancelled \ {t}
      BY <1>c, <3>1, GetParts
    <3>3. item'[w] = Nobody /\ \A v \in Workers : v # w => item'[v] = item[v]
      BY <1>t, <3>1
    <3> QED
      BY <1>c, <3>1, <3>2, <3>3, Different DEF Handles
  <2>2. CASE t \notin q.cancelled
    <3>1. /\ queue' = Untracked(q, t)
          /\ item' = [item EXCEPT ![w] = t]
          /\ \E l \in {"run", "tasks"} : Goto(w, l)
          /\ status' = status \/ status' = [status EXCEPT ![t] = "RUNNING"]
      BY <1>c, <2>2 DEF Checked
    <3>2. queue'.heap = q.heap /\ queue'.queued = q.queued \ {t} /\ queue'.cancelled = q.cancelled
      BY <1>c, <3>1, GetParts
    <3>3. item'[w] = t /\ \A v \in Workers : v # w => item'[v] = item[v]
      BY <1>t, <3>1
    <3>4. pc'[w] # "queue"
      BY <1>t, <3>1 DEF Goto
    <3>5. status[t] # "CANCELLED"
      BY <1>c, <2>2 DEF PlaceInv
    <3>6. \A u \in Tasks : u # t => status'[u] = status[u]
      BY <1>t, <3>1
    <3> QED
      BY <1>c, <3>2, <3>3, <3>4, <3>5, <3>6 DEF Handles
  <2> QED
    BY <2>1, <2>2
<1>1. CASE WorkerGet(w)
  <2>1. PICK t \in queue.heap :
           \/ Checked(w, t, Pop(queue, t))
           \/ queue' = Pop(queue, t) /\ item' = [item EXCEPT ![w] = t] /\ status' = status
    BY <1>1 DEF WorkerGet
  <2>2. t \in Tasks /\ item[w] = Nobody /\ ToCome(t)
    BY <1>t, <1>h, <1>1 DEF QueueType, WorkerGet, ToCome
  <2>3. /\ Pop(queue, t) \in QueueType
        /\ Pop(queue, t).heap = queue.heap \ {t}
        /\ Pop(queue, t).queued = queue.queued
        /\ Pop(queue, t).cancelled = queue.cancelled
    BY <1>t, GetParts
  <2>4. CASE Checked(w, t, Pop(queue, t))
    BY <1>c, <2>2, <2>3, <2>4
  <2>5. CASE queue' = Pop(queue, t) /\ item' = [item EXCEPT ![w] = t] /\ status' = status
    BY <1>t, <2>2, <2>3, <2>5 DEF Handles
  <2> QED
    BY <2>1, <2>2, <2>4, <2>5
<1>2. CASE WorkerCheck(w)
  <2>1. item[w] \in Tasks /\ item[w] \notin queue.heap /\ pc[w] = "queue" /\ Checked(w, item[w], queue)
    BY <1>h, <1>2 DEF WorkerCheck
  <2>2. ToCome(item[w])
    BY <2>1 DEF ToCome
  <2>3. queue.heap = queue.heap \ {item[w]}
    BY <2>1
  <2> QED
    BY <1>c, <1>t, <2>1, <2>2, <2>3
\* The entry in hand: where w goes on with it, or lets it go.
<1>3. ASSUME item[w] \in Tasks, item[w] \notin queue.heap,
             item' = item \/ item' = [item EXCEPT ![w] = Nobody],
             queue' = queue \/ queue' = TaskDone(queue),
             item'[w] = Nobody \/ pc'[w] # "queue",
             \A u \in Tasks : u # item[w] => status'[u] = status[u],
             status[item[w]] = "CANCELLED" =>
                status'[item[w]] = "CANCELLED" \/ Overwrites(w, item[w])
      PROVE  \E t \in Tasks : Handles(w, t)
  <2>1. queue'.heap = queue.heap /\ queue'.queued = queue.queued /\ queue'.cancelled = queue.cancelled
    BY <1>t, <1>3, GetParts
  <2>2. item'[w] \in {item[w], Nobody} /\ \A v \in Workers : v # w => item'[v] = item[v]
    BY <1>t, <1>3
  <2>3. queue'.heap = queue.heap \ {item[w]}
    BY <1>3, <2>1
  <2>4. item'[w] = item[w] => pc'[w] # "queue"
    BY <1>3, Different
  <2> QED
    BY <1>3, <2>1, <2>2, <2>3, <2>4 DEF Handles
<1>4. CASE WorkerPollTimeout(w)
  <2>1. item'[w] = Nobody
    BY <1>t, <1>4 DEF WorkerPollTimeout
  <2> QED
    BY <1>h, <1>3, <1>4, <2>1 DEF WorkerPollTimeout
<1>5. CASE WorkerStart(w)
  <2>1. pc[w] = "tasks" /\ pc'[w] = "run" /\ item' = item /\ queue' = queue
    BY <1>t, <1>5 DEF WorkerStart, Goto
  <2>2. /\ status'[item[w]] = "RUNNING"
        /\ \A u \in Tasks : u # item[w] => status'[u] = status[u]
    BY <1>t, <1>h, <1>5, <2>1 DEF WorkerStart
  <2>3. Overwrites(w, item[w])
    BY <2>1, <2>2 DEF Overwrites
  <2> QED
    BY <1>h, <1>3, <2>1, <2>2, <2>3
<1>6. CASE ExecutionRaises(w) \/ WorkerEndWait(w)
  <2>1. /\ pc[w] \notin {"get", "done"} /\ pc'[w] # "queue"
        /\ item' = item /\ queue' = queue /\ status' = status
    BY <1>t, <1>6 DEF ExecutionRaises, WorkerEndWait, MustWait, Goto
  <2> QED
    BY <1>h, <1>3, <2>1
<1>7. ASSUME NEW s, NEW l, Reports(w, s, l),
             status[item[w]] = "CANCELLED" => s \in {"CANCELLED", "FAILED"}
      PROVE  \E t \in Tasks : Handles(w, t)
  <2>1. /\ pc[w] \in {"run", "end"}
        /\ queue' = TaskDone(queue)
        /\ item' = [item EXCEPT ![w] = Nobody]
        /\ status' = [status EXCEPT ![item[w]] = s]
    BY <1>7 DEF Reports, Enters
  <2>2. item[w] \in Tasks /\ item[w] \notin queue.heap
    BY <1>h, <2>1
  <2>3. item'[w] = Nobody
    BY <1>t, <2>1
  <2>4. status'[item[w]] = s /\ \A u \in Tasks : u # item[w] => status'[u] = status[u]
    BY <1>t, <2>1, <2>2
  <2>5. status[item[w]] = "CANCELLED" => status'[item[w]] = "CANCELLED" \/ Overwrites(w, item[w])
    BY <1>7, <2>1, <2>4 DEF Overwrites
  <2> QED
    BY <1>3, <2>1, <2>2, <2>3, <2>4, <2>5
<1>8. CASE WorkerCompleted(w)
  BY <1>7, <1>8 DEF WorkerCompleted
<1>9. CASE WorkerFailed(w) \/ WorkerCancelled(w)
  BY <1>7, <1>9 DEF WorkerFailed, WorkerCancelled
<1> QED
  BY <1>1, <1>2, <1>4, <1>5, <1>6, <1>8, <1>9 DEF Working

\* Nobody stays in front of _queue_lock in a step with the entry in hand.
LEMMA QueueStays ==
    ASSUME Types, EntryInv, NEW w \in Workers, Working(w), item[w] # Nobody, pc'[w] = "queue"
    PROVE  pc[w] = "queue"
<1>1. pc[w] # "get"
  BY DEF EntryInv, HandsFull
<1>2. pc \in [Procs -> ProcState] /\ w \in Procs
  BY Different DEF Types
<1> QED
  BY <1>1, <1>2 DEF Working, WorkerGet, WorkerCheck, Checked, WorkerPollTimeout, WorkerStart, ExecutionRaises,
     WorkerEndWait, WorkerCompleted, WorkerFailed, WorkerCancelled, Reports, Goto

LEMMA PlaceStep ==
    ASSUME Types, EntryInv, StatusLine, StatusLine', PlaceInv, [Next]_vars
    PROVE  PlaceInv'
<1>t. /\ status \in [Tasks -> {"absent", "PENDING", "RUNNING", "CANCELLED", "COMPLETED", "FAILED"}]
      /\ item \in [Workers -> Tasks \union {Nobody}]
      /\ pc \in [Procs -> ProcState]
      /\ queue \in QueueType
  BY DEF Types
<1>1. CASE UNCHANGED vars
  BY <1>1 DEF vars, PlaceInv, ToCome
<1>2. ASSUME NEW t \in Tasks, Adding(t) PROVE PlaceInv'
  <2>1. /\ item' = item
        /\ queue'.cancelled = queue.cancelled
        /\ \A u \in Tasks : u # t => status'[u] = status[u] /\ pc'[u] = pc[u]
        /\ \A w \in Workers : pc'[w] = pc[w]
        /\ queue'.heap \subseteq queue.heap \union {t}
    <3>1. \E l : Goto(t, l)
      BY <1>2 DEF Adding, AddWait, AddRecord, AddEnqueue, AddFinish, PutOrWait
    <3>2. \A w \in Workers : pc'[w] = pc[w]
      BY <3>1, OneMoves, Different
    <3> QED
      BY <1>2, <3>2, AdderOutcome
  <2>2. pc[t] \in {"start", "tasks", "queue", "put"} /\ \A w \in Workers : item[w] # t
    <3>1. pc[t] \in {"start", "tasks", "queue", "put"}
      BY <1>2 DEF Adding, AddWait, AddRecord, AddEnqueue, AddFinish, MustWait, Enters
    <3> QED
      BY <3>1 DEF EntryInv, NotYetQueued
  <2>3. \A u \in Tasks : u # t => (u \in queue'.queued <=> u \in queue.queued)
    <3>1. /\ Tracked(queue, t) \in QueueType
          /\ Tracked(queue, t).queued = queue.queued \union {t}
          /\ Inserted(queue, t).queued = queue.queued
      BY <1>t, PutParts
    <3>2. Inserted(Tracked(queue, t), t).queued = queue.queued \union {t}
      BY <3>1, PutParts
    <3>3. \/ queue' = queue \/ queue' = Tracked(queue, t)
          \/ queue' = Inserted(Tracked(queue, t), t) \/ queue' = Inserted(queue, t)
      BY <1>2 DEF Adding, AddWait, AddRecord, AddEnqueue, AddFinish, PutOrWait
    <3> QED
      BY <3>1, <3>2, <3>3
  \* The entry itself: once it is in the heap it is PENDING and tracked.
  <2>4. /\ t \in queue'.heap => status'[t] = "PENDING" /\ t \in queue'.queued
        /\ pc'[t] = "put" => t \in queue'.queued
    <3>1. /\ t \notin queue.heap
          /\ pc[t] = "put" => t \in queue.queued /\ status[t] = "PENDING"
          /\ pc[t] = "queue" => status[t] = "PENDING"
      BY <2>2 DEF EntryInv, NotYetQueued, PlaceInv, StatusLine
    <3>2. /\ Tracked(queue, t) \in QueueType
          /\ Tracked(queue, t).heap = queue.heap
          /\ Tracked(queue, t).queued = queue.queued \union {t}
          /\ Inserted(queue, t).queued = queue.queued
      BY <1>t, PutParts
    <3>3. Inserted(Tracked(queue, t), t).queued = queue.queued \union {t}
      BY <3>2, PutParts
    <3>4. CASE AddWait(t)
      BY <1>t, <3>1, <3>4, Different DEF AddWait, Goto
    <3>5. CASE AddRecord(t)
      <4>1. status'[t] = "PENDING"
        BY <1>t, <3>5 DEF AddRecord
      <4>2. CASE PutOrWait(t)
        BY <1>t, <3>1, <3>2, <3>3, <4>1, <4>2 DEF PutOrWait
      <4>3. CASE Goto(t, "queue") /\ queue' = queue
        BY <1>t, <3>1, <4>3, Different DEF Goto
      <4> QED
        BY <3>5, <4>2, <4>3 DEF AddRecord
    <3>6. CASE AddEnqueue(t)
      BY <1>t, <3>1, <3>2, <3>3, <3>6 DEF AddEnqueue, PutOrWait
    <3>7. CASE AddFinish(t)
      BY <1>t, <3>1, <3>2, <3>7 DEF AddFinish
    <3> QED
      BY <1>2, <3>4, <3>5, <3>6, <3>7 DEF Adding
  <2> SUFFICES ASSUME NEW u \in Tasks
               PROVE  /\ \A v, w \in Workers : item'[v] = u /\ item'[w] = u => v = w
                      /\ u \in queue'.heap => \A w \in Workers : item'[w] # u
                      /\ pc'[u] = "put" => u \in queue'.queued
                      /\ ToCome(u)' =>
                            /\ status'[u] # "RUNNING"
                            /\ status'[u] = "CANCELLED" => u \in queue'.cancelled
                            /\ status'[u] = "PENDING" => u \in queue'.queued
    BY DEF PlaceInv
  <2>5. CASE u = t
    BY <2>1, <2>2, <2>4, <2>5 DEF ToCome
  <2>6. CASE u # t
    BY <2>1, <2>3, <2>6 DEF PlaceInv, ToCome
  <2> QED
    BY <2>5, <2>6
<1>3. ASSUME NEW c \in Cancellers, Cancelling(c) PROVE PlaceInv'
  <2> DEFINE t == Target[c]
  <2>1. t \in Tasks
    BY Different
  <2>2. item' = item /\ \A p \in Procs : p # c => pc'[p] = pc[p]
    BY <1>t, <1>3
    DEF Cancelling, CancelWait, CancelRefused, CancelPending, CancelRemove, CancelRunning, CancelMark, Goto
  <2>3. /\ \A u \in Tasks : pc'[u] = pc[u]
        /\ \A w \in Workers : pc'[w] = pc[w]
    BY <2>2, Different
  \* The entry of a PENDING task is marked, unless no entry of it is to come.
  <2>4. \/ /\ queue' = queue
           /\ \A u \in Tasks : status'[u] = status[u] \/ status[u] = "RUNNING"
        \/ /\ queue' = RemoveTask(queue, t)
           /\ status' = [status EXCEPT ![t] = "CANCELLED"]
           /\ status[t] = "PENDING"
    <3>1. CASE CancelRemove(c)
      BY <3>1 DEF CancelRemove, StatusLine
    <3>2. CASE CancelPending(c)
      BY <1>t, <3>2 DEF CancelPending
    <3>3. CASE CancelRunning(c)
      BY <1>t, <2>1, <3>3 DEF CancelRunning
    <3>4. CASE CancelMark(c)
      <4>1. status[t] # "PENDING"
        BY <3>4 DEF CancelMark, StatusLine
      <4>2. /\ queue' = queue
            /\ status' = [status EXCEPT ![t] = IF @ \in {"PENDING", "RUNNING"} THEN "CANCELLED" ELSE @]
        BY <3>4 DEF CancelMark
      <4> QED
        BY <1>t, <2>1, <4>1, <4>2
    <3> QED
      BY <1>3, <3>1, <3>2, <3>3, <3>4 DEF Cancelling, CancelWait, CancelRefused
  <2> SUFFICES ASSUME NEW u \in Tasks
               PROVE  /\ \A v, w \in Workers : item'[v] = u /\ item'[w] = u => v = w
                      /\ u \in queue'.heap => \A w \in Workers : item'[w] # u
                      /\ pc'[u] = "put" => u \in queue'.queued
                      /\ ToCome(u)' =>
                            /\ status'[u] # "RUNNING"
                            /\ status'[u] = "CANCELLED" => u \in queue'.cancelled
                            /\ status'[u] = "PENDING" => u \in queue'.queued
    BY DEF PlaceInv
  <2>5. CASE queue' = queue /\ \A v \in Tasks : status'[v] = status[v] \/ status[v] = "RUNNING"
    BY <2>2, <2>3, <2>5 DEF PlaceInv, ToCome
  <2>6. CASE /\ queue' = RemoveTask(queue, t)
             /\ status' = [status EXCEPT ![t] = "CANCELLED"]
             /\ status[t] = "PENDING"
    <3>1. /\ queue'.heap = queue.heap
          /\ queue'.queued = queue.queued \ {t}
          /\ queue'.cancelled = IF t \in queue.queued THEN queue.cancelled \union {t} ELSE queue.cancelled
      BY <1>t, <2>1, <2>6, PutParts
    <3>2. status'[t] = "CANCELLED" /\ \A v \in Tasks : v # t => status'[v] = status[v]
      BY <1>t, <2>1, <2>6
    <3>3. pc'[t] # "put"
      BY <2>1, <3>2 DEF StatusLine
    <3> HIDE DEF t
    <3>4. ToCome(u)' <=> ToCome(u)
      BY <2>2, <2>3, <3>1 DEF ToCome
    <3>5. CASE u = t
      BY <2>2, <2>6, <3>1, <3>2, <3>3, <3>4, <3>5 DEF PlaceInv
    <3>6. CASE u # t
      BY <2>2, <2>3, <3>1, <3>2, <3>4, <3>6 DEF PlaceInv
    <3> QED
      BY <3>5, <3>6
  <2> QED
    BY <2>4, <2>5, <2>6
<1>4. ASSUME NEW w \in Workers, Working(w) PROVE PlaceInv'
  <2>1. PICK t \in Tasks : Handles(w, t)
    BY <1>4, WorkerHandles
  <2>2. /\ \A u \in Tasks : pc'[u] = pc[u]
        /\ \A v \in Workers : v # w => pc'[v] = pc[v]
    BY <1>4, WorkerFrame, Different
  <2>3. \A v \in Workers : v # w => item[v] # t
    BY <2>1 DEF Handles, PlaceInv
  <2>4. Nobody \notin Tasks
    BY Different
  <2> SUFFICES ASSUME NEW u \in Tasks
               PROVE  /\ \A v, x \in Workers : item'[v] = u /\ item'[x] = u => v = x
                      /\ u \in queue'.heap => \A v \in Workers : item'[v] # u
                      /\ pc'[u] = "put" => u \in queue'.queued
                      /\ ToCome(u)' =>
                            /\ status'[u] # "RUNNING"
                            /\ status'[u] = "CANCELLED" => u \in queue'.cancelled
                            /\ status'[u] = "PENDING" => u \in queue'.queued
    BY DEF PlaceInv
  <2>5. CASE u = t
    <3>1. u \notin queue'.heap /\ \A v \in Workers : v # w => item'[v] # u
      BY <2>1, <2>3, <2>5 DEF Handles
    <3>2. pc[u] # "put"
      BY <2>1, <2>5 DEF Handles, EntryInv, NotYetQueued
    <3>3. ToCome(u)' => item'[w] = u /\ pc'[w] = "queue"
      BY <3>1 DEF ToCome
    <3>4. pc'[w] = "queue" /\ item'[w] = u => ToCome(u)
      <4>1. CASE u \in queue.heap
        BY <4>1 DEF ToCome
      <4>2. CASE item[w] = u
        BY <1>4, <2>4, <2>5, <4>2, QueueStays DEF ToCome
      <4> QED
        BY <2>1, <2>5, <4>1, <4>2 DEF Handles
    <3>5. pc'[w] = "queue" /\ item'[w] = u =>
             /\ status'[u] = status[u]
             /\ u \in queue'.queued <=> u \in queue.queued
             /\ u \in queue'.cancelled <=> u \in queue.cancelled
      BY <2>1, <2>5 DEF Handles
    <3> QED
      BY <2>2, <3>1, <3>2, <3>3, <3>4, <3>5 DEF PlaceInv
  <2>6. CASE u # t
    <3>1. /\ u \in queue'.heap <=> u \in queue.heap
          /\ item'[w] # u
          /\ \A v \in Workers : v # w => item'[v] = item[v]
          /\ status'[u] = status[u]
          /\ u \in queue'.queued <=> u \in queue.queued
          /\ u \in queue'.cancelled <=> u \in queue.cancelled
      BY <2>1, <2>4, <2>6 DEF Handles
    <3>2. ToCome(u)' => ToCome(u)
      BY <2>2, <3>1 DEF ToCome
    <3> QED
      BY <2>2, <3>1, <3>2 DEF PlaceInv
  <2> QED
    BY <2>5, <2>6
<1> QED
  BY <1>1, <1>2, <1>3, <1>4 DEF Next

LEMMA PlaceHolds == Spec => []PlaceInv
<1>1. Init => PlaceInv
  <2> SUFFICES ASSUME Init PROVE PlaceInv
    OBVIOUS
  <2>1. /\ \A w \in Workers : item[w] = Nobody
        /\ queue.heap = {}
        /\ \A t \in Tasks : pc[t] = "start"
    BY Different DEF Init, EmptyQueue
  <2> QED
    BY <2>1, Different DEF PlaceInv, ToCome
<1>2. Types /\ EntryInv /\ StatusLine /\ StatusLine' /\ PlaceInv /\ [Next]_vars => PlaceInv'
  BY PlaceStep
<1>3. QueueLine /\ StatusLine => StatusLine
  OBVIOUS
<1> QED
  BY <1>1, <1>2, <1>3, TypesHold, EntryHolds, LinesHold, PTL DEF Spec

\* No worker takes a cancelled task from the queue, however the calls and the
\* workers wait for the two locks, and no completion is written over CANCELLED.
\* What remains are the two steps of a worker that had the task before: a late
\* start, possible with a maximal size only, and the report of a failure.
THEOREM CancelledTasksAreNotTaken == Spec => CancelledIsNotTaken
<1> DEFINE Allowed ==
      \A t \in Tasks :
          status[t] = "CANCELLED" /\ status'[t] # "CANCELLED" =>
              \E w \in Workers :
                  /\ item[w] = t
                  /\ \/ maxSize > 0 /\ pc[w] = "tasks" /\ status'[t] = "RUNNING"
                     \/ pc[w] \in {"run", "end"} /\ status'[t] = "FAILED"
<1>1. ASSUME Types, Uncontended, EntryInv, StatusLine, PlaceInv, [Next]_vars PROVE Allowed
  <2>t. /\ status \in [Tasks -> {"absent", "PENDING", "RUNNING", "CANCELLED", "COMPLETED", "FAILED"}]
        /\ maxSize \in Nat
    BY <1>1, BoundedAssumption DEF Types
  <2>1. ASSUME NEW w \in Workers, pc[w] = "tasks" PROVE maxSize > 0
    <3>1. maxSize # 0
      BY <1>1, <2>1, Different DEF Uncontended
    <3> QED
      BY <2>t, <3>1
  <2>2. CASE UNCHANGED vars
    BY <2>2 DEF vars
  <2>3. ASSUME NEW t \in Tasks, Adding(t) PROVE Allowed
    <3>1. \A u \in Tasks : u # t => status'[u] = status[u]
      BY <1>1, <2>3, AdderOutcome
    <3>2. status[t] = "CANCELLED" => status'[t] = status[t]
      <4>1. pc[t] \in {"start", "tasks"} => status[t] = "absent"
        BY <1>1 DEF StatusLine
      <4> QED
        BY <2>3, <4>1 DEF Adding, AddWait, AddRecord, AddEnqueue, AddFinish, Enters
    <3> QED
      BY <3>1, <3>2
  <2>4. ASSUME NEW c \in Cancellers, Cancelling(c) PROVE Allowed
    <3>1. Target[c] \in Tasks
      BY Different
    <3>2. \A u \in Tasks : status[u] = "CANCELLED" => status'[u] = "CANCELLED"
      BY <2>t, <2>4, <3>1
      DEF Cancelling, CancelWait, CancelRefused, CancelPending, CancelRemove, CancelRunning, CancelMark
    <3> QED
      BY <3>2
  <2>5. ASSUME NEW w \in Workers, Working(w) PROVE Allowed
    <3>1. PICK t \in Tasks : Handles(w, t)
      BY <1>1, <2>5, WorkerHandles
    <3>2. \A u \in Tasks : u # t => status'[u] = status[u]
      BY <3>1 DEF Handles
    <3>3. status[t] = "CANCELLED" => status'[t] = "CANCELLED" \/ Overwrites(w, t)
      BY <3>1 DEF Handles
    <3> QED
      BY <2>1, <3>2, <3>3 DEF Overwrites
  <2> QED
    BY <1>1, <2>2, <2>3, <2>4, <2>5 DEF Next
<1>2. Types /\ Uncontended /\ EntryInv /\ (QueueLine /\ StatusLine) /\ PlaceInv /\ [Next]_vars
         => [Allowed]_vars
  BY <1>1
<1> QED
  BY <1>2, TypesHold, UncontendedHolds, EntryHolds, LinesHold, PlaceHolds, PTL
  DEF Spec, CancelledIsNotTaken

-----------------------------------------------------------------------------
(* task_done(): the count of unfinished entries.                           *)

Busy == {w \in Workers : item[w] # Nobody}

\* Every entry in the heap and every entry in the hands of a worker counts.
CountInv == queue.unfinished >= Cardinality(queue.heap) + Cardinality(Busy)

\* One element more or less.
LEMMA OneMoreOrLess ==
    ASSUME NEW S, IsFiniteSet(S), NEW x
    PROVE  /\ IsFiniteSet(S \union {x}) /\ IsFiniteSet(S \ {x})
           /\ Cardinality(S) \in Nat
           /\ Cardinality(S \union {x}) \in Nat /\ Cardinality(S \ {x}) \in Nat
           /\ Cardinality(S \union {x}) <= Cardinality(S) + 1
           /\ Cardinality(S \ {x}) <= Cardinality(S)
           /\ x \in S => Cardinality(S \ {x}) = Cardinality(S) - 1
  BY FS_AddElement, FS_RemoveElement, FS_CardinalityType

LEMMA CountStep ==
    ASSUME Types, EntryInv, CountInv, [Next]_vars
    PROVE  CountInv'
<1>t. /\ item \in [Workers -> Tasks \union {Nobody}]
      /\ queue \in QueueType
      /\ queue.unfinished \in Int
      /\ IsFiniteSet(queue.heap)
      /\ IsFiniteSet(Busy)
  BY QueueAssumption, BoundedAssumption, FS_Subset DEF Types, QueueType, Busy
<1> DEFINE h == Cardinality(queue.heap)
           b == Cardinality(Busy)
           k == queue.unfinished
<1>c. h \in Nat /\ b \in Nat /\ k \in Int /\ k >= h + b
  BY <1>t, FS_CardinalityType DEF CountInv
<1>1. CASE UNCHANGED vars
  BY <1>1 DEF vars, CountInv, Busy
<1>2. ASSUME NEW t \in Tasks, Adding(t) PROVE CountInv'
  <2>1. Busy' = Busy
    BY <1>2, AdderOutcome DEF Busy
  <2>2. \/ queue'.heap = queue.heap /\ queue'.unfinished = queue.unfinished
        \/ queue'.heap = queue.heap \union {t} /\ queue'.unfinished = queue.unfinished + 1
    BY <1>2, AdderOutcome
  <2>3. Cardinality(queue.heap \union {t}) \in Nat /\ Cardinality(queue.heap \union {t}) <= h + 1
    BY <1>t, OneMoreOrLess
  <2>4. CASE queue'.heap = queue.heap /\ queue'.unfinished = queue.unfinished
    BY <1>c, <2>1, <2>4 DEF CountInv
  <2>5. CASE queue'.heap = queue.heap \union {t} /\ queue'.unfinished = queue.unfinished + 1
    BY <1>c, <2>1, <2>3, <2>5 DEF CountInv
  <2> QED
    BY <2>2, <2>4, <2>5
<1>3. ASSUME NEW c \in Cancellers, Cancelling(c) PROVE CountInv'
  <2> DEFINE t == Target[c]
  <2>1. t \in Tasks
    BY Different
  <2> HIDE DEF t
  <2>2. item' = item /\ (queue' = queue \/ queue' = RemoveTask(queue, t))
    BY <1>3
    DEF Cancelling, CancelWait, CancelRefused, CancelPending, CancelRemove, CancelRunning, CancelMark, t
  <2>3. RemoveTask(queue, t).heap = queue.heap /\ RemoveTask(queue, t).unfinished = queue.unfinished
    BY <1>t, <2>1, PutParts
  <2> QED
    BY <2>2, <2>3 DEF CountInv, Busy
<1>4. ASSUME NEW w \in Workers, Working(w) PROVE CountInv'
  <2>b. /\ IsFiniteSet(Busy \union {w}) /\ IsFiniteSet(Busy \ {w})
        /\ Cardinality(Busy \union {w}) \in Nat /\ Cardinality(Busy \ {w}) \in Nat
        /\ Cardinality(Busy \union {w}) <= b + 1
        /\ Cardinality(Busy \ {w}) <= b
        /\ w \in Busy => Cardinality(Busy \ {w}) = b - 1
    BY <1>t, OneMoreOrLess
  <2>1. ASSUME NEW t \in Tasks, Takes(w, t) PROVE CountInv'
    <3>1. Busy' = Busy \union {w}
      BY <1>t, <2>1, Different DEF Takes, Busy
    <3>2. Cardinality(queue.heap \ {t}) = h - 1
      BY <1>t, <2>1, OneMoreOrLess DEF Takes
    <3> QED
      BY <1>c, <2>b, <2>1, <3>1, <3>2 DEF CountInv, Takes
  <2>2. ASSUME NEW t \in Tasks, TakesAndDrops(w, t) PROVE CountInv'
    <3>1. Busy' = Busy
      BY <1>t, <2>2 DEF TakesAndDrops, Busy
    <3>2. Cardinality(queue.heap \ {t}) = h - 1
      BY <1>t, <2>2, OneMoreOrLess DEF TakesAndDrops
    <3> QED
      BY <1>c, <2>2, <3>1, <3>2 DEF CountInv, TakesAndDrops
  <2>3. CASE Keeps(w)
    BY <1>c, <2>3 DEF CountInv, Keeps, Busy
  <2>4. CASE Drops(w) \/ Ends(w)
    <3>1. item[w] # Nobody
      BY <1>t, <2>4, Different DEF Drops, Ends, QueueType
    <3>2. /\ item' = [item EXCEPT ![w] = Nobody]
          /\ queue'.heap = queue.heap
          /\ queue'.unfinished = queue.unfinished - 1
      BY <2>4 DEF Drops, Ends
    <3>3. w \in Busy /\ Busy' = Busy \ {w}
      BY <1>t, <3>1, <3>2 DEF Busy
    <3> QED
      BY <1>c, <2>b, <3>2, <3>3 DEF CountInv
  <2>5. CASE WorkerPollTimeout(w)
    <3>1. Busy' = Busy \ {w}
      BY <1>t, <2>5 DEF WorkerPollTimeout, Busy
    <3>2. queue' = queue
      BY <2>5 DEF WorkerPollTimeout
    <3> QED
      BY <1>c, <2>b, <3>1, <3>2 DEF CountInv
  <2> QED
    BY <1>4, <2>1, <2>2, <2>3, <2>4, <2>5, WorkerOutcome
<1> QED
  BY <1>1, <1>2, <1>3, <1>4 DEF Next

LEMMA CountHolds == Spec => []CountInv
<1>1. Init => CountInv
  <2> SUFFICES ASSUME Init PROVE CountInv
    OBVIOUS
  <2>1. Busy = {} /\ queue.heap = {} /\ queue.unfinished = 0
    BY DEF Init, EmptyQueue, Busy
  <2> QED
    BY <2>1, FS_EmptySet DEF CountInv
<1> QED
  BY <1>1, CountStep, TypesHold, EntryHolds, PTL DEF Spec

\* Types; and no order of calls makes task_done() one too many, which would
\* be a ValueError in the worker: the count that join() waits on covers every
\* entry that is still to be ended or dropped.
THEOREM NeverDoneTooOften == Spec => []TypeOK
<1>1. Types /\ CountInv => TypeOK
  <2> SUFFICES ASSUME Types, CountInv PROVE TypeOK
    OBVIOUS
  <2>1. IsFiniteSet(queue.heap) /\ IsFiniteSet(Busy) /\ queue.unfinished \in Int
    BY QueueAssumption, BoundedAssumption, FS_Subset DEF Types, QueueType, Busy
  <2>2. queue.unfinished \in Nat
    BY <2>1, FS_CardinalityType DEF CountInv
  <2> QED
    BY <2>2 DEF Types, TypeOK, ProcState, ExecState
<1> QED
  BY <1>1, TypesHold, CountHolds, PTL
=============================================================================
