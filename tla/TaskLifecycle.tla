--------------------------- MODULE TaskLifecycle ---------------------------
(***************************************************************************)
(* What AsyncTaskWorker promises about a task while it is not being        *)
(* stopped: the statuses a client can read one after the other, and what   *)
(* the task's future says about them.  There is no queue, no worker, no    *)
(* execution and no cache here.                                            *)
(*                                                                         *)
(* A future is settled once, together with the step that ends the task, or *)
(* at its creation when the task has ended before.  The one irregular move *)
(* is that of a cancelled task: it may still be reported as failed.        *)
(***************************************************************************)
CONSTANT Tasks

VARIABLES
    status,     \* the status of each task
    future      \* the future of each task

vars == <<status, future>>

Terminal == {"COMPLETED", "FAILED", "CANCELLED"}

\* How the end of a task shows in its future.
OutcomeOf(s) == IF s = "COMPLETED" THEN "result" ELSE "exception"

Init ==
    /\ status = [t \in Tasks |-> "absent"]
    /\ future = [t \in Tasks |-> "none"]

Submit(t) ==
    /\ status[t] = "absent"
    /\ status' = [status EXCEPT ![t] = "PENDING"]
    /\ UNCHANGED future

Begin(t) ==
    /\ status[t] = "PENDING"
    /\ status' = [status EXCEPT ![t] = "RUNNING"]
    /\ UNCHANGED future

\* The statuses a task may end from.
MayEnd(s) ==
    CASE s = "COMPLETED" -> {"RUNNING"}
      [] s = "FAILED"    -> {"RUNNING", "CANCELLED"}
      [] s = "CANCELLED" -> {"PENDING", "RUNNING"}

End(t, s) ==
    /\ status[t] \in MayEnd(s)
    /\ status' = [status EXCEPT ![t] = s]
    /\ future' = [future EXCEPT ![t] = IF @ = "pending" THEN OutcomeOf(s) ELSE @]

\* Old tasks that have ended are forgotten; nobody waits for them.
Forget(S) ==
    /\ \A t \in S : status[t] \in Terminal /\ future[t] # "pending"
    /\ status' = [t \in Tasks |-> IF t \in S THEN "removed" ELSE status[t]]
    /\ UNCHANGED future

\* A client asks for the future of a task.
Watch(t) ==
    /\ status[t] \in Terminal \union {"PENDING", "RUNNING"}
    /\ future[t] = "none"
    /\ future' = [future EXCEPT ![t] = IF status[t] \in Terminal
                                       THEN OutcomeOf(status[t]) ELSE "pending"]
    /\ UNCHANGED status

\* A waiter gives up: the last one lets the future go, one that timed out
\* has cancelled it.
GiveUp(t) ==
    /\ \/ future[t] # "none" /\ future' = [future EXCEPT ![t] = "none"]
       \/ future[t] = "pending" /\ future' = [future EXCEPT ![t] = "cancelled"]
    /\ UNCHANGED status

Next ==
    \/ \E t \in Tasks : Submit(t) \/ Begin(t) \/ Watch(t) \/ GiveUp(t)
    \/ \E t \in Tasks, s \in Terminal : End(t, s)
    \/ \E S \in SUBSET Tasks : Forget(S)

Spec == Init /\ [][Next]_vars
=============================================================================
