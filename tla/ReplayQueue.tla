----------------------------- MODULE ReplayQueue -----------------------------
(* The data type of trainer/replay_queue.py: what each method of the class     *)
(* ReplayQueue does to the task table.  A queue maps every task id to a record *)
(* [status, attempts]; status "ABSENT" stands for an id the table does not     *)
(* hold, so a missing file and an empty table are the same value, as they are  *)
(* in _load.  Left out: last_error, updated_at and partition, which no method  *)
(* and no caller reads back.                                                   *)
(* Every method runs under one lock and ends in _save_unlocked, which replaces *)
(* the file atomically: a caller is one step that changes memory and file.     *)
EXTENDS Integers

CONSTANTS
    Tasks,          \* the task ids, "<date>:<ticker or *>:<stage>"
    MaxAttempts     \* max_attempts, 3 unless the constructor is told otherwise

ASSUME MaxAttemptsAssumption == MaxAttempts \in Nat \ {0}

TaskStatus == {"ABSENT", "PENDING", "IN_PROGRESS", "COMPLETE", "FAILED"}

Queues == [Tasks -> [status: TaskStatus, attempts: Nat]]

EmptyQueue == [t \in Tasks |-> [status |-> "ABSENT", attempts |-> 0]]

-----------------------------------------------------------------------------
(* Methods that read. *)

\* pending(): the ids a worker may try; a snapshot, stale as soon as it is taken
Pending(q) == {t \in Tasks : q[t].status = "PENDING"}

\* mutant: only finished tasks are refused
ClaimableIfUndone(q, t) == q[t].status \notin {"COMPLETE", "FAILED"}

\* the test in claim(): a task is granted only from PENDING
Claimable(q, t) == q[t].status = "PENDING"

(* Methods that write: each is the table that _save_unlocked stores. *)

\* _load(): a task that was running when the last process stopped is pending
Loaded(q) ==
    [t \in Tasks |->
        IF q[t].status = "IN_PROGRESS" THEN [q[t] EXCEPT !.status = "PENDING"] ELSE q[t]]

\* mutant: an assignment in place of setdefault
EnqueuedAnew(q, items) ==
    [t \in Tasks |->
        IF t \in items THEN [status |-> "PENDING", attempts |-> 0] ELSE q[t]]

\* enqueue(): setdefault, so a task that is already known keeps its state
Enqueued(q, items) ==
    [t \in Tasks |->
        IF t \in items /\ q[t].status = "ABSENT"
        THEN [status |-> "PENDING", attempts |-> 0]
        ELSE q[t]]

\* claim(): only when Claimable(q, t)
Claimed(q, t) ==
    [q EXCEPT ![t] = [status |-> "IN_PROGRESS", attempts |-> q[t].attempts + 1]]

\* complete() and reopen(): whatever the status was
Completed(q, t) == [q EXCEPT ![t].status = "COMPLETE"]

Reopened(q, t) == [q EXCEPT ![t].status = "PENDING"]

\* mutant: the attempts are not looked at
FailedWithoutEnd(q, t, retryable) ==
    [q EXCEPT ![t].status = IF retryable THEN "PENDING" ELSE "FAILED"]

\* fail(): a retryable failure is pending again until the attempts are used up
Failed(q, t, retryable) ==
    [q EXCEPT ![t].status =
        IF retryable /\ q[t].attempts < MaxAttempts THEN "PENDING" ELSE "FAILED"]
=============================================================================
