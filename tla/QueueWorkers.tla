---------------------------- MODULE QueueWorkers -----------------------------
(* Threads of one process that share a ReplayQueue, over many runs of the      *)
(* process.  A run loads the file, adds the tasks it wants, marks some of them *)
(* done or open again (as run_multi_day_trainer does when it reconciles the    *)
(* table with its state file), hands every worker the pending list, and lets   *)
(* them claim and settle.  A run may stop at any point: memory is gone, the    *)
(* file stays.  The lists are stale copies that overlap; the pool of the       *)
(* trainer, which gives a task to one worker only, is a special case.          *)
EXTENDS ReplayQueue, FiniteSets

CONSTANTS
    Workers,
    NoTask,
    NoWorker,
    MaxStarts,      \* bound: runs of the process
    MaxReopens      \* bound: calls of reopen

ASSUME WorkersAssumption ==
    /\ NoTask \notin Tasks
    /\ NoWorker \notin Workers
    /\ MaxStarts \in Nat
    /\ MaxReopens \in Nat

VARIABLES
    file,       \* replay_queue.json
    memory,     \* _state of the running process
    phase,      \* "down", "setup" (one thread) or "pool" (many)
    list,       \* list[w]: ids from pending() that worker w has not tried yet
    lease,      \* lease[w]: the task w was granted, or NoTask
    starts,     \* how often the process has started
    reopens     \* reopens[t]: how often t was reopened

vars == <<file, memory, phase, list, lease, starts, reopens>>

-----------------------------------------------------------------------------
(* Actions *)

Init ==
    /\ file = EmptyQueue
    /\ memory = EmptyQueue
    /\ phase = "down"
    /\ list = [w \in Workers |-> {}]
    /\ lease = [w \in Workers |-> NoTask]
    /\ starts = 0
    /\ reopens = [t \in Tasks |-> 0]

\* _save_unlocked at the end of a method that left the table q
Save(q) == memory' = q /\ file' = q

\* ReplayQueue(path): the recovered table is not written until the next save
Start ==
    /\ phase = "down"
    /\ starts < MaxStarts
    /\ phase' = "setup"
    /\ memory' = Loaded(file)
    /\ starts' = starts + 1
    /\ UNCHANGED <<file, list, lease, reopens>>

Enqueue(items) ==
    /\ phase = "setup"
    /\ Save(Enqueued(memory, items))
    /\ UNCHANGED <<phase, list, lease, starts, reopens>>

\* complete() for a task whose result an earlier run left behind
MarkDone(t) ==
    /\ phase = "setup"
    /\ memory[t].status # "ABSENT"
    /\ Save(Completed(memory, t))
    /\ UNCHANGED <<phase, list, lease, starts, reopens>>

Reopen(t) ==
    /\ phase = "setup"
    /\ memory[t].status # "ABSENT"
    /\ reopens[t] < MaxReopens
    /\ Save(Reopened(memory, t))
    /\ reopens' = [reopens EXCEPT ![t] = @ + 1]
    /\ UNCHANGED <<phase, list, lease, starts>>

\* pending(), and the executor starts
OpenPool ==
    /\ phase = "setup"
    /\ phase' = "pool"
    /\ list' = [w \in Workers |-> Pending(memory)]
    /\ UNCHANGED <<file, memory, lease, starts, reopens>>

\* mutant: a refused task stays in the list
ClaimOrWait(w, t) ==
    /\ phase = "pool"
    /\ lease[w] = NoTask
    /\ t \in list[w]
    /\ Claimable(memory, t)
    /\ list' = [list EXCEPT ![w] = @ \ {t}]
    /\ Save(Claimed(memory, t))
    /\ lease' = [lease EXCEPT ![w] = t]
    /\ UNCHANGED <<phase, starts, reopens>>

\* claim() of a listed task, which another worker may have settled meanwhile
Claim(w, t) ==
    /\ phase = "pool"
    /\ lease[w] = NoTask
    /\ t \in list[w]
    /\ list' = [list EXCEPT ![w] = @ \ {t}]
    /\ IF Claimable(memory, t)
       THEN /\ Save(Claimed(memory, t))
            /\ lease' = [lease EXCEPT ![w] = t]
       ELSE UNCHANGED <<file, memory, lease>>
    /\ UNCHANGED <<phase, starts, reopens>>

\* complete() or fail() by the worker that ran the task
Finish(w) ==
    /\ lease[w] # NoTask
    /\ \/ Save(Completed(memory, lease[w]))
       \/ \E retryable \in BOOLEAN : Save(Failed(memory, lease[w], retryable))
    /\ lease' = [lease EXCEPT ![w] = NoTask]
    /\ UNCHANGED <<phase, list, starts, reopens>>

\* the executor has run every listed task
Exit ==
    /\ phase = "pool"
    /\ \A w \in Workers : lease[w] = NoTask /\ list[w] = {}
    /\ phase' = "down"
    /\ UNCHANGED <<file, memory, list, lease, starts, reopens>>

\* the process is killed; a save in flight has replaced the file or has not
Crash ==
    /\ phase # "down"
    /\ phase' = "down"
    /\ list' = [w \in Workers |-> {}]
    /\ lease' = [w \in Workers |-> NoTask]
    /\ UNCHANGED <<file, memory, starts, reopens>>

Next ==
    \/ Start
    \/ \E items \in SUBSET Tasks : Enqueue(items)
    \/ \E t \in Tasks : MarkDone(t) \/ Reopen(t)
    \/ OpenPool
    \/ \E w \in Workers : Finish(w) \/ \E t \in Tasks : Claim(w, t)
    \/ Exit
    \/ Crash

Spec == Init /\ [][Next]_vars

\* every worker gets on with its list, a task once granted ends, and the pool
\* is left when it is empty (ThreadPoolExecutor; the task function returns)
Fairness ==
    /\ \A w \in Workers : WF_vars(Finish(w)) /\ \A t \in Tasks : WF_vars(Claim(w, t))
    /\ WF_vars(Exit)

FairSpec == Spec /\ Fairness

-----------------------------------------------------------------------------
(* Properties *)

\* The type invariant.
TypeOK ==
    /\ file \in Queues
    /\ memory \in Queues
    /\ phase \in {"down", "setup", "pool"}
    /\ list \in [Workers -> SUBSET Tasks]
    /\ lease \in [Workers -> Tasks \cup {NoTask}]
    /\ starts \in 0..MaxStarts
    /\ reopens \in [Tasks -> 0..MaxReopens]

\* Two workers never run the same task, although their lists overlap and were
\* taken before either of them claimed (claim, lines 73-82).
NoSharedTask ==
    \A v, w \in Workers : lease[v] = lease[w] /\ lease[v] # NoTask => v = w

\* A task that a worker runs is marked IN_PROGRESS in the file, so a run that
\* stops now leaves the mark _load looks for (lines 28-31).
RunningIsMarked ==
    \A w \in Workers : lease[w] # NoTask => file[lease[w]].status = "IN_PROGRESS"

\* A task is tried at most max_attempts times, plus once for every restart of
\* the process and once for every reopen: those are the only ways back to
\* PENDING with the attempts used up (lines 28-31, 73-106).
RetryBudget ==
    \A t \in Tasks :
        memory[t].attempts <= MaxAttempts + reopens[t] + (starts - 1)

\* No load, enqueue, claim or settled neighbour undoes completed work: only
\* reopen takes a task out of COMPLETE, in the file as in memory.
CompletedWorkKept ==
    [][\A t \in Tasks :
        file[t].status = "COMPLETE" /\ file'[t].status # "COMPLETE"
            => reopens'[t] = reopens[t] + 1]_vars

\* The pool is left in the end, whatever the workers find in their lists.
PoolEnds == phase = "pool" ~> phase = "down"

\* The queue implements the lease it promises.
Leased(t) == \E w \in Workers : lease[w] = t

MeaningOf(status) ==
    IF status = "ABSENT" THEN "unknown"
    ELSE IF status = "COMPLETE" THEN "done"
    ELSE IF status = "FAILED" THEN "dropped"
    ELSE "open"

workBar ==
    [t \in Tasks |-> IF Leased(t) THEN "leased" ELSE MeaningOf(file[t].status)]

HolderOf(t) == CHOOSE w \in Workers : lease[w] = t

holderBar == [t \in Tasks |-> IF Leased(t) THEN HolderOf(t) ELSE NoWorker]

Leases == INSTANCE WorkLease WITH work <- workBar, holder <- holderBar

\* Every behaviour of the threads and the file is one of WorkLease: one worker
\* per task, settled by the worker that ran it, recalled by a stop.
ImplementsWorkLease == Leases!Spec
=============================================================================
