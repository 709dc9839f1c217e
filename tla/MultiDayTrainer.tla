--------------------------- MODULE MultiDayTrainer ---------------------------
(* run_multi_day_trainer (trainer/multi_day_trainer.py) over many launches on  *)
(* one output root.  A launch reads trainer_run_state.json, decides which      *)
(* dates it may run, reconciles replay_queue.json with what it read, and lets  *)
(* a pool of threads run the pending dates; the main thread collects results   *)
(* and rewrites the state file after each.  The two files are written by       *)
(* different threads at different times, and the process may stop anywhere.    *)
EXTENDS DatasetSplits

CONSTANTS
    Policies,       \* what must not change within an experiment: version,
                    \* selection policy, tickers, universe mode, plan
    NoPolicy,
    Requests,       \* the arguments a launch can have
    RunnerResults,  \* how a day runner may end: all of Outcomes but "ORPHAN"
    MaxWorkers,     \* max_workers
    MaxAttempts,
    MaxLaunches,    \* bound: launches
    MaxCrashes,     \* bound: launches that stop half-way
    MaxLosses       \* bound: day artifacts removed between two launches

INSTANCE ReplayQueue WITH Tasks <- Dates

Request ==
    [dates: SUBSET Dates \ {{}}, policy: Policies, allowed: SUBSET Partitions,
     unlocked: BOOLEAN, resume: BOOLEAN]

ASSUME TrainerAssumption ==
    /\ NoPolicy \notin Policies
    /\ Requests \subseteq Request
    /\ RunnerResults \subseteq {"COMPLETE", "PARTIAL", "FAILED", "UNSUPPORTED", "RAISED"}
    /\ MaxWorkers \in Nat \ {0}
    /\ MaxAttempts \in Nat \ {0}
    /\ MaxLaunches \in Nat
    /\ MaxCrashes \in Nat
    /\ MaxLosses \in Nat

VARIABLES
    stateFile,  \* trainer_run_state.json
    queueFile,  \* replay_queue.json
    artifacts,  \* the dates whose postmortem or batch manifest is on disk
    pc,         \* where the main thread is; "down" and "done" are no process
    req,        \* the arguments of this launch
    prior,      \* the state file as this launch read it
    reset,      \* reset_queue
    queue,      \* the _state of the open ReplayQueue
    todo,       \* runnable dates the reconcile loop has not reached
    days,       \* days[d]: status of the record of d, "NONE" without one
    failures,   \* the keys of the dict of the same name
    job,        \* job[d]: the future of d
    outcome,    \* outcome[d]: how the day runner ended for d
    launches, crashes, losses

files == <<stateFile, queueFile, artifacts>>
memory == <<req, prior, reset, queue, todo, days, failures, job, outcome>>
counters == <<launches, crashes, losses>>
vars == <<files, pc, memory, counters>>

-----------------------------------------------------------------------------
(* State *)

DayStatus == {"NONE", "COMPLETE", "PARTIAL", "FAILED", "UNSUPPORTED"}

\* "RAISED": the runner raised; "ORPHAN": the task's date has no partition, so
\* the lookup raises, once in the try block and again in its handler
Outcomes == (DayStatus \ {"NONE"}) \cup {"RAISED", "ORPHAN"}

\* waiting: submitted; running: claimed; ran: the runner has ended; settled:
\* the queue knows, the future has its result; none: collected or no future
JobStates == {"none", "waiting", "running", "ran", "settled"}

NoDays == [d \in Dates |-> "NONE"]
NoJobs == [d \in Dates |-> "none"]

\* the state file without content; a saved one always has a date
NoState ==
    [policy |-> NoPolicy, dates |-> {}, split |-> NoDays, days |-> NoDays,
     failures |-> {}]

StateFiles ==
    [policy: Policies \cup {NoPolicy}, dates: SUBSET Dates,
     split: [Dates -> Partitions \cup {"NONE"}], days: [Dates -> DayStatus],
     failures: SUBSET Dates]

\* the plan of a launch: prior dates and requested dates, split together
dates == prior.dates \cup req.dates
dataset_split == Split(dates)
runnable_dates == Accessible(dataset_split, req.allowed)

\* _build_state: what checkpoint() writes
Checkpoint(ds, fs) ==
    [policy |-> req.policy, dates |-> dates, split |-> dataset_split,
     days |-> [d \in Dates |-> IF d \in dates THEN ds[d] ELSE "NONE"],
     failures |-> fs]

\* the queue's methods save before they return
SaveQueue(q) == queue' = q /\ queueFile' = q

Init ==
    /\ stateFile = NoState
    /\ queueFile = EmptyQueue
    /\ artifacts = {}
    /\ pc = "down"
    /\ req \in Requests
    /\ prior = NoState
    /\ reset = FALSE
    /\ queue = EmptyQueue
    /\ todo = {}
    /\ days = NoDays
    /\ failures = {}
    /\ job = NoJobs
    /\ outcome = NoDays
    /\ launches = 0 /\ crashes = 0 /\ losses = 0

\* no process: memory is as it was in the beginning
ProcessGone ==
    /\ pc' = "down"
    /\ prior' = NoState
    /\ reset' = FALSE
    /\ queue' = EmptyQueue
    /\ todo' = {}
    /\ days' = NoDays
    /\ failures' = {}
    /\ job' = NoJobs
    /\ outcome' = NoDays

-----------------------------------------------------------------------------
(* A launch up to the pool *)

\* what a launch makes of the state file: unreadable with --no-resume, set
\* aside when it belongs to another policy
ReadState(r) == IF r.resume THEN stateFile ELSE NoState
Supersedes(r) == ReadState(r).dates # {} /\ ReadState(r).policy # r.policy
PriorOf(r) == IF Supersedes(r) THEN NoState ELSE ReadState(r)

\* changed_partitions: the merged date range would move a date that is frozen
MovesFrozenDate(r) ==
    \E d \in PriorOf(r).dates :
        Split(PriorOf(r).dates \cup r.dates)[d] # PriorOf(r).split[d]

\* mutant: frozen partitions are not compared
RejectedIfLocked(r) == AccessDenied(r.allowed, r.unlocked)

Rejected(r) == MovesFrozenDate(r) \/ AccessDenied(r.allowed, r.unlocked)

Begin(r) ==
    /\ pc \in {"down", "done"}
    /\ launches < MaxLaunches
    /\ launches' = launches + 1
    /\ req' = r
    /\ stateFile' = IF Supersedes(r) THEN NoState ELSE stateFile
    /\ UNCHANGED <<queueFile, artifacts, crashes, losses>>

Launch(r) ==
    /\ ~Rejected(r)
    /\ Begin(r)
    /\ prior' = PriorOf(r)
    /\ reset' = (~r.resume \/ Supersedes(r))
    /\ pc' = IF reset' THEN "aside" ELSE "open"
    /\ days' = NoDays
    /\ failures' = PriorOf(r).failures
    /\ job' = NoJobs
    /\ outcome' = NoDays
    /\ UNCHANGED <<queue, todo>>

\* ValueError or PermissionError, raised after the old state was set aside
LaunchRejected(r) ==
    /\ Rejected(r)
    /\ Begin(r)
    /\ ProcessGone

\* _preserve_superseded(queue_path)
SetQueueAside ==
    /\ pc = "aside"
    /\ pc' = "open"
    /\ queueFile' = EmptyQueue
    /\ UNCHANGED <<stateFile, artifacts, memory, counters>>

\* ReplayQueue(queue_path) and enqueue of the runnable dates
OpenQueue ==
    /\ pc = "open"
    /\ pc' = "reconcile"
    /\ SaveQueue(Enqueued(Loaded(queueFile), runnable_dates))
    /\ todo' = runnable_dates
    /\ UNCHANGED <<stateFile, artifacts, req, prior, reset, days, failures, job,
                   outcome, counters>>

\* mutant: whatever has a record is opened again
ReconcileByRecord(d) ==
    /\ pc = "reconcile"
    /\ d \in todo
    /\ \A e \in todo : d <= e
    /\ todo' = todo \ {d}
    /\ IF prior.days[d] = "NONE" THEN UNCHANGED <<queue, queueFile>>
       ELSE SaveQueue(Reopened(queue, d))
    /\ UNCHANGED <<stateFile, artifacts, pc, req, prior, reset, days, failures, job,
                   outcome, counters>>

\* the loop over the runnable dates, in their order
Reconcile(d) ==
    /\ pc = "reconcile"
    /\ d \in todo
    /\ \A e \in todo : d <= e
    /\ todo' = todo \ {d}
    /\ CASE prior.days[d] = "COMPLETE" /\ d \in artifacts ->
                /\ days' = [days EXCEPT ![d] = "COMPLETE"]
                /\ SaveQueue(Completed(queue, d))
         [] prior.days[d] = "PARTIAL" ->
                SaveQueue(Reopened(queue, d)) /\ UNCHANGED days
         [] OTHER -> UNCHANGED <<queue, queueFile, days>>
    /\ UNCHANGED <<stateFile, artifacts, pc, req, prior, reset, failures, job,
                   outcome, counters>>

\* mutant: a task that has been tried is not submitted
OpenPoolUntried ==
    /\ pc = "reconcile"
    /\ todo = {}
    /\ pc' = "pool"
    /\ job' = [d \in Dates |->
            IF d \in Pending(queue) /\ queue[d].attempts = 0 THEN "waiting" ELSE "none"]
    /\ UNCHANGED <<files, req, prior, reset, queue, todo, days, failures, outcome,
                   counters>>

\* every pending task in the queue is submitted, runnable or not
OpenPool ==
    /\ pc = "reconcile"
    /\ todo = {}
    /\ pc' = "pool"
    /\ job' = [d \in Dates |-> IF d \in Pending(queue) THEN "waiting" ELSE "none"]
    /\ UNCHANGED <<files, req, prior, reset, queue, todo, days, failures, outcome,
                   counters>>

-----------------------------------------------------------------------------
(* The worker threads: run_task *)

Busy == {d \in Dates : job[d] \in {"running", "ran"}}

\* the executor takes tasks in the order of pending(); two threads that took
\* neighbours may reach claim in either order
Claim(d) ==
    /\ job[d] = "waiting"
    /\ Cardinality(Busy) + Cardinality({e \in Dates : job[e] = "waiting" /\ e < d})
            < MaxWorkers
    /\ IF Claimable(queue, d)
       THEN /\ SaveQueue(Claimed(queue, d))
            /\ job' = [job EXCEPT ![d] = "running"]
       ELSE /\ UNCHANGED <<queue, queueFile>>
            /\ job' = [job EXCEPT ![d] = "settled"]
    /\ UNCHANGED <<stateFile, artifacts, pc, req, prior, reset, todo, days,
                   failures, outcome, counters>>

\* the day runner, or the failed lookup of the date's partition before it; a
\* runner that returns has written the day's manifest, one that raises may have
RunDay(d) ==
    /\ job[d] = "running"
    /\ job' = [job EXCEPT ![d] = "ran"]
    /\ IF d \in dates
       THEN \E o \in RunnerResults :
                /\ outcome' = [outcome EXCEPT ![d] = o]
                /\ \/ artifacts' = artifacts \cup {d}
                   \/ o = "RAISED" /\ UNCHANGED artifacts
       ELSE /\ outcome' = [outcome EXCEPT ![d] = "ORPHAN"]
            /\ UNCHANGED artifacts
    /\ UNCHANGED <<stateFile, queueFile, pc, req, prior, reset, queue, todo, days,
                   failures, counters>>

\* mutant: a partial day counts as completed
SettleAnyResult(d) ==
    /\ job[d] = "ran"
    /\ job' = [job EXCEPT ![d] = "settled"]
    /\ SaveQueue(IF outcome[d] \in {"COMPLETE", "PARTIAL"} THEN Completed(queue, d)
                 ELSE Failed(queue, d, outcome[d] # "UNSUPPORTED"))
    /\ UNCHANGED <<stateFile, artifacts, pc, req, prior, reset, todo, days,
                   failures, outcome, counters>>

\* the worker tells the queue, and then returns
Settle(d) ==
    /\ job[d] = "ran"
    /\ job' = [job EXCEPT ![d] = "settled"]
    /\ SaveQueue(IF outcome[d] = "COMPLETE" THEN Completed(queue, d)
                 ELSE Failed(queue, d, outcome[d] # "UNSUPPORTED"))
    /\ UNCHANGED <<stateFile, artifacts, pc, req, prior, reset, todo, days,
                   failures, outcome, counters>>

-----------------------------------------------------------------------------
(* The main thread: as_completed, checkpoint, and the end *)

RecordOf(d) ==
    CASE outcome[d] = "NONE" -> days[d]      \* claim refused: no record
      [] outcome[d] = "RAISED" -> "FAILED"
      [] OTHER -> outcome[d]

\* mutant: the failure of an earlier launch is not dropped
CollectKeepingFailure(d) ==
    /\ pc = "pool"
    /\ job[d] = "settled"
    /\ outcome[d] # "ORPHAN"
    /\ job' = [job EXCEPT ![d] = "none"]
    /\ days' = [days EXCEPT ![d] = RecordOf(d)]
    /\ failures' = IF outcome[d] = "RAISED" THEN failures \cup {d} ELSE failures
    /\ stateFile' = Checkpoint(days', failures')
    /\ UNCHANGED <<queueFile, artifacts, pc, req, prior, reset, queue, todo, outcome,
                   counters>>

Collect(d) ==
    /\ pc = "pool"
    /\ job[d] = "settled"
    /\ outcome[d] # "ORPHAN"
    /\ job' = [job EXCEPT ![d] = "none"]
    /\ days' = [days EXCEPT ![d] = RecordOf(d)]
    /\ failures' = IF outcome[d] = "RAISED" THEN failures \cup {d} ELSE failures \ {d}
    /\ stateFile' = Checkpoint(days', failures')
    /\ UNCHANGED <<queueFile, artifacts, pc, req, prior, reset, queue, todo, outcome,
                   counters>>

\* future.result() raises KeyError in the main thread
CollectOrphan(d) ==
    /\ pc = "pool"
    /\ job[d] = "settled"
    /\ outcome[d] = "ORPHAN"
    /\ pc' = "abort"
    /\ job' = [job EXCEPT ![d] = "none"]
    /\ UNCHANGED <<files, req, prior, reset, queue, todo, days, failures, outcome,
                   counters>>

\* mutant: the block waits until every result has been collected
AbortWhenCollected ==
    /\ pc = "abort"
    /\ \A d \in Dates : job[d] = "none"
    /\ ProcessGone
    /\ UNCHANGED <<files, req, counters>>

\* leaving the executor's block waits for every submitted task, collects none
Abort ==
    /\ pc = "abort"
    /\ \A d \in Dates : job[d] \in {"none", "settled"}
    /\ ProcessGone
    /\ UNCHANGED <<files, req, counters>>

Finish ==
    /\ pc = "pool"
    /\ \A d \in Dates : job[d] = "none"
    /\ pc' = "done"
    /\ stateFile' = Checkpoint(days, failures)
    /\ UNCHANGED <<queueFile, artifacts, memory, counters>>

-----------------------------------------------------------------------------
(* The surroundings *)

\* the job is killed, or a file cannot be written: memory is gone
Crash ==
    /\ pc \notin {"down", "done"}
    /\ crashes < MaxCrashes
    /\ crashes' = crashes + 1
    /\ ProcessGone
    /\ UNCHANGED <<files, req, launches, losses>>

\* a day's directory is cleaned up between two launches
LoseArtifact(d) ==
    /\ pc \in {"down", "done"}
    /\ losses < MaxLosses
    /\ d \in artifacts
    /\ artifacts' = artifacts \ {d}
    /\ losses' = losses + 1
    /\ UNCHANGED <<stateFile, queueFile, pc, memory, launches, crashes>>

Process ==
    \/ SetQueueAside \/ OpenQueue \/ OpenPool \/ Abort \/ Finish
    \/ \E d \in Dates :
        Reconcile(d) \/ Claim(d) \/ RunDay(d) \/ Settle(d) \/ Collect(d) \/ CollectOrphan(d)

Next ==
    \/ \E r \in Requests : Launch(r) \/ LaunchRejected(r)
    \/ Process
    \/ Crash
    \/ \E d \in Dates : LoseArtifact(d)

Spec == Init /\ [][Next]_vars

\* every thread of a started process gets on, and the day runner returns: its
\* provider calls have timeouts and bounded retries
FairSpec == Spec /\ WF_vars(Process)

-----------------------------------------------------------------------------
(* Properties *)

\* The type invariant.
TypeOK ==
    /\ stateFile \in StateFiles /\ prior \in StateFiles
    /\ queueFile \in Queues /\ queue \in Queues
    /\ artifacts \subseteq Dates /\ todo \subseteq Dates /\ failures \subseteq Dates
    /\ pc \in {"down", "aside", "open", "reconcile", "pool", "abort", "done"}
    /\ req \in Requests
    /\ reset \in BOOLEAN
    /\ days \in [Dates -> DayStatus]
    /\ job \in [Dates -> JobStates]
    /\ outcome \in [Dates -> Outcomes \cup {"NONE"}]
    /\ launches \in 0..MaxLaunches
    /\ crashes \in 0..MaxCrashes
    /\ losses \in 0..MaxLosses

\* What a running launch reports of a day, and so writes to the state file,
\* agrees with what the other file says of its task: the worker settles before
\* the main thread records, and no thread touches a recorded task again
\* (lines 594-620, 674-691, 750-758).
ReportAgreesWithQueue ==
    \A d \in Dates :
        /\ days[d] = "COMPLETE" => queueFile[d].status = "COMPLETE"
        /\ days[d] = "UNSUPPORTED" => queueFile[d].status = "FAILED"
        /\ days[d] \in {"PARTIAL", "FAILED"} => queueFile[d].status \in {"PENDING", "FAILED"}

\* A day the state file calls COMPLETE, PARTIAL or UNSUPPORTED is not at the
\* same time among its failed_dates, whatever earlier launches recorded there
\* (lines 576-578, 754-757).
NoStaleFailure ==
    \A d \in stateFile.failures : stateFile.days[d] \in {"NONE", "FAILED"}

\* Launches that resume never move a date of the experiment to another
\* partition and never drop one (lines 556-568).
PartitionsFrozen ==
    [][stateFile.dates # {} /\ stateFile'.dates # {} /\ req'.resume
        => \A d \in stateFile.dates :
            d \in stateFile'.dates /\ stateFile'.split[d] = stateFile.split[d]]_vars

\* A launch that resumes does not run again a day it was going to run that the
\* state file calls COMPLETE and whose artifact is there.
NoCompletedDayRunsAgain ==
    [][\A d \in runnable_dates :
        req.resume /\ stateFile.days[d] = "COMPLETE" /\ d \in artifacts
            => queue'[d].attempts = queue[d].attempts \/ pc' # pc]_vars

\* A launch that comes to its end has dealt with every date it was going to
\* run: a record, or a task that is not pending.
NoRunnableDateForgotten ==
    pc = "done" =>
        \A d \in runnable_dates : days[d] # "NONE" \/ queue[d].status \in {"COMPLETE", "FAILED"}

\* docs/HISTORICAL_REPLAY_ACCELERATOR.md:78: completed work is reused.
CompletedWorkReused ==
    pc = "done" =>
        \A d \in runnable_dates \cap artifacts :
            queue[d].status = "COMPLETE" => days[d] = "COMPLETE"

\* docs/HISTORICAL_REPLAY_ACCELERATOR.md:110: holdout data is excluded unless
\* --unlock-holdout is supplied.
HoldoutLocked ==
    \A d \in Busy \cap dates : dataset_split[d] = "HOLDOUT" => req.unlocked

\* A launch ends: the pool drains, whatever the days' outcomes and the order in
\* which the results arrive.
LaunchEnds == pc \notin {"down", "done"} ~> pc \in {"down", "done"}
=============================================================================
