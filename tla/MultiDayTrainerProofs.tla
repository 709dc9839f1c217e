------------------------ MODULE MultiDayTrainerProofs ------------------------
(* Theorems about the trainer's launches, for every set of dates, requests,    *)
(* policies and bounds.                                                        *)
EXTENDS MultiDayTrainer, TLAPS

-----------------------------------------------------------------------------
(* Lemmas on the queue's methods, the plan and the saved state. *)

LEMMA QueueTypes ==
    ASSUME NEW q \in Queues
    PROVE  /\ Loaded(q) \in Queues
           /\ \A items \in SUBSET Dates : Enqueued(q, items) \in Queues
           /\ \A d \in Dates : /\ Claimed(q, d) \in Queues
                               /\ Completed(q, d) \in Queues
                               /\ Reopened(q, d) \in Queues
                               /\ \A retryable \in BOOLEAN : Failed(q, d, retryable) \in Queues
<1>1. Loaded(q) \in Queues
  BY DEF Loaded, Queues, TaskStatus
<1>2. ASSUME NEW items \in SUBSET Dates PROVE Enqueued(q, items) \in Queues
  BY DEF Enqueued, Queues, TaskStatus
<1>3. ASSUME NEW d \in Dates
      PROVE  /\ Claimed(q, d) \in Queues
             /\ Completed(q, d) \in Queues
             /\ Reopened(q, d) \in Queues
             /\ \A retryable \in BOOLEAN : Failed(q, d, retryable) \in Queues
  BY DEF Claimed, Completed, Reopened, Failed, Queues, TaskStatus
<1>. QED BY <1>1, <1>2, <1>3

LEMMA QueueEffects ==
    ASSUME NEW q \in Queues, NEW d \in Dates, NEW e \in Dates
    PROVE  /\ q[e].status \in TaskStatus /\ q[e].attempts \in Nat
           /\ Claimed(q, d)[e].status = (IF e = d THEN "IN_PROGRESS" ELSE q[e].status)
           /\ Claimed(q, d)[e].attempts =
                (IF e = d THEN q[e].attempts + 1 ELSE q[e].attempts)
           /\ Completed(q, d)[e].status = (IF e = d THEN "COMPLETE" ELSE q[e].status)
           /\ Completed(q, d)[e].attempts = q[e].attempts
           /\ Reopened(q, d)[e].status = (IF e = d THEN "PENDING" ELSE q[e].status)
           /\ Reopened(q, d)[e].attempts = q[e].attempts
BY DEF Queues, Claimed, Completed, Reopened

LEMMA FailEffect ==
    ASSUME NEW q \in Queues, NEW d \in Dates, NEW e \in Dates, NEW retryable \in BOOLEAN
    PROVE  /\ e # d => Failed(q, d, retryable)[e].status = q[e].status
           /\ Failed(q, d, retryable)[d].status \in {"PENDING", "FAILED"}
           /\ ~retryable => Failed(q, d, retryable)[d].status = "FAILED"
           /\ Failed(q, d, retryable)[e].attempts = q[e].attempts
BY DEF Queues, Failed

\* after a load and an enqueue nothing runs and every item is known
LEMMA OpenEffect ==
    ASSUME NEW q \in Queues, NEW items \in SUBSET Dates, NEW d \in Dates
    PROVE  /\ Enqueued(Loaded(q), items)[d].status # "IN_PROGRESS"
           /\ d \in items => Enqueued(Loaded(q), items)[d].status # "ABSENT"
<1>1. Loaded(q) \in Queues /\ Loaded(q)[d].status # "IN_PROGRESS"
  BY QueueTypes DEF Queues, Loaded
<1>. HIDE DEF Loaded
<1>. QED BY <1>1 DEF Queues, Enqueued

LEMMA SplitType ==
    ASSUME NEW S
    PROVE  Split(S) \in [Dates -> Partitions \cup {"NONE"}]
BY DEF Split, PartitionAt, Partitions

LEMMA NoStateType == NoState \in StateFiles
BY DEF NoState, StateFiles, NoDays, DayStatus

LEMMA EmptyQueueType == EmptyQueue \in Queues
BY DEF EmptyQueue, Queues, TaskStatus

LEMMA PlanType ==
    ASSUME TypeOK
    PROVE  /\ dates \subseteq Dates
           /\ dataset_split \in [Dates -> Partitions \cup {"NONE"}]
           /\ runnable_dates \subseteq Dates
<1>1. prior.dates \subseteq Dates /\ req.dates \subseteq Dates
  BY TrainerAssumption DEF TypeOK, StateFiles, Request
<1>. QED BY <1>1, SplitType DEF dates, dataset_split, runnable_dates, Accessible

LEMMA PlanSame ==
    ASSUME prior' = prior, req' = req
    PROVE  dates' = dates /\ dataset_split' = dataset_split /\ runnable_dates' = runnable_dates
BY DEF dates, dataset_split, runnable_dates

LEMMA CheckpointType ==
    ASSUME TypeOK, NEW ds \in [Dates -> DayStatus], NEW fs \in SUBSET Dates
    PROVE  /\ Checkpoint(ds, fs) \in StateFiles
           /\ Checkpoint(ds, fs).dates = dates
           /\ Checkpoint(ds, fs).split = dataset_split
           /\ Checkpoint(ds, fs).failures = fs
           /\ \A d \in Dates : Checkpoint(ds, fs).days[d] = IF d \in dates THEN ds[d] ELSE "NONE"
<1>1. req.policy \in Policies
  BY TrainerAssumption DEF TypeOK, Request
<1>. QED BY <1>1, PlanType DEF Checkpoint, StateFiles, DayStatus

LEMMA PriorType ==
    ASSUME TypeOK, NEW r \in Requests
    PROVE  /\ PriorOf(r) \in {stateFile, NoState}
           /\ PriorOf(r) \in StateFiles
           /\ PriorOf(r).failures \subseteq Dates
BY NoStateType DEF PriorOf, ReadState, TypeOK, StateFiles

LEMMA RecordType ==
    ASSUME TypeOK, NEW d \in Dates, outcome[d] # "ORPHAN"
    PROVE  /\ RecordOf(d) \in DayStatus
           /\ outcome[d] = "NONE" => RecordOf(d) = days[d]
           /\ outcome[d] = "RAISED" => RecordOf(d) = "FAILED"
           /\ outcome[d] \notin {"NONE", "RAISED"} =>
                    RecordOf(d) = outcome[d] /\ outcome[d] # "NONE"
BY DEF RecordOf, TypeOK, Outcomes, DayStatus

-----------------------------------------------------------------------------
(* Type correctness. *)

LEMMA GoneType ==
    ASSUME ProcessGone
    PROVE  /\ prior' \in StateFiles /\ queue' \in Queues
           /\ todo' \subseteq Dates /\ failures' \subseteq Dates
           /\ pc' \in {"down", "aside", "open", "reconcile", "pool", "abort", "done"}
           /\ reset' \in BOOLEAN
           /\ days' \in [Dates -> DayStatus]
           /\ job' \in [Dates -> JobStates]
           /\ outcome' \in [Dates -> Outcomes \cup {"NONE"}]
BY NoStateType, EmptyQueueType DEF ProcessGone, NoDays, NoJobs, DayStatus, JobStates

LEMMA BeginType ==
    ASSUME TypeOK, NEW r \in Requests, Begin(r)
    PROVE  /\ stateFile' \in StateFiles /\ queueFile' \in Queues
           /\ artifacts' \subseteq Dates /\ req' \in Requests
           /\ launches' \in 0..MaxLaunches
           /\ crashes' \in 0..MaxCrashes /\ losses' \in 0..MaxLosses
BY NoStateType, TrainerAssumption DEF TypeOK, Begin

LEMMA TypeStep == TypeOK /\ [Next]_vars => TypeOK'
<1>. SUFFICES ASSUME TypeOK, [Next]_vars PROVE TypeOK'
  OBVIOUS
<1>1. ASSUME NEW r \in Requests, Launch(r) PROVE TypeOK'
  <2>1. Begin(r)
    BY <1>1 DEF Launch
  <2>2. /\ prior' \in StateFiles /\ failures' \subseteq Dates
        /\ queue' \in Queues /\ todo' \subseteq Dates
        /\ reset' \in BOOLEAN
        /\ pc' \in {"aside", "open"}
        /\ days' \in [Dates -> DayStatus]
        /\ job' \in [Dates -> JobStates]
        /\ outcome' \in [Dates -> Outcomes \cup {"NONE"}]
    <3>1. reset' \in BOOLEAN
      <4>1. (~r.resume \/ Supersedes(r)) \in BOOLEAN
        OBVIOUS
      <4>. QED BY <1>1, <4>1 DEF Launch
    <3>. QED BY <1>1, <3>1, PriorType DEF Launch, TypeOK, NoDays, NoJobs, DayStatus, JobStates
  <2>. QED BY <2>1, <2>2, BeginType DEF TypeOK
<1>2. ASSUME NEW r \in Requests, LaunchRejected(r) PROVE TypeOK'
  BY <1>2, BeginType, GoneType DEF LaunchRejected, TypeOK
<1>3. CASE SetQueueAside
  BY <1>3, EmptyQueueType DEF SetQueueAside, TypeOK, memory, counters
<1>4. CASE OpenQueue
  <2>1. queue' \in Queues /\ queueFile' \in Queues /\ todo' \subseteq Dates
    BY <1>4, PlanType, QueueTypes DEF OpenQueue, SaveQueue, TypeOK
  <2>. QED BY <1>4, <2>1 DEF OpenQueue, TypeOK, counters
<1>5. ASSUME NEW d \in Dates, Reconcile(d) PROVE TypeOK'
  <2>1. queue' \in Queues /\ queueFile' \in Queues /\ days' \in [Dates -> DayStatus]
    BY <1>5, QueueTypes DEF Reconcile, SaveQueue, TypeOK, DayStatus
  <2>. QED BY <1>5, <2>1 DEF Reconcile, TypeOK, counters
<1>6. CASE OpenPool
  BY <1>6 DEF OpenPool, TypeOK, JobStates, files, counters
<1>7. ASSUME NEW d \in Dates, Claim(d) PROVE TypeOK'
  <2>1. queue' \in Queues /\ queueFile' \in Queues /\ job' \in [Dates -> JobStates]
    BY <1>7, QueueTypes DEF Claim, SaveQueue, TypeOK, JobStates
  <2>. QED BY <1>7, <2>1 DEF Claim, TypeOK, counters
<1>8. ASSUME NEW d \in Dates, RunDay(d) PROVE TypeOK'
  <2>1. /\ artifacts' \subseteq Dates /\ job' \in [Dates -> JobStates]
        /\ outcome' \in [Dates -> Outcomes \cup {"NONE"}]
    BY <1>8, TrainerAssumption DEF RunDay, TypeOK, JobStates, Outcomes, DayStatus
  <2>. QED BY <1>8, <2>1 DEF RunDay, TypeOK, counters
<1>9. ASSUME NEW d \in Dates, Settle(d) PROVE TypeOK'
  <2>1. (outcome[d] # "UNSUPPORTED") \in BOOLEAN
    OBVIOUS
  <2>2. queue' \in Queues /\ queueFile' \in Queues /\ job' \in [Dates -> JobStates]
    BY <1>9, <2>1, QueueTypes DEF Settle, SaveQueue, TypeOK, JobStates
  <2>. QED BY <1>9, <2>2 DEF Settle, TypeOK, counters
<1>10. ASSUME NEW d \in Dates, Collect(d) PROVE TypeOK'
  <2>1. /\ days' \in [Dates -> DayStatus] /\ failures' \in SUBSET Dates
        /\ job' \in [Dates -> JobStates]
    BY <1>10, RecordType DEF Collect, TypeOK, JobStates
  <2>2. stateFile' \in StateFiles
    BY <1>10, <2>1, CheckpointType DEF Collect
  <2>. QED BY <1>10, <2>1, <2>2 DEF Collect, TypeOK, counters
<1>11. ASSUME NEW d \in Dates, CollectOrphan(d) PROVE TypeOK'
  BY <1>11 DEF CollectOrphan, TypeOK, JobStates, files, counters
<1>12. CASE Abort
  BY <1>12, GoneType DEF Abort, TypeOK, files, counters
<1>13. CASE Finish
  <2>1. stateFile' \in StateFiles
    BY <1>13, CheckpointType DEF Finish, TypeOK
  <2>. QED BY <1>13, <2>1 DEF Finish, TypeOK, memory, counters
<1>14. CASE Crash
  BY <1>14, GoneType, TrainerAssumption DEF Crash, TypeOK, files
<1>15. ASSUME NEW d \in Dates, LoseArtifact(d) PROVE TypeOK'
  BY <1>15, TrainerAssumption DEF LoseArtifact, TypeOK, memory
<1>16. CASE UNCHANGED vars
  BY <1>16 DEF vars, files, memory, counters, TypeOK
<1>17. CASE Process
  BY <1>3, <1>4, <1>5, <1>6, <1>7, <1>8, <1>9, <1>10, <1>11, <1>12, <1>13, <1>17
     DEF Process
<1>. QED BY <1>1, <1>2, <1>14, <1>15, <1>16, <1>17 DEF Next

LEMMA InitType == Init => TypeOK
<1>. SUFFICES ASSUME Init PROVE TypeOK
  OBVIOUS
<1>1. /\ days \in [Dates -> DayStatus] /\ job \in [Dates -> JobStates]
      /\ outcome \in [Dates -> Outcomes \cup {"NONE"}]
  BY DEF Init, NoDays, NoJobs, DayStatus, JobStates
<1>2. launches \in 0..MaxLaunches /\ crashes \in 0..MaxCrashes /\ losses \in 0..MaxLosses
  BY TrainerAssumption DEF Init
<1>. QED BY <1>1, <1>2, NoStateType, EmptyQueueType DEF Init, TypeOK

(* Type correctness. *)
THEOREM TypeCorrect == Spec => []TypeOK
BY InitType, TypeStep, PTL DEF Spec

-----------------------------------------------------------------------------
(* The inductive invariant, in parts. *)

Idle == pc \in {"down", "done"}
BeforePool == pc \in {"aside", "open", "reconcile"}

\* no day is both failed and reported otherwise, in memory and in the file
LedgerInv ==
    /\ NoStaleFailure
    /\ \A d \in prior.failures : prior.days[d] \in {"NONE", "FAILED"}
    /\ \A d \in failures : days[d] \in {"NONE", "FAILED"}
    /\ BeforePool => failures = prior.failures
    /\ pc = "reconcile" =>
        \A d \in Dates :
            days[d] # "NONE" => days[d] = "COMPLETE" /\ prior.days[d] = "COMPLETE"

\* once the queue is open, memory and file hold the same table, and nothing is
\* recorded before
QueueInv ==
    /\ pc = "down" => queue = EmptyQueue
    /\ pc \in {"reconcile", "pool", "abort", "done"} => queueFile = queue
    /\ pc \in {"down", "aside", "open"} => days = NoDays
    /\ pc = "reconcile" => \A d \in Dates : queue[d].status # "IN_PROGRESS"

\* where a future stands says what the queue knows, and a day whose future is
\* open has no record yet
JobInv ==
    \A d \in Dates :
        /\ job[d] # "none" => pc \in {"pool", "abort"} /\ days[d] = "NONE"
        /\ job[d] = "waiting" => queue[d].status = "PENDING"
        /\ job[d] \in {"running", "ran"} => queue[d].status = "IN_PROGRESS"
        /\ job[d] \in {"ran", "settled"} => outcome[d] # "NONE"
        /\ job[d] = "settled" =>
            /\ outcome[d] = "COMPLETE" => queue[d].status = "COMPLETE"
            /\ outcome[d] = "UNSUPPORTED" => queue[d].status = "FAILED"
            /\ outcome[d] \notin {"COMPLETE", "UNSUPPORTED"} =>
                    queue[d].status \in {"PENDING", "FAILED"}

\* every date of the plan is in the queue, and once the pool is open it has a
\* future, a record or a settled task
PlanInv ==
    /\ pc = "reconcile" => \A d \in runnable_dates : queue[d].status # "ABSENT"
    /\ pc \in {"pool", "done"} =>
        \A d \in runnable_dates :
            \/ job[d] # "none" /\ pc = "pool"
            \/ days[d] # "NONE"
            \/ queue[d].status \in {"COMPLETE", "FAILED"}

\* a launch that resumes plans from the state file it will overwrite
ResumeInv ==
    ~Idle /\ req.resume =>
        /\ BeforePool => stateFile = prior
        /\ \A d \in stateFile.dates :
            d \in dates /\ dataset_split[d] = stateFile.split[d]

\* the days it can reuse are done before the pool opens
ReuseInv ==
    ~Idle /\ req.resume =>
        \A d \in runnable_dates :
            stateFile.days[d] = "COMPLETE" /\ d \in artifacts =>
                /\ pc = "reconcile" /\ d \notin todo => queue[d].status = "COMPLETE"
                /\ job[d] # "waiting"

Parts ==
    /\ ReportAgreesWithQueue
    /\ LedgerInv /\ QueueInv /\ JobInv /\ PlanInv /\ ResumeInv /\ ReuseInv

IInv == TypeOK /\ Parts

-----------------------------------------------------------------------------
(* The start of a launch, and its unexpected end. *)

\* a process that is gone has nothing to agree with
LEMMA GoneParts ==
    ASSUME ProcessGone, NoStaleFailure'
    PROVE  Parts'
<1>1. /\ pc' = "down" /\ days' = NoDays /\ job' = NoJobs /\ prior' = NoState /\ failures' = {}
      /\ queue' = EmptyQueue
  BY DEF ProcessGone
<1>2. ReportAgreesWithQueue' /\ QueueInv'
  BY <1>1 DEF ReportAgreesWithQueue, QueueInv, NoDays
<1>3. LedgerInv'
  BY <1>1 DEF LedgerInv, NoState, NoDays, BeforePool
<1>4. JobInv' /\ PlanInv' /\ ResumeInv' /\ ReuseInv'
  BY <1>1 DEF JobInv, PlanInv, ResumeInv, ReuseInv, NoJobs, Idle
<1>. QED BY <1>2, <1>3, <1>4 DEF Parts

LEMMA BeginLedger ==
    ASSUME IInv, NEW r \in Requests, Begin(r)
    PROVE  /\ NoStaleFailure'
           /\ \A d \in PriorOf(r).failures : PriorOf(r).days[d] \in {"NONE", "FAILED"}
<1>1. stateFile' \in {stateFile, NoState} /\ PriorOf(r) \in {stateFile, NoState}
  BY PriorType DEF Begin, IInv
<1>. QED BY <1>1 DEF IInv, Parts, LedgerInv, NoStaleFailure, NoState

LEMMA LaunchStep ==
    ASSUME IInv, NEW r \in Requests, Launch(r)
    PROVE  Parts'
<1>1. /\ pc' \in {"aside", "open"} /\ days' = NoDays /\ job' = NoJobs
      /\ prior' = PriorOf(r) /\ failures' = PriorOf(r).failures
      /\ req' = r /\ Begin(r) /\ ~Rejected(r)
  BY DEF Launch, Begin
<1>2. ReportAgreesWithQueue' /\ QueueInv'
  BY <1>1 DEF ReportAgreesWithQueue, QueueInv, NoDays
<1>3. LedgerInv'
  <2>1. failures' \subseteq Dates
    BY <1>1, PriorType DEF IInv
  <2>2. \A d \in failures' : days'[d] = "NONE"
    BY <1>1, <2>1 DEF NoDays
  <2>3. NoStaleFailure' /\ \A d \in prior'.failures : prior'.days[d] \in {"NONE", "FAILED"}
    BY <1>1, BeginLedger
  <2>. QED BY <1>1, <2>2, <2>3 DEF LedgerInv
<1>4. JobInv' /\ PlanInv' /\ ReuseInv'
  <2>1. \A d \in Dates : job'[d] = "none"
    BY <1>1 DEF NoJobs
  <2>2. runnable_dates' \subseteq Dates
    BY DEF runnable_dates, Accessible
  <2>. QED BY <1>1, <2>1, <2>2 DEF JobInv, PlanInv, ReuseInv
<1>5. ResumeInv'
  <2>. SUFFICES ASSUME req'.resume
                PROVE  /\ stateFile' = prior'
                       /\ \A d \in stateFile'.dates :
                            d \in dates' /\ dataset_split'[d] = stateFile'.split[d]
    BY DEF ResumeInv
  <2>1. stateFile' = prior'
    BY <1>1 DEF Begin, PriorOf, ReadState
  <2>2. dates' = PriorOf(r).dates \cup r.dates /\ dataset_split' = Split(PriorOf(r).dates \cup r.dates)
    BY <1>1 DEF dates, dataset_split
  <2>. QED BY <1>1, <2>1, <2>2 DEF Rejected, MovesFrozenDate
<1>. QED BY <1>2, <1>3, <1>4, <1>5 DEF Parts

LEMMA SetQueueAsideStep ==
    ASSUME IInv, SetQueueAside
    PROVE  Parts'
<1>1. /\ pc = "aside" /\ pc' = "open" /\ days = NoDays
      /\ UNCHANGED <<stateFile, artifacts, req, prior, queue, todo, days, failures, job, outcome>>
  BY DEF SetQueueAside, memory, IInv, Parts, QueueInv
<1>2. dates' = dates /\ dataset_split' = dataset_split /\ runnable_dates' = runnable_dates
  BY <1>1, PlanSame
<1>3. ReportAgreesWithQueue' /\ QueueInv'
  BY <1>1 DEF ReportAgreesWithQueue, QueueInv, NoDays
<1>4. LedgerInv' /\ ResumeInv'
  BY <1>1, <1>2 DEF IInv, Parts, LedgerInv, NoStaleFailure, ResumeInv, Idle, BeforePool
<1>5. JobInv' /\ PlanInv' /\ ReuseInv'
  <2>1. \A d \in Dates : job[d] = "none"
    BY <1>1 DEF IInv, Parts, JobInv
  <2>. QED BY <1>1, <1>2, <2>1, PlanType DEF IInv, JobInv, PlanInv, ReuseInv
<1>. QED BY <1>3, <1>4, <1>5 DEF Parts

LEMMA OpenQueueStep ==
    ASSUME IInv, OpenQueue
    PROVE  Parts'
<1>1. /\ pc = "open" /\ pc' = "reconcile" /\ days = NoDays
      /\ queue' = Enqueued(Loaded(queueFile), runnable_dates) /\ queueFile' = queue'
      /\ todo' = runnable_dates
      /\ UNCHANGED <<stateFile, artifacts, req, prior, days, failures, job, outcome>>
  BY DEF OpenQueue, SaveQueue, IInv, Parts, QueueInv
<1>2. dates' = dates /\ dataset_split' = dataset_split /\ runnable_dates' = runnable_dates
  BY <1>1, PlanSame
<1>3. ASSUME NEW d \in Dates
      PROVE  /\ queue'[d].status # "IN_PROGRESS"
             /\ d \in runnable_dates => queue'[d].status # "ABSENT"
  <2>1. queueFile \in Queues /\ runnable_dates \in SUBSET Dates
    BY PlanType DEF IInv, TypeOK
  <2>. QED BY <1>1, <2>1, OpenEffect
<1>4. ReportAgreesWithQueue' /\ QueueInv'
  BY <1>1, <1>3 DEF ReportAgreesWithQueue, QueueInv, NoDays
<1>5. LedgerInv' /\ ResumeInv'
  BY <1>1, <1>2 DEF IInv, Parts, LedgerInv, NoStaleFailure, ResumeInv, Idle, BeforePool, NoDays
<1>6. JobInv'
  BY <1>1 DEF IInv, Parts, JobInv
<1>7. PlanInv'
  BY <1>1, <1>2, <1>3, PlanType DEF IInv, PlanInv
<1>8. ReuseInv'
  BY <1>1, <1>2, PlanType DEF IInv, Parts, ReuseInv, JobInv
<1>. QED BY <1>4, <1>5, <1>6, <1>7, <1>8 DEF Parts

\* one runnable date: reused, reopened or left as the queue has it
LEMMA ReconcileStep ==
    ASSUME IInv, NEW d \in Dates, Reconcile(d)
    PROVE  Parts'
<1>1. /\ pc = "reconcile" /\ pc' = "reconcile" /\ d \in todo /\ todo' = todo \ {d}
      /\ queueFile = queue
      /\ UNCHANGED <<stateFile, artifacts, req, prior, failures, job, outcome>>
  BY DEF Reconcile, IInv, Parts, QueueInv
<1>2. dates' = dates /\ dataset_split' = dataset_split /\ runnable_dates' = runnable_dates
  BY <1>1, PlanSame
<1>3. queue \in Queues /\ days \in [Dates -> DayStatus]
  BY DEF IInv, TypeOK
<1>4. \/ /\ prior.days[d] = "COMPLETE" /\ d \in artifacts
         /\ days' = [days EXCEPT ![d] = "COMPLETE"]
         /\ queue' = Completed(queue, d) /\ queueFile' = queue'
      \/ /\ ~(prior.days[d] = "COMPLETE" /\ d \in artifacts)
         /\ prior.days[d] = "PARTIAL" /\ days' = days
         /\ queue' = Reopened(queue, d) /\ queueFile' = queue'
      \/ /\ ~(prior.days[d] = "COMPLETE" /\ d \in artifacts)
         /\ UNCHANGED <<queue, queueFile, days>>
  BY DEF Reconcile, SaveQueue
<1>5. ASSUME NEW e \in Dates
      PROVE  /\ e # d => queue'[e].status = queue[e].status /\ days'[e] = days[e]
             /\ prior.days[d] = "COMPLETE" /\ d \in artifacts =>
                    queue'[d].status = "COMPLETE" /\ days'[d] = "COMPLETE"
             /\ ~(prior.days[d] = "COMPLETE" /\ d \in artifacts) =>
                    /\ days'[d] = days[d]
                    /\ prior.days[d] # "PARTIAL" => queue'[d].status = queue[d].status
             /\ queue'[e].status \in {queue[e].status, "PENDING", "COMPLETE"}
             /\ queueFile' = queue'
  BY <1>1, <1>3, <1>4, QueueEffects
<1>6. ReportAgreesWithQueue'
  <2>1. \A e \in Dates : days[e] # "NONE" => /\ days[e] = "COMPLETE"
                                             /\ prior.days[e] = "COMPLETE"
                                             /\ queue[e].status = "COMPLETE"
    BY <1>1 DEF IInv, Parts, LedgerInv, ReportAgreesWithQueue
  <2>. QED BY <1>5, <2>1 DEF ReportAgreesWithQueue
<1>7. QueueInv' /\ PlanInv'
  BY <1>1, <1>2, <1>5, PlanType DEF IInv, Parts, QueueInv, PlanInv
<1>8. LedgerInv'
  <2>1. \A e \in Dates : days'[e] # "NONE" => days'[e] = "COMPLETE" /\ prior.days[e] = "COMPLETE"
    BY <1>1, <1>5 DEF IInv, Parts, LedgerInv
  <2>2. \A e \in failures : e \in Dates /\ prior.days[e] \in {"NONE", "FAILED"}
    BY <1>1 DEF IInv, Parts, LedgerInv, BeforePool, TypeOK
  <2>3. \A e \in failures' : days'[e] \in {"NONE", "FAILED"}
    BY <1>1, <2>1, <2>2
  <2>. QED BY <1>1, <2>1, <2>3 DEF IInv, Parts, LedgerInv, NoStaleFailure, BeforePool
<1>9. JobInv' /\ ResumeInv'
  BY <1>1, <1>2 DEF IInv, Parts, JobInv, ResumeInv, Idle, BeforePool
<1>10. ReuseInv'
  <2>. SUFFICES ASSUME req.resume, NEW e \in runnable_dates,
                       stateFile.days[e] = "COMPLETE", e \in artifacts
                PROVE  (e \notin todo' => queue'[e].status = "COMPLETE") /\ job'[e] # "waiting"
    BY <1>1, <1>2 DEF ReuseInv
  <2>1. e \in Dates /\ ~Idle /\ stateFile = prior
    BY <1>1, PlanType DEF IInv, Parts, ResumeInv, Idle, BeforePool
  <2>. QED BY <1>1, <1>5, <2>1 DEF IInv, Parts, ReuseInv
<1>. QED BY <1>6, <1>7, <1>8, <1>9, <1>10 DEF Parts

LEMMA OpenPoolStep ==
    ASSUME IInv, OpenPool
    PROVE  Parts'
<1>1. /\ pc = "reconcile" /\ pc' = "pool" /\ todo = {}
      /\ job' = [d \in Dates |-> IF d \in Pending(queue) THEN "waiting" ELSE "none"]
      /\ UNCHANGED <<stateFile, queueFile, artifacts, req, prior, queue, days, failures, outcome>>
  BY DEF OpenPool, files
<1>2. dates' = dates /\ dataset_split' = dataset_split /\ runnable_dates' = runnable_dates
  BY <1>1, PlanSame
<1>3. \A d \in Dates : /\ job'[d] \in {"waiting", "none"}
                      /\ job'[d] = "waiting" <=> queue[d].status = "PENDING"
  BY <1>1 DEF Pending
<1>4. ReportAgreesWithQueue' /\ LedgerInv' /\ QueueInv'
  BY <1>1 DEF IInv, Parts, ReportAgreesWithQueue, LedgerInv, NoStaleFailure, QueueInv, BeforePool
<1>5. JobInv'
  <2>1. \A d \in Dates : queue[d].status = "PENDING" => days[d] = "NONE"
    BY <1>1 DEF IInv, Parts, LedgerInv, ReportAgreesWithQueue, QueueInv
  <2>. QED BY <1>1, <1>3, <2>1 DEF JobInv
<1>6. PlanInv'
  <2>1. ASSUME NEW d \in runnable_dates
        PROVE  job'[d] = "waiting" \/ queue[d].status \in {"COMPLETE", "FAILED"}
    <3>1. d \in Dates /\ queue[d].status \in TaskStatus
      BY PlanType DEF IInv, TypeOK, Queues
    <3>2. queue[d].status # "ABSENT" /\ queue[d].status # "IN_PROGRESS"
      BY <1>1, <3>1 DEF IInv, Parts, PlanInv, QueueInv
    <3>. QED BY <1>3, <3>1, <3>2 DEF TaskStatus
  <2>. QED BY <1>1, <1>2, <2>1 DEF PlanInv
<1>7. ResumeInv'
  BY <1>1, <1>2 DEF IInv, Parts, ResumeInv, Idle, BeforePool
<1>8. ReuseInv'
  <2>1. ASSUME req.resume, NEW d \in runnable_dates, stateFile.days[d] = "COMPLETE", d \in artifacts
        PROVE  job'[d] # "waiting"
    <3>1. d \in Dates /\ queue[d].status = "COMPLETE"
      BY <1>1, <2>1, PlanType DEF IInv, Parts, ReuseInv, Idle
    <3>. QED BY <1>3, <3>1
  <2>. QED BY <1>1, <1>2, <2>1 DEF ReuseInv
<1>. QED BY <1>4, <1>5, <1>6, <1>7, <1>8 DEF Parts

-----------------------------------------------------------------------------
(* The workers. *)

LEMMA ClaimStep ==
    ASSUME IInv, NEW d \in Dates, Claim(d)
    PROVE  Parts'
<1>1. /\ job[d] = "waiting" /\ pc \in {"pool", "abort"} /\ days[d] = "NONE"
      /\ queue[d].status = "PENDING" /\ queueFile = queue
  BY DEF Claim, IInv, Parts, JobInv, QueueInv
<1>2. /\ queue' = Claimed(queue, d) /\ queueFile' = queue' /\ job' = [job EXCEPT ![d] = "running"]
      /\ UNCHANGED <<stateFile, artifacts, pc, req, prior, todo, days, failures, outcome>>
  BY <1>1 DEF Claim, Claimable, SaveQueue
<1>3. dates' = dates /\ dataset_split' = dataset_split /\ runnable_dates' = runnable_dates
  BY <1>2, PlanSame
<1>4. ASSUME NEW e \in Dates
      PROVE  /\ e # d => queue'[e].status = queue[e].status /\ job'[e] = job[e]
             /\ queue'[d].status = "IN_PROGRESS" /\ job'[d] = "running"
  BY <1>2, QueueEffects DEF IInv, TypeOK
<1>5. ReportAgreesWithQueue' /\ LedgerInv' /\ QueueInv'
  BY <1>1, <1>2, <1>4
     DEF IInv, Parts, ReportAgreesWithQueue, LedgerInv, NoStaleFailure, QueueInv, BeforePool
<1>6. JobInv'
  BY <1>1, <1>2, <1>4 DEF IInv, Parts, JobInv
<1>7. PlanInv' /\ ResumeInv' /\ ReuseInv'
  BY <1>1, <1>2, <1>3, <1>4, PlanType
     DEF IInv, Parts, PlanInv, ResumeInv, ReuseInv, Idle, BeforePool
<1>. QED BY <1>5, <1>6, <1>7 DEF Parts

LEMMA RunDayStep ==
    ASSUME IInv, NEW d \in Dates, RunDay(d)
    PROVE  Parts'
<1>1. /\ job[d] = "running" /\ pc \in {"pool", "abort"}
      /\ job' = [job EXCEPT ![d] = "ran"] /\ artifacts' \subseteq artifacts \cup {d}
      /\ UNCHANGED <<stateFile, queueFile, pc, req, prior, queue, todo, days, failures>>
  BY DEF RunDay, IInv, Parts, JobInv
<1>2. dates' = dates /\ dataset_split' = dataset_split /\ runnable_dates' = runnable_dates
  BY <1>1, PlanSame
<1>3. ASSUME NEW e \in Dates
      PROVE  /\ e # d => job'[e] = job[e] /\ outcome'[e] = outcome[e]
             /\ job'[d] = "ran" /\ outcome'[d] # "NONE"
  BY <1>1, TrainerAssumption DEF RunDay, IInv, TypeOK
<1>4. ReportAgreesWithQueue' /\ LedgerInv' /\ QueueInv'
  BY <1>1 DEF IInv, Parts, ReportAgreesWithQueue, LedgerInv, NoStaleFailure, QueueInv, BeforePool
<1>5. JobInv'
  BY <1>1, <1>3 DEF IInv, Parts, JobInv
<1>6. PlanInv' /\ ResumeInv' /\ ReuseInv'
  BY <1>1, <1>2, <1>3, PlanType
     DEF IInv, Parts, PlanInv, ResumeInv, ReuseInv, Idle, BeforePool
<1>. QED BY <1>4, <1>5, <1>6 DEF Parts

LEMMA SettleStep ==
    ASSUME IInv, NEW d \in Dates, Settle(d)
    PROVE  Parts'
<1>1. /\ job[d] = "ran" /\ pc \in {"pool", "abort"} /\ days[d] = "NONE"
      /\ outcome[d] # "NONE" /\ queueFile = queue
      /\ job' = [job EXCEPT ![d] = "settled"] /\ queueFile' = queue'
      /\ UNCHANGED <<stateFile, artifacts, pc, req, prior, todo, days, failures, outcome>>
  BY DEF Settle, SaveQueue, IInv, Parts, JobInv, QueueInv
<1>2. dates' = dates /\ dataset_split' = dataset_split /\ runnable_dates' = runnable_dates
  BY <1>1, PlanSame
<1>3. ASSUME NEW e \in Dates
      PROVE  /\ e # d => queue'[e].status = queue[e].status /\ job'[e] = job[e]
             /\ job'[d] = "settled"
             /\ outcome[d] = "COMPLETE" => queue'[d].status = "COMPLETE"
             /\ outcome[d] = "UNSUPPORTED" => queue'[d].status = "FAILED"
             /\ outcome[d] # "COMPLETE" => queue'[d].status \in {"PENDING", "FAILED"}
  <2>1. queue \in Queues /\ (outcome[d] # "UNSUPPORTED") \in BOOLEAN
    BY DEF IInv, TypeOK
  <2>2. job' = [job EXCEPT ![d] = "settled"] /\ job \in [Dates -> JobStates]
    BY <1>1 DEF IInv, TypeOK
  <2>3. CASE outcome[d] = "COMPLETE"
    BY <2>1, <2>2, <2>3, QueueEffects DEF Settle, SaveQueue
  <2>4. CASE outcome[d] # "COMPLETE"
    <3>1. queue' = Failed(queue, d, outcome[d] # "UNSUPPORTED")
      BY <2>4 DEF Settle, SaveQueue
    <3>. QED BY <2>1, <2>2, <2>4, <3>1, FailEffect
  <2>. QED BY <2>3, <2>4
<1>4. ReportAgreesWithQueue' /\ LedgerInv' /\ QueueInv'
  BY <1>1, <1>3
     DEF IInv, Parts, ReportAgreesWithQueue, LedgerInv, NoStaleFailure, QueueInv, BeforePool
<1>5. JobInv'
  BY <1>1, <1>3 DEF IInv, Parts, JobInv
<1>6. PlanInv' /\ ResumeInv' /\ ReuseInv'
  BY <1>1, <1>2, <1>3, PlanType
     DEF IInv, Parts, PlanInv, ResumeInv, ReuseInv, Idle, BeforePool
<1>. QED BY <1>4, <1>5, <1>6 DEF Parts

-----------------------------------------------------------------------------
(* The main thread. *)

LEMMA CollectStep ==
    ASSUME IInv, NEW d \in Dates, Collect(d)
    PROVE  Parts'
<1>1. /\ pc = "pool" /\ job[d] = "settled" /\ outcome[d] \notin {"ORPHAN", "NONE"}
      /\ queueFile = queue
      /\ job' = [job EXCEPT ![d] = "none"] /\ days' = [days EXCEPT ![d] = RecordOf(d)]
      /\ stateFile' = Checkpoint(days', failures')
      /\ UNCHANGED <<queueFile, artifacts, pc, req, prior, queue, todo, outcome>>
  BY DEF Collect, IInv, Parts, JobInv, QueueInv
<1>2. dates' = dates /\ dataset_split' = dataset_split /\ runnable_dates' = runnable_dates
  BY <1>1, PlanSame
<1>3. /\ RecordOf(d) \in DayStatus
      /\ outcome[d] = "RAISED" => RecordOf(d) = "FAILED"
      /\ outcome[d] # "RAISED" => RecordOf(d) = outcome[d]
  BY <1>1, RecordType DEF IInv
<1>4. ASSUME NEW e \in Dates
      PROVE  /\ e # d => job'[e] = job[e] /\ days'[e] = days[e]
             /\ job'[d] = "none" /\ days'[d] = RecordOf(d)
  BY <1>1 DEF IInv, TypeOK
<1>5. /\ \A e \in failures' : e \in Dates /\ days'[e] \in {"NONE", "FAILED"}
      /\ failures' \in SUBSET Dates
  BY <1>3, <1>4 DEF Collect, IInv, TypeOK, Parts, LedgerInv
<1>6. /\ stateFile'.dates = dates /\ stateFile'.split = dataset_split
      /\ stateFile'.failures = failures'
      /\ \A e \in Dates : stateFile'.days[e] = IF e \in dates THEN days'[e] ELSE "NONE"
  <2>1. days' \in [Dates -> DayStatus] /\ failures' \in SUBSET Dates
    BY <1>1, <1>3, <1>5 DEF IInv, TypeOK
  <2>2. \A ds \in [Dates -> DayStatus], fs \in SUBSET Dates :
            /\ Checkpoint(ds, fs).dates = dates
            /\ Checkpoint(ds, fs).split = dataset_split
            /\ Checkpoint(ds, fs).failures = fs
            /\ \A e \in Dates : Checkpoint(ds, fs).days[e] = IF e \in dates THEN ds[e] ELSE "NONE"
    BY CheckpointType DEF IInv
  <2>3. /\ Checkpoint(days', failures').dates = dates
        /\ Checkpoint(days', failures').split = dataset_split
        /\ Checkpoint(days', failures').failures = failures'
        /\ \A e \in Dates :
                Checkpoint(days', failures').days[e] = IF e \in dates THEN days'[e] ELSE "NONE"
    BY <2>1, <2>2, Zenon
  <2>4. stateFile' = Checkpoint(days', failures')
    BY <1>1
  <2>. QED BY <2>3, <2>4
<1>7. ReportAgreesWithQueue'
  BY <1>1, <1>3, <1>4 DEF IInv, Parts, ReportAgreesWithQueue, JobInv
<1>8. LedgerInv'
  BY <1>1, <1>5, <1>6 DEF IInv, Parts, LedgerInv, NoStaleFailure, BeforePool
<1>9. QueueInv' /\ JobInv'
  BY <1>1, <1>4 DEF IInv, Parts, QueueInv, JobInv
<1>10. PlanInv'
  BY <1>1, <1>2, <1>3, <1>4, PlanType DEF IInv, Parts, PlanInv
<1>11. ResumeInv'
  BY <1>1, <1>2, <1>6 DEF ResumeInv, BeforePool
<1>12. ReuseInv'
  <2>1. ASSUME NEW e \in runnable_dates, stateFile'.days[e] = "COMPLETE"
        PROVE  job'[e] # "waiting"
    <3>1. e \in Dates
      BY PlanType DEF IInv
    <3>2. days'[e] = "COMPLETE"
      BY <1>6, <2>1, <3>1
    <3>3. e # d => job[e] = "none"
      BY <1>4, <3>1, <3>2 DEF IInv, Parts, JobInv
    <3>. QED BY <1>4, <3>1, <3>3
  <2>. QED BY <1>1, <1>2, <2>1 DEF ReuseInv
<1>. QED BY <1>7, <1>8, <1>9, <1>10, <1>11, <1>12 DEF Parts

LEMMA CollectOrphanStep ==
    ASSUME IInv, NEW d \in Dates, CollectOrphan(d)
    PROVE  Parts'
<1>1. /\ pc = "pool" /\ pc' = "abort" /\ job' = [job EXCEPT ![d] = "none"]
      /\ UNCHANGED <<stateFile, queueFile, artifacts, req, prior, queue, todo, days, failures, outcome>>
  BY DEF CollectOrphan, files
<1>2. dates' = dates /\ dataset_split' = dataset_split /\ runnable_dates' = runnable_dates
  BY <1>1, PlanSame
<1>3. ASSUME NEW e \in Dates
      PROVE  (e # d => job'[e] = job[e]) /\ job'[d] = "none"
  BY <1>1 DEF IInv, TypeOK
<1>4. ReportAgreesWithQueue' /\ LedgerInv' /\ QueueInv'
  BY <1>1 DEF IInv, Parts, ReportAgreesWithQueue, LedgerInv, NoStaleFailure, QueueInv, BeforePool
<1>5. JobInv' /\ PlanInv' /\ ResumeInv' /\ ReuseInv'
  BY <1>1, <1>2, <1>3, PlanType
     DEF IInv, Parts, JobInv, PlanInv, ResumeInv, ReuseInv, Idle, BeforePool
<1>. QED BY <1>4, <1>5 DEF Parts

LEMMA FinishStep ==
    ASSUME IInv, Finish
    PROVE  Parts'
<1>1. /\ pc = "pool" /\ pc' = "done" /\ \A d \in Dates : job[d] = "none"
      /\ stateFile' = Checkpoint(days, failures)
      /\ UNCHANGED <<queueFile, artifacts, req, prior, queue, todo, days, failures, job, outcome>>
  BY DEF Finish, memory
<1>2. dates' = dates /\ dataset_split' = dataset_split /\ runnable_dates' = runnable_dates
  BY <1>1, PlanSame
<1>3. /\ stateFile'.failures = failures
      /\ \A d \in Dates : stateFile'.days[d] = IF d \in dates THEN days[d] ELSE "NONE"
  BY <1>1, CheckpointType DEF IInv, TypeOK
<1>4. LedgerInv'
  BY <1>1, <1>3 DEF IInv, TypeOK, Parts, LedgerInv, NoStaleFailure, BeforePool
<1>5. ReportAgreesWithQueue' /\ QueueInv' /\ JobInv'
  BY <1>1 DEF IInv, Parts, ReportAgreesWithQueue, QueueInv, JobInv
<1>6. PlanInv' /\ ResumeInv' /\ ReuseInv'
  BY <1>1, <1>2, PlanType DEF IInv, Parts, PlanInv, ResumeInv, ReuseInv, Idle
<1>. QED BY <1>4, <1>5, <1>6 DEF Parts

LEMMA LoseArtifactStep ==
    ASSUME IInv, NEW d \in Dates, LoseArtifact(d)
    PROVE  Parts'
<1>1. /\ Idle
      /\ UNCHANGED <<stateFile, queueFile, pc, req, prior, queue, todo, days, failures, job, outcome>>
  BY DEF LoseArtifact, memory, Idle
<1>2. dates' = dates /\ dataset_split' = dataset_split /\ runnable_dates' = runnable_dates
  BY <1>1, PlanSame
<1>3. ReportAgreesWithQueue' /\ LedgerInv' /\ QueueInv' /\ JobInv'
  BY <1>1
     DEF IInv, Parts, ReportAgreesWithQueue, LedgerInv, NoStaleFailure, QueueInv, JobInv, BeforePool
<1>4. PlanInv' /\ ResumeInv' /\ ReuseInv'
  BY <1>1, <1>2 DEF IInv, Parts, PlanInv, ResumeInv, ReuseInv, Idle
<1>. QED BY <1>3, <1>4 DEF Parts

-----------------------------------------------------------------------------
(* The invariant holds. *)

LEMMA NextParts == IInv /\ [Next]_vars => Parts'
<1>. SUFFICES ASSUME IInv, [Next]_vars PROVE Parts'
  OBVIOUS
<1>1. ASSUME NEW r \in Requests, LaunchRejected(r) PROVE Parts'
  BY <1>1, BeginLedger, GoneParts DEF LaunchRejected
<1>2. CASE Abort \/ Crash
  <2>1. ProcessGone /\ stateFile' = stateFile
    BY <1>2 DEF Abort, Crash, files
  <2>. QED BY <2>1, GoneParts DEF IInv, Parts, LedgerInv, NoStaleFailure
<1>3. CASE UNCHANGED vars
  <2>1. UNCHANGED <<stateFile, queueFile, artifacts, pc, req, prior, queue, todo, days, failures, job, outcome>>
    BY <1>3 DEF vars, files, memory
  <2>2. dates' = dates /\ dataset_split' = dataset_split /\ runnable_dates' = runnable_dates
    BY <2>1, PlanSame
  <2>. QED
    BY <2>1, <2>2 DEF IInv, Parts, ReportAgreesWithQueue, LedgerInv, NoStaleFailure,
       QueueInv, JobInv, PlanInv, ResumeInv, ReuseInv, Idle, BeforePool
<1>4. CASE Process
  BY <1>2, <1>4, SetQueueAsideStep, OpenQueueStep, OpenPoolStep, FinishStep, ReconcileStep,
     ClaimStep, RunDayStep, SettleStep, CollectStep, CollectOrphanStep DEF Process
<1>. QED BY <1>1, <1>2, <1>3, <1>4, LaunchStep, LoseArtifactStep DEF Next

LEMMA InitIInv == Init => IInv
<1>. SUFFICES ASSUME Init PROVE IInv
  OBVIOUS
<1>1. /\ pc = "down" /\ days = NoDays /\ job = NoJobs /\ prior = NoState /\ failures = {}
      /\ stateFile = NoState /\ queue = EmptyQueue
  BY DEF Init
<1>2. ReportAgreesWithQueue /\ QueueInv /\ JobInv
  BY <1>1 DEF ReportAgreesWithQueue, QueueInv, JobInv, NoDays, NoJobs
<1>3. LedgerInv /\ PlanInv /\ ResumeInv /\ ReuseInv
  BY <1>1 DEF LedgerInv, NoStaleFailure, NoState, BeforePool, PlanInv, ResumeInv, ReuseInv, Idle
<1>. QED BY <1>2, <1>3, InitType DEF IInv, Parts

LEMMA Inductive == Spec => []IInv
<1>1. IInv /\ [Next]_vars => IInv'
  BY TypeStep, NextParts DEF IInv
<1>. QED BY <1>1, InitIInv, PTL DEF Spec

-----------------------------------------------------------------------------
(* What follows from it. *)

(* The report of a launch and the queue it shares with its workers agree at    *)
(* every moment.                                                               *)
THEOREM ReportsAgree == Spec => []ReportAgreesWithQueue
BY Inductive, PTL DEF IInv, Parts

(* No day is reported both done and failed.                                    *)
THEOREM FailuresAreCurrent == Spec => []NoStaleFailure
BY Inductive, PTL DEF IInv, Parts, LedgerInv

(* No date a launch was to run is forgotten when it ends.                      *)
THEOREM NothingForgotten == Spec => []NoRunnableDateForgotten
<1>1. IInv => NoRunnableDateForgotten
  BY DEF IInv, Parts, PlanInv, NoRunnableDateForgotten
<1>. QED BY <1>1, Inductive, PTL

(* An experiment that is resumed keeps each of its dates in its partition.     *)
THEOREM DatesStayPut == Spec => PartitionsFrozen
<1>. DEFINE Stays ==
        stateFile.dates # {} /\ stateFile'.dates # {} /\ req'.resume
        => \A d \in stateFile.dates :
            d \in stateFile'.dates /\ stateFile'.split[d] = stateFile.split[d]
<1>1. ASSUME IInv, [Next]_vars PROVE Stays
  <2>1. ASSUME NEW r \in Requests, Begin(r) PROVE Stays
    BY <2>1 DEF Begin, NoState
  <2>2. ASSUME NEW d \in Dates, Collect(d) PROVE Stays
    <3>1. stateFile' = Checkpoint(days', failures') /\ pc = "pool" /\ req' = req
      BY <2>2 DEF Collect
    <3>2. stateFile'.dates = dates /\ stateFile'.split = dataset_split
      BY <3>1 DEF Checkpoint
    <3>. QED BY <1>1, <3>1, <3>2 DEF IInv, Parts, ResumeInv, Idle
  <2>3. CASE Finish
    <3>1. stateFile' = Checkpoint(days, failures) /\ pc = "pool" /\ req' = req
      BY <2>3 DEF Finish, memory
    <3>2. stateFile'.dates = dates /\ stateFile'.split = dataset_split
      BY <3>1 DEF Checkpoint
    <3>. QED BY <1>1, <3>1, <3>2 DEF IInv, Parts, ResumeInv, Idle
  <2>4. CASE stateFile' = stateFile
    BY <2>4
  <2>5. CASE Process
    BY <2>2, <2>3, <2>4, <2>5
       DEF Process, SetQueueAside, OpenQueue, OpenPool, Abort, Reconcile, Claim, RunDay,
           Settle, CollectOrphan, files
  <2>6. CASE Crash \/ UNCHANGED vars
    BY <2>4, <2>6 DEF Crash, files, vars
  <2>7. ASSUME NEW d \in Dates, LoseArtifact(d) PROVE Stays
    BY <2>4, <2>7 DEF LoseArtifact
  <2>. QED BY <1>1, <2>1, <2>5, <2>6, <2>7 DEF Next, Launch, LaunchRejected
<1>. HIDE DEF IInv
<1>2. IInv /\ [Next]_vars => [Stays]_vars
  BY <1>1
<1>. QED BY <1>2, Inductive, PTL DEF Spec, PartitionsFrozen

(* A completed day whose artifact is on disk is not given to a worker again by *)
(* a launch that resumes and plans it.                                         *)
THEOREM CompletedDaysRest == Spec => NoCompletedDayRunsAgain
<1>. DEFINE Same(d) == queue'[d].attempts = queue[d].attempts
            Rests == \A d \in runnable_dates :
                req.resume /\ stateFile.days[d] = "COMPLETE" /\ d \in artifacts
                    => Same(d) \/ pc' # pc
<1>1. ASSUME IInv, [Next]_vars PROVE Rests
  <2>. USE <1>1
  <2>1. runnable_dates \subseteq Dates /\ queue \in Queues
    BY PlanType DEF IInv, TypeOK
  <2>2. CASE UNCHANGED queue \/ pc' # pc
    BY <2>2
  <2>3. ASSUME NEW r \in Requests, LaunchRejected(r) PROVE Rests
    BY <2>2, <2>3 DEF LaunchRejected, Begin, ProcessGone, IInv, Parts, QueueInv
  <2>4. ASSUME NEW r \in Requests, Launch(r) PROVE Rests
    BY <2>2, <2>4 DEF Launch
  <2>5. ASSUME NEW c \in Dates, Reconcile(c) PROVE Rests
    <3>1. queue' \in {queue, Completed(queue, c), Reopened(queue, c)}
      BY <2>5 DEF Reconcile, SaveQueue
    <3>2. ASSUME NEW d \in Dates PROVE Same(d)
      BY <2>1, <3>1, QueueEffects
    <3>. QED BY <2>1, <3>2
  <2>6. ASSUME NEW c \in Dates, Claim(c) PROVE Rests
    <3>1. job[c] = "waiting" /\ pc \in {"pool", "abort"} /\ queue' \in {queue, Claimed(queue, c)}
      BY <2>6 DEF Claim, SaveQueue, IInv, Parts, JobInv
    <3>2. ASSUME NEW d \in runnable_dates, req.resume, stateFile.days[d] = "COMPLETE", d \in artifacts
          PROVE  Same(d)
      <4>1. d # c
        BY <3>1, <3>2 DEF IInv, Parts, ReuseInv, Idle
      <4>2. d \in Dates
        BY <2>1, <3>2
      <4>3. Claimed(queue, c)[d].attempts = queue[d].attempts
        BY <2>1, <4>1, <4>2, QueueEffects
      <4>. QED BY <3>1, <4>3
    <3>. QED BY <3>2
  <2>7. ASSUME NEW c \in Dates, Settle(c) PROVE Rests
    <3>1. (outcome[c] # "UNSUPPORTED") \in BOOLEAN
      OBVIOUS
    <3>2. queue' \in {Completed(queue, c), Failed(queue, c, outcome[c] # "UNSUPPORTED")}
      BY <2>7 DEF Settle, SaveQueue
    <3>3. ASSUME NEW d \in Dates PROVE Same(d)
      <4>1. Completed(queue, c)[d].attempts = queue[d].attempts
        BY <2>1, QueueEffects
      <4>2. \A retryable \in BOOLEAN :
                Failed(queue, c, retryable)[d].attempts = queue[d].attempts
        BY <2>1, FailEffect
      <4>. QED BY <3>1, <3>2, <4>1, <4>2
    <3>. QED BY <2>1, <3>3
  <2>8. CASE Process
    BY <2>2, <2>5, <2>6, <2>7, <2>8
       DEF Process, SetQueueAside, OpenQueue, OpenPool, Abort, RunDay, Collect,
           CollectOrphan, Finish, ProcessGone, memory
  <2>9. CASE Crash \/ UNCHANGED vars \/ \E d \in Dates : LoseArtifact(d)
    BY <2>2, <2>9 DEF Crash, ProcessGone, vars, memory, LoseArtifact
  <2>. QED BY <2>3, <2>4, <2>8, <2>9 DEF Next
<1>. HIDE DEF IInv
<1>2. IInv /\ [Next]_vars => [Rests]_vars
  BY <1>1
<1>. QED BY <1>2, Inductive, PTL DEF Spec, NoCompletedDayRunsAgain
=============================================================================
