------------------------- MODULE QueueWorkersProofs --------------------------
(* Theorems about the threads that share a ReplayQueue, for every set of tasks *)
(* and workers, every number of attempts, runs and reopens.                    *)
EXTENDS QueueWorkers, TLAPS

-----------------------------------------------------------------------------
(* The methods of the queue keep its type. *)

LEMMA QueueTypes ==
    ASSUME NEW q \in Queues
    PROVE  /\ Loaded(q) \in Queues
           /\ \A items \in SUBSET Tasks : Enqueued(q, items) \in Queues
           /\ \A t \in Tasks : /\ Claimed(q, t) \in Queues
                               /\ Completed(q, t) \in Queues
                               /\ Reopened(q, t) \in Queues
                               /\ \A retryable \in BOOLEAN : Failed(q, t, retryable) \in Queues
<1>1. Loaded(q) \in Queues
  BY DEF Loaded, Queues, TaskStatus
<1>2. ASSUME NEW items \in SUBSET Tasks PROVE Enqueued(q, items) \in Queues
  BY DEF Enqueued, Queues, TaskStatus
<1>3. ASSUME NEW t \in Tasks
      PROVE  /\ Claimed(q, t) \in Queues
             /\ Completed(q, t) \in Queues
             /\ Reopened(q, t) \in Queues
             /\ \A retryable \in BOOLEAN : Failed(q, t, retryable) \in Queues
  BY DEF Claimed, Completed, Reopened, Failed, Queues, TaskStatus
<1>. QED BY <1>1, <1>2, <1>3

LEMMA EmptyQueueType == EmptyQueue \in Queues
BY DEF EmptyQueue, Queues, TaskStatus

LEMMA TypeStep == TypeOK /\ [Next]_vars => TypeOK'
<1>. SUFFICES ASSUME TypeOK, [Next]_vars PROVE TypeOK'
  OBVIOUS
<1>. USE DEF TypeOK
<1>1. CASE Start
  BY <1>1, QueueTypes, WorkersAssumption DEF Start
<1>2. ASSUME NEW items \in SUBSET Tasks, Enqueue(items) PROVE TypeOK'
  BY <1>2, QueueTypes DEF Enqueue, Save
<1>3. ASSUME NEW t \in Tasks, MarkDone(t) PROVE TypeOK'
  BY <1>3, QueueTypes DEF MarkDone, Save
<1>4. ASSUME NEW t \in Tasks, Reopen(t) PROVE TypeOK'
  <2>1. reopens[t] + 1 \in 0..MaxReopens
    BY <1>4, WorkersAssumption DEF Reopen
  <2>2. reopens' \in [Tasks -> 0..MaxReopens]
    BY <1>4, <2>1 DEF Reopen
  <2>3. file' \in Queues /\ memory' \in Queues
    BY <1>4, QueueTypes DEF Reopen, Save
  <2>. QED BY <1>4, <2>2, <2>3 DEF Reopen
<1>5. CASE OpenPool
  BY <1>5 DEF OpenPool, Pending
<1>6. ASSUME NEW w \in Workers, Finish(w) PROVE TypeOK'
  <2>1. lease[w] \in Tasks
    BY <1>6 DEF Finish
  <2>. QED BY <1>6, <2>1, QueueTypes DEF Finish, Save
<1>7. ASSUME NEW w \in Workers, NEW t \in Tasks, Claim(w, t) PROVE TypeOK'
  BY <1>7, QueueTypes DEF Claim, Save
<1>8. CASE Exit
  BY <1>8 DEF Exit
<1>9. CASE Crash
  BY <1>9 DEF Crash
<1>10. CASE UNCHANGED vars
  BY <1>10 DEF vars
<1>. QED
  BY <1>1, <1>2, <1>3, <1>4, <1>5, <1>6, <1>7, <1>8, <1>9, <1>10 DEF Next

(* Type correctness. *)
THEOREM TypeCorrect == Spec => []TypeOK
<1>1. Init => TypeOK
  BY EmptyQueueType, WorkersAssumption DEF Init, TypeOK
<1>. QED BY <1>1, TypeStep, PTL DEF Spec

-----------------------------------------------------------------------------
(* The inductive invariant.  A lease is held in a pool only and is marked in   *)
(* both copies of the table; the copies of a running process agree except for  *)
(* marks of an earlier run that _load has lifted in memory; and a pending task *)
(* has an attempt left, counting one more for each restart and each reopen.    *)

Agree(t) ==
    \/ memory[t].status = file[t].status
    \/ file[t].status = "IN_PROGRESS" /\ memory[t].status = "PENDING"

Budget(t) == MaxAttempts + reopens[t] + (starts - 1)

LeaseInv ==
    \A w \in Workers :
        lease[w] # NoTask => /\ phase = "pool"
                             /\ file[lease[w]].status = "IN_PROGRESS"
                             /\ memory[lease[w]].status = "IN_PROGRESS"

CopyInv == phase # "down" => \A t \in Tasks : Agree(t)

BudgetInv ==
    /\ phase # "down" => starts >= 1
    /\ \A t \in Tasks :
        /\ file[t].attempts <= Budget(t)
        /\ memory[t].attempts <= Budget(t)
        /\ phase # "down" /\ memory[t].status = "PENDING" => memory[t].attempts < Budget(t)

IInv == TypeOK /\ NoSharedTask /\ LeaseInv /\ CopyInv /\ BudgetInv

(* What each method leaves in the table, task by task. *)
LEMMA QueueEffects ==
    ASSUME NEW q \in Queues, NEW t \in Tasks, NEW u \in Tasks
    PROVE  /\ q[u].status \in TaskStatus /\ q[u].attempts \in Nat
           /\ Loaded(q)[u].status =
                (IF q[u].status = "IN_PROGRESS" THEN "PENDING" ELSE q[u].status)
           /\ Loaded(q)[u].attempts = q[u].attempts
           /\ Claimed(q, t)[u].status = (IF u = t THEN "IN_PROGRESS" ELSE q[u].status)
           /\ Claimed(q, t)[u].attempts =
                (IF u = t THEN q[u].attempts + 1 ELSE q[u].attempts)
           /\ Completed(q, t)[u].status = (IF u = t THEN "COMPLETE" ELSE q[u].status)
           /\ Completed(q, t)[u].attempts = q[u].attempts
           /\ Reopened(q, t)[u].status = (IF u = t THEN "PENDING" ELSE q[u].status)
           /\ Reopened(q, t)[u].attempts = q[u].attempts
BY DEF Queues, Loaded, Claimed, Completed, Reopened

LEMMA FailEffect ==
    ASSUME NEW q \in Queues, NEW t \in Tasks, NEW u \in Tasks, NEW retryable \in BOOLEAN
    PROVE  /\ u # t => Failed(q, t, retryable)[u].status = q[u].status
           /\ Failed(q, t, retryable)[t].status \in {"PENDING", "FAILED"}
           /\ Failed(q, t, retryable)[t].status = "PENDING" => q[t].attempts < MaxAttempts
           /\ Failed(q, t, retryable)[u].attempts = q[u].attempts
BY DEF Queues, Failed

LEMMA EnqueueEffect ==
    ASSUME NEW q \in Queues, NEW items \in SUBSET Tasks, NEW u \in Tasks
    PROVE  \/ Enqueued(q, items)[u] = q[u]
           \/ /\ q[u].status = "ABSENT"
              /\ Enqueued(q, items)[u] = [status |-> "PENDING", attempts |-> 0]
BY DEF Queues, Enqueued

LEMMA BudgetType ==
    ASSUME TypeOK, NEW t \in Tasks
    PROVE  Budget(t) \in Int /\ (starts >= 1 => MaxAttempts <= Budget(t))
BY MaxAttemptsAssumption, WorkersAssumption DEF TypeOK, Budget

LEMMA InitIInv == Init => IInv
<1>. SUFFICES ASSUME Init PROVE IInv
  OBVIOUS
<1>1. TypeOK
  BY EmptyQueueType, WorkersAssumption DEF Init, TypeOK
<1>2. NoSharedTask /\ LeaseInv /\ CopyInv
  BY DEF Init, NoSharedTask, LeaseInv, CopyInv
<1>3. BudgetInv
  BY MaxAttemptsAssumption DEF Init, BudgetInv, Budget, EmptyQueue
<1>. QED BY <1>1, <1>2, <1>3 DEF IInv

(* Leases: a claim needs PENDING, which no leased task is. *)
LEMMA NextLease == IInv /\ [Next]_vars => NoSharedTask' /\ LeaseInv'
<1>. SUFFICES ASSUME IInv, [Next]_vars PROVE NoSharedTask' /\ LeaseInv'
  OBVIOUS
<1>. USE DEF IInv, NoSharedTask, LeaseInv
<1>1. CASE Start
  BY <1>1 DEF Start
<1>2. ASSUME NEW items \in SUBSET Tasks, Enqueue(items) PROVE NoSharedTask' /\ LeaseInv'
  BY <1>2 DEF Enqueue
<1>3. ASSUME NEW t \in Tasks, MarkDone(t) \/ Reopen(t) PROVE NoSharedTask' /\ LeaseInv'
  BY <1>3 DEF MarkDone, Reopen
<1>4. CASE OpenPool
  BY <1>4 DEF OpenPool
<1>5. ASSUME NEW w \in Workers, Finish(w) PROVE NoSharedTask' /\ LeaseInv'
  <2>1. lease[w] \in Tasks
    BY <1>5 DEF Finish, TypeOK
  <2>2. NoSharedTask' /\ \A v \in Workers : lease'[v] # NoTask => lease'[v] = lease[v] /\ v # w
    BY <1>5 DEF Finish, TypeOK
  <2>3. ASSUME NEW v \in Workers, lease'[v] # NoTask
        PROVE  /\ phase' = "pool"
               /\ file'[lease'[v]].status = "IN_PROGRESS"
               /\ memory'[lease'[v]].status = "IN_PROGRESS"
    <3>1. lease'[v] = lease[v] /\ lease[v] # lease[w] /\ lease[v] \in Tasks /\ phase = "pool"
      BY <2>2, <2>3 DEF TypeOK
    <3>2. memory'[lease[v]].status = memory[lease[v]].status /\ file' = memory'
      <4>1. CASE Save(Completed(memory, lease[w]))
        BY <4>1, <2>1, <3>1, QueueEffects DEF Save, TypeOK
      <4>2. ASSUME NEW retryable \in BOOLEAN, Save(Failed(memory, lease[w], retryable))
            PROVE  memory'[lease[v]].status = memory[lease[v]].status /\ file' = memory'
        BY <4>2, <2>1, <3>1, FailEffect DEF Save, TypeOK
      <4>. QED BY <1>5, <4>1, <4>2 DEF Finish
    <3>. QED BY <1>5, <2>3, <3>1, <3>2 DEF Finish
  <2>. QED BY <2>2, <2>3
<1>6. ASSUME NEW w \in Workers, NEW t \in Tasks, Claim(w, t)
      PROVE  NoSharedTask' /\ LeaseInv'
  <2>1. CASE ~Claimable(memory, t)
    BY <1>6, <2>1 DEF Claim
  <2>2. CASE Claimable(memory, t)
    <3>1. /\ phase = "pool" /\ phase' = "pool"
          /\ memory' = Claimed(memory, t) /\ file' = memory'
          /\ lease' = [lease EXCEPT ![w] = t]
      BY <1>6, <2>2 DEF Claim, Save
    <3>2. \A v \in Workers : lease[v] # t
      BY <2>2, WorkersAssumption DEF Claimable
    <3>3. NoSharedTask'
      BY <3>1, <3>2 DEF TypeOK
    <3>4. ASSUME NEW v \in Workers, lease'[v] # NoTask
          PROVE  memory'[lease'[v]].status = "IN_PROGRESS"
      <4>1. lease'[v] \in Tasks /\ (v # w => lease'[v] = lease[v]) /\ (v = w => lease'[v] = t)
        BY <3>1, <3>4 DEF TypeOK
      <4>. QED BY <3>1, <3>4, <4>1, QueueEffects DEF TypeOK
    <3>. QED BY <3>1, <3>3, <3>4
  <2>. QED BY <2>1, <2>2
<1>7. CASE Exit
  BY <1>7 DEF Exit
<1>8. CASE Crash
  BY <1>8 DEF Crash
<1>9. CASE UNCHANGED vars
  BY <1>9 DEF vars
<1>. QED
  BY <1>1, <1>2, <1>3, <1>4, <1>5, <1>6, <1>7, <1>8, <1>9 DEF Next

(* The two copies of the table: every save makes them equal. *)
LEMMA NextCopy == IInv /\ [Next]_vars => CopyInv'
<1>. SUFFICES ASSUME IInv, [Next]_vars PROVE CopyInv'
  OBVIOUS
<1>. USE DEF IInv, CopyInv, Agree
<1>1. CASE Start
  BY <1>1, QueueEffects DEF Start, TypeOK
<1>2. CASE \E q : Save(q)
  BY <1>2 DEF Save
<1>3. CASE UNCHANGED <<file, memory>> /\ (phase' = phase \/ phase' = "down" \/ phase = "setup")
  BY <1>3
<1>. QED
  <2>1. ASSUME NEW w \in Workers, NEW t \in Tasks, Claim(w, t) PROVE CopyInv'
    BY <2>1, <1>2, <1>3 DEF Claim
  <2>. QED
    BY <2>1, <1>1, <1>2, <1>3
       DEF Next, Enqueue, MarkDone, Reopen, OpenPool, Finish, Exit, Crash, vars

(* Attempts: a task is pending again with its attempts used up only after a    *)
(* restart or a reopen, and each raises the budget by one.                     *)
LEMMA NextBudget == IInv /\ [Next]_vars => BudgetInv'
<1>. SUFFICES ASSUME IInv, [Next]_vars PROVE BudgetInv'
  OBVIOUS
<1>. USE DEF IInv, BudgetInv
<1>0. TypeOK /\ TypeOK'
  BY TypeStep
<1>1. \A t \in Tasks :
        /\ Budget(t) \in Int /\ Budget(t)' \in Int
        /\ file[t].attempts \in Nat /\ memory[t].attempts \in Nat
        /\ file'[t].attempts \in Nat /\ memory'[t].attempts \in Nat
  BY <1>0, BudgetType, MaxAttemptsAssumption, WorkersAssumption
     DEF TypeOK, Budget, Queues
\* a save that adds no attempt and leaves pending only what may be pending
<1>2. ASSUME phase # "down", phase' # "down", starts' = starts, file' = memory',
             \A t \in Tasks : Budget(t)' >= Budget(t),
             \A t \in Tasks :
                /\ memory'[t].attempts <= Budget(t)'
                /\ memory'[t].status = "PENDING" => memory'[t].attempts < Budget(t)'
      PROVE  BudgetInv'
  BY <1>2
<1>3. CASE Start
  <2>1. /\ starts' = starts + 1 /\ starts \in Nat /\ reopens' = reopens
        /\ file' = file /\ memory' = Loaded(file)
    BY <1>3, <1>0, WorkersAssumption DEF Start, TypeOK
  <2>2. ASSUME NEW t \in Tasks PROVE Budget(t)' = Budget(t) + 1
    <3>1. MaxAttempts \in Int /\ reopens[t] \in Int
      BY <1>0, MaxAttemptsAssumption, WorkersAssumption DEF TypeOK
    <3>. QED BY <2>1, <3>1 DEF Budget
  <2>3. \A t \in Tasks : memory'[t].attempts = file[t].attempts
    BY <2>1, <1>0, QueueEffects DEF TypeOK
  <2>. QED BY <1>1, <2>1, <2>2, <2>3
<1>4. ASSUME NEW items \in SUBSET Tasks, Enqueue(items) PROVE BudgetInv'
  <2>1. \A t \in Tasks : Budget(t)' = Budget(t)
    BY <1>4 DEF Enqueue, Budget
  <2>2. \A t \in Tasks : 0 < Budget(t)
    BY <1>0, <1>4, BudgetType, MaxAttemptsAssumption DEF Enqueue
  <2>3. memory' = Enqueued(memory, items)
    BY <1>4 DEF Enqueue, Save
  <2>4. ASSUME NEW t \in Tasks
        PROVE  /\ memory'[t].attempts <= Budget(t)'
               /\ memory'[t].status = "PENDING" => memory'[t].attempts < Budget(t)'
    <3>1. memory \in Queues
      BY <1>0 DEF TypeOK
    <3>2. \/ memory'[t] = memory[t]
          \/ memory'[t] = [status |-> "PENDING", attempts |-> 0]
      BY <3>1, <2>3, EnqueueEffect
    <3>. QED BY <1>1, <1>4, <2>1, <2>2, <3>2 DEF Enqueue
  <2>5. phase # "down" /\ phase' # "down" /\ starts' = starts /\ file' = memory'
    BY <1>4 DEF Enqueue, Save
  <2>. QED BY <1>1, <1>2, <2>1, <2>4, <2>5
<1>5. ASSUME NEW t \in Tasks, MarkDone(t) PROVE BudgetInv'
  <2>1. \A u \in Tasks : Budget(u)' = Budget(u)
    BY <1>5 DEF MarkDone, Budget
  <2>2. phase # "down" /\ phase' # "down" /\ starts' = starts /\ file' = memory'
        /\ memory' = Completed(memory, t)
    BY <1>5 DEF MarkDone, Save
  <2>3. ASSUME NEW u \in Tasks
        PROVE  /\ memory'[u].attempts <= Budget(u)'
               /\ memory'[u].status = "PENDING" => memory'[u].attempts < Budget(u)'
    BY <1>0, <1>1, <2>1, <2>2, QueueEffects DEF TypeOK
  <2>. QED BY <1>1, <1>2, <2>1, <2>2, <2>3
<1>6. ASSUME NEW t \in Tasks, Reopen(t) PROVE BudgetInv'
  <2>1. \A u \in Tasks : Budget(u)' = IF u = t THEN Budget(u) + 1 ELSE Budget(u)
    BY <1>6, <1>0, MaxAttemptsAssumption, WorkersAssumption DEF Reopen, Budget, TypeOK
  <2>2. phase # "down" /\ phase' # "down" /\ starts' = starts /\ file' = memory'
        /\ memory' = Reopened(memory, t)
    BY <1>6 DEF Reopen, Save
  <2>3. ASSUME NEW u \in Tasks
        PROVE  /\ memory'[u].attempts <= Budget(u)'
               /\ memory'[u].status = "PENDING" => memory'[u].attempts < Budget(u)'
    BY <1>0, <1>1, <2>1, <2>2, QueueEffects DEF TypeOK
  <2>. QED BY <1>1, <1>2, <2>1, <2>2, <2>3
<1>7. CASE OpenPool
  BY <1>7 DEF OpenPool, Budget
<1>8. ASSUME NEW w \in Workers, Finish(w) PROVE BudgetInv'
  <2>1. lease[w] \in Tasks /\ phase = "pool" /\ starts >= 1
    BY <1>8, <1>0 DEF Finish, TypeOK, LeaseInv
  <2>2. \A u \in Tasks : Budget(u)' = Budget(u) /\ MaxAttempts <= Budget(u)
    BY <1>8, <1>0, <2>1, BudgetType DEF Finish, Budget
  <2>3. ASSUME NEW u \in Tasks
        PROVE  /\ memory'[u].attempts <= Budget(u)'
               /\ memory'[u].status = "PENDING" => memory'[u].attempts < Budget(u)'
    <3>1. CASE memory' = Completed(memory, lease[w])
      BY <3>1, <1>0, <1>1, <2>1, <2>2, QueueEffects DEF TypeOK
    <3>2. ASSUME NEW retryable \in BOOLEAN, memory' = Failed(memory, lease[w], retryable)
          PROVE  /\ memory'[u].attempts <= Budget(u)'
                 /\ memory'[u].status = "PENDING" => memory'[u].attempts < Budget(u)'
      <4>1. memory'[u].attempts = memory[u].attempts
        BY <3>2, <1>0, <2>1, FailEffect DEF TypeOK
      <4>2. CASE u = lease[w]
        <5>1. memory'[u].status = "PENDING" => memory[u].attempts < MaxAttempts
          BY <3>2, <4>2, <1>0, <2>1, FailEffect DEF TypeOK
        <5>. QED BY <1>1, <2>2, <4>1, <5>1, MaxAttemptsAssumption
      <4>3. CASE u # lease[w]
        <5>1. memory'[u].status = memory[u].status
          BY <3>2, <4>3, <1>0, <2>1, FailEffect DEF TypeOK
        <5>. QED BY <1>1, <2>1, <2>2, <4>1, <5>1
      <4>. QED BY <4>2, <4>3
    <3>. QED BY <1>8, <3>1, <3>2 DEF Finish, Save
  <2>4. phase' = "pool" /\ starts' = starts /\ file' = memory'
    BY <1>8, <2>1 DEF Finish, Save
  <2>. QED BY <1>1, <1>2, <2>1, <2>2, <2>3, <2>4
<1>9. ASSUME NEW w \in Workers, NEW t \in Tasks, Claim(w, t) PROVE BudgetInv'
  <2>1. \A u \in Tasks : Budget(u)' = Budget(u)
    BY <1>9 DEF Claim, Budget
  <2>2. CASE ~Claimable(memory, t)
    BY <1>9, <2>1, <2>2 DEF Claim
  <2>3. CASE Claimable(memory, t)
    <3>1. phase # "down" /\ phase' # "down" /\ starts' = starts /\ file' = memory'
          /\ memory' = Claimed(memory, t)
      BY <1>9, <2>3 DEF Claim, Save
    <3>2. ASSUME NEW u \in Tasks
          PROVE  /\ memory'[u].attempts <= Budget(u)'
                 /\ memory'[u].status = "PENDING" => memory'[u].attempts < Budget(u)'
      BY <1>0, <1>1, <2>1, <2>3, <3>1, QueueEffects DEF TypeOK, Claimable
    <3>. QED BY <1>1, <1>2, <2>1, <3>1, <3>2
  <2>. QED BY <2>2, <2>3
<1>10. CASE Exit
  BY <1>10 DEF Exit, Budget
<1>11. CASE Crash
  BY <1>11 DEF Crash, Budget
<1>12. CASE UNCHANGED vars
  BY <1>12 DEF vars, Budget
<1>. QED
  BY <1>3, <1>4, <1>5, <1>6, <1>7, <1>8, <1>9, <1>10, <1>11, <1>12 DEF Next

LEMMA Inductive == Spec => []IInv
<1>1. IInv /\ [Next]_vars => IInv'
  BY TypeStep, NextLease, NextCopy, NextBudget DEF IInv
<1>. QED BY <1>1, InitIInv, PTL DEF Spec

-----------------------------------------------------------------------------
(* The properties. *)

(* No task is ever run by two workers at once, however stale and overlapping   *)
(* the lists they took from pending() are.                                     *)
THEOREM LeaseIsExclusive == Spec => []NoSharedTask
BY Inductive, PTL DEF IInv

(* Whatever runs when the process stops is found IN_PROGRESS by the next one.  *)
THEOREM RunningLeavesMark == Spec => []RunningIsMarked
<1>1. IInv => RunningIsMarked
  BY DEF IInv, LeaseInv, RunningIsMarked
<1>. QED BY <1>1, Inductive, PTL

(* The attempts of a task are bounded by max_attempts, restarts and reopens.   *)
THEOREM RetriesAreBounded == Spec => []RetryBudget
<1>1. IInv => RetryBudget
  BY DEF IInv, BudgetInv, Budget, RetryBudget
<1>. QED BY <1>1, Inductive, PTL

(* Only reopen takes a task out of COMPLETE: not a load after a stop, not an   *)
(* enqueue of the same date, not a worker with an old list.                    *)
THEOREM CompletionSurvives == Spec => CompletedWorkKept
<1>. DEFINE Kept(t) == file[t].status = "COMPLETE" /\ file'[t].status # "COMPLETE"
                        => reopens'[t] = reopens[t] + 1
<1>1. ASSUME IInv, [Next]_vars, NEW t \in Tasks PROVE Kept(t)
  <2>1. phase # "down" /\ file[t].status = "COMPLETE" => memory[t].status = "COMPLETE"
    BY <1>1 DEF IInv, CopyInv, Agree
  <2>2. memory \in Queues /\ TypeOK
    BY <1>1 DEF IInv, TypeOK
  <2>3. ASSUME NEW items \in SUBSET Tasks, Enqueue(items) PROVE Kept(t)
    BY <2>1, <2>2, <2>3, EnqueueEffect DEF Enqueue, Save
  <2>4. ASSUME NEW u \in Tasks, MarkDone(u) PROVE Kept(t)
    BY <2>1, <2>2, <2>4, QueueEffects DEF MarkDone, Save
  <2>5. ASSUME NEW u \in Tasks, Reopen(u) PROVE Kept(t)
    BY <2>1, <2>2, <2>5, QueueEffects DEF Reopen, Save, TypeOK
  <2>6. ASSUME NEW w \in Workers, Finish(w) PROVE Kept(t)
    <3>1. lease[w] \in Tasks /\ phase # "down" /\ memory[lease[w]].status = "IN_PROGRESS"
          /\ file[lease[w]].status = "IN_PROGRESS"
      BY <1>1, <2>2, <2>6 DEF Finish, TypeOK, IInv, LeaseInv
    <3>2. CASE Save(Completed(memory, lease[w]))
      BY <2>1, <2>2, <3>1, <3>2, QueueEffects DEF Save
    <3>3. ASSUME NEW retryable \in BOOLEAN, Save(Failed(memory, lease[w], retryable))
          PROVE  Kept(t)
      BY <2>1, <2>2, <3>1, <3>3, FailEffect DEF Save
    <3>. QED BY <2>6, <3>2, <3>3 DEF Finish
  <2>7. ASSUME NEW w \in Workers, NEW u \in Tasks, Claim(w, u) PROVE Kept(t)
    BY <2>1, <2>2, <2>7, QueueEffects DEF Claim, Claimable, Save
  <2>8. CASE UNCHANGED file
    BY <2>8
  <2>. QED
    BY <1>1, <2>3, <2>4, <2>5, <2>6, <2>7, <2>8
       DEF Next, Start, OpenPool, Exit, Crash, vars
<1>2. IInv /\ [Next]_vars =>
        [\A t \in Tasks :
            file[t].status = "COMPLETE" /\ file'[t].status # "COMPLETE"
                => reopens'[t] = reopens[t] + 1]_vars
  BY <1>1
<1>. QED BY <1>2, Inductive, PTL DEF Spec, CompletedWorkKept

-----------------------------------------------------------------------------
(* The refinement of WorkLease. *)

LEMMA BarValues ==
    ASSUME NEW t \in Tasks
    PROVE  /\ workBar[t] = IF Leased(t) THEN "leased" ELSE MeaningOf(file[t].status)
           /\ ~Leased(t) => holderBar[t] = NoWorker
BY DEF workBar, holderBar

(* The holder is the one worker that has the task. *)
LEMMA HolderIsUnique ==
    ASSUME TypeOK, NoSharedTask, NEW w \in Workers, NEW t \in Tasks, lease[w] = t
    PROVE  holderBar[t] = w
<1>1. \A v \in Workers : lease[v] = t => v = w
  BY WorkersAssumption DEF NoSharedTask
<1>2. HolderOf(t) = w
  BY <1>1 DEF HolderOf
<1>. QED BY <1>2 DEF holderBar, Leased

LEMMA BarStutter ==
    ASSUME UNCHANGED <<file, lease>>
    PROVE  UNCHANGED <<workBar, holderBar>>
BY DEF workBar, holderBar, Leased, HolderOf

(* A save by the one thread of the set-up phase. *)
LEMMA SetupBars ==
    ASSUME IInv, phase = "setup", file' = memory', lease' = lease
    PROVE  /\ \A t \in Tasks : ~Leased(t) /\ ~Leased(t)'
           /\ holderBar' = holderBar
           /\ \A t \in Tasks : /\ holderBar[t] = NoWorker
                               /\ workBar[t] = MeaningOf(memory[t].status)
                               /\ workBar'[t] = MeaningOf(memory'[t].status)
<1>1. \A t \in Tasks : ~Leased(t) /\ ~Leased(t)'
  BY WorkersAssumption DEF IInv, LeaseInv, Leased
<1>2. holderBar' = holderBar
  BY <1>1 DEF holderBar
<1>3. ASSUME NEW t \in Tasks
      PROVE  /\ holderBar[t] = NoWorker
             /\ workBar[t] = MeaningOf(memory[t].status)
             /\ workBar'[t] = MeaningOf(memory'[t].status)
  <2>1. Agree(t)
    BY DEF IInv, CopyInv
  <2>2. MeaningOf(file[t].status) = MeaningOf(memory[t].status)
    BY <2>1 DEF Agree, MeaningOf
  <2>. QED BY <1>1, <2>2 DEF workBar, holderBar
<1>. QED BY <1>1, <1>2, <1>3

LEMMA SetupStep ==
    ASSUME IInv, phase = "setup", lease' = lease,
           NEW t \in Tasks, memory[t].status # "ABSENT",
           NEW q \in {Completed(memory, t), Reopened(memory, t)}, Save(q)
    PROVE  Leases!Next
<1>. DEFINE outcome == IF q = Completed(memory, t) THEN "done" ELSE "open"
<1>1. /\ holderBar' = holderBar /\ holderBar[t] = NoWorker
      /\ \A u \in Tasks : /\ workBar[u] = MeaningOf(memory[u].status)
                          /\ workBar'[u] = MeaningOf(memory'[u].status)
  BY SetupBars DEF Save
<1>2. workBar[t] # "unknown"
  BY <1>1 DEF MeaningOf
<1>3. ASSUME NEW u \in Tasks
      PROVE  workBar'[u] = IF u = t THEN outcome ELSE workBar[u]
  <2>1. memory'[u].status = IF u = t
                            THEN (IF q = Completed(memory, t) THEN "COMPLETE" ELSE "PENDING")
                            ELSE memory[u].status
    BY QueueEffects DEF Save, IInv, TypeOK
  <2>. QED BY <1>1, <2>1 DEF MeaningOf
<1>4. workBar' = [workBar EXCEPT ![t] = outcome]
  BY <1>3 DEF workBar
<1>5. Leases!Reset(t, outcome)
  BY <1>1, <1>2, <1>4 DEF Leases!Reset
<1>6. outcome \in {"open", "done"}
  OBVIOUS
<1>. QED BY <1>5, <1>6 DEF Leases!Next

LEMMA EnqueueStep ==
    ASSUME IInv, NEW items \in SUBSET Tasks, Enqueue(items)
    PROVE  Leases!Next
<1>. DEFINE fresh == {t \in Tasks : workBar[t] = "unknown" /\ workBar'[t] = "open"}
<1>1. /\ holderBar' = holderBar
      /\ \A t \in Tasks : /\ workBar[t] = MeaningOf(memory[t].status)
                          /\ workBar'[t] = MeaningOf(memory'[t].status)
  BY SetupBars DEF Enqueue, Save
<1>2. ASSUME NEW t \in Tasks
      PROVE  workBar'[t] = IF t \in fresh THEN "open" ELSE workBar[t]
  <2>1. \/ memory'[t] = memory[t]
        \/ memory[t].status = "ABSENT" /\ memory'[t].status = "PENDING"
    BY EnqueueEffect DEF Enqueue, Save, IInv, TypeOK
  <2>. QED BY <1>1, <2>1 DEF MeaningOf
<1>3. workBar' = [t \in Tasks |-> IF t \in fresh THEN "open" ELSE workBar[t]]
  BY <1>2 DEF workBar
<1>4. Leases!Offer(fresh)
  BY <1>1, <1>3 DEF Leases!Offer
<1>5. fresh \in SUBSET Tasks
  OBVIOUS
<1>. QED BY <1>4, <1>5 DEF Leases!Next

LEMMA ClaimStep ==
    ASSUME IInv, NEW w \in Workers, NEW t \in Tasks, Claim(w, t), Claimable(memory, t)
    PROVE  Leases!Next
<1>1. /\ phase = "pool" /\ lease[w] = NoTask
      /\ file' = Claimed(memory, t) /\ lease' = [lease EXCEPT ![w] = t]
  BY DEF Claim, Save
<1>2. TypeOK /\ memory \in Queues
  BY DEF IInv, TypeOK
<1>3. \A u \in Tasks : Agree(u)
  BY <1>1 DEF IInv, CopyInv
<1>4. ~Leased(t) /\ workBar[t] = "open"
  <2>1. ~Leased(t)
    BY WorkersAssumption DEF Claimable, IInv, LeaseInv, Leased
  <2>2. file[t].status \in {"PENDING", "IN_PROGRESS"}
    BY <1>3 DEF Claimable, Agree
  <2>. QED BY <2>1, <2>2 DEF workBar, MeaningOf
<1>5. Leased(t)' /\ \A u \in Tasks \ {t} : Leased(u)' <=> Leased(u)
  <2>1. lease'[w] = t
    BY <1>1, <1>2 DEF TypeOK
  <2>2. ASSUME NEW v \in Workers, v # w PROVE lease'[v] = lease[v]
    BY <1>1, <1>2, <2>2 DEF TypeOK
  <2>. QED BY <1>1, <2>1, <2>2, WorkersAssumption DEF Leased
<1>6. ASSUME NEW u \in Tasks, u # t PROVE workBar'[u] = workBar[u]
  <2>1. file'[u].status = memory[u].status
    BY <1>1, <1>2, <1>6, QueueEffects
  <2>2. MeaningOf(file'[u].status) = MeaningOf(file[u].status)
    BY <1>3, <2>1 DEF Agree, MeaningOf
  <2>. QED BY <1>5, <1>6, <2>2 DEF workBar
<1>7. workBar' = [workBar EXCEPT ![t] = "leased"]
  BY <1>5, <1>6 DEF workBar
<1>8. holderBar' = [holderBar EXCEPT ![t] = w]
  <2>1. ASSUME NEW v \in Workers PROVE lease'[v] = t <=> v = w
    BY <1>1, <1>2, <1>4 DEF TypeOK, Leased
  <2>2. HolderOf(t)' = w
    BY <2>1 DEF HolderOf
  <2>3. ASSUME NEW u \in Tasks, u # t PROVE HolderOf(u)' = HolderOf(u)
    <3>1. \A v \in Workers : lease'[v] = u <=> lease[v] = u
      BY <1>1, <1>2, <2>3, WorkersAssumption DEF TypeOK
    <3>. QED BY <3>1 DEF HolderOf
  <2>4. \A u \in Tasks : holderBar'[u] = IF u = t THEN w ELSE holderBar[u]
    BY <1>5, <2>2, <2>3 DEF holderBar
  <2>. QED BY <2>4 DEF holderBar
<1>9. Leases!Lease(w, t)
  BY <1>4, <1>7, <1>8 DEF Leases!Lease
<1>. QED BY <1>9 DEF Leases!Next

LEMMA FinishStep ==
    ASSUME IInv, NEW w \in Workers, Finish(w), NEW t \in Tasks, lease[w] = t
    PROVE  Leases!Next
<1>. DEFINE outcome == MeaningOf(file'[t].status)
<1>1. lease[w] # NoTask /\ phase = "pool" /\ TypeOK /\ memory \in Queues
      /\ lease' = [lease EXCEPT ![w] = NoTask]
  BY DEF Finish, IInv, TypeOK, LeaseInv
<1>2. \A u \in Tasks : Agree(u)
  BY <1>1 DEF IInv, CopyInv
<1>3. /\ file'[t].status \in {"COMPLETE", "PENDING", "FAILED"}
      /\ \A u \in Tasks : u # t => file'[u].status = memory[u].status
  <2>1. CASE Save(Completed(memory, t))
    BY <1>1, <2>1, QueueEffects DEF Save
  <2>2. ASSUME NEW retryable \in BOOLEAN, Save(Failed(memory, t, retryable))
        PROVE  /\ file'[t].status \in {"COMPLETE", "PENDING", "FAILED"}
               /\ \A u \in Tasks : u # t => file'[u].status = memory[u].status
    BY <1>1, <2>2, FailEffect DEF Save
  <2>. QED BY <2>1, <2>2 DEF Finish
<1>4. \A v \in Workers : lease[v] = t <=> v = w
  BY <1>1 DEF IInv, NoSharedTask
<1>5. ~Leased(t)' /\ \A u \in Tasks \ {t} : Leased(u)' <=> Leased(u)
  <2>1. lease'[w] = NoTask
    BY <1>1 DEF TypeOK
  <2>2. ASSUME NEW v \in Workers, v # w PROVE lease'[v] = lease[v]
    BY <1>1, <2>2 DEF TypeOK
  <2>. QED BY <1>1, <1>4, <2>1, <2>2, WorkersAssumption DEF Leased
<1>6. ASSUME NEW u \in Tasks, u # t PROVE workBar'[u] = workBar[u]
  <2>1. MeaningOf(file'[u].status) = MeaningOf(file[u].status)
    BY <1>2, <1>3, <1>6 DEF Agree, MeaningOf
  <2>. QED BY <1>5, <1>6, <2>1 DEF workBar
<1>7. workBar' = [workBar EXCEPT ![t] = outcome]
  <2>1. workBar'[t] = outcome
    BY <1>1, <1>5 DEF workBar
  <2>. HIDE DEF outcome
  <2>2. \A u \in Tasks : workBar'[u] = IF u = t THEN outcome ELSE workBar[u]
    BY <1>6, <2>1
  <2>. QED BY <1>1, <2>2 DEF workBar
<1>8. holderBar' = [holderBar EXCEPT ![t] = NoWorker]
  <2>1. ASSUME NEW u \in Tasks, u # t PROVE HolderOf(u)' = HolderOf(u)
    <3>1. \A v \in Workers : lease'[v] = u <=> lease[v] = u
      BY <1>1, <2>1, WorkersAssumption DEF TypeOK
    <3>. QED BY <3>1 DEF HolderOf
  <2>2. \A u \in Tasks : holderBar'[u] = IF u = t THEN NoWorker ELSE holderBar[u]
    BY <1>5, <2>1 DEF holderBar
  <2>. QED BY <2>2 DEF holderBar
<1>9. holderBar[t] = w
  BY <1>1, HolderIsUnique DEF IInv
<1>10. Leases!Settle(w, t, outcome)
  BY <1>7, <1>8, <1>9 DEF Leases!Settle
<1>11. outcome \in {"open", "done", "dropped"}
  BY <1>3 DEF MeaningOf
<1>. QED BY <1>1, <1>10, <1>11 DEF Leases!Next

LEMMA CrashStep ==
    ASSUME IInv, Crash
    PROVE  Leases!Next
<1>1. \A t \in Tasks : ~Leased(t)'
  BY WorkersAssumption DEF Crash, Leased
<1>2. holderBar' = [t \in Tasks |-> NoWorker]
  BY <1>1 DEF holderBar
<1>3. ASSUME NEW t \in Tasks
      PROVE  workBar'[t] = IF workBar[t] = "leased" THEN "open" ELSE workBar[t]
  <2>1. workBar'[t] = MeaningOf(file[t].status)
    BY <1>1 DEF workBar, Crash
  <2>2. Leased(t) => file[t].status = "IN_PROGRESS"
    BY WorkersAssumption DEF IInv, LeaseInv, Leased
  <2>3. workBar[t] = IF Leased(t) THEN "leased" ELSE MeaningOf(file[t].status)
    BY BarValues
  <2>. QED BY <2>1, <2>2, <2>3 DEF MeaningOf
<1>4. workBar' = [t \in Tasks |-> IF workBar[t] = "leased" THEN "open" ELSE workBar[t]]
  BY <1>3 DEF workBar
<1>5. Leases!Recall
  BY <1>2, <1>4 DEF Leases!Recall
<1>. QED BY <1>5 DEF Leases!Next

(* The threads, their lists, their two copies of the table and the stops of    *)
(* the process implement the lease that the rest of the code relies on.        *)
THEOREM QueueImplementsLease == Spec => ImplementsWorkLease
<1>1. Init => Leases!Init
  <2>. SUFFICES ASSUME Init PROVE Leases!Init
    OBVIOUS
  <2>1. \A t \in Tasks : ~Leased(t) /\ file[t].status = "ABSENT"
    BY WorkersAssumption DEF Init, Leased, EmptyQueue
  <2>2. workBar = [t \in Tasks |-> "unknown"] /\ holderBar = [t \in Tasks |-> NoWorker]
    BY <2>1 DEF workBar, holderBar, MeaningOf
  <2>. QED BY <2>2 DEF Leases!Init
<1>2. IInv /\ [Next]_vars => [Leases!Next]_<<workBar, holderBar>>
  <2>. SUFFICES ASSUME IInv, [Next]_vars
                PROVE  Leases!Next \/ UNCHANGED <<workBar, holderBar>>
    OBVIOUS
  <2>1. ASSUME NEW items \in SUBSET Tasks, Enqueue(items) PROVE Leases!Next
    BY <2>1, EnqueueStep
  <2>2. ASSUME NEW t \in Tasks, MarkDone(t) \/ Reopen(t) PROVE Leases!Next
    BY <2>2, SetupStep DEF MarkDone, Reopen
  <2>3. ASSUME NEW w \in Workers, Finish(w) PROVE Leases!Next
    <3>1. lease[w] \in Tasks
      BY <2>3 DEF Finish, IInv, TypeOK
    <3>. QED BY <2>3, <3>1, FinishStep
  <2>4. ASSUME NEW w \in Workers, NEW t \in Tasks, Claim(w, t)
        PROVE  Leases!Next \/ UNCHANGED <<workBar, holderBar>>
    <3>1. CASE Claimable(memory, t)
      BY <2>4, <3>1, ClaimStep
    <3>2. CASE ~Claimable(memory, t)
      BY <2>4, <3>2, BarStutter DEF Claim
    <3>. QED BY <3>1, <3>2
  <2>5. CASE Crash
    BY <2>5, CrashStep
  <2>6. CASE UNCHANGED <<file, lease>>
    BY <2>6, BarStutter
  <2>. QED
    BY <2>1, <2>2, <2>3, <2>4, <2>5, <2>6 DEF Next, Start, OpenPool, Exit, vars
<1>. QED BY <1>1, <1>2, Inductive, PTL DEF Spec, ImplementsWorkLease, Leases!Spec, Leases!leaseVars
=============================================================================
