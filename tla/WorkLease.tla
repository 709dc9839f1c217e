------------------------------ MODULE WorkLease ------------------------------
(* What a resumable work queue promises to the code around it, without its     *)
(* table, its file or its lists: work is offered, leased to one worker at a    *)
(* time, settled by the worker that holds the lease, recalled when the process *)
(* stops, and taken up again only when somebody asks for it.                   *)
CONSTANTS Tasks, Workers, NoWorker

VARIABLES
    work,       \* "unknown", "open", "leased", "done" or "dropped"
    holder      \* the worker that holds the lease, or NoWorker

leaseVars == <<work, holder>>

WorkStates == {"unknown", "open", "leased", "done", "dropped"}

Init ==
    /\ work = [t \in Tasks |-> "unknown"]
    /\ holder = [t \in Tasks |-> NoWorker]

\* new work is offered; known work is not touched
Offer(ts) ==
    /\ \A t \in ts : work[t] = "unknown"
    /\ work' = [t \in Tasks |-> IF t \in ts THEN "open" ELSE work[t]]
    /\ UNCHANGED holder

Lease(w, t) ==
    /\ work[t] = "open"
    /\ work' = [work EXCEPT ![t] = "leased"]
    /\ holder' = [holder EXCEPT ![t] = w]

\* only the holder settles, and gives its lease back in doing so
Settle(w, t, outcome) ==
    /\ holder[t] = w
    /\ work' = [work EXCEPT ![t] = outcome]
    /\ holder' = [holder EXCEPT ![t] = NoWorker]

\* the process stops: every lease is open work again, nothing else changes
Recall ==
    /\ work' = [t \in Tasks |-> IF work[t] = "leased" THEN "open" ELSE work[t]]
    /\ holder' = [t \in Tasks |-> NoWorker]

\* work that nobody holds is marked done, or opened again, by its owner
Reset(t, outcome) ==
    /\ work[t] # "unknown"
    /\ holder[t] = NoWorker
    /\ work' = [work EXCEPT ![t] = outcome]
    /\ UNCHANGED holder

Next ==
    \/ \E ts \in SUBSET Tasks : Offer(ts)
    \/ \E w \in Workers, t \in Tasks :
        \/ Lease(w, t)
        \/ \E outcome \in {"open", "done", "dropped"} : Settle(w, t, outcome)
    \/ Recall
    \/ \E t \in Tasks, outcome \in {"open", "done"} : Reset(t, outcome)

Spec == Init /\ [][Next]_leaseVars
=============================================================================
