--------------------------- MODULE ReferenceCache ----------------------------
(* The disk cache of lagged ticker details (trainer/reference_cache.py), over  *)
(* the batches of many days.  get_many() answers what it can from files of the *)
(* same quarter, lets threads fetch the rest with retries, and collects their  *)
(* results as they come.  The process may stop at any point; a file is written *)
(* in one step (a temporary file that replaces the old one).                   *)
EXTENDS Integers, FiniteSets

CONSTANTS
    Tickers,
    Listings,       \* the sets of tickers a batch may ask for
    Dates,          \* lagged dates, in the order of the calendar
    Quarter,        \* the quarter of a date
    Overviews,      \* what the provider may say of a ticker
    MAX_TRANSIENT_RETRIES,
    ProviderRetries,    \* retry counts the provider's errors may carry
    max_workers,
    MaxBatches,     \* bound: calls of get_many()
    MaxCrashes      \* bound: of them, those that stop half-way

ASSUME DatesAssumption == Dates \subseteq Nat /\ Quarter \in [Dates -> Nat]
ASSUME ListingsAssumption == Listings \subseteq SUBSET Tickers
ASSUME OverviewsAssumption == "NONE" \notin Overviews /\ "MISS" \notin Overviews
ASSUME RetriesAssumption ==
    MAX_TRANSIENT_RETRIES \in Nat /\ ProviderRetries \subseteq Nat /\ max_workers \in Nat \ {0}

VARIABLES
    entries,    \* the file of a ticker and date: an overview, "MISS" or "NONE"
    pc,         \* "idle", "lookup", "pool", or "raised" with threads still busy
    lagged_date,\* of the running batch
    task,       \* per ticker: how far the batch is with it
    retries,    \* cache_retries of the thread that fetches it
    reply,      \* what the provider has told that thread
    given,      \* the last answer any batch has given for a ticker and date
    batches, crashes
vars == <<entries, pc, lagged_date, task, retries, reply, given, batches, crashes>>

-----------------------------------------------------------------------------
Contents == Overviews \cup {"MISS"}

\* an answer: what it says and its provider_query_date
Answers == [says: Contents, from: Dates]
NoAnswer == [says |-> "NONE", from |-> 0]

\* unlisted: not of this batch; queued: to look up; waiting: submitted;
\* calling: in the provider; writing: its reply is final; settled, failed,
\* broken: how the future ended; collected: its item is there
TaskStates == {"unlisted", "queued", "waiting", "calling", "writing", "settled",
               "failed", "broken", "error", "collected"}
NoTasks == [t \in Tickers |-> "unlisted"]

InTask(states) == {t \in Tickers : task[t] \in states}
Running == InTask({"calling", "writing"})

Init ==
    /\ entries = [t \in Tickers |-> [d \in Dates |-> "NONE"]]
    /\ pc = "idle" /\ lagged_date = 0
    /\ task = NoTasks
    /\ retries = [t \in Tickers |-> 0]
    /\ reply = [t \in Tickers |-> "NONE"]
    /\ given = [t \in Tickers |-> [d \in Dates |-> NoAnswer]]
    /\ batches = 0 /\ crashes = 0

-----------------------------------------------------------------------------
(* _reusable_path()                                                            *)

\* mutant: a later snapshot of the quarter will do as well
AnyOfQuarter(t, d, e) == Quarter[e] = Quarter[d] /\ entries[t][e] \in Overviews

\* an overview of an earlier date of the quarter, or of the date itself
Candidate(t, d, e) == Quarter[e] = Quarter[d] /\ e <= d /\ entries[t][e] \in Overviews

\* mutant: the first file found answers
AnySource(t, d, e) == Candidate(t, d, e) \/ (e = d /\ entries[t][d] # "NONE")

\* e is the date whose file answers for d: d itself whatever the file says, or
\* else the closest candidate
Source(t, d, e) ==
    \/ e = d /\ entries[t][d] # "NONE"
    \/ /\ entries[t][d] = "NONE"
       /\ Candidate(t, d, e)
       /\ \A f \in Dates : Candidate(t, d, f) => f <= e

Known(t, d) == entries[t][d] # "NONE" \/ \E e \in Dates : Candidate(t, d, e)

-----------------------------------------------------------------------------
(* get_many(): the calling thread                                              *)

Begin(ts, d) ==
    /\ pc = "idle" /\ batches < MaxBatches
    /\ pc' = "lookup" /\ lagged_date' = d
    /\ task' = [t \in Tickers |-> IF t \in ts THEN "queued" ELSE "unlisted"]
    /\ batches' = batches + 1
    /\ UNCHANGED <<entries, retries, reply, given, crashes>>

\* the result a caller gets: the overview or the miss, and its provider_query_date
Give(t, says, from) == given' = [given EXCEPT ![t][lagged_date] = [says |-> says, from |-> from]]

LookupHit(t, e) ==
    /\ pc = "lookup" /\ task[t] = "queued"
    /\ Source(t, lagged_date, e)
    /\ Give(t, entries[t][e], e)
    /\ task' = [task EXCEPT ![t] = "collected"]
    /\ UNCHANGED <<entries, pc, lagged_date, retries, reply, batches, crashes>>

LookupMiss(t) ==
    /\ pc = "lookup" /\ task[t] = "queued"
    /\ ~Known(t, lagged_date)
    /\ task' = [task EXCEPT ![t] = "waiting"]
    /\ UNCHANGED <<entries, pc, lagged_date, retries, reply, given, batches, crashes>>

OpenPool ==
    /\ pc = "lookup" /\ InTask({"queued"}) = {}
    /\ pc' = "pool"
    /\ UNCHANGED <<entries, lagged_date, task, retries, reply, given, batches, crashes>>

\* as_completed(): a result, or an error of this ticker alone
Collect(t) ==
    /\ pc = "pool" /\ task[t] \in {"settled", "failed"}
    /\ IF task[t] = "settled" THEN Give(t, reply[t], lagged_date) ELSE given' = given
    /\ task' = [task EXCEPT ![t] = IF @ = "settled" THEN "collected" ELSE "error"]
    /\ UNCHANGED <<entries, pc, lagged_date, retries, reply, batches, crashes>>

\* any other exception leaves get_many(), after the pool has run everything it
\* was given; a single thread has no pool and stops at once
CollectBroken(t) ==
    /\ pc = "pool" /\ task[t] = "broken"
    /\ pc' = "raised"
    /\ task' = [u \in Tickers |->
           IF u = t \/ (max_workers = 1 /\ task[u] = "waiting") THEN "unlisted" ELSE task[u]]
    /\ UNCHANGED <<entries, lagged_date, retries, reply, given, batches, crashes>>

Idle == /\ pc' = "idle" /\ lagged_date' = 0 /\ task' = NoTasks
        /\ retries' = [t \in Tickers |-> 0] /\ reply' = [t \in Tickers |-> "NONE"]

End ==
    /\ \/ pc = "pool" /\ \A t \in Tickers : task[t] \in {"unlisted", "collected", "error"}
       \/ pc = "raised" /\ InTask({"waiting", "calling", "writing"}) = {}
    /\ Idle
    /\ UNCHANGED <<entries, given, batches, crashes>>

-----------------------------------------------------------------------------
(* _fetch_result(): a thread of the pool                                       *)

\* a single thread fetches one ticker after the other, with no pool
Call(t) ==
    /\ pc \in {"pool", "raised"} /\ task[t] = "waiting"
    /\ Cardinality(Running) < max_workers
    /\ max_workers = 1 => InTask({"settled", "failed", "broken"}) = {}
    /\ task' = [task EXCEPT ![t] = "calling"]
    /\ UNCHANGED <<entries, pc, lagged_date, retries, reply, given, batches, crashes>>

\* an overview, or the definitive word that there is none
Answered(t, says) ==
    /\ task[t] = "calling"
    /\ reply' = [reply EXCEPT ![t] = says]
    /\ task' = [task EXCEPT ![t] = "writing"]
    /\ UNCHANGED <<entries, pc, lagged_date, retries, given, batches, crashes>>

\* classified.retry_count adds both retries
GivesUp(t, count, exhausted) ==
    exhausted \/ retries[t] + count >= MAX_TRANSIENT_RETRIES

\* mutant: what cannot be had now is remembered as missing
TransientAsMiss(t, count, exhausted) ==
    /\ task[t] = "calling"
    /\ GivesUp(t, count, exhausted)
    /\ task' = [task EXCEPT ![t] = "failed"]
    /\ entries' = [entries EXCEPT ![t][lagged_date] = "MISS"]
    /\ UNCHANGED <<pc, lagged_date, retries, reply, given, batches, crashes>>

\* mutant: the retries are not counted
TransientUncounted(t, count, exhausted) ==
    /\ task[t] = "calling"
    /\ task' = [task EXCEPT ![t] = IF GivesUp(t, count, exhausted) THEN "failed" ELSE "waiting"]
    /\ UNCHANGED <<entries, pc, lagged_date, retries, reply, given, batches, crashes>>

\* a transient error: sleep and call again, or give up
Transient(t, count, exhausted) ==
    /\ task[t] = "calling"
    /\ IF GivesUp(t, count, exhausted)
       THEN task' = [task EXCEPT ![t] = "failed"] /\ retries' = retries
       ELSE task' = task /\ retries' = [retries EXCEPT ![t] = @ + 1]
    /\ UNCHANGED <<entries, pc, lagged_date, reply, given, batches, crashes>>

\* an error without classification, such as HTTP 401
Unclassified(t) ==
    /\ task[t] = "calling"
    /\ task' = [task EXCEPT ![t] = "broken"]
    /\ UNCHANGED <<entries, pc, lagged_date, retries, reply, given, batches, crashes>>

\* _write()
Write(t) ==
    /\ task[t] = "writing"
    /\ entries' = [entries EXCEPT ![t][lagged_date] = reply[t]]
    /\ task' = [task EXCEPT ![t] = "settled"]
    /\ UNCHANGED <<pc, lagged_date, retries, reply, given, batches, crashes>>

-----------------------------------------------------------------------------
Crash ==
    /\ pc # "idle" /\ crashes < MaxCrashes
    /\ Idle /\ crashes' = crashes + 1
    /\ UNCHANGED <<entries, given, batches>>

Step(t) ==
    \/ \E e \in Dates : LookupHit(t, e)
    \/ LookupMiss(t) \/ Collect(t) \/ CollectBroken(t)
    \/ Call(t) \/ Unclassified(t) \/ Write(t)
    \/ \E says \in Contents : Answered(t, says)
    \/ \E count \in ProviderRetries, exhausted \in BOOLEAN : Transient(t, count, exhausted)
Batch == OpenPool \/ End \/ \E t \in Tickers : Step(t)
Next ==
    \/ \E ts \in Listings, d \in Dates : Begin(ts, d)
    \/ Batch \/ Crash

Spec == Init /\ [][Next]_vars

\* every thread goes on, and the provider's client has timeouts
FairSpec == Spec /\ WF_vars(Batch)

-----------------------------------------------------------------------------
(* Type invariant.                                                             *)
TypeOK ==
    /\ entries \in [Tickers -> [Dates -> Contents \cup {"NONE"}]]
    /\ pc \in {"idle", "lookup", "pool", "raised"}
    /\ lagged_date \in Dates \cup {0}
    /\ pc # "idle" => lagged_date \in Dates
    /\ task \in [Tickers -> TaskStates]
    /\ retries \in [Tickers -> Nat]
    /\ reply \in [Tickers -> Contents \cup {"NONE"}]
    /\ given \in [Tickers -> [Dates -> Answers \cup {NoAnswer}]]
    /\ batches \in Nat /\ crashes \in Nat

-----------------------------------------------------------------------------
(* Properties.                                                                 *)

\* No answer comes from a date later than the one asked for or from another
\* quarter, and a miss is never carried over (_reusable_path: "Reusing a later
\* snapshot could shorten the configured lag and leak information").
PointInTime ==
    \A t \in Tickers, d \in Dates :
        LET answer == given[t][d]
        IN  answer # NoAnswer =>
                /\ answer.from <= d /\ Quarter[answer.from] = Quarter[d]
                /\ answer.says = "MISS" => answer.from = d

\* A ticker and date that was answered once is always answered the same, in
\* whatever order the batches of other dates come, fail or stop: a replay of a
\* day sees the reference data its first run saw.
AnswersStable ==
    [][\A t \in Tickers, d \in Dates :
          given[t][d] # NoAnswer => given'[t][d] = given[t][d]]_vars

\* What failed for the time being leaves no trace: the next batch asks again
\* (test_persistent_503_marks_day_incomplete_and_is_not_cached).
FailureLeavesNoTrace ==
    \A t \in Tickers : task[t] \in {"failed", "error", "broken"} =>
        entries[t][lagged_date] = "NONE"

\* Each batch ends, whatever the provider does.
BatchEnds == pc # "idle" ~> pc = "idle"
=============================================================================
