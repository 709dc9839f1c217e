----------------------------- MODULE RestClient ------------------------------
(* Threads that share one rate limiter (trainer/rate_control.py) and one REST  *)
(* client (trainer/providers/massive.py).  A call fetches the pages of a list  *)
(* (kind "list": _get over _get_page) or one ticker overview (kind "overview": *)
(* _get_page_with_metadata); the two paths read Retry-After and retry by       *)
(* different rules.  The command lines that replay one date by one thread give *)
(* the client no such limiter, only the fixed spacing of RequestRateLimiter    *)
(* (trainer/universe_collector.py).  Time is an integer clock, intervals are   *)
(* rounded down to it; a thread that sleeps or is in a request keeps the clock *)
(* reading it waits for.                                                       *)
EXTENDS Integers, FiniteSets

CONSTANTS
    Threads,            \* each makes one call; a list of pages is a row of them
    minimum_interval,   \* 60 / requests_per_minute, 0 for an unlimited plan
    maximum_interval,
    RetryAfters,        \* the Retry-After headers: their form and how long to wait
    max_attempts,       \* of the RetryPolicy
    base_backoff, maximum_backoff,
    Timeout,            \* a request is answered, and a thread that may go on
                        \* does so, within that time
    MaxPages            \* bound: pages of a list

ASSUME IntervalAssumption ==
    minimum_interval \in Nat /\ maximum_interval \in Nat /\ minimum_interval <= maximum_interval
ASSUME WaitAssumption ==
    /\ RetryAfters \subseteq [form: {"none", "seconds", "date"}, wait: Nat]
    /\ \A header \in RetryAfters : header.form = "none" => header.wait = 0
    /\ Timeout \in Nat
ASSUME PolicyAssumption ==
    max_attempts \in Nat \ {0} /\ base_backoff \in Nat /\ maximum_backoff \in Nat

VARIABLES
    adaptive,       \* the client has the adaptive limiter, which threads share
    clock,
    interval,       \* current_interval_seconds
    nextAt,         \* _next_request_at
    call,           \* per thread, the call it is in
    reserved,       \* history: how many slots wait() has given away
    sent            \* history: the slots whose request was sent
clientVars == <<adaptive, clock, interval, nextAt, call, reserved, sent>>

-----------------------------------------------------------------------------
Max2(a, b) == IF a >= b THEN a ELSE b
Min2(a, b) == IF a <= b THEN a ELSE b

Kinds == {"list", "overview"}
\* ready: about to wait(); slotted: sleeping up to its slot; inflight: in the
\* request; backoff: sleeping before the next attempt
Stages == {"idle", "ready", "slotted", "inflight", "backoff"}
Results == {"NONE", "OK", "DEFINITIVE", "TRANSIENT", "ERROR"}

NoCall == [stage |-> "idle", kind |-> "list", attempt |-> 0, page |-> 0, until |-> 0,
           slot |-> 0, form |-> "none", notBefore |-> 0, result |-> "NONE"]

ClientInit ==
    /\ adaptive \in BOOLEAN
    /\ clock = 0
    /\ interval = minimum_interval /\ nextAt = 0
    /\ call = [t \in Threads |-> NoCall]
    /\ reserved = 0 /\ sent = {}

\* delay_for_attempt()
DelayForAttempt(attempt) == Min2(maximum_backoff, base_backoff * 2^(attempt - 1))

\* the overview path makes at most five attempts whatever the policy says
Attempts(kind) == IF kind = "overview" THEN Min2(max_attempts, 5) ELSE max_attempts

-----------------------------------------------------------------------------
(* The limiter: each method is one step under its lock; without it the client  *)
(* has nothing to record in.                                                   *)

\* mutant: the next slot is counted from now, not from the slot just given
SlotFromNow(now) == nextAt' = now + interval

\* wait(): the slot given away is the first free one
FreeSlot(now) == Max2(now, nextAt)
TakeSlot(now) == nextAt' = FreeSlot(now) + interval

\* RequestRateLimiter.wait() counts from the moment it lets its thread go
LetGo(now) == nextAt' = IF adaptive THEN nextAt ELSE Max2(nextAt, now + interval)

\* record_success(): the interval shrinks by a tenth
RecordSuccess ==
    /\ interval' = IF adaptive THEN Max2(minimum_interval, (9 * interval) \div 10) ELSE interval
    /\ nextAt' = nextAt

Slower == IF minimum_interval > 0
          THEN Min2(maximum_interval, Max2(minimum_interval, 2 * interval))
          ELSE interval

\* the cooldown: what the provider asks for, or the slower interval
Cooldown(retryAfter) == IF retryAfter >= 0 THEN retryAfter ELSE Slower

\* mutant: only the interval is slowed down, whatever the provider asks for
ThrottleIgnored(now, retryAfter) ==
    IF adaptive
    THEN interval' = Slower /\ nextAt' = Max2(nextAt, now + Slower)
    ELSE UNCHANGED <<interval, nextAt>>

\* record_throttle()
RecordThrottle(now, retryAfter) ==
    IF adaptive
    THEN interval' = Slower /\ nextAt' = Max2(nextAt, now + Cooldown(retryAfter))
    ELSE UNCHANGED <<interval, nextAt>>

-----------------------------------------------------------------------------
(* The client.                                                                 *)

\* a client without the adaptive limiter is used by one thread
BeginCall(t, kind) ==
    /\ call[t].stage = "idle" /\ call[t].result = "NONE"
    /\ adaptive \/ \A u \in Threads : call[u].stage = "idle"
    /\ call' = [call EXCEPT ![t] = [NoCall EXCEPT !.stage = "ready", !.kind = kind,
                    !.attempt = 1, !.page = 1, !.until = clock]]
    /\ UNCHANGED <<adaptive, clock, interval, nextAt, reserved, sent>>

\* rate_limiter.wait(): the slot is numbered, and the thread sleeps up to it
Wait(t) ==
    /\ call[t].stage = "ready"
    /\ TakeSlot(clock)
    /\ reserved' = reserved + 1
    /\ call' = [call EXCEPT ![t].stage = "slotted", ![t].until = FreeSlot(clock),
                            ![t].slot = reserved + 1]
    /\ UNCHANGED <<adaptive, clock, interval, sent>>

Send(t) ==
    /\ call[t].stage = "slotted" /\ clock >= call[t].until
    /\ sent' = sent \cup {call[t].slot}
    /\ call' = [call EXCEPT ![t].stage = "inflight", ![t].until = clock,
                            ![t].slot = 0, ![t].form = "none", ![t].notBefore = 0]
    /\ LetGo(clock)
    /\ UNCHANGED <<adaptive, clock, interval, reserved>>

Ends(t, result) ==
    call' = [call EXCEPT ![t] = [NoCall EXCEPT !.kind = call[t].kind, !.result = result]]

NoHeader == [form |-> "none", wait |-> 0]

\* what float() makes of the header; only the overview path reads dates, -1: nothing
RetryAfterSeconds(kind, header) ==
    IF header.form = "seconds" \/ (header.form = "date" /\ kind = "overview")
    THEN header.wait ELSE -1

\* the next attempt after a delay, or the end of the call
Retries(t, delay, header, otherwise) ==
    IF call[t].attempt < Attempts(call[t].kind)
    THEN call' = [call EXCEPT ![t].stage = "backoff", ![t].until = clock + delay,
                              ![t].attempt = @ + 1, ![t].form = header.form,
                              ![t].notBefore = clock + header.wait]
    ELSE Ends(t, otherwise)

\* an answer with status 200 and JSON: the next page is asked for from the first
\* attempt on; what it says may still make it an error, and so may a link to
\* another host
Succeeds(t, more) ==
    /\ call[t].stage = "inflight"
    /\ RecordSuccess
    /\ \/ /\ more /\ call[t].kind = "list" /\ call[t].page < MaxPages
          /\ call' = [call EXCEPT ![t].stage = "ready", ![t].attempt = 1, ![t].page = @ + 1,
                                  ![t].until = clock]
       \/ /\ ~more
          /\ \E result \in {"OK", "ERROR"}
                 \cup (IF call[t].kind = "overview" THEN {"DEFINITIVE"} ELSE {}) :
                 Ends(t, result)
    /\ UNCHANGED <<adaptive, clock, reserved, sent>>

\* the jitter of _retry_delay(); a list ignores Retry-After in its own delay and
\* meets it in wait(), if the limiter was told
OwnDelay(t, retryAfter, jitter) ==
    LET delay == DelayForAttempt(call[t].attempt)
    IN  IF call[t].kind = "overview"
        THEN Max2(delay + (jitter * delay) \div 4, Max2(0, retryAfter))
        ELSE delay

\* HTTP 429 or 5xx
Throttled(t, header, jitter) ==
    LET retryAfter == RetryAfterSeconds(call[t].kind, header)
    IN  /\ call[t].stage = "inflight"
        /\ RecordThrottle(clock, retryAfter)
        /\ Retries(t, OwnDelay(t, retryAfter, jitter), header,
                   IF call[t].kind = "overview" THEN "TRANSIENT" ELSE "ERROR")
        /\ UNCHANGED <<adaptive, clock, reserved, sent>>

\* no answer: connection lost or timeout
Unanswered(t, jitter) ==
    /\ call[t].stage = "inflight"
    /\ Retries(t, OwnDelay(t, -1, jitter), NoHeader,
               IF call[t].kind = "overview" THEN "TRANSIENT" ELSE "ERROR")
    /\ UNCHANGED <<adaptive, clock, interval, nextAt, reserved, sent>>

\* any other status, or no JSON: a list tries again, an overview does not
Refused(t) ==
    /\ call[t].stage = "inflight"
    /\ \/ call[t].kind = "list" /\ Retries(t, DelayForAttempt(call[t].attempt), NoHeader, "ERROR")
       \/ call[t].kind = "overview" /\ \E result \in {"DEFINITIVE", "ERROR"} : Ends(t, result)
    /\ UNCHANGED <<adaptive, clock, interval, nextAt, reserved, sent>>

Resume(t) ==
    /\ call[t].stage = "backoff" /\ clock >= call[t].until
    /\ call' = [call EXCEPT ![t].stage = "ready", ![t].until = clock]
    /\ UNCHANGED <<adaptive, clock, interval, nextAt, reserved, sent>>

\* time passes while a call is under way, and nobody is late by more than Timeout
Tick ==
    /\ \E t \in Threads : call[t].stage # "idle"
    /\ \A t \in Threads : call[t].stage # "idle" => clock < call[t].until + Timeout
    /\ clock' = clock + 1
    /\ UNCHANGED <<adaptive, interval, nextAt, call, reserved, sent>>

ThreadStep(t) ==
    \/ Wait(t) \/ Send(t) \/ Resume(t) \/ Refused(t)
    \/ \E more \in BOOLEAN : Succeeds(t, more)
    \/ \E jitter \in 0..1 :
           \/ Unanswered(t, jitter)
           \/ \E header \in RetryAfters : Throttled(t, header, jitter)

ClientNext ==
    \/ Tick
    \/ \E t \in Threads : ThreadStep(t) \/ \E kind \in Kinds : BeginCall(t, kind)

ClientSpec == ClientInit /\ [][ClientNext]_clientVars

-----------------------------------------------------------------------------
(* Properties.                                                                 *)

\* The type invariant.
CallType ==
    [stage: Stages, kind: Kinds, attempt: Nat, page: Nat, until: Nat, slot: Nat,
     form: {"none", "seconds", "date"}, notBefore: Nat, result: Results]
ClientTypeOK ==
    /\ adaptive \in BOOLEAN /\ clock \in Nat /\ interval \in Nat /\ nextAt \in Nat
    /\ call \in [Threads -> CallType]
    /\ reserved \in Nat /\ sent \in SUBSET (Nat \ {0})

\* However many threads ask, sleep late, fail and retry, no more requests have
\* been sent by any time than the plan's budget allows (rate_control.py, wait():
\* slots are given away one interval apart).
SentWithinBudget == Cardinality(sent) * minimum_interval <= clock + minimum_interval

\* what a call has understood of the last Retry-After and can act on: an overview
\* sleeps that long itself, a list leaves it to the adaptive limiter
Heard(c) == c.form = "none" \/ c.kind = "overview" \/ (c.form = "seconds" /\ adaptive)

Sends(t) == call[t].stage = "slotted" /\ call'[t].stage = "inflight"

\* A thread that was told to come back later does not send its next request
\* before that time, although the delay _get_page() computes is shorter and other
\* threads move the limiter meanwhile: an overview never, a list if it was told in
\* seconds and the client has the adaptive limiter (massive.py:111-137, 311-324).
RetryAfterHonoured ==
    [][\A t \in Threads : Sends(t) /\ Heard(call[t]) => clock >= call[t].notBefore]_clientVars

\* docs/HISTORICAL_REPLAY_ACCELERATOR.md:40-43 says it of every throttled request
\* through the adaptive limiter: "HTTP 429, transient server responses, and
\* timeout-class responses still use bounded exponential retries and honor
\* `Retry-After`."
EveryRetryAfterHonoured ==
    [][\A t \in Threads : adaptive /\ Sends(t) => clock >= call[t].notBefore]_clientVars
=============================================================================
