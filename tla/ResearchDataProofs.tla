------------------------- MODULE ResearchDataProofs --------------------------
(* Proofs about what a replay reads through and what the trainer learns from:  *)
(* the REST client, the flat-file store, the page caches, the research batch,  *)
(* the split of an experiment that grows, and the ledger over its days.  Each  *)
(* has an inductive invariant of its own.                                      *)
EXTENDS RestClient, FlatfileStore, PageCaches, ResearchBatch, HypothesisLedger,
        FiniteSetLemmas

-----------------------------------------------------------------------------
(* The REST client.  Slots are given away one interval apart, and the limiter  *)
(* never gives one away before a time it was told of; a thread that was told   *)
(* otherwise sleeps that long itself.                                          *)

CallFields ==
    {"stage", "kind", "attempt", "page", "until", "slot", "form", "notBefore", "result"}

\* what holds of a call at a time; until is the slot's time only while the thread
\* sleeps up to its slot
CallFits(c, now, next) ==
    /\ DOMAIN c = CallFields
    /\ c.notBefore \in Nat
    /\ c.stage # "idle" => c.attempt \in Nat \ {0}
    /\ c.stage = "backoff" => c.until \in Int
    /\ Heard(c) => \/ c.notBefore <= now \/ c.notBefore <= next
                   \/ c.stage = "backoff" /\ c.notBefore <= c.until
    /\ c.stage = "slotted" =>
           /\ c.until \in Nat /\ c.slot \in Nat \ {0}
           /\ (c.slot - 1) * minimum_interval <= c.until
           /\ Heard(c) => c.notBefore <= c.until

LimiterInv ==
    /\ clock \in Nat /\ interval \in Nat /\ nextAt \in Nat /\ reserved \in Nat
    /\ minimum_interval <= interval
    /\ reserved * minimum_interval <= nextAt
    /\ sent \in SUBSET (Nat \ {0}) /\ IsFiniteSet(sent)
    /\ \A s \in sent : (s - 1) * minimum_interval <= clock

ClientInv ==
    /\ LimiterInv
    /\ call = [t \in Threads |-> call[t]]
    /\ \A t \in Threads : CallFits(call[t], clock, nextAt)

\* of a step: no thread sends before a time it was told and has understood
Honoured ==
    \A t \in Threads : Sends(t) /\ Heard(call[t]) => clock >= call[t].notBefore

LEMMA SlotTimes ==
    ASSUME NEW r \in Nat, NEW m \in Nat, NEW n \in Nat, NEW i \in Nat, m <= i, r * m <= n
    PROVE  /\ (r + 1) * m <= n + i
           /\ ((r + 1) - 1) * m <= n
<1>1. (r + 1) * m = r * m + m /\ r * m \in Nat BY SMT
<1>2. ((r + 1) - 1) * m = r * m BY SMT
<1>. QED BY <1>1, <1>2

LEMMA ClientInitInv == ClientInit => ClientInv
<1>. SUFFICES ASSUME ClientInit PROVE ClientInv
  OBVIOUS
<1>1. /\ clock = 0 /\ interval = minimum_interval /\ nextAt = 0 /\ reserved = 0 /\ sent = {}
      /\ call = [t \in Threads |-> NoCall]
  BY DEF ClientInit
<1>2. minimum_interval \in Nat /\ 0 * minimum_interval = 0 BY IntervalAssumption, SMT
<1>3. LimiterInv BY <1>1, <1>2, FS_EmptySet DEF LimiterInv
<1>4. call = [t \in Threads |-> call[t]] BY <1>1
<1>5. \A t \in Threads : CallFits(call[t], clock, nextAt) BY <1>1 DEF CallFits, NoCall, CallFields
<1>. QED BY <1>3, <1>4, <1>5 DEF ClientInv

(* A step of one thread leaves the calls of the others alone, and time and the *)
(* limiter only move forward.                                                  *)
LEMMA CallLater ==
    ASSUME NEW c, NEW now \in Nat, NEW next \in Nat, NEW now2 \in Nat, NEW next2 \in Nat,
           CallFits(c, now, next), now <= now2, next <= next2
    PROVE  CallFits(c, now2, next2)
<1>1. c.notBefore \in Nat BY DEF CallFits
<1>2. Heard(c) => \/ c.notBefore <= now2 \/ c.notBefore <= next2
                  \/ c.stage = "backoff" /\ c.notBefore <= c.until
  BY <1>1 DEF CallFits
<1>. QED BY <1>2 DEF CallFits

LEMMA CallChanges ==
    ASSUME ClientInv, LimiterInv', NEW t \in Threads, NEW c, call' = [call EXCEPT ![t] = c],
           clock <= clock', nextAt <= nextAt', CallFits(c, clock', nextAt'),
           adaptive' = adaptive,
           (call[t].stage = "slotted" /\ c.stage = "inflight" /\ Heard(call[t]))
               => clock >= call[t].notBefore
    PROVE  ClientInv' /\ Honoured
<1>1. clock \in Nat /\ nextAt \in Nat /\ clock' \in Nat /\ nextAt' \in Nat
  BY DEF ClientInv, LimiterInv
<1>2. call = [u \in Threads |-> call[u]] BY DEF ClientInv
<1>3. \A u \in Threads : call'[u] = IF u = t THEN c ELSE call[u] BY <1>2
<1>4. call' = [u \in Threads |-> call'[u]] BY <1>2
<1>5. ASSUME NEW u \in Threads PROVE CallFits(call'[u], clock', nextAt')
  <2>1. CASE u = t BY <1>3, <2>1
  <2>2. CASE u # t
    <3>1. CallFits(call[u], clock, nextAt) BY DEF ClientInv
    <3>. QED BY <1>1, <1>3, <2>2, <3>1, CallLater
  <2>. QED BY <2>1, <2>2
<1>6. ASSUME NEW u \in Threads, Sends(u), Heard(call[u])
      PROVE  clock >= call[u].notBefore
  BY <1>3, <1>6 DEF Sends
<1>7. \A u \in Threads : CallFits(call[u], clock, nextAt)'
  <2>1. \A u \in Threads : CallFits(call[u], clock, nextAt)' <=> CallFits(call'[u], clock', nextAt')
    BY DEF CallFits, Heard
  <2>. QED BY <1>5, <2>1
<1>. QED BY <1>4, <1>6, <1>7 DEF ClientInv, Honoured

LEMMA LimiterTypes ==
    ASSUME ClientInv
    PROVE  /\ clock \in Nat /\ interval \in Nat /\ nextAt \in Nat /\ reserved \in Nat
           /\ minimum_interval \in Nat /\ maximum_interval \in Nat
           /\ minimum_interval <= interval /\ minimum_interval <= maximum_interval
           /\ reserved * minimum_interval \in Nat /\ reserved * minimum_interval <= nextAt
           /\ sent \in SUBSET (Nat \ {0})
<1>1. minimum_interval \in Nat /\ reserved \in Nat
  BY IntervalAssumption DEF ClientInv, LimiterInv
<1>2. reserved * minimum_interval \in Nat BY <1>1, SMT
<1>. QED BY <1>1, <1>2, IntervalAssumption DEF ClientInv, LimiterInv

LEMMA CallTypes ==
    ASSUME ClientInv, NEW t \in Threads
    PROVE  /\ CallFits(call[t], clock, nextAt) /\ call = [u \in Threads |-> call[u]]
           /\ call[t].notBefore \in Nat
BY DEF ClientInv, CallFits

LEMMA BeginCallKeeps ==
    \A t \in Threads, kind \in Kinds : ClientInv /\ BeginCall(t, kind) => ClientInv' /\ Honoured
<1>. SUFFICES ASSUME NEW t \in Threads, NEW kind \in Kinds, ClientInv, BeginCall(t, kind)
              PROVE  ClientInv' /\ Honoured
  OBVIOUS
<1>. DEFINE c == [NoCall EXCEPT !.stage = "ready", !.kind = kind, !.attempt = 1, !.page = 1,
                                !.until = clock]
<1>1. /\ call' = [call EXCEPT ![t] = c] /\ clock' = clock /\ interval' = interval
      /\ nextAt' = nextAt /\ reserved' = reserved /\ sent' = sent /\ adaptive' = adaptive
  BY DEF BeginCall
<1>2. DOMAIN c = CallFields /\ c.stage = "ready" /\ c.notBefore = 0 /\ c.attempt = 1
  BY DEF NoCall, CallFields
<1>3. clock \in Nat /\ nextAt \in Nat BY LimiterTypes
<1>. HIDE DEF c
<1>4. CallFits(c, clock', nextAt') BY <1>1, <1>2, <1>3 DEF CallFits
<1>5. LimiterInv' BY <1>1 DEF ClientInv, LimiterInv
<1>6. clock <= clock' /\ nextAt <= nextAt' BY <1>1, <1>3
<1>. QED BY <1>1, <1>2, <1>4, <1>5, <1>6, CallChanges

(* A slot is at least an interval after the one before it, and not before any  *)
(* time the limiter was told.                                                  *)
LEMMA WaitKeeps == \A t \in Threads : ClientInv /\ Wait(t) => ClientInv' /\ Honoured
<1>. SUFFICES ASSUME NEW t \in Threads, ClientInv, Wait(t) PROVE ClientInv' /\ Honoured
  OBVIOUS
<1>. DEFINE f == FreeSlot(clock)
            c == [call[t] EXCEPT !.stage = "slotted", !.until = f, !.slot = reserved + 1]
<1>1. /\ nextAt' = f + interval /\ reserved' = reserved + 1
      /\ clock' = clock /\ interval' = interval /\ sent' = sent /\ adaptive' = adaptive
      /\ call[t].stage = "ready"
      /\ call' = [call EXCEPT ![t].stage = "slotted", ![t].until = f, ![t].slot = reserved + 1]
  BY DEF Wait, TakeSlot
<1>2. f \in Nat /\ clock <= f /\ nextAt <= f BY LimiterTypes DEF FreeSlot, Max2
<1>3. CallFits(call[t], clock, nextAt) /\ call = [u \in Threads |-> call[u]] BY CallTypes
<1>4. call' = [call EXCEPT ![t] = c] BY <1>1, <1>3 DEF CallFits
<1>. HIDE DEF f
<1>5. reserved * minimum_interval <= f BY <1>2, LimiterTypes
<1>6. /\ (reserved + 1) * minimum_interval <= f + interval
      /\ ((reserved + 1) - 1) * minimum_interval <= f
  BY <1>2, <1>5, LimiterTypes, SlotTimes
<1>7. LimiterInv'
  <2>1. f + interval \in Nat /\ reserved + 1 \in Nat BY <1>2, LimiterTypes
  <2>2. LimiterInv BY DEF ClientInv
  <2>. QED BY <1>1, <1>6, <2>1, <2>2 DEF LimiterInv
<1>8. CallFits(c, clock', nextAt')
  <2>1. /\ DOMAIN c = CallFields /\ c.notBefore = call[t].notBefore
        /\ c.stage = "slotted" /\ c.until = f /\ c.slot = reserved + 1
        /\ c.attempt = call[t].attempt
    BY <1>3 DEF CallFits, CallFields
  <2>5. c.form = call[t].form /\ c.kind = call[t].kind BY <1>3 DEF CallFits, CallFields
  <2>6. Heard(c) <=> Heard(call[t]) BY <2>5 DEF Heard
  <2>7. call[t].attempt \in Nat \ {0} /\ call[t].notBefore \in Nat
    BY <1>1, <1>3 DEF CallFits
  <2>2. Heard(call[t]) => call[t].notBefore <= f
    BY <1>1, <1>2, <1>3, <2>7, LimiterTypes DEF CallFits
  <2>3. Heard(call[t]) => call[t].notBefore <= f + interval BY <1>2, <2>2, <2>7, LimiterTypes
  <2>4. reserved + 1 \in Nat \ {0} BY LimiterTypes
  <2>. HIDE DEF c
  <2>. QED BY <1>1, <1>2, <1>6, <2>1, <2>2, <2>3, <2>4, <2>6, <2>7 DEF CallFits
<1>9. nextAt <= nextAt' /\ clock <= clock' BY <1>1, <1>2, LimiterTypes
<1>10. c.stage = "slotted" BY <1>3 DEF CallFits, CallFields
<1>11. adaptive' = adaptive BY <1>1
<1>. HIDE DEF c
<1>. QED BY <1>4, <1>7, <1>8, <1>9, <1>10, <1>11, CallChanges

(* A request is sent no earlier than its slot.                                 *)
LEMMA SendKeeps == \A t \in Threads : ClientInv /\ Send(t) => ClientInv' /\ Honoured
<1>. SUFFICES ASSUME NEW t \in Threads, ClientInv, Send(t) PROVE ClientInv' /\ Honoured
  OBVIOUS
<1>. DEFINE c == [call[t] EXCEPT !.stage = "inflight", !.until = clock, !.slot = 0,
                                 !.form = "none", !.notBefore = 0]
<1>1. /\ call[t].stage = "slotted" /\ clock >= call[t].until
      /\ sent' = sent \cup {call[t].slot}
      /\ clock' = clock /\ interval' = interval /\ reserved' = reserved
      /\ nextAt' = IF adaptive THEN nextAt ELSE Max2(nextAt, clock + interval)
      /\ adaptive' = adaptive
      /\ call' = [call EXCEPT ![t].stage = "inflight", ![t].until = clock,
                              ![t].slot = 0, ![t].form = "none", ![t].notBefore = 0]
  BY DEF Send, LetGo
<1>9. nextAt' \in Nat /\ nextAt <= nextAt' BY <1>1, LimiterTypes DEF Max2
<1>2. CallFits(call[t], clock, nextAt) /\ call = [u \in Threads |-> call[u]] BY CallTypes
<1>3. call' = [call EXCEPT ![t] = c] BY <1>1, <1>2 DEF CallFits
<1>4. /\ call[t].slot \in Nat \ {0} /\ call[t].until \in Nat
      /\ (call[t].slot - 1) * minimum_interval <= call[t].until
  BY <1>1, <1>2 DEF CallFits
<1>5. LimiterInv'
  <2>1. (call[t].slot - 1) * minimum_interval \in Int BY <1>4, LimiterTypes, SMT
  <2>2. (call[t].slot - 1) * minimum_interval <= clock BY <1>1, <1>4, <2>1, LimiterTypes
  <2>3. LimiterInv BY DEF ClientInv
  <2>4. IsFiniteSet(sent') BY <1>1, <2>3, FS_AddElement DEF LimiterInv
  <2>5. reserved * minimum_interval <= nextAt' BY <1>9, LimiterTypes
  <2>. QED BY <1>1, <1>4, <1>9, <2>2, <2>3, <2>4, <2>5 DEF LimiterInv
<1>6. CallFits(c, clock', nextAt')
  <2>1. /\ DOMAIN c = CallFields /\ c.stage = "inflight" /\ c.notBefore = 0
        /\ c.attempt = call[t].attempt
    BY <1>2 DEF CallFits, CallFields
  <2>2. call[t].attempt \in Nat \ {0} BY <1>1, <1>2 DEF CallFits
  <2>. HIDE DEF c
  <2>. QED BY <1>1, <2>1, <2>2, LimiterTypes DEF CallFits
<1>7. clock <= clock' BY <1>1, LimiterTypes
<1>8. Heard(call[t]) => clock >= call[t].notBefore BY <1>1, <1>2, LimiterTypes DEF CallFits
<1>. HIDE DEF c
<1>. QED BY <1>1, <1>3, <1>5, <1>6, <1>7, <1>8, <1>9, CallChanges

(* A call ends, or tries again: what it was told to wait for is where the      *)
(* limiter goes on from.                                                       *)
LEMMA EndsKeeps ==
    ASSUME ClientInv, LimiterInv', NEW t \in Threads, NEW result, Ends(t, result),
           clock' = clock, nextAt <= nextAt', adaptive' = adaptive
    PROVE  ClientInv' /\ Honoured
<1>. DEFINE c == [NoCall EXCEPT !.kind = call[t].kind, !.result = result]
<1>1. call' = [call EXCEPT ![t] = c] BY DEF Ends
<1>2. DOMAIN c = CallFields /\ c.stage = "idle" /\ c.notBefore = 0
  BY DEF NoCall, CallFields
<1>. HIDE DEF c
<1>3. clock \in Nat /\ nextAt \in Nat /\ nextAt' \in Nat BY LimiterTypes DEF LimiterInv
<1>4. CallFits(c, clock', nextAt') BY <1>2, <1>3 DEF CallFits
<1>5. clock <= clock' BY <1>3
<1>. QED BY <1>1, <1>2, <1>4, <1>5, CallChanges

LEMMA RetriesKeep ==
    ASSUME ClientInv, LimiterInv', NEW t \in Threads, NEW delay \in Int, NEW header, NEW result,
           header.wait \in Nat, call[t].stage = "inflight", adaptive' = adaptive,
           Retries(t, delay, header, result), clock' = clock, nextAt <= nextAt',
           \/ header.wait = 0 \/ clock + header.wait <= nextAt' \/ header.wait <= delay
           \/ header.form # "none" /\ call[t].kind # "overview"
              /\ (header.form # "seconds" \/ ~adaptive)
    PROVE  ClientInv' /\ Honoured
<1>1. CASE ~(call[t].attempt < Attempts(call[t].kind))
  <2>1. Ends(t, result) BY <1>1 DEF Retries
  <2>. QED BY <2>1, EndsKeeps
<1>2. CASE call[t].attempt < Attempts(call[t].kind)
  <2>. DEFINE after == header.wait
              c == [call[t] EXCEPT !.stage = "backoff", !.until = clock + delay,
                                   !.attempt = @ + 1, !.form = header.form,
                                   !.notBefore = clock + after]
  <2>1. call' = [call EXCEPT ![t].stage = "backoff", ![t].until = clock + delay,
                             ![t].attempt = @ + 1, ![t].form = header.form,
                             ![t].notBefore = clock + after]
    BY <1>2 DEF Retries
  <2>2. CallFits(call[t], clock, nextAt) /\ call = [u \in Threads |-> call[u]] BY CallTypes
  <2>3. call' = [call EXCEPT ![t] = c] BY <2>1, <2>2 DEF CallFits
  <2>4. /\ DOMAIN c = CallFields /\ c.stage = "backoff" /\ c.notBefore = clock + after
        /\ c.until = clock + delay /\ c.attempt = call[t].attempt + 1
        /\ c.form = header.form /\ c.kind = call[t].kind
    BY <2>2 DEF CallFits, CallFields
  <2>. HIDE DEF c
  <2>5. clock \in Nat /\ nextAt \in Nat /\ nextAt' \in Nat BY LimiterTypes DEF LimiterInv
  <2>8. call[t].attempt \in Nat \ {0} BY <2>2 DEF CallFits
  <2>9. after \in Nat /\ (\/ after = 0 \/ clock + after <= nextAt' \/ after <= delay
                         \/ ~Heard(c))
    BY <2>4 DEF Heard
  <2>. HIDE DEF after
  <2>6. CallFits(c, clock', nextAt')
    <3>1. Heard(c) => \/ c.notBefore <= clock' \/ c.notBefore <= nextAt'
                      \/ c.notBefore <= c.until
      BY <2>4, <2>5, <2>9
    <3>2. c.notBefore \in Nat /\ c.until \in Int /\ c.attempt \in Nat \ {0}
      BY <2>4, <2>5, <2>8, <2>9
    <3>. QED BY <2>4, <3>1, <3>2 DEF CallFits
  <2>7. clock <= clock' BY <2>5
  <2>. QED BY <2>3, <2>4, <2>6, <2>7, CallChanges
<1>. QED BY <1>1, <1>2

(* The delays of the retry policy.                                             *)
LEMMA DelayTypes ==
    ASSUME ClientInv, NEW t \in Threads, call[t].stage = "inflight", NEW jitter \in 0..1,
           NEW retryAfter \in Int
    PROVE  /\ DelayForAttempt(call[t].attempt) \in Int
           /\ OwnDelay(t, retryAfter, jitter) \in Int
           /\ call[t].kind = "overview" => retryAfter <= OwnDelay(t, retryAfter, jitter)
<1>. DEFINE a == call[t].attempt
            d == DelayForAttempt(a)
<1>1. a \in Nat \ {0} BY CallTypes DEF CallFits
<1>. HIDE DEF a
<1>2. a - 1 \in Nat BY <1>1
<1>3. 2^(a - 1) \in Int BY <1>2, SMT
<1>. DEFINE p == 2^(a - 1)
<1>4. d = Min2(maximum_backoff, base_backoff * p) BY DEF DelayForAttempt
<1>5. p \in Int BY <1>3
<1>. HIDE DEF p, d
<1>6. base_backoff * p \in Int BY <1>5, PolicyAssumption, SMT
<1>7. d \in Int BY <1>4, <1>6, PolicyAssumption DEF Min2
<1>8. jitter * d \in Int BY <1>7, SMT
<1>. DEFINE j == (jitter * d) \div 4
<1>9. j \in Int BY <1>8
<1>10. OwnDelay(t, retryAfter, jitter) =
           IF call[t].kind = "overview" THEN Max2(d + j, Max2(0, retryAfter)) ELSE d
  BY DEF OwnDelay, d, a, j
<1>. HIDE DEF j
<1>11. OwnDelay(t, retryAfter, jitter) \in Int
  BY <1>7, <1>9, <1>10 DEF Max2
<1>12. call[t].kind = "overview" => retryAfter <= OwnDelay(t, retryAfter, jitter)
  BY <1>7, <1>9, <1>10 DEF Max2
<1>. QED BY <1>7, <1>11, <1>12 DEF d, a

\* a step that leaves the limiter alone
LEMMA LimiterStays ==
    ASSUME ClientInv, UNCHANGED <<adaptive, clock, interval, nextAt, reserved, sent>>
    PROVE  LimiterInv' /\ clock' = clock /\ nextAt <= nextAt' /\ adaptive' = adaptive
<1>1. LimiterInv BY DEF ClientInv
<1>2. nextAt <= nextAt' BY LimiterTypes
<1>. QED BY <1>1, <1>2 DEF LimiterInv

LEMMA SucceedsKeeps ==
    \A t \in Threads, more \in BOOLEAN : ClientInv /\ Succeeds(t, more) => ClientInv' /\ Honoured
<1>. SUFFICES ASSUME NEW t \in Threads, NEW more \in BOOLEAN, ClientInv, Succeeds(t, more)
              PROVE  ClientInv' /\ Honoured
  OBVIOUS
<1>1. /\ interval' \in {interval, Max2(minimum_interval, (9 * interval) \div 10)}
      /\ clock' = clock /\ nextAt' = nextAt /\ reserved' = reserved /\ sent' = sent
      /\ adaptive' = adaptive /\ call[t].stage = "inflight"
  BY DEF Succeeds, RecordSuccess
<1>2. nextAt <= nextAt' BY <1>1, LimiterTypes
<1>3. LimiterInv'
  <2>1. (9 * interval) \div 10 \in Nat BY LimiterTypes
  <2>2. interval' \in Nat /\ minimum_interval <= interval'
    BY <1>1, <2>1, LimiterTypes DEF Max2
  <2>3. LimiterInv BY DEF ClientInv
  <2>. QED BY <1>1, <2>2, <2>3 DEF LimiterInv
<1>4. CASE \E result \in {"OK", "ERROR"}
              \cup (IF call[t].kind = "overview" THEN {"DEFINITIVE"} ELSE {}) : Ends(t, result)
  BY <1>1, <1>2, <1>3, <1>4, EndsKeeps
<1>5. CASE call' = [call EXCEPT ![t].stage = "ready", ![t].attempt = 1, ![t].page = @ + 1,
                                ![t].until = clock]
  <2>. DEFINE c == [call[t] EXCEPT !.stage = "ready", !.attempt = 1, !.page = @ + 1,
                                   !.until = clock]
  <2>1. CallFits(call[t], clock, nextAt) /\ call = [u \in Threads |-> call[u]] BY CallTypes
  <2>2. call' = [call EXCEPT ![t] = c] BY <1>5, <2>1 DEF CallFits
  <2>3. /\ DOMAIN c = CallFields /\ c.stage = "ready" /\ c.notBefore = call[t].notBefore
        /\ c.attempt = 1 /\ c.form = call[t].form /\ c.kind = call[t].kind
    BY <2>1 DEF CallFits, CallFields
  <2>. HIDE DEF c
  <2>6. Heard(c) <=> Heard(call[t]) BY <2>3 DEF Heard
  <2>4. CallFits(c, clock', nextAt') BY <1>1, <2>1, <2>3, <2>6 DEF CallFits
  <2>5. clock <= clock' BY <1>1, LimiterTypes
  <2>. QED BY <1>1, <1>2, <1>3, <2>2, <2>3, <2>4, <2>5, CallChanges
<1>. QED BY <1>4, <1>5 DEF Succeeds

LEMMA ThrottledKeeps ==
    \A t \in Threads, jitter \in 0..1, header \in RetryAfters :
        ClientInv /\ Throttled(t, header, jitter) => ClientInv' /\ Honoured
<1>. SUFFICES ASSUME NEW t \in Threads, NEW jitter \in 0..1, NEW header \in RetryAfters,
                     ClientInv, Throttled(t, header, jitter)
              PROVE  ClientInv' /\ Honoured
  OBVIOUS
<1>. DEFINE after == RetryAfterSeconds(call[t].kind, header)
            delay == OwnDelay(t, after, jitter)
<1>1. /\ IF adaptive
         THEN interval' = Slower /\ nextAt' = Max2(nextAt, clock + Cooldown(after))
         ELSE interval' = interval /\ nextAt' = nextAt
      /\ clock' = clock /\ reserved' = reserved /\ sent' = sent /\ adaptive' = adaptive
      /\ call[t].stage = "inflight"
  BY DEF Throttled, RecordThrottle
<1>2. Slower \in Nat /\ minimum_interval <= Slower BY LimiterTypes DEF Slower, Max2, Min2
<1>3. header.wait \in Nat /\ header.form \in {"none", "seconds", "date"} BY WaitAssumption
<1>11. after = -1 \/ after = header.wait BY DEF RetryAfterSeconds
<1>14. header.form = "none" => header.wait = 0 BY WaitAssumption
<1>12. \/ after = header.wait
       \/ header.form = "none"
       \/ header.form # "none" /\ call[t].kind # "overview" /\ header.form # "seconds"
  BY <1>3 DEF RetryAfterSeconds
<1>9. \E result : Retries(t, delay, header, result) BY DEF Throttled
<1>. HIDE DEF after
<1>13. after \in Int BY <1>3, <1>11
<1>4. Cooldown(after) \in Nat /\ (after \in Nat => Cooldown(after) = after)
  BY <1>2, <1>3, <1>11 DEF Cooldown
<1>5. /\ nextAt' \in Nat /\ nextAt <= nextAt' /\ interval' \in Nat
      /\ minimum_interval <= interval'
      /\ adaptive => clock + Cooldown(after) <= nextAt'
  BY <1>1, <1>2, <1>4, LimiterTypes DEF Max2
<1>6. LimiterInv'
  <2>1. reserved * minimum_interval <= nextAt' BY <1>5, LimiterTypes
  <2>2. LimiterInv BY DEF ClientInv
  <2>. QED BY <1>1, <1>5, <2>1, <2>2 DEF LimiterInv
<1>7. delay \in Int /\ (call[t].kind = "overview" => after <= delay)
  BY <1>1, <1>13, DelayTypes
<1>. HIDE DEF delay
<1>10. CASE header.wait = 0
  BY <1>1, <1>3, <1>5, <1>6, <1>7, <1>9, <1>10, RetriesKeep
<1>8. CASE header.wait # 0
  <2>1. CASE adaptive /\ after = header.wait
    <3>1. clock + header.wait <= nextAt' BY <1>3, <1>4, <1>5, <2>1
    <3>. QED BY <1>1, <1>3, <1>5, <1>6, <1>7, <1>9, <3>1, RetriesKeep
  <2>2. CASE call[t].kind = "overview" /\ after = header.wait
    <3>1. header.wait <= delay BY <1>7, <2>2
    <3>. QED BY <1>1, <1>3, <1>5, <1>6, <1>7, <1>9, <3>1, RetriesKeep
  <2>3. CASE call[t].kind # "overview" /\ (header.form # "seconds" \/ ~adaptive)
    <3>1. header.form # "none" BY <1>8, <1>14
    <3>. QED BY <1>1, <1>3, <1>5, <1>6, <1>7, <1>9, <2>3, <3>1, RetriesKeep
  <2>. QED BY <1>8, <1>12, <1>14, <2>1, <2>2, <2>3
<1>. QED BY <1>8, <1>10

LEMMA UnansweredKeeps ==
    \A t \in Threads, jitter \in 0..1 :
        ClientInv /\ Unanswered(t, jitter) => ClientInv' /\ Honoured
<1>. SUFFICES ASSUME NEW t \in Threads, NEW jitter \in 0..1, ClientInv, Unanswered(t, jitter)
              PROVE  ClientInv' /\ Honoured
  OBVIOUS
<1>1. LimiterInv' /\ clock' = clock /\ nextAt <= nextAt' /\ adaptive' = adaptive
  BY LimiterStays DEF Unanswered
<1>2. /\ call[t].stage = "inflight"
      /\ \E result : Retries(t, OwnDelay(t, -1, jitter), NoHeader, result)
  BY DEF Unanswered
<1>3. OwnDelay(t, -1, jitter) \in Int BY <1>2, DelayTypes
<1>4. NoHeader.wait = 0 BY DEF NoHeader
<1>. QED BY <1>1, <1>2, <1>3, <1>4, RetriesKeep

LEMMA RefusedKeeps == \A t \in Threads : ClientInv /\ Refused(t) => ClientInv' /\ Honoured
<1>. SUFFICES ASSUME NEW t \in Threads, ClientInv, Refused(t) PROVE ClientInv' /\ Honoured
  OBVIOUS
<1>1. LimiterInv' /\ clock' = clock /\ nextAt <= nextAt' /\ adaptive' = adaptive
  BY LimiterStays DEF Refused
<1>2. /\ call[t].stage = "inflight"
      /\ \/ \E result : Retries(t, DelayForAttempt(call[t].attempt), NoHeader, result)
         \/ \E result : Ends(t, result)
  BY DEF Refused
<1>3. 0 \in 0..1 /\ -1 \in Int OBVIOUS
<1>4. DelayForAttempt(call[t].attempt) \in Int BY <1>2, <1>3, DelayTypes
<1>5. NoHeader.wait = 0 BY DEF NoHeader
<1>. QED BY <1>1, <1>2, <1>4, <1>5, RetriesKeep, EndsKeeps

LEMMA ResumeKeeps == \A t \in Threads : ClientInv /\ Resume(t) => ClientInv' /\ Honoured
<1>. SUFFICES ASSUME NEW t \in Threads, ClientInv, Resume(t) PROVE ClientInv' /\ Honoured
  OBVIOUS
<1>1. LimiterInv' /\ clock' = clock /\ nextAt <= nextAt' /\ adaptive' = adaptive
  BY LimiterStays DEF Resume
<1>. DEFINE c == [call[t] EXCEPT !.stage = "ready", !.until = clock]
<1>2. /\ call' = [call EXCEPT ![t].stage = "ready", ![t].until = clock]
      /\ nextAt' = nextAt /\ call[t].stage = "backoff" /\ clock >= call[t].until
  BY DEF Resume
<1>3. CallFits(call[t], clock, nextAt) /\ call = [u \in Threads |-> call[u]] BY CallTypes
<1>4. call' = [call EXCEPT ![t] = c] BY <1>2, <1>3 DEF CallFits
<1>5. /\ DOMAIN c = CallFields /\ c.stage = "ready" /\ c.notBefore = call[t].notBefore
      /\ c.attempt = call[t].attempt /\ c.form = call[t].form /\ c.kind = call[t].kind
  BY <1>3 DEF CallFits, CallFields
<1>. HIDE DEF c
<1>8. Heard(c) <=> Heard(call[t]) BY <1>5 DEF Heard
<1>9. /\ call[t].notBefore \in Nat /\ call[t].attempt \in Nat \ {0} /\ call[t].until \in Int
      /\ Heard(call[t]) => \/ call[t].notBefore <= clock \/ call[t].notBefore <= nextAt
                           \/ call[t].notBefore <= call[t].until
  BY <1>2, <1>3 DEF CallFits
<1>10. Heard(call[t]) => call[t].notBefore <= clock \/ call[t].notBefore <= nextAt
  BY <1>2, <1>9, LimiterTypes
<1>6. CallFits(c, clock', nextAt') BY <1>1, <1>2, <1>5, <1>8, <1>9, <1>10 DEF CallFits
<1>7. clock <= clock' BY <1>1, LimiterTypes
<1>. QED BY <1>1, <1>4, <1>5, <1>6, <1>7, CallChanges

LEMMA TickKeeps == ClientInv /\ Tick => ClientInv' /\ Honoured
<1>. SUFFICES ASSUME ClientInv, Tick PROVE ClientInv' /\ Honoured
  OBVIOUS
<1>1. /\ clock' = clock + 1 /\ interval' = interval /\ nextAt' = nextAt /\ call' = call
      /\ adaptive' = adaptive /\ reserved' = reserved /\ sent' = sent
  BY DEF Tick
<1>2. /\ clock \in Nat /\ clock' \in Nat /\ clock <= clock'
      /\ nextAt \in Nat /\ nextAt' \in Nat /\ nextAt <= nextAt'
  BY <1>1, LimiterTypes
<1>3. LimiterInv'
  <2>1. ASSUME NEW s \in sent PROVE (s - 1) * minimum_interval <= clock'
    <3>1. s \in Nat /\ (s - 1) * minimum_interval <= clock BY LimiterTypes DEF ClientInv, LimiterInv
    <3>2. (s - 1) * minimum_interval \in Int BY <3>1, LimiterTypes, SMT
    <3>. QED BY <1>1, <1>2, <3>1, <3>2
  <2>2. LimiterInv BY DEF ClientInv
  <2>. QED BY <1>1, <1>2, <2>1, <2>2 DEF LimiterInv
<1>4. ASSUME NEW t \in Threads PROVE CallFits(call[t], clock, nextAt)'
  <2>1. CallFits(call[t], clock, nextAt) BY CallTypes
  <2>2. CallFits(call[t], clock', nextAt') BY <1>2, <2>1, CallLater
  <2>. QED BY <1>1, <2>2 DEF CallFits, Heard
<1>5. call' = [t \in Threads |-> call'[t]] BY <1>1 DEF ClientInv
<1>6. Honoured BY <1>1 DEF Honoured, Sends
<1>. QED BY <1>3, <1>4, <1>5, <1>6 DEF ClientInv

LEMMA ClientKeeps == ClientInv /\ [ClientNext]_clientVars => ClientInv' /\ Honoured
<1>. SUFFICES ASSUME ClientInv, [ClientNext]_clientVars PROVE ClientInv' /\ Honoured
  OBVIOUS
<1>1. CASE UNCHANGED clientVars
  <2>1. /\ clock' = clock /\ interval' = interval /\ nextAt' = nextAt /\ call' = call
        /\ reserved' = reserved /\ sent' = sent /\ adaptive' = adaptive
    BY <1>1 DEF clientVars
  <2>2. LimiterInv' BY <2>1 DEF ClientInv, LimiterInv
  <2>3. ClientInv' BY <2>1, <2>2 DEF ClientInv, CallFits, Heard
  <2>4. Honoured BY <2>1 DEF Honoured, Sends
  <2>. QED BY <2>3, <2>4
<1>2. CASE Tick BY <1>2, TickKeeps
<1>3. ASSUME NEW t \in Threads, ThreadStep(t) PROVE ClientInv' /\ Honoured
  BY <1>3, WaitKeeps, SendKeeps, ResumeKeeps, RefusedKeeps, SucceedsKeeps, UnansweredKeeps,
     ThrottledKeeps DEF ThreadStep
<1>4. ASSUME NEW t \in Threads, NEW kind \in Kinds, BeginCall(t, kind)
      PROVE  ClientInv' /\ Honoured
  BY <1>4, BeginCallKeeps
<1>. QED BY <1>1, <1>2, <1>3, <1>4 DEF ClientNext

LEMMA ClientSafe == ClientSpec => [](ClientInv)
<1>1. ClientInit => ClientInv BY ClientInitInv
<1>2. ClientInv /\ [ClientNext]_clientVars => ClientInv' BY ClientKeeps
<1>. QED BY <1>1, <1>2, PTL DEF ClientSpec

(* No thread sends before a time its provider asked for in a form that its     *)
(* path reads and, for a list, through the adaptive limiter; for every number  *)
(* of threads, every policy and every plan (massive.py:111-137, 295-324).      *)
THEOREM RetryAfterIsHonoured == ClientSpec => RetryAfterHonoured
<1>1. ClientSpec => []ClientInv BY ClientSafe
<1>2. ClientInv /\ [ClientNext]_clientVars => Honoured BY ClientKeeps
<1>3. RetryAfterHonoured <=> [][Honoured]_clientVars BY DEF RetryAfterHonoured, Honoured
<1>. QED BY <1>1, <1>2, <1>3, PTL DEF ClientSpec

LEMMA SlotIsSmall ==
    ASSUME NEW s \in Nat \ {0}, NEW m \in Nat \ {0}, NEW now \in Nat, (s - 1) * m <= now
    PROVE  s <= (now \div m) + 1
<1>1. now \div m \in Nat /\ now < ((now \div m) + 1) * m BY SMT
<1>. DEFINE k == now \div m
<1>. HIDE DEF k
<1>2. k \in Nat /\ (s - 1) * m < (k + 1) * m BY <1>1, SMT DEF k
<1>3. s - 1 < k + 1 BY <1>2, SMT
<1>. QED BY <1>2, <1>3 DEF k

LEMMA BudgetOfSlots ==
    ASSUME NEW n \in Nat, NEW m \in Nat \ {0}, NEW now \in Nat, n <= (now \div m) + 1
    PROVE  n * m <= now + m
<1>1. now \div m \in Nat /\ (now \div m) * m <= now BY SMT
<1>. DEFINE k == now \div m
<1>. HIDE DEF k
<1>2. k \in Nat /\ k * m <= now /\ n <= k + 1 BY <1>1 DEF k
<1>3. n * m <= (k + 1) * m BY <1>2, SMT
<1>4. (k + 1) * m = k * m + m BY <1>2, SMT
<1>. QED BY <1>2, <1>3, <1>4, SMT

LEMMA BudgetHolds == ClientInv => SentWithinBudget
<1>. SUFFICES ASSUME ClientInv PROVE SentWithinBudget
  OBVIOUS
<1>1. /\ sent \in SUBSET (Nat \ {0}) /\ IsFiniteSet(sent) /\ clock \in Nat
      /\ \A s \in sent : (s - 1) * minimum_interval <= clock
  BY DEF ClientInv, LimiterInv
<1>2. Cardinality(sent) \in Nat BY <1>1, FS_CardinalityType
<1>3. CASE minimum_interval = 0
  <2>1. Cardinality(sent) * 0 = 0 BY <1>2, SMT
  <2>. QED BY <1>1, <1>3, <2>1 DEF SentWithinBudget
<1>4. CASE minimum_interval \in Nat \ {0}
  <2>. DEFINE k == (clock \div minimum_interval) + 1
  <2>1. k \in Nat \ {0} BY <1>1, <1>4, SMT
  <2>2. \A s \in sent : s <= k BY <1>1, <1>4, SlotIsSmall
  <2>3. sent \in SUBSET (1..k) BY <1>1, <2>1, <2>2
  <2>4. IsFiniteSet(1..k) /\ Cardinality(1..k) = k BY <2>1, FS_Interval
  <2>5. Cardinality(sent) <= k BY <2>3, <2>4, FS_Subset
  <2>6. Cardinality(sent) * minimum_interval <= clock + minimum_interval
    BY <1>1, <1>2, <1>4, <2>5, BudgetOfSlots
  <2>. QED BY <2>6 DEF SentWithinBudget
<1>. QED BY <1>3, <1>4, IntervalAssumption

(* The requests sent by any time are within the plan's budget, for every       *)
(* number of threads and every interval (rate_control.py, wait()).             *)
THEOREM RequestsStayInBudget == ClientSpec => []SentWithinBudget
BY ClientSafe, BudgetHolds, PTL

-----------------------------------------------------------------------------
(* The flat-file store.  What the metadata records is the digest of a whole    *)
(* file, unless damage struck a copy that had none; so a damaged copy and its  *)
(* metadata differ from then on.                                               *)
StoreInv ==
    /\ archive \in Copies \cup {Nothing}
    /\ fetch.part.damage = "none" /\ fetch.part \in Copies \cup {Nothing}
    /\ DOMAIN fetch = {"stage", "target", "part"}
    /\ fetch.stage \in {"part", "replaced"} => fetch.part # Nothing
    /\ ~blind => /\ metadata.damage = "none"
                 /\ archive.damage # "none" => metadata # Nothing

LEMMA StoreInitInv == StoreInit => StoreInv
BY DEF StoreInit, StoreInv, Nothing, NoFetch

LEMMA StoreKeeps == StoreInv /\ [StoreNext]_storeVars => StoreInv'
<1>. SUFFICES ASSUME StoreInv, [StoreNext]_storeVars PROVE StoreInv'
  OBVIOUS
<1>1. CASE UNCHANGED storeVars BY <1>1 DEF StoreInv, storeVars
<1>2. ASSUME NEW v \in Versions, ResolveObject(v) PROVE StoreInv'
  BY <1>2 DEF ResolveObject, StoreInv, NoFetch, Nothing
<1>3. ASSUME NEW v \in Versions, Download(v) PROVE StoreInv'
  <2>1. /\ fetch' = [fetch EXCEPT !.stage = "part", !.part = Whole(v)]
        /\ archive' = archive /\ metadata' = metadata /\ blind' = blind
    BY <1>3 DEF Download
  <2>2. Whole(v) \in Copies /\ Whole(v).damage = "none" /\ Whole(v).of = v
    BY DEF Whole, Copies
  <2>4. Whole(v) # Nothing BY <2>2, SizeAssumption DEF Nothing
  <2>3. fetch'.part = Whole(v) /\ DOMAIN fetch' = {"stage", "target", "part"}
    BY <2>1 DEF StoreInv
  <2>. QED BY <2>1, <2>2, <2>3, <2>4 DEF StoreInv
<1>4. CASE KeepCopy
  <2>1. /\ metadata' = archive /\ fetch' = NoFetch /\ archive' = archive /\ blind' = blind
        /\ metadata # Nothing => metadata = archive
    BY <1>4 DEF KeepCopy, Digest, Verified, MetadataMatches
  <2>2. ~blind => archive.damage = "none" BY <2>1 DEF StoreInv, Nothing
  <2>3. archive.damage # "none" => archive # Nothing BY DEF Nothing
  <2>. QED BY <2>1, <2>2, <2>3 DEF StoreInv, NoFetch, Nothing
<1>5. CASE DownloadFails BY <1>5 DEF DownloadFails, StoreInv, NoFetch, Nothing
<1>6. CASE Replace
  <2>1. /\ archive' = fetch.part /\ fetch' = [fetch EXCEPT !.stage = "replaced"]
        /\ metadata' = metadata /\ blind' = blind
    BY <1>6 DEF Replace
  <2>2. /\ fetch'.part = fetch.part /\ DOMAIN fetch' = {"stage", "target", "part"}
        /\ fetch.part # Nothing
    BY <1>6, <2>1 DEF StoreInv, Replace
  <2>. QED BY <2>1, <2>2 DEF StoreInv
<1>7. CASE WriteMetadata
  <2>1. /\ metadata' = fetch.part /\ fetch' = NoFetch /\ archive' = archive /\ blind' = blind
    BY <1>7 DEF WriteMetadata, Digest
  <2>2. /\ NoFetch.part = Nothing /\ Nothing.damage = "none"
        /\ DOMAIN NoFetch = {"stage", "target", "part"} /\ NoFetch.stage = "idle"
    BY DEF NoFetch, Nothing
  <2>3. fetch.part.damage = "none" /\ fetch.part \in Copies \cup {Nothing} BY DEF StoreInv
  <2>4. metadata'.damage = "none" BY <2>1, <2>3
  <2>5. metadata' # Nothing BY <1>7, <2>1 DEF StoreInv, WriteMetadata
  <2>. QED BY <2>1, <2>2, <2>4, <2>5 DEF StoreInv
<1>8. CASE StoreStops BY <1>8 DEF StoreStops, StoreInv, NoFetch, Nothing
<1>9. ASSUME NEW vs, Publish(vs) PROVE StoreInv'
  BY <1>9 DEF Publish, StoreInv
<1>10. ASSUME NEW where \in {"body", "header"}, Damage(where) PROVE StoreInv'
  <2>1. /\ archive' = [archive EXCEPT !.damage = where] /\ archive # Nothing
        /\ blind' = (blind \/ metadata = Nothing) /\ metadata' = metadata /\ fetch' = fetch
    BY <1>10 DEF Damage, IsFile
  <2>4. archive \in Copies BY <2>1 DEF StoreInv
  <2>2. archive' \in Copies BY <2>1, <2>4 DEF Copies
  <2>3. ~blind' => ~blind /\ metadata # Nothing BY <2>1
  <2>. QED BY <2>1, <2>2, <2>3 DEF StoreInv
<1>. QED BY <1>1, <1>2, <1>3, <1>4, <1>5, <1>6, <1>7, <1>8, <1>9, <1>10 DEF StoreNext

LEMMA DamageShows == StoreInv => DamageIsNoticed
<1>. SUFFICES ASSUME StoreInv, archive.damage # "none", ~blind
              PROVE  /\ CacheStatus = "CORRUPT"
                     /\ \A v \in Versions : ~Verified(archive, v)
  BY DEF DamageIsNoticed
<1>1. archive # Nothing BY DEF Nothing
<1>2. metadata # Nothing /\ metadata # archive BY DEF StoreInv
<1>3. ~MetadataMatches(archive) BY <1>2 DEF MetadataMatches, Digest
<1>. QED BY <1>1, <1>3 DEF CacheStatus, IsFile, Verified

(* A copy damaged after its metadata was written is never taken for good       *)
(* again, for every list of versions and whatever is published, downloaded or  *)
(* interrupted (massive_flatfiles.py, ensure_day() and cache_status()).        *)
THEOREM DamageIsAlwaysNoticed == StoreSpec => []DamageIsNoticed
<1>1. StoreInit => StoreInv BY StoreInitInv
<1>2. StoreInv /\ [StoreNext]_storeVars => StoreInv' BY StoreKeeps
<1>3. StoreInv => DamageIsNoticed BY DamageShows
<1>. QED BY <1>1, <1>2, <1>3, PTL DEF StoreSpec

-----------------------------------------------------------------------------
(* The page caches.  What has been served is what the file holds, and a        *)
(* caller is at a file only once there is one.                                 *)
PageInv ==
    /\ servedNews = [r \in Requests |-> servedNews[r]]
    /\ \A r \in Requests : \A x \in servedNews[r] :
           x = newsFile /\ newsFile.request = r /\ newsFile # NoPages
    /\ \A x \in servedPrices : x = priceFile /\ priceFile # NoPages
    /\ \A c \in Callers :
           /\ DOMAIN caller[c] = DOMAIN NoGet
           /\ caller[c].request \in Requests \cup {"NONE"}
           /\ caller[c].stage # "idle" => caller[c].request \in Requests
           /\ caller[c].stage = "read" => FileOf(c) # NoPages
    /\ caller = [c \in Callers |-> caller[c]]

LEMMA PageInitInv == PageInit => PageInv
BY DEF PageInit, PageInv, NoGet

LEMMA PageKeeps == PageInv /\ [PageNext]_pageVars => PageInv'
<1>. SUFFICES ASSUME PageInv, [PageNext]_pageVars PROVE PageInv'
  OBVIOUS
<1>1. CASE UNCHANGED pageVars BY <1>1 DEF PageInv, pageVars, FileOf
<1>. SUFFICES ASSUME NEW c \in Callers,
                     \/ \E of \in {"news", "prices"}, request \in Requests, force \in BOOLEAN :
                            StartGet(c, of, request, force)
                     \/ LookUp(c) \/ (\E pages \in Pages : Respond(c, pages)) \/ RespondBadly(c)
                     \/ Link(c) \/ ReplacePrices(c) \/ ReadPages(c) \/ ReadRefused(c)
                     \/ CallerStops(c)
              PROVE  PageInv'
  BY <1>1 DEF PageNext
<1>2. ASSUME NEW of \in {"news", "prices"}, NEW request \in Requests, NEW force \in BOOLEAN,
             StartGet(c, of, request, force)
      PROVE  PageInv'
  BY <1>2 DEF StartGet, PageInv, NoGet, FileOf
<1>3. CASE LookUp(c) BY <1>3 DEF LookUp, PageInv, FileOf
<1>4. ASSUME NEW pages \in Pages, Respond(c, pages) PROVE PageInv'
  <2>1. /\ caller' = [caller EXCEPT ![c].stage = "store", ![c].pages = pages]
        /\ newsFile' = newsFile /\ priceFile' = priceFile
        /\ servedNews' = servedNews /\ servedPrices' = servedPrices
        /\ caller[c].stage = "asked"
    BY <1>4 DEF Respond
  <2>2. ASSUME NEW d \in Callers
        PROVE  /\ DOMAIN caller'[d] = DOMAIN NoGet
               /\ caller'[d].request = caller[d].request /\ caller'[d].of = caller[d].of
               /\ caller'[d].stage = caller[d].stage
                      \/ (caller[d].stage # "idle" /\ caller'[d].stage = "store")
    BY <2>1 DEF PageInv, NoGet
  <2>3. caller' = [d \in Callers |-> caller'[d]] BY <2>1 DEF PageInv
  <2>. QED BY <2>1, <2>2, <2>3 DEF PageInv, FileOf
<1>5. CASE RespondBadly(c) BY <1>5 DEF RespondBadly, PageInv, FileOf, NoGet
<1>6. CASE Link(c) BY <1>6, RequestAssumption DEF Link, PageInv, FileOf, NoPages, File
<1>7. CASE ReplacePrices(c)
  BY <1>7, RequestAssumption DEF ReplacePrices, PageInv, FileOf, NoPages, File
<1>8. CASE ReadPages(c) BY <1>8 DEF ReadPages, PageInv, FileOf, NoGet, RequestMatches
<1>9. CASE ReadRefused(c) BY <1>9 DEF ReadRefused, PageInv, FileOf, NoGet
<1>10. CASE CallerStops(c) BY <1>10 DEF CallerStops, PageInv, FileOf, NoGet
<1>. QED BY <1>2, <1>3, <1>4, <1>5, <1>6, <1>7, <1>8, <1>9, <1>10

LEMMA PagesStay == PageInv => PagesNeverChange
<1>. SUFFICES ASSUME PageInv PROVE PagesNeverChange
  OBVIOUS
<1>1. ASSUME NEW r \in Requests, NEW s \in Requests, servedNews[r] # {}, servedNews[s] # {}
      PROVE  r = s /\ servedNews[r] = {newsFile} /\ newsFile.request = r
  BY <1>1 DEF PageInv
<1>2. servedPrices \in SUBSET {priceFile} BY DEF PageInv
<1>3. IsFiniteSet({priceFile}) /\ Cardinality({priceFile}) = 1 BY FS_Singleton
<1>4. Cardinality(servedPrices) <= 1 BY <1>2, <1>3, FS_Subset
<1>. QED BY <1>1, <1>4 DEF PagesNeverChange

(* However many threads of however many processes race to fetch them, the      *)
(* pages of a ticker and day never change once they were read, nor do those of *)
(* a price file between two forced refreshes (news_cache.py and                *)
(* historical_cache.py).                                                       *)
THEOREM PagesNeverChangeOnceRead == PageSpec => []PagesNeverChange
<1>1. PageInit => PageInv BY PageInitInv
<1>2. PageInv /\ [PageNext]_pageVars => PageInv' BY PageKeeps
<1>3. PageInv => PagesNeverChange BY PagesStay
<1>. QED BY <1>1, <1>2, <1>3, PTL DEF PageSpec

-----------------------------------------------------------------------------
(* The research batch.  Every ticker is still to be reached, scored or         *)
(* skipped; what is scored is complete in the queue, but for the ticker whose  *)
(* result was just written; and a complete ticker stays complete.              *)
Walking == batch.stage \in {"loop", "collect", "complete"}

BatchSound ==
    /\ ~Walking => batch.scored = {} /\ batch.skipped = {}
    /\ Walking =>
           /\ batch.scored \cup batch.skipped \cup batch.todo = Eligible
           /\ batch.scored \cap batch.skipped = {} /\ batch.skipped \cap batch.todo = {}
           /\ \A t \in batch.scored \ batch.newsErrors : resultFile[t] = "NEWS"
    /\ batch.stage \in {"loop", "collect"} => batch.scored \cap batch.todo = {}
    /\ batch.stage \in {"collect", "complete"} =>
           batch.todo # {} /\ tickerQueue[Reached].status = "IN_PROGRESS"
    /\ batch.stage = "complete" =>
           /\ batch.scored \cap batch.todo = {Reached}
           /\ resultFile[Reached] # "NONE"
    /\ \A t \in batch.scored :
           tickerQueue[t].status = "COMPLETE" \/ (batch.stage = "complete" /\ t = Reached)

ManifestSound ==
    manifest.status = "COMPLETE" =>
        \A t \in Eligible : tickerQueue[t].status = "COMPLETE"

BatchInv ==
    BatchTypeOK /\ BatchSound /\ ManifestSound /\ CompleteHasResult /\ TickersAccounted

\* the loop takes the tickers as they sort
LEMMA ReachedIsNext == ASSUME BatchTypeOK, batch.todo # {} PROVE Reached \in batch.todo
<1>1. batch.todo \subseteq Nat BY BatchAssumption DEF BatchTypeOK
<1>2. \E t \in batch.todo : \A u \in batch.todo : ~(<<u, t>> \in OpToRel(<, Nat))
  BY <1>1, NatLessThanWellFounded, WFMin
<1>3. PICK t \in batch.todo : \A u \in batch.todo : ~(<<u, t>> \in OpToRel(<, Nat)) BY <1>2
<1>4. ASSUME NEW u \in batch.todo PROVE t <= u
  <2>1. ~(u < t) BY <1>1, <1>3 DEF OpToRel
  <2>. QED BY <1>1, <2>1
<1>. QED BY <1>4 DEF Reached

LEMMA BatchInitInv == BatchInit => BatchInv
<1>. SUFFICES ASSUME BatchInit PROVE BatchInv
  OBVIOUS
<1>1. EmptyQueue \in Queues /\ \A t \in Eligible : EmptyQueue[t].status = "ABSENT"
  BY DEF EmptyQueue, Queues, TaskStatus
<1>2. BatchTypeOK BY <1>1 DEF BatchInit, BatchTypeOK, NoManifest, NoBatch
<1>3. BatchSound BY DEF BatchInit, BatchSound, Walking, NoBatch
<1>4. manifest.status = "NONE" BY DEF BatchInit, NoManifest
<1>5. CompleteHasResult BY <1>1 DEF BatchInit, CompleteHasResult
<1>. QED BY <1>2, <1>3, <1>4, <1>5 DEF BatchInv, ManifestSound, TickersAccounted

\* what the methods of the queue do to the status of a task
LEMMA LoadedQueue ==
    ASSUME NEW q \in Queues
    PROVE  Loaded(q) \in Queues /\ \A u \in Eligible :
               Loaded(q)[u].status = "COMPLETE" <=> q[u].status = "COMPLETE"
BY DEF Loaded, Queues, TaskStatus

LEMMA EnqueuedQueue ==
    ASSUME NEW q \in Queues
    PROVE  Enqueued(q, Eligible) \in Queues /\ \A u \in Eligible :
               Enqueued(q, Eligible)[u].status = "COMPLETE" <=> q[u].status = "COMPLETE"
BY DEF Enqueued, Queues, TaskStatus

LEMMA ClaimedQueue ==
    ASSUME NEW q \in Queues, NEW t \in Eligible
    PROVE  Claimed(q, t) \in Queues /\ \A u \in Eligible :
               Claimed(q, t)[u].status = IF u = t THEN "IN_PROGRESS" ELSE q[u].status
BY DEF Claimed, Queues, TaskStatus

LEMMA CompletedQueue ==
    ASSUME NEW q \in Queues, NEW t \in Eligible
    PROVE  Completed(q, t) \in Queues /\ \A u \in Eligible :
               Completed(q, t)[u].status = IF u = t THEN "COMPLETE" ELSE q[u].status
BY DEF Completed, Queues, TaskStatus

LEMMA FailedQueue ==
    ASSUME NEW q \in Queues, NEW t \in Eligible
    PROVE  /\ Failed(q, t, TRUE) \in Queues
           /\ \A u \in Eligible : u # t => Failed(q, t, TRUE)[u] = q[u]
           /\ Failed(q, t, TRUE)[t].status \in {"PENDING", "FAILED"}
BY DEF Failed, Queues, TaskStatus

(* Steps that leave the files alone: what the manifest says stays true.        *)
LEMMA FilesStay ==
    ASSUME BatchInv, UNCHANGED <<resultFile, manifest, removed>>, tickerQueue' \in Queues,
           \A t \in Eligible : tickerQueue'[t].status = "COMPLETE"
                                   <=> tickerQueue[t].status = "COMPLETE"
    PROVE  ManifestSound' /\ CompleteHasResult' /\ TickersAccounted'
<1>1. ManifestSound' BY DEF BatchInv, ManifestSound
<1>2. CompleteHasResult' BY DEF BatchInv, CompleteHasResult
<1>3. TickersAccounted' BY DEF BatchInv, TickersAccounted
<1>. QED BY <1>1, <1>2, <1>3

LEMMA StartBatchKeeps ==
    ASSUME BatchInv, NEW coverage \in {"complete", "incomplete"}, StartBatch(coverage)
    PROVE  BatchInv'
<1>1. /\ universe' = coverage /\ launches' = launches + 1 /\ tickerQueue' = Loaded(tickerQueue)
      /\ batch' = [NoBatch EXCEPT !.stage = "resolved"]
      /\ UNCHANGED <<resultFile, manifest, removed, stopped>>
  BY DEF StartBatch
<1>2. batch' = [stage |-> "resolved", todo |-> {}, scored |-> {}, skipped |-> {},
                newsErrors |-> {}]
  BY <1>1 DEF NoBatch
<1>3. tickerQueue \in Queues BY DEF BatchInv, BatchTypeOK
<1>4. /\ tickerQueue' \in Queues
      /\ \A t \in Eligible : tickerQueue'[t].status = "COMPLETE"
                                 <=> tickerQueue[t].status = "COMPLETE"
  BY <1>1, <1>3, LoadedQueue
<1>5. BatchTypeOK'
  <2>1. batch' \in [stage: {"down", "resolved", "loop", "collect", "complete"},
                    todo: SUBSET Eligible, scored: SUBSET Eligible,
                    skipped: SUBSET Eligible, newsErrors: SUBSET Eligible]
    BY <1>2
  <2>2. universe' \in {"NONE", "complete", "incomplete"} BY <1>1
  <2>3. launches' \in Nat BY <1>1 DEF BatchInv, BatchTypeOK
  <2>. QED BY <1>1, <1>4, <2>1, <2>2, <2>3 DEF BatchInv, BatchTypeOK
<1>6. BatchSound'
  <2>1. batch'.stage = "resolved" /\ batch'.scored = {} /\ batch'.skipped = {} BY <1>2
  <2>. QED BY <2>1 DEF BatchSound, Walking
<1>. QED BY <1>1, <1>4, <1>5, <1>6, FilesStay DEF BatchInv

LEMMA UnsupportedKeeps == ASSUME BatchInv, Unsupported PROVE BatchInv'
<1>1. /\ batch' = NoBatch /\ manifest' = [NoManifest EXCEPT !.status = "UNSUPPORTED",
                                       !.launch = launches, !.queue = tickerQueue]
      /\ UNCHANGED <<universe, tickerQueue, resultFile, removed, stopped, launches>>
  BY DEF Unsupported
<1>2. manifest' = [status |-> "UNSUPPORTED", launch |-> launches, scored |-> {}, skipped |-> {},
                   newsErrors |-> {}, queue |-> tickerQueue]
  BY <1>1 DEF NoManifest
<1>3. BatchTypeOK' BY <1>1, <1>2 DEF BatchInv, BatchTypeOK, NoBatch
<1>4. BatchSound' BY <1>1 DEF BatchSound, Walking, NoBatch
<1>5. CompleteHasResult' BY <1>1 DEF BatchInv, CompleteHasResult
<1>. QED BY <1>2, <1>3, <1>4, <1>5 DEF BatchInv, ManifestSound, TickersAccounted

LEMMA EnqueueTickersKeeps == ASSUME BatchInv, EnqueueTickers PROVE BatchInv'
<1>1. /\ batch.stage = "resolved" /\ tickerQueue' = Enqueued(tickerQueue, Eligible)
      /\ batch' = [batch EXCEPT !.stage = "loop", !.todo = Eligible]
      /\ UNCHANGED <<universe, resultFile, manifest, removed, stopped, launches>>
  BY DEF EnqueueTickers
<1>2. /\ batch'.stage = "loop" /\ batch'.todo = Eligible /\ batch'.scored = batch.scored
      /\ batch'.skipped = batch.skipped /\ batch'.newsErrors = batch.newsErrors
  BY <1>1 DEF BatchInv, BatchTypeOK
<1>3. tickerQueue \in Queues BY DEF BatchInv, BatchTypeOK
<1>4. /\ tickerQueue' \in Queues
      /\ \A t \in Eligible : tickerQueue'[t].status = "COMPLETE"
                                 <=> tickerQueue[t].status = "COMPLETE"
  BY <1>1, <1>3, EnqueuedQueue
<1>5. BatchTypeOK' BY <1>1, <1>4 DEF BatchInv, BatchTypeOK
<1>6. batch.scored = {} /\ batch.skipped = {} BY <1>1 DEF BatchInv, BatchSound, Walking
<1>7. BatchSound' BY <1>2, <1>6 DEF BatchSound, Walking
<1>. QED BY <1>1, <1>4, <1>5, <1>7, FilesStay DEF BatchInv

\* the part of the invariant that a step of the loop starts from
LEMMA AtLoop ==
    ASSUME BatchInv, AtTicker
    PROVE  /\ Reached \in batch.todo /\ Reached \in Eligible
           /\ batch.todo \subseteq Eligible /\ batch.scored \subseteq Eligible
           /\ batch.skipped \subseteq Eligible /\ batch.newsErrors \subseteq Eligible
           /\ batch.scored \cup batch.skipped \cup batch.todo = Eligible
           /\ batch.scored \cap batch.skipped = {} /\ batch.skipped \cap batch.todo = {}
           /\ batch.scored \cap batch.todo = {}
           /\ \A t \in batch.scored \ batch.newsErrors : resultFile[t] = "NEWS"
           /\ \A t \in batch.scored : tickerQueue[t].status = "COMPLETE"
<1>1. batch.stage = "loop" /\ batch.todo # {} /\ BatchTypeOK /\ BatchSound
  BY DEF AtTicker, BatchInv
<1>2. Reached \in batch.todo BY <1>1, ReachedIsNext
<1>3. /\ batch.todo \subseteq Eligible /\ batch.scored \subseteq Eligible
      /\ batch.skipped \subseteq Eligible /\ batch.newsErrors \subseteq Eligible
  BY <1>1 DEF BatchTypeOK
<1>. QED BY <1>1, <1>2, <1>3 DEF BatchSound, Walking

LEMMA ReuseResultKeeps == ASSUME BatchInv, ReuseResult PROVE BatchInv'
<1>. DEFINE t == Reached
<1>1. /\ AtTicker /\ tickerQueue[t].status = "COMPLETE" /\ resultFile[t] # "NONE"
      /\ batch' = [batch EXCEPT !.todo = @ \ {t}, !.scored = @ \cup {t},
             !.newsErrors = IF resultFile[t] = "NEWS_ERROR" THEN @ \cup {t} ELSE @]
      /\ UNCHANGED <<universe, tickerQueue, resultFile, manifest, removed, stopped, launches>>
  BY DEF ReuseResult, Reusable
<1>. HIDE DEF t
<1>2. t = Reached BY DEF t
<1>3. /\ batch'.stage = "loop" /\ batch'.todo = batch.todo \ {t}
      /\ batch'.scored = batch.scored \cup {t} /\ batch'.skipped = batch.skipped
      /\ batch'.newsErrors = IF resultFile[t] = "NEWS_ERROR" THEN batch.newsErrors \cup {t}
                             ELSE batch.newsErrors
  BY <1>1 DEF BatchInv, BatchTypeOK, AtTicker
<1>4. t \in Eligible /\ t \in batch.todo BY <1>1, <1>2, AtLoop
<1>5. resultFile[t] \in {"NEWS", "NEWS_ERROR"} BY <1>1, <1>4 DEF BatchInv, BatchTypeOK
<1>6. BatchTypeOK' BY <1>1, <1>4 DEF BatchInv, BatchTypeOK
<1>7. \A u \in batch'.scored \ batch'.newsErrors : resultFile[u] = "NEWS"
  BY <1>1, <1>3, <1>5, AtLoop
<1>8. BatchSound' BY <1>1, <1>3, <1>4, <1>7, AtLoop DEF BatchSound, Walking
<1>9. tickerQueue' \in Queues BY <1>1 DEF BatchInv, BatchTypeOK
<1>. QED BY <1>1, <1>6, <1>8, <1>9, FilesStay DEF BatchInv

LEMMA SkipTickerKeeps == ASSUME BatchInv, SkipTicker PROVE BatchInv'
<1>. DEFINE t == Reached
<1>1. /\ AtTicker /\ batch' = [batch EXCEPT !.todo = @ \ {t}, !.skipped = @ \cup {t}]
      /\ UNCHANGED <<universe, tickerQueue, resultFile, manifest, removed, stopped, launches>>
  BY DEF SkipTicker
<1>. HIDE DEF t
<1>2. t = Reached BY DEF t
<1>3. /\ batch'.stage = "loop" /\ batch'.todo = batch.todo \ {t}
      /\ batch'.scored = batch.scored /\ batch'.skipped = batch.skipped \cup {t}
      /\ batch'.newsErrors = batch.newsErrors
  BY <1>1 DEF BatchInv, BatchTypeOK, AtTicker
<1>4. t \in Eligible /\ t \in batch.todo BY <1>1, <1>2, AtLoop
<1>5. BatchTypeOK' BY <1>1, <1>4 DEF BatchInv, BatchTypeOK
<1>6. BatchSound' BY <1>1, <1>3, <1>4, AtLoop DEF BatchSound, Walking
<1>7. tickerQueue' \in Queues BY <1>1 DEF BatchInv, BatchTypeOK
<1>. QED BY <1>1, <1>5, <1>6, <1>7, FilesStay DEF BatchInv

LEMMA ClaimTickerKeeps == ASSUME BatchInv, ClaimTicker PROVE BatchInv'
<1>. DEFINE t == Reached
<1>1. /\ AtTicker /\ tickerQueue[t].status = "PENDING"
      /\ tickerQueue' = Claimed(tickerQueue, t)
      /\ batch' = [batch EXCEPT !.stage = "collect"]
      /\ UNCHANGED <<universe, resultFile, manifest, removed, stopped, launches>>
  BY DEF ClaimTicker, Claimable
<1>2. Reached' = Reached BY <1>1 DEF Reached, BatchInv, BatchTypeOK
<1>. HIDE DEF t
<1>3. t = Reached /\ t = Reached' BY <1>2 DEF t
<1>4. /\ batch'.stage = "collect" /\ batch'.todo = batch.todo
      /\ batch'.scored = batch.scored /\ batch'.skipped = batch.skipped
      /\ batch'.newsErrors = batch.newsErrors
  BY <1>1 DEF BatchInv, BatchTypeOK
<1>5. t \in Eligible /\ t \in batch.todo /\ tickerQueue \in Queues
  BY <1>1, <1>3, AtLoop DEF BatchInv, BatchTypeOK
<1>6. /\ tickerQueue' \in Queues
      /\ \A u \in Eligible :
             tickerQueue'[u].status = IF u = t THEN "IN_PROGRESS" ELSE tickerQueue[u].status
  BY <1>1, <1>5, ClaimedQueue
<1>7. BatchTypeOK' BY <1>1, <1>6 DEF BatchInv, BatchTypeOK
<1>8. \A u \in batch.scored : u \in Eligible /\ u # t BY <1>1, <1>5, AtLoop
<1>9. BatchSound' BY <1>1, <1>3, <1>4, <1>5, <1>6, <1>8, AtLoop DEF BatchSound, Walking
<1>10. \A u \in Eligible : tickerQueue'[u].status = "COMPLETE"
                              <=> tickerQueue[u].status = "COMPLETE"
  BY <1>1, <1>6
<1>. QED BY <1>1, <1>6, <1>7, <1>9, <1>10, FilesStay DEF BatchInv

\* the part of the invariant that a step within the loop's body starts from
LEMMA InBody ==
    ASSUME BatchInv, batch.stage \in {"collect", "complete"}
    PROVE  /\ Reached \in batch.todo /\ Reached \in Eligible
           /\ batch.todo \subseteq Eligible /\ batch.scored \subseteq Eligible
           /\ batch.skipped \subseteq Eligible /\ batch.newsErrors \subseteq Eligible
           /\ batch.scored \cup batch.skipped \cup batch.todo = Eligible
           /\ batch.scored \cap batch.skipped = {} /\ batch.skipped \cap batch.todo = {}
           /\ \A t \in batch.scored \ batch.newsErrors : resultFile[t] = "NEWS"
           /\ tickerQueue[Reached].status = "IN_PROGRESS"
           /\ tickerQueue \in Queues
           /\ manifest.status # "COMPLETE"
<1>1. BatchTypeOK /\ BatchSound /\ batch.todo # {} /\ tickerQueue[Reached].status = "IN_PROGRESS"
  BY DEF BatchInv, BatchSound
<1>2. Reached \in batch.todo BY <1>1, ReachedIsNext
<1>3. /\ batch.todo \subseteq Eligible /\ batch.scored \subseteq Eligible
      /\ batch.skipped \subseteq Eligible /\ batch.newsErrors \subseteq Eligible
      /\ tickerQueue \in Queues
  BY <1>1 DEF BatchTypeOK
<1>4. manifest.status # "COMPLETE" BY <1>1, <1>2, <1>3 DEF BatchInv, ManifestSound
<1>. QED BY <1>1, <1>2, <1>3, <1>4 DEF BatchSound, Walking

LEMMA CollectFailsKeeps == ASSUME BatchInv, CollectFails PROVE BatchInv'
<1>. DEFINE t == Reached
<1>1. /\ batch.stage = "collect" /\ tickerQueue' = Failed(tickerQueue, t, TRUE)
      /\ batch' = [batch EXCEPT !.stage = "loop", !.todo = @ \ {t}, !.skipped = @ \cup {t}]
      /\ UNCHANGED <<universe, resultFile, manifest, removed, stopped, launches>>
  BY DEF CollectFails
<1>. HIDE DEF t
<1>2. t = Reached BY DEF t
<1>3. /\ batch'.stage = "loop" /\ batch'.todo = batch.todo \ {t}
      /\ batch'.scored = batch.scored /\ batch'.skipped = batch.skipped \cup {t}
      /\ batch'.newsErrors = batch.newsErrors
  BY <1>1 DEF BatchInv, BatchTypeOK
<1>4. /\ t \in Eligible /\ t \in batch.todo /\ tickerQueue \in Queues
      /\ tickerQueue[t].status = "IN_PROGRESS"
  BY <1>1, <1>2, InBody
<1>5. /\ tickerQueue' \in Queues
      /\ \A u \in Eligible : u # t => tickerQueue'[u] = tickerQueue[u]
      /\ tickerQueue'[t].status \in {"PENDING", "FAILED"}
  BY <1>1, <1>4, FailedQueue
<1>6. BatchTypeOK' BY <1>1, <1>4, <1>5 DEF BatchInv, BatchTypeOK
<1>7. batch.scored \cap batch.todo = {} BY <1>1 DEF BatchInv, BatchSound
<1>8. \A u \in batch.scored : u \in Eligible /\ u # t /\ tickerQueue[u].status = "COMPLETE"
  BY <1>1, <1>4, <1>7, InBody DEF BatchInv, BatchSound
<1>9. BatchSound' BY <1>1, <1>3, <1>4, <1>5, <1>7, <1>8, InBody DEF BatchSound, Walking
<1>10. \A u \in Eligible : tickerQueue'[u].status = "COMPLETE"
                              <=> tickerQueue[u].status = "COMPLETE"
  BY <1>4, <1>5
<1>. QED BY <1>1, <1>5, <1>6, <1>9, <1>10, FilesStay DEF BatchInv

LEMMA WriteResultKeeps ==
    ASSUME BatchInv, NEW news \in {"NEWS", "NEWS_ERROR"}, WriteResult(news)
    PROVE  BatchInv'
<1>. DEFINE t == Reached
<1>1. /\ batch.stage = "collect" /\ resultFile' = [resultFile EXCEPT ![t] = news]
      /\ batch' = [batch EXCEPT !.stage = "complete", !.scored = @ \cup {t},
             !.newsErrors = IF news = "NEWS_ERROR" THEN @ \cup {t} ELSE @]
      /\ UNCHANGED <<universe, tickerQueue, manifest, removed, stopped, launches>>
  BY DEF WriteResult
<1>2. Reached' = Reached BY <1>1 DEF Reached, BatchInv, BatchTypeOK
<1>. HIDE DEF t
<1>3. t = Reached /\ t = Reached' BY <1>2 DEF t
<1>4. /\ batch'.stage = "complete" /\ batch'.todo = batch.todo
      /\ batch'.scored = batch.scored \cup {t} /\ batch'.skipped = batch.skipped
      /\ batch'.newsErrors = IF news = "NEWS_ERROR" THEN batch.newsErrors \cup {t}
                             ELSE batch.newsErrors
  BY <1>1 DEF BatchInv, BatchTypeOK
<1>5. /\ t \in Eligible /\ t \in batch.todo /\ tickerQueue[t].status = "IN_PROGRESS"
      /\ manifest.status # "COMPLETE"
  BY <1>1, <1>3, InBody
<1>6. \A u \in Eligible : resultFile'[u] = IF u = t THEN news ELSE resultFile[u]
  BY <1>1, <1>5 DEF BatchInv, BatchTypeOK
<1>7. BatchTypeOK' BY <1>1, <1>5 DEF BatchInv, BatchTypeOK
<1>8. batch.scored \cap batch.todo = {} /\ batch.scored \subseteq Eligible
  BY <1>1, InBody DEF BatchInv, BatchSound
<1>9. \A u \in batch'.scored \ batch'.newsErrors : resultFile'[u] = "NEWS"
  BY <1>1, <1>4, <1>5, <1>6, <1>8, InBody
<1>10. \A u \in batch.scored : tickerQueue[u].status = "COMPLETE"
  BY <1>1 DEF BatchInv, BatchSound
<1>11. BatchSound' BY <1>1, <1>3, <1>4, <1>5, <1>6, <1>8, <1>9, <1>10, InBody
                   DEF BatchSound, Walking
<1>12. CompleteHasResult' BY <1>1, <1>5, <1>6 DEF BatchInv, CompleteHasResult
<1>13. ManifestSound' /\ TickersAccounted'
  BY <1>1, <1>5 DEF BatchInv, ManifestSound, TickersAccounted
<1>. QED BY <1>7, <1>11, <1>12, <1>13 DEF BatchInv

LEMMA CompleteTickerKeeps == ASSUME BatchInv, CompleteTicker PROVE BatchInv'
<1>. DEFINE t == Reached
<1>1. /\ batch.stage = "complete" /\ tickerQueue' = Completed(tickerQueue, t)
      /\ batch' = [batch EXCEPT !.stage = "loop", !.todo = @ \ {t}]
      /\ UNCHANGED <<universe, resultFile, manifest, removed, stopped, launches>>
  BY DEF CompleteTicker
<1>. HIDE DEF t
<1>2. t = Reached BY DEF t
<1>3. /\ batch'.stage = "loop" /\ batch'.todo = batch.todo \ {t}
      /\ batch'.scored = batch.scored /\ batch'.skipped = batch.skipped
      /\ batch'.newsErrors = batch.newsErrors
  BY <1>1 DEF BatchInv, BatchTypeOK
<1>4. /\ t \in Eligible /\ t \in batch.todo /\ tickerQueue \in Queues
      /\ manifest.status # "COMPLETE"
  BY <1>1, <1>2, InBody
<1>5. batch.scored \cap batch.todo = {t} /\ resultFile[t] # "NONE"
  BY <1>1, <1>2 DEF BatchInv, BatchSound
<1>6. /\ tickerQueue' \in Queues
      /\ \A u \in Eligible :
             tickerQueue'[u].status = IF u = t THEN "COMPLETE" ELSE tickerQueue[u].status
  BY <1>1, <1>4, CompletedQueue
<1>7. BatchTypeOK' BY <1>1, <1>6 DEF BatchInv, BatchTypeOK
<1>8. \A u \in batch.scored : u \in Eligible /\ tickerQueue'[u].status = "COMPLETE"
  BY <1>1, <1>2, <1>6, InBody DEF BatchInv, BatchSound
<1>9. BatchSound' BY <1>1, <1>3, <1>4, <1>5, <1>8, InBody DEF BatchSound, Walking
<1>10. CompleteHasResult' BY <1>1, <1>5, <1>6 DEF BatchInv, CompleteHasResult
<1>11. ManifestSound' /\ TickersAccounted'
  BY <1>1, <1>4 DEF BatchInv, ManifestSound, TickersAccounted
<1>. QED BY <1>7, <1>9, <1>10, <1>11 DEF BatchInv

LEMMA WriteManifestKeeps == ASSUME BatchInv, WriteManifest PROVE BatchInv'
<1>1. /\ batch.stage = "loop" /\ batch.todo = {} /\ batch' = NoBatch
      /\ manifest' = [status |-> BatchStatus, launch |-> launches, scored |-> batch.scored,
                      skipped |-> batch.skipped, newsErrors |-> batch.newsErrors,
                      queue |-> tickerQueue]
      /\ UNCHANGED <<universe, tickerQueue, resultFile, removed, stopped, launches>>
  BY DEF WriteManifest
<1>2. /\ batch.scored \cup batch.skipped = Eligible /\ batch.scored \cap batch.skipped = {}
      /\ \A t \in batch.scored \ batch.newsErrors : resultFile[t] = "NEWS"
      /\ \A t \in batch.scored : tickerQueue[t].status = "COMPLETE"
  BY <1>1 DEF BatchInv, BatchSound, Walking
<1>3. BatchStatus \in {"FAILED", "PARTIAL", "COMPLETE"} BY DEF BatchStatus
<1>4. BatchStatus = "COMPLETE" => batch.skipped = {} /\ batch.newsErrors = {}
  BY DEF BatchStatus
<1>5. BatchTypeOK' BY <1>1, <1>3 DEF BatchInv, BatchTypeOK, NoBatch
<1>6. BatchSound' BY <1>1 DEF BatchSound, Walking, NoBatch
<1>7. CompleteHasResult' BY <1>1 DEF BatchInv, CompleteHasResult
<1>8. ManifestSound' BY <1>1, <1>2, <1>4 DEF ManifestSound
<1>9. TickersAccounted' BY <1>1, <1>2, <1>4 DEF TickersAccounted
<1>. QED BY <1>5, <1>6, <1>7, <1>8, <1>9 DEF BatchInv

LEMMA BatchStopsKeeps == ASSUME BatchInv, BatchStops PROVE BatchInv'
<1>1. /\ batch' = NoBatch /\ stopped' = stopped \cup {launches}
      /\ UNCHANGED <<universe, tickerQueue, resultFile, manifest, removed, launches>>
  BY DEF BatchStops
<1>2. BatchTypeOK' BY <1>1 DEF BatchInv, BatchTypeOK, NoBatch
<1>3. BatchSound' BY <1>1 DEF BatchSound, Walking, NoBatch
<1>4. tickerQueue' \in Queues BY <1>1 DEF BatchInv, BatchTypeOK
<1>. QED BY <1>1, <1>2, <1>3, <1>4, FilesStay DEF BatchInv

LEMMA RemoveResultKeeps == ASSUME BatchInv, NEW t \in Eligible, RemoveResult(t) PROVE BatchInv'
<1>1. /\ batch.stage = "down" /\ resultFile' = [resultFile EXCEPT ![t] = "NONE"]
      /\ removed' = removed \cup {t}
      /\ UNCHANGED <<universe, tickerQueue, manifest, batch, stopped, launches>>
  BY DEF RemoveResult
<1>2. \A u \in Eligible \ removed' : u \notin removed /\ resultFile'[u] = resultFile[u]
  BY <1>1 DEF BatchInv, BatchTypeOK
<1>3. BatchTypeOK' BY <1>1 DEF BatchInv, BatchTypeOK
<1>4. BatchSound' BY <1>1 DEF BatchInv, BatchSound, Walking
<1>5. CompleteHasResult' BY <1>1, <1>2 DEF BatchInv, CompleteHasResult
<1>6. ManifestSound' BY <1>1 DEF BatchInv, ManifestSound
<1>7. TickersAccounted' BY <1>1, <1>2 DEF BatchInv, TickersAccounted
<1>. QED BY <1>3, <1>4, <1>5, <1>6, <1>7 DEF BatchInv

LEMMA BatchSafe == BatchSpec => []BatchInv
<1>1. BatchInit => BatchInv BY BatchInitInv
<1>2. BatchInv /\ [BatchNext]_batchVars => BatchInv'
  <2>. SUFFICES ASSUME BatchInv, [BatchNext]_batchVars PROVE BatchInv'
    OBVIOUS
  <2>1. CASE UNCHANGED batchVars
    <3>1. /\ BatchTypeOK' /\ BatchSound' /\ ManifestSound'
      BY <2>1 DEF BatchInv, batchVars, BatchTypeOK, BatchSound, ManifestSound, Walking, Reached
    <3>2. CompleteHasResult' /\ TickersAccounted'
      BY <2>1 DEF BatchInv, batchVars, CompleteHasResult, TickersAccounted
    <3>. QED BY <3>1, <3>2 DEF BatchInv
  <2>. QED BY <2>1, StartBatchKeeps, UnsupportedKeeps, EnqueueTickersKeeps, ReuseResultKeeps,
              SkipTickerKeeps, ClaimTickerKeeps, CollectFailsKeeps, WriteResultKeeps,
              CompleteTickerKeeps, WriteManifestKeeps, BatchStopsKeeps, RemoveResultKeeps
           DEF BatchNext, LaunchStep
<1>. QED BY <1>1, <1>2, PTL DEF BatchSpec

(* A ticker the queue calls complete has its result on disk, for every set of  *)
(* tickers and however many launches stop anywhere (research_alpha_batch.py).  *)
THEOREM CompleteTickersHaveResults == BatchSpec => []CompleteHasResult
BY BatchSafe, PTL DEF BatchInv

(* The manifest accounts for every ticker once, and COMPLETE means that        *)
(* nothing is missing, over all the launches it took.                          *)
THEOREM TickersAreAccounted == BatchSpec => []TickersAccounted
BY BatchSafe, PTL DEF BatchInv

-----------------------------------------------------------------------------
(* The batch as a lease.  The ticker at work is the one reached, and it is in   *)
(* progress in the queue; every other ticker is what the queue says of it.      *)
LeaseMeaning(status) ==
    CASE status = "ABSENT" -> "unknown"
      [] status = "COMPLETE" -> "done"
      [] status = "FAILED" -> "dropped"
      [] status \notin {"ABSENT", "COMPLETE", "FAILED"} -> "open"

LEMMA TickerWorkIs ==
    /\ \A t \in Eligible :
           /\ Holds(t) => TickerWork[t] = "leased" /\ TickerHolder[t] = "loop"
           /\ ~Holds(t) => /\ TickerWork[t] = LeaseMeaning(tickerQueue[t].status)
                           /\ TickerHolder[t] = "nobody"
    /\ TickerWork = [t \in Eligible |-> TickerWork[t]]
    /\ TickerHolder = [t \in Eligible |-> TickerHolder[t]]
BY DEF TickerWork, TickerHolder, LeaseMeaning

LEMMA NextTickerWorkIs ==
    /\ \A t \in Eligible :
           /\ Holds(t)' => TickerWork'[t] = "leased" /\ TickerHolder'[t] = "loop"
           /\ ~Holds(t)' => /\ TickerWork'[t] = LeaseMeaning(tickerQueue'[t].status)
                            /\ TickerHolder'[t] = "nobody"
    /\ TickerWork' = [t \in Eligible |-> TickerWork'[t]]
    /\ TickerHolder' = [t \in Eligible |-> TickerHolder'[t]]
BY DEF TickerWork, TickerHolder, LeaseMeaning

\* while nothing is at work, before or after, a step that keeps the meaning of
\* every status in the queue is none of the lease's
LEMMA IdleLease ==
    ASSUME batch.stage \notin {"collect", "complete"}, batch'.stage \notin {"collect", "complete"},
           \A t \in Eligible :
               LeaseMeaning(tickerQueue'[t].status) = LeaseMeaning(tickerQueue[t].status)
    PROVE  UNCHANGED <<TickerWork, TickerHolder>>
<1>1. \A t \in Eligible : ~Holds(t) /\ ~Holds(t)'
  BY DEF Holds
<1>2. \A t \in Eligible : TickerWork'[t] = TickerWork[t] /\ TickerHolder'[t] = TickerHolder[t]
  BY <1>1, TickerWorkIs, NextTickerWorkIs
<1>. QED BY <1>2, TickerWorkIs, NextTickerWorkIs

LEMMA LoadedMeaning ==
    ASSUME NEW q \in Queues, NEW t \in Eligible
    PROVE  LeaseMeaning(Loaded(q)[t].status) = LeaseMeaning(q[t].status)
BY DEF Loaded, Queues, TaskStatus, LeaseMeaning

LEMMA EnqueueIsOffer == ASSUME BatchInv, EnqueueTickers PROVE TickerLeases!Next
<1>. DEFINE fresh == {t \in Eligible : tickerQueue[t].status = "ABSENT"}
<1>1. /\ batch.stage = "resolved" /\ tickerQueue' = Enqueued(tickerQueue, Eligible)
      /\ batch'.stage = "loop" /\ tickerQueue \in Queues
  BY DEF EnqueueTickers, BatchInv, BatchTypeOK
<1>2. \A t \in Eligible : ~Holds(t) /\ ~Holds(t)'
  BY <1>1 DEF Holds
<1>3. \A t \in Eligible : tickerQueue'[t].status =
          IF t \in fresh THEN "PENDING" ELSE tickerQueue[t].status
  BY <1>1 DEF Enqueued, Queues
<1>4. \A t \in Eligible : /\ TickerWork'[t] = IF t \in fresh THEN "open" ELSE TickerWork[t]
                          /\ TickerHolder'[t] = TickerHolder[t]
  BY <1>2, <1>3, TickerWorkIs, NextTickerWorkIs DEF LeaseMeaning
<1>5. \A t \in fresh : TickerWork[t] = "unknown"
  BY <1>2, TickerWorkIs DEF LeaseMeaning
<1>6. /\ TickerWork' = [t \in Eligible |-> IF t \in fresh THEN "open" ELSE TickerWork[t]]
      /\ TickerHolder' = TickerHolder
  BY <1>4, TickerWorkIs, NextTickerWorkIs
<1>7. fresh \in SUBSET Eligible
  OBVIOUS
<1>. HIDE DEF fresh
<1>8. TickerLeases!Offer(fresh)
  BY <1>5, <1>6 DEF TickerLeases!Offer
<1>. QED BY <1>7, <1>8 DEF TickerLeases!Next

LEMMA ClaimIsLease == ASSUME BatchInv, ClaimTicker PROVE TickerLeases!Next
<1>. DEFINE t == Reached
<1>1. /\ batch.stage = "loop" /\ t \in Eligible /\ tickerQueue[t].status = "PENDING"
      /\ tickerQueue' = Claimed(tickerQueue, t) /\ tickerQueue \in Queues
      /\ batch'.stage = "collect" /\ batch'.todo = batch.todo
  BY AtLoop DEF ClaimTicker, AtTicker, Claimable, BatchInv, BatchTypeOK
<1>2. Reached' = t
  BY <1>1 DEF Reached
<1>. HIDE DEF t
<1>3. \A u \in Eligible : ~Holds(u) /\ (Holds(u)' <=> u = t)
  BY <1>1, <1>2 DEF Holds
<1>4. \A u \in Eligible : u # t => tickerQueue'[u].status = tickerQueue[u].status
  BY <1>1, ClaimedQueue
<1>5. /\ TickerWork[t] = "open"
      /\ \A u \in Eligible : /\ TickerWork'[u] = IF u = t THEN "leased" ELSE TickerWork[u]
                             /\ TickerHolder'[u] = IF u = t THEN "loop" ELSE TickerHolder[u]
  BY <1>1, <1>3, <1>4, TickerWorkIs, NextTickerWorkIs DEF LeaseMeaning
<1>6. /\ TickerWork' = [TickerWork EXCEPT ![t] = "leased"]
      /\ TickerHolder' = [TickerHolder EXCEPT ![t] = "loop"]
  BY <1>5, TickerWorkIs, NextTickerWorkIs
<1>7. TickerLeases!Lease("loop", t)
  BY <1>5, <1>6 DEF TickerLeases!Lease
<1>. QED BY <1>1, <1>7 DEF TickerLeases!Next

\* the loop settles the ticker it reached, and goes on to the next
LEMMA SettleIsSettle ==
    ASSUME BatchInv, batch.stage \in {"collect", "complete"}, batch'.stage = "loop",
           \A u \in Eligible : u # Reached => tickerQueue'[u].status = tickerQueue[u].status,
           NEW outcome \in {"open", "done", "dropped"},
           LeaseMeaning(tickerQueue'[Reached].status) = outcome
    PROVE  TickerLeases!Next
<1>. DEFINE t == Reached
<1>1. t \in Eligible /\ LeaseMeaning(tickerQueue'[t].status) = outcome
  BY InBody
<1>2. \A u \in Eligible : (Holds(u) <=> u = t) /\ ~Holds(u)'
  BY DEF Holds
<1>3. \A u \in Eligible : u # t => tickerQueue'[u].status = tickerQueue[u].status
  OBVIOUS
<1>. HIDE DEF t
<1>4. /\ TickerHolder[t] = "loop"
      /\ \A u \in Eligible : /\ TickerWork'[u] = IF u = t THEN outcome ELSE TickerWork[u]
                             /\ TickerHolder'[u] = IF u = t THEN "nobody" ELSE TickerHolder[u]
  BY <1>1, <1>2, <1>3, TickerWorkIs, NextTickerWorkIs
<1>5. /\ TickerWork' = [TickerWork EXCEPT ![t] = outcome]
      /\ TickerHolder' = [TickerHolder EXCEPT ![t] = "nobody"]
  BY <1>4, TickerWorkIs, NextTickerWorkIs
<1>6. TickerLeases!Settle("loop", t, outcome)
  BY <1>4, <1>5 DEF TickerLeases!Settle
<1>. QED BY <1>1, <1>6 DEF TickerLeases!Next

\* what was at work when the process stopped is open again
LEMMA StopIsRecall == ASSUME BatchInv, BatchStops PROVE TickerLeases!Next
<1>1. batch'.stage = "down" /\ tickerQueue' = tickerQueue
  BY DEF BatchStops, NoBatch
<1>2. \A t \in Eligible : Holds(t) => tickerQueue[t].status = "IN_PROGRESS"
  BY InBody DEF Holds
<1>3. \A t \in Eligible : ~Holds(t)'
  BY <1>1 DEF Holds
<1>4. \A t \in Eligible :
          /\ TickerWork'[t] = IF TickerWork[t] = "leased" THEN "open" ELSE TickerWork[t]
          /\ TickerHolder'[t] = "nobody"
  BY <1>1, <1>2, <1>3, TickerWorkIs, NextTickerWorkIs DEF LeaseMeaning
<1>5. /\ TickerWork' = [t \in Eligible |-> IF TickerWork[t] = "leased" THEN "open"
                                           ELSE TickerWork[t]]
      /\ TickerHolder' = [t \in Eligible |-> "nobody"]
  BY <1>4, NextTickerWorkIs
<1>6. TickerLeases!Recall
  BY <1>5 DEF TickerLeases!Recall
<1>. QED BY <1>6 DEF TickerLeases!Next

LEMMA BatchStepLease ==
    ASSUME BatchInv, [BatchNext]_batchVars
    PROVE  [TickerLeases!Next]_<<TickerWork, TickerHolder>>
<1>. USE DEF TickerLeases!leaseVars
<1>1. ASSUME NEW coverage, StartBatch(coverage) PROVE UNCHANGED <<TickerWork, TickerHolder>>
  <2>1. batch.stage = "down" /\ batch'.stage = "resolved" /\ tickerQueue' = Loaded(tickerQueue)
    BY <1>1 DEF StartBatch, NoBatch
  <2>2. tickerQueue \in Queues
    BY DEF BatchInv, BatchTypeOK
  <2>. QED BY <2>1, <2>2, LoadedMeaning, IdleLease
<1>2. CASE Unsupported \/ WriteManifest \/ ReuseResult \/ SkipTicker
  <2>1. ASSUME Unsupported \/ WriteManifest
        PROVE  batch.stage \in {"resolved", "loop"} /\ batch'.stage = "down"
               /\ tickerQueue' = tickerQueue
    BY <2>1 DEF Unsupported, WriteManifest, NoBatch
  <2>2. ASSUME ReuseResult \/ SkipTicker
        PROVE  batch.stage = "loop" /\ batch'.stage = batch.stage
               /\ tickerQueue' = tickerQueue
    <3>1. DOMAIN batch = {"stage", "todo", "scored", "skipped", "newsErrors"}
      BY DEF BatchInv, BatchTypeOK
    <3>2. CASE ReuseResult
      BY <3>1, <3>2 DEF ReuseResult, AtTicker
    <3>3. CASE SkipTicker
      BY <3>1, <3>3 DEF SkipTicker, AtTicker
    <3>. QED BY <2>2, <3>2, <3>3
  <2>. QED BY <1>2, <2>1, <2>2, IdleLease
<1>3. CASE EnqueueTickers
  BY <1>3, EnqueueIsOffer
<1>4. CASE ClaimTicker
  BY <1>4, ClaimIsLease
<1>5. CASE CollectFails
  <2>1. /\ batch.stage = "collect" /\ batch'.stage = "loop"
        /\ tickerQueue' = Failed(tickerQueue, Reached, TRUE)
    BY <1>5 DEF CollectFails, BatchInv, BatchTypeOK
  <2>2. tickerQueue \in Queues /\ Reached \in Eligible
    BY <2>1, InBody
  <2>3. /\ \A u \in Eligible : u # Reached => tickerQueue'[u].status = tickerQueue[u].status
        /\ tickerQueue'[Reached].status \in {"PENDING", "FAILED"}
    BY <2>1, <2>2, FailedQueue
  <2>4. LeaseMeaning(tickerQueue'[Reached].status) \in {"open", "done", "dropped"}
    BY <2>3 DEF LeaseMeaning
  <2>. QED BY <2>1, <2>3, <2>4, SettleIsSettle
<1>6. ASSUME NEW news, WriteResult(news) PROVE UNCHANGED <<TickerWork, TickerHolder>>
  <2>1. /\ batch.stage = "collect" /\ batch'.stage = "complete" /\ batch'.todo = batch.todo
        /\ tickerQueue' = tickerQueue
    BY <1>6 DEF WriteResult, BatchInv, BatchTypeOK
  <2>2. \A t \in Eligible : Holds(t)' <=> Holds(t)
    BY <2>1 DEF Holds, Reached
  <2>3. \A t \in Eligible : TickerWork'[t] = TickerWork[t] /\ TickerHolder'[t] = TickerHolder[t]
    BY <2>1, <2>2, TickerWorkIs, NextTickerWorkIs
  <2>. QED BY <2>3, TickerWorkIs, NextTickerWorkIs
<1>7. CASE CompleteTicker
  <2>1. /\ batch.stage = "complete" /\ batch'.stage = "loop"
        /\ tickerQueue' = Completed(tickerQueue, Reached)
    BY <1>7 DEF CompleteTicker, BatchInv, BatchTypeOK
  <2>2. tickerQueue \in Queues /\ Reached \in Eligible
    BY <2>1, InBody
  <2>3. /\ \A u \in Eligible : u # Reached => tickerQueue'[u].status = tickerQueue[u].status
        /\ tickerQueue'[Reached].status = "COMPLETE"
    BY <2>1, <2>2, CompletedQueue
  <2>4. LeaseMeaning(tickerQueue'[Reached].status) = "done"
    BY <2>3 DEF LeaseMeaning
  <2>. QED BY <2>1, <2>3, <2>4, SettleIsSettle
<1>8. CASE BatchStops
  BY <1>8, StopIsRecall
<1>9. ASSUME NEW t, RemoveResult(t) PROVE UNCHANGED <<TickerWork, TickerHolder>>
  <2>1. UNCHANGED <<tickerQueue, batch>>
    BY <1>9 DEF RemoveResult
  <2>. QED BY <2>1 DEF TickerWork, TickerHolder, Holds, Reached
<1>10. CASE UNCHANGED batchVars
  <2>1. UNCHANGED <<tickerQueue, batch>>
    BY <1>10 DEF batchVars
  <2>. QED BY <2>1 DEF TickerWork, TickerHolder, Holds, Reached
<1>. QED BY <1>1, <1>2, <1>3, <1>4, <1>5, <1>6, <1>7, <1>8, <1>9, <1>10
         DEF BatchNext, LaunchStep

(* However often a batch is launched and stopped, its tickers are leased and    *)
(* settled as the queue promises (run_massive_alpha_batch over ReplayQueue).    *)
THEOREM BatchImplementsLease == BatchSpec => BatchImplementsWorkLease
<1>1. BatchInit => TickerLeases!Init
  <2>. SUFFICES ASSUME BatchInit PROVE TickerLeases!Init
    OBVIOUS
  <2>1. \A t \in Eligible : ~Holds(t) /\ tickerQueue[t].status = "ABSENT"
    BY DEF BatchInit, NoBatch, Holds, EmptyQueue
  <2>2. \A t \in Eligible : TickerWork[t] = "unknown" /\ TickerHolder[t] = "nobody"
    BY <2>1, TickerWorkIs DEF LeaseMeaning
  <2>3. /\ TickerWork = [t \in Eligible |-> "unknown"]
        /\ TickerHolder = [t \in Eligible |-> "nobody"]
    BY <2>2, TickerWorkIs
  <2>. QED BY <2>3 DEF TickerLeases!Init
<1>2. BatchInv /\ [BatchNext]_batchVars => [TickerLeases!Next]_<<TickerWork, TickerHolder>>
  BY BatchStepLease
<1>. QED BY <1>1, <1>2, BatchSafe, PTL
         DEF BatchSpec, BatchImplementsWorkLease, TickerLeases!Spec, TickerLeases!leaseVars

-----------------------------------------------------------------------------
(* The split of an experiment.  A session is its rank in the range, counted    *)
(* from 0.                                                                     *)

(* Rounding a fifth never reserves more than there is, nor grows by more than  *)
(* one per added session.                                                      *)
LEMMA ReservedBounds ==
    ASSUME NEW n \in Nat, n >= 3
    PROVE  /\ ReservedCount(n) \in Nat
           /\ 1 <= ReservedCount(n)
           /\ 2 * ReservedCount(n) < n
           /\ 5 * ReservedCount(n) <= n + 2
           /\ n < 5 * ReservedCount(n) + 3
BY DEF ReservedCount

(* Within a range the partitions are in the order of time: what comes after a  *)
(* holdout session is holdout, and what comes after a validation session is    *)
(* not development (build_chronological_splits).                               *)
THEOREM PartitionsChronological ==
    ASSUME NEW n \in Nat, NEW i \in 0..(n - 1), NEW j \in 0..(n - 1), i < j
    PROVE  /\ PartitionAt(i, n) = "HOLDOUT" => PartitionAt(j, n) = "HOLDOUT"
           /\ PartitionAt(i, n) = "VALIDATION" => PartitionAt(j, n) # "DEVELOPMENT"
<1>1. CASE n < SplitMinimum
  BY <1>1, SplitMinimumAssumption DEF PartitionAt
<1>2. CASE n >= SplitMinimum
  <2>1. n >= 3 /\ ReservedCount(n) \in Nat
    BY <1>2, SplitMinimumAssumption, ReservedBounds
  <2>. QED
    BY <1>2, <2>1, SplitMinimumAssumption DEF PartitionAt
<1>. QED BY <1>1, <1>2, SplitMinimumAssumption

(* Every range of at least SplitMinimum sessions has sessions of each kind.    *)
THEOREM EveryPartitionUsed ==
    ASSUME NEW n \in Nat, n >= SplitMinimum
    PROVE  /\ PartitionAt(0, n) = "DEVELOPMENT"
           /\ PartitionAt(n - ReservedCount(n) - 1, n) = "VALIDATION"
           /\ PartitionAt(n - 1, n) = "HOLDOUT"
<1>1. n >= 3 BY SplitMinimumAssumption
<1>2. /\ ReservedCount(n) \in Nat
      /\ 1 <= ReservedCount(n)
      /\ 2 * ReservedCount(n) < n
  BY <1>1, ReservedBounds
<1>. QED BY <1>2, SplitMinimumAssumption DEF PartitionAt

(* An experiment that has a holdout cannot be extended by later sessions: of   *)
(* the n saved ones, whose ranks do not change, at least one is assigned to    *)
(* another partition when k more follow, so run_multi_day_trainer refuses      *)
(* (multi_day_trainer.py, lines 559-568).                                      *)
THEOREM AppendingMovesAFrozenDate ==
    ASSUME NEW n \in Nat, n >= SplitMinimum, NEW k \in Nat, k >= 1
    PROVE  \E i \in 0..(n - 1) : PartitionAt(i, n + k) # PartitionAt(i, n)
<1>. DEFINE c == ReservedCount(n)
            d == ReservedCount(n + k)
<1>1. n >= 3 /\ n + k >= 3 /\ n + k \in Nat /\ n + k >= SplitMinimum
  BY SplitMinimumAssumption
<1>2. c \in Nat /\ 1 <= c /\ 2 * c < n
  BY <1>1, ReservedBounds
<1>3. d \in Nat /\ 1 <= d /\ 2 * d < n + k
  BY <1>1, ReservedBounds
<1>. HIDE DEF c, d
<1>4. CASE d # c + k
  <2>1. CASE d < c + k
    \* the first holdout session becomes validation or development
    <3>1. PartitionAt(n - c, n) = "HOLDOUT"
      BY <1>1, <1>2, SplitMinimumAssumption DEF PartitionAt, c
    <3>2. PartitionAt(n - c, n + k) # "HOLDOUT"
      BY <1>1, <1>2, <1>3, <2>1, SplitMinimumAssumption DEF PartitionAt, d
    <3>. QED BY <1>2, <3>1, <3>2
  <2>2. CASE d > c + k
    \* the last validation session becomes holdout
    <3>1. PartitionAt(n - c - 1, n) = "VALIDATION"
      BY <1>1, <1>2, SplitMinimumAssumption DEF PartitionAt, c
    <3>2. PartitionAt(n - c - 1, n + k) = "HOLDOUT"
      BY <1>1, <1>2, <1>3, <2>2, SplitMinimumAssumption DEF PartitionAt, d
    <3>. QED BY <1>2, <3>1, <3>2
  <2>. QED BY <1>2, <1>3, <1>4, <2>1, <2>2
<1>5. CASE d = c + k
  \* the holdout keeps its first session, so development loses its last
  <2>1. PartitionAt(n - 2 * c - 1, n) = "DEVELOPMENT"
    BY <1>1, <1>2, SplitMinimumAssumption DEF PartitionAt, c
  <2>2. PartitionAt(n - 2 * c - 1, n + k) # "DEVELOPMENT"
    BY <1>1, <1>2, <1>3, <1>5, SplitMinimumAssumption DEF PartitionAt, d
  <2>. QED BY <1>2, <2>1, <2>2
<1>. QED BY <1>4, <1>5

\* the ranks of a range are 0, 1, 2, ...
RankOf(S, d) == Cardinality({e \in S : e < d})

LEMMA RanksNumber ==
    ASSUME NEW S \in SUBSET Dates
    PROVE  /\ IsFiniteSet(S) /\ Cardinality(S) \in Nat /\ S \subseteq Int
           /\ \A d \in S : RankOf(S, d) \in 0..(Cardinality(S) - 1)
           /\ \A d, e \in S : d < e => RankOf(S, d) < RankOf(S, e)
           /\ \A d, e \in S : RankOf(S, d) = RankOf(S, e) => d = e
           /\ \A k \in 0..(Cardinality(S) - 1) : \E d \in S : RankOf(S, d) = k
<1>. DEFINE R == {p \in S \X S : p[1] < p[2]}
<1>1. IsFiniteSet(S) /\ S \subseteq Int
  BY DatesAssumption, FS_Subset
<1>2. StrictOrder(R, S)
  BY <1>1 DEF StrictOrder
<1>3. \A d \in S : Before(R, S, d) = {e \in S : e < d}
  BY DEF Before
<1>4. \A d, e \in S : d < e => <<d, e>> \in R
  OBVIOUS
<1>. HIDE DEF R
<1>5. /\ \A d \in S : Cardinality(Before(R, S, d)) \in 0..(Cardinality(S) - 1)
      /\ \A d, e \in S : <<d, e>> \in R =>
            Cardinality(Before(R, S, d)) < Cardinality(Before(R, S, e))
  BY <1>1, <1>2, CountsGrow
<1>6. /\ \A d, e \in S : Cardinality(Before(R, S, d)) = Cardinality(Before(R, S, e)) => d = e
      /\ \A k \in 0..(Cardinality(S) - 1) : \E d \in S : Cardinality(Before(R, S, d)) = k
  <2>. HIDE DEF Before
  <2>1. IsFiniteSet(S) /\ StrictOrder(R, S)
    BY <1>1, <1>2
  <2>. QED BY ONLY <2>1, CountsNumber, SMTT(60)
<1>7. \A d \in S : Cardinality(Before(R, S, d)) = RankOf(S, d)
  BY <1>3 DEF RankOf
<1>8. Cardinality(S) \in Nat
  BY <1>1, FS_CardinalityType
<1>. QED BY <1>1, <1>4, <1>5, <1>6, <1>7, <1>8

\* as many dates as there are ranks from a to b
LEMMA RanksBetween ==
    ASSUME NEW S \in SUBSET Dates, NEW a \in Nat, NEW b \in Nat, a <= b, b < Cardinality(S)
    PROVE  Cardinality({d \in S : RankOf(S, d) \in a..b}) = b - a + 1
<1>. DEFINE T == {d \in S : RankOf(S, d) \in a..b}
            f == [d \in T |-> RankOf(S, d)]
<1>1. /\ IsFiniteSet(S) /\ Cardinality(S) \in Nat
      /\ \A d, e \in S : RankOf(S, d) = RankOf(S, e) => d = e
      /\ \A k \in 0..(Cardinality(S) - 1) : \E d \in S : RankOf(S, d) = k
  BY RanksNumber
<1>2. f \in [T -> a..b] /\ \A d, e \in T : f[d] = f[e] => d = e
  BY <1>1
<1>3. \A k \in a..b : \E d \in T : f[d] = k
  <2>. SUFFICES ASSUME NEW k \in a..b PROVE \E d \in T : f[d] = k
    OBVIOUS
  <2>1. PICK d \in S : RankOf(S, d) = k
    BY <1>1
  <2>. QED BY <2>1
<1>4. IsFiniteSet(T)
  BY <1>1, FS_Subset
<1>. HIDE DEF f, T
<1>5. f \in Bijection(T, a..b)
  BY <1>2, <1>3 DEF Bijection, Injection, Surjection, IsInjective
<1>6. Cardinality(T) = Cardinality(a..b)
  BY <1>4, <1>5, FS_Bijection DEF ExistsBijection
<1>7. Cardinality(a..b) = b - a + 1
  BY FS_Interval
<1>. QED BY <1>6, <1>7 DEF T

LEMMA SplitIsByRank ==
    ASSUME NEW S \in SUBSET Dates, NEW d \in S
    PROVE  Split(S)[d] = PartitionAt(RankOf(S, d), Cardinality(S))
BY DEF Split, RankOf

FrozenInv == range \in SUBSET Dates /\ frozen = Split(range)

LEMMA SplitIsChronological == FrozenInv => NoFutureInDevelopment
<1>. SUFFICES ASSUME FrozenInv, NEW d \in range, NEW e \in range, d < e
              PROVE  /\ frozen[d] = "HOLDOUT" => frozen[e] = "HOLDOUT"
                     /\ frozen[d] = "VALIDATION" => frozen[e] # "DEVELOPMENT"
  BY DEF NoFutureInDevelopment
<1>. DEFINE n == Cardinality(range)
            i == RankOf(range, d)
            j == RankOf(range, e)
<1>1. range \in SUBSET Dates /\ frozen = Split(range)
  BY DEF FrozenInv
<1>2. n \in Nat /\ i \in 0..(n - 1) /\ j \in 0..(n - 1) /\ i < j
  BY <1>1, RanksNumber
<1>3. frozen[d] = PartitionAt(i, n) /\ frozen[e] = PartitionAt(j, n)
  BY <1>1, SplitIsByRank
<1>. HIDE DEF n, i, j
<1>. QED BY <1>2, <1>3, PartitionsChronological

LEMMA NearestToAFifth ==
    ASSUME NEW n \in Nat, NEW c \in Nat, 5 * c <= n + 2, n < 5 * c + 3, NEW k \in 1..n
    PROVE  DistanceToFifth(c, n) <= DistanceToFifth(k, n)
BY DEF DistanceToFifth

LEMMA SplitIsInFifths == FrozenInv => ReservedFifths
<1>. SUFFICES ASSUME FrozenInv PROVE ReservedFifths
  OBVIOUS
<1>. DEFINE n == Cardinality(range)
            c == ReservedCount(n)
            V == InPartition("VALIDATION")
            H == InPartition("HOLDOUT")
<1>1. range \in SUBSET Dates /\ frozen = Split(range)
  BY DEF FrozenInv
<1>2. n \in Nat /\ \A d \in range : RankOf(range, d) \in 0..(n - 1)
  BY <1>1, RanksNumber
<1>3. \A d \in range : frozen[d] = PartitionAt(RankOf(range, d), n)
  BY <1>1, SplitIsByRank
<1>4. CASE n < SplitMinimum
  <2>1. \A d \in range : frozen[d] = "DEVELOPMENT"
    BY <1>3, <1>4 DEF PartitionAt
  <2>. QED BY <1>4, <2>1 DEF ReservedFifths, InPartition
<1>5. CASE ~(n < SplitMinimum)
  <2>1. n >= 3 /\ n >= SplitMinimum
    BY <1>2, <1>5, SplitMinimumAssumption
  <2>2. c \in Nat /\ 1 <= c /\ 2 * c < n /\ 5 * c <= n + 2 /\ n < 5 * c + 3
    BY <1>2, <2>1, ReservedBounds
  <2>. HIDE DEF n, c
  <2>3. \A d \in range :
            /\ frozen[d] = "HOLDOUT" <=> RankOf(range, d) \in (n - c)..(n - 1)
            /\ frozen[d] = "VALIDATION" <=> RankOf(range, d) \in (n - 2 * c)..(n - c - 1)
    <3>. SUFFICES ASSUME NEW d \in range
                  PROVE  /\ frozen[d] = "HOLDOUT" <=> RankOf(range, d) \in (n - c)..(n - 1)
                         /\ frozen[d] = "VALIDATION" <=> RankOf(range, d) \in (n - 2 * c)..(n - c - 1)
      OBVIOUS
    <3>1. frozen[d] = PartitionAt(RankOf(range, d), n) /\ RankOf(range, d) \in 0..(n - 1)
      BY <1>2, <1>3
    <3>. QED BY <1>2, <1>5, <2>1, <2>2, <3>1, SplitMinimumAssumption DEF PartitionAt, c
  <2>4. H = {d \in range : RankOf(range, d) \in (n - c)..(n - 1)}
        /\ V = {d \in range : RankOf(range, d) \in (n - 2 * c)..(n - c - 1)}
    BY <2>3 DEF InPartition
  <2>5. Cardinality(H) = c
    <3>1. n - c \in Nat /\ n - 1 \in Nat /\ n - c <= n - 1 /\ n - 1 < n
      BY <1>2, <2>2
    <3>2. Cardinality(H) = (n - 1) - (n - c) + 1
      BY <1>1, <2>4, <3>1, RanksBetween DEF n
    <3>. QED BY <1>2, <2>2, <3>2
  <2>6. Cardinality(V) = c
    <3>1. n - 2 * c \in Nat /\ n - c - 1 \in Nat /\ n - 2 * c <= n - c - 1 /\ n - c - 1 < n
      BY <1>2, <2>2
    <3>2. Cardinality(V) = (n - c - 1) - (n - 2 * c) + 1
      BY <1>1, <2>4, <3>1, RanksBetween DEF n
    <3>. QED BY <1>2, <2>2, <3>2
  <2>7. \A k \in 1..n : DistanceToFifth(c, n) <= DistanceToFifth(k, n)
    BY <1>2, <2>2, NearestToAFifth
  <2>8. c + c < n /\ c > 0
    BY <1>2, <2>2
  <2>. HIDE DEF V, H
  <2>9. /\ Cardinality(V) = Cardinality(H) /\ Cardinality(H) > 0
        /\ Cardinality(V) + Cardinality(H) < n
        /\ \A k \in 1..n : DistanceToFifth(Cardinality(H), n) <= DistanceToFifth(k, n)
    BY <2>5, <2>6, <2>7, <2>8
  <2>. QED BY <1>5, <2>9 DEF ReservedFifths, n, V, H
<1>. QED BY <1>4, <1>5

LEMMA ExtendKeepsSplit ==
    ASSUME FrozenInv, NEW requested \in SUBSET Dates, Extend(requested)
    PROVE  FrozenInv'
BY DEF FrozenInv, Extend

(* However an experiment grows, launch by launch, its partitions are in the    *)
(* order of time and as near to fifths as whole sessions can be, for every     *)
(* calendar and every minimum of sessions from 3 on (multi_day_trainer.py,     *)
(* lines 556-568, over build_chronological_splits).                            *)
THEOREM ExperimentsSplitInOrder == Spec => []SplitInOrder
<1>1. Init => FrozenInv
  BY DEF Init, FrozenInv
<1>2. FrozenInv /\ [Next]_vars => FrozenInv'
  <2>1. FrozenInv /\ UNCHANGED vars => FrozenInv'
    BY DEF FrozenInv, vars
  <2>. QED BY <2>1, ExtendKeepsSplit DEF Next
<1>3. FrozenInv => SplitInOrder
  BY SplitIsChronological, SplitIsInFifths DEF SplitInOrder
<1>. QED BY <1>1, <1>2, <1>3, PTL DEF Spec

(* The same beside the records of the days and the ledger.                     *)
THEOREM LedgersSplitInOrder == LedgerSpec => []SplitInOrder
<1>1. LedgerInit => FrozenInv
  BY DEF LedgerInit, Init, FrozenInv
<1>2. FrozenInv /\ [LedgerNext]_ledgerVars => FrozenInv'
  <2>1. FrozenInv /\ UNCHANGED <<range, frozen>> => FrozenInv'
    BY DEF FrozenInv
  <2>2. ASSUME FrozenInv, NEW requested \in SUBSET (Dates \ range), GrowRange(requested)
        PROVE  FrozenInv'
    BY <2>2, ExtendKeepsSplit DEF GrowRange
  <2>. QED BY <2>1, <2>2 DEF LedgerNext, RecordDay, DropDay, ledgerVars
<1>3. FrozenInv => SplitInOrder
  BY SplitIsChronological, SplitIsInFifths DEF SplitInOrder
<1>. QED BY <1>1, <1>2, <1>3, PTL DEF LedgerSpec

-----------------------------------------------------------------------------
(* The ledger.  Every occurrence it holds is of a date of the range whose      *)
(* postmortem is admissible, and the frozen dates keep their partition.        *)
LedgerInv ==
    /\ range \subseteq Dates
    /\ frozen = [d \in Dates |-> frozen[d]] /\ days = [d \in Dates |-> days[d]]
    /\ Recorded(days) \subseteq range
    /\ \A s \in Subjects : \A row \in ledger.evidence[s] :
           row[1] \in range /\ Admissible(days[row[1]])
    /\ \A h \in Hypotheses : \A row \in ledger.evidence[h] : frozen[row[1]] = "DEVELOPMENT"
    /\ ledger.ready \subseteq Subjects
    /\ \A s \in ledger.ready : Cardinality(Counted(ledger.evidence[s])) >= MINIMUM_OCCURRENCES

LEMMA LedgerInitInv == LedgerInit => LedgerInv
<1>. SUFFICES ASSUME LedgerInit PROVE LedgerInv
  OBVIOUS
<1>1. /\ range = {} /\ frozen = Split({}) /\ days = [d \in Dates |-> NoDay]
      /\ ledger = [evidence |-> [s \in Subjects |-> {}], ready |-> {}]
  BY DEF LedgerInit, Init
<1>2. frozen = [d \in Dates |-> frozen[d]] BY <1>1 DEF Split
<1>3. Recorded(days) = {} BY <1>1 DEF Recorded
<1>4. \A s \in Subjects : ledger.evidence[s] = {} BY <1>1
<1>5. Hypotheses \subseteq Subjects BY DEF Subjects
<1>. QED BY <1>1, <1>2, <1>3, <1>4, <1>5 DEF LedgerInv

\* the evidence of a day is of a date whose postmortem was admitted
LEMMA EvidenceOf ==
    ASSUME NEW ds, \A d \in Successful(ds) : Admissible(ds[d]), NEW s \in Subjects,
           NEW row \in Evidence(ds, s)
    PROVE  /\ row[1] \in Recorded(ds) /\ Admissible(ds[row[1]])
           /\ s \in Hypotheses => frozen[row[1]] = "DEVELOPMENT"
<1>1. row \in Successful(ds) \X MissTickers /\ (s \in Hypotheses => Teaches(row[1]))
  BY DEF Evidence
<1>2. row[1] \in Successful(ds) BY <1>1
<1>. QED BY <1>1, <1>2 DEF Successful, Teaches

LEMMA CheckpointKeeps ==
    ASSUME LedgerInv, NEW ds, Checkpoint(ds), UNCHANGED <<range, frozen>>,
           ds = [d \in Dates |-> ds[d]], Recorded(ds) \subseteq range
    PROVE  LedgerInv'
<1>1. /\ \A d \in Successful(ds) : Admissible(ds[d])
      /\ days' = ds /\ ledger' = Aggregate(ds) /\ range' = range /\ frozen' = frozen
  BY DEF Checkpoint
<1>2. /\ ledger'.ready = {s \in Subjects : Cardinality(Counted(Evidence(ds, s)))
                                              >= MINIMUM_OCCURRENCES}
      /\ \A s \in Subjects : ledger'.evidence[s] = Evidence(ds, s)
  <2>1. ledger'.evidence = [s \in Subjects |-> Evidence(ds, s)] BY <1>1 DEF Aggregate
  <2>2. \A s \in Subjects : ledger'.evidence[s] = Evidence(ds, s) BY <2>1
  <2>3. ledger'.ready = {s \in Subjects : Cardinality(Counted(Evidence(ds, s)))
                                             >= MINIMUM_OCCURRENCES}
    BY <1>1 DEF Aggregate
  <2>. QED BY <2>2, <2>3
<1>3. ASSUME NEW s \in Subjects, NEW row \in ledger'.evidence[s]
      PROVE  /\ row[1] \in range' /\ Admissible(days'[row[1]])
             /\ s \in Hypotheses => frozen'[row[1]] = "DEVELOPMENT"
  BY <1>1, <1>2, <1>3, EvidenceOf
<1>4. Hypotheses \subseteq Subjects BY DEF Subjects
<1>5. ASSUME NEW s \in ledger'.ready
      PROVE  s \in Subjects /\ Cardinality(Counted(ledger.evidence[s])') >= MINIMUM_OCCURRENCES
  <2>1. s \in Subjects /\ Cardinality(Counted(Evidence(ds, s))) >= MINIMUM_OCCURRENCES
    BY <1>2, <1>5
  <2>2. Counted(ledger.evidence[s])' = Counted(Evidence(ds, s))
    BY <1>1, <1>2, <2>1 DEF Counted, Teaches
  <2>. QED BY <2>1, <2>2
<1>6. range' \subseteq Dates /\ frozen' = [d \in Dates |-> frozen'[d]]
  BY <1>1 DEF LedgerInv
<1>7. days' = [d \in Dates |-> days'[d]] /\ Recorded(days)' \subseteq range' BY <1>1 DEF Recorded
<1>. QED BY <1>3, <1>4, <1>5, <1>6, <1>7 DEF LedgerInv

LEMMA GrowRangeKeeps ==
    ASSUME LedgerInv, NEW requested \in SUBSET (Dates \ range), GrowRange(requested)
    PROVE  LedgerInv'
<1>1. /\ range' = range \cup requested /\ frozen' = Split(range \cup requested)
      /\ \A d \in range : Split(range \cup requested)[d] = frozen[d]
      /\ days' = days /\ ledger' = ledger
  BY DEF GrowRange, Extend, KeepsFrozen
<1>2. frozen' = [d \in Dates |-> frozen'[d]] BY <1>1 DEF Split
<1>3. \A d \in range : frozen'[d] = frozen[d] BY <1>1
<1>4. Hypotheses \subseteq Subjects BY DEF Subjects
<1>5. ASSUME NEW s \in ledger.ready
      PROVE  Counted(ledger.evidence[s])' = Counted(ledger.evidence[s])
  <2>1. \A row \in ledger.evidence[s] : row[1] \in range BY <1>5 DEF LedgerInv
  <2>. QED BY <1>1, <1>3, <2>1 DEF Counted, Teaches
<1>6. \A h \in Hypotheses : \A row \in ledger'.evidence[h] : frozen'[row[1]] = "DEVELOPMENT"
  BY <1>1, <1>3, <1>4 DEF LedgerInv
<1>7. range' \subseteq Dates /\ Recorded(days)' \subseteq range' BY <1>1 DEF LedgerInv, Recorded
<1>8. \A s \in ledger'.ready : Cardinality(Counted(ledger.evidence[s])') >= MINIMUM_OCCURRENCES
  BY <1>1, <1>5 DEF LedgerInv
<1>9. \A s \in Subjects : \A row \in ledger'.evidence[s] :
          row[1] \in range' /\ Admissible(days'[row[1]])
  BY <1>1 DEF LedgerInv
<1>10. ledger'.ready \subseteq Subjects /\ days' = [d \in Dates |-> days'[d]]
  BY <1>1 DEF LedgerInv
<1>. QED BY <1>2, <1>6, <1>7, <1>8, <1>9, <1>10 DEF LedgerInv

LEMMA LedgerKeeps == LedgerInv /\ [LedgerNext]_ledgerVars => LedgerInv'
<1>. SUFFICES ASSUME LedgerInv, [LedgerNext]_ledgerVars PROVE LedgerInv'
  OBVIOUS
<1>1. CASE UNCHANGED ledgerVars
  BY <1>1 DEF LedgerInv, ledgerVars, Recorded, Counted, Teaches
<1>2. ASSUME NEW requested \in SUBSET (Dates \ range), GrowRange(requested) PROVE LedgerInv'
  BY <1>2, GrowRangeKeeps
<1>3. ASSUME NEW d \in Dates, NEW day \in Postmortems, RecordDay(d, day) PROVE LedgerInv'
  <2>. DEFINE ds == [days EXCEPT ![d] = day]
  <2>1. d \in range /\ Checkpoint(ds) /\ UNCHANGED <<range, frozen>> BY <1>3 DEF RecordDay
  <2>2. days = [e \in Dates |-> days[e]] /\ Recorded(days) \subseteq range BY DEF LedgerInv
  <2>3. ds = [e \in Dates |-> ds[e]] /\ \A e \in Dates : ds[e] = IF e = d THEN day ELSE days[e]
    BY <2>2
  <2>. HIDE DEF ds
  <2>4. Recorded(ds) \subseteq range BY <2>1, <2>2, <2>3 DEF Recorded
  <2>. QED BY <2>1, <2>3, <2>4, CheckpointKeeps
<1>4. ASSUME NEW d \in Dates, DropDay(d) PROVE LedgerInv'
  <2>. DEFINE ds == [days EXCEPT ![d] = NoDay]
  <2>1. Checkpoint(ds) /\ UNCHANGED <<range, frozen>> BY <1>4 DEF DropDay
  <2>2. days = [e \in Dates |-> days[e]] /\ Recorded(days) \subseteq range BY DEF LedgerInv
  <2>3. ds = [e \in Dates |-> ds[e]] /\ \A e \in Dates : ds[e] = IF e = d THEN NoDay ELSE days[e]
    BY <2>2
  <2>. HIDE DEF ds
  <2>4. Recorded(ds) \subseteq range BY <2>2, <2>3 DEF Recorded
  <2>. QED BY <2>1, <2>3, <2>4, CheckpointKeeps
<1>. QED BY <1>1, <1>2, <1>3, <1>4 DEF LedgerNext

LEMMA LedgerUntouched == LedgerInv => OutOfSampleUntouched
<1>. SUFFICES ASSUME LedgerInv PROVE OutOfSampleUntouched
  OBVIOUS
<1>1. ASSUME NEW s \in ledger.ready
      PROVE  Cardinality({row \in ledger.evidence[s] :
                 frozen[row[1]] = "DEVELOPMENT" /\ Admissible(days[row[1]])})
                 >= MINIMUM_OCCURRENCES
  <2>1. s \in Subjects BY <1>1 DEF LedgerInv
  <2>2. \A row \in ledger.evidence[s] : Admissible(days[row[1]]) BY <2>1 DEF LedgerInv
  <2>3. {row \in ledger.evidence[s] :
             frozen[row[1]] = "DEVELOPMENT" /\ Admissible(days[row[1]])}
            = Counted(ledger.evidence[s])
    BY <2>2 DEF Counted, Teaches
  <2>4. Cardinality(Counted(ledger.evidence[s])) >= MINIMUM_OCCURRENCES
    BY <1>1 DEF LedgerInv
  <2>. QED BY <2>3, <2>4
<1>2. Hypotheses \subseteq Subjects BY DEF Subjects
<1>. QED BY <1>1, <1>2 DEF LedgerInv, OutOfSampleUntouched

(* No date that validates or holds out ever counts towards what is ready,      *)
(* however the range grows and whatever the days leave, for every set of dates *)
(* and every minimum of occurrences (multi_day_trainer.py, _aggregate()).      *)
THEOREM OutOfSampleStaysUntouched == LedgerSpec => []OutOfSampleUntouched
<1>1. LedgerInit => LedgerInv BY LedgerInitInv
<1>2. LedgerInv /\ [LedgerNext]_ledgerVars => LedgerInv' BY LedgerKeeps
<1>3. LedgerInv => OutOfSampleUntouched BY LedgerUntouched
<1>. QED BY <1>1, <1>2, <1>3, PTL DEF LedgerSpec
=============================================================================
