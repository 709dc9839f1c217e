---------------------------- MODULE ResearchBatch -----------------------------
(* One day's research batch over REST data (run_massive_alpha_batch,           *)
(* trainer/research_alpha_batch.py), launched again and again on one output    *)
(* directory: it resolves the day's universe once, takes every eligible ticker *)
(* from the ticker queue, collects it and keeps the result in a file of its    *)
(* own, scores what it has and writes the batch manifest.  Every method of the *)
(* queue saves its file, so the queue in memory and on disk are one variable.  *)
EXTENDS Integers, FiniteSets

CONSTANTS
    Eligible,           \* the tickers of the universe, numbered as they sort
    MaxAttempts,
    MaxLaunches,        \* bound: launches
    MaxRemovals         \* bound: result files removed between launches

INSTANCE ReplayQueue WITH Tasks <- Eligible

ASSUME BatchAssumption ==
    Eligible \subseteq Nat /\ IsFiniteSet(Eligible) /\ MaxAttempts \in Nat \ {0}

VARIABLES
    universe,       \* daily_universe_manifest: its coverage, "NONE" without a file
    tickerQueue,    \* ticker_replay_queue
    resultFile,     \* ticker_results/<ticker>.json: what it says of the news
    manifest,       \* research_alpha_batch_manifest
    batch,          \* the running launch
    removed,        \* history: tickers whose result file was removed
    stopped,        \* history: the launches that did not come to their end
    launches
batchVars == <<universe, tickerQueue, resultFile, manifest, batch, removed, stopped, launches>>

-----------------------------------------------------------------------------
NoManifest == [status |-> "NONE", launch |-> 0, scored |-> {}, skipped |-> {}, newsErrors |-> {},
               queue |-> EmptyQueue]    \* launch: the one that wrote it
NoBatch == [stage |-> "down", todo |-> {}, scored |-> {}, skipped |-> {}, newsErrors |-> {}]

BatchInit ==
    /\ universe = "NONE"
    /\ tickerQueue = EmptyQueue
    /\ resultFile = [t \in Eligible |-> "NONE"]
    /\ manifest = NoManifest
    /\ batch = NoBatch
    /\ removed = {} /\ stopped = {} /\ launches = 0

\* the security the loop has reached
Reached == CHOOSE t \in batch.todo : \A u \in batch.todo : t <= u

\* load_or_resolve_manifest(): the universe is resolved by the first launch
StartBatch(coverage) ==
    /\ batch.stage = "down" /\ launches < MaxLaunches
    /\ universe \in {"NONE", coverage} /\ universe' = coverage
    /\ launches' = launches + 1
    /\ tickerQueue' = Loaded(tickerQueue)
    /\ batch' = [NoBatch EXCEPT !.stage = "resolved"]
    /\ UNCHANGED <<resultFile, manifest, removed, stopped>>

\* no evidence can come of an incomplete universe: nothing is collected
Unsupported ==
    /\ batch.stage = "resolved" /\ universe = "incomplete"
    /\ manifest' = [NoManifest EXCEPT !.status = "UNSUPPORTED", !.launch = launches,
                                       !.queue = tickerQueue]
    /\ batch' = NoBatch
    /\ UNCHANGED <<universe, tickerQueue, resultFile, removed, stopped, launches>>

EnqueueTickers ==
    /\ batch.stage = "resolved" /\ universe = "complete"
    /\ tickerQueue' = Enqueued(tickerQueue, Eligible)
    /\ batch' = [batch EXCEPT !.stage = "loop", !.todo = Eligible]
    /\ UNCHANGED <<universe, resultFile, manifest, removed, stopped, launches>>

AtTicker == batch.stage = "loop" /\ batch.todo # {}

Reusable(t) == tickerQueue[t].status = "COMPLETE" /\ resultFile[t] # "NONE"

\* mutant: the loop waits for a ticker it cannot claim
WaitForTicker == FALSE /\ UNCHANGED batchVars

\* a ticker that was done by an earlier launch
ReuseResult ==
    /\ AtTicker /\ Reusable(Reached)
    /\ batch' = [batch EXCEPT !.todo = @ \ {Reached}, !.scored = @ \cup {Reached},
           !.newsErrors = IF resultFile[Reached] = "NEWS_ERROR" THEN @ \cup {Reached} ELSE @]
    /\ UNCHANGED <<universe, tickerQueue, resultFile, manifest, removed, stopped, launches>>

\* claim() gives nothing: the attempts are used up, or the result has gone
SkipTicker ==
    /\ AtTicker /\ ~Reusable(Reached) /\ ~Claimable(tickerQueue, Reached)
    /\ batch' = [batch EXCEPT !.todo = @ \ {Reached}, !.skipped = @ \cup {Reached}]
    /\ UNCHANGED <<universe, tickerQueue, resultFile, manifest, removed, stopped, launches>>

ClaimTicker ==
    /\ AtTicker /\ ~Reusable(Reached) /\ Claimable(tickerQueue, Reached)
    /\ tickerQueue' = Claimed(tickerQueue, Reached)
    /\ batch' = [batch EXCEPT !.stage = "collect"]
    /\ UNCHANGED <<universe, resultFile, manifest, removed, stopped, launches>>

\* ProviderError, CacheError or ResearchScoutError
CollectFails ==
    /\ batch.stage = "collect"
    /\ tickerQueue' = Failed(tickerQueue, Reached, TRUE)
    /\ batch' = [batch EXCEPT !.stage = "loop", !.todo = @ \ {Reached},
                              !.skipped = @ \cup {Reached}]
    /\ UNCHANGED <<universe, resultFile, manifest, removed, stopped, launches>>

\* mutant: complete() comes before the file is written
CompleteFirst(news) ==
    /\ batch.stage = "collect"
    /\ tickerQueue' = Completed(tickerQueue, Reached)
    /\ batch' = [batch EXCEPT !.stage = "complete", !.scored = @ \cup {Reached},
           !.newsErrors = IF news = "NEWS_ERROR" THEN @ \cup {Reached} ELSE @]
    /\ UNCHANGED <<universe, resultFile, manifest, removed, stopped, launches>>

\* the snapshot is built, news are backfilled or missing, and the file is written
WriteResult(news) ==
    /\ batch.stage = "collect"
    /\ resultFile' = [resultFile EXCEPT ![Reached] = news]
    /\ batch' = [batch EXCEPT !.stage = "complete", !.scored = @ \cup {Reached},
           !.newsErrors = IF news = "NEWS_ERROR" THEN @ \cup {Reached} ELSE @]
    /\ UNCHANGED <<universe, tickerQueue, manifest, removed, stopped, launches>>

CompleteTicker ==
    /\ batch.stage = "complete"
    /\ tickerQueue' = Completed(tickerQueue, Reached)
    /\ batch' = [batch EXCEPT !.stage = "loop", !.todo = @ \ {Reached}]
    /\ UNCHANGED <<universe, resultFile, manifest, removed, stopped, launches>>

\* mutant: a ticker without news counts as done
SkippedOnly ==
    IF batch.scored = {} THEN "FAILED" ELSE IF batch.skipped # {} THEN "PARTIAL" ELSE "COMPLETE"

BatchStatus ==
    IF batch.scored = {} THEN "FAILED"
    ELSE IF batch.skipped \cup batch.newsErrors # {} THEN "PARTIAL" ELSE "COMPLETE"

\* every security of the snapshot is a candidate of the score
WriteManifest ==
    /\ batch.stage = "loop" /\ batch.todo = {}
    /\ manifest' = [status |-> BatchStatus, launch |-> launches, scored |-> batch.scored,
                    skipped |-> batch.skipped, newsErrors |-> batch.newsErrors,
                    queue |-> tickerQueue]
    /\ batch' = NoBatch
    /\ UNCHANGED <<universe, tickerQueue, resultFile, removed, stopped, launches>>

\* the process stops, or an exception that nobody catches ends it
BatchStops ==
    /\ batch.stage # "down"
    /\ batch' = NoBatch /\ stopped' = stopped \cup {launches}
    /\ UNCHANGED <<universe, tickerQueue, resultFile, manifest, removed, launches>>

\* an operator removes the file of a ticker between two launches
RemoveResult(t) ==
    /\ batch.stage = "down" /\ Cardinality(removed) < MaxRemovals
    /\ resultFile[t] # "NONE"
    /\ resultFile' = [resultFile EXCEPT ![t] = "NONE"]
    /\ removed' = removed \cup {t}
    /\ UNCHANGED <<universe, tickerQueue, manifest, batch, stopped, launches>>

LaunchStep ==
    \/ Unsupported \/ EnqueueTickers \/ ReuseResult \/ SkipTicker \/ ClaimTicker
    \/ CollectFails \/ (\E news \in {"NEWS", "NEWS_ERROR"} : WriteResult(news))
    \/ CompleteTicker \/ WriteManifest

BatchNext ==
    \/ LaunchStep \/ BatchStops
    \/ \E coverage \in {"complete", "incomplete"} : StartBatch(coverage)
    \/ \E t \in Eligible : RemoveResult(t)

BatchSpec == BatchInit /\ [][BatchNext]_batchVars

-----------------------------------------------------------------------------
(* Properties.                                                                 *)

\* The type invariant.
BatchTypeOK ==
    /\ universe \in {"NONE", "complete", "incomplete"}
    /\ tickerQueue \in Queues
    /\ resultFile \in [Eligible -> {"NONE", "NEWS", "NEWS_ERROR"}]
    /\ manifest \in [status: {"NONE", "UNSUPPORTED", "FAILED", "PARTIAL", "COMPLETE"},
                     launch: Nat, scored: SUBSET Eligible, skipped: SUBSET Eligible,
                     newsErrors: SUBSET Eligible, queue: Queues]
    /\ batch \in [stage: {"down", "resolved", "loop", "collect", "complete"},
                  todo: SUBSET Eligible, scored: SUBSET Eligible,
                  skipped: SUBSET Eligible, newsErrors: SUBSET Eligible]
    /\ removed \in SUBSET Eligible /\ stopped \in SUBSET Nat /\ launches \in Nat

\* Wherever a launch stops, a ticker the queue calls complete has its result on
\* disk unless somebody removed it: the other order of the two writes would lose
\* the ticker for good, since claim() never grants it again (lines 232-245).
CompleteHasResult ==
    \A t \in Eligible \ removed :
        tickerQueue[t].status = "COMPLETE" => resultFile[t] # "NONE"

\* The manifest names every eligible ticker once, as scored or as skipped; what it
\* scored was complete in the queue it embeds; and it says COMPLETE only of a day
\* of which nothing is missing, news included, over all the launches it took.
TickersAccounted ==
    manifest.status \in {"FAILED", "PARTIAL", "COMPLETE"} =>
        /\ manifest.scored \cup manifest.skipped = Eligible
        /\ manifest.scored \cap manifest.skipped = {}
        /\ \A t \in manifest.scored : manifest.queue[t].status = "COMPLETE"
        /\ manifest.status = "COMPLETE" =>
               manifest.scored = Eligible
               /\ \A t \in Eligible \ removed : resultFile[t] = "NEWS"

\* A launch that nothing stops writes a manifest of its own, whatever the tickers
\* do and whatever the launches before it left in the queue and on disk: no ticker
\* that cannot be claimed, reused or collected holds up the loop (lines 225-311),
\* and the manifest of an earlier launch is never left to stand for it.
LaunchReports ==
    \A n \in 1..MaxLaunches :
        (launches = n /\ batch.stage # "down") ~> (manifest.launch = n \/ n \in stopped)

-----------------------------------------------------------------------------
(* What the loop does to the queue, seen from outside: the loop holds the      *)
(* lease of a ticker from claim() until it settles, and every launch that      *)
(* stops leaves the ticker it was at to the next one.                          *)
Holds(t) == batch.stage \in {"collect", "complete"} /\ t = Reached

TickerWork ==
    [t \in Eligible |->
        CASE Holds(t) -> "leased"
          [] ~Holds(t) /\ tickerQueue[t].status = "ABSENT" -> "unknown"
          [] ~Holds(t) /\ tickerQueue[t].status = "COMPLETE" -> "done"
          [] ~Holds(t) /\ tickerQueue[t].status = "FAILED" -> "dropped"
          [] OTHER -> "open"]
TickerHolder == [t \in Eligible |-> IF Holds(t) THEN "loop" ELSE "nobody"]

TickerLeases == INSTANCE WorkLease WITH
    Tasks <- Eligible, Workers <- {"loop"}, NoWorker <- "nobody",
    work <- TickerWork, holder <- TickerHolder

\* The launches of a batch, with their stops, the reuse of results and the files
\* that disappear, implement the lease the queue promises: only open work is
\* claimed, and it is settled by the launch that claimed it, or recalled.
BatchImplementsWorkLease == TickerLeases!Spec
=============================================================================
