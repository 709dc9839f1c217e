# A TLA+ model of the AI trading lab

This directory holds TLA+ models of the historical-replay machinery of the AI
trading lab, the TLC configurations that check them on small instances, and
TLAPS proofs of their main properties. Paths such as `trainer/...` are relative
to the root of the repository (`src/` in `PROJECT.json`). `PROJECT.json` maps every definition to the lines it
stands for and lists runs, mutants, hazards, findings and theorems.

The program replays past trading days and asks what the scout would have done.
Its conclusions are worth nothing if a day was half processed, if evidence of
two versions of the code was mixed, if a date of the holdout was looked at
early, or if an interrupted job lost or repeated work. Those are questions about
state that outlives processes, and most of the models are about them. The rest
follows one day through the pipeline, where each stage reads what other stages
left: who is in the universe, which rows of the files are whose and known when,
who is selected and who gets a position, what a position may lose, what the
comparison with chance is worth, and which misses become evidence. The values of
the scoring rubric itself are arithmetic over one security and are left to the
unit tests.

## 1. The system

### Components, their state and their operations

| Component | State it keeps | Operations | What makes it correct |
|---|---|---|---|
| **Work queue** `trainer/replay_queue.py` | `replay_queue.json`: a status and an attempt count per task | load, `enqueue`, `pending`, `claim`, `complete`, `reopen`, `fail` | one holder per task; a stop frees exactly what was running; attempts are bounded; done work stays done |
| **Dataset splits** `trainer/dataset_splits.py` | none | split a date range, check access to partitions | development before validation before holdout, about a fifth each; a frozen date never moves |
| **Multi-day trainer** `trainer/multi_day_trainer.py` | `trainer_run_state.json`, the queue file, one postmortem per day; futures of a thread pool | one launch: read, supersede or refuse, reconcile, run, collect, checkpoint | state file, queue and artifacts agree at every stop; nothing is repeated, forgotten or moved |
| **Flat-file replay engine** `trainer/flatfile_replay.py`, `trainer/replay_provenance.py` | the run manifest, the phase files of every day, the universe manifest of every day | one launch: archive, resume, force or refuse; per day nine tracked phases; pause on a wall-clock budget | a completed day is whole and of one provenance; a resumed run neither trusts half a day nor redoes a whole one |
| **Scheduled backlog** `trainer/replay_backlog.py`, `trainer/replay_scheduled.py`, `.github/workflows/flat-file-replay-scheduled.yml` | `backlog.json` and compact results on the branch `replay-results`; one artifact per job | merge the seed, select a unit, restore, mark, replay, upload, finish, push | what is pushed as complete was published; what is paused can be taken up; the backlog drains |
| **Manual replay workflows** `flat-file-replay-day.yml`, `-range.yml` | caches and artifacts | one launch of the engine | as the engine |
| **Reference cache** `trainer/reference_cache.py` | one JSON file per ticker and date | `get`, `get_many` by threads with retries | nothing later than the lagged date is used; an answer is repeatable; transient failures are not cached |
| **Point-in-time universe** `universe_builder.py`, `universe_manifest.py` | `daily_universe_manifest.json`, written once per date | list, overviews, prior closes, exclusions, one class per issuer, one row per identity, coverage | a company is in the universe once and not lost to its own duplicates; complete means that every row was answered |
| **Rate control and REST client** `rate_control.py`, `providers/massive.py` | the current interval and the next free slot, under a lock; per call its attempt and page | `wait`, `record_success`, `record_throttle`; pages with retries, overviews with retries of their own | no more requests than the plan allows, whoever sleeps how long; nobody comes back before the time the provider asked for |
| **Flat-file store** `providers/massive_flatfiles.py` | per day the `.csv.gz`, its `.metadata.json` and a `.part` file | list, verify, download, replace, write metadata, read | a copy that was damaged is never taken for good |
| **Historical and news caches** `historical_cache.py`, `historical_news.py`, `news_cache.py` | a page file per ticker, day and kind | look up, fetch, link or replace, read, refuse | readers of one day see one answer, of the question they asked |
| **Research batch** `research_alpha_batch.py` | the universe, the ticker queue, a result file per ticker, the batch manifest | resolve, enqueue, reuse, claim, collect, complete, score, write the manifest | a complete ticker has its result; the manifest accounts for every ticker |
| **Replay snapshots** `flatfile_snapshot.py`, `replay_engine.py`, `snapshot_builder.py` | none within a day | give rows to securities, freeze, deduplicate, find discontinuities | nothing after the freeze enters the snapshot |
| **Scoring** `research_scout_alpha.py`, `scout_engine.py`, ... | none | status, points, guardrails, qualifying, reversal and exploration picks, ranks | exploration never costs a qualifying name its place |
| **Trade simulation and grading** `trade_engine.py`, `outcome_grader.py`, `benchmark.py` | none within a day | size and walk a trade, give positions by rank, draw baskets | a trade loses no more than it was sized for; scout and chance are compared like with like |
| **Opening-range breakouts** `orb.py`, `orb_warmup.py` | `opening_volume_cache/<date>.json` per session | warm up, rank, signal, size three books | what is open at one moment stays within the cap of its book |
| **Postmortem and reports** `postmortem.py`, `replay_report.py`, `report_generator.py`, ... | the postmortem of a day | classify missed movers, list failures; format | every miss has one reason, and only visible, eligible names become evidence |
| **Hypotheses** `multi_day_trainer.py` (`_aggregate`), `evidence_eligibility.py` | the ledger in the state file | admit postmortems, count, propose | no date that validates has trained |
| **Calendar** `trading_calendar.py` | none | sessions and holidays | every session once |
| **Promotion gate, quarantine** `promotion_gate.py`, `quarantine_legacy_results.py` | a registry of quarantined results | admit or refuse a result | - |
| **Catalyst features, output paths, contracts, other providers** | none | - | - |

### How they interact

```
 cron / operator                         operator
      |                                      |
 flat-file-replay-scheduled.yml        run_multi_day_trainer
  next_unit -> mark -> prepare_resume        |            \
      |                                 ReplayQueue     dataset_splits
 run_flatfile_replay  (engine)               |
  |  check_resume (provenance)          day runner -> research batch (a queue of tickers)
  |  per day: universe -> reference cache -> REST client -> rate control
  |           downloads -> flat-file store
  |           snapshot -> scout -> grade -> benchmark -> postmortem
  run manifest, phase files
      |
  upload artifact -> finish -> compact_copy -> git push (backlog.json, results)
```

The trainer, its queue and the research batch share memory between threads, and
files between launches. The engine is one thread; its partner is its own past
launch, through the run manifest and the files under `days/`. Jobs of the
scheduled workflow meet operators and each other only through git pushes and
uploaded artifacts; the concurrency group lets one job run at a time, but
nothing stops an operator's push during a job.

### What is hard about it

* **Stops.** Every launch can be killed between two writes, and the next launch
  must make sense of what is on disk: two files of the trainer written by
  different threads, the phase files and the manifest of the engine, a branch
  and an artifact of the backlog.
* **Stale state.** Each launch reads what an earlier one left, which may have
  had other dates, another provenance, other rights or another dataset version.
* **Interleaving.** Threads claim from stale lists; results arrive in any order;
  an operator resets a unit while a job works on a copy of the same file.
* **Partial failure.** Days raise in or between phases; reports, uploads or
  pushes fail while the replay has succeeded.
* **Two readers of one fact.** The miss table and the miss list, the snapshot and
  the opening cache, the graded selection and the benchmark each compute from the
  same day by code of their own; a mistake shows only where they disagree.
* **Ending.** Pools, launches, batches and the backlog must all come to an end.

`PROJECT.json` lists each hazard at its line, with the properties that catch it.

## 2. The modules

A module without a suffix models code; `...Proofs` holds theorems; `MC...` gives
TLC its constants. `ResearchDataProofs` covers the splits, the hypotheses, the
client, the store, the page caches and the batch; `TradingDayProofs` the universe,
the rows, the day, the trade and the books. `FiniteSetLemmas` holds what several
of them need about sums, maxima, ranks and induction on finite sets. Operators marked "mutant:" are plausible bugs, each
placed before the definition it replaces; no specification uses them.

### Work queue: `ReplayQueue`, `WorkLease`, `QueueWorkers`

`ReplayQueue` is the class as functions from table to table (`Loaded`,
`Enqueued`, `Claimed`, `Completed`, `Reopened`, `Failed`), one per method.
`QueueWorkers` puts threads and processes around it: a run loads the file, adds
and reconciles tasks, gives every worker a copy of the pending list, and lets
them claim and settle; it may stop at any point, when memory is gone and the
file stays. `memory` is `_state`, `file` the JSON file. A method runs under the
instance's lock and saves before it returns, so it is one step; the list taken
by `pending()` and the later `claim()` are separate steps, which is where two
workers meet. The lists overlap, which covers the research batch and any other
caller; the trainer's pool is the special case where they do not.

`WorkLease` is the abstract promise: work is offered, leased to one worker at a
time, settled by its holder, recalled when the process stops. `QueueWorkers`
implements it with a refinement mapping that reads status and holder off the
running process, or off the file when there is none.

### Splits: `DatasetSplits`, `FrozenExperiment`

`PartitionAt` is the rounding and slicing of `build_chronological_splits`,
`Accessible` and `AccessDenied` the two results of `enforce_partition_access`.
`FrozenExperiment` is the growth of a saved experiment: each resuming launch
splits saved and requested dates together and is refused if a saved date moved.

### Hypotheses: `HypothesisLedger`

`HypothesisLedger` extends `FrozenExperiment` with the records of the days and
the ledger that every checkpoint builds anew from all of them (`Aggregate`, for
`_aggregate`). `Admissible` is `assert_matching_universe` and
`require_research_evidence`: one bad pair of artifacts ends the checkpoint before
anything is written. Occurrences of a hypothesis come from development days
only; the rows of a catalyst metric are kept from all days and counted from
development days. A day is what its postmortem says was missed and observed; a
later launch may drop its record.

### Multi-day trainer: `MultiDayTrainer`

One action per stage of `run_multi_day_trainer`: `Launch` (everything up to the
first write, all early errors in `LaunchRejected`), `SetQueueAside`,
`OpenQueue`, `Reconcile` (one date of the loop at 594-620), `OpenPool`, then
the threads' `Claim`, `RunDay`, `Settle` and the main thread's `Collect`,
interleaved, then `Finish`. `CollectOrphan` and `Abort` are the exception that
leaves `run_task`'s own handler. A day runner is whatever it may return: any
status, or an exception. `stateFile`, `queueFile` and `artifacts` survive
`Crash`, everything else does not. It uses the operators of `ReplayQueue` and
`DatasetSplits`, with dates as tasks.

### Replay engine: `ResumableRun`, `FlatfileReplay`

`FlatfileReplay` keeps the run manifest, the phase files under `days/` (by the
provenance that wrote them) and the universe manifests as durable state, and
the launch's own `days`, `failures` and `progress` as memory. A launch is fresh,
archives the output root, resumes, or is refused, as `check_resume` and
`run_flatfile_replay` decide; `forced` is the manifest's `forced_resume`. Within
a day each phase is entered (checkpoint), works (its file), and is closed
(checkpoint); an exception may strike before or after the file, or between
phases. The early returns are those of `_run_flatfile_day_impl`: an incomplete
universe, nothing scorable (from inside the phase), no postmortem in a smoke
run. `BuildUniverse` and `ReuseUniverse` are the two paths of
`build_point_in_time_universe` seen from here.

`ResumableRun` is what a caller may rely on: the completed days of one
provenance only grow, and are forgotten together or taken back when damaged.
`FlatfileReplay` implements it, and `ScheduledBacklog` is built on it.

### Scheduled backlog: `ScheduledBacklog`

One job at a time: `Schedule` and `Dispatch` are checkout, merge of the seed and
selection, by the cron or by an operator who names the unit; `Prepare` is the
download, `prepare_resume` and `mark`, `PushStarted` the first push. Each of
these may fail by itself (`PrepareFails`, `PushFails`), in front of any push: the
steps of the replay are then skipped, and the last step, which runs `if:
always()`, takes a PENDING unit to FAILED. Then the engine through `ResumableRun`'s `Adopt`
and `Complete` together with the manifest's failed dates, `Upload`, and
`Finalize` (`finish`, `compact_copy`, second push). A step that fails leads to
the `if: always()` steps; a killed job leads nowhere. `job.work` is the job's
checkout: an operator's `Reset` in between makes the next push fail
(`job.overtaken`), as git does, and the unit's results are then lost; a last
step that fails by itself is a `Kill` at `finalize`. `Commit`
moves main, `Expire` is the artifact's retention, a failed download or an
expired artifact makes the next job start the unit afresh.

The engine restores nothing of another commit: `prepare_resume` drops an
artifact whose code differs. So `code`, `done` and the root's `status` follow
`ResumableRun` with no forced launch, no `--no-resume` and no damage.

### Reference cache: `ReferenceCache`

`entries` is the directory of the cache: per ticker and lagged date an overview,
a definitive miss, or nothing. A batch is one `get_many`: it looks up every
ticker (`LookupHit`, `LookupMiss`), opens the pool, and collects results as they
come, while threads call the provider, count retries (`Transient`, whose
`GivesUp` adds the client's retries to the cache's own), and write. An
exception without classification leaves `get_many` only after the pool has run
everything (`pc = "raised"`). `Source` is `_reusable_path`: the file of the date
itself whatever it says, or else the closest earlier overview of the quarter.
`given` is a history variable, the last answer any batch gave. A listing is a set
of tickers: the provider lists a ticker once a day.

### REST client: `RestClient`

Threads share one limiter. `Wait` takes the next free slot (`TakeSlot`) under the
lock and lets the thread sleep up to it; `Send` may come late; then the call
`Succeeds`, is `Throttled` (429 or 5xx, with or without Retry-After), is
`Unanswered` or `Refused`. The two kinds of call keep the two retry rules of the
code, and read Retry-After each in its way (`RetryAfterSeconds`): `_get_page`
takes a number of seconds only, ignores it in its own delay and leaves it to the
limiter; `_get_page_with_metadata` takes a date as well, adds jitter, sleeps that
long itself and stops after five attempts. `adaptive` says whether the client has
the adaptive limiter: the command lines that replay one date by one thread give it
a fixed spacing instead (`LetGo`), which records no throttle. `Heard` are the
headers somebody acts on. Time is an integer clock that passes only while nobody
is more than `Timeout` late. `reserved`, `sent` and a call's `notBefore` are histories.

### Flat-file store: `FlatfileStore`

`archive` and `metadata` are the two files of a day, `fetch` the `ensure_day()`
of the running process. A copy is a version and what became of it; damage keeps
the size and may or may not reach the header, which is what
`_validate_csv_gzip` reads. `Publish` replaces the version in the bucket,
`Damage` strikes the copy, `StoreStops` ends the process between any two steps.
`blind` remembers damage to a copy that had no metadata at the time: no digest
was ever taken of it, and the code adopts it.

### Page caches: `PageCaches`

`newsFile` is the file of a ticker and day under the news cache, linked into
place and never replaced; `priceFile` one of the historical cache, replaced on
`force_refresh`. Callers are threads of one or more processes. A file is kept
with the request it answers, and `ReadRefused` is the mismatch.

### Research batch: `ResearchBatch`

One launch after another over the ticker queue (the operators of `ReplayQueue`),
the result files and the batch manifest. The loop takes the tickers as they
sort; `Reusable` is a complete ticker whose result is there, otherwise `claim()`
decides. `WriteResult` and `CompleteTicker` are two steps, and the process may
stop between them. An operator may remove result files between launches.

Seen from outside, the loop is the one worker of `WorkLease`: it holds the ticker
it reached from `claim()` until it settles it (stages `collect` and `complete`),
and the other tickers are what the queue says of them, one left IN_PROGRESS by a
stopped launch being open (`TickerWork`, `TickerHolder`). A stop is the recall of
the lease. That the batch implements `WorkLease` under this mapping is
`BatchImplementsWorkLease`; it is proved, and no run lists it.

### A day: `UniverseBuild`, `ReplaySnapshot`, `ScoutSelection`, `OutcomeGrading`, `TradingDay`

`UniverseBuild` goes from the ticker list over the answers of
`ReferenceCache` (a shares count, none, one of a later period, a definitive miss,
a transient failure) to decided securities. `IssuerOf` is the closure that the
builder's union-find computes over CIK and FIGI; `OnePerIdentity` leaves open
which row of an identity comes first. The manifest is written once.

`ReplaySnapshot` reads the rows of the minute files: `Owners` decides whose a
row is, by the provider's identifier or by a ticker that no other identity bore.
The manifest has entries, several of which may have one identity; the last of
them speaks for it (`Kept`, the dictionary `by_id`), and one at most is included
in the universe. An entry's rows are those of its identity.
A set of rows is the set of their places in the files, which also gives their
order; the rows before the freeze become the snapshot, those of the session the paths,
with `TakeRow` for the duplicates and `Discontinuous` for the jumps. The
opening-range research reads the same rows for a universe of its own, and its
opening cache goes by ticker and by another rule for duplicates
(`PriorityRow`).

`ScoutSelection` is pure: what the rubric makes of a security's bars is its
points, and the module keeps who may be selected with them, on which basis and
at which rank. `OutcomeGrading` gives the positions (`Turn`, `Execution`),
compares with another policy, and draws baskets from the eligible universe. The
mean of the draws is any value between the worst and the best basket. `exit_mode`
is the policy's: a drawn basket is simulated without average ranges
(`DrawnPnl`), which an ATR policy would need.
`TradingDay` runs the stages in order and adds the postmortem: `ClassifyMiss`
and `Reachability` are the list and the table of missed movers, which the code
computes separately: the list from the snapshot and the configured minimum, the
table from `bar_statistics`, where it has the ticker (`PremarketCount`), and the
limits 10 and 30 written in the code. `FeatureFailures` is what hypotheses are
counted from.

### A trade: `TradeWalk`

`simulate_trade`: sizing, entry at the open of the first bar, and one action per
bar, with the pessimistic order within it (the put rule, the stop, the target)
and the stop trailing only after a bar that left the position open. Prices are
whole, exits in hundredths, so percentages are exact. Excursions and execution
costs are left out.

### Opening-range breakouts: `OrbBooks`

The warm-up fills the cache of earlier sessions, in any order and perhaps not to
the end; the candidates are ranked by opening volume against their baseline
(as cross products); `Signal` is the trade of one path, a short being the long of
the mirrored path; `SizeRow` takes the next ranked row of a book and accepts it
if the books' cap holds at every moment (`MaximumExposure`).

## 3. The runs

| Run | Instance | Asks |
|---|---|---|
| `queue_workers` | 3 workers, 2 tasks, 3 runs of the process, 2 attempts, 1 reopen each | the retry budget, refinement of `WorkLease` (which holds exclusive leases, recovery and kept completions), and that the pool ends |
| `trainer_steady` | 3 dates, 2 workers, 3 launches of one policy, 1 stop | agreement of report and queue, nothing forgotten, nothing repeated |
| `trainer_restart` | 3 dates, changes of policy, `--no-resume`, a refused holdout, 1 stop, 1 lost artifact | no stale failure, frozen partitions, every launch ends |
| `trainer_lost_day`, `trainer_holdout` | as above | two statements of the documentation the code does not keep (section 6) |
| `rest_http_date` | 1 thread, 2 attempts, Retry-After a date | a third one: a list does not wait for the date it is given (section 6) |
| `replay_scheduled` | 2 dates, 2 provenances, 3 launches without options, 1 stop, 1 lost file | completed days are backed, resting days, refinement of `ResumableRun` |
| `replay_operator` | 1 date, 2 provenances, 3 launches with `--force-resume`, `--no-resume`, smoke or not, 1 stop | evidence of one provenance under every option, and that each launch ends |
| `reference_cache` | 2 tickers, 3 lagged dates in 2 quarters, 2 threads, 4 batches, 1 stop, 1 retry | answers are point-in-time and stable, failures leave no trace, each batch ends |
| `backlog` | 2 units of 2 dates, a commit with a new dataset version, any 2 incidents | published completeness, recoverable pauses, abandoned units only by interruption, one owner per unit, and that the backlog drains |
| `research_data` | five parts, one per behaviour: 2 threads with 2 attempts, 2 pages and Retry-After of 4 seconds, a date 4 ahead or none; 3 versions of a file (two of one size) and 4 upsets; 2 readers, 2 requests, 2 answers, 4 calls; 3 tickers, 3 launches, 2 attempts, 1 removed result; 9 dates with 2 recorded days of 4 kinds | the request budget and Retry-After; damage is noticed; pages never change; complete tickers have results and manifests account for all, and every launch that is not stopped writes its own; splits in order and in fifths however the range grew; out-of-sample days teach nothing |
| `trading_day` | five parts: 5 rows chained by CIK and FIGI with every answer; files of up to 4 rows for 3 identities that share tickers, one with 2 entries; 4 securities of 9 kinds; prices 1 to 6 under 4 policies; 3 candidates of 9 paths in 3 books | a sound universe; the snapshot is past; the opening candle is of the path; exploration is free, the verdict fair, every miss explained; a trade's loss and the books' exposure are bounded |

The two combined runs put modules side by side that share no state: the initial
state picks a part, and only its actions are taken, so the state space is the
sum of the parts and not their product.

### Bounds, and why they are enough

* **Dates.** The trainer needs one date per partition, so three, with
  `SplitMinimum` 3 in place of 5; the real minimum and its rounding are
  checked over nine dates in `research_data`, every growth of a range included. The engine treats dates in
  order and independently except for the sets it accumulates: two show every
  interaction of a done and an undone day, and one is enough for options, which
  act on whole launches. The cache needs two dates of a quarter in either order,
  and one outside it; four batches ask for the second date before and after the
  first.
* **Phases.** Five of the nine: download, universe, scoring and postmortem have
  behaviours of their own; `report` stands for the rest, which write a file and
  go on. The proofs hold for any sequence with those names.
* **Launches, stops, losses.** Three launches: one leaves something, one meets
  it and leaves something else, one must cope. In two launches a forced resume
  cannot be followed by an unforced one. One stop per behaviour may fall at any
  point of any launch.
* **Workers and tasks.** Three workers on two tasks: two collide on one, and a
  third holds a stale list meanwhile.
* **Backlog.** Two units show preference and starvation. `MaxIncidents` counts
  kills, operators' interventions, lost artifacts and failed steps together; two
  incidents are the least in which one makes the state the other hits.
  `MaxJobs` 13 is never reached, so liveness does not hang on it.
* **Client.** Two threads are one that is told to wait and one that is not; two
  attempts and two pages give each retry and each new page its turn; the clock
  ends with the calls, so it needs no bound. A Retry-After of 4 is longer than
  any delay of the client's own, which is what makes ignoring it visible. The
  client has either limiter.
* **Store.** Two versions of one size, which only the digest tells apart, and one
  of another; four upsets let a stop, a damage and two publications meet.
* **Batch.** Two of three tickers show one that is done and one that is not around the
  ticker at work; three launches, as above.
* **Day.** Four securities of nine kinds fill two positions and leave both a
  qualifying and an explored name outside; each kind is one branch of the
  classification. The tapes hold one row for each side of each boundary (freeze,
  open, end of the candle, close) and a duplicate minute; four rows are two
  securities with two rows each. Of the limits of the miss table, 10 and 30, each
  side is a security (9, 29, 30, 31, 40 bars), with and without statistics.
* **Trade and books.** Six prices allow a bar to cross both stop and target; the
  nine paths include a gap below the stop, a late breakout, a short and a tie.
* `CHECK_DEADLOCK FALSE` wherever launches are bounded: the system stops
  when nobody launches it any more.

### Fairness

* `QueueWorkers`: weak fairness of every worker's `Finish` and `Claim` and of
  the main thread's `Exit`. Threads of a living process are scheduled, and the
  work they do consists of calls with timeouts.
* `MultiDayTrainer`, `FlatfileReplay`: weak fairness of the process as a whole
  (`Process`, `Run`), never of launches, stops or losses. `future.result()`
  and the day runners return, because provider calls have timeouts and bounded
  retries.
* `ReferenceCache`: weak fairness of the batch as a whole (`Batch`); its threads
  call a client with timeouts.
* `ResearchBatch`: weak fairness of the launch as a whole (`LaunchStep`), never
  of launches or stops: its loop waits for nothing but provider calls.
* `ScheduledBacklog`: weak fairness of the cron and of the job's steps, which
  have time limits. Kills, commits and operators are not fair, and bounded.

## 4. What is proved

The theorems hold for every value of the constants under the named `ASSUME`s
of the modules, which TLC evaluates on its instances.

* **`QueueWorkersProofs`**: all safety and action properties of the queue and
  the refinement of `WorkLease`. The inductive invariant adds to `TypeOK` and
  `NoSharedTask` that a lease is marked in memory and file (`LeaseInv`), that
  memory is the file or the file as it is recovered on load (`CopyInv`, needed
  because a load is not saved), and that attempts are within a budget of
  `MaxAttempts` plus reopens plus restarts (`BudgetInv`).
* **`MultiDayTrainerProofs`**: all safety and action properties of the passing
  trainer runs. The report's agreement with the queue is not inductive: it needs
  where each future stands (`JobInv`), the failures carried over (`LedgerInv`),
  that memory and file of the queue are one once it is open (`QueueInv`), the
  plan (`PlanInv`), and what a resuming launch took from the state file
  (`ResumeInv`, `ReuseInv`).
* **`FlatfileReplayProofs`**: all safety and action properties of the engine and
  the refinement of `ResumableRun`. The manifest is written from memory, so the
  invariant says of the memory what the properties say of the manifest
  (`CompleteInv`, `FailInv`), how the two differ between checkpoints
  (`SyncInv`), how far the current day has come (`ProgressInv`), and which files
  may exist (`FilesInv`).

* **`ReferenceCacheProofs`**: all safety and action properties of the cache. The
  inductive invariant says that every answer ever given is what the files still
  answer (`GivenInv`) and that a ticker being fetched is answered by no file
  (`TaskInv`). The key lemma `SourceStays`: a file added for a date no file
  answers for cannot come between a date and the file that answers for it.

* **`ScheduledBacklogProofs`**: all safety and action properties of the backlog.
  The inductive invariant (`BacklogInv`) follows a job from checkout to push: what
  its working copy claims is backed by what it or an earlier job uploaded, the
  branch differs from the copy only in the unit the job holds unless it was
  overtaken, and every unit left IN_PROGRESS without a job has a kill or an
  operator's intervention of its own. `UnitsHaveOneOwner` says of a PENDING unit
  that only the job which took it, and saw it PENDING, moves it: to IN_PROGRESS,
  or to FAILED when its first steps failed.
* **`ResearchDataProofs`**: one inductive invariant per module. `ClientInv`: the
  slots given away fit below the next free one (`reserved * minimum_interval <=
  nextAt`), a slot is used no earlier than its time, and what a thread was told
  to wait for, if it was heard, is behind the clock or behind the next free slot,
  so whichever slot it gets is late enough. From the first follows the budget, by counting slots.
  `StoreInv`: metadata that was not taken blindly is of a whole file. `PageInv`:
  what was served is what the file holds. `BatchInv`: scored, skipped and
  remaining tickers partition the universe, what is scored is complete but for
  the ticker whose result was just written, and after a manifest that says
  COMPLETE no ticker is ever claimed again. With it the batch implements
  `WorkLease` step by step (`BatchImplementsLease`): `EnqueueTickers` offers,
  `ClaimTicker` leases, `CollectFails` and `CompleteTicker` settle, `BatchStops`
  recalls, and every other step stutters. `LedgerInv`: every occurrence is of an
  admitted day of the range, which a frozen range never moves. Of the splits: the
  order of the partitions, that each is used from the minimum on, and that
  appending later dates alone to a range with a holdout always moves a frozen
  date; a session is its rank in the range, and `ReservedBounds` bounds what
  rounding a fifth can reserve. `FrozenInv`, that the frozen partitions are the
  split of the range, carries these to the experiments: by `CountsNumber` the
  ranks of a finite range number it, so a partition has as many dates as it has
  ranks, and no other number of dates is nearer to a fifth.
* **`TradingDayProofs`**: every invariant of the `trading_day` run, part by part.
  * The universe (`UniverseInv`: a decided manifest, on disk or about to be
    written, is what the rules make of the listed rows and the answers).
    `IssuerOfRow` characterises an issuer as the least set closed under
    `SameIssuer`. From it, two kept rows share no issuer
    (`KeptShareNoIssuer`), and of rows closed under both relations the most
    traded one is kept by its issuer, so that their identity keeps one of them.
  * The rows (`TapeInv`: what was built is of the files as they stand).
    `SnapshotOfEarly` needs that sums, counts and last prices of a set of rows
    depend on those rows only. `NextRowKept` is the invariant of the removal of
    duplicates: after any number of rows the path holds, of each minute, the first
    of the largest rows so far. `PriorityRowIsFirst` says that there is one such
    row, and that the opening cache, which chooses by another rule, takes it too.
    Which rows there are is a matter of identities: one entry speaks for one
    (`OneSpeaks`), and without identifiers in the files the rows of an entry that
    speaks are those with its ticker (`RowsOfTicker`), if nobody else bears it.
  * The day (`DayInv`: every artifact is what its stage makes of those before
    it). `ExplorationIsFree` rests on the turns: qualifying names have the first
    ones (`TurnsInOrder`), so their positions do not depend on who comes later.
    For `VerdictIsFair`, qualifying names are eligible, so a draw is possible; a
    verdict is a comparison with a mean between the worst and the best basket
    (`VerdictOfDraw`), and when the selection leaves chance no choice it is the
    only basket (`NoChoiceNoDifference`); the tie is stated of a policy that exits
    by percentages. `MissesExplained` goes through the two classifications branch by
    branch. That the table agrees with the list is stated, and holds, where the
    configured limits are the 10 and 30 of the code.
  * The trade: the position was sized within both limits, and the stop never falls
    below the one it was sized with; for percentages that needs that the trailing
    distance grows more slowly than the price.
  * The books (`OrbInv`, whose part for a book is `BookSound`). The code adds up
    what is open when a position enters or leaves; `ExposureAtAnyMoment` shows
    that no other moment has more open, so an accepted row keeps the cap at every
    moment of the day. Ranks compare cross products; they are a strict order
    (`CrossProducts`, `RelativeOrder`) and number the names (`RankedNames`), so
    each row of a book is somebody's, and nobody's twice.

Assumptions of note: `PhasesAssumption` (the phase names are distinct, include the
special ones, and end with `report`), `VersionAssumption` (dataset versions increase with
commits, as `README.md:292` asks), `SplitMinimumAssumption` (at least 3; with
less a partition could be empty), `TradePolicyAssumption` (stops and targets are
positive), `IntervalAssumption` (the limiter's minimum is below its maximum), `ScoutAssumption`
(a security is shadow-scored on fewer bars than it is scored on, as
`research_scout_alpha.py:58-59` demands), `ProfileAssumption` and
`SnapshotAssumption` (what a security, a row and an entry of the manifest are made
of; the entries of one identity are any number, the included ones at most one,
which `UniverseIsSound` proves of the universe), `OrbAssumption` (a bar's low and high enclose its open and close, bars come
in the order of time, and an average range is none or gives a stop of at least
one unit).

Several definitions are recursive over a set: sums, and the paths of the
session. `SetInduction` in `FiniteSetLemmas` is induction over the parts of a
finite set, stated of a family of sets so that it has no operator parameter: a
family that holds the empty set, and every set from which taking any one element
leaves a set it holds, holds the whole. With it a fold is reached through the
table of its values on every part (`SumTable`, `KeptTable`), which exists and is
unique.

**Only model-checked**: liveness (`PoolEnds`, both `LaunchEnds`, `BatchEnds`,
`LaunchReports`, `BacklogDrains`), because the prover has no `ENABLED`. Every
other property of a passing run is a theorem. The action properties of each run
are proved from the invariants of their module.

## 5. What is not modelled

Times, texts, hashes and layouts of files: nothing reads them back, or only to
compare them for equality, which provenances and policies as values do. A
state or queue file that does not parse ends the launch with an exception.
Network and provider are any answer.

* The rubric (momentum, volume, news, sector and extended metrics), execution
  costs, excursions and the statistics of the daily files: arithmetic over one
  security, without state or order.
* The reports (`replay_report.py`, `report_generator.py`, the summaries, the
  capability and coverage reports) and the champion/challenger tables of the
  postmortem: they format and average finished artifacts, and nothing reads
  them back.
* The Scout, snapshot and replay of the earlier engine (`scout_engine.py`,
  `replay_engine.py`, `snapshot_builder.py`) and the collector of the Tiingo path:
  the flat-file pipeline does not call them.
* The calendar is a fixed table; the manual workflows are one launch of the
  engine; the promotion gate and the quarantine are single commands over one
  record, and no launch reads the registry of the quarantine.
* Catalyst features are shadow-only: no decision reads them. Output paths and
  contracts are names and schemas.

## 6. Where the code departs from its documentation

* `trainer_lost_day`. `docs/HISTORICAL_REPLAY_ACCELERATOR.md:78` says
  "completed work is reused". A worker marks its task COMPLETE in the queue file
  before the main thread writes the day to the state file. If the process stops in
  between, the next launch does not run the day (it is not pending) and does not
  reuse it (no record), so it is in no later report.
* `trainer_holdout`. Line 110: "Holdout data is excluded unless
  `--unlock-holdout` is explicitly supplied." The pool takes every pending task of
  the queue file, so a holdout task left by an unlocked launch is run by a locked
  one.
* `rest_http_date`. Lines 41-43 say what a provider's throttling does:
  "HTTP 429, transient server responses, and timeout-class responses still use
  bounded exponential retries and honor `Retry-After`." `_get_page` reads the
  header as a number of seconds only (`massive.py:311-316`), so a date, which the
  overview path understands, is dropped and the list is asked for again after the
  policy's own backoff.

The rest are observations made while modelling; the runs state what the code does.

* A task left IN_PROGRESS is returned to PENDING, as line 78 says; if its date is
  not in the new launch's plan, the lookup of its partition raises inside the error
  handler (`multi_day_trainer.py:638`, `694`), and the launch ends with a KeyError.
  `LaunchEnds` covers it: the launch ends all the same.
* Without the adaptive limiter a list never waits for Retry-After, in whichever
  form (`massive.py:297`, `317`); `RetryAfterHonoured` is about the headers that
  are heard.
* An operator's reset pushed while a job runs makes the job's last push fail. The
  reset is kept (`UnitsHaveOneOwner`), the job's results are not, and the unit may
  stay IN_PROGRESS, which `AbandonedByInterruption` counts.
* `README.md:157` says that a flat file is reused when size and checksum still
  match; a file without metadata is adopted on its size and a readable header.
  `DamageIsNoticed` therefore leaves out damage to such a file (`blind`).
* A failure of the guardrail kind is described as having "met the score threshold",
  but guardrails are tested before the score (`postmortem.py:535-546`).
* A selected name that found no free position is classified
  PICKED_EXECUTION_LOSS, and a mover outside the universe with enough bars counts
  as `visible_scored_low` in the table; `MissesExplained` compares table and list
  for eligible names only.
* The limits 10 and 30 of that table are written in the code
  (`postmortem.py:460`, `462`), the list's are configured
  (`research_scout_alpha.py:58-59` accepts others). Under another configuration
  the two disagree about the same mover.
* Baskets and movers beyond the Scout's are simulated without average ranges
  (`benchmark.py:292`, `400`), the Scout's trades with them
  (`outcome_grader.py:452`). Under a champion with ATR exits like would not be
  compared with like; the one that ships exits by percentages.
* The champion's cohort of top movers leaves ineligible movers out, the
  challengers' keep them (`postmortem.py:758-881`).
* Premarket rows are not deduplicated, so `real_bar_count`, labelled a count of
  minutes, counts duplicates (`flatfile_snapshot.py:499-509`, `590-599`).
* The opening cache goes by ticker only: with provider identifiers, rows of a
  security of another type that shares the ticker enter the candle
  (`orb.py:150-168` against `249-257`). `CandleIsOfThePath` is about files without
  identifiers.
* A manifest may hold several rows of one identity
  (`universe_manifest.py:611-638`), and the opening-range research drops none
  (`orb.py:522-531`). For one that does not speak for its identity the candle is of
  its own ticker (584) and the path of the other's (579), and the cache may lack
  the ticker, which raises at `first_candle_open`; a former ticker of one identity
  that is the ticker of such a row of another takes that row's bars into the path.
  `CandleIsOfThePath` names the entries for which neither happens (`Speaks`).
* An entry bar that opened beyond the later stop of an opening-range trade exits at that open,
  a price from before the entry (`orb.py:319-335`); `BooksWithinLimits` bounds the
  loss of the others.
* The baseline of an opening volume depends on which earlier sessions are cached
  when the day runs (`orb.py:181-203`).

## 7. Plan

The order followed what a wrong result would cost: first what decides whether a
result can be trusted at all, then what it is computed from, then the gates it
has to pass.

| Modules | Composes | Question | Proofs |
|---|---|---|---|
| `ReplayQueue`, `QueueWorkers`, `WorkLease` | - | is work leased, kept and retried | done |
| `DatasetSplits`, `FrozenExperiment`, `HypothesisLedger` | one another | can a frozen date move, does a later regime teach | done |
| `MultiDayTrainer` | `ReplayQueue`, `DatasetSplits` | do two files and many launches agree | done |
| `FlatfileReplay`, `ResumableRun` | - | is a completed day whole and of one provenance | done |
| `ScheduledBacklog` | `ResumableRun` | is what is pushed what was published | done |
| `ReferenceCache` | - | is an answer point-in-time and repeatable | done |
| `RestClient` | - | is the budget kept, is a cooldown honoured | done |
| `FlatfileStore`, `PageCaches` | - | is damage noticed, do readers agree | done |
| `ResearchBatch` | `ReplayQueue`, `WorkLease` | does the manifest account for every ticker | done |
| `UniverseBuild` | - | is a company in the universe once, does complete mean answered | done |
| `ReplaySnapshot`, `ScoutSelection`, `OutcomeGrading`, `TradingDay` | one another | does the future enter, is the comparison fair, is every miss explained | done |
| `TradeWalk` | - | what can a trade lose | done |
| `OrbBooks` | - | what can be open at once | done |

Left for later: the promise of the backlog as a specification of its own (a unit is
published once per dataset version); the champion and challenger tables of the
postmortem as operators checked against one another.
