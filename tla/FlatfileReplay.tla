--------------------------- MODULE FlatfileReplay ---------------------------
(* The resumable flat-file replay of a range of trading dates                  *)
(* (trainer/flatfile_replay.py, with check_resume of replay_provenance.py):    *)
(* one launch at a time runs the dates in order through its phases, writes an  *)
(* artifact file per phase and a checkpoint of the run manifest after every    *)
(* change, and is launched again after failures, pauses, crashes and code      *)
(* changes.  Durable: `manifest' and the files under days/; the rest is the    *)
(* memory of the launch.                                                       *)
(* Abstracted: a provenance is one value of Codes, everything the identity     *)
(* test compares is one value of Requests, and the files a phase writes are    *)
(* one artifact whose content is the provenance that produced it.              *)
EXTENDS Integers, Sequences, FiniteSets

CONSTANTS
    Dates,              \* the trading dates, as numbers in calendar order
    Codes,              \* provenance values (git sha, configurations)
    REPLAY_PHASES,      \* the phases of a day, nine in the code
    Requests,           \* request identities: [dates: SUBSET Dates, smoke: BOOLEAN]
    ForceAllowed,       \* whether operators use --force-resume
    NoResumeAllowed,    \* whether operators use --no-resume
    MaxLaunches,        \* bound: launches
    MaxCrashes,         \* bound: processes killed
    MaxLosses           \* bound: artifact files that disappear between launches

ASSUME DatesAssumption == IsFiniteSet(Dates) /\ Dates \subseteq Nat
ASSUME PhasesAssumption ==
    /\ REPLAY_PHASES \in Seq(STRING)
    /\ \A j, k \in DOMAIN REPLAY_PHASES : REPLAY_PHASES[j] = REPLAY_PHASES[k] => j = k
    /\ \A p \in {"universe", "scoring", "report"} :
           \E k \in DOMAIN REPLAY_PHASES : REPLAY_PHASES[k] = p
    /\ REPLAY_PHASES[Len(REPLAY_PHASES)] = "report"
ASSUME CodesAssumption == "NONE" \notin Codes /\ "LOST" \notin Codes
ASSUME RequestsAssumption == Requests \subseteq [dates: SUBSET Dates, smoke: BOOLEAN]
ASSUME FlagsAssumption == ForceAllowed \in BOOLEAN /\ NoResumeAllowed \in BOOLEAN

VARIABLES
    manifest,   \* flatfile_replay_manifest.json
    artifact,   \* per date and phase: who wrote the file, "NONE" or "LOST"
    universe,   \* per date: daily_universe_manifest.json
    pc, run,    \* where the launch is, and its arguments
    days, failures, progress, current, phase,
    launches, crashes, losses
durable == <<manifest, artifact, universe>>
memory == <<pc, run, days, failures, progress, current, phase>>
bounds == <<launches, crashes, losses>>
vars == <<durable, memory, bounds>>

-----------------------------------------------------------------------------
Phases == {REPLAY_PHASES[k] : k \in DOMAIN REPLAY_PHASES}
LastPhase == Len(REPLAY_PHASES)

\* the phase after which nothing is left to do for a day without scorable tickers
ScoringIndex == CHOOSE k \in DOMAIN REPLAY_PHASES : REPLAY_PHASES[k] = "scoring"

\* the phases that list an artifact of the day; a smoke run has no postmortem
Evidence(smoke) == Phases \ ({"download"} \cup IF smoke THEN {"postmortem"} ELSE {})

DayStatus == {"ABSENT", "IN_PROGRESS", "COMPLETE", "FAILED", "UNSUPPORTED"}
PhaseStatus == {"PENDING", "IN_PROGRESS", "COMPLETE", "FAILED", "SKIPPED"}
DayRecords == [status: DayStatus, phase_status: [Phases -> PhaseStatus],
               artifacts: SUBSET Phases]

NewDay == [status |-> "IN_PROGRESS",
           phase_status |-> [p \in Phases |-> "PENDING"], artifacts |-> {}]
AbsentDay == [NewDay EXCEPT !.status = "ABSENT"]
NoDays == [d \in Dates |-> AbsentDay]

\* its coverage_status (no eligible symbol counts as incomplete) and smoke_mode
Universes == [coverage: {"NONE", "complete", "incomplete"}, smoke: BOOLEAN]
NoUniverse == [coverage |-> "NONE", smoke |-> FALSE]

NoRequest == [dates |-> {}, smoke |-> FALSE]
NoManifest == [status |-> "NONE", code |-> "NONE", forced |-> FALSE,
               request |-> NoRequest, days |-> NoDays, failed |-> {}]
RunStatus == {"NONE", "IN_PROGRESS", "PAUSED_WALL_BUDGET", "COMPLETE",
              "PARTIAL", "FAILED"}
Manifests == [status: RunStatus, code: Codes \cup {"NONE"}, forced: BOOLEAN,
              request: Requests \cup {NoRequest}, days: [Dates -> DayRecords],
              failed: SUBSET Dates]

IdleRun == [code |-> "NONE", forced |-> FALSE, request |-> NoRequest,
            resume |-> TRUE, budget |-> FALSE]

CompletedIn(table) == {d \in Dates : table[d].status = "COMPLETE"}

\* mutant: the loop comes back to the date it has just handled
DatesFromCurrent == {d \in run.request.dates : d >= current}

\* the dates the loop has still to look at
NextDates == {d \in run.request.dates : d > current}

-----------------------------------------------------------------------------
(* checkpoint(): the manifest file is replaced by what memory holds.           *)
Manifest(status, table, failed) ==
    [status |-> status, code |-> run.code, forced |-> run.forced,
     request |-> run.request, days |-> table, failed |-> failed]

Checkpoint(table, failed) == manifest' = Manifest("IN_PROGRESS", table, failed)

\* the status a run ends with
FinalStatus(table) ==
    IF CompletedIn(table) = run.request.dates THEN "COMPLETE"
    ELSE IF CompletedIn(table) # {} THEN "PARTIAL" ELSE "FAILED"

\* persist_progress(): the callback every phase makes
Persist(record) ==
    /\ progress' = record
    /\ days' = [days EXCEPT ![current] = record]
    /\ Checkpoint([days EXCEPT ![current] = record], failures)

EndLaunch ==
    /\ pc' = "idle" /\ run' = IdleRun /\ days' = NoDays /\ failures' = {}
    /\ progress' = AbsentDay /\ current' = -1 /\ phase' = 0

Init ==
    /\ manifest = NoManifest
    /\ artifact = [d \in Dates |-> [p \in Phases |-> "NONE"]]
    /\ universe = [d \in Dates |-> NoUniverse]
    /\ pc = "idle" /\ run = IdleRun /\ days = NoDays /\ failures = {}
    /\ progress = AbsentDay /\ current = -1 /\ phase = 0
    /\ launches = 0 /\ crashes = 0 /\ losses = 0

-----------------------------------------------------------------------------
(* A launch reads the manifest, unless it resumes nothing.                     *)

\* mutant: a manifest left by a debug run passes for a clean one
DiffersInCode(code) == manifest.code # code

\* mutant: nobody compares
NeverDiffers(code) == FALSE

\* provenance_differences(): a forced manifest never matches again
Differs(code) == manifest.code # code \/ manifest.forced

BeginLaunch(code, request, resume, budget, forced) ==
    /\ pc' = "starting"
    /\ run' = [code |-> code, forced |-> forced, request |-> request,
               resume |-> resume, budget |-> budget]
    /\ progress' = AbsentDay /\ current' = -1 /\ phase' = 0
    /\ launches' = launches + 1
    /\ UNCHANGED <<crashes, losses>>

CanLaunch == pc = "idle" /\ launches < MaxLaunches

\* no manifest, or --no-resume: whatever lies under days/ stays there
LaunchFresh(code, request, resume, budget) ==
    /\ CanLaunch
    /\ ~resume => NoResumeAllowed
    /\ resume => manifest.status = "NONE"
    /\ days' = NoDays /\ failures' = {}
    /\ BeginLaunch(code, request, resume, budget, FALSE)
    /\ UNCHANGED durable

\* check_resume() renames the output root, then the launch starts in a new one
LaunchArchiving(code, request, budget) ==
    /\ CanLaunch
    /\ manifest.status # "NONE" /\ Differs(code)
    /\ manifest' = NoManifest
    /\ artifact' = [d \in Dates |-> [p \in Phases |-> "NONE"]]
    /\ universe' = [d \in Dates |-> NoUniverse]
    /\ days' = NoDays /\ failures' = {}
    /\ BeginLaunch(code, request, TRUE, budget, FALSE)

\* the prior manifest is of this request and provenance, or is forced to be
LaunchResuming(code, request, budget, force) ==
    /\ CanLaunch
    /\ manifest.status # "NONE"
    /\ force => ForceAllowed
    /\ force \/ ~Differs(code)
    /\ manifest.request = request
    /\ days' = manifest.days /\ failures' = manifest.failed
    /\ BeginLaunch(code, request, TRUE, budget, Differs(code))
    /\ UNCHANGED durable

\* FlatFileReplayError before anything is written: "use a new output directory"
LaunchRejected(code, request, force) ==
    /\ CanLaunch
    /\ manifest.status # "NONE"
    /\ force => ForceAllowed
    /\ force \/ ~Differs(code)
    /\ manifest.request # request
    /\ launches' = launches + 1
    /\ UNCHANGED <<durable, memory, crashes, losses>>

Launch ==
    \E code \in Codes, request \in Requests, budget \in BOOLEAN :
        /\ request.dates # {}
        /\ \/ \E resume \in BOOLEAN : LaunchFresh(code, request, resume, budget)
           \/ LaunchArchiving(code, request, budget)
           \/ \E force \in BOOLEAN : \/ LaunchResuming(code, request, budget, force)
                                     \/ LaunchRejected(code, request, force)

\* the first checkpoint, status_override IN_PROGRESS, phase STARTING
Start ==
    /\ pc = "starting"
    /\ Checkpoint(days, failures)
    /\ pc' = "loop"
    /\ UNCHANGED <<artifact, universe, run, days, failures, progress, current, phase, bounds>>

-----------------------------------------------------------------------------
(* The loop over the dates.                                                    *)

\* mutant: it asks for a file of every phase
EveryFileExists(d) == \A p \in Phases : artifact[d][p] \in Codes

\* _artifact_paths_exist()
FilesExist(d) == \A p \in days[d].artifacts : artifact[d][p] \in Codes

Upcoming(d) == pc = "loop" /\ d \in NextDates /\ \A e \in NextDates : d <= e

\* a date an earlier launch completed, with its files still there
Reusable(d) == days[d].status = "COMPLETE" /\ FilesExist(d)

SkipDay(d) ==
    /\ Upcoming(d) /\ Reusable(d)
    /\ failures' = failures \ {d} /\ current' = d
    /\ UNCHANGED <<durable, pc, run, days, progress, phase, bounds>>

\* the wall-clock budget has run out: stop between two days
Pause(d) ==
    /\ Upcoming(d) /\ ~Reusable(d) /\ run.budget
    /\ manifest' = Manifest("PAUSED_WALL_BUDGET", days, failures)
    /\ EndLaunch
    /\ UNCHANGED <<artifact, universe, bounds>>

\* _new_day_record(), kept in memory until the first phase reports
BeginDay(d) ==
    /\ Upcoming(d) /\ ~Reusable(d)
    /\ days' = [days EXCEPT ![d] = NewDay]
    /\ progress' = NewDay /\ current' = d /\ phase' = 1 /\ pc' = "enter"
    /\ UNCHANGED <<durable, run, failures, bounds>>

\* every date has been tried: the last checkpoint computes the status
Finish ==
    /\ pc = "loop" /\ NextDates = {}
    /\ manifest' = Manifest(FinalStatus(days), days, failures)
    /\ EndLaunch
    /\ UNCHANGED <<artifact, universe, bounds>>

-----------------------------------------------------------------------------
(* One day: _run_flatfile_day_impl inside _tracked_phase.                      *)
Name == REPLAY_PHASES[phase]
Skipped == run.request.smoke /\ Name = "postmortem"

WithPhase(status) == [progress EXCEPT !.phase_status[Name] = status]

EnterPhase ==
    /\ pc = "enter" /\ Persist(WithPhase("IN_PROGRESS")) /\ pc' = "work"
    /\ UNCHANGED <<artifact, universe, run, failures, current, phase, bounds>>

\* the phase's file is replaced by this launch's, and listed in the record
Wrote ==
    /\ artifact' = [artifact EXCEPT ![current][Name] = run.code]
    /\ progress' = [progress EXCEPT !.artifacts = @ \cup {Name}]

WorkPhase ==
    /\ pc = "work"
    /\ Name \notin {"download", "universe", "scoring"} /\ ~Skipped
    /\ Wrote
    /\ pc' = "close"
    /\ UNCHANGED <<manifest, universe, run, days, failures, current, phase, bounds>>

\* flat files go to a cache outside the output root; a smoke run has no postmortem
WorkNothing ==
    /\ pc = "work" /\ (Name = "download" \/ Skipped)
    /\ pc' = "close"
    /\ UNCHANGED <<durable, run, days, failures, progress, current, phase, bounds>>

\* no manifest of the universe yet: the provider's answers decide its coverage
BuildUniverse(coverage) ==
    /\ pc = "work" /\ Name = "universe" /\ artifact[current][Name] \notin Codes
    /\ Wrote
    /\ universe' = [universe EXCEPT ![current] =
           [coverage |-> coverage, smoke |-> run.request.smoke]]
    /\ pc' = "close"
    /\ UNCHANGED <<manifest, run, days, failures, current, phase, bounds>>

\* build_point_in_time_universe() returns the manifest it finds, whoever wrote
\* it, and raises (RaiseInPhase) if it was built for another kind of run
ReuseUniverse ==
    /\ pc = "work" /\ Name = "universe" /\ artifact[current][Name] \in Codes
    /\ universe[current].smoke = run.request.smoke
    /\ progress' = [progress EXCEPT !.artifacts = @ \cup {Name}]
    /\ pc' = "close"
    /\ UNCHANGED <<durable, run, days, failures, current, phase, bounds>>

ScoreSome ==
    /\ pc = "work" /\ Name = "scoring"
    /\ Wrote
    /\ pc' = "close"
    /\ UNCHANGED <<manifest, universe, run, days, failures, current, phase, bounds>>

\* no scorable ticker: the day has failed and its other phases are skipped
ScoreNone ==
    /\ pc = "work" /\ Name = "scoring"
    /\ artifact' = [artifact EXCEPT ![current][Name] = run.code]
    /\ Persist([progress EXCEPT
           !.status = "FAILED", !.artifacts = @ \cup {Name},
           !.phase_status = [p \in Phases |->
               IF \E k \in (ScoringIndex + 1)..LastPhase : p = REPLAY_PHASES[k]
               THEN "SKIPPED" ELSE @[p]]])
    /\ pc' = "close"
    /\ UNCHANGED <<universe, run, failures, current, phase, bounds>>

\* mutant: only an empty universe stops the day
NoUniverseAtAll == Name = "universe" /\ universe[current] = NoUniverse

\* the universe of the day is not complete
Unsupported == Name = "universe" /\ universe[current].coverage # "complete"

\* the phase ends well; the record leaves the day after its last phase, after an
\* unsupported universe, or with nothing to grade
ClosePhase ==
    LET record == WithPhase(IF Skipped THEN "SKIPPED" ELSE "COMPLETE")
    IN  /\ pc = "close"
        /\ days' = [days EXCEPT ![current] = record]
        /\ Checkpoint([days EXCEPT ![current] = record], failures)
        /\ \/ /\ Unsupported
              /\ progress' = [record EXCEPT !.status = "UNSUPPORTED"]
              /\ pc' = "returned" /\ phase' = 0
           \/ /\ ~Unsupported /\ record.status = "FAILED"
              /\ progress' = record /\ pc' = "returned" /\ phase' = 0
           \/ /\ ~Unsupported /\ record.status # "FAILED" /\ phase = LastPhase
              /\ progress' = [record EXCEPT !.status = "COMPLETE"]
              /\ pc' = "returned" /\ phase' = 0
           \/ /\ ~Unsupported /\ record.status # "FAILED" /\ phase < LastPhase
              /\ progress' = record /\ pc' = "enter" /\ phase' = phase + 1
        /\ UNCHANGED <<artifact, universe, run, failures, current, bounds>>

\* an exception inside a phase, before or after its file is written
RaiseInPhase ==
    /\ pc \in {"work", "close"} /\ ~Skipped /\ progress.status = "IN_PROGRESS"
    /\ Persist(WithPhase("FAILED"))
    /\ pc' = "raised"
    /\ UNCHANGED <<artifact, universe, run, failures, current, phase, bounds>>

\* an exception between two phases leaves the last phase entered as it was
RaiseBetween ==
    /\ pc = "enter" /\ pc' = "raised"
    /\ UNCHANGED <<durable, run, days, failures, progress, current, phase, bounds>>

\* run_flatfile_day() records the failure and raises again
RecordFailure ==
    /\ pc = "raised"
    /\ Persist([progress EXCEPT !.status = "FAILED"])
    /\ pc' = "escaped"
    /\ UNCHANGED <<artifact, universe, run, failures, current, phase, bounds>>

EndDay(record, failed) ==
    /\ days' = [days EXCEPT ![current] = record]
    /\ failures' = failed
    /\ Checkpoint([days EXCEPT ![current] = record], failed)
    /\ pc' = "loop" /\ progress' = AbsentDay /\ phase' = 0
    /\ UNCHANGED <<artifact, universe, run, current, bounds>>

DayFailed ==
    pc = "escaped" /\ EndDay([days[current] EXCEPT !.status = "FAILED"],
                             failures \cup {current})

\* failed_dates after a day that returned a record
FailuresAfterDay ==
    IF progress.status = "COMPLETE" THEN failures \ {current}
    ELSE failures \cup {current}

DayReturned == pc = "returned" /\ EndDay(progress, FailuresAfterDay)

-----------------------------------------------------------------------------
(* The environment.                                                            *)
Crash ==
    /\ pc # "idle" /\ crashes < MaxCrashes
    /\ EndLaunch /\ crashes' = crashes + 1
    /\ UNCHANGED <<durable, launches, losses>>

\* a file under days/ disappears between two launches
LoseArtifact(d, p) ==
    /\ pc = "idle" /\ losses < MaxLosses
    /\ artifact[d][p] \in Codes
    /\ artifact' = [artifact EXCEPT ![d][p] = "LOST"]
    /\ losses' = losses + 1
    /\ UNCHANGED <<manifest, universe, memory, launches, crashes>>

Day == \/ EnterPhase \/ WorkPhase \/ WorkNothing
       \/ \E c \in {"complete", "incomplete"} : BuildUniverse(c)
       \/ ReuseUniverse \/ ScoreSome \/ ScoreNone \/ ClosePhase
       \/ RaiseInPhase \/ RaiseBetween \/ RecordFailure \/ DayFailed \/ DayReturned
Run == Start \/ Finish \/ Day \/ \E d \in Dates : SkipDay(d) \/ Pause(d) \/ BeginDay(d)
Environment == Crash \/ \E d \in Dates, p \in Phases : LoseArtifact(d, p)
Next == Launch \/ Run \/ Environment

Spec == Init /\ [][Next]_vars

\* a launch is one thread whose every call returns: requests have timeouts and
\* bounded retries, and the operating system keeps running it
FairSpec == Spec /\ WF_vars(Run)

-----------------------------------------------------------------------------
(* Type invariant.                                                             *)
TypeOK ==
    /\ manifest \in Manifests
    /\ artifact \in [Dates -> [Phases -> Codes \cup {"NONE", "LOST"}]]
    /\ universe \in [Dates -> Universes]
    /\ pc \in {"idle", "starting", "loop", "enter", "work", "close", "raised",
               "escaped", "returned"}
    /\ run \in [code: Codes \cup {"NONE"}, forced: BOOLEAN,
                request: Requests \cup {NoRequest}, resume: BOOLEAN, budget: BOOLEAN]
    /\ days \in [Dates -> DayRecords] /\ failures \subseteq Dates
    /\ progress \in DayRecords
    /\ current \in Dates \cup {-1} /\ phase \in 0..LastPhase
    /\ launches \in Nat /\ crashes \in Nat /\ losses \in Nat

-----------------------------------------------------------------------------
(* Safety.                                                                     *)

\* A day the manifest reports complete carries the whole evidence of its run:
\* every phase's file is listed and on disk unless somebody removed it since,
\* and its universe was complete (_run_flatfile_day_impl, whose order of writes,
\* checkpoints and early returns decides it across crashes and restarts).
CompleteDayIsBacked ==
    \A d \in CompletedIn(manifest.days) :
        /\ manifest.days[d].artifacts = Evidence(manifest.request.smoke)
        /\ \A p \in manifest.days[d].artifacts : artifact[d][p] # "NONE"
        /\ universe[d].coverage = "complete"

\* The evidence of a completed day comes from the provenance the manifest
\* names, unless the manifest says forced_resume (README.md:10-22).  A launch
\* with --no-resume keeps the universe manifests it finds.
EvidenceOfOneCode ==
    ~manifest.forced =>
        \A d \in CompletedIn(manifest.days) :
            \A p \in manifest.days[d].artifacts \
                         (IF NoResumeAllowed THEN {"universe"} ELSE {}) :
                artifact[d][p] \in {manifest.code, "LOST"}

\* A manifest never lists a date both as completed and as failed: the scheduler
\* turns any failed date into a failed unit (replay_scheduled.finish).
CompletedNotFailed == CompletedIn(manifest.days) \cap manifest.failed = {}

\* A run that has ended has settled every date it was asked for: completed, or
\* listed in failed_dates; COMPLETE exactly when nothing failed.
TerminalIsSettled ==
    manifest.status \in {"COMPLETE", "PARTIAL", "FAILED"} =>
        /\ manifest.failed = manifest.request.dates \ CompletedIn(manifest.days)
        /\ \A d \in manifest.failed : manifest.days[d].status \in {"FAILED", "UNSUPPORTED"}
        /\ (manifest.status = "COMPLETE") <=> (manifest.failed = {})

-----------------------------------------------------------------------------
(* What a step may never do.                                                   *)

\* A completed day whose files are all there is never run again or rewritten
\* by a resuming launch; only archiving the output root, or --no-resume, drops
\* it (test_flatfile_replay_resumes_completed_dates_without_reprocessing).
Intact(d) ==
    /\ manifest.days[d].status = "COMPLETE"
    /\ \A p \in manifest.days[d].artifacts : artifact[d][p] \in Codes
CompletedDaysRest ==
    [][\A d \in Dates : Intact(d) /\ run.resume =>
            \/ manifest' = NoManifest
            \/ /\ manifest'.days[d] = manifest.days[d]
               /\ \A p \in Phases : artifact'[d][p] \in {artifact[d][p], "LOST"}]_vars

\* A universe manifest is immutable (docs/UNIVERSE_INTEGRITY.md:61-72): once
\* written for a date it stays until the output root is archived or the file
\* is lost.  An incomplete one therefore keeps its date unsupported.
UniverseIsImmutable ==
    [][\A d \in Dates : universe[d] # NoUniverse /\ universe'[d] # universe[d] =>
            manifest' = NoManifest \/ artifact[d]["universe"] = "LOST"]_vars

-----------------------------------------------------------------------------
(* Liveness and refinement.                                                    *)

\* A launch comes back to its caller or is killed, whatever its days do.
LaunchEnds == (pc # "idle") ~> (pc = "idle")

\* The days the manifest reports complete behave as ResumableRun promises.
Abstract == INSTANCE ResumableRun
    WITH code <- manifest.code, done <- CompletedIn(manifest.days),
         damaged <- {d \in Dates : \E p \in Phases : artifact[d][p] = "LOST"}
ImplementsResumableRun == Abstract!Spec
=============================================================================
