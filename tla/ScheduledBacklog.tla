-------------------------- MODULE ScheduledBacklog --------------------------
(* The scheduled replay of a backlog of units (trainer/replay_backlog.py,      *)
(* trainer/replay_scheduled.py, .github/workflows/flat-file-replay-scheduled   *)
(* .yml).  Jobs run one at a time; each takes one unit, restores the artifact  *)
(* of the job that paused it, runs the engine and pushes the unit's new status *)
(* and results to the branch replay-results.  Jobs are killed, artifacts       *)
(* expire, main moves, and operators push to the same branch.                  *)
(* The engine is its abstraction ResumableRun, which FlatfileReplay implements;*)
(* a manifest keeps the completed and the failed dates.                        *)
EXTENDS Integers, Sequences, FiniteSets

CONSTANTS
    Units,          \* the unit ids, in the order of the seed
    Dates,          \* the trading dates of every unit
    Commits,        \* the commits main goes through, in order
    Version,        \* the dataset_version in the seed of each commit
    MaxJobs,        \* bound: jobs that work on a unit
    MaxIncidents    \* bound: kills, operators' interventions, lost artifacts, failures

UnitIds == {Units[k] : k \in DOMAIN Units}
Codes == {Commits[k] : k \in DOMAIN Commits}
JobIds == 1..MaxJobs

ASSUME DatesAssumption == IsFiniteSet(Dates) /\ Dates \subseteq Nat \ {0} /\ Dates # {}
ASSUME UnitsAssumption ==
    /\ Units \in Seq(UnitIds)
    /\ \A j, k \in DOMAIN Units : Units[j] = Units[k] => j = k
ASSUME VersionAssumption ==     \* README.md:292: versions increase monotonically
    /\ Commits \in Seq(Codes) /\ Len(Commits) > 0 /\ MaxJobs \in Nat
    /\ Version \in [Codes -> Nat \ {0}] /\ "NONE" \notin Codes
    /\ \A j, k \in DOMAIN Commits : j < k => /\ Commits[j] # Commits[k]
                                             /\ Version[Commits[j]] <= Version[Commits[k]]

VARIABLES
    head,       \* how far main has come: the index of its commit
    branch,     \* replay-results: dataset_version, units and compact results
    artifacts,  \* per job: the full artifact it uploaded
    pc, job,    \* where the running job is; its id, commit, unit and checkout
    status, code, done, failed,     \* the manifest of the job's output root
    jobs,       \* jobs so far, and what has come in between: jobs killed or
    kills,      \* whose last step failed, resets and dispatches by operators,
    resets,     \* artifacts expired or not downloaded,
    expiries,   \* and failed days, engine, report and upload steps
    breaks
root == <<status, code, done, failed>>
bounds == <<jobs, kills, resets, expiries, breaks>>
vars == <<head, branch, artifacts, pc, job, root, bounds>>

Engine == INSTANCE ResumableRun
    WITH damaged <- {}, ForceAllowed <- FALSE, NoResumeAllowed <- FALSE

-----------------------------------------------------------------------------
UnitStatus == {"PENDING", "IN_PROGRESS", "PAUSED", "COMPLETE", "FAILED"}
UnitRecords == [status: UnitStatus,
                version: Nat,                       \* dataset_version_run, 0 if absent
                code: Codes \cup {"NONE"},          \* code_sha
                run: {0} \cup JobIds,               \* last_run_id
                days: 0..Cardinality(Dates)]        \* days_completed
NewUnit == [status |-> "PENDING", version |-> 0, code |-> "NONE", run |-> 0, days |-> 0]

RootStatus == {"NONE", "IN_PROGRESS", "PAUSED_WALL_BUDGET", "COMPLETE", "PARTIAL", "FAILED"}
Manifests == [status: RootStatus, code: Codes \cup {"NONE"}, done: SUBSET Dates,
              failed: SUBSET Dates]
NoManifest == [status |-> "NONE", code |-> "NONE", done |-> {}, failed |-> {}]
RootManifest == [status |-> status, code |-> code, done |-> done, failed |-> failed]

Branches == [version: Nat, units: [UnitIds -> UnitRecords], results: [UnitIds -> Manifests]]

NoArtifact == [unit |-> "NONE", manifest |-> NoManifest]
Expired == [unit |-> "EXPIRED", manifest |-> NoManifest]

\* the branch replay-results when it is first opened
SeededBranch == [version |-> Version[Commits[1]], units |-> [u \in UnitIds |-> NewUnit],
                 results |-> [u \in UnitIds |-> NoManifest]]

JobRecords == [id: {0} \cup JobIds, code: Codes \cup {"NONE"}, unit: UnitIds \cup {"NONE"},
               dispatched: BOOLEAN, work: Branches, overtaken: BOOLEAN, failed: BOOLEAN,
               current: {0} \cup Dates]
IdleJob == [id |-> 0, code |-> "NONE", unit |-> "NONE", dispatched |-> FALSE,
            work |-> SeededBranch, overtaken |-> FALSE, failed |-> FALSE, current |-> 0]

Init ==
    /\ head = 1
    /\ branch = SeededBranch
    /\ artifacts = [j \in JobIds |-> NoArtifact]
    /\ pc = "idle" /\ job = IdleJob
    /\ status = "NONE" /\ code = "NONE" /\ done = {} /\ failed = {}
    /\ jobs = 0 /\ kills = 0 /\ resets = 0 /\ expiries = 0 /\ breaks = 0

\* one more incident
Incident(counter) ==
    /\ kills + resets + expiries + breaks < MaxIncidents
    /\ counter' = counter + 1

SetRoot(manifest) ==
    /\ status' = manifest.status /\ code' = manifest.code
    /\ done' = manifest.done /\ failed' = manifest.failed

-----------------------------------------------------------------------------
(* replay_backlog.py                                                           *)

\* mutant: the version a unit was run with is not looked at
StatusInFile(b, u) == b.units[u].status

\* effective_status(): an older dataset_version makes a unit pending again
EffectiveStatus(b, u) ==
    IF b.units[u].version \notin {0, b.version} THEN "PENDING" ELSE b.units[u].status

\* next_unit() without an id: the first paused unit, or else the first pending one
NextUnits(b) ==
    LET in(s) == {k \in DOMAIN Units : EffectiveStatus(b, Units[k]) = s}
        ready == IF in("PAUSED") # {} THEN in("PAUSED") ELSE in("PENDING")
    IN  {Units[k] : k \in {k \in ready : \A j \in ready : k <= j}}

\* mutant: the version stays that of the unit's first job
MarkKeepingVersion(b, u, c, id, days) ==
    [b EXCEPT !.units[u] = [status |-> "IN_PROGRESS",
                            version |-> IF @.version = 0 THEN b.version ELSE @.version,
                            code |-> c, run |-> id, days |-> days]]

\* mark() with the workflow's fields when a job starts on a unit
MarkStarted(b, u, c, id, days) ==
    [b EXCEPT !.units[u] = [status |-> "IN_PROGRESS", version |-> b.version,
                            code |-> c, run |-> id, days |-> days]]

\* mark() by finish(); a unit that was never marked gets a version here
MarkEnded(b, u, s, days) ==
    [b EXCEPT !.units[u].status = s, !.units[u].days = days,
              !.units[u].version = IF @ = 0 THEN b.version ELSE @]

-----------------------------------------------------------------------------
(* replay_scheduled.py                                                         *)

\* the download of the artifact that the unit's last job made when it paused
Restored(u, b, downloaded) ==
    LET run == b.units[u].run
    IN  IF EffectiveStatus(b, u) = "PAUSED" /\ run # 0 /\ downloaded
        THEN artifacts[run].manifest ELSE NoManifest

\* prepare_resume(): the dates of a unit's artifact are the unit's, so its code
\* decides whether the job resumes it; otherwise the output root is cleared
Prepared(manifest, c) ==
    IF manifest.status = "PAUSED_WALL_BUDGET" /\ manifest.code = c
    THEN manifest ELSE NoManifest

\* mutant: the statuses of the steps are not looked at
EndStatusOfManifest(jobFailed) ==
    IF failed # {} THEN "FAILED"
    ELSE CASE status = "COMPLETE" -> "COMPLETE"
           [] status = "PAUSED_WALL_BUDGET" -> "PAUSED"
           [] OTHER -> "FAILED"

\* finish(): the unit's status after the job
EndStatus(jobFailed) ==
    IF jobFailed \/ failed # {} THEN "FAILED"
    ELSE CASE status = "COMPLETE" -> "COMPLETE"
           [] status = "PAUSED_WALL_BUDGET" -> "PAUSED"
           [] OTHER -> "FAILED"

-----------------------------------------------------------------------------
(* The job (flat-file-replay-scheduled.yml).                                   *)

EndJob == pc' = "idle" /\ job' = IdleJob /\ SetRoot(NoManifest)

\* mutant: the branch is overwritten whoever has pushed to it
ForcePush(b) == branch' = b

\* git push is refused when somebody else has pushed since the job fetched
Push(b) == branch' = IF job.overtaken THEN branch ELSE b

\* checkout, merge of the seed, selection
Select(u, dispatched) ==
    LET c == Commits[head]
        merged == [branch EXCEPT !.version =
                       IF branch.version < Version[c] THEN Version[c] ELSE branch.version]
    IN  /\ pc = "idle" /\ jobs < MaxJobs
        /\ dispatched \/ u \in NextUnits(merged)
        /\ jobs' = jobs + 1
        /\ pc' = "selected"
        /\ job' = [IdleJob EXCEPT !.id = jobs + 1, !.code = c, !.unit = u,
                   !.dispatched = dispatched, !.work = merged]
        /\ UNCHANGED <<head, branch, artifacts, root, kills, expiries, breaks>>

\* a cron tick takes the next unit
Schedule(u) == Select(u, FALSE) /\ UNCHANGED resets

\* an operator names the unit
Dispatch(u) == Select(u, TRUE) /\ Incident(resets)

\* the download, prepare_resume() and mark(); without its artifact a paused unit
\* starts afresh
Prepare(downloaded) ==
    /\ pc = "selected"
    /\ SetRoot(Prepared(Restored(job.unit, job.work, downloaded), job.code))
    /\ pc' = "marked"
    /\ job' = [job EXCEPT !.work = MarkStarted(job.work, job.unit, job.code, job.id,
                                               Cardinality(done'))]
    /\ IF downloaded THEN expiries' = expiries ELSE Incident(expiries)
    /\ UNCHANGED <<head, branch, artifacts, jobs, kills, resets, breaks>>

\* prepare_resume() or the reading of the files raises: the unit is not marked, the
\* steps of the replay are skipped, and the last step finds what was downloaded
PrepareFails(downloaded) ==
    /\ pc = "selected" /\ Incident(breaks)
    /\ SetRoot(Restored(job.unit, job.work, downloaded))
    /\ pc' = "finalize"
    /\ job' = [job EXCEPT !.failed = TRUE]
    /\ UNCHANGED <<head, branch, artifacts, jobs, kills, resets, expiries>>

\* the push of IN_PROGRESS; without it no replay starts and the job has failed
PushStarted ==
    /\ pc = "marked"
    /\ Push(job.work)
    /\ pc' = IF job.overtaken THEN "finalize" ELSE "pushed"
    /\ job' = [job EXCEPT !.failed = job.overtaken]
    /\ UNCHANGED <<head, artifacts, root, bounds>>

\* the commit or the push fails though nobody else has pushed
PushFails ==
    /\ pc = "marked" /\ Incident(breaks)
    /\ pc' = "finalize"
    /\ job' = [job EXCEPT !.failed = TRUE]
    /\ UNCHANGED <<head, branch, artifacts, root, jobs, kills, resets, expiries>>

\* the engine's launch; prepare_resume() has left it nothing of another provenance
Launch ==
    /\ pc = "pushed" /\ pc' = "replay"
    /\ Engine!Adopt(job.code) /\ status' = "IN_PROGRESS"
    /\ UNCHANGED <<head, branch, artifacts, job, failed, bounds>>

\* the dates the engine has still to run
Left == {d \in Dates \ done : d > job.current}
NextDate(d) == pc = "replay" /\ d \in Left /\ \A e \in Left : d <= e

CompleteDay(d) ==
    /\ NextDate(d)
    /\ Engine!Complete(d) /\ failed' = failed \ {d}
    /\ job' = [job EXCEPT !.current = d]
    /\ UNCHANGED <<head, branch, artifacts, pc, status, bounds>>

FailDay(d) ==
    /\ NextDate(d) /\ Incident(breaks)
    /\ failed' = failed \cup {d}
    /\ job' = [job EXCEPT !.current = d]
    /\ UNCHANGED <<head, branch, artifacts, pc, status, code, done,
                   jobs, kills, resets, expiries>>

\* the budget of 16,200 seconds is not used up before the first day
Pause ==
    /\ pc = "replay" /\ Left # {} /\ job.current # 0
    /\ status' = "PAUSED_WALL_BUDGET" /\ pc' = "upload"
    /\ UNCHANGED <<head, branch, artifacts, job, code, done, failed, bounds>>

Finish ==
    /\ pc = "replay" /\ Left = {}
    /\ status' = IF done = Dates THEN "COMPLETE" ELSE IF done # {} THEN "PARTIAL" ELSE "FAILED"
    /\ pc' = "upload"
    /\ UNCHANGED <<head, branch, artifacts, job, code, done, failed, bounds>>

\* mutant: the last step of the job does not run when another has failed
StepEndsJob ==
    /\ pc \in {"pushed", "replay"} /\ Incident(breaks)
    /\ EndJob
    /\ UNCHANGED <<head, branch, artifacts, jobs, kills, resets, expiries>>

\* the warm-up or the replay exits with an error: nothing, or what there is, is uploaded
StepFails ==
    /\ pc \in {"pushed", "replay"} /\ Incident(breaks)
    /\ pc' = IF pc = "pushed" THEN "finalize" ELSE "upload"
    /\ job' = [job EXCEPT !.failed = TRUE]
    /\ UNCHANGED <<head, branch, artifacts, root, jobs, kills, resets, expiries>>

Upload ==
    /\ pc = "upload" /\ pc' = "finalize"
    /\ artifacts' = [artifacts EXCEPT ![job.id] = [unit |-> job.unit, manifest |-> RootManifest]]
    /\ UNCHANGED <<head, branch, job, root, bounds>>

\* the reports cannot be made, or the artifact not be uploaded
UploadFails(uploaded) ==
    /\ pc = "upload" /\ pc' = "finalize" /\ Incident(breaks)
    /\ artifacts' = IF uploaded
           THEN [artifacts EXCEPT ![job.id] = [unit |-> job.unit, manifest |-> RootManifest]]
           ELSE artifacts
    /\ job' = [job EXCEPT !.failed = TRUE]
    /\ UNCHANGED <<head, branch, root, jobs, kills, resets, expiries>>

\* finish(), compact_copy() and the last push
Finalize ==
    /\ pc = "finalize"
    /\ Push([MarkEnded(job.work, job.unit, EndStatus(job.failed), Cardinality(done))
                EXCEPT !.results[job.unit] = RootManifest])
    /\ EndJob
    /\ UNCHANGED <<head, artifacts, bounds>>

-----------------------------------------------------------------------------
(* The environment.                                                            *)
\* the runner is lost, or the last step fails: either way nothing more is pushed
Kill ==
    /\ pc # "idle" /\ Incident(kills) /\ EndJob
    /\ UNCHANGED <<head, branch, artifacts, jobs, resets, expiries, breaks>>

Commit ==
    /\ head < Len(Commits) /\ head' = head + 1
    /\ UNCHANGED <<branch, artifacts, pc, job, root, bounds>>

\* an operator resets a unit that is shown as failed or interrupted
Reset(u) ==
    /\ Incident(resets)
    /\ branch.units[u].status \in {"FAILED", "IN_PROGRESS"}
    /\ branch' = [branch EXCEPT !.units[u].status = "PENDING"]
    /\ job' = [job EXCEPT !.overtaken = pc # "idle"]
    /\ UNCHANGED <<head, artifacts, pc, root, jobs, kills, expiries, breaks>>

Expire(j) ==
    /\ Incident(expiries)
    /\ artifacts[j] \notin {NoArtifact, Expired}
    /\ artifacts' = [artifacts EXCEPT ![j] = Expired]
    /\ UNCHANGED <<head, branch, pc, job, root, jobs, kills, resets, breaks>>

Tick == \E u \in UnitIds : Schedule(u)
Steps == \/ \E downloaded \in BOOLEAN : Prepare(downloaded) \/ PrepareFails(downloaded)
         \/ PushStarted \/ PushFails \/ Launch \/ Pause \/ Finish \/ StepFails \/ Upload \/ Finalize
         \/ \E d \in Dates : CompleteDay(d) \/ FailDay(d)
         \/ \E uploaded \in BOOLEAN : UploadFails(uploaded)
Environment == \/ Kill \/ Commit
               \/ \E u \in UnitIds : Dispatch(u) \/ Reset(u)
               \/ \E j \in JobIds : Expire(j)
Next == Tick \/ Steps \/ Environment

Spec == Init /\ [][Next]_vars

\* the cron starts a job every six hours, and a job's steps have time limits
FairSpec == Spec /\ WF_vars(Tick) /\ WF_vars(Steps)

-----------------------------------------------------------------------------
(* Type invariant.                                                             *)
TypeOK ==
    /\ head \in DOMAIN Commits
    /\ branch \in Branches
    /\ artifacts \in [JobIds -> [unit: UnitIds \cup {"NONE", "EXPIRED"}, manifest: Manifests]]
    /\ pc \in {"idle", "selected", "marked", "pushed", "replay", "upload", "finalize"}
    /\ job \in JobRecords
    /\ RootManifest \in Manifests
    /\ jobs \in 0..MaxJobs /\ kills \in Nat /\ resets \in Nat /\ expiries \in Nat
    /\ breaks \in Nat

-----------------------------------------------------------------------------
(* Safety.                                                                     *)

\* A unit shown COMPLETE has the published results of all its dates, of the
\* commit and of the dataset_version it is labelled with (finish and compact_copy
\* against mark, which run in different steps of the job).
CompleteUnitIsPublished ==
    \A u \in UnitIds : branch.units[u].status = "COMPLETE" =>
        /\ branch.results[u] = [status |-> "COMPLETE", code |-> branch.units[u].code,
                                done |-> Dates, failed |-> {}]
        /\ Version[branch.units[u].code] = branch.units[u].version
        /\ branch.units[u].days = Cardinality(Dates)

\* A paused unit can be taken up where it was left: the artifact its next job
\* will look for has its days, all good, unless it has expired (README.md:304-308).
PausedUnitIsRecoverable ==
    \A u \in UnitIds : branch.units[u].status = "PAUSED" =>
        LET artifact == artifacts[branch.units[u].run]
        IN  artifact # Expired =>
                /\ artifact.unit = u
                /\ artifact.manifest = branch.results[u]
                /\ artifact.manifest.status = "PAUSED_WALL_BUDGET"
                /\ artifact.manifest.code = branch.units[u].code
                /\ artifact.manifest.failed = {}
                /\ Cardinality(artifact.manifest.done) = branch.units[u].days

\* A unit is left IN_PROGRESS without a job only by a job that was killed, whose
\* last step failed or whose push came after an operator's (README.md:295-297).
Abandoned == {u \in UnitIds : /\ branch.units[u].status = "IN_PROGRESS"
                              /\ branch.units[u].run # job.id}
AbandonedByInterruption == Cardinality(Abandoned) <= kills + resets

-----------------------------------------------------------------------------
(* What a step may never do.                                                   *)

SettledUnitRests(u) ==
    branch.units[u].status \in {"COMPLETE", "FAILED"} /\ branch'.units[u] # branch.units[u]
        => \/ resets' > resets \/ job.dispatched
           \/ branch.units[u].version < branch'.version

PendingUnitMoves(u) ==
    branch.units[u].status = "PENDING" /\ branch'.units[u].status # "PENDING" =>
        /\ job.unit = u /\ ~job.overtaken
        /\ \/ branch'.units[u].status = "IN_PROGRESS" /\ branch'.units[u].run = job.id
           \/ branch'.units[u].status = "FAILED" /\ job.failed

\* Nobody moves a unit behind another's back: a COMPLETE or FAILED one is touched
\* only by an operator, or after its dataset_version has been left behind. A
\* PENDING one is moved only by the job that took it and saw it PENDING, so no job
\* undoes an operator's reset with the copy it has checked out; it starts, or
\* becomes FAILED when the step that should start it failed and the last step,
\* which always runs, could push (README.md:289-297, workflow 107-134, 229-251).
UnitsHaveOneOwner ==
    [][\A u \in UnitIds : SettledUnitRests(u) /\ PendingUnitMoves(u)]_vars

-----------------------------------------------------------------------------
(* Liveness.                                                                   *)

\* Once nobody interferes any more the backlog drains: every unit has been
\* tried with the current dataset_version and waits for no job, whatever was
\* paused, lost or requeued before.
BacklogDrains ==
    <>[]\A u \in UnitIds :
        /\ branch.units[u].version = Version[Commits[head]]
        /\ branch.units[u].status \notin {"PENDING", "PAUSED"}
=============================================================================
