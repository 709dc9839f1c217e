----------------------- MODULE ScheduledBacklogProofs -----------------------
(* Proofs about ScheduledBacklog, for any units, dates, commits and numbers of *)
(* jobs and incidents.  The published backlog is only as good as the copy the  *)
(* running job works on, so the inductive invariant says how the two differ    *)
(* before the first push of the job, between its pushes, after a step of it    *)
(* has failed, and once somebody else has pushed.                              *)
EXTENDS ScheduledBacklog, FiniteSetTheorems, TLAPS

Merged(c) == [branch EXCEPT !.version =
                 IF branch.version < Version[c] THEN Version[c] ELSE branch.version]
Ended == [MarkEnded(job.work, job.unit, EndStatus(job.failed), Cardinality(done))
             EXCEPT !.results[job.unit] = RootManifest]

-----------------------------------------------------------------------------
(* The parts of the inductive invariant.                                       *)

\* the job's copy has been pushed, and its unit has been marked in the copy; of a
\* job with a failed step neither is said
Pushed == pc \in {"pushed", "replay", "upload"} \/ (pc = "finalize" /\ ~job.failed)
Marked == pc = "marked" \/ Pushed

\* which job a unit's record is of
RunInv ==
    /\ pc = "idle" => job = IdleJob
    /\ pc # "idle" => job.id = jobs /\ jobs \in JobIds /\ job.unit \in UnitIds
    /\ \A u \in UnitIds :
           /\ branch.units[u].run <= jobs
           /\ branch.units[u].status \in {"IN_PROGRESS", "PAUSED"} => branch.units[u].run # 0
           /\ pc # "idle" /\ branch.units[u].run = jobs =>
                  /\ u = job.unit /\ pc \notin {"selected", "marked"}
                  /\ branch.units[u].status \in {"IN_PROGRESS", "PENDING"}

\* no record is ahead of its branch, nor the branch of main
VersionInv ==
    /\ branch.version <= Version[Commits[head]]
    /\ \A u \in UnitIds : branch.units[u].version <= branch.version
    /\ pc # "idle" => /\ job.code \in Codes /\ job.work.version = Version[job.code]
                      /\ Version[job.code] <= Version[Commits[head]]
                      /\ \A u \in UnitIds : job.work.units[u].version <= job.work.version

\* the copy of the job against the branch
WorkInv ==
    pc # "idle" =>
        /\ Marked => /\ job.work.units[job.unit].status = "IN_PROGRESS"
                     /\ job.work.units[job.unit].version = job.work.version
                     /\ job.work.units[job.unit].code = job.code
                     /\ job.work.units[job.unit].run = jobs
        /\ job.work.units[job.unit].run <= jobs
        /\ \A u \in UnitIds \ {job.unit} : job.work.units[u].run < jobs
        /\ ~job.overtaken =>
               /\ \A u \in UnitIds \ {job.unit} : job.work.units[u] = branch.units[u]
               /\ job.work.results = branch.results
               /\ branch.version <= job.work.version
        /\ ~job.overtaken /\ Pushed => job.work = branch

\* what the steps of the job have left in the output root and uploaded
RootInv ==
    /\ pc \in {"replay", "upload"} => code = job.code
    /\ pc = "finalize" /\ ~job.failed =>
           /\ code = job.code
           /\ artifacts[jobs] \in {Expired, [unit |-> job.unit, manifest |-> RootManifest]}
    /\ pc \in {"upload", "finalize"} /\ ~job.failed /\ status = "COMPLETE" => done = Dates

\* a job of the schedule takes a settled unit only for a newer dataset_version
SelectionInv ==
    pc # "idle" /\ ~job.overtaken /\ ~job.dispatched
        /\ branch.units[job.unit].status \in {"COMPLETE", "FAILED"}
    => branch.units[job.unit].version < job.work.version

Overtaken == IF job.overtaken THEN 1 ELSE 0
CountInv == Cardinality(Abandoned) + Overtaken <= kills + resets

BacklogInv ==
    /\ TypeOK /\ RunInv /\ VersionInv /\ WorkInv /\ RootInv /\ SelectionInv /\ CountInv
    /\ CompleteUnitIsPublished
    /\ PausedUnitIsRecoverable

-----------------------------------------------------------------------------
(* Lemmas about the parts of a state.                                          *)
LEMMA UnitsFinite == IsFiniteSet(UnitIds)
<1>1. Units \in [1..Len(Units) -> UnitIds] /\ Len(Units) \in Nat BY UnitsAssumption
<1>2. \A u \in UnitIds : \E k \in 1..Len(Units) : Units[k] = u BY <1>1 DEF UnitIds
<1>3. Units \in Surjection(1..Len(Units), UnitIds) BY <1>1, <1>2 DEF Surjection
<1>4. IsFiniteSet(1..Len(Units)) BY <1>1, FS_Interval
<1>. QED BY <1>3, <1>4, FS_Surjection

LEMMA AbandonedFinite == IsFiniteSet(Abandoned) /\ Cardinality(Abandoned) \in Nat
<1>1. Abandoned \in SUBSET UnitIds BY DEF Abandoned
<1>2. IsFiniteSet(Abandoned) BY <1>1, UnitsFinite, FS_Subset
<1>. QED BY <1>2, FS_CardinalityType

LEMMA DaysCounted ==
    ASSUME NEW S \in SUBSET Dates
    PROVE  Cardinality(S) \in 0..Cardinality(Dates)
<1>1. IsFiniteSet(Dates) BY DatesAssumption
<1>2. IsFiniteSet(S) /\ Cardinality(S) <= Cardinality(Dates) BY <1>1, FS_Subset
<1>3. Cardinality(S) \in Nat /\ Cardinality(Dates) \in Nat BY <1>1, <1>2, FS_CardinalityType
<1>. QED BY <1>2, <1>3

LEMMA CountGrows ==
    ASSUME NEW a \in Nat, NEW o \in Nat, NEW k \in Nat, NEW r \in Nat,
           NEW k2 \in Nat, NEW r2 \in Nat, a + o <= k + r, k + r <= k2 + r2
    PROVE  a + o <= k2 + r2
OBVIOUS

(* Main never goes back to an older dataset_version.                           *)
LEMMA VersionsGrow ==
    ASSUME NEW j \in DOMAIN Commits, NEW k \in DOMAIN Commits, k = j \/ j < k
    PROVE  /\ Commits[j] \in Codes /\ Version[Commits[j]] \in Nat \ {0}
           /\ Version[Commits[k]] \in Nat \ {0}
           /\ Version[Commits[j]] <= Version[Commits[k]]
<1>1. Commits[j] \in Codes /\ Commits[k] \in Codes BY DEF Codes
<1>3. Version[Commits[j]] \in Nat \ {0} /\ Version[Commits[k]] \in Nat \ {0}
  BY <1>1, VersionAssumption
<1>4. CASE j = k BY <1>1, <1>3, <1>4
<1>5. CASE j < k BY <1>1, <1>3, <1>5, VersionAssumption
<1>. QED BY <1>4, <1>5

(* The seed is merged before a unit is selected.                               *)
LEMMA MergedFacts ==
    ASSUME branch \in Branches, head \in DOMAIN Commits,
           branch.version <= Version[Commits[head]]
    PROVE  LET m == Merged(Commits[head])
           IN  /\ m \in Branches /\ m.units = branch.units /\ m.results = branch.results
               /\ m.version = Version[Commits[head]]
<1>1. Version[Commits[head]] \in Nat BY VersionsGrow
<1>2. Merged(Commits[head]) = [branch EXCEPT !.version = Version[Commits[head]]]
  BY <1>1 DEF Merged, Branches
<1>. QED BY <1>1, <1>2 DEF Branches

(* The record of a unit whose job starts.                                      *)
LEMMA StartedFacts ==
    ASSUME NEW b \in Branches, NEW u \in UnitIds, NEW c \in Codes, NEW id \in JobIds,
           NEW days \in 0..Cardinality(Dates)
    PROVE  LET m == MarkStarted(b, u, c, id, days)
           IN  /\ m \in Branches /\ m.version = b.version /\ m.results = b.results
               /\ m.units[u] = [status |-> "IN_PROGRESS", version |-> b.version, code |-> c,
                                run |-> id, days |-> days]
               /\ \A v \in UnitIds \ {u} : m.units[v] = b.units[v]
<1>. DEFINE r == [status |-> "IN_PROGRESS", version |-> b.version, code |-> c,
                  run |-> id, days |-> days]
<1>1. r \in UnitRecords BY DEF UnitRecords, UnitStatus, Branches
<1>2. MarkStarted(b, u, c, id, days) = [b EXCEPT !.units = [b.units EXCEPT ![u] = r]]
  BY DEF MarkStarted, Branches
<1>. HIDE DEF r
<1>3. [b.units EXCEPT ![u] = r] \in [UnitIds -> UnitRecords] BY <1>1 DEF Branches
<1>4. MarkStarted(b, u, c, id, days).units = [b.units EXCEPT ![u] = r]
  BY <1>2 DEF Branches
<1>5. \A v \in UnitIds \ {u} : [b.units EXCEPT ![u] = r][v] = b.units[v] BY DEF Branches
<1>6. [b.units EXCEPT ![u] = r][u] = r BY DEF Branches
<1>7. MarkStarted(b, u, c, id, days) \in Branches BY <1>2, <1>3 DEF Branches
<1>. QED BY <1>2, <1>4, <1>5, <1>6, <1>7 DEF Branches, r

(* The record and the results of a unit whose job ends.                        *)
LEMMA EndedFacts ==
    ASSUME TypeOK, pc # "idle", job.unit \in UnitIds
    PROVE  /\ Ended \in Branches /\ Ended.version = job.work.version
           /\ Ended.units[job.unit] = [job.work.units[job.unit] EXCEPT
                  !.status = EndStatus(job.failed), !.days = Cardinality(done),
                  !.version = IF job.work.units[job.unit].version = 0
                              THEN job.work.version ELSE job.work.units[job.unit].version]
           /\ Ended.results[job.unit] = RootManifest
           /\ \A v \in UnitIds \ {job.unit} : /\ Ended.units[v] = job.work.units[v]
                                              /\ Ended.results[v] = job.work.results[v]
<1>. DEFINE u == job.unit
            b == job.work
            s == EndStatus(job.failed)
            n == Cardinality(done)
            w == IF b.units[u].version = 0 THEN b.version ELSE b.units[u].version
            r == [b.units[u] EXCEPT !.status = s, !.days = n, !.version = w]
<1>1. b \in Branches /\ u \in UnitIds /\ done \in SUBSET Dates /\ RootManifest \in Manifests
  BY DEF TypeOK, JobRecords, RootManifest, Manifests
<1>2. n \in 0..Cardinality(Dates) BY <1>1, DaysCounted
<1>3. s \in UnitStatus BY DEF EndStatus, UnitStatus
<1>. HIDE DEF u, b, s, n
<1>4. b.units[u] \in UnitRecords BY <1>1 DEF Branches
<1>13. w \in Nat BY <1>1, <1>4 DEF Branches, UnitRecords
<1>6. MarkEnded(b, u, s, n) = [b EXCEPT !.units = [b.units EXCEPT ![u] = r]]
  BY <1>1, <1>4 DEF MarkEnded, Branches, UnitRecords
<1>. HIDE DEF w
<1>5. r \in UnitRecords BY <1>2, <1>3, <1>4, <1>13 DEF UnitRecords
<1>7. Ended = [b EXCEPT !.units = [b.units EXCEPT ![u] = r],
                        !.results = [b.results EXCEPT ![u] = RootManifest]]
  <2>1. Ended = [MarkEnded(b, u, s, n) EXCEPT !.results[u] = RootManifest]
    BY DEF Ended, b, u, s, n
  <2>. QED BY <1>1, <1>6, <2>1 DEF Branches
<1>. HIDE DEF r
<1>8. [b.units EXCEPT ![u] = r] \in [UnitIds -> UnitRecords] BY <1>1, <1>5 DEF Branches
<1>9. [b.results EXCEPT ![u] = RootManifest] \in [UnitIds -> Manifests] BY <1>1 DEF Branches
<1>10. /\ Ended.units = [b.units EXCEPT ![u] = r]
       /\ Ended.results = [b.results EXCEPT ![u] = RootManifest]
       /\ Ended.version = b.version /\ Ended \in Branches
  BY <1>1, <1>7, <1>8, <1>9 DEF Branches
<1>11. Ended.units[u] = r /\ Ended.results[u] = RootManifest BY <1>1, <1>10 DEF Branches
<1>12. \A v \in UnitIds \ {u} : /\ Ended.units[v] = b.units[v]
                                /\ Ended.results[v] = b.results[v]
  BY <1>1, <1>10 DEF Branches
<1>. QED BY <1>10, <1>11, <1>12 DEF u, b, s, n, r, w

-----------------------------------------------------------------------------
(* The steps that push nothing.                                                *)
Quiet ==
    /\ branch' = branch /\ jobs' = jobs
    /\ job'.id = job.id /\ job'.code = job.code /\ job'.unit = job.unit
    /\ job'.dispatched = job.dispatched /\ job'.work = job.work /\ job'.overtaken = job.overtaken
    /\ pc = "idle" => job' = job
    /\ pc' = "idle" <=> pc = "idle"
    /\ pc' \in {"selected", "marked"} => pc \in {"selected", "marked"}
    /\ Marked' => Marked
    /\ Pushed' => Pushed
    /\ head' \in DOMAIN Commits /\ (head' = head \/ head < head')
    /\ kills + resets <= kills' + resets'

LEMMA QuietKeeps ==
    ASSUME BacklogInv, TypeOK', Quiet
    PROVE  RunInv' /\ VersionInv' /\ WorkInv' /\ SelectionInv' /\ CountInv'
               /\ CompleteUnitIsPublished'
<1>1. /\ branch' = branch /\ jobs' = jobs
      /\ job'.id = job.id /\ job'.code = job.code /\ job'.unit = job.unit
      /\ job'.dispatched = job.dispatched /\ job'.work = job.work
      /\ job'.overtaken = job.overtaken
      /\ (pc = "idle" => job' = job)
      /\ (pc' = "idle" <=> pc = "idle")
      /\ (pc' \in {"selected", "marked"} => pc \in {"selected", "marked"})
      /\ (Marked' => Marked) /\ (Pushed' => Pushed)
  BY DEF Quiet
<1>2. RunInv' BY <1>1 DEF BacklogInv, RunInv
<1>3. VersionInv'
  <2>1. head \in DOMAIN Commits /\ head' \in DOMAIN Commits /\ (head' = head \/ head < head')
    BY DEF BacklogInv, TypeOK, Quiet
  <2>2. /\ Version[Commits[head]] \in Nat /\ Version[Commits[head']] \in Nat
        /\ Version[Commits[head]] <= Version[Commits[head']]
    BY <2>1, VersionsGrow
  <2>3. /\ branch.version \in Nat /\ branch.version <= Version[Commits[head]]
        /\ \A u \in UnitIds : branch.units[u].version <= branch.version
    BY DEF BacklogInv, TypeOK, Branches, VersionInv
  <2>4. pc # "idle" => /\ job.code \in Codes /\ job.work.version = Version[job.code]
                       /\ Version[job.code] <= Version[Commits[head]]
                       /\ \A u \in UnitIds : job.work.units[u].version <= job.work.version
    BY DEF BacklogInv, VersionInv
  <2>5. job.code \in Codes => Version[job.code] \in Nat BY VersionAssumption
  <2>6. branch.version <= Version[Commits[head']] BY <2>2, <2>3
  <2>7. pc # "idle" => Version[job.code] <= Version[Commits[head']] BY <2>2, <2>4, <2>5
  <2>. QED BY <1>1, <2>3, <2>4, <2>6, <2>7 DEF VersionInv
<1>4. WorkInv' BY <1>1 DEF BacklogInv, WorkInv
<1>5. SelectionInv' BY <1>1 DEF BacklogInv, SelectionInv
<1>6. CountInv'
  <2>1. Abandoned' = Abandoned BY <1>1 DEF Abandoned
  <2>2. Cardinality(Abandoned) \in Nat BY AbandonedFinite
  <2>3. kills + resets <= kills' + resets' BY DEF Quiet
  <2>4. kills \in Nat /\ resets \in Nat /\ kills' \in Nat /\ resets' \in Nat
    BY DEF BacklogInv, TypeOK
  <2>5. Overtaken' = Overtaken BY <1>1 DEF Overtaken
  <2>6. Overtaken \in Nat BY DEF Overtaken
  <2>7. Cardinality(Abandoned) + Overtaken <= kills + resets BY DEF BacklogInv, CountInv
  <2>8. Cardinality(Abandoned) + Overtaken <= kills' + resets'
    BY <2>2, <2>3, <2>4, <2>6, <2>7, CountGrows
  <2>. QED BY <2>1, <2>5, <2>8 DEF CountInv
<1>7. CompleteUnitIsPublished' BY <1>1 DEF BacklogInv, CompleteUnitIsPublished
<1>. QED BY <1>2, <1>3, <1>4, <1>5, <1>6, <1>7

ArtifactsRest ==
    \A j \in JobIds : artifacts'[j] \in {artifacts[j], Expired} \/ (pc # "idle" /\ j = jobs)

(* Of the artifacts a paused unit needs, none is replaced: a job only writes   *)
(* its own.                                                                    *)
LEMMA ArtifactsKeep ==
    ASSUME BacklogInv, branch' = branch, ArtifactsRest
    PROVE  PausedUnitIsRecoverable'
<1>. SUFFICES ASSUME NEW u \in UnitIds, branch.units[u].status = "PAUSED",
                     artifacts'[branch.units[u].run] # Expired
              PROVE  artifacts'[branch.units[u].run] = artifacts[branch.units[u].run]
  BY DEF BacklogInv, PausedUnitIsRecoverable
<1>1. branch.units[u].run \in JobIds
  BY DEF BacklogInv, TypeOK, Branches, UnitRecords, RunInv
<1>2. ~(pc # "idle" /\ branch.units[u].run = jobs) BY DEF BacklogInv, RunInv
<1>. QED BY <1>1, <1>2 DEF ArtifactsRest

(* What is left of the invariant after a quiet step.                           *)
LEMMA QuietStep ==
    ASSUME BacklogInv, TypeOK', RootInv', Quiet, ArtifactsRest
    PROVE  BacklogInv'
<1>1. PausedUnitIsRecoverable' BY ArtifactsKeep DEF Quiet
<1>. QED BY <1>1, QuietKeeps DEF BacklogInv

LEMMA RootTypes ==
    ASSUME TypeOK
    PROVE  /\ status \in RootStatus /\ code \in Codes \cup {"NONE"}
           /\ done \in SUBSET Dates /\ failed \in SUBSET Dates
BY DEF TypeOK, RootManifest, Manifests

\* a step of a job that pushes nothing, or of the environment
Aside ==
    /\ head' = head /\ branch' = branch /\ jobs' = jobs
    /\ kills' = kills /\ resets' = resets
    /\ job'.id = job.id /\ job'.code = job.code /\ job'.unit = job.unit
    /\ job'.dispatched = job.dispatched /\ job'.work = job.work /\ job'.overtaken = job.overtaken
    /\ \/ pc' = pc /\ job' = job
       \/ /\ pc # "idle" /\ pc' \notin {"idle", "selected", "marked"}
          /\ Pushed' => Pushed

LEMMA AsideIsQuiet ==
    ASSUME BacklogInv, Aside
    PROVE  Quiet
<1>1. head \in DOMAIN Commits /\ kills \in Nat /\ resets \in Nat
  BY DEF BacklogInv, TypeOK
<1>2. kills + resets <= kills' + resets' BY <1>1 DEF Aside, Pushed
<1>3. /\ pc' = "idle" <=> pc = "idle"
      /\ pc' \in {"selected", "marked"} => pc \in {"selected", "marked"}
      /\ Marked' => Marked
      /\ Pushed' => Pushed
      /\ pc = "idle" => job' = job
  BY DEF Aside, Marked, Pushed
<1>. QED BY <1>1, <1>2, <1>3 DEF Aside, Quiet

LEMMA AsideStep ==
    ASSUME BacklogInv, TypeOK', RootInv', Aside, ArtifactsRest
    PROVE  BacklogInv'
BY AsideIsQuiet, QuietStep

-----------------------------------------------------------------------------
(* The engine runs the dates under the job's commit.                           *)
LEMMA LaunchKeeps == BacklogInv /\ Launch => BacklogInv'
<1>. SUFFICES ASSUME BacklogInv, Launch PROVE BacklogInv'
  OBVIOUS
<1>1. TypeOK /\ pc = "pushed" /\ pc' = "replay" /\ job.code \in Codes
  BY DEF BacklogInv, Launch, VersionInv
<1>2. /\ status' = "IN_PROGRESS" /\ code' = job.code /\ done' = done /\ failed' = failed
      /\ head' = head /\ branch' = branch /\ artifacts' = artifacts /\ job' = job
      /\ jobs' = jobs /\ kills' = kills /\ resets' = resets /\ expiries' = expiries
      /\ breaks' = breaks
  BY DEF Launch, Engine!Adopt, bounds
<1>3. RootManifest' \in Manifests
  BY <1>1, <1>2, RootTypes DEF RootManifest, Manifests, RootStatus
<1>4. TypeOK' BY <1>1, <1>2, <1>3 DEF TypeOK, JobRecords
<1>5. RootInv' BY <1>1, <1>2 DEF RootInv
<1>6. Aside BY <1>1, <1>2 DEF Aside, Pushed
<1>7. ArtifactsRest BY <1>2 DEF ArtifactsRest
<1>. QED BY <1>4, <1>5, <1>6, <1>7, AsideStep

LEMMA CompleteDayKeeps == \A d \in Dates : BacklogInv /\ CompleteDay(d) => BacklogInv'
<1>. SUFFICES ASSUME NEW d \in Dates, BacklogInv, CompleteDay(d) PROVE BacklogInv'
  OBVIOUS
<1>1. TypeOK /\ RootInv /\ pc = "replay" BY DEF BacklogInv, CompleteDay, NextDate
<1>2. /\ status' = status /\ code' = code /\ done' = done \cup {d} /\ failed' = failed \ {d}
      /\ head' = head /\ branch' = branch /\ artifacts' = artifacts /\ pc' = pc
      /\ job' = [job EXCEPT !.current = d]
      /\ jobs' = jobs /\ kills' = kills /\ resets' = resets /\ expiries' = expiries
      /\ breaks' = breaks
  BY DEF CompleteDay, Engine!Complete, bounds
<1>3. RootManifest' \in Manifests
  BY <1>1, <1>2, RootTypes DEF RootManifest, Manifests
<1>4. TypeOK' BY <1>1, <1>2, <1>3 DEF TypeOK, JobRecords
<1>5. /\ job'.id = job.id /\ job'.code = job.code /\ job'.unit = job.unit
      /\ job'.dispatched = job.dispatched /\ job'.work = job.work
      /\ job'.overtaken = job.overtaken
  BY <1>1, <1>2 DEF TypeOK, JobRecords
<1>6. RootInv' BY <1>1, <1>2, <1>5 DEF RootInv
<1>7. Aside BY <1>1, <1>2, <1>5 DEF Aside, Pushed
<1>8. ArtifactsRest BY <1>2 DEF ArtifactsRest
<1>. QED BY <1>4, <1>6, <1>7, <1>8, AsideStep

LEMMA FailDayKeeps == \A d \in Dates : BacklogInv /\ FailDay(d) => BacklogInv'
<1>. SUFFICES ASSUME NEW d \in Dates, BacklogInv, FailDay(d) PROVE BacklogInv'
  OBVIOUS
<1>1. TypeOK /\ RootInv /\ pc = "replay" BY DEF BacklogInv, FailDay, NextDate
<1>2. /\ status' = status /\ code' = code /\ done' = done /\ failed' = failed \cup {d}
      /\ head' = head /\ branch' = branch /\ artifacts' = artifacts /\ pc' = pc
      /\ job' = [job EXCEPT !.current = d]
      /\ jobs' = jobs /\ kills' = kills /\ resets' = resets /\ expiries' = expiries
      /\ breaks' = breaks + 1
  BY DEF FailDay, Incident
<1>3. RootManifest' \in Manifests
  BY <1>1, <1>2, RootTypes DEF RootManifest, Manifests
<1>4. TypeOK' BY <1>1, <1>2, <1>3 DEF TypeOK, JobRecords
<1>5. /\ job'.id = job.id /\ job'.code = job.code /\ job'.unit = job.unit
      /\ job'.dispatched = job.dispatched /\ job'.work = job.work
      /\ job'.overtaken = job.overtaken
  BY <1>1, <1>2 DEF TypeOK, JobRecords
<1>6. RootInv' BY <1>1, <1>2, <1>5 DEF RootInv
<1>7. Aside BY <1>1, <1>2, <1>5 DEF Aside, Pushed
<1>8. ArtifactsRest BY <1>2 DEF ArtifactsRest
<1>. QED BY <1>4, <1>6, <1>7, <1>8, AsideStep

(* The run ends COMPLETE only with all its dates, or pauses.                   *)
LEMMA RunEndKeeps == BacklogInv /\ (Pause \/ Finish) => BacklogInv'
<1>. SUFFICES ASSUME BacklogInv, Pause \/ Finish PROVE BacklogInv'
  OBVIOUS
<1>1. TypeOK /\ RootInv /\ pc = "replay" /\ pc' = "upload" BY DEF BacklogInv, Pause, Finish
<1>2. /\ code' = code /\ done' = done /\ failed' = failed
      /\ head' = head /\ branch' = branch /\ artifacts' = artifacts /\ job' = job
      /\ jobs' = jobs /\ kills' = kills /\ resets' = resets /\ expiries' = expiries
      /\ breaks' = breaks
  BY DEF Pause, Finish, bounds
<1>3. status' \in RootStatus /\ (status' = "COMPLETE" => done = Dates)
  BY DEF Pause, Finish, RootStatus
<1>4. RootManifest' \in Manifests
  BY <1>1, <1>2, <1>3, RootTypes DEF RootManifest, Manifests
<1>5. TypeOK' BY <1>1, <1>2, <1>4 DEF TypeOK, JobRecords
<1>6. RootInv' BY <1>1, <1>2, <1>3 DEF RootInv
<1>7. Aside BY <1>1, <1>2 DEF Aside, Pushed
<1>8. ArtifactsRest BY <1>2 DEF ArtifactsRest
<1>. QED BY <1>5, <1>6, <1>7, <1>8, AsideStep

(* A step of the workflow fails.                                               *)
LEMMA StepFailsKeeps == BacklogInv /\ StepFails => BacklogInv'
<1>. SUFFICES ASSUME BacklogInv, StepFails PROVE BacklogInv'
  OBVIOUS
<1>1. /\ TypeOK /\ RootInv /\ pc \in {"pushed", "replay"}
      /\ pc' = IF pc = "pushed" THEN "finalize" ELSE "upload"
  BY DEF BacklogInv, StepFails
<1>2. /\ status' = status /\ code' = code /\ done' = done /\ failed' = failed
      /\ head' = head /\ branch' = branch /\ artifacts' = artifacts
      /\ job' = [job EXCEPT !.failed = TRUE]
      /\ jobs' = jobs /\ kills' = kills /\ resets' = resets /\ expiries' = expiries
      /\ breaks' = breaks + 1
  BY DEF StepFails, Incident, root
<1>3. RootManifest' = RootManifest BY <1>2 DEF RootManifest
<1>4. TypeOK'
  <2>1. job' \in JobRecords BY <1>1, <1>2 DEF TypeOK, JobRecords
  <2>2. pc' \in {"finalize", "upload"} BY <1>1
  <2>. QED BY <1>1, <1>2, <1>3, <2>1, <2>2 DEF TypeOK
<1>5. /\ job'.id = job.id /\ job'.code = job.code /\ job'.unit = job.unit
      /\ job'.dispatched = job.dispatched /\ job'.work = job.work
      /\ job'.overtaken = job.overtaken /\ job'.failed = TRUE
  BY <1>1, <1>2 DEF TypeOK, JobRecords
<1>6. RootInv' BY <1>1, <1>2, <1>5 DEF RootInv
<1>7. Aside BY <1>1, <1>2, <1>5 DEF Aside, Pushed
<1>8. ArtifactsRest BY <1>2 DEF ArtifactsRest
<1>. QED BY <1>4, <1>6, <1>7, <1>8, AsideStep

(* What a job that has not failed uploads is its output root.                  *)
LEMMA UploadKeeps ==
    BacklogInv /\ (Upload \/ \E uploaded \in BOOLEAN : UploadFails(uploaded)) => BacklogInv'
<1>. SUFFICES ASSUME BacklogInv, Upload \/ \E uploaded \in BOOLEAN : UploadFails(uploaded)
              PROVE  BacklogInv'
  OBVIOUS
<1>. DEFINE made == [unit |-> job.unit, manifest |-> RootManifest]
<1>1. TypeOK /\ RootInv /\ pc = "upload" /\ pc' = "finalize"
  BY DEF BacklogInv, Upload, UploadFails
<1>2. job.id = jobs /\ jobs \in JobIds /\ job.unit \in UnitIds
  BY <1>1 DEF BacklogInv, RunInv
<1>3. /\ status' = status /\ code' = code /\ done' = done /\ failed' = failed
      /\ head' = head /\ branch' = branch
      /\ jobs' = jobs /\ kills' = kills /\ resets' = resets /\ expiries' = expiries
      /\ breaks' \in {breaks, breaks + 1}
  BY DEF Upload, UploadFails, Incident, root, bounds
<1>4. \/ job' = job /\ artifacts' = [artifacts EXCEPT ![jobs] = made]
      \/ /\ job' = [job EXCEPT !.failed = TRUE]
         /\ artifacts' \in {artifacts, [artifacts EXCEPT ![jobs] = made]}
  BY <1>2 DEF Upload, UploadFails
<1>5. RootManifest' = RootManifest BY <1>3 DEF RootManifest
<1>6. made \in [unit: UnitIds \cup {"NONE", "EXPIRED"}, manifest: Manifests]
  BY <1>1, <1>2 DEF TypeOK, JobRecords
<1>. HIDE DEF made
<1>7. /\ job'.id = job.id /\ job'.code = job.code /\ job'.unit = job.unit
      /\ job'.dispatched = job.dispatched /\ job'.work = job.work
      /\ job'.overtaken = job.overtaken /\ job' \in {job, [job EXCEPT !.failed = TRUE]}
  BY <1>1, <1>4 DEF TypeOK, JobRecords
<1>8. artifacts' \in [JobIds -> [unit: UnitIds \cup {"NONE", "EXPIRED"}, manifest: Manifests]]
  BY <1>1, <1>4, <1>6 DEF TypeOK, JobRecords
<1>9. TypeOK'
  <2>1. job' \in JobRecords BY <1>1, <1>7 DEF TypeOK, JobRecords
  <2>2. breaks' \in Nat BY <1>1, <1>3 DEF TypeOK
  <2>. QED BY <1>1, <1>3, <1>5, <1>8, <2>1, <2>2 DEF TypeOK
<1>10. RootInv'
  <2>1. job'.failed = TRUE \/ (job' = job /\ artifacts'[jobs] = made)
    BY <1>1, <1>2, <1>4 DEF TypeOK, JobRecords
  <2>2. made = [unit |-> job.unit, manifest |-> RootManifest]' BY <1>5, <1>7 DEF made
  <2>. QED BY <1>1, <1>3, <1>7, <2>1, <2>2 DEF RootInv
<1>11. Aside BY <1>1, <1>3, <1>7 DEF Aside, Pushed
<1>12. ArtifactsRest BY <1>1, <1>2, <1>4 DEF ArtifactsRest, TypeOK
<1>. QED BY <1>9, <1>10, <1>11, <1>12, AsideStep

(* An artifact expires.                                                        *)
LEMMA ExpireKeeps == \A j \in JobIds : BacklogInv /\ Expire(j) => BacklogInv'
<1>. SUFFICES ASSUME NEW j \in JobIds, BacklogInv, Expire(j) PROVE BacklogInv'
  OBVIOUS
<1>1. TypeOK /\ RootInv BY DEF BacklogInv
<1>2. /\ status' = status /\ code' = code /\ done' = done /\ failed' = failed
      /\ head' = head /\ branch' = branch /\ pc' = pc /\ job' = job
      /\ artifacts' = [artifacts EXCEPT ![j] = Expired]
      /\ jobs' = jobs /\ kills' = kills /\ resets' = resets /\ expiries' = expiries + 1
      /\ breaks' = breaks
  BY DEF Expire, Incident, root
<1>3. RootManifest' = RootManifest BY <1>2 DEF RootManifest
<1>4. Expired \in [unit: UnitIds \cup {"NONE", "EXPIRED"}, manifest: Manifests]
  BY DEF Expired, NoManifest, Manifests, RootStatus
<1>5. TypeOK' BY <1>1, <1>2, <1>3, <1>4 DEF TypeOK, JobRecords
<1>6. \A i \in JobIds : artifacts'[i] \in {artifacts[i], Expired} BY <1>1, <1>2 DEF TypeOK, JobRecords
<1>7. pc # "idle" => jobs \in JobIds BY DEF BacklogInv, RunInv
<1>8. RootInv' BY <1>1, <1>2, <1>3, <1>6, <1>7 DEF RootInv
<1>9. Aside BY <1>2 DEF Aside, Pushed
<1>10. ArtifactsRest BY <1>6 DEF ArtifactsRest
<1>. QED BY <1>5, <1>8, <1>9, <1>10, AsideStep

(* Main moves on.                                                              *)
LEMMA CommitKeeps == BacklogInv /\ Commit => BacklogInv'
<1>. SUFFICES ASSUME BacklogInv, Commit PROVE BacklogInv'
  OBVIOUS
<1>1. TypeOK /\ RootInv /\ head < Len(Commits) /\ head' = head + 1
  BY DEF BacklogInv, Commit
<1>2. UNCHANGED <<branch, artifacts, pc, job, root, bounds>> BY DEF Commit
<1>3. head' \in DOMAIN Commits /\ head < head'
  <2>1. head \in 1..Len(Commits) /\ Len(Commits) \in Nat /\ DOMAIN Commits = 1..Len(Commits)
    BY <1>1, VersionAssumption DEF TypeOK, JobRecords
  <2>. QED BY <1>1, <2>1
<1>4. RootManifest' = RootManifest BY <1>2 DEF RootManifest, root
<1>5. TypeOK' BY <1>1, <1>2, <1>3, <1>4 DEF TypeOK, bounds
<1>6. RootInv' BY <1>1, <1>2, <1>4 DEF RootInv, root, bounds
<1>7. Quiet
  <2>1. kills \in Nat /\ resets \in Nat BY <1>1 DEF TypeOK, JobRecords
  <2>2. kills + resets <= kills' + resets' BY <1>2, <2>1 DEF bounds
  <2>. QED BY <1>2, <1>3, <2>2 DEF Quiet, bounds, Marked, Pushed
<1>8. ArtifactsRest BY <1>2 DEF ArtifactsRest
<1>. QED BY <1>5, <1>6, <1>7, <1>8, QuietStep

-----------------------------------------------------------------------------
(* A job starts.                                                               *)
LEMMA NextUnitsFacts ==
    ASSUME NEW b, NEW u \in NextUnits(b)
    PROVE  EffectiveStatus(b, u) \in {"PAUSED", "PENDING"}
BY DEF NextUnits

LEMMA PausedKeeps ==
    ASSUME BacklogInv, branch' = branch, artifacts' = artifacts
    PROVE  CompleteUnitIsPublished' /\ PausedUnitIsRecoverable'
BY DEF BacklogInv, CompleteUnitIsPublished, PausedUnitIsRecoverable

LEMMA SelectKeeps ==
    ASSUME BacklogInv, NEW u \in UnitIds, NEW dispatched \in BOOLEAN,
           Select(u, dispatched), resets' \in {resets, resets + 1}
    PROVE  BacklogInv'
<1>. DEFINE c == Commits[head]
            m == Merged(c)
<1>1. /\ pc = "idle" /\ jobs < MaxJobs /\ pc' = "selected" /\ jobs' = jobs + 1
      /\ head' = head /\ branch' = branch /\ artifacts' = artifacts
      /\ status' = status /\ code' = code /\ done' = done /\ failed' = failed
      /\ kills' = kills /\ breaks' = breaks /\ expiries' = expiries
      /\ dispatched \/ u \in NextUnits(m)
      /\ job' = [IdleJob EXCEPT !.id = jobs + 1, !.code = c, !.unit = u,
                                !.dispatched = dispatched, !.work = m]
  BY DEF Select, Merged, root
<1>2. TypeOK /\ job = IdleJob BY <1>1 DEF BacklogInv, RunInv
<1>3. /\ c \in Codes /\ Version[c] \in Nat /\ branch.version <= Version[c]
      /\ m \in Branches /\ m.units = branch.units /\ m.results = branch.results
      /\ m.version = Version[c]
  <2>1. head \in DOMAIN Commits /\ branch \in Branches /\ branch.version <= Version[c]
    BY DEF BacklogInv, TypeOK, VersionInv
  <2>2. c \in Codes /\ Version[c] \in Nat BY <2>1, VersionsGrow
  <2>. QED BY <2>1, <2>2, MergedFacts
<1>4. jobs \in Nat /\ jobs + 1 \in JobIds
  <2>1. jobs \in 0..MaxJobs BY <1>2 DEF TypeOK
  <2>. QED BY <1>1, <2>1, VersionAssumption DEF JobIds
<1>. HIDE DEF m, c
<1>5. RootManifest' = RootManifest BY <1>1 DEF RootManifest
<1>7. job' = [id |-> jobs + 1, code |-> c, unit |-> u, dispatched |-> dispatched,
              work |-> m, overtaken |-> FALSE, failed |-> FALSE, current |-> 0]
  BY <1>1 DEF IdleJob
<1>8. TypeOK'
  <2>1. job' \in JobRecords BY <1>3, <1>4, <1>7 DEF JobRecords
  <2>2. jobs' \in 0..MaxJobs BY <1>1, <1>4, VersionAssumption DEF JobIds
  <2>3. resets' \in Nat BY <1>2 DEF TypeOK
  <2>. QED BY <1>1, <1>2, <1>5, <2>1, <2>2, <2>3 DEF TypeOK
<1>9. RunInv'
  <2>1. job'.id = jobs' /\ jobs' \in JobIds /\ job'.unit \in UnitIds BY <1>1, <1>4, <1>7
  <2>2. ASSUME NEW v \in UnitIds
        PROVE  /\ branch.units[v].run <= jobs + 1 /\ branch.units[v].run # jobs + 1
               /\ branch.units[v].status \in {"IN_PROGRESS", "PAUSED"} => branch.units[v].run # 0
    <3>1. branch.units[v].run \in {0} \cup JobIds
      BY <1>2 DEF TypeOK, Branches, UnitRecords
    <3>2. branch.units[v].run \in Nat /\ branch.units[v].run <= jobs
      BY <3>1 DEF JobIds, BacklogInv, RunInv
    <3>. QED BY <1>4, <3>2 DEF BacklogInv, RunInv
  <2>. QED BY <1>1, <2>1, <2>2 DEF RunInv
<1>10. \A v \in UnitIds : branch.units[v].version \in Nat /\ branch.units[v].version <= m.version
  <2>. SUFFICES ASSUME NEW v \in UnitIds
                PROVE  branch.units[v].version \in Nat /\ branch.units[v].version <= m.version
    OBVIOUS
  <2>1. branch.units[v].version \in Nat /\ branch.version \in Nat
    BY <1>2 DEF TypeOK, Branches, UnitRecords
  <2>2. branch.units[v].version <= branch.version BY DEF BacklogInv, VersionInv
  <2>. QED BY <1>3, <2>1, <2>2
<1>11. VersionInv'
  <2>1. \A v \in UnitIds : m.units[v].version <= m.version
    BY <1>3, <1>10
  <2>2. VersionInv BY DEF BacklogInv
  <2>. QED BY <1>1, <1>3, <1>7, <2>1, <2>2 DEF VersionInv, c
<1>12. WorkInv'
  <2>1. \A v \in UnitIds : branch.units[v].run <= jobs /\ branch.units[v].run \in {0} \cup JobIds
    BY <1>2 DEF BacklogInv, RunInv, TypeOK, Branches, UnitRecords
  <2>2. \A v \in UnitIds : m.units[v].run <= jobs + 1 /\ m.units[v].run < jobs + 1
    BY <1>3, <1>4, <2>1 DEF JobIds
  <2>3. ~Marked' /\ ~Pushed' BY <1>1 DEF Marked, Pushed
  <2>. QED BY <1>1, <1>3, <1>7, <2>2, <2>3 DEF WorkInv
<1>13. RootInv' BY <1>1 DEF RootInv
<1>14. SelectionInv'
  <2>1. ASSUME ~dispatched, branch.units[u].status \in {"COMPLETE", "FAILED"}
        PROVE  branch.units[u].version < m.version
    <3>1. EffectiveStatus(m, u) \in {"PAUSED", "PENDING"} BY <1>1, <2>1, NextUnitsFacts
    <3>2. branch.units[u].version # m.version BY <1>3, <2>1, <3>1 DEF EffectiveStatus
    <3>. QED BY <1>3, <1>10, <3>2
  <2>. QED BY <1>1, <1>7, <2>1 DEF SelectionInv
<1>15. CountInv'
  <2>1. job.id = 0 /\ ~job.overtaken /\ ~job'.overtaken /\ job'.id = jobs + 1
    BY <1>2, <1>7 DEF IdleJob
  <2>2. ASSUME NEW v \in UnitIds, branch.units[v].status = "IN_PROGRESS"
        PROVE  branch.units[v].run # 0 /\ branch.units[v].run # jobs + 1
    BY <1>1, <1>9, <2>2 DEF RunInv
  <2>3. Abandoned' = Abandoned BY <1>1, <2>1, <2>2 DEF Abandoned
  <2>4. Overtaken = 0 /\ Overtaken' = 0 BY <2>1 DEF Overtaken
  <2>5. kills \in Nat /\ resets \in Nat /\ kills' \in Nat /\ resets' \in Nat
        /\ kills + resets <= kills' + resets'
    BY <1>1, <1>2 DEF TypeOK
  <2>6. Cardinality(Abandoned) + 0 <= kills + resets BY <2>4 DEF BacklogInv, CountInv
  <2>7. Cardinality(Abandoned) + 0 <= kills' + resets'
    BY <2>5, <2>6, AbandonedFinite, CountGrows
  <2>. QED BY <2>3, <2>4, <2>7 DEF CountInv
<1>. QED BY <1>1, <1>8, <1>9, <1>11, <1>12, <1>13, <1>14, <1>15, PausedKeeps DEF BacklogInv

LEMMA StartsKeep == \A u \in UnitIds : BacklogInv /\ (Schedule(u) \/ Dispatch(u)) => BacklogInv'
<1>. SUFFICES ASSUME NEW u \in UnitIds, BacklogInv, Schedule(u) \/ Dispatch(u)
              PROVE  BacklogInv'
  OBVIOUS
<1>1. CASE Schedule(u)
  <2>1. Select(u, FALSE) /\ resets' = resets BY <1>1 DEF Schedule
  <2>. QED BY <2>1, SelectKeeps
<1>2. CASE Dispatch(u)
  <2>1. Select(u, TRUE) /\ resets' = resets + 1 BY <1>2 DEF Dispatch, Incident
  <2>. QED BY <2>1, SelectKeeps
<1>. QED BY <1>1, <1>2

(* The manifest of a paused unit's artifact, or none.                          *)
LEMMA RestoredTyped ==
    ASSUME TypeOK, NEW b \in Branches, NEW u \in UnitIds, NEW c, NEW downloaded
    PROVE  /\ Restored(u, b, downloaded) \in Manifests
           /\ Prepared(Restored(u, b, downloaded), c) \in Manifests
<1>1. NoManifest \in Manifests BY DEF NoManifest, Manifests, RootStatus
<1>2. b.units[u].run \in {0} \cup JobIds BY DEF Branches, UnitRecords
<1>3. Restored(u, b, downloaded) \in Manifests BY <1>1, <1>2 DEF Restored, TypeOK
<1>. QED BY <1>1, <1>3 DEF Prepared

(* The job marks its unit in its own copy.                                     *)
LEMMA PrepareKeeps == \A downloaded \in BOOLEAN : BacklogInv /\ Prepare(downloaded) => BacklogInv'
<1>. SUFFICES ASSUME NEW downloaded \in BOOLEAN, BacklogInv, Prepare(downloaded)
              PROVE  BacklogInv'
  OBVIOUS
<1>. DEFINE left == Prepared(Restored(job.unit, job.work, downloaded), job.code)
            work == MarkStarted(job.work, job.unit, job.code, job.id, Cardinality(done'))
<1>1. /\ pc = "selected" /\ pc' = "marked" /\ SetRoot(left)
      /\ job' = [job EXCEPT !.work = work] /\ expiries' \in {expiries, expiries + 1}
      /\ head' = head /\ branch' = branch /\ artifacts' = artifacts /\ jobs' = jobs
      /\ kills' = kills /\ resets' = resets /\ breaks' = breaks
  BY DEF Prepare, Incident
<1>2. TypeOK /\ RunInv /\ VersionInv /\ WorkInv /\ SelectionInv BY DEF BacklogInv
<1>3. /\ job.id = jobs /\ jobs \in JobIds /\ job.unit \in UnitIds /\ job.code \in Codes
      /\ job.work \in Branches
  BY <1>1, <1>2 DEF RunInv, VersionInv, TypeOK, JobRecords
<1>4. left \in Manifests BY <1>2, <1>3, RestoredTyped
<1>. HIDE DEF left
<1>5. RootManifest' \in Manifests /\ done' \in SUBSET Dates
  BY <1>1, <1>4 DEF SetRoot, RootManifest, Manifests
<1>6. /\ work \in Branches /\ work.version = job.work.version
      /\ work.results = job.work.results
      /\ work.units[job.unit] = [status |-> "IN_PROGRESS", version |-> job.work.version,
             code |-> job.code, run |-> job.id, days |-> Cardinality(done')]
      /\ \A v \in UnitIds \ {job.unit} : work.units[v] = job.work.units[v]
  <2>1. Cardinality(done') \in 0..Cardinality(Dates) BY <1>5, DaysCounted
  <2>. QED BY <1>3, <2>1, StartedFacts
<1>. HIDE DEF work
<1>7. /\ job'.id = job.id /\ job'.code = job.code /\ job'.unit = job.unit
      /\ job'.dispatched = job.dispatched /\ job'.work = work
      /\ job'.overtaken = job.overtaken /\ job' \in JobRecords
  BY <1>1, <1>2, <1>6 DEF TypeOK, JobRecords
<1>8. TypeOK' BY <1>1, <1>2, <1>5, <1>7 DEF TypeOK
<1>9. RunInv' BY <1>1, <1>2, <1>7 DEF RunInv
<1>10. VersionInv'
  <2>1. work.version \in Nat BY <1>6 DEF Branches
  <2>2. work.units[job.unit].version = work.version BY <1>6
  <2>3. \A v \in UnitIds : work.units[v].version <= work.version
    BY <1>1, <1>2, <1>6, <2>1, <2>2 DEF VersionInv
  <2>. QED BY <1>1, <1>2, <1>6, <1>7, <2>3 DEF VersionInv
<1>11. WorkInv'
  <2>1. ~Pushed' BY <1>1 DEF Pushed
  <2>2. jobs <= jobs BY <1>3 DEF JobIds
  <2>3. /\ work.units[job.unit].status = "IN_PROGRESS" /\ work.units[job.unit].run = jobs
        /\ work.units[job.unit].version = work.version
        /\ work.units[job.unit].code = job.code
    BY <1>3, <1>6
  <2>. QED BY <1>1, <1>2, <1>6, <1>7, <2>1, <2>2, <2>3 DEF WorkInv
<1>12. RootInv' BY <1>1 DEF RootInv
<1>13. SelectionInv' BY <1>1, <1>2, <1>6, <1>7 DEF SelectionInv
<1>14. CountInv'
  <2>1. Abandoned' = Abandoned /\ Overtaken' = Overtaken BY <1>1, <1>7 DEF Abandoned, Overtaken
  <2>. QED BY <1>1, <2>1 DEF BacklogInv, CountInv
<1>. QED BY <1>1, <1>8, <1>9, <1>10, <1>11, <1>12, <1>13, <1>14, PausedKeeps DEF BacklogInv

(* The step that should start the unit fails: nothing has been pushed.         *)
LEMMA PrepareFailsKeeps ==
    \A downloaded \in BOOLEAN : BacklogInv /\ PrepareFails(downloaded) => BacklogInv'
<1>. SUFFICES ASSUME NEW downloaded \in BOOLEAN, BacklogInv, PrepareFails(downloaded)
              PROVE  BacklogInv'
  OBVIOUS
<1>. DEFINE left == Restored(job.unit, job.work, downloaded)
<1>1. /\ pc = "selected" /\ pc' = "finalize" /\ SetRoot(left)
      /\ job' = [job EXCEPT !.failed = TRUE] /\ breaks' = breaks + 1
      /\ head' = head /\ branch' = branch /\ artifacts' = artifacts /\ jobs' = jobs
      /\ kills' = kills /\ resets' = resets /\ expiries' = expiries
  BY DEF PrepareFails, Incident
<1>2. TypeOK /\ job.unit \in UnitIds /\ job.work \in Branches
  BY <1>1 DEF BacklogInv, RunInv, TypeOK, JobRecords
<1>3. left \in Manifests BY <1>2, RestoredTyped
<1>. HIDE DEF left
<1>4. RootManifest' \in Manifests BY <1>1, <1>3 DEF SetRoot, RootManifest, Manifests
<1>5. /\ job'.id = job.id /\ job'.code = job.code /\ job'.unit = job.unit
      /\ job'.dispatched = job.dispatched /\ job'.work = job.work
      /\ job'.overtaken = job.overtaken /\ job'.failed = TRUE /\ job' \in JobRecords
  BY <1>1, <1>2 DEF TypeOK, JobRecords
<1>6. TypeOK' BY <1>1, <1>2, <1>4, <1>5 DEF TypeOK
<1>7. RootInv' BY <1>1, <1>5 DEF RootInv
<1>8. Aside BY <1>1, <1>5 DEF Aside, Pushed
<1>9. ArtifactsRest BY <1>1 DEF ArtifactsRest
<1>. QED BY <1>6, <1>7, <1>8, <1>9, AsideStep

LEMMA PushFailsKeeps == BacklogInv /\ PushFails => BacklogInv'
<1>. SUFFICES ASSUME BacklogInv, PushFails PROVE BacklogInv'
  OBVIOUS
<1>1. /\ pc = "marked" /\ pc' = "finalize"
      /\ job' = [job EXCEPT !.failed = TRUE] /\ breaks' = breaks + 1
      /\ status' = status /\ code' = code /\ done' = done /\ failed' = failed
      /\ head' = head /\ branch' = branch /\ artifacts' = artifacts /\ jobs' = jobs
      /\ kills' = kills /\ resets' = resets /\ expiries' = expiries
  BY DEF PushFails, Incident, root
<1>2. TypeOK BY DEF BacklogInv
<1>3. RootManifest' = RootManifest BY <1>1 DEF RootManifest
<1>4. /\ job'.id = job.id /\ job'.code = job.code /\ job'.unit = job.unit
      /\ job'.dispatched = job.dispatched /\ job'.work = job.work
      /\ job'.overtaken = job.overtaken /\ job'.failed = TRUE /\ job' \in JobRecords
  BY <1>1, <1>2 DEF TypeOK, JobRecords
<1>5. TypeOK' BY <1>1, <1>2, <1>3, <1>4 DEF TypeOK
<1>6. RootInv' BY <1>1, <1>4 DEF RootInv
<1>7. Aside BY <1>1, <1>4 DEF Aside, Pushed
<1>8. ArtifactsRest BY <1>1 DEF ArtifactsRest
<1>. QED BY <1>5, <1>6, <1>7, <1>8, AsideStep

-----------------------------------------------------------------------------
(* How the number of abandoned units changes.                                  *)
LEMMA Fewer ==
    ASSUME NEW S \in SUBSET UnitIds, NEW T \in SUBSET S
    PROVE  /\ Cardinality(S) \in Nat /\ Cardinality(T) \in Nat
           /\ Cardinality(T) <= Cardinality(S)
<1>1. IsFiniteSet(S) BY UnitsFinite, FS_Subset
<1>2. IsFiniteSet(T) /\ Cardinality(T) <= Cardinality(S) BY <1>1, FS_Subset
<1>. QED BY <1>1, <1>2, FS_CardinalityType

LEMMA OneMore ==
    ASSUME NEW S \in SUBSET UnitIds, NEW T, NEW u, T \subseteq S \cup {u}
    PROVE  /\ Cardinality(S) \in Nat /\ Cardinality(T) \in Nat
           /\ Cardinality(T) <= Cardinality(S) + 1
<1>1. IsFiniteSet(S) BY UnitsFinite, FS_Subset
<1>2. IsFiniteSet(S \cup {u}) /\ Cardinality(S \cup {u}) \in {Cardinality(S), Cardinality(S) + 1}
  BY <1>1, FS_AddElement
<1>3. T \in SUBSET (S \cup {u}) OBVIOUS
<1>4. IsFiniteSet(T) /\ Cardinality(T) <= Cardinality(S \cup {u}) BY <1>2, <1>3, FS_Subset
<1>5. Cardinality(S) \in Nat /\ Cardinality(T) \in Nat /\ Cardinality(S \cup {u}) \in Nat
  BY <1>1, <1>2, <1>4, FS_CardinalityType
<1>. QED BY <1>2, <1>4, <1>5

LEMMA CountTypes ==
    ASSUME BacklogInv
    PROVE  /\ kills \in Nat /\ resets \in Nat
           /\ Cardinality(Abandoned) \in Nat /\ Overtaken \in {0, 1}
           /\ Cardinality(Abandoned) + Overtaken <= kills + resets
           /\ Abandoned \in SUBSET UnitIds
<1>1. Abandoned \in SUBSET UnitIds BY DEF Abandoned
<1>. QED BY <1>1, AbandonedFinite DEF BacklogInv, TypeOK, CountInv, Overtaken

(* The job publishes that it has started, unless somebody else has pushed.     *)
LEMMA PushStartedKeeps == BacklogInv /\ PushStarted => BacklogInv'
<1>. SUFFICES ASSUME BacklogInv, PushStarted PROVE BacklogInv'
  OBVIOUS
<1>1. /\ pc = "marked" /\ pc' = IF job.overtaken THEN "finalize" ELSE "pushed"
      /\ branch' = IF job.overtaken THEN branch ELSE job.work
      /\ job' = [job EXCEPT !.failed = job.overtaken]
      /\ head' = head /\ artifacts' = artifacts /\ status' = status /\ code' = code
      /\ done' = done /\ failed' = failed /\ jobs' = jobs /\ kills' = kills
      /\ resets' = resets /\ expiries' = expiries /\ breaks' = breaks
  BY DEF PushStarted, Push, root, bounds
<1>2. TypeOK /\ RunInv /\ VersionInv /\ WorkInv BY DEF BacklogInv
<1>3. /\ job.id = jobs /\ jobs \in JobIds /\ job.unit \in UnitIds
      /\ job.work \in Branches /\ branch \in Branches
  BY <1>1, <1>2 DEF RunInv, TypeOK, JobRecords
<1>4. /\ job'.id = job.id /\ job'.code = job.code /\ job'.unit = job.unit
      /\ job'.dispatched = job.dispatched /\ job'.work = job.work
      /\ job'.overtaken = job.overtaken /\ job'.failed = job.overtaken
  BY <1>1, <1>2 DEF TypeOK, JobRecords
<1>5. TypeOK'
  <2>1. job' \in JobRecords BY <1>1, <1>2 DEF TypeOK, JobRecords
  <2>2. branch' \in Branches /\ pc' \in {"finalize", "pushed"} BY <1>1, <1>3
  <2>3. RootManifest' = RootManifest BY <1>1 DEF RootManifest
  <2>. QED BY <1>1, <1>2, <2>1, <2>2, <2>3 DEF TypeOK
<1>6. RootInv' BY <1>1, <1>4 DEF RootInv
<1>7. SelectionInv'
  <2>1. job.overtaken \/ branch'.units[job.unit].status = "IN_PROGRESS"
    BY <1>1, <1>2 DEF WorkInv, Marked
  <2>. QED BY <1>4, <2>1 DEF SelectionInv
<1>8. CASE job.overtaken
  <2>1. pc' = "finalize" /\ branch' = branch BY <1>1, <1>8
  <2>2. RunInv' BY <1>1, <1>2, <1>4, <2>1 DEF RunInv
  <2>3. VersionInv' BY <1>1, <1>2, <1>4, <2>1 DEF VersionInv
  <2>8. ~Marked' /\ ~Pushed' BY <1>4, <1>8, <2>1 DEF Marked, Pushed
  <2>4. WorkInv' BY <1>1, <1>2, <1>4, <1>8, <2>1, <2>8 DEF WorkInv
  <2>5. Abandoned' = Abandoned BY <1>4, <2>1 DEF Abandoned
  <2>6. Overtaken' = Overtaken BY <1>4 DEF Overtaken
  <2>7. CountInv' BY <1>1, <2>5, <2>6 DEF BacklogInv, CountInv
  <2>. QED BY <1>1, <1>5, <1>6, <1>7, <2>1, <2>2, <2>3, <2>4, <2>7, PausedKeeps DEF BacklogInv
<1>9. CASE ~job.overtaken
  <2>1. pc' = "pushed" /\ branch' = job.work BY <1>1, <1>9
  <2>10. job.work.version <= job.work.version BY <1>3 DEF Branches
  <2>2. /\ \A v \in UnitIds \ {job.unit} : job.work.units[v] = branch.units[v]
        /\ job.work.results = branch.results
        /\ job.work.units[job.unit].status = "IN_PROGRESS"
        /\ job.work.units[job.unit].run = jobs
        /\ branch'.version <= job.work.version
    BY <1>1, <1>2, <1>9, <2>1, <2>10 DEF WorkInv, Marked
  <2>3. jobs \in Nat /\ jobs # 0 BY <1>3 DEF JobIds
  <2>4. RunInv'
    <3>1. ASSUME NEW v \in UnitIds
          PROVE  /\ branch'.units[v].run <= jobs
                 /\ branch'.units[v].status \in {"IN_PROGRESS", "PAUSED"} => branch'.units[v].run # 0
                 /\ branch'.units[v].run = jobs =>
                        v = job.unit /\ branch'.units[v].status \in {"IN_PROGRESS", "PENDING"}
      <4>1. CASE v = job.unit BY <2>1, <2>2, <2>3, <4>1
      <4>2. CASE v # job.unit BY <1>1, <1>2, <2>1, <2>2, <4>2 DEF RunInv
      <4>. QED BY <4>1, <4>2
    <3>. QED BY <1>1, <1>3, <1>4, <2>1, <3>1 DEF RunInv
  <2>5. VersionInv' BY <1>1, <1>2, <1>4, <2>1 DEF VersionInv
  <2>6. WorkInv' BY <1>1, <1>2, <1>4, <1>9, <2>1, <2>2 DEF WorkInv, Marked
  <2>7. CountInv'
    <3>1. Abandoned' \in SUBSET Abandoned
      BY <1>3, <1>4, <2>1, <2>2 DEF Abandoned
    <3>2. Overtaken' = Overtaken BY <1>4 DEF Overtaken
    <3>3. Cardinality(Abandoned') \in Nat /\ Cardinality(Abandoned') <= Cardinality(Abandoned)
      BY <3>1, CountTypes, Fewer
    <3>4. Cardinality(Abandoned') + Overtaken <= kills + resets BY <3>3, CountTypes
    <3>. QED BY <1>1, <3>2, <3>4 DEF CountInv
  <2>8. CompleteUnitIsPublished'
    BY <1>1, <2>1, <2>2 DEF BacklogInv, CompleteUnitIsPublished
  <2>9. PausedUnitIsRecoverable'
    <3>. SUFFICES ASSUME NEW v \in UnitIds, branch'.units[v].status = "PAUSED"
                  PROVE  /\ branch'.units[v] = branch.units[v] /\ branch'.results[v] = branch.results[v]
                         /\ artifacts' = artifacts
      BY DEF BacklogInv, PausedUnitIsRecoverable
    <3>1. v # job.unit BY <2>1, <2>2
    <3>. QED BY <1>1, <2>1, <2>2, <3>1
  <2>. QED BY <1>5, <1>6, <1>7, <2>4, <2>5, <2>6, <2>7, <2>8, <2>9 DEF BacklogInv
<1>. QED BY <1>8, <1>9

LEMMA IdleJobTyped == SeededBranch \in Branches /\ IdleJob \in JobRecords
<1>1. 1 \in DOMAIN Commits
  <2>1. Len(Commits) \in Nat /\ Len(Commits) > 0 /\ DOMAIN Commits = 1..Len(Commits)
    BY VersionAssumption
  <2>. QED BY <2>1
<1>2. Version[Commits[1]] \in Nat BY <1>1, VersionsGrow
<1>3. 0 \in 0..Cardinality(Dates)
  <2>1. Cardinality({}) = 0 BY FS_EmptySet
  <2>2. Cardinality({}) \in 0..Cardinality(Dates) BY DaysCounted
  <2>. QED BY <2>1, <2>2
<1>4. NewUnit \in UnitRecords BY <1>3 DEF NewUnit, UnitRecords, UnitStatus
<1>5. NoManifest \in Manifests BY DEF NoManifest, Manifests, RootStatus
<1>6. SeededBranch \in Branches BY <1>2, <1>4, <1>5 DEF SeededBranch, Branches
<1>. QED BY <1>6 DEF IdleJob, JobRecords

(* What is left of the invariant when a job ends without having pushed.        *)
LEMMA DropKeeps ==
    ASSUME BacklogInv, pc # "idle", EndJob, branch' = branch, artifacts' = artifacts, head' = head,
           jobs' = jobs, kills' \in Nat, resets' = resets, expiries' = expiries, breaks' = breaks,
           kills + resets + 1 <= kills' + resets' + Overtaken
    PROVE  BacklogInv'
<1>1. /\ pc' = "idle" /\ job' = IdleJob /\ job'.id = 0 /\ job'.overtaken = FALSE
      /\ status' = "NONE" /\ code' = "NONE" /\ done' = {} /\ failed' = {}
  BY DEF EndJob, SetRoot, NoManifest, IdleJob
<1>2. TypeOK /\ RunInv /\ VersionInv BY DEF BacklogInv
<1>3. TypeOK'
  <2>1. RootManifest' \in Manifests BY <1>1 DEF RootManifest, Manifests, RootStatus
  <2>2. IdleJob \in JobRecords BY IdleJobTyped
  <2>. QED BY <1>1, <1>2, <2>1, <2>2 DEF TypeOK
<1>4. RunInv' BY <1>1, <1>2 DEF RunInv
<1>5. VersionInv' BY <1>1, <1>2 DEF VersionInv
<1>6. WorkInv' /\ RootInv' /\ SelectionInv' BY <1>1 DEF WorkInv, RootInv, SelectionInv
<1>7. CountInv'
  <2>1. Abandoned' \subseteq Abandoned \cup {job.unit}
    BY <1>1, <1>2 DEF Abandoned, RunInv
  <2>2. Overtaken' = 0 BY <1>1 DEF Overtaken
  <2>3. Cardinality(Abandoned') \in Nat /\ Cardinality(Abandoned') <= Cardinality(Abandoned) + 1
    BY <2>1, CountTypes, OneMore
  <2>4. Cardinality(Abandoned') <= kills' + resets' BY <2>3, CountTypes
  <2>5. Cardinality(Abandoned') + 0 <= kills' + resets' BY <2>3, <2>4
  <2>. QED BY <2>2, <2>5 DEF CountInv
<1>. QED BY <1>3, <1>4, <1>5, <1>6, <1>7, PausedKeeps DEF BacklogInv

(* The runner is lost.                                                         *)
LEMMA KillKeeps == BacklogInv /\ Kill => BacklogInv'
<1>. SUFFICES ASSUME BacklogInv, Kill PROVE BacklogInv'
  OBVIOUS
<1>1. /\ pc # "idle" /\ EndJob /\ branch' = branch /\ artifacts' = artifacts /\ head' = head
      /\ jobs' = jobs /\ kills' = kills + 1 /\ resets' = resets /\ expiries' = expiries
      /\ breaks' = breaks
  BY DEF Kill, Incident
<1>2. kills' \in Nat /\ kills + resets + 1 <= kills' + resets' + Overtaken BY <1>1, CountTypes
<1>. QED BY <1>1, <1>2, DropKeeps

(* finish() and the last push: what is shown COMPLETE or PAUSED is what the    *)
(* output root says and what was uploaded.                                     *)
LEMMA FinalizeKeeps == BacklogInv /\ Finalize => BacklogInv'
<1>. SUFFICES ASSUME BacklogInv, Finalize PROVE BacklogInv'
  OBVIOUS
<1>1. /\ pc = "finalize" /\ EndJob /\ artifacts' = artifacts /\ head' = head
      /\ branch' = IF job.overtaken THEN branch ELSE Ended
      /\ jobs' = jobs /\ kills' = kills /\ resets' = resets /\ expiries' = expiries
      /\ breaks' = breaks
  BY DEF Finalize, Push, Ended, bounds
<1>2. CASE job.overtaken
  <2>1. Overtaken = 1 BY <1>2 DEF Overtaken
  <2>2. kills' \in Nat /\ kills + resets + 1 <= kills' + resets' + Overtaken
    BY <1>1, <2>1, CountTypes
  <2>. QED BY <1>1, <1>2, <2>2, DropKeeps
<1>3. CASE ~job.overtaken
  <2>. DEFINE w == job.unit
  <2>1. TypeOK /\ RunInv /\ VersionInv /\ WorkInv /\ RootInv BY DEF BacklogInv
  <2>14. /\ w \in UnitIds /\ jobs \in JobIds /\ jobs # 0 /\ job.work \in Branches
         /\ job.work.units[w] \in UnitRecords /\ job.work.units[w].run <= jobs
         /\ job.code \in Codes /\ job.work.version = Version[job.code]
         /\ \A v \in UnitIds \ {w} : job.work.units[v] = branch.units[v]
         /\ job.work.results = branch.results
    BY <1>1, <1>3, <2>1 DEF RunInv, WorkInv, VersionInv, TypeOK, JobRecords, Branches, JobIds
  <2>2. ~job.failed =>
            /\ job.work = branch /\ branch.units[w].run = jobs
            /\ branch.units[w].version = branch.version /\ branch.units[w].code = job.code
            /\ branch.version \in Nat \ {0}
    <3>1. Version[job.code] \in Nat \ {0} BY <2>14, VersionAssumption
    <3>. QED BY <1>1, <1>3, <2>1, <2>14, <3>1 DEF WorkInv, Marked, Pushed
  <2>3. /\ Ended \in Branches /\ Ended.version = job.work.version
        /\ Ended.units[w] = [job.work.units[w] EXCEPT
               !.status = EndStatus(job.failed), !.days = Cardinality(done),
               !.version = IF job.work.units[w].version = 0
                           THEN job.work.version ELSE job.work.units[w].version]
        /\ Ended.results[w] = RootManifest
        /\ \A v \in UnitIds \ {w} : Ended.units[v] = branch.units[v]
                                   /\ Ended.results[v] = branch.results[v]
    BY <1>1, <2>1, <2>14, EndedFacts
  <2>4. /\ Ended.units[w].status = EndStatus(job.failed)
        /\ Ended.units[w].run = job.work.units[w].run
        /\ Ended.units[w].code = job.work.units[w].code
        /\ Ended.units[w].version \in {job.work.version, job.work.units[w].version}
        /\ Ended.units[w].days = Cardinality(done)
    BY <2>14, <2>3 DEF UnitRecords
  <2>15. job.failed => EndStatus(job.failed) = "FAILED" BY DEF EndStatus
  <2>5. EndStatus(job.failed) \in {"COMPLETE", "PAUSED", "FAILED"} BY DEF EndStatus
  <2>6. /\ pc' = "idle" /\ job' = IdleJob /\ job'.id = 0 /\ job'.overtaken = FALSE
        /\ branch' = Ended
        /\ status' = "NONE" /\ code' = "NONE" /\ done' = {} /\ failed' = {}
    BY <1>1, <1>3 DEF EndJob, SetRoot, NoManifest, IdleJob
  <2>7. TypeOK'
    <3>1. RootManifest' \in Manifests BY <2>6 DEF RootManifest, Manifests, RootStatus
    <3>2. IdleJob \in JobRecords BY IdleJobTyped
    <3>. QED BY <1>1, <2>1, <2>3, <2>6, <3>1, <3>2 DEF TypeOK
  <2>8. RunInv'
    <3>1. ASSUME NEW v \in UnitIds
          PROVE  /\ Ended.units[v].run <= jobs
                 /\ Ended.units[v].status \in {"IN_PROGRESS", "PAUSED"} => Ended.units[v].run # 0
      <4>1. CASE v = w
        <5>1. Ended.units[v].run <= jobs BY <2>4, <2>14, <4>1
        <5>2. CASE job.failed BY <2>4, <2>15, <4>1, <5>1, <5>2
        <5>3. CASE ~job.failed BY <2>2, <2>4, <2>14, <4>1, <5>1, <5>3
        <5>. QED BY <5>2, <5>3
      <4>2. CASE v # w BY <2>1, <2>3, <4>2 DEF RunInv
      <4>. QED BY <4>1, <4>2
    <3>. QED BY <1>1, <2>6, <3>1 DEF RunInv
  <2>9. VersionInv'
    <3>1. job.work.version \in Nat BY <2>14 DEF Branches
    <3>2. ASSUME NEW v \in UnitIds PROVE Ended.units[v].version <= Ended.version
      <4>1. job.work.units[v].version <= job.work.version BY <1>1, <2>1 DEF VersionInv
      <4>2. CASE v = w
        <5>1. CASE Ended.units[v].version = job.work.version BY <2>3, <3>1, <5>1
        <5>2. CASE Ended.units[v].version = job.work.units[v].version BY <2>3, <4>1, <5>2
        <5>. QED BY <2>4, <4>2, <5>1, <5>2
      <4>3. CASE v # w BY <2>3, <2>14, <4>1, <4>3
      <4>. QED BY <4>2, <4>3
    <3>. QED BY <1>1, <2>1, <2>3, <2>6, <3>2 DEF VersionInv
  <2>10. WorkInv' /\ RootInv' /\ SelectionInv' BY <2>6 DEF WorkInv, RootInv, SelectionInv
  <2>11. CountInv'
    <3>1. ASSUME NEW v \in UnitIds, Ended.units[v].status = "IN_PROGRESS"
          PROVE  v \in Abandoned
      <4>1. v # w BY <2>4, <2>5, <3>1
      <4>2. branch.units[v].status = "IN_PROGRESS" /\ branch.units[v].run # jobs
        BY <1>1, <2>1, <2>3, <3>1, <4>1 DEF RunInv
      <4>. QED BY <1>1, <2>1, <4>2 DEF Abandoned, RunInv
    <3>2. Abandoned' \in SUBSET Abandoned BY <2>6, <3>1 DEF Abandoned
    <3>3. Overtaken' = 0 BY <2>6 DEF Overtaken
    <3>4. Cardinality(Abandoned') \in Nat /\ Cardinality(Abandoned') <= Cardinality(Abandoned)
      BY <3>2, CountTypes, Fewer
    <3>5. Cardinality(Abandoned') + 0 <= kills + resets BY <3>4, CountTypes
    <3>. QED BY <1>1, <3>3, <3>5 DEF CountInv
  <2>12. CompleteUnitIsPublished'
    <3>. SUFFICES ASSUME NEW v \in UnitIds, Ended.units[v].status = "COMPLETE"
                  PROVE  /\ Ended.results[v] = [status |-> "COMPLETE", code |-> Ended.units[v].code,
                                                done |-> Dates, failed |-> {}]
                         /\ Version[Ended.units[v].code] = Ended.units[v].version
                         /\ Ended.units[v].days = Cardinality(Dates)
      BY <2>6 DEF CompleteUnitIsPublished
    <3>1. CASE v = w
      <4>1. EndStatus(job.failed) = "COMPLETE" BY <2>4, <3>1
      <4>2. ~job.failed /\ failed = {} /\ status = "COMPLETE" BY <4>1 DEF EndStatus
      <4>3. done = Dates /\ code = job.code BY <1>1, <2>1, <4>2 DEF RootInv
      <4>4. /\ Ended.units[w].code = job.code /\ Ended.units[w].version = Version[job.code]
        BY <2>2, <2>4, <2>14, <4>2
      <4>. QED BY <2>3, <2>4, <3>1, <4>2, <4>3, <4>4 DEF RootManifest
    <3>2. CASE v # w BY <2>3, <3>2 DEF BacklogInv, CompleteUnitIsPublished
    <3>. QED BY <3>1, <3>2
  <2>13. PausedUnitIsRecoverable'
    <3>. DEFINE Good(unit, r, result) ==
                    artifacts[unit.run] # Expired =>
                        /\ artifacts[unit.run].unit = r
                        /\ artifacts[unit.run].manifest = result
                        /\ artifacts[unit.run].manifest.status = "PAUSED_WALL_BUDGET"
                        /\ artifacts[unit.run].manifest.code = unit.code
                        /\ artifacts[unit.run].manifest.failed = {}
                        /\ Cardinality(artifacts[unit.run].manifest.done) = unit.days
    <3>. SUFFICES ASSUME NEW v \in UnitIds, Ended.units[v].status = "PAUSED"
                  PROVE  Good(Ended.units[v], v, Ended.results[v])
      BY <1>1, <2>6 DEF PausedUnitIsRecoverable
    <3>1. CASE v = w
      <4>1. EndStatus(job.failed) = "PAUSED" BY <2>4, <3>1
      <4>2. ~job.failed /\ failed = {} /\ status = "PAUSED_WALL_BUDGET" BY <4>1 DEF EndStatus
      <4>3. /\ code = job.code
            /\ artifacts[jobs] \in {Expired, [unit |-> w, manifest |-> RootManifest]}
        BY <1>1, <2>1, <4>2 DEF RootInv
      <4>4. artifacts[Ended.units[w].run] = artifacts[jobs] /\ Ended.units[w].code = job.code
        BY <2>2, <2>4, <4>2
      <4>5. CASE artifacts[jobs] = Expired BY <3>1, <4>4, <4>5
      <4>6. CASE artifacts[jobs] = [unit |-> w, manifest |-> RootManifest]
        <5>1. /\ artifacts[jobs].unit = w /\ artifacts[jobs].manifest = RootManifest
              /\ RootManifest.status = "PAUSED_WALL_BUDGET" /\ RootManifest.code = job.code
              /\ RootManifest.failed = {} /\ RootManifest.done = done
          BY <4>2, <4>3, <4>6 DEF RootManifest
        <5>. QED BY <2>3, <2>4, <3>1, <4>4, <5>1
      <4>. QED BY <4>3, <4>5, <4>6
    <3>2. CASE v # w BY <2>3, <3>2 DEF BacklogInv, PausedUnitIsRecoverable
    <3>. QED BY <3>1, <3>2
  <2>. QED BY <2>7, <2>8, <2>9, <2>10, <2>11, <2>12, <2>13 DEF BacklogInv
<1>. QED BY <1>2, <1>3

(* An operator's push makes that of the running job fail.                      *)
LEMMA ResetKeeps == \A u \in UnitIds : BacklogInv /\ Reset(u) => BacklogInv'
<1>. SUFFICES ASSUME NEW u \in UnitIds, BacklogInv, Reset(u) PROVE BacklogInv'
  OBVIOUS
<1>1. /\ branch' = [branch EXCEPT !.units[u].status = "PENDING"]
      /\ job' = [job EXCEPT !.overtaken = (pc # "idle")]
      /\ resets' = resets + 1 /\ head' = head /\ artifacts' = artifacts /\ pc' = pc
      /\ status' = status /\ code' = code /\ done' = done /\ failed' = failed
      /\ jobs' = jobs /\ kills' = kills /\ expiries' = expiries /\ breaks' = breaks
  BY DEF Reset, Incident, root
<1>2. TypeOK /\ RunInv /\ VersionInv /\ WorkInv /\ RootInv BY DEF BacklogInv
<1>3. /\ branch' \in Branches /\ branch'.version = branch.version /\ branch'.results = branch.results
      /\ branch'.units[u] = [branch.units[u] EXCEPT !.status = "PENDING"]
      /\ branch.units[u] \in UnitRecords
      /\ \A v \in UnitIds \ {u} : branch'.units[v] = branch.units[v]
  <2>. DEFINE r == [branch.units[u] EXCEPT !.status = "PENDING"]
  <2>1. branch \in Branches /\ branch.units[u] \in UnitRecords BY <1>2 DEF TypeOK, Branches
  <2>2. r \in UnitRecords BY <2>1 DEF UnitRecords, UnitStatus
  <2>3. branch' = [branch EXCEPT !.units = [branch.units EXCEPT ![u] = r]]
    BY <1>1, <2>1 DEF Branches, UnitRecords
  <2>. HIDE DEF r
  <2>4. [branch.units EXCEPT ![u] = r] \in [UnitIds -> UnitRecords] BY <2>1, <2>2 DEF Branches
  <2>5. /\ branch'.units = [branch.units EXCEPT ![u] = r] /\ branch' \in Branches
        /\ branch'.version = branch.version /\ branch'.results = branch.results
    BY <2>1, <2>3, <2>4 DEF Branches
  <2>6. /\ branch'.units[u] = r
        /\ \A v \in UnitIds \ {u} : branch'.units[v] = branch.units[v]
    BY <2>1, <2>5 DEF Branches
  <2>. QED BY <2>1, <2>5, <2>6 DEF r
<1>4. \A v \in UnitIds : /\ branch'.units[v].run = branch.units[v].run
                         /\ branch'.units[v].version = branch.units[v].version
                         /\ branch'.units[v].status \in {branch.units[v].status, "PENDING"}
                         /\ branch'.units[v].status # "PENDING" => branch'.units[v] = branch.units[v]
  BY <1>3 DEF UnitRecords
<1>5. /\ job'.id = job.id /\ job'.code = job.code /\ job'.unit = job.unit
      /\ job'.work = job.work /\ job'.failed = job.failed /\ job'.overtaken = (pc # "idle")
      /\ job' \in JobRecords
  <2>1. CASE pc = "idle"
    <3>1. job' = [job EXCEPT !.overtaken = FALSE] BY <1>1, <2>1
    <3>. QED BY <1>2, <2>1, <3>1 DEF TypeOK, JobRecords
  <2>2. CASE pc # "idle"
    <3>1. job' = [job EXCEPT !.overtaken = TRUE] BY <1>1, <2>2
    <3>. QED BY <1>2, <2>2, <3>1 DEF TypeOK, JobRecords
  <2>. QED BY <2>1, <2>2
<1>6. ASSUME pc = "idle" PROVE job' = IdleJob
  <2>1. job' = [job EXCEPT !.overtaken = FALSE] /\ job = IdleJob BY <1>1, <1>2, <1>6 DEF RunInv
  <2>. QED BY <2>1 DEF IdleJob
<1>7. TypeOK'
  <2>1. RootManifest' = RootManifest BY <1>1 DEF RootManifest
  <2>. QED BY <1>1, <1>2, <1>3, <1>5, <2>1 DEF TypeOK
<1>8. RunInv' BY <1>1, <1>2, <1>4, <1>5, <1>6 DEF RunInv
<1>9. VersionInv' BY <1>1, <1>2, <1>3, <1>4, <1>5 DEF VersionInv
<1>10. WorkInv' BY <1>1, <1>2, <1>5 DEF WorkInv, Marked, Pushed
<1>11. RootInv'
  <2>1. RootManifest' = RootManifest BY <1>1 DEF RootManifest
  <2>. QED BY <1>1, <1>2, <1>5, <2>1 DEF RootInv
<1>12. SelectionInv' BY <1>1, <1>5 DEF SelectionInv
<1>13. CountInv'
  <2>1. Abandoned' \in SUBSET Abandoned BY <1>4, <1>5 DEF Abandoned
  <2>2. Overtaken' \in {0, 1} BY DEF Overtaken
  <2>3. Cardinality(Abandoned') \in Nat /\ Cardinality(Abandoned') <= Cardinality(Abandoned)
    BY <2>1, CountTypes, Fewer
  <2>4. CASE Overtaken' = 0
    <3>1. Cardinality(Abandoned') + 0 <= kills + (resets + 1) BY <2>3, CountTypes
    <3>. QED BY <1>1, <2>4, <3>1 DEF CountInv
  <2>5. CASE Overtaken' = 1
    <3>1. Cardinality(Abandoned') + 1 <= kills + (resets + 1) BY <2>3, CountTypes
    <3>. QED BY <1>1, <2>5, <3>1 DEF CountInv
  <2>. QED BY <2>2, <2>4, <2>5
<1>14. CompleteUnitIsPublished'
  BY <1>3, <1>4 DEF BacklogInv, CompleteUnitIsPublished
<1>15. PausedUnitIsRecoverable'
  BY <1>1, <1>3, <1>4 DEF BacklogInv, PausedUnitIsRecoverable
<1>. QED BY <1>7, <1>8, <1>9, <1>10, <1>11, <1>12, <1>13, <1>14, <1>15 DEF BacklogInv

-----------------------------------------------------------------------------
(* The initial state and the theorems.                                         *)
LEMMA InitBacklogInv == Init => BacklogInv
<1>. SUFFICES ASSUME Init PROVE BacklogInv
  OBVIOUS
<1>1. SeededBranch \in Branches /\ IdleJob \in JobRecords BY IdleJobTyped
<1>2. /\ head = 1 /\ branch = SeededBranch /\ pc = "idle" /\ job = IdleJob
      /\ artifacts = [j \in JobIds |-> NoArtifact]
      /\ status = "NONE" /\ code = "NONE" /\ done = {} /\ failed = {}
      /\ jobs = 0 /\ kills = 0 /\ resets = 0 /\ expiries = 0 /\ breaks = 0
  BY DEF Init
<1>3. 1 \in DOMAIN Commits /\ Version[Commits[1]] \in Nat
  <2>1. Len(Commits) \in Nat /\ Len(Commits) > 0 /\ DOMAIN Commits = 1..Len(Commits)
    BY VersionAssumption
  <2>2. 1 \in DOMAIN Commits BY <2>1
  <2>. QED BY <2>2, VersionsGrow
<1>4. /\ branch.version = Version[Commits[1]]
      /\ \A u \in UnitIds : branch.units[u] = NewUnit
  BY <1>2 DEF SeededBranch
<1>5. TypeOK
  <2>1. NoArtifact \in [unit: UnitIds \cup {"NONE", "EXPIRED"}, manifest: Manifests]
    BY DEF NoArtifact, NoManifest, Manifests, RootStatus
  <2>2. RootManifest \in Manifests BY <1>2 DEF RootManifest, Manifests, RootStatus
  <2>3. 0 \in 0..MaxJobs BY VersionAssumption
  <2>. QED BY <1>1, <1>2, <1>3, <2>1, <2>2, <2>3 DEF TypeOK
<1>6. RunInv BY <1>2, <1>4 DEF RunInv, NewUnit
<1>7. VersionInv BY <1>2, <1>3, <1>4 DEF VersionInv, NewUnit
<1>8. WorkInv /\ RootInv /\ SelectionInv BY <1>2 DEF WorkInv, RootInv, SelectionInv
<1>9. CountInv
  <2>1. Abandoned = {} BY <1>4 DEF Abandoned, NewUnit
  <2>2. Overtaken = 0 BY <1>2 DEF Overtaken, IdleJob
  <2>. QED BY <1>2, <2>1, <2>2, FS_EmptySet DEF CountInv
<1>10. CompleteUnitIsPublished /\ PausedUnitIsRecoverable
  BY <1>4 DEF CompleteUnitIsPublished, PausedUnitIsRecoverable, NewUnit
<1>. QED BY <1>5, <1>6, <1>7, <1>8, <1>9, <1>10 DEF BacklogInv

LEMMA BacklogIdleKeeps == BacklogInv /\ UNCHANGED vars => BacklogInv'
<1>. SUFFICES ASSUME BacklogInv, UNCHANGED vars PROVE BacklogInv'
  OBVIOUS
<1>1. UNCHANGED <<head, branch, artifacts, pc, job, root, bounds>> BY DEF vars
<1>2. RootManifest' = RootManifest BY <1>1 DEF RootManifest, root
<1>3. TypeOK' BY <1>1, <1>2 DEF BacklogInv, TypeOK, bounds
<1>4. RootInv' BY <1>1, <1>2 DEF BacklogInv, RootInv, root, bounds
<1>5. Aside BY <1>1 DEF Aside, bounds
<1>6. ArtifactsRest BY <1>1 DEF ArtifactsRest
<1>. QED BY <1>3, <1>4, <1>5, <1>6, AsideStep

(* Every step keeps the invariant.                                             *)
LEMMA BacklogStepInv == BacklogInv /\ [Next]_vars => BacklogInv'
<1>. SUFFICES ASSUME BacklogInv, [Next]_vars PROVE BacklogInv'
  OBVIOUS
<1>1. CASE Tick BY <1>1, StartsKeep DEF Tick
<1>2. CASE Steps
  BY <1>2, PrepareKeeps, PrepareFailsKeeps, PushStartedKeeps, PushFailsKeeps, LaunchKeeps, RunEndKeeps, StepFailsKeeps, UploadKeeps,
     FinalizeKeeps, CompleteDayKeeps, FailDayKeeps DEF Steps
<1>3. CASE Environment
  BY <1>3, KillKeeps, CommitKeeps, StartsKeep, ResetKeeps, ExpireKeeps DEF Environment
<1>4. CASE UNCHANGED vars BY <1>4, BacklogIdleKeeps
<1>. QED BY <1>1, <1>2, <1>3, <1>4 DEF Next

LEMMA BacklogAlways == Spec => []BacklogInv
<1>. HIDE DEF BacklogInv
<1>. QED BY InitBacklogInv, BacklogStepInv, PTL DEF Spec

(* The branch, the artifacts and the running job are always well formed.       *)
THEOREM BacklogTyped == Spec => []TypeOK
<1>1. BacklogInv => TypeOK BY DEF BacklogInv
<1>. HIDE DEF BacklogInv, TypeOK
<1>. QED BY <1>1, BacklogAlways, PTL

(* Whatever jobs are killed, overtaken or refused, no unit is shown COMPLETE   *)
(* without the published results of all its dates.                             *)
THEOREM CompleteUnitsArePublished == Spec => []CompleteUnitIsPublished
<1>1. BacklogInv => CompleteUnitIsPublished BY DEF BacklogInv
<1>. HIDE DEF BacklogInv, CompleteUnitIsPublished
<1>. QED BY <1>1, BacklogAlways, PTL

(* The artifact a paused unit is resumed from has its days, unless it expired. *)
THEOREM PausedUnitsAreRecoverable == Spec => []PausedUnitIsRecoverable
<1>1. BacklogInv => PausedUnitIsRecoverable BY DEF BacklogInv
<1>. HIDE DEF BacklogInv, PausedUnitIsRecoverable
<1>. QED BY <1>1, BacklogAlways, PTL

(* Units left IN_PROGRESS without a job are no more than the jobs killed and   *)
(* the operators' interventions.                                               *)
THEOREM AbandonedUnitsAreCounted == Spec => []AbandonedByInterruption
<1>1. BacklogInv => AbandonedByInterruption
  <2>. SUFFICES ASSUME BacklogInv PROVE AbandonedByInterruption
    OBVIOUS
  <2>. QED BY CountTypes DEF AbandonedByInterruption
<1>. HIDE DEF BacklogInv, AbandonedByInterruption
<1>. QED BY <1>1, BacklogAlways, PTL

-----------------------------------------------------------------------------
(* Who may change the record of a unit.                                        *)
OwnedStep == \A u \in UnitIds : SettledUnitRests(u) /\ PendingUnitMoves(u)

LEMMA SameBranchOwned == branch' = branch => OwnedStep
BY DEF OwnedStep, SettledUnitRests, PendingUnitMoves

LEMMA PushStartedOwned == BacklogInv /\ PushStarted => OwnedStep
<1>. SUFFICES ASSUME BacklogInv, PushStarted PROVE OwnedStep
  OBVIOUS
<1>1. pc = "marked" /\ branch' = IF job.overtaken THEN branch ELSE job.work
  BY DEF PushStarted, Push
<1>2. CASE job.overtaken BY <1>1, <1>2, SameBranchOwned
<1>3. CASE ~job.overtaken
  <2>1. /\ branch' = job.work /\ job.id = jobs
        /\ \A v \in UnitIds \ {job.unit} : branch'.units[v] = branch.units[v]
        /\ branch'.units[job.unit].status = "IN_PROGRESS" /\ branch'.units[job.unit].run = jobs
    BY <1>1, <1>3 DEF BacklogInv, WorkInv, RunInv, Marked
  <2>2. /\ ~job.dispatched
        /\ branch.units[job.unit].status \in {"COMPLETE", "FAILED"}
        => branch.units[job.unit].version < branch'.version
    BY <1>1, <1>3, <2>1 DEF BacklogInv, SelectionInv
  <2>. QED BY <1>3, <2>1, <2>2 DEF OwnedStep, SettledUnitRests, PendingUnitMoves
<1>. QED BY <1>2, <1>3

LEMMA FinalizeOwned == BacklogInv /\ Finalize => OwnedStep
<1>. SUFFICES ASSUME BacklogInv, Finalize PROVE OwnedStep
  OBVIOUS
<1>1. pc = "finalize" /\ branch' = IF job.overtaken THEN branch ELSE Ended
  BY DEF Finalize, Push, Ended
<1>2. CASE job.overtaken BY <1>1, <1>2, SameBranchOwned
<1>3. CASE ~job.overtaken
  <2>1. TypeOK /\ job.unit \in UnitIds BY <1>1 DEF BacklogInv, RunInv
  <2>2. /\ \A v \in UnitIds \ {job.unit} : job.work.units[v] = branch.units[v]
        /\ ~job.failed => branch.units[job.unit].status = "IN_PROGRESS"
    BY <1>1, <1>3 DEF BacklogInv, WorkInv, Marked, Pushed
  <2>3. /\ \A v \in UnitIds \ {job.unit} : branch'.units[v] = branch.units[v]
        /\ branch'.version = job.work.version
        /\ branch'.units[job.unit].status = EndStatus(job.failed)
    <3>1. job.work.units[job.unit] \in UnitRecords BY <2>1 DEF TypeOK, JobRecords, Branches
    <3>. QED BY <1>1, <1>3, <2>1, <2>2, <3>1, EndedFacts DEF UnitRecords
  <2>4. job.failed => EndStatus(job.failed) = "FAILED" BY DEF EndStatus
  <2>5. PendingUnitMoves(job.unit) BY <1>3, <2>2, <2>3, <2>4 DEF PendingUnitMoves
  <2>6. SettledUnitRests(job.unit)
    BY <1>1, <1>3, <2>3 DEF BacklogInv, SelectionInv, SettledUnitRests
  <2>7. \A v \in UnitIds \ {job.unit} : SettledUnitRests(v) /\ PendingUnitMoves(v)
    BY <2>3 DEF SettledUnitRests, PendingUnitMoves
  <2>. QED BY <2>5, <2>6, <2>7 DEF OwnedStep
<1>. QED BY <1>2, <1>3

LEMMA ResetOwned == \A u \in UnitIds : BacklogInv /\ Reset(u) => OwnedStep
<1>. SUFFICES ASSUME NEW u \in UnitIds, BacklogInv, Reset(u) PROVE OwnedStep
  OBVIOUS
<1>1. /\ branch' = [branch EXCEPT !.units[u].status = "PENDING"] /\ resets' = resets + 1
      /\ branch \in Branches /\ resets \in Nat
  BY DEF Reset, Incident, BacklogInv, TypeOK
<1>2. \A v \in UnitIds : branch'.units[v].status \in {branch.units[v].status, "PENDING"}
  BY <1>1 DEF Branches, UnitRecords
<1>3. resets' > resets BY <1>1
<1>. QED BY <1>2, <1>3 DEF OwnedStep, SettledUnitRests, PendingUnitMoves

LEMMA StepOwned == BacklogInv /\ [Next]_vars => OwnedStep
<1>. SUFFICES ASSUME BacklogInv, [Next]_vars PROVE OwnedStep
  OBVIOUS
<1>1. CASE Tick
  <2>1. branch' = branch BY <1>1 DEF Tick, Schedule, Select
  <2>. QED BY <2>1, SameBranchOwned
<1>2. CASE Steps
  <2>1. \/ PushStarted \/ Finalize
        \/ branch' = branch
    BY <1>2 DEF Steps, Prepare, PrepareFails, PushFails, Launch, Pause, Finish, StepFails, Upload, CompleteDay, FailDay, UploadFails
  <2>. QED BY <2>1, PushStartedOwned, FinalizeOwned, SameBranchOwned
<1>3. CASE Environment
  <2>1. (\E u \in UnitIds : Reset(u)) \/ branch' = branch
    BY <1>3 DEF Environment, Kill, Commit, Dispatch, Select, Expire
  <2>. QED BY <2>1, ResetOwned, SameBranchOwned
<1>4. CASE UNCHANGED vars BY <1>4, SameBranchOwned DEF vars
<1>. QED BY <1>1, <1>2, <1>3, <1>4 DEF Next

(* Nobody moves a unit behind another's back: a settled unit is touched only   *)
(* by an operator or for a newer dataset_version, and a pending one is moved    *)
(* only by the job that took it and saw it pending: it starts, or is FAILED by *)
(* a job whose start failed.                                                   *)
THEOREM UnitsAreOwned == Spec => UnitsHaveOneOwner
<1>1. BacklogInv /\ [Next]_vars
        => [\A u \in UnitIds : SettledUnitRests(u) /\ PendingUnitMoves(u)]_vars
  BY StepOwned DEF OwnedStep
<1>. HIDE DEF BacklogInv, SettledUnitRests, PendingUnitMoves, vars
<1>. QED BY <1>1, BacklogAlways, PTL DEF Spec, UnitsHaveOneOwner
=============================================================================
