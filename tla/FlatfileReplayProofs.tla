------------------------ MODULE FlatfileReplayProofs ------------------------
(* Proofs about FlatfileReplay, for any dates, provenances and phases.         *)
(* The manifest is only as good as the memory it is written from, so the       *)
(* inductive invariant says of the launch's memory what the properties say of  *)
(* the manifest, and what links the two between two checkpoints.               *)
EXTENDS FlatfileReplay, TLAPS

InPhase == pc \in {"enter", "work", "close"}
InDay == InPhase \/ pc \in {"raised", "escaped", "returned"}
Active == pc = "loop" \/ InDay

\* the evidence of the first k phases
Upto(k) == {REPLAY_PHASES[j] : j \in 1..k} \cap Evidence(run.request.smoke)

\* what --no-resume may leave behind
Inherited == IF NoResumeAllowed THEN {"universe"} ELSE {}

-----------------------------------------------------------------------------
(* The parts of the inductive invariant.                                       *)
ModeInv ==
    /\ manifest.status = "NONE" => manifest = NoManifest
    /\ pc # "idle" => run.code \in Codes
    /\ pc = "idle" => run.resume
    /\ pc = "starting" => current = -1
    /\ InPhase => phase \in 1..LastPhase
    /\ InDay => current \in run.request.dates

\* how the manifest on disk differs from the memory of the launch
SyncInv ==
    /\ pc = "starting" /\ run.resume /\ manifest.status # "NONE" =>
           /\ manifest.days = days /\ manifest.failed = failures
           /\ manifest.request = run.request
           /\ run.forced = Differs(run.code)
           /\ run.code = manifest.code \/ ForceAllowed
    /\ pc = "starting" /\ ~(run.resume /\ manifest.status # "NONE") =>
           /\ days = NoDays /\ failures = {}
           /\ ~run.forced
    /\ pc = "starting" => (NoResumeAllowed \/ run.resume)
    /\ Active => /\ manifest.code = run.code /\ manifest.forced = run.forced
                 /\ manifest.request = run.request /\ manifest.status # "NONE"
                 /\ \A d \in Dates : ~(InDay /\ d = current) =>
                        manifest.days[d] = days[d]
    /\ InDay => ~Intact(current)
    /\ InDay => days[current].status # "COMPLETE"
    /\ pc \in {"work", "close", "escaped", "returned"} =>
           manifest.days[current].status # "COMPLETE"

FilesInv ==
    /\ \A d \in Dates : universe[d] # NoUniverse => artifact[d]["universe"] # "NONE"
    /\ ~NoResumeAllowed /\ ~manifest.forced =>
           \A d \in Dates, p \in Phases :
               artifact[d][p] \in {manifest.code, "NONE", "LOST"}

\* the record of the day being run
ProgressInv ==
    /\ pc \in {"enter", "work"} => progress.artifacts = Upto(phase - 1)
    /\ pc = "close" => progress.artifacts = Upto(phase)
    /\ pc \in {"enter", "work", "raised"} => progress.status = "IN_PROGRESS"
    /\ pc = "close" => progress.status \in {"IN_PROGRESS", "FAILED"}
    /\ InPhase => \A j \in 1..(phase - 1) :
           REPLAY_PHASES[j] = "universe" => universe[current].coverage = "complete"
    /\ InPhase \/ pc = "returned" =>
           \A p \in progress.artifacts :
               /\ artifact[current][p] \in Codes
               /\ p \notin Inherited /\ ~run.forced => artifact[current][p] = run.code
    /\ pc = "returned" =>
           /\ progress.status \in {"COMPLETE", "FAILED", "UNSUPPORTED"}
           /\ progress.status = "COMPLETE" =>
                  /\ progress.artifacts = Evidence(run.request.smoke)
                  /\ universe[current].coverage = "complete"

\* a completed day of a table of records, in a run of the given kind
Backed(table, smoke) ==
    \A d \in Dates : table[d].status = "COMPLETE" =>
        /\ table[d].artifacts = Evidence(smoke)
        /\ \A p \in table[d].artifacts : artifact[d][p] # "NONE"
        /\ universe[d].coverage = "complete"
OneCode(table, code) ==
    \A d \in Dates : table[d].status = "COMPLETE" =>
        \A p \in table[d].artifacts \ Inherited : artifact[d][p] \in {code, "LOST"}

CompleteInv ==
    /\ Backed(manifest.days, manifest.request.smoke)
    /\ pc # "idle" => Backed(days, run.request.smoke)
    /\ ~manifest.forced => OneCode(manifest.days, manifest.code)
    /\ pc # "idle" /\ ~run.forced => OneCode(days, run.code)

\* a date the loop has left behind
Settled(d) ==
    IF d \in failures THEN days[d].status \in {"FAILED", "UNSUPPORTED"}
    ELSE days[d].status = "COMPLETE"
FailInv ==
    /\ CompletedNotFailed
    /\ TerminalIsSettled
    /\ CompletedIn(days) \cap failures = {}
    /\ manifest.failed \subseteq manifest.request.dates
    /\ CompletedIn(manifest.days) \subseteq manifest.request.dates
    /\ pc # "idle" => /\ failures \subseteq run.request.dates
                      /\ CompletedIn(days) \subseteq run.request.dates
    /\ Active => \A d \in run.request.dates : d < current => Settled(d)
    /\ pc = "loop" /\ current # -1 => /\ current \in run.request.dates
                                       /\ Settled(current)
    /\ pc = "escaped" => days[current].status = "FAILED"

IInv == TypeOK /\ ModeInv /\ SyncInv /\ FilesInv /\ ProgressInv /\ CompleteInv /\ FailInv

-----------------------------------------------------------------------------
(* Lemmas about the data.                                                      *)

LEMMA PhaseFacts ==
    /\ LastPhase \in Nat
    /\ \A k \in 1..LastPhase : REPLAY_PHASES[k] \in Phases
    /\ "universe" \in Phases /\ "scoring" \in Phases /\ "report" \in Phases
    /\ LastPhase \in 1..LastPhase /\ REPLAY_PHASES[LastPhase] = "report"
    /\ \A j, k \in 1..LastPhase : REPLAY_PHASES[j] = REPLAY_PHASES[k] => j = k
    /\ DOMAIN REPLAY_PHASES = 1..LastPhase
  BY PhasesAssumption DEF LastPhase, Phases

LEMMA EvidenceFacts ==
    ASSUME NEW smoke \in BOOLEAN
    PROVE  Evidence(smoke) \subseteq Phases /\ "universe" \in Evidence(smoke)
  BY PhaseFacts DEF Evidence

LEMMA RecordFacts ==
    /\ NewDay \in DayRecords /\ AbsentDay \in DayRecords
    /\ NoDays \in [Dates -> DayRecords]
    /\ \A d \in Dates : NoDays[d].status = "ABSENT"
    /\ NewDay.status = "IN_PROGRESS" /\ NewDay.artifacts = {}
    /\ NoManifest \in Manifests
    /\ NoUniverse \in Universes
    /\ IdleRun \in [code: Codes \cup {"NONE"}, forced: BOOLEAN,
                    request: Requests \cup {NoRequest}, resume: BOOLEAN, budget: BOOLEAN]
  <1>1. NewDay \in DayRecords /\ NewDay.status = "IN_PROGRESS" /\ NewDay.artifacts = {}
    BY DEF NewDay, DayRecords, DayStatus, PhaseStatus
  <1>2. AbsentDay \in DayRecords /\ AbsentDay.status = "ABSENT"
    BY <1>1 DEF AbsentDay, NewDay, DayRecords, DayStatus, PhaseStatus
  <1>3. NoDays \in [Dates -> DayRecords] /\ \A d \in Dates : NoDays[d].status = "ABSENT"
    BY <1>2 DEF NoDays
  <1>4. NoManifest \in Manifests
    BY <1>3 DEF NoManifest, Manifests, RunStatus
  <1>5. NoUniverse \in Universes
    BY DEF NoUniverse, Universes
  <1>6. IdleRun \in [code: Codes \cup {"NONE"}, forced: BOOLEAN,
                    request: Requests \cup {NoRequest}, resume: BOOLEAN, budget: BOOLEAN]
    BY DEF IdleRun
  <1> QED BY <1>1, <1>2, <1>3, <1>4, <1>5, <1>6

\* what the checkpoint of a well-typed memory stores
LEMMA ManifestFacts ==
    ASSUME TypeOK, NEW status \in RunStatus, NEW table \in [Dates -> DayRecords],
           NEW failed \in SUBSET Dates
    PROVE  /\ Manifest(status, table, failed) \in Manifests
           /\ Manifest(status, table, failed).status = status
           /\ Manifest(status, table, failed).code = run.code
           /\ Manifest(status, table, failed).forced = run.forced
           /\ Manifest(status, table, failed).request = run.request
           /\ Manifest(status, table, failed).days = table
           /\ Manifest(status, table, failed).failed = failed
  BY DEF TypeOK, Manifest, Manifests

LEMMA FinalStatusFacts ==
    ASSUME NEW table \in [Dates -> DayRecords]
    PROVE  FinalStatus(table) \in {"COMPLETE", "PARTIAL", "FAILED"}
  BY DEF FinalStatus

LEMMA DateFacts ==
    ASSUME NEW d \in Dates PROVE d \in Int /\ d >= 0 /\ d # -1
  <1>1. d \in Nat
    BY DatesAssumption
  <1> QED BY <1>1

LEMMA RequestFacts ==
    ASSUME TypeOK PROVE run.request.dates \subseteq Dates /\ run.request.smoke \in BOOLEAN
  <1>1. run.request \in Requests \cup {NoRequest}
    BY DEF TypeOK
  <1>2. NoRequest \in [dates: SUBSET Dates, smoke: BOOLEAN]
    BY DEF NoRequest
  <1>3. run.request \in [dates: SUBSET Dates, smoke: BOOLEAN]
    BY <1>1, <1>2, RequestsAssumption
  <1> QED BY <1>3

-----------------------------------------------------------------------------
(* What the steps of a day do to memory and manifest.                          *)

LEMMA WithPhaseFacts ==
    ASSUME TypeOK, NEW status \in PhaseStatus, phase \in 1..LastPhase
    PROVE  /\ Name \in Phases
           /\ WithPhase(status) \in DayRecords
           /\ WithPhase(status).status = progress.status
           /\ WithPhase(status).artifacts = progress.artifacts
  <1>1. Name \in Phases
    BY PhaseFacts DEF Name
  <1> QED BY <1>1 DEF WithPhase, TypeOK, DayRecords

LEMMA PersistFacts ==
    ASSUME TypeOK, NEW record \in DayRecords, Persist(record), current \in Dates
    PROVE  /\ progress' = record /\ progress' \in DayRecords
           /\ days' = [days EXCEPT ![current] = record]
           /\ days' \in [Dates -> DayRecords]
           /\ days'[current] = record
           /\ \A d \in Dates : d # current => days'[d] = days[d]
           /\ manifest' \in Manifests
           /\ manifest'.status = "IN_PROGRESS"
           /\ manifest'.code = run.code /\ manifest'.forced = run.forced
           /\ manifest'.request = run.request
           /\ manifest'.days = days' /\ manifest'.failed = failures
  <1>1. /\ progress' = record
        /\ days' = [days EXCEPT ![current] = record]
        /\ manifest' = Manifest("IN_PROGRESS", days', failures)
    BY DEF Persist, Checkpoint
  <1>2. days' \in [Dates -> DayRecords]
    BY <1>1 DEF TypeOK
  <1>3. failures \in SUBSET Dates /\ "IN_PROGRESS" \in RunStatus
    BY DEF TypeOK, RunStatus
  <1>4. /\ days'[current] = record
        /\ \A d \in Dates : d # current => days'[d] = days[d]
    BY <1>1 DEF TypeOK
  <1>5. /\ manifest' \in Manifests
        /\ manifest'.status = "IN_PROGRESS"
        /\ manifest'.code = run.code /\ manifest'.forced = run.forced
        /\ manifest'.request = run.request
        /\ manifest'.days = days' /\ manifest'.failed = failures
    BY <1>1, <1>2, <1>3 DEF Manifest, Manifests, TypeOK
  <1> QED BY <1>1, <1>2, <1>4, <1>5

LEMMA EndDayFacts ==
    ASSUME TypeOK, NEW record \in DayRecords, NEW failed \in SUBSET Dates,
           EndDay(record, failed), current \in Dates
    PROVE  /\ days' \in [Dates -> DayRecords]
           /\ days'[current] = record
           /\ \A d \in Dates : d # current => days'[d] = days[d]
           /\ failures' = failed
           /\ manifest' \in Manifests
           /\ manifest'.status = "IN_PROGRESS"
           /\ manifest'.code = run.code /\ manifest'.forced = run.forced
           /\ manifest'.request = run.request
           /\ manifest'.days = days' /\ manifest'.failed = failed
           /\ pc' = "loop" /\ progress' = AbsentDay /\ phase' = 0
           /\ UNCHANGED <<artifact, universe, run, current, bounds>>
  <1>1. /\ days' = [days EXCEPT ![current] = record]
        /\ failures' = failed
        /\ manifest' = Manifest("IN_PROGRESS", days', failed)
        /\ pc' = "loop" /\ progress' = AbsentDay /\ phase' = 0
        /\ UNCHANGED <<artifact, universe, run, current, bounds>>
    BY DEF EndDay, Checkpoint
  <1>2. days' \in [Dates -> DayRecords]
    BY <1>1 DEF TypeOK
  <1>3. "IN_PROGRESS" \in RunStatus
    BY DEF RunStatus
  <1>4. /\ days'[current] = record
        /\ \A d \in Dates : d # current => days'[d] = days[d]
    BY <1>1 DEF TypeOK
  <1>5. /\ manifest' \in Manifests
        /\ manifest'.status = "IN_PROGRESS"
        /\ manifest'.code = run.code /\ manifest'.forced = run.forced
        /\ manifest'.request = run.request
        /\ manifest'.days = days' /\ manifest'.failed = failed
    BY <1>1, <1>2, <1>3 DEF Manifest, Manifests, TypeOK
  <1> QED BY <1>1, <1>2, <1>4, <1>5

-----------------------------------------------------------------------------
(* The invariant holds initially and survives the steps of a launch.           *)

LEMMA InitInv == Init => IInv
  <1> SUFFICES ASSUME Init PROVE IInv
    OBVIOUS
  <1> USE RecordFacts DEF Init
  <1>1. TypeOK
    BY PhaseFacts DEF TypeOK
  <1>2. ModeInv /\ SyncInv /\ ProgressInv
    BY DEF ModeInv, SyncInv, ProgressInv, InPhase, InDay, Active, IdleRun
  <1>3. FilesInv
    BY DEF FilesInv
  <1>4. manifest.days = NoDays /\ manifest.failed = {} /\ manifest.status = "NONE"
        /\ days = NoDays
    BY DEF NoManifest
  <1>5. CompleteInv
    BY <1>4 DEF CompleteInv, Backed, OneCode
  <1>6. FailInv
    BY <1>4 DEF FailInv, CompletedNotFailed, TerminalIsSettled, CompletedIn, Active, InDay,
                InPhase
  <1> QED BY <1>1, <1>2, <1>3, <1>5, <1>6 DEF IInv

LEMMA StutterStep == IInv /\ UNCHANGED vars => IInv'
  BY DEF IInv, vars, durable, memory, bounds, TypeOK, ModeInv, SyncInv, FilesInv,
         ProgressInv, CompleteInv, FailInv, InPhase, InDay, Active, Backed, OneCode,
         Settled, Upto, CompletedNotFailed, TerminalIsSettled, CompletedIn, Intact, Differs

\* what every launch that goes on sets
LEMMA BeginLaunchFacts ==
    ASSUME TypeOK, NEW code \in Codes, NEW request \in Requests, NEW resume \in BOOLEAN,
           NEW budget \in BOOLEAN, NEW forced \in BOOLEAN,
           BeginLaunch(code, request, resume, budget, forced)
    PROVE  /\ run'.code = code /\ run'.forced = forced /\ run'.request = request
           /\ run'.resume = resume
           /\ pc' = "starting" /\ progress' = AbsentDay /\ current' = -1 /\ phase' = 0
           /\ run' \in [code: Codes \cup {"NONE"}, forced: BOOLEAN,
                        request: Requests \cup {NoRequest}, resume: BOOLEAN, budget: BOOLEAN]
           /\ launches' \in Nat /\ crashes' \in Nat /\ losses' \in Nat
  BY DEF BeginLaunch, TypeOK

LEMMA LaunchFreshStep ==
    ASSUME IInv, NEW code \in Codes, NEW request \in Requests, NEW resume \in BOOLEAN,
           NEW budget \in BOOLEAN, LaunchFresh(code, request, resume, budget)
    PROVE  IInv'
  <1>1. /\ pc = "idle" /\ (~resume => NoResumeAllowed)
        /\ (resume => manifest.status = "NONE")
        /\ days' = NoDays /\ failures' = {}
        /\ BeginLaunch(code, request, resume, budget, FALSE)
        /\ manifest' = manifest /\ artifact' = artifact /\ universe' = universe
    BY DEF LaunchFresh, CanLaunch, durable
  <1>2. /\ run'.code = code /\ run'.forced = FALSE /\ run'.request = request
        /\ run'.resume = resume
        /\ pc' = "starting" /\ progress' = AbsentDay /\ current' = -1 /\ phase' = 0
        /\ run' \in [code: Codes \cup {"NONE"}, forced: BOOLEAN,
                     request: Requests \cup {NoRequest}, resume: BOOLEAN, budget: BOOLEAN]
        /\ launches' \in Nat /\ crashes' \in Nat /\ losses' \in Nat
    BY <1>1, BeginLaunchFacts DEF IInv
  <1>3. TypeOK'
    BY <1>1, <1>2, RecordFacts, PhaseFacts DEF IInv, TypeOK
  <1>4. ModeInv'
    BY <1>1, <1>2 DEF IInv, ModeInv, InPhase, InDay
  <1>5. SyncInv'
    BY <1>1, <1>2 DEF SyncInv, Active, InDay, InPhase
  <1>6. FilesInv'
    BY <1>1 DEF IInv, FilesInv
  <1>7. ProgressInv'
    BY <1>2 DEF ProgressInv, InPhase
  <1>8. CompleteInv'
    <2>1. Backed(days, run.request.smoke)' /\ OneCode(days, run.code)'
      BY <1>1, RecordFacts DEF Backed, OneCode
    <2>2. /\ Backed(manifest.days, manifest.request.smoke)'
          /\ (~manifest.forced => OneCode(manifest.days, manifest.code))'
      BY <1>1 DEF IInv, CompleteInv, Backed, OneCode
    <2> QED BY <2>1, <2>2 DEF CompleteInv
  <1>9. FailInv'
    <2>1. CompletedIn(days)' = {}
      BY <1>1, RecordFacts DEF CompletedIn
    <2> QED BY <1>1, <1>2, <2>1 DEF IInv, FailInv, CompletedNotFailed, TerminalIsSettled,
               CompletedIn, Active, InDay, InPhase
  <1> QED BY <1>3, <1>4, <1>5, <1>6, <1>7, <1>8, <1>9 DEF IInv

LEMMA LaunchArchivingStep ==
    ASSUME IInv, NEW code \in Codes, NEW request \in Requests, NEW budget \in BOOLEAN,
           LaunchArchiving(code, request, budget)
    PROVE  IInv'
  <1>1. /\ manifest' = NoManifest
        /\ artifact' = [d \in Dates |-> [p \in Phases |-> "NONE"]]
        /\ universe' = [d \in Dates |-> NoUniverse]
        /\ days' = NoDays /\ failures' = {}
        /\ BeginLaunch(code, request, TRUE, budget, FALSE)
    BY DEF LaunchArchiving
  <1>2. /\ run'.code = code /\ run'.forced = FALSE /\ run'.request = request
        /\ run'.resume = TRUE
        /\ pc' = "starting" /\ progress' = AbsentDay /\ current' = -1 /\ phase' = 0
        /\ run' \in [code: Codes \cup {"NONE"}, forced: BOOLEAN,
                     request: Requests \cup {NoRequest}, resume: BOOLEAN, budget: BOOLEAN]
        /\ launches' \in Nat /\ crashes' \in Nat /\ losses' \in Nat
    BY <1>1, BeginLaunchFacts DEF IInv
  <1>3. TypeOK'
    BY <1>1, <1>2, RecordFacts, PhaseFacts DEF TypeOK
  <1>4. /\ manifest'.status = "NONE" /\ manifest'.days = NoDays /\ manifest'.failed = {}
        /\ manifest'.forced = FALSE
    BY <1>1 DEF NoManifest
  <1>5. ModeInv' /\ SyncInv' /\ ProgressInv'
    BY <1>1, <1>2, <1>4 DEF ModeInv, SyncInv, ProgressInv, Active, InDay, InPhase
  <1>6. FilesInv'
    BY <1>1 DEF FilesInv
  <1>7. CompleteInv'
    BY <1>1, <1>4, RecordFacts DEF CompleteInv, Backed, OneCode
  <1>8. FailInv'
    <2>1. CompletedIn(days)' = {} /\ CompletedIn(manifest.days)' = {}
      BY <1>1, <1>4, RecordFacts DEF CompletedIn
    <2> QED BY <1>1, <1>2, <1>4, <2>1 DEF FailInv, CompletedNotFailed, TerminalIsSettled,
               Active, InDay, InPhase
  <1> QED BY <1>3, <1>5, <1>6, <1>7, <1>8 DEF IInv

LEMMA LaunchResumingStep ==
    ASSUME IInv, NEW code \in Codes, NEW request \in Requests, NEW budget \in BOOLEAN,
           NEW force \in BOOLEAN, LaunchResuming(code, request, budget, force)
    PROVE  IInv'
  <1>1. /\ manifest.status # "NONE"
        /\ force \/ ~Differs(code)
        /\ manifest.request = request
        /\ days' = manifest.days /\ failures' = manifest.failed
        /\ BeginLaunch(code, request, TRUE, budget, Differs(code))
        /\ manifest' = manifest /\ artifact' = artifact /\ universe' = universe
    BY DEF LaunchResuming, durable
  <1>2. Differs(code) \in BOOLEAN
    BY DEF Differs, IInv, TypeOK, Manifests
  <1>3. /\ run'.code = code /\ run'.forced = Differs(code) /\ run'.request = request
        /\ run'.resume = TRUE
        /\ pc' = "starting" /\ progress' = AbsentDay /\ current' = -1 /\ phase' = 0
        /\ run' \in [code: Codes \cup {"NONE"}, forced: BOOLEAN,
                     request: Requests \cup {NoRequest}, resume: BOOLEAN, budget: BOOLEAN]
        /\ launches' \in Nat /\ crashes' \in Nat /\ losses' \in Nat
    BY <1>1, <1>2 DEF BeginLaunch, IInv, TypeOK
  <1>4. TypeOK'
    BY <1>1, <1>3, RecordFacts, PhaseFacts DEF IInv, TypeOK, Manifests
  <1>5. ModeInv' /\ ProgressInv'
    BY <1>1, <1>3 DEF IInv, ModeInv, ProgressInv, InDay, InPhase
  <1>6. SyncInv'
    <2>1. (run.forced = Differs(run.code))'
      BY <1>1, <1>3 DEF Differs
    <2>2. code = manifest.code \/ ForceAllowed
      BY DEF LaunchResuming, Differs
    <2> QED BY <1>1, <1>3, <2>1, <2>2 DEF SyncInv, Active, InDay, InPhase
  <1>7. FilesInv'
    BY <1>1 DEF IInv, FilesInv
  <1>8. CompleteInv'
    <2>1. /\ Backed(manifest.days, manifest.request.smoke)'
          /\ (~manifest.forced => OneCode(manifest.days, manifest.code))'
      BY <1>1 DEF IInv, CompleteInv, Backed, OneCode
    <2>2. Backed(days, run.request.smoke)'
      BY <2>1, <1>1, <1>3 DEF Backed
    <2>3. ~run'.forced => OneCode(days, run.code)'
      BY <2>1, <1>1, <1>3 DEF OneCode, Differs
    <2> QED BY <2>1, <2>2, <2>3 DEF CompleteInv
  <1>9. FailInv'
    BY <1>1, <1>3 DEF IInv, FailInv, CompletedNotFailed, TerminalIsSettled, CompletedIn,
       Active, InDay, InPhase
  <1> QED BY <1>4, <1>5, <1>6, <1>7, <1>8, <1>9 DEF IInv

LEMMA StartStep == ASSUME IInv, Start PROVE IInv'
  <1>1. /\ pc = "starting" /\ pc' = "loop"
        /\ manifest' = Manifest("IN_PROGRESS", days, failures)
        /\ UNCHANGED <<artifact, universe, run, days, failures, progress, current, phase, bounds>>
    BY DEF Start, Checkpoint
  <1>2. /\ manifest' \in Manifests /\ manifest'.status = "IN_PROGRESS"
        /\ manifest'.code = run.code /\ manifest'.forced = run.forced
        /\ manifest'.request = run.request
        /\ manifest'.days = days /\ manifest'.failed = failures
    BY <1>1 DEF IInv, TypeOK, RunStatus, Manifest, Manifests
  <1>3. TypeOK'
    BY <1>1, <1>2 DEF IInv, TypeOK, bounds
  <1>4. ModeInv' /\ ProgressInv'
    BY <1>1, <1>2 DEF IInv, ModeInv, ProgressInv, InDay, InPhase
  <1>5. SyncInv'
    BY <1>1, <1>2 DEF IInv, SyncInv, Active, InDay, InPhase
  <1>6. FilesInv'
    <2>1. ~NoResumeAllowed /\ ~run.forced =>
              \A d \in Dates, p \in Phases : artifact[d][p] \in {run.code, "NONE", "LOST"}
      <3> SUFFICES ASSUME ~NoResumeAllowed, ~run.forced,
                          NEW d \in Dates, NEW p \in Phases
                   PROVE  artifact[d][p] \in {run.code, "NONE", "LOST"}
        OBVIOUS
      <3>1. run.resume
        BY <1>1 DEF IInv, SyncInv
      <3>2. CASE manifest.status = "NONE"
        <4>1. manifest.code = "NONE" /\ manifest.forced = FALSE
          BY <3>2 DEF IInv, ModeInv, NoManifest
        <4> QED BY <4>1 DEF IInv, FilesInv
      <3>3. CASE manifest.status # "NONE"
        <4>1. ~Differs(run.code)
          BY <1>1, <3>1, <3>3 DEF IInv, SyncInv
        <4> QED BY <4>1 DEF IInv, FilesInv, Differs
      <3> QED BY <3>2, <3>3
    <2> QED BY <1>1, <1>2, <2>1 DEF IInv, FilesInv
  <1>7. CompleteInv'
    BY <1>1, <1>2 DEF IInv, CompleteInv, Backed, OneCode
  <1>8. FailInv'
    <2>1. CompletedIn(days) \cap failures = {} /\ failures \subseteq run.request.dates
          /\ CompletedIn(days) \subseteq run.request.dates
      BY <1>1 DEF IInv, FailInv
    <2>2. current = -1 /\ \A d \in run.request.dates : ~(d < current)
      <3>1. current = -1
        BY <1>1 DEF IInv, ModeInv
      <3>2. \A d \in run.request.dates : d \in Dates
        BY RequestFacts DEF IInv
      <3> QED BY <3>1, <3>2, DateFacts
    <2> QED BY <1>1, <1>2, <2>1, <2>2 DEF FailInv, CompletedNotFailed, TerminalIsSettled,
               CompletedIn, Active, InDay, InPhase
  <1> QED BY <1>3, <1>4, <1>5, <1>6, <1>7, <1>8 DEF IInv

\* a launch that ends leaves a manifest of the memory it had
LEMMA EndLaunchStep ==
    ASSUME IInv, pc = "loop", NEW status \in RunStatus \ {"NONE"},
           manifest' = Manifest(status, days, failures), EndLaunch,
           UNCHANGED <<artifact, universe, bounds>>,
           status \in {"COMPLETE", "PARTIAL", "FAILED"} =>
               /\ NextDates = {} /\ status = FinalStatus(days)
    PROVE  IInv'
  <1>1. /\ pc' = "idle" /\ run' = IdleRun /\ days' = NoDays /\ failures' = {}
        /\ progress' = AbsentDay /\ current' = -1 /\ phase' = 0
    BY DEF EndLaunch
  <1>2. /\ manifest' \in Manifests /\ manifest'.status = status
        /\ manifest'.code = run.code /\ manifest'.forced = run.forced
        /\ manifest'.request = run.request
        /\ manifest'.days = days /\ manifest'.failed = failures
    BY DEF IInv, TypeOK, Manifest, Manifests
  <1>3. TypeOK'
    BY <1>1, <1>2, RecordFacts, PhaseFacts DEF IInv, TypeOK, bounds
  <1>4. ModeInv' /\ ProgressInv' /\ SyncInv'
    BY <1>1, <1>2 DEF IInv, ModeInv, ProgressInv, SyncInv, Active, InDay, InPhase, IdleRun
  <1>5. FilesInv' /\ CompleteInv'
    <2>1. manifest.code = run.code /\ manifest.forced = run.forced
      BY DEF IInv, SyncInv, Active
    <2> QED BY <1>1, <1>2, <2>1 DEF IInv, FilesInv, CompleteInv, Backed, OneCode
  <1>6. FailInv'
    <2>1. /\ CompletedIn(days) \cap failures = {} /\ failures \subseteq run.request.dates
          /\ CompletedIn(days) \subseteq run.request.dates
      BY DEF IInv, FailInv
    <2>2. CompletedIn(days)' = {}
      BY <1>1, RecordFacts DEF CompletedIn
    <2>3. TerminalIsSettled'
      <3> SUFFICES ASSUME status \in {"COMPLETE", "PARTIAL", "FAILED"}
                   PROVE  /\ failures = run.request.dates \ CompletedIn(days)
                          /\ \A d \in failures : days[d].status \in {"FAILED", "UNSUPPORTED"}
                          /\ (status = "COMPLETE") <=> (failures = {})
        BY <1>2 DEF TerminalIsSettled, CompletedIn
      <3>1. \A d \in run.request.dates : d \in Dates
        BY RequestFacts DEF IInv
      <3>2. \A d \in run.request.dates : Settled(d)
        <4> SUFFICES ASSUME NEW d \in run.request.dates PROVE Settled(d)
          OBVIOUS
        <4>1. ~(d > current)
          BY DEF NextDates
        <4>2. d \in Int /\ current \in Int
          <5>1. current \in Dates \/ current = -1
            BY DEF IInv, TypeOK
          <5> QED BY <3>1, <5>1, DateFacts
        <4>3. CASE d < current
          BY <4>3 DEF IInv, FailInv, Active
        <4>4. CASE d = current
          BY <3>1, <4>4, DateFacts DEF IInv, FailInv
        <4> QED BY <4>1, <4>2, <4>3, <4>4
      <3>3. \A d \in run.request.dates : d \notin failures => d \in CompletedIn(days)
        BY <3>1, <3>2 DEF Settled, CompletedIn
      <3>4. failures = run.request.dates \ CompletedIn(days)
        BY <2>1, <3>3
      <3>5. \A d \in failures : days[d].status \in {"FAILED", "UNSUPPORTED"}
        BY <2>1, <3>2 DEF Settled
      <3>6. (status = "COMPLETE") <=> (CompletedIn(days) = run.request.dates)
        BY DEF FinalStatus
      <3> QED BY <2>1, <3>4, <3>5, <3>6
    <2>4. CompletedNotFailed'
      BY <1>2, <2>1 DEF CompletedNotFailed, CompletedIn
    <2> QED BY <1>1, <1>2, <2>1, <2>2, <2>3, <2>4 DEF FailInv, CompletedIn, Active, InDay,
               InPhase
  <1> QED BY <1>3, <1>4, <1>5, <1>6 DEF IInv

LEMMA FinishStep == ASSUME IInv, Finish PROVE IInv'
  <1>1. FinalStatus(days) \in {"COMPLETE", "PARTIAL", "FAILED"}
    BY DEF FinalStatus
  <1>2. FinalStatus(days) \in RunStatus \ {"NONE"}
    BY <1>1 DEF RunStatus
  <1>3. /\ pc = "loop" /\ NextDates = {}
        /\ manifest' = Manifest(FinalStatus(days), days, failures)
        /\ EndLaunch /\ UNCHANGED <<artifact, universe, bounds>>
    BY DEF Finish
  <1> QED BY <1>2, <1>3, EndLaunchStep

LEMMA PauseStep == ASSUME IInv, NEW d \in Dates, Pause(d) PROVE IInv'
  <1>1. "PAUSED_WALL_BUDGET" \in RunStatus \ {"NONE"}
    BY DEF RunStatus
  <1>2. /\ pc = "loop" /\ manifest' = Manifest("PAUSED_WALL_BUDGET", days, failures)
        /\ EndLaunch /\ UNCHANGED <<artifact, universe, bounds>>
    BY DEF Pause, Upcoming
  <1> QED BY <1>1, <1>2, EndLaunchStep

LEMMA CrashStep == ASSUME IInv, Crash PROVE IInv'
  <1>1. /\ pc' = "idle" /\ run' = IdleRun /\ days' = NoDays /\ failures' = {}
        /\ progress' = AbsentDay /\ current' = -1 /\ phase' = 0
        /\ manifest' = manifest /\ artifact' = artifact /\ universe' = universe
        /\ launches' = launches /\ losses' = losses /\ crashes' = crashes + 1
    BY DEF Crash, EndLaunch, durable
  <1>2. TypeOK'
    BY <1>1, RecordFacts, PhaseFacts DEF IInv, TypeOK
  <1>3. ModeInv' /\ ProgressInv' /\ SyncInv'
    BY <1>1 DEF IInv, ModeInv, ProgressInv, SyncInv, Active, InDay, InPhase, IdleRun
  <1>4. FilesInv' /\ CompleteInv'
    BY <1>1 DEF IInv, FilesInv, CompleteInv, Backed, OneCode
  <1>5. CompletedIn(days)' = {}
    BY <1>1, RecordFacts DEF CompletedIn
  <1>6. FailInv'
    BY <1>1, <1>5 DEF IInv, FailInv, CompletedNotFailed, TerminalIsSettled, CompletedIn,
       Active, InDay, InPhase
  <1> QED BY <1>2, <1>3, <1>4, <1>6 DEF IInv

LEMMA LoseArtifactStep ==
    ASSUME IInv, NEW d \in Dates, NEW p \in Phases, LoseArtifact(d, p) PROVE IInv'
  <1>1. /\ pc = "idle" /\ artifact[d][p] \in Codes
        /\ artifact' = [artifact EXCEPT ![d][p] = "LOST"]
        /\ manifest' = manifest /\ universe' = universe /\ UNCHANGED memory
        /\ losses' = losses + 1 /\ UNCHANGED <<launches, crashes>>
    BY DEF LoseArtifact
  <1>2. artifact' \in [Dates -> [Phases -> Codes \cup {"NONE", "LOST"}]]
    BY <1>1 DEF IInv, TypeOK
  <1>3. \A e \in Dates, q \in Phases :
            artifact'[e][q] = artifact[e][q] \/ artifact'[e][q] = "LOST"
    BY <1>1 DEF IInv, TypeOK
  <1>4. TypeOK'
    BY <1>1, <1>2 DEF IInv, TypeOK, memory
  <1>5. ModeInv' /\ ProgressInv' /\ SyncInv'
    BY <1>1 DEF IInv, ModeInv, ProgressInv, SyncInv, Active, InDay, InPhase, memory
  <1>6. FilesInv'
    BY <1>1, <1>3, PhaseFacts DEF IInv, FilesInv
  <1>7. \A e \in Dates : manifest.days[e].artifacts \subseteq Phases
    BY DEF IInv, TypeOK, Manifests, DayRecords
  <1>8. CompleteInv'
    BY <1>1, <1>3, <1>7 DEF IInv, CompleteInv, Backed, OneCode, memory
  <1>9. FailInv'
    BY <1>1 DEF IInv, FailInv, CompletedNotFailed, TerminalIsSettled, CompletedIn,
       Active, InDay, InPhase, memory
  <1> QED BY <1>4, <1>5, <1>6, <1>8, <1>9 DEF IInv

\* the dates before the next one have all been settled
LEMMA UpcomingFacts ==
    ASSUME IInv, NEW d \in Dates, Upcoming(d)
    PROVE  /\ pc = "loop" /\ d \in run.request.dates /\ d # current /\ d # -1
           /\ \A e \in run.request.dates : e < d => Settled(e)
  <1>1. /\ pc = "loop" /\ d \in run.request.dates /\ d > current
        /\ \A e \in run.request.dates : e > current => d <= e
    BY DEF Upcoming, NextDates
  <1>2. \A e \in run.request.dates : e \in Dates
    BY RequestFacts DEF IInv
  <1>3. current \in Int /\ d \in Int /\ d # -1
    <2>1. current \in Dates \/ current = -1
      BY DEF IInv, TypeOK
    <2> QED BY <2>1, DateFacts
  <1>4. ASSUME NEW e \in run.request.dates, e < d PROVE Settled(e)
    <2>1. e \in Int /\ e # -1
      BY <1>2, DateFacts
    <2>2. e < current \/ e = current
      BY <1>1, <1>3, <1>4, <2>1
    <2>3. CASE e < current
      BY <1>1, <2>3 DEF IInv, FailInv, Active
    <2>4. CASE e = current
      BY <1>1, <2>1, <2>4 DEF IInv, FailInv
    <2> QED BY <2>2, <2>3, <2>4
  <1> QED BY <1>1, <1>3, <1>4

LEMMA SkipDayStep == ASSUME IInv, NEW d \in Dates, SkipDay(d) PROVE IInv'
  <1>1. /\ Upcoming(d) /\ days[d].status = "COMPLETE"
        /\ failures' = failures \ {d} /\ current' = d
        /\ manifest' = manifest /\ artifact' = artifact /\ universe' = universe
        /\ UNCHANGED <<pc, run, days, progress, phase, bounds>>
    BY DEF SkipDay, Reusable, durable
  <1>2. /\ pc = "loop" /\ d \in run.request.dates /\ d # current /\ d # -1
        /\ \A e \in run.request.dates : e < d => Settled(e)
    BY <1>1, UpcomingFacts
  <1>3. TypeOK'
    BY <1>1 DEF IInv, TypeOK, bounds
  <1>4. ModeInv' /\ ProgressInv' /\ SyncInv'
    BY <1>1, <1>2 DEF IInv, ModeInv, ProgressInv, SyncInv, Active, InDay, InPhase
  <1>5. FilesInv' /\ CompleteInv'
    BY <1>1 DEF IInv, FilesInv, CompleteInv, Backed, OneCode
  <1>6. FailInv'
    <2>1. \A e \in run.request.dates : e < d => Settled(e)'
      <3>1. \A e \in run.request.dates : e < d => e # d
        BY RequestFacts, DateFacts DEF IInv
      <3> QED BY <1>1, <1>2, <3>1 DEF Settled
    <2>2. Settled(d)'
      BY <1>1 DEF Settled
    <2> QED BY <1>1, <1>2, <2>1, <2>2 DEF IInv, FailInv, CompletedNotFailed,
               TerminalIsSettled, CompletedIn, Active, InDay, InPhase
  <1> QED BY <1>3, <1>4, <1>5, <1>6 DEF IInv

LEMMA BeginDayStep == ASSUME IInv, NEW d \in Dates, BeginDay(d) PROVE IInv'
  <1>1. /\ Upcoming(d) /\ ~Reusable(d)
        /\ days' = [days EXCEPT ![d] = NewDay]
        /\ progress' = NewDay /\ current' = d /\ phase' = 1 /\ pc' = "enter"
        /\ manifest' = manifest /\ artifact' = artifact /\ universe' = universe
        /\ UNCHANGED <<run, failures, bounds>>
    BY DEF BeginDay, durable
  <1>2. /\ pc = "loop" /\ d \in run.request.dates /\ d # current /\ d # -1
        /\ \A e \in run.request.dates : e < d => Settled(e)
    BY <1>1, UpcomingFacts
  <1>3. /\ days' \in [Dates -> DayRecords] /\ days'[d] = NewDay
        /\ days'[d].status = "IN_PROGRESS"
        /\ \A e \in Dates : e # d => days'[e] = days[e]
    BY <1>1, RecordFacts DEF IInv, TypeOK
  <1>4. TypeOK'
    BY <1>1, <1>3, RecordFacts, PhaseFacts DEF IInv, TypeOK, bounds
  <1>5. ModeInv'
    BY <1>1, <1>2, PhaseFacts DEF IInv, ModeInv, InPhase, InDay
  <1>6. SyncInv'
    <2>1. \A e \in Dates : manifest.days[e] = days[e]
      BY <1>2 DEF IInv, SyncInv, Active, InDay, InPhase
    <2>2. ~Intact(d)
      BY <1>1, <2>1 DEF Reusable, FilesExist, Intact
    <2>3. ~(Intact(current)')
      BY <1>1, <2>2 DEF Intact
    <2>4. /\ manifest.code = run.code /\ manifest.forced = run.forced
          /\ manifest.request = run.request /\ manifest.status # "NONE"
      BY <1>2 DEF IInv, SyncInv, Active
    <2> QED BY <1>1, <1>3, <2>1, <2>3, <2>4 DEF SyncInv, Active, InDay, InPhase
  <1>7. FilesInv'
    BY <1>1 DEF IInv, FilesInv
  <1>8. ProgressInv'
    <2>1. (Upto(phase - 1))' = {}
      BY <1>1 DEF Upto
    <2>2. \A j \in 1..(phase' - 1) : FALSE
      BY <1>1
    <2> QED BY <1>1, <2>1, <2>2, RecordFacts DEF ProgressInv, InPhase
  <1>9. CompleteInv'
    <2>1. Backed(days, run.request.smoke)'
      BY <1>1, <1>2, <1>3 DEF IInv, CompleteInv, Backed
    <2>2. ~run.forced => OneCode(days, run.code)'
      BY <1>1, <1>2, <1>3 DEF IInv, CompleteInv, OneCode
    <2> QED BY <1>1, <2>1, <2>2 DEF IInv, CompleteInv, Backed, OneCode
  <1>10. FailInv'
    <2>1. \A e \in run.request.dates : e < d => Settled(e)'
      <3>1. \A e \in run.request.dates : e < d => e \in Dates /\ e # d
        BY RequestFacts, DateFacts DEF IInv
      <3> QED BY <1>1, <1>2, <1>3, <3>1 DEF Settled
    <2>2. CompletedIn(days)' \subseteq CompletedIn(days)
      BY <1>3 DEF CompletedIn
    <2> QED BY <1>1, <1>2, <2>1, <2>2 DEF IInv, FailInv, CompletedNotFailed,
               TerminalIsSettled, CompletedIn, Active, InDay, InPhase
  <1> QED BY <1>4, <1>5, <1>6, <1>7, <1>8, <1>9, <1>10 DEF IInv

-----------------------------------------------------------------------------
(* The steps of a day: all of them leave the other days alone.                 *)

\* a day's callback: memory and manifest take the same new record
LEMMA PersistKeeps ==
    ASSUME IInv, InDay, InDay', NEW record \in DayRecords, record.status # "COMPLETE",
           days' = [days EXCEPT ![current] = record],
           manifest'.status = "IN_PROGRESS",
           manifest'.code = run.code, manifest'.forced = run.forced,
           manifest'.request = run.request,
           manifest'.days = days', manifest'.failed = failures,
           failures' = failures, run' = run, current' = current, universe' = universe,
           \A d \in Dates : d # current => artifact'[d] = artifact[d],
           pc' = "escaped" => record.status = "FAILED"
    PROVE  SyncInv' /\ CompleteInv' /\ FailInv'
  <1>1. current \in Dates /\ current \in run.request.dates
    BY RequestFacts DEF IInv, ModeInv
  <1>2. /\ days'[current] = record
        /\ \A d \in Dates : d # current => days'[d] = days[d]
    BY <1>1 DEF IInv, TypeOK
  <1>3. SyncInv'
    BY <1>1, <1>2 DEF IInv, SyncInv, Active, InDay, InPhase, Intact
  <1>4. pc # "idle" /\ Active
    BY DEF InDay, InPhase, Active
  <1>5. CompleteInv'
    <2>1. Backed(days, run.request.smoke)'
      BY <1>2, <1>4 DEF IInv, CompleteInv, Backed
    <2>2. ~run.forced => OneCode(days, run.code)'
      BY <1>2, <1>4 DEF IInv, CompleteInv, OneCode
    <2> QED BY <2>1, <2>2 DEF CompleteInv, Backed, OneCode
  <1>6. FailInv'
    <2>1. CompletedIn(days)' \subseteq CompletedIn(days)
      BY <1>2 DEF CompletedIn
    <2>2. \A d \in run.request.dates : d < current => Settled(d)'
      <3>1. \A d \in run.request.dates : d \in Dates /\ (d < current => d # current)
        BY <1>1, RequestFacts, DateFacts DEF IInv
      <3> QED BY <1>2, <1>4, <3>1 DEF IInv, FailInv, Settled
    <2>3. pc' # "loop" /\ pc' # "idle"
      BY DEF InDay, InPhase
    <2>4. CompletedIn(manifest.days)' = CompletedIn(days)'
      BY DEF CompletedIn
    <2> QED BY <1>2, <1>4, <2>1, <2>2, <2>3, <2>4 DEF IInv, FailInv, CompletedNotFailed,
               TerminalIsSettled
  <1> QED BY <1>3, <1>5, <1>6

\* a phase at work: only files of the day change
LEMMA WorkKeeps ==
    ASSUME IInv, InDay, InDay',
           pc' # "escaped", pc # "enter" \/ pc' = "raised", pc # "raised",
           UNCHANGED <<manifest, days, failures, run, current>>,
           \A d \in Dates : d # current => artifact'[d] = artifact[d],
           \A d \in Dates : d # current => universe'[d] = universe[d],
           pc = "enter" => artifact' = artifact /\ universe' = universe
    PROVE  SyncInv' /\ CompleteInv' /\ FailInv'
  <1>1. current \in Dates /\ current \in run.request.dates
    BY RequestFacts DEF IInv, ModeInv
  <1>2. pc # "idle" /\ Active /\ Active'
    BY DEF InDay, InPhase, Active
  <1>3. pc # "enter" => manifest.days[current].status # "COMPLETE"
    BY DEF IInv, SyncInv, InDay, InPhase
  <1>4. days[current].status # "COMPLETE"
    BY DEF IInv, SyncInv
  <1>5. SyncInv'
    BY <1>1, <1>2, <1>3 DEF IInv, SyncInv, Active, InDay, InPhase, Intact
  <1>6. CompleteInv'
    <2>1. Backed(days, run.request.smoke)' /\ Backed(manifest.days, manifest.request.smoke)'
      BY <1>2, <1>3, <1>4 DEF IInv, CompleteInv, Backed
    <2>2. /\ ~run.forced => OneCode(days, run.code)'
          /\ ~manifest.forced => OneCode(manifest.days, manifest.code)'
      BY <1>2, <1>3, <1>4 DEF IInv, CompleteInv, OneCode
    <2> QED BY <2>1, <2>2 DEF CompleteInv
  <1>7. FailInv'
    BY <1>2 DEF IInv, FailInv, CompletedNotFailed, TerminalIsSettled, CompletedIn, Settled,
       InDay, InPhase
  <1> QED BY <1>5, <1>6, <1>7

LEMMA EnterPhaseStep == ASSUME IInv, EnterPhase PROVE IInv'
  <1>1. /\ pc = "enter" /\ pc' = "work" /\ Persist(WithPhase("IN_PROGRESS"))
        /\ UNCHANGED <<artifact, universe, run, failures, current, phase, bounds>>
    BY DEF EnterPhase
  <1>2. InPhase /\ InDay /\ InPhase' /\ InDay' /\ phase \in 1..LastPhase
    BY <1>1 DEF InDay, InPhase, IInv, ModeInv
  <1>3. "IN_PROGRESS" \in PhaseStatus /\ current \in Dates
    BY <1>2, RequestFacts DEF PhaseStatus, IInv, ModeInv
  <1>4. /\ WithPhase("IN_PROGRESS") \in DayRecords
        /\ WithPhase("IN_PROGRESS").status = "IN_PROGRESS"
        /\ WithPhase("IN_PROGRESS").artifacts = progress.artifacts
    BY <1>1, <1>2, <1>3, WithPhaseFacts DEF IInv, ProgressInv
  <1> DEFINE record == WithPhase("IN_PROGRESS")
  <1>5. /\ progress' = record /\ progress' \in DayRecords
        /\ days' = [days EXCEPT ![current] = record]
        /\ days' \in [Dates -> DayRecords]
        /\ manifest' \in Manifests
        /\ manifest'.status = "IN_PROGRESS"
        /\ manifest'.code = run.code /\ manifest'.forced = run.forced
        /\ manifest'.request = run.request
        /\ manifest'.days = days' /\ manifest'.failed = failures
    BY <1>1, <1>3, <1>4, PersistFacts DEF IInv
  <1>6. TypeOK'
    BY <1>1, <1>5 DEF IInv, TypeOK, bounds
  <1>7. ModeInv'
    BY <1>1, <1>2, <1>5 DEF IInv, ModeInv
  <1>8. SyncInv' /\ CompleteInv' /\ FailInv'
    BY <1>1, <1>2, <1>4, <1>5, PersistKeeps
  <1>9. FilesInv'
    <2>1. manifest.code = run.code /\ manifest.forced = run.forced
      BY <1>2 DEF IInv, SyncInv, Active
    <2> QED BY <1>1, <1>5, <2>1 DEF IInv, FilesInv
  <1>10. ProgressInv'
    BY <1>1, <1>2, <1>4, <1>5 DEF IInv, ProgressInv, InPhase, Upto
  <1> QED BY <1>6, <1>7, <1>8, <1>9, <1>10 DEF IInv

LEMMA RaiseInPhaseStep == ASSUME IInv, RaiseInPhase PROVE IInv'
  <1>1. /\ pc \in {"work", "close"} /\ pc' = "raised" /\ progress.status = "IN_PROGRESS"
        /\ Persist(WithPhase("FAILED"))
        /\ UNCHANGED <<artifact, universe, run, failures, current, phase, bounds>>
    BY DEF RaiseInPhase
  <1>2. InPhase /\ InDay /\ InDay' /\ phase \in 1..LastPhase
    BY <1>1 DEF InDay, InPhase, IInv, ModeInv
  <1>3. "FAILED" \in PhaseStatus /\ current \in Dates
    BY <1>2, RequestFacts DEF PhaseStatus, IInv, ModeInv
  <1>4. /\ WithPhase("FAILED") \in DayRecords
        /\ WithPhase("FAILED").status = "IN_PROGRESS"
    BY <1>1, <1>2, <1>3, WithPhaseFacts DEF IInv
  <1> DEFINE record == WithPhase("FAILED")
  <1>5. /\ progress' = record /\ progress' \in DayRecords
        /\ days' = [days EXCEPT ![current] = record]
        /\ days' \in [Dates -> DayRecords]
        /\ manifest' \in Manifests
        /\ manifest'.status = "IN_PROGRESS"
        /\ manifest'.code = run.code /\ manifest'.forced = run.forced
        /\ manifest'.request = run.request
        /\ manifest'.days = days' /\ manifest'.failed = failures
    BY <1>1, <1>3, <1>4, PersistFacts DEF IInv
  <1>6. TypeOK'
    BY <1>1, <1>5 DEF IInv, TypeOK, bounds
  <1>7. ModeInv'
    BY <1>1, <1>2, <1>5 DEF IInv, ModeInv, InPhase
  <1>8. SyncInv' /\ CompleteInv' /\ FailInv'
    BY <1>1, <1>2, <1>4, <1>5, PersistKeeps
  <1>9. FilesInv'
    <2>1. manifest.code = run.code /\ manifest.forced = run.forced
      BY <1>2 DEF IInv, SyncInv, Active
    <2> QED BY <1>1, <1>5, <2>1 DEF IInv, FilesInv
  <1>10. ProgressInv'
    BY <1>1, <1>4, <1>5 DEF ProgressInv, InPhase
  <1> QED BY <1>6, <1>7, <1>8, <1>9, <1>10 DEF IInv

LEMMA RaiseBetweenStep == ASSUME IInv, RaiseBetween PROVE IInv'
  <1>1. /\ pc = "enter" /\ pc' = "raised"
        /\ manifest' = manifest /\ artifact' = artifact /\ universe' = universe
        /\ UNCHANGED <<run, days, failures, progress, current, phase, bounds>>
    BY DEF RaiseBetween, durable
  <1>2. InDay /\ InDay'
    BY <1>1 DEF InDay, InPhase
  <1>3. TypeOK' /\ ModeInv' /\ FilesInv' /\ ProgressInv'
    BY <1>1 DEF IInv, TypeOK, ModeInv, FilesInv, ProgressInv, InPhase, InDay, bounds
  <1>4. SyncInv' /\ CompleteInv' /\ FailInv'
    BY <1>1, <1>2, WorkKeeps
  <1> QED BY <1>3, <1>4 DEF IInv

LEMMA RecordFailureStep == ASSUME IInv, RecordFailure PROVE IInv'
  <1> DEFINE record == [progress EXCEPT !.status = "FAILED"]
  <1>1. /\ pc = "raised" /\ pc' = "escaped" /\ Persist(record)
        /\ UNCHANGED <<artifact, universe, run, failures, current, phase, bounds>>
    BY DEF RecordFailure
  <1>2. InDay /\ InDay'
    BY <1>1 DEF InDay, InPhase
  <1>3. current \in Dates
    BY <1>2, RequestFacts DEF IInv, ModeInv
  <1>4. record \in DayRecords /\ record.status = "FAILED"
    BY DEF IInv, TypeOK, DayRecords, DayStatus
  <1> HIDE DEF record
  <1>5. /\ progress' = record /\ progress' \in DayRecords
        /\ days' = [days EXCEPT ![current] = record]
        /\ days' \in [Dates -> DayRecords]
        /\ manifest' \in Manifests
        /\ manifest'.status = "IN_PROGRESS"
        /\ manifest'.code = run.code /\ manifest'.forced = run.forced
        /\ manifest'.request = run.request
        /\ manifest'.days = days' /\ manifest'.failed = failures
    BY <1>1, <1>3, <1>4, PersistFacts DEF IInv
  <1>6. TypeOK'
    BY <1>1, <1>5 DEF IInv, TypeOK, bounds
  <1>7. ModeInv'
    BY <1>1, <1>2, <1>5 DEF IInv, ModeInv, InPhase
  <1>8. SyncInv' /\ CompleteInv' /\ FailInv'
    BY <1>1, <1>2, <1>4, <1>5, PersistKeeps
  <1>9. FilesInv'
    <2>1. manifest.code = run.code /\ manifest.forced = run.forced
      BY <1>2 DEF IInv, SyncInv, Active
    <2> QED BY <1>1, <1>5, <2>1 DEF IInv, FilesInv
  <1>10. ProgressInv'
    BY <1>1, <1>4, <1>5 DEF ProgressInv, InPhase
  <1> QED BY <1>6, <1>7, <1>8, <1>9, <1>10 DEF IInv

-----------------------------------------------------------------------------
(* The work of a phase and the artifacts it leaves.                            *)

LEMMA UptoFacts ==
    ASSUME TypeOK, phase \in 1..LastPhase
    PROVE  /\ Name \in Evidence(run.request.smoke) =>
                  Upto(phase) = Upto(phase - 1) \cup {Name}
           /\ Name \notin Evidence(run.request.smoke) => Upto(phase) = Upto(phase - 1)
           /\ Upto(phase) \subseteq Phases /\ Upto(phase - 1) \subseteq Phases
           /\ phase = LastPhase => Upto(phase) = Evidence(run.request.smoke)
  <1>1. \A j \in 1..phase : j = phase \/ j \in 1..(phase - 1)
    BY PhaseFacts
  <1>2. \A j \in 1..(phase - 1) : j \in 1..phase
    BY PhaseFacts
  <1>3. run.request.smoke \in BOOLEAN
    BY RequestFacts
  <1>4. Evidence(run.request.smoke) \subseteq {REPLAY_PHASES[j] : j \in 1..LastPhase}
    BY <1>3, PhaseFacts, EvidenceFacts DEF Phases
  <1>5. Upto(phase) \subseteq Phases /\ Upto(phase - 1) \subseteq Phases
    BY <1>3, EvidenceFacts DEF Upto
  <1>6. phase \in 1..phase
    BY PhaseFacts
  <1> QED BY <1>1, <1>2, <1>4, <1>5, <1>6 DEF Upto, Name

\* the phases that write: all but the download and what a smoke run skips
LEMMA NameFacts ==
    ASSUME TypeOK, phase \in 1..LastPhase
    PROVE  /\ Name \in Phases
           /\ Name \in Evidence(run.request.smoke) <=> (Name # "download" /\ ~Skipped)
  <1>1. Name \in Phases
    BY PhaseFacts DEF Name
  <1> QED BY <1>1 DEF Evidence, Skipped

\* the universe phase is behind once a later phase runs
LEMMA PassedFacts ==
    ASSUME TypeOK, phase \in 1..LastPhase, Name = "universe"
    PROVE  \A j \in 1..(phase - 1) : REPLAY_PHASES[j] # "universe"
  <1>1. \A j \in 1..(phase - 1) : j \in 1..LastPhase /\ j # phase
    BY PhaseFacts
  <1> QED BY <1>1, PhaseFacts DEF Name

LEMMA WrittenStep ==
    ASSUME IInv, pc = "work", pc' = "close", Name \in Evidence(run.request.smoke),
           artifact' = [artifact EXCEPT ![current][Name] = run.code],
           progress' = [progress EXCEPT !.artifacts = @ \cup {Name}],
           universe' \in [Dates -> Universes],
           \A d \in Dates : d # current => universe'[d] = universe[d],
           Name # "universe" => universe' = universe,
           UNCHANGED <<manifest, run, days, failures, current, phase, bounds>>
    PROVE  IInv'
  <1>1. InPhase /\ InDay /\ InDay' /\ InPhase' /\ phase \in 1..LastPhase
    BY DEF InDay, InPhase, IInv, ModeInv
  <1>2. current \in Dates /\ run.code \in Codes /\ Name \in Phases
    BY <1>1, RequestFacts, NameFacts DEF IInv, ModeInv
  <1>3. /\ artifact' \in [Dates -> [Phases -> Codes \cup {"NONE", "LOST"}]]
        /\ artifact'[current][Name] = run.code
        /\ \A p \in Phases : p # Name => artifact'[current][p] = artifact[current][p]
        /\ \A d \in Dates : d # current => artifact'[d] = artifact[d]
    BY <1>2 DEF IInv, TypeOK
  <1>4. /\ progress' \in DayRecords /\ progress'.status = progress.status
        /\ progress'.artifacts = progress.artifacts \cup {Name}
    BY <1>2 DEF IInv, TypeOK, DayRecords
  <1>5. TypeOK'
    BY <1>3, <1>4 DEF IInv, TypeOK, bounds
  <1>6. ModeInv'
    BY <1>1 DEF IInv, ModeInv
  <1>7. SyncInv' /\ CompleteInv' /\ FailInv'
    BY <1>1, <1>3, WorkKeeps
  <1>8. FilesInv'
    <2>1. manifest.code = run.code
      BY <1>1 DEF IInv, SyncInv, Active
    <2>2. \A d \in Dates : universe'[d] # NoUniverse => artifact'[d]["universe"] # "NONE"
      <3>1. "universe" \in Phases /\ run.code # "NONE"
        BY <1>2, PhaseFacts, CodesAssumption
      <3> QED BY <1>2, <1>3, <3>1 DEF IInv, FilesInv
    <2>3. ~NoResumeAllowed /\ ~manifest.forced =>
              \A d \in Dates, p \in Phases : artifact'[d][p] \in {manifest.code, "NONE", "LOST"}
      <3> SUFFICES ASSUME ~NoResumeAllowed, ~manifest.forced,
                          NEW d \in Dates, NEW p \in Phases
                   PROVE  artifact'[d][p] \in {manifest.code, "NONE", "LOST"}
        OBVIOUS
      <3>1. artifact[d][p] \in {manifest.code, "NONE", "LOST"}
        BY DEF IInv, FilesInv
      <3>2. artifact'[d][p] = artifact[d][p] \/ artifact'[d][p] = run.code
        BY <1>2, <1>3
      <3> QED BY <2>1, <3>1, <3>2
    <2> QED BY <2>2, <2>3 DEF FilesInv
  <1>9. ProgressInv'
    <2>1. progress'.artifacts = Upto(phase)'
      <3>1. progress.artifacts = Upto(phase - 1)
        BY DEF IInv, ProgressInv
      <3>2. Upto(phase)' = Upto(phase)
        BY DEF Upto
      <3> QED BY <1>1, <1>4, <3>1, <3>2, UptoFacts DEF IInv
    <2>2. \A j \in 1..(phase - 1) :
              REPLAY_PHASES[j] = "universe" => universe'[current].coverage = "complete"
      BY <1>1, PassedFacts DEF IInv, ProgressInv
    <2>3. \A p \in progress'.artifacts :
              /\ artifact'[current][p] \in Codes
              /\ p \notin Inherited /\ ~run.forced => artifact'[current][p] = run.code
      <3>1. progress.artifacts \subseteq Phases
        BY DEF IInv, TypeOK, DayRecords
      <3> QED BY <1>1, <1>2, <1>3, <1>4, <3>1 DEF IInv, ProgressInv
    <2>4. progress'.status = "IN_PROGRESS"
      BY <1>4 DEF IInv, ProgressInv
    <2>5. Inherited' = Inherited
      BY DEF Inherited
    <2> QED BY <2>1, <2>2, <2>3, <2>4, <2>5 DEF ProgressInv, InPhase
  <1> QED BY <1>5, <1>6, <1>7, <1>8, <1>9 DEF IInv

LEMMA WorkPhaseStep == ASSUME IInv, WorkPhase PROVE IInv'
  <1>1. pc = "work" /\ phase \in 1..LastPhase
    BY DEF WorkPhase, IInv, ModeInv, InPhase
  <1>2. Name \in Evidence(run.request.smoke) /\ Name # "universe"
    BY <1>1, NameFacts DEF WorkPhase, IInv
  <1>3. universe \in [Dates -> Universes]
    BY DEF IInv, TypeOK
  <1> QED BY <1>1, <1>2, <1>3, WrittenStep DEF WorkPhase, Wrote

LEMMA ScoreSomeStep == ASSUME IInv, ScoreSome PROVE IInv'
  <1>1. pc = "work" /\ phase \in 1..LastPhase
    BY DEF ScoreSome, IInv, ModeInv, InPhase
  <1>2. Name \in Evidence(run.request.smoke) /\ Name # "universe"
    BY <1>1, NameFacts DEF ScoreSome, IInv, Skipped
  <1>3. universe \in [Dates -> Universes]
    BY DEF IInv, TypeOK
  <1> QED BY <1>1, <1>2, <1>3, WrittenStep DEF ScoreSome, Wrote

LEMMA BuildUniverseStep ==
    ASSUME IInv, NEW coverage \in {"complete", "incomplete"}, BuildUniverse(coverage)
    PROVE  IInv'
  <1>1. pc = "work" /\ phase \in 1..LastPhase /\ current \in Dates
    BY RequestFacts DEF BuildUniverse, IInv, ModeInv, InPhase, InDay
  <1>2. Name \in Evidence(run.request.smoke) /\ Name = "universe"
    BY <1>1, NameFacts DEF BuildUniverse, IInv, Skipped
  <1>3. /\ universe' \in [Dates -> Universes]
        /\ \A d \in Dates : d # current => universe'[d] = universe[d]
    <2>1. [coverage |-> coverage, smoke |-> run.request.smoke] \in Universes
      BY RequestFacts DEF Universes, IInv
    <2> QED BY <1>1, <2>1 DEF BuildUniverse, IInv, TypeOK
  <1> QED BY <1>1, <1>2, <1>3, WrittenStep DEF BuildUniverse, Wrote

LEMMA WorkNothingStep == ASSUME IInv, WorkNothing PROVE IInv'
  <1>1. /\ pc = "work" /\ pc' = "close" /\ (Name = "download" \/ Skipped)
        /\ manifest' = manifest /\ artifact' = artifact /\ universe' = universe
        /\ UNCHANGED <<run, days, failures, progress, current, phase, bounds>>
    BY DEF WorkNothing, durable
  <1>2. InPhase /\ InDay /\ InDay' /\ InPhase' /\ phase \in 1..LastPhase
    BY <1>1 DEF InDay, InPhase, IInv, ModeInv
  <1>3. TypeOK' /\ ModeInv' /\ FilesInv'
    BY <1>1, <1>2 DEF IInv, TypeOK, ModeInv, FilesInv, bounds
  <1>4. SyncInv' /\ CompleteInv' /\ FailInv'
    BY <1>1, <1>2, WorkKeeps
  <1>5. ProgressInv'
    <2>1. Upto(phase) = Upto(phase - 1) /\ Upto(phase)' = Upto(phase)
      BY <1>1, <1>2, NameFacts, UptoFacts DEF IInv, Upto
    <2> QED BY <1>1, <1>2, <2>1 DEF IInv, ProgressInv, InPhase, Inherited
  <1> QED BY <1>3, <1>4, <1>5 DEF IInv

LEMMA ReuseUniverseStep == ASSUME IInv, ReuseUniverse PROVE IInv'
  <1>1. /\ pc = "work" /\ pc' = "close" /\ Name = "universe"
        /\ artifact[current]["universe"] \in Codes
        /\ progress' = [progress EXCEPT !.artifacts = @ \cup {Name}]
        /\ manifest' = manifest /\ artifact' = artifact /\ universe' = universe
        /\ UNCHANGED <<run, days, failures, current, phase, bounds>>
    BY DEF ReuseUniverse, durable
  <1>2. InPhase /\ InDay /\ InDay' /\ InPhase' /\ phase \in 1..LastPhase
    BY <1>1 DEF InDay, InPhase, IInv, ModeInv
  <1>3. Name \in Evidence(run.request.smoke) /\ Name \in Phases /\ current \in Dates
    BY <1>1, <1>2, NameFacts, RequestFacts DEF IInv, ModeInv, Skipped
  <1>4. /\ progress' \in DayRecords /\ progress'.status = progress.status
        /\ progress'.artifacts = progress.artifacts \cup {"universe"}
    BY <1>1, <1>3 DEF IInv, TypeOK, DayRecords
  <1>5. TypeOK' /\ ModeInv' /\ FilesInv'
    BY <1>1, <1>2, <1>4 DEF IInv, TypeOK, ModeInv, FilesInv, bounds
  <1>6. SyncInv' /\ CompleteInv' /\ FailInv'
    BY <1>1, <1>2, WorkKeeps
  <1>7. ProgressInv'
    <2>1. Upto(phase) = Upto(phase - 1) \cup {Name} /\ Upto(phase)' = Upto(phase)
      BY <1>1, <1>2, <1>3, UptoFacts DEF IInv, Upto
    <2>2. "universe" \notin Inherited /\ ~run.forced => artifact[current]["universe"] = run.code
      <3> SUFFICES ASSUME "universe" \notin Inherited, ~run.forced
                   PROVE  artifact[current]["universe"] = run.code
        OBVIOUS
      <3>1. ~NoResumeAllowed
        BY DEF Inherited
      <3>2. manifest.code = run.code /\ ~manifest.forced
        BY <1>2 DEF IInv, SyncInv, Active
      <3>3. artifact[current]["universe"] \in {manifest.code, "NONE", "LOST"}
        BY <1>3, <3>1, <3>2, PhaseFacts DEF IInv, FilesInv
      <3> QED BY <1>1, <3>2, <3>3, CodesAssumption
    <2> QED BY <1>1, <1>2, <1>4, <2>1, <2>2 DEF IInv, ProgressInv, InPhase, Inherited
  <1> QED BY <1>5, <1>6, <1>7 DEF IInv

LEMMA ScoreNoneStep == ASSUME IInv, ScoreNone PROVE IInv'
  <1> DEFINE later == {REPLAY_PHASES[k] : k \in (ScoringIndex + 1)..LastPhase}
  <1> DEFINE statuses == [p \in Phases |->
                 IF \E k \in (ScoringIndex + 1)..LastPhase : p = REPLAY_PHASES[k]
                 THEN "SKIPPED" ELSE progress.phase_status[p]]
  <1> DEFINE record == [progress EXCEPT !.status = "FAILED", !.artifacts = @ \cup {Name},
                                        !.phase_status = statuses]
  <1>1. /\ pc = "work" /\ pc' = "close" /\ Name = "scoring"
        /\ artifact' = [artifact EXCEPT ![current][Name] = run.code]
        /\ Persist(record)
        /\ UNCHANGED <<universe, run, failures, current, phase, bounds>>
    BY DEF ScoreNone
  <1>2. InPhase /\ InDay /\ InDay' /\ InPhase' /\ phase \in 1..LastPhase
    BY <1>1 DEF InDay, InPhase, IInv, ModeInv
  <1>3. /\ current \in Dates /\ run.code \in Codes
        /\ Name \in Phases /\ Name \in Evidence(run.request.smoke)
    BY <1>1, <1>2, RequestFacts, NameFacts DEF IInv, ModeInv, Skipped
  <1>4. statuses \in [Phases -> PhaseStatus]
    BY DEF IInv, TypeOK, DayRecords, PhaseStatus
  <1>5. /\ record \in DayRecords /\ record.status = "FAILED"
        /\ record.artifacts = progress.artifacts \cup {Name}
    <2> HIDE DEF statuses
    <2> QED BY <1>3, <1>4 DEF IInv, TypeOK, DayRecords, DayStatus
  <1> HIDE DEF record
  <1>6. /\ progress' = record /\ progress' \in DayRecords
        /\ days' = [days EXCEPT ![current] = record]
        /\ days' \in [Dates -> DayRecords]
        /\ manifest' \in Manifests
        /\ manifest'.status = "IN_PROGRESS"
        /\ manifest'.code = run.code /\ manifest'.forced = run.forced
        /\ manifest'.request = run.request
        /\ manifest'.days = days' /\ manifest'.failed = failures
    BY <1>1, <1>3, <1>5, PersistFacts DEF IInv
  <1>7. /\ artifact' \in [Dates -> [Phases -> Codes \cup {"NONE", "LOST"}]]
        /\ artifact'[current][Name] = run.code
        /\ \A p \in Phases : p # Name => artifact'[current][p] = artifact[current][p]
        /\ \A d \in Dates : d # current => artifact'[d] = artifact[d]
    BY <1>1, <1>3 DEF IInv, TypeOK
  <1>8. TypeOK'
    BY <1>1, <1>6, <1>7 DEF IInv, TypeOK, bounds
  <1>9. ModeInv'
    BY <1>1, <1>2, <1>6 DEF IInv, ModeInv
  <1>10. SyncInv' /\ CompleteInv' /\ FailInv'
    BY <1>1, <1>2, <1>5, <1>6, <1>7, PersistKeeps
  <1>11. FilesInv'
    <2>1. manifest.code = run.code /\ manifest.forced = run.forced
      BY <1>2 DEF IInv, SyncInv, Active
    <2>2. \A d \in Dates : universe[d] # NoUniverse => artifact'[d]["universe"] # "NONE"
      BY <1>1, <1>7, PhaseFacts DEF IInv, FilesInv
    <2>3. ASSUME ~NoResumeAllowed, ~run.forced, NEW d \in Dates, NEW p \in Phases
          PROVE  artifact'[d][p] \in {run.code, "NONE", "LOST"}
      <3>1. artifact[d][p] \in {run.code, "NONE", "LOST"}
        BY <2>1, <2>3 DEF IInv, FilesInv
      <3>2. artifact'[d][p] = artifact[d][p] \/ artifact'[d][p] = run.code
        BY <1>3, <1>7
      <3> QED BY <3>1, <3>2
    <2> QED BY <1>1, <1>6, <2>2, <2>3 DEF FilesInv
  <1>12. ProgressInv'
    <2>1. Upto(phase) = Upto(phase - 1) \cup {Name} /\ Upto(phase)' = Upto(phase)
      BY <1>1, <1>2, <1>3, UptoFacts DEF IInv, Upto
    <2>2. \A p \in record.artifacts :
              /\ artifact'[current][p] \in Codes
              /\ p \notin Inherited /\ ~run.forced => artifact'[current][p] = run.code
      <3>1. progress.artifacts \subseteq Phases
        BY DEF IInv, TypeOK, DayRecords
      <3> QED BY <1>2, <1>3, <1>5, <1>7, <3>1 DEF IInv, ProgressInv
    <2>3. progress.artifacts = Upto(phase - 1)
      BY <1>1 DEF IInv, ProgressInv
    <2>4. \A j \in 1..(phase - 1) :
              REPLAY_PHASES[j] = "universe" => universe[current].coverage = "complete"
      BY <1>2 DEF IInv, ProgressInv
    <2> QED BY <1>1, <1>5, <1>6, <2>1, <2>2, <2>3, <2>4 DEF ProgressInv, InPhase, Inherited
  <1> QED BY <1>8, <1>9, <1>10, <1>11, <1>12 DEF IInv

LEMMA ClosePhaseStep == ASSUME IInv, ClosePhase PROVE IInv'
  <1> DEFINE record == WithPhase(IF Skipped THEN "SKIPPED" ELSE "COMPLETE")
  <1>1. /\ pc = "close"
        /\ days' = [days EXCEPT ![current] = record]
        /\ manifest' = Manifest("IN_PROGRESS", days', failures)
        /\ UNCHANGED <<artifact, universe, run, failures, current, bounds>>
    BY DEF ClosePhase, Checkpoint
  <1>2. InPhase /\ InDay /\ phase \in 1..LastPhase /\ current \in Dates
    BY <1>1, RequestFacts DEF InDay, InPhase, IInv, ModeInv
  <1>3. /\ record \in DayRecords /\ record.status = progress.status
        /\ record.artifacts = progress.artifacts
    BY <1>1, <1>2, WithPhaseFacts DEF IInv, PhaseStatus
  <1>4. \/ /\ Unsupported
           /\ progress' = [record EXCEPT !.status = "UNSUPPORTED"]
           /\ pc' = "returned" /\ phase' = 0
        \/ /\ record.status = "FAILED"
           /\ progress' = record /\ pc' = "returned" /\ phase' = 0
        \/ /\ ~Unsupported /\ record.status # "FAILED" /\ phase = LastPhase
           /\ progress' = [record EXCEPT !.status = "COMPLETE"]
           /\ pc' = "returned" /\ phase' = 0
        \/ /\ ~Unsupported /\ record.status # "FAILED" /\ phase < LastPhase
           /\ progress' = record /\ pc' = "enter" /\ phase' = phase + 1
    BY DEF ClosePhase
  <1> HIDE DEF record
  <1>5. pc' \in {"returned", "enter"} /\ phase' \in 0..LastPhase
    BY <1>2, <1>4, PhaseFacts
  <1>6. /\ progress' \in DayRecords /\ progress'.artifacts = progress.artifacts
        /\ progress'.phase_status = record.phase_status
    BY <1>3, <1>4 DEF DayRecords, DayStatus
  <1>7. days' \in [Dates -> DayRecords]
    BY <1>1, <1>3 DEF IInv, TypeOK
  <1>8. /\ manifest' \in Manifests /\ manifest'.status = "IN_PROGRESS"
        /\ manifest'.code = run.code /\ manifest'.forced = run.forced
        /\ manifest'.request = run.request
        /\ manifest'.days = days' /\ manifest'.failed = failures
    BY <1>1, <1>7 DEF IInv, TypeOK, RunStatus, Manifest, Manifests
  <1>9. TypeOK'
    BY <1>1, <1>5, <1>6, <1>7, <1>8 DEF IInv, TypeOK, bounds
  <1>10. ModeInv'
    <2>1. pc' = "enter" => phase' \in 1..LastPhase
      BY <1>2, <1>4, PhaseFacts
    <2> QED BY <1>1, <1>2, <1>5, <1>8, <2>1 DEF IInv, ModeInv, InDay, InPhase
  <1>11. progress.status \in {"IN_PROGRESS", "FAILED"}
    BY <1>1 DEF IInv, ProgressInv
  <1>12. SyncInv' /\ CompleteInv' /\ FailInv'
    <2>1. InDay' /\ pc' # "escaped"
      BY <1>5 DEF InDay, InPhase
    <2> QED BY <1>1, <1>2, <1>3, <1>8, <1>11, <2>1, PersistKeeps
  <1>13. FilesInv'
    <2>1. manifest.code = run.code /\ manifest.forced = run.forced
      BY <1>2 DEF IInv, SyncInv, Active
    <2> QED BY <1>1, <1>8, <2>1 DEF IInv, FilesInv
  <1>14. ProgressInv'
    <2>1. progress.artifacts = Upto(phase)
      BY <1>1 DEF IInv, ProgressInv
    <2>2. \A p \in progress.artifacts :
              /\ artifact[current][p] \in Codes
              /\ p \notin Inherited /\ ~run.forced => artifact[current][p] = run.code
      BY <1>2 DEF IInv, ProgressInv
    <2>3. ~Unsupported => \A j \in 1..phase :
              REPLAY_PHASES[j] = "universe" => universe[current].coverage = "complete"
      <3>1. \A j \in 1..phase : j = phase \/ j \in 1..(phase - 1)
        BY <1>2, PhaseFacts
      <3>2. \A j \in 1..(phase - 1) :
                REPLAY_PHASES[j] = "universe" => universe[current].coverage = "complete"
        BY <1>2 DEF IInv, ProgressInv
      <3> QED BY <3>1, <3>2 DEF Unsupported, Name
    <2>4. CASE pc' = "returned"
      <3>1. progress'.status \in {"COMPLETE", "FAILED", "UNSUPPORTED"}
        BY <1>3, <1>4, <2>4 DEF DayRecords
      <3>2. progress'.status = "COMPLETE" => ~Unsupported /\ phase = LastPhase
        BY <1>3, <1>4, <2>4 DEF DayRecords
      <3>3. progress'.status = "COMPLETE" =>
                /\ progress'.artifacts = Evidence(run.request.smoke)
                /\ universe[current].coverage = "complete"
        BY <1>2, <1>6, <2>1, <2>3, <3>2, UptoFacts, PhaseFacts DEF IInv, Phases
      <3> QED BY <1>1, <1>6, <2>2, <2>4, <3>1, <3>3 DEF ProgressInv, InPhase, Inherited
    <2>5. CASE pc' = "enter"
      <3>1. /\ phase' - 1 = phase /\ progress' = record /\ progress'.status = "IN_PROGRESS"
            /\ ~Unsupported
        BY <1>2, <1>3, <1>4, <1>11, <2>5, PhaseFacts
      <3>2. (Upto(phase - 1))' = Upto(phase)
        BY <1>1, <3>1 DEF Upto
      <3> QED BY <1>1, <1>6, <2>1, <2>2, <2>3, <2>5, <3>1, <3>2 DEF ProgressInv, InPhase, Inherited
    <2> QED BY <1>5, <2>4, <2>5
  <1> QED BY <1>9, <1>10, <1>12, <1>13, <1>14 DEF IInv

\* the day is over: its record and its failure reach memory and manifest
LEMMA EndDayStep ==
    ASSUME IInv, InDay, NEW record \in DayRecords, NEW failed \in SUBSET Dates,
           EndDay(record, failed),
           IF record.status = "COMPLETE"
           THEN /\ failed = failures \ {current}
                /\ record.artifacts = Evidence(run.request.smoke)
                /\ universe[current].coverage = "complete"
                /\ \A p \in record.artifacts :
                       /\ artifact[current][p] \in Codes
                       /\ p \notin Inherited /\ ~run.forced => artifact[current][p] = run.code
           ELSE failed = failures \cup {current} /\ record.status \in {"FAILED", "UNSUPPORTED"}
    PROVE  IInv'
  <1>1. current \in Dates /\ current \in run.request.dates /\ pc # "idle" /\ Active
    BY RequestFacts DEF IInv, ModeInv, InDay, InPhase, Active
  <1>2. /\ days' \in [Dates -> DayRecords]
        /\ days'[current] = record
        /\ \A d \in Dates : d # current => days'[d] = days[d]
        /\ failures' = failed
        /\ manifest' \in Manifests
        /\ manifest'.status = "IN_PROGRESS"
        /\ manifest'.code = run.code /\ manifest'.forced = run.forced
        /\ manifest'.request = run.request
        /\ manifest'.days = days' /\ manifest'.failed = failed
        /\ pc' = "loop" /\ progress' = AbsentDay /\ phase' = 0
        /\ UNCHANGED <<artifact, universe, run, current, bounds>>
    BY <1>1, EndDayFacts DEF IInv
  <1>3. TypeOK'
    BY <1>2, RecordFacts, PhaseFacts DEF IInv, TypeOK, bounds
  <1>4. ModeInv' /\ ProgressInv' /\ SyncInv'
    BY <1>1, <1>2 DEF IInv, ModeInv, ProgressInv, SyncInv, Active, InDay, InPhase
  <1>5. FilesInv'
    <2>1. manifest.code = run.code /\ manifest.forced = run.forced
      BY <1>1 DEF IInv, SyncInv
    <2> QED BY <1>2, <2>1 DEF IInv, FilesInv
  <1>6. CompleteInv'
    <2>1. Backed(days, run.request.smoke)'
      BY <1>1, <1>2, CodesAssumption DEF IInv, CompleteInv, Backed
    <2>2. ~run.forced => OneCode(days, run.code)'
      BY <1>1, <1>2 DEF IInv, CompleteInv, OneCode, Inherited
    <2> QED BY <1>2, <2>1, <2>2 DEF CompleteInv, Backed, OneCode
  <1>7. FailInv'
    <2>1. CompletedIn(days)' \cap failed = {} /\ failed \subseteq run.request.dates
          /\ CompletedIn(days)' \subseteq run.request.dates
      BY <1>1, <1>2 DEF IInv, FailInv, CompletedIn
    <2>2. \A d \in run.request.dates : d < current => Settled(d)'
      <3>1. \A d \in run.request.dates : d \in Dates /\ (d < current => d # current)
        BY <1>1, RequestFacts, DateFacts DEF IInv
      <3>2. \A d \in Dates : d # current => (d \in failed <=> d \in failures)
        OBVIOUS
      <3> QED BY <1>1, <1>2, <3>1, <3>2 DEF IInv, FailInv, Settled
    <2>3. Settled(current)'
      BY <1>1, <1>2 DEF Settled
    <2>4. CompletedIn(manifest.days)' = CompletedIn(days)'
      BY <1>2 DEF CompletedIn
    <2> QED BY <1>1, <1>2, <2>1, <2>2, <2>3, <2>4 DEF FailInv, CompletedNotFailed,
               TerminalIsSettled, InDay, InPhase
  <1> QED BY <1>3, <1>4, <1>5, <1>6, <1>7 DEF IInv

LEMMA DayFailedStep == ASSUME IInv, DayFailed PROVE IInv'
  <1> DEFINE record == [days[current] EXCEPT !.status = "FAILED"]
  <1>1. pc = "escaped" /\ InDay /\ EndDay(record, failures \cup {current})
    BY DEF DayFailed, InDay, InPhase
  <1>2. current \in Dates
    BY <1>1, RequestFacts DEF IInv, ModeInv
  <1>3. record \in DayRecords /\ record.status = "FAILED"
    BY <1>2 DEF IInv, TypeOK, DayRecords, DayStatus
  <1> HIDE DEF record
  <1>4. failures \cup {current} \in SUBSET Dates
    BY <1>2 DEF IInv, TypeOK
  <1> QED BY <1>1, <1>3, <1>4, EndDayStep

LEMMA DayReturnedStep == ASSUME IInv, DayReturned PROVE IInv'
  <1>1. pc = "returned" /\ InDay /\ EndDay(progress, FailuresAfterDay)
    BY DEF DayReturned, InDay, InPhase
  <1>2. current \in Dates
    BY <1>1, RequestFacts DEF IInv, ModeInv
  <1>3. progress \in DayRecords /\ progress.status \in {"COMPLETE", "FAILED", "UNSUPPORTED"}
    BY <1>1 DEF IInv, TypeOK, ProgressInv
  <1>4. FailuresAfterDay \in SUBSET Dates
    BY <1>2 DEF IInv, TypeOK, FailuresAfterDay
  <1>5. progress.status = "COMPLETE" =>
            /\ progress.artifacts = Evidence(run.request.smoke)
            /\ universe[current].coverage = "complete"
    BY <1>1 DEF IInv, ProgressInv
  <1>6. \A p \in progress.artifacts :
            /\ artifact[current][p] \in Codes
            /\ p \notin Inherited /\ ~run.forced => artifact[current][p] = run.code
    BY <1>1 DEF IInv, ProgressInv
  <1>7. FailuresAfterDay = IF progress.status = "COMPLETE" THEN failures \ {current}
                           ELSE failures \cup {current}
    BY DEF FailuresAfterDay
  <1> QED BY <1>1, <1>3, <1>4, <1>5, <1>6, <1>7, EndDayStep

-----------------------------------------------------------------------------
(* Every step keeps the invariant.                                             *)

LEMMA LaunchStep == ASSUME IInv, Launch PROVE IInv'
  <1> PICK code \in Codes, request \in Requests, budget \in BOOLEAN :
          \/ \E resume \in BOOLEAN : LaunchFresh(code, request, resume, budget)
          \/ LaunchArchiving(code, request, budget)
          \/ \E force \in BOOLEAN : \/ LaunchResuming(code, request, budget, force)
                                    \/ LaunchRejected(code, request, force)
    BY DEF Launch
  <1>1. CASE \E resume \in BOOLEAN : LaunchFresh(code, request, resume, budget)
    BY <1>1, LaunchFreshStep
  <1>2. CASE LaunchArchiving(code, request, budget)
    BY <1>2, LaunchArchivingStep
  <1>3. ASSUME NEW force \in BOOLEAN, LaunchResuming(code, request, budget, force) PROVE IInv'
    BY <1>3, LaunchResumingStep
  <1>4. ASSUME NEW force \in BOOLEAN, LaunchRejected(code, request, force) PROVE IInv'
    <2>1. UNCHANGED <<durable, memory, crashes, losses>> /\ launches' = launches + 1
      BY <1>4 DEF LaunchRejected
    <2> QED BY <2>1 DEF IInv, durable, memory, TypeOK, ModeInv, SyncInv, FilesInv,
            ProgressInv, CompleteInv, FailInv, InPhase, InDay, Active, Backed, OneCode,
            Settled, Upto, CompletedNotFailed, TerminalIsSettled, CompletedIn, Intact,
            Differs
  <1> QED BY <1>1, <1>2, <1>3, <1>4

LEMMA DayStep == ASSUME IInv, Day PROVE IInv'
  <1>1. CASE EnterPhase \/ WorkPhase \/ WorkNothing \/ ReuseUniverse
    BY <1>1, EnterPhaseStep, WorkPhaseStep, WorkNothingStep, ReuseUniverseStep
  <1>2. ASSUME NEW c \in {"complete", "incomplete"}, BuildUniverse(c) PROVE IInv'
    BY <1>2, BuildUniverseStep
  <1>3. CASE ScoreSome \/ ScoreNone \/ ClosePhase
    BY <1>3, ScoreSomeStep, ScoreNoneStep, ClosePhaseStep
  <1>4. CASE RaiseInPhase \/ RaiseBetween \/ RecordFailure
    BY <1>4, RaiseInPhaseStep, RaiseBetweenStep, RecordFailureStep
  <1>5. CASE DayFailed \/ DayReturned
    BY <1>5, DayFailedStep, DayReturnedStep
  <1> QED BY <1>1, <1>2, <1>3, <1>4, <1>5 DEF Day

LEMMA InvStep == ASSUME IInv, [Next]_vars PROVE IInv'
  <1>1. CASE Launch
    BY <1>1, LaunchStep
  <1>2. CASE Run
    <2>1. CASE Start \/ Finish \/ Day
      BY <2>1, StartStep, FinishStep, DayStep
    <2>2. ASSUME NEW d \in Dates, SkipDay(d) \/ Pause(d) \/ BeginDay(d) PROVE IInv'
      BY <2>2, SkipDayStep, PauseStep, BeginDayStep
    <2> QED BY <1>2, <2>1, <2>2 DEF Run
  <1>3. CASE Environment
    <2>1. CASE Crash
      BY <2>1, CrashStep
    <2>2. ASSUME NEW d \in Dates, NEW p \in Phases, LoseArtifact(d, p) PROVE IInv'
      BY <2>2, LoseArtifactStep
    <2> QED BY <1>3, <2>1, <2>2 DEF Environment
  <1>4. CASE UNCHANGED vars
    BY <1>4, StutterStep
  <1> QED BY <1>1, <1>2, <1>3, <1>4 DEF Next

\* the inductive invariant holds in every reachable state
THEOREM Invariance == Spec => []IInv
  <1>1. Init => IInv
    BY InitInv
  <1>2. IInv /\ [Next]_vars => IInv'
    BY InvStep
  <1> QED BY <1>1, <1>2, PTL DEF Spec

-----------------------------------------------------------------------------
(* The safety properties.                                                      *)

\* Every value keeps its type, whatever the dates, phases and provenances.
THEOREM TypeCorrect == Spec => []TypeOK
  <1>1. IInv => TypeOK
    BY DEF IInv
  <1> QED BY <1>1, Invariance, PTL

\* A day reported complete has its whole evidence and a complete universe.
THEOREM CompleteDaysAreBacked == Spec => []CompleteDayIsBacked
  <1>1. IInv => CompleteDayIsBacked
    BY DEF IInv, CompleteInv, Backed, CompleteDayIsBacked, CompletedIn
  <1> QED BY <1>1, Invariance, PTL

\* Evidence of two provenances is never reported as one, unless forced.
THEOREM EvidenceIsOfOneCode == Spec => []EvidenceOfOneCode
  <1>1. IInv => EvidenceOfOneCode
    BY DEF IInv, CompleteInv, OneCode, Inherited, EvidenceOfOneCode, CompletedIn
  <1> QED BY <1>1, Invariance, PTL

\* No date is both completed and failed.
THEOREM NoDateIsBoth == Spec => []CompletedNotFailed
  <1>1. IInv => CompletedNotFailed
    BY DEF IInv, FailInv
  <1> QED BY <1>1, Invariance, PTL

\* A run that ended has settled every date it was asked for.
THEOREM EndedRunsAreSettled == Spec => []TerminalIsSettled
  <1>1. IInv => TerminalIsSettled
    BY DEF IInv, FailInv
  <1> QED BY <1>1, Invariance, PTL

-----------------------------------------------------------------------------
(* What a step does to the files, and the properties of steps.                 *)

\* a step of a day leaves manifest records, artifacts and universes of the other
\* days alone, and rewrites files only of a day the manifest does not complete
LEMMA DayEffect ==
    ASSUME IInv, Day
    PROVE  /\ InDay /\ current \in Dates
           /\ manifest.code \in Codes /\ manifest'.code = manifest.code
           /\ \A e \in Dates : e # current =>
                  manifest'.days[e] = manifest.days[e] /\ artifact'[e] = artifact[e]
           /\ \/ artifact' = artifact
              \/ /\ manifest.days[current].status # "COMPLETE"
                 /\ manifest'.days[current].status # "COMPLETE"
  <1>1. InDay /\ run' = run /\ current' = current /\ Active'
    BY DEF Day, EnterPhase, WorkPhase, WorkNothing, BuildUniverse, ReuseUniverse,
           ScoreSome, ScoreNone, ClosePhase, RaiseInPhase, RaiseBetween, RecordFailure,
           DayFailed, DayReturned, EndDay, InDay, InPhase, Active
  <1>2. IInv'
    BY DayStep
  <1>3. current \in Dates /\ run.code \in Codes
    BY <1>1, RequestFacts DEF IInv, ModeInv, InDay, InPhase
  <1>4. manifest.code = run.code /\ manifest'.code = run.code
    BY <1>1, <1>2 DEF IInv, SyncInv, Active
  <1>5. ASSUME NEW e \in Dates, e # current
        PROVE  days'[e] = days[e] /\ artifact'[e] = artifact[e]
    <2>1. \/ days' = days
          \/ \E record : days' = [days EXCEPT ![current] = record]
      BY DEF Day, EnterPhase, WorkPhase, WorkNothing, BuildUniverse, ReuseUniverse,
             ScoreSome, ScoreNone, ClosePhase, RaiseInPhase, RaiseBetween, RecordFailure,
             DayFailed, DayReturned, EndDay, Persist
    <2>2. \/ artifact' = artifact
          \/ artifact' = [artifact EXCEPT ![current][Name] = run.code]
      BY DEF Day, EnterPhase, WorkPhase, WorkNothing, BuildUniverse, ReuseUniverse,
             ScoreSome, ScoreNone, ClosePhase, RaiseInPhase, RaiseBetween, RecordFailure,
             DayFailed, DayReturned, EndDay, Wrote, durable
    <2> QED BY <1>5, <2>1, <2>2 DEF IInv, TypeOK
  <1>6. ASSUME NEW e \in Dates, e # current PROVE manifest'.days[e] = manifest.days[e]
    <2>1. manifest.days[e] = days[e]
      BY <1>1, <1>6 DEF IInv, SyncInv, Active
    <2>2. manifest'.days[e] = days'[e]
      BY <1>1, <1>2, <1>6 DEF IInv, SyncInv
    <2> QED BY <1>5, <1>6, <2>1, <2>2
  <1>7. CASE artifact' # artifact
    <2>1. pc = "work" /\ pc' = "close"
      BY <1>7 DEF Day, EnterPhase, WorkPhase, WorkNothing, BuildUniverse, ReuseUniverse,
             ScoreSome, ScoreNone, ClosePhase, RaiseInPhase, RaiseBetween, RecordFailure,
             DayFailed, DayReturned, EndDay, durable
    <2>2. manifest.days[current].status # "COMPLETE"
      BY <2>1 DEF IInv, SyncInv
    <2>3. manifest'.days[current].status # "COMPLETE"
      BY <1>1, <1>2, <2>1 DEF IInv, SyncInv
    <2> QED BY <1>1, <1>3, <1>4, <1>5, <1>6, <2>2, <2>3
  <1> QED BY <1>1, <1>3, <1>4, <1>5, <1>6, <1>7

\* between two days the checkpoint repeats what the manifest says of each of them
LEMMA LoopEffect ==
    ASSUME IInv, Finish \/ \E d \in Dates : Pause(d)
    PROVE  /\ manifest'.days = manifest.days /\ manifest'.code = manifest.code
           /\ artifact' = artifact /\ universe' = universe
  <1>1. /\ pc = "loop" /\ artifact' = artifact /\ universe' = universe
        /\ manifest'.days = days /\ manifest'.code = run.code
    BY DEF Finish, Pause, Upcoming, Manifest
  <1>2. \A d \in Dates : manifest.days[d] = days[d]
    BY <1>1 DEF IInv, SyncInv, Active, InDay, InPhase
  <1>3. manifest.days = days
    BY <1>2 DEF IInv, TypeOK, Manifests
  <1> QED BY <1>1, <1>3 DEF IInv, SyncInv, Active

\* the first checkpoint of a launch that resumes
LEMMA StartEffect ==
    ASSUME IInv, Start, run.resume
    PROVE  /\ manifest'.days = manifest.days /\ manifest'.code = run.code
           /\ artifact' = artifact /\ universe' = universe
           /\ run.code \in Codes
           /\ run.code = manifest.code \/ manifest.code = "NONE" \/ ForceAllowed
  <1>1. /\ pc = "starting" /\ artifact' = artifact /\ universe' = universe
        /\ manifest'.days = days /\ manifest'.code = run.code
    BY DEF Start, Checkpoint, Manifest
  <1>2. CASE manifest.status = "NONE"
    BY <1>1, <1>2 DEF IInv, ModeInv, SyncInv, NoManifest
  <1>3. CASE manifest.status # "NONE"
    BY <1>1, <1>3 DEF IInv, ModeInv, SyncInv
  <1> QED BY <1>2, <1>3

\* A resuming launch leaves the completed days alone whose files are there.
THEOREM CompletedDaysStayPut == Spec => CompletedDaysRest
  <1> DEFINE Rests(d) == Intact(d) /\ run.resume =>
                 \/ manifest' = NoManifest
                 \/ /\ manifest'.days[d] = manifest.days[d]
                    /\ \A p \in Phases : artifact'[d][p] \in {artifact[d][p], "LOST"}
  <1>1. ASSUME IInv, [Next]_vars, NEW d \in Dates PROVE Rests(d)
    <2>1. CASE Launch
      BY <2>1 DEF Launch, LaunchFresh, LaunchArchiving, LaunchResuming, LaunchRejected, durable
    <2>2. CASE Day
      <3>1. CASE d = current
        BY <1>1, <2>2, <3>1, DayEffect DEF IInv, SyncInv
      <3>2. CASE d # current
        BY <1>1, <2>2, <3>2, DayEffect
      <3> QED BY <3>1, <3>2
    <2>3. CASE Start
      BY <1>1, <2>3, StartEffect
    <2>4. CASE Finish \/ \E e \in Dates : Pause(e)
      BY <1>1, <2>4, LoopEffect
    <2>5. CASE \E e \in Dates : SkipDay(e) \/ BeginDay(e)
      BY <2>5 DEF SkipDay, BeginDay, durable
    <2>6. CASE Environment
      <3>1. CASE Crash
        BY <3>1 DEF Crash, durable
      <3>2. ASSUME NEW e \in Dates, NEW p \in Phases, LoseArtifact(e, p) PROVE Rests(d)
        BY <1>1, <3>2 DEF LoseArtifact, IInv, TypeOK
      <3> QED BY <2>6, <3>1, <3>2 DEF Environment
    <2>7. CASE UNCHANGED vars
      BY <2>7 DEF vars, durable
    <2> QED BY <1>1, <2>1, <2>2, <2>3, <2>4, <2>5, <2>6, <2>7 DEF Next, Run
  <1>2. IInv /\ [Next]_vars => [\A d \in Dates : Rests(d)]_vars
    BY <1>1
  <1> QED BY <1>2, Invariance, PTL DEF Spec, CompletedDaysRest

\* The universe manifest of a date is written once.
THEOREM UniversesStayPut == Spec => UniverseIsImmutable
  <1> DEFINE Keeps(d) == universe[d] # NoUniverse /\ universe'[d] # universe[d] =>
                             manifest' = NoManifest \/ artifact[d]["universe"] = "LOST"
  <1>1. ASSUME IInv, [Next]_vars, NEW d \in Dates PROVE Keeps(d)
    <2>1. CASE \E c \in {"complete", "incomplete"} : BuildUniverse(c)
      <3>1. /\ pc = "work" /\ Name = "universe" /\ artifact[current]["universe"] \notin Codes
            /\ \E c \in {"complete", "incomplete"} : universe' =
                   [universe EXCEPT ![current] = [coverage |-> c, smoke |-> run.request.smoke]]
        BY <2>1 DEF BuildUniverse
      <3>2. CASE d = current
        <4>1. artifact[d]["universe"] \in Codes \cup {"NONE", "LOST"}
          BY <1>1, PhaseFacts DEF IInv, TypeOK
        <4> QED BY <1>1, <3>1, <3>2, <4>1 DEF IInv, FilesInv
      <3>3. CASE d # current
        BY <1>1, <3>1, <3>3 DEF IInv, TypeOK
      <3> QED BY <3>2, <3>3
    <2>2. CASE Launch
      BY <2>2 DEF Launch, LaunchFresh, LaunchArchiving, LaunchResuming, LaunchRejected, durable
    <2>3. CASE Day /\ ~\E c \in {"complete", "incomplete"} : BuildUniverse(c)
      BY <2>3 DEF Day, EnterPhase, WorkPhase, WorkNothing, ReuseUniverse, ScoreSome,
         ScoreNone, ClosePhase, RaiseInPhase, RaiseBetween, RecordFailure, DayFailed,
         DayReturned, EndDay, durable
    <2>4. CASE Start \/ Finish \/ \E e \in Dates : SkipDay(e) \/ Pause(e) \/ BeginDay(e)
      BY <2>4 DEF Start, Finish, SkipDay, Pause, BeginDay, durable
    <2>5. CASE Environment \/ UNCHANGED vars
      BY <2>5 DEF Environment, Crash, LoseArtifact, vars, durable
    <2> QED BY <1>1, <2>1, <2>2, <2>3, <2>4, <2>5 DEF Next, Run
  <1>2. IInv /\ [Next]_vars => [\A d \in Dates : Keeps(d)]_vars
    BY <1>1
  <1> QED BY <1>2, Invariance, PTL DEF Spec, UniverseIsImmutable

\* The days the manifest reports complete implement the resumable run.
THEOREM ReplayImplementsResumableRun == Spec => ImplementsResumableRun
  <1> DEFINE done == CompletedIn(manifest.days)
  <1> DEFINE damaged == {d \in Dates : \E p \in Phases : artifact[d][p] = "LOST"}
  <1>1. Init => Abstract!Init
    BY RecordFacts DEF Init, Abstract!Init, CompletedIn, NoManifest
  <1>2. IInv /\ [Next]_vars => [Abstract!Next]_(Abstract!vars)
    <2> SUFFICES ASSUME IInv, [Next]_vars
                 PROVE  Abstract!Next \/ (manifest'.code = manifest.code /\ done' = done
                                          /\ damaged' = damaged)
      BY DEF Abstract!vars
    <2>1. CASE UNCHANGED durable
      BY <2>1 DEF durable, CompletedIn
    <2>2. CASE Launch
      <3>1. \/ UNCHANGED durable
            \/ /\ manifest' = NoManifest
               /\ artifact' = [d \in Dates |-> [p \in Phases |-> "NONE"]]
        BY <2>2 DEF Launch, LaunchFresh, LaunchArchiving, LaunchResuming, LaunchRejected
      <3>2. CASE UNCHANGED durable
        BY <2>1, <3>2
      <3>3. CASE manifest' = NoManifest /\ artifact' = [d \in Dates |-> [p \in Phases |-> "NONE"]]
        <4>1. manifest'.code = "NONE" /\ done' = {} /\ damaged' = {}
          BY <3>3, RecordFacts DEF CompletedIn, NoManifest
        <4>2. Abstract!PutAside
          BY <4>1 DEF Abstract!PutAside
        <4> QED BY <4>2 DEF Abstract!Next
      <3> QED BY <3>1, <3>2, <3>3
    <2>3. CASE Start
      <3>1. damaged' = damaged
        BY <2>3 DEF Start
      <3>2. CASE run.resume
        <4>1. /\ manifest'.days = manifest.days /\ manifest'.code = run.code
              /\ run.code \in Codes
              /\ run.code = manifest.code \/ manifest.code = "NONE" \/ ForceAllowed
          BY <2>3, <3>2, StartEffect
        <4>2. done' = done
          BY <4>1 DEF CompletedIn
        <4>3. Abstract!Adopt(run.code)
          BY <3>1, <4>1, <4>2 DEF Abstract!Adopt
        <4>4. \E c \in Codes : Abstract!Adopt(c)
          BY <4>1, <4>3
        <4> QED BY <4>4 DEF Abstract!Next
      <3>3. CASE ~run.resume
        <4>1. pc = "starting" /\ manifest'.days = days /\ manifest'.code = run.code
          BY <2>3 DEF Start, Checkpoint, Manifest
        <4>2. days = NoDays /\ NoResumeAllowed
          BY <3>3, <4>1 DEF IInv, SyncInv
        <4>3. done' = {}
          BY <4>1, <4>2, RecordFacts DEF CompletedIn
        <4>4. PICK c \in Codes : c = run.code
          BY <4>1 DEF IInv, ModeInv
        <4>5. Abstract!StartOver(c)
          BY <3>1, <4>1, <4>2, <4>3, <4>4 DEF Abstract!StartOver
        <4> QED BY <4>5 DEF Abstract!Next
      <3> QED BY <3>2, <3>3
    <2>4. CASE Finish \/ \E d \in Dates : Pause(d)
      BY <2>4, LoopEffect DEF CompletedIn
    <2>5. CASE Day
      <3>1. /\ InDay /\ current \in Dates
            /\ manifest.code \in Codes /\ manifest'.code = manifest.code
            /\ \A e \in Dates : e # current =>
                   manifest'.days[e] = manifest.days[e] /\ artifact'[e] = artifact[e]
            /\ \/ artifact' = artifact
               \/ /\ manifest.days[current].status # "COMPLETE"
                  /\ manifest'.days[current].status # "COMPLETE"
        BY <2>5, DayEffect
      <3>2. \A e \in Dates : e # current =>
                (e \in done' <=> e \in done) /\ (e \in damaged' <=> e \in damaged)
        BY <3>1 DEF CompletedIn
      <3>3. CASE artifact' = artifact
        <4>1. damaged' = damaged
          BY <3>3
        <4>2. CASE current \in done' /\ current \notin done
          <5>1. done' = done \cup {current}
            BY <3>1, <3>2, <4>2 DEF CompletedIn
          <5>2. Abstract!Complete(current)
            BY <3>1, <4>1, <5>1, CodesAssumption DEF Abstract!Complete
          <5>3. \E d \in Dates : Abstract!Complete(d)
            BY <3>1, <5>2
          <5> QED BY <5>3 DEF Abstract!Next
        <4>3. CASE current \notin done' /\ current \in done
          <5>1. done' = done \ {current}
            BY <3>1, <3>2, <4>3 DEF CompletedIn
          <5>2. current \in damaged
            <6>1. manifest.days[current].status = "COMPLETE"
              BY <4>3 DEF CompletedIn
            <6>2. ~Intact(current)
              BY <3>1 DEF IInv, SyncInv
            <6>3. PICK p \in manifest.days[current].artifacts : artifact[current][p] \notin Codes
              BY <6>1, <6>2 DEF Intact
            <6>4. artifact[current][p] # "NONE"
              BY <3>1, <6>1, <6>3 DEF IInv, CompleteInv, Backed
            <6>5. p \in Phases
              BY <3>1, <6>3 DEF IInv, TypeOK, Manifests, DayRecords
            <6>6. artifact[current][p] = "LOST"
              BY <3>1, <6>3, <6>4, <6>5 DEF IInv, TypeOK
            <6> QED BY <3>1, <6>5, <6>6
          <5>3. Abstract!TakeBack(current)
            BY <3>1, <4>1, <5>1, <5>2 DEF Abstract!TakeBack
          <5>4. \E d \in Dates : Abstract!TakeBack(d)
            BY <3>1, <5>3
          <5> QED BY <5>4 DEF Abstract!Next
        <4>4. CASE current \in done' <=> current \in done
          <5>1. done' = done
            BY <3>2, <4>4 DEF CompletedIn
          <5> QED BY <3>1, <4>1, <5>1
        <4> QED BY <4>2, <4>3, <4>4
      <3>4. CASE /\ manifest.days[current].status # "COMPLETE"
                 /\ manifest'.days[current].status # "COMPLETE"
        <4>1. current \notin done /\ current \notin done'
          BY <3>4 DEF CompletedIn
        <4>2. done' = done
          BY <3>2, <4>1 DEF CompletedIn
        <4>3. \A p \in Phases : artifact'[current][p] = artifact[current][p]
                                \/ artifact'[current][p] = run.code
          <5>1. \/ artifact' = artifact
                \/ artifact' = [artifact EXCEPT ![current][Name] = run.code]
            BY <2>5 DEF Day, EnterPhase, WorkPhase, WorkNothing, BuildUniverse,
               ReuseUniverse, ScoreSome, ScoreNone, ClosePhase, RaiseInPhase, RaiseBetween,
               RecordFailure, DayFailed, DayReturned, EndDay, Wrote, durable
          <5> QED BY <3>1, <5>1 DEF IInv, TypeOK
        <4>4. run.code # "LOST"
          BY <3>1, CodesAssumption DEF IInv, ModeInv, InDay, InPhase
        <4>5. damaged' = damaged \/ damaged' = damaged \ {current}
          BY <3>2, <4>3, <4>4
        <4>6. CASE damaged' = damaged
          BY <3>1, <4>2, <4>6
        <4>7. CASE damaged' = damaged \ {current}
          <5>1. Abstract!Repair(current)
            BY <3>1, <4>1, <4>2, <4>7 DEF Abstract!Repair
          <5>2. \E d \in Dates : Abstract!Repair(d)
            BY <3>1, <5>1
          <5> QED BY <5>2 DEF Abstract!Next
        <4> QED BY <4>5, <4>6, <4>7
      <3> QED BY <3>1, <3>3, <3>4
    <2>6. CASE Environment
      <3>1. CASE Crash
        BY <2>1, <3>1 DEF Crash
      <3>2. ASSUME NEW d \in Dates, NEW p \in Phases, LoseArtifact(d, p)
            PROVE  Abstract!Next
        <4>1. manifest' = manifest /\ artifact' = [artifact EXCEPT ![d][p] = "LOST"]
          BY <3>2 DEF LoseArtifact
        <4>2. /\ artifact'[d][p] = "LOST"
              /\ \A q \in Phases : q # p => artifact'[d][q] = artifact[d][q]
              /\ \A e \in Dates : e # d => artifact'[e] = artifact[e]
          BY <4>1 DEF IInv, TypeOK
        <4>3. artifact[d][p] # "LOST"
          BY <3>2, CodesAssumption DEF LoseArtifact
        <4>4. damaged' = damaged \cup {d}
          BY <4>2, <4>3
        <4>5. Abstract!Damage(d)
          BY <4>1, <4>4 DEF Abstract!Damage, CompletedIn
        <4>6. \E e \in Dates : Abstract!Damage(e)
          BY <4>5
        <4> QED BY <4>6 DEF Abstract!Next
      <3> QED BY <2>6, <3>1, <3>2 DEF Environment
    <2>7. CASE \E d \in Dates : SkipDay(d) \/ BeginDay(d)
      BY <2>1, <2>7 DEF SkipDay, BeginDay
    <2>8. CASE UNCHANGED vars
      BY <2>1, <2>8 DEF vars
    <2> QED BY <2>2, <2>3, <2>4, <2>5, <2>6, <2>7, <2>8 DEF Next, Run
  <1> QED BY <1>1, <1>2, Invariance, PTL DEF Spec, ImplementsResumableRun, Abstract!Spec
=============================================================================
