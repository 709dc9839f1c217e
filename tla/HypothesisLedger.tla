--------------------------- MODULE HypothesisLedger ---------------------------
(* What the trainer learns from an experiment that grows                       *)
(* (multi_day_trainer.py, _aggregate() and checkpoint()): every checkpoint     *)
(* reads the postmortems of all the days that succeeded, refuses them all when *)
(* one is no research evidence (evidence_eligibility.py), and counts the       *)
(* misses of the development days towards a hypothesis.  The partitions are    *)
(* those of FrozenExperiment.                                                  *)
EXTENDS FrozenExperiment

CONSTANTS
    Postmortems,            \* what a day may leave: records of Postmortem
    MINIMUM_OCCURRENCES,
    MaxDays                 \* bound: days recorded at a time

VARIABLES
    days,       \* per date: its record with the postmortem it leads to
    ledger      \* of the state file: the evidence and what is ready
ledgerVars == <<range, frozen, days, ledger>>

-----------------------------------------------------------------------------
\* the ids of _hypothesis_key(), and one catalyst metric
Hypotheses == {"selection_threshold", "aggregate_liquidity"}
Subjects == Hypotheses \cup {"catalyst_metric"}

\* missed: per hypothesis the tickers missed in its way; observed: the tickers of
\* the day's catalyst metrics; the universe of the postmortem and of the benchmark
MissTickers == {"A", "B"}
Postmortem ==
    [missed: [Hypotheses -> SUBSET MissTickers], observed: SUBSET MissTickers,
     universe: {"complete", "incomplete", "fixture"}, sameUniverse: BOOLEAN]
ASSUME PostmortemAssumption == Postmortems \subseteq Postmortem
NoDay == [missed |-> [h \in Hypotheses |-> {}], observed |-> {}, universe |-> "NONE",
          sameUniverse |-> FALSE]

Recorded(ds) == {d \in Dates : ds[d] # NoDay}

\* assert_matching_universe() and require_research_evidence()
Admissible(day) == day.sameUniverse /\ day.universe = "complete"

\* checkpoint(): a record that claims no evidence is passed over
Successful(ds) == {d \in Recorded(ds) : ds[d].universe = "complete"}

\* mutant: misses of every partition count
LearnsFrom(d) == TRUE

\* only development misses may create or strengthen a hypothesis
Teaches(d) == frozen[d] = "DEVELOPMENT"

\* the occurrences of a hypothesis, one per date and ticker; of a metric all the
\* rows are kept, but only those of development days count
Evidence(ds, subject) ==
    IF subject \in Hypotheses
    THEN {row \in Successful(ds) \X MissTickers :
              Teaches(row[1]) /\ row[2] \in ds[row[1]].missed[subject]}
    ELSE {row \in Successful(ds) \X MissTickers : row[2] \in ds[row[1]].observed}

Counted(rows) == {row \in rows : Teaches(row[1])}

Aggregate(ds) ==
    LET evidence == [s \in Subjects |-> Evidence(ds, s)]
    IN  [evidence |-> evidence,
         ready |-> {s \in Subjects :
                        Cardinality(Counted(evidence[s])) >= MINIMUM_OCCURRENCES}]

LedgerInit ==
    /\ Init
    /\ days = [d \in Dates |-> NoDay]
    /\ ledger = [evidence |-> [s \in Subjects |-> {}], ready |-> {}]

-----------------------------------------------------------------------------
\* one bad pair of artifacts ends the launch before the state is written
Checkpoint(ds) ==
    /\ \A d \in Successful(ds) : Admissible(ds[d])
    /\ days' = ds
    /\ ledger' = Aggregate(ds)

GrowRange(requested) == Extend(requested) /\ UNCHANGED <<days, ledger>>

RecordDay(d, day) ==
    /\ d \in range /\ days[d] = NoDay /\ Cardinality(Recorded(days)) < MaxDays
    /\ Checkpoint([days EXCEPT ![d] = day])
    /\ UNCHANGED <<range, frozen>>

\* a launch that finds the day's artifacts gone drops its record
DropDay(d) ==
    /\ days[d] # NoDay
    /\ Checkpoint([days EXCEPT ![d] = NoDay])
    /\ UNCHANGED <<range, frozen>>

LedgerNext ==
    \/ \E requested \in SUBSET (Dates \ range) : GrowRange(requested)
    \/ \E d \in Dates, day \in Postmortems : RecordDay(d, day)
    \/ \E d \in Dates : DropDay(d)

LedgerSpec == LedgerInit /\ [][LedgerNext]_ledgerVars

-----------------------------------------------------------------------------
(* Properties.                                                                 *)

\* The type invariant.
LedgerTypeOK ==
    /\ TypeOK
    /\ days \in [Dates -> Postmortems \cup {NoDay}]
    /\ ledger \in [evidence: [Subjects -> SUBSET (Dates \X MissTickers)], ready: SUBSET Subjects]

\* Nothing is ready for validation by the dates that validate it: however the
\* range grew since a day was counted, what is ready has enough occurrences on
\* days that are development days now, from complete universes, and no hypothesis
\* holds an occurrence of another day (lines 197-199: "allowing them to train the
\* proposal would leak out-of-sample evidence").
OutOfSampleUntouched ==
    /\ \A s \in ledger.ready :
           Cardinality({row \in ledger.evidence[s] :
               frozen[row[1]] = "DEVELOPMENT"
               /\ Admissible(days[row[1]])}) >= MINIMUM_OCCURRENCES
    /\ \A h \in Hypotheses : \A row \in ledger.evidence[h] :
           row[1] \in range /\ frozen[row[1]] = "DEVELOPMENT"
=============================================================================
