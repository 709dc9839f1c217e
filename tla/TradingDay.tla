------------------------------ MODULE TradingDay ------------------------------
(* A replayed day from the frozen snapshot to its postmortem: the Scout        *)
(* selects, the session is graded, the selection is compared with chance, and  *)
(* the day's best movers that were missed are explained (build_postmortem,     *)
(* trainer/postmortem.py); the explanations are what hypotheses are made of.   *)
(* Every stage reads the artifacts of the stages before it.                    *)
EXTENDS OutcomeGrading

CONSTANT Profiles       \* what a security may look like on a day

(* bars60, rejected, points and reversal are what ScoutSelection says; counted: *)
(* the statistics of the bars have an entry for its ticker (nobody else's);    *)
(* path: "bars", or why the session cannot be simulated; stopped: a stop took  *)
(* the position out before the day's high.                                     *)
ASSUME ProfileAssumption ==
    Profiles \subseteq [eligible: BOOLEAN, bars60: Nat, counted: BOOLEAN, rejected: BOOLEAN,
                       points: Nat, reversal: Nat \cup {-1}, path: {"bars", "excluded"},
                       move: Int, pnl: Int, stopped: BOOLEAN]

VARIABLES
    dayStage,
    evidence,           \* the universe of the day is research evidence
    securities,         \* historical_snapshot and the day's bars
    statistics,         \* bar_statistics: by_ticker, real_premarket_60m
    scout,              \* research_alpha_output
    outcome,            \* end_of_day_outcome
    benchmark,          \* benchmark_result
    postmortem          \* postmortem
dayVars == <<dayStage, evidence, securities, statistics, scout, outcome, benchmark, postmortem>>

-----------------------------------------------------------------------------
(* Why the Scout missed a mover.                                               *)

\* more than half of the move was left, or the stop came before the day's high
ExecutionLoss(sec, out, t) ==
    \/ sec[t].move > 0 /\ 2 * (sec[t].move - out.pnl[t]) > sec[t].move
    \/ out.execution[t] = "EXECUTED" /\ sec[t].stopped

\* mutant: invisible means not even scored
NotScorable(s) == s.bars60 < shadow_min_premarket_bars

InvisibleAtFreeze(s) == s.bars60 < minimum_real_bars_60m

ClassifyMiss(sec, sc, out, t) ==
    IF t \in Selected(sc)
    THEN IF ExecutionLoss(sec, out, t) THEN "PICKED_EXECUTION_LOSS" ELSE "NONE"
    ELSE IF ~sec[t].eligible THEN "NOT_IN_UNIVERSE"
    ELSE IF InvisibleAtFreeze(sec[t]) THEN "INVISIBLE_AT_FREEZE"
    ELSE IF sc[t].rejected THEN "VISIBLE_GUARDRAIL_REJECTED"
    ELSE IF sc[t].points >= threshold_points THEN "UNCLASSIFIED"
    ELSE IF sc[t].reversal >= reversal_threshold THEN "VISIBLE_REVERSAL_CANDIDATE"
    ELSE "VISIBLE_SCORED_LOW"

\* _premarket_counts(): the statistics, or the snapshot if they lack the ticker
PremarketCount(sec, stats, t) == IF t \in DOMAIN stats THEN stats[t] ELSE sec[t].bars60

\* the counters of the reachability table are filled by tests of their own, on a
\* count of its own, with limits that are written into the code
Reachability(sec, stats, sc, t) ==
    IF t \in Selected(sc) THEN "picked"
    ELSE IF PremarketCount(sec, stats, t) = 0 THEN "bars_0"
    ELSE IF PremarketCount(sec, stats, t) < 10 THEN "bars_1_9"
    ELSE IF PremarketCount(sec, stats, t) < 30 THEN "bars_10_29"
    ELSE IF sc[t].rejected THEN "visible_guardrail_rejected"
    ELSE IF sc[t].points < threshold_points /\ sc[t].reversal >= reversal_threshold
         THEN "visible_reversal_candidate"
    ELSE "visible_scored_low"

\* the feature failures of the day: the evidence hypotheses are counted from
FeatureFailures(class) ==
    [h \in {"aggregate_liquidity", "selection_threshold"} |->
        {t \in DOMAIN class :
            class[t] = IF h = "aggregate_liquidity" THEN "VISIBLE_GUARDRAIL_REJECTED"
                       ELSE "VISIBLE_SCORED_LOW"}]

-----------------------------------------------------------------------------
Nothing == <<>>

DayInit ==
    /\ dayStage = "collect" /\ evidence = FALSE
    /\ securities = Nothing /\ statistics = Nothing /\ scout = Nothing /\ outcome = Nothing
    /\ benchmark = Nothing /\ postmortem = Nothing

\* a ticker that several securities share, or a day without flat files, has none
BarStatistics(sec) == [t \in {u \in Tickers : sec[u].counted} |-> sec[t].bars60]

TakeSnapshot(sec, complete) ==
    /\ dayStage = "collect" /\ dayStage' = "score"
    /\ securities' = sec /\ evidence' = complete
    /\ statistics' = BarStatistics(sec)
    /\ UNCHANGED <<scout, outcome, benchmark, postmortem>>

RunScout ==
    /\ dayStage = "score" /\ dayStage' = "grade"
    /\ scout' = ScoutResult(securities)
    /\ UNCHANGED <<evidence, securities, statistics, outcome, benchmark, postmortem>>

GradeOutcomes ==
    /\ dayStage = "grade" /\ dayStage' = "compare"
    /\ outcome' = OutcomeResult(securities, scout)
    /\ UNCHANGED <<evidence, securities, statistics, scout, benchmark, postmortem>>

BuildBenchmark ==
    /\ dayStage = "compare" /\ DrawPossible(securities, scout) /\ dayStage' = "explain"
    /\ \E random \in RandomMeans(securities, Cardinality(Qualifying(scout))) :
           benchmark' = BenchmarkResult(securities, scout, outcome, random)
    /\ UNCHANGED <<evidence, securities, statistics, scout, outcome, postmortem>>

\* require_research_evidence(): a day that is no evidence has no postmortem
BuildPostmortem ==
    /\ dayStage = "explain" /\ evidence /\ dayStage' = "explained"
    /\ LET class == [t \in DOMAIN benchmark.movers |->
                        ClassifyMiss(securities, scout, outcome, t)]
       IN  postmortem' =
               [class |-> class,
                reach |-> [t \in DOMAIN class |-> Reachability(securities, statistics, scout, t)],
                failures |-> FeatureFailures(class)]
    /\ UNCHANGED <<evidence, securities, statistics, scout, outcome, benchmark>>

DayNext ==
    \/ \E sec \in [Tickers -> Profiles], complete \in BOOLEAN : TakeSnapshot(sec, complete)
    \/ RunScout \/ GradeOutcomes \/ BuildBenchmark \/ BuildPostmortem

DaySpec == DayInit /\ [][DayNext]_dayVars

-----------------------------------------------------------------------------
(* Properties.                                                                 *)

\* The type invariant: the ranks of the selected names are 1, 2, 3, ...
DayTypeOK ==
    /\ dayStage \in {"collect", "score", "grade", "compare", "explain", "explained"}
    /\ evidence \in BOOLEAN
    /\ securities \in [Tickers -> Profiles] \cup {Nothing}
    /\ DOMAIN statistics \subseteq Tickers /\ statistics \in [DOMAIN statistics -> Nat]
    /\ scout # Nothing =>
           {scout[t].rank : t \in Selected(scout)} = 1..Cardinality(Selected(scout))
    /\ outcome # Nothing =>
           outcome.execution \in
               [Tickers -> {"NO_TRADE", "EXECUTED", "MAX_POSITIONS_REACHED", "NONE"}]
    /\ benchmark # Nothing => benchmark.result \in {"WIN", "TIE", "MISS"}

QualifyingOnly(sc) ==
    [t \in Tickers |-> IF t \in Qualifying(sc) THEN sc[t]
                       ELSE [sc[t] EXCEPT !.basis = "NOT_SELECTED", !.rank = 0]]

\* Exploration "can never take an execution slot from a qualifying candidate"
\* (research_scout_alpha.py, run_research_scout_alpha): under either policy no
\* explored name trades while a qualifying one is refused, and the Scout's result
\* of the day is what it would be without any exploration.
ExplorationIsFree ==
    outcome # Nothing =>
        /\ \A execution \in {outcome.execution, outcome.comparison.selection} :
              (\E t \in Exploring(scout) : execution[t] = "EXECUTED")
                  => \A u \in Qualifying(scout) : execution[u] # "MAX_POSITIONS_REACHED"
        /\ ScoutPnl(scout, outcome) =
               ScoutPnl(scout, OutcomeResult(securities, QualifyingOnly(scout)))

\* The comparison with chance is fair: the draw is always possible; a selection
\* that leaves chance no choice is a tie, which is none, or, under a policy that
\* exits by percentages, the whole universe within the positions; and nothing wins
\* without beating some basket (benchmark.py, _return_baselines against _summary,
\* which read different artifacts).
VerdictIsFair ==
    /\ dayStage = "compare" => DrawPossible(securities, scout)
    /\ benchmark # Nothing =>
          LET picked == Qualifying(scout)
              baskets == BasketPnls(securities, Cardinality(picked))
          IN  /\ (picked = {} \/ (exit_mode = "PERCENT"
                                  /\ picked = {t \in Tickers : securities[t].eligible}
                                  /\ Cardinality(picked) <= max_positions))
                     => benchmark.result = "TIE"
              /\ benchmark.result = "WIN" => \E b \in baskets : b < ScoutPnl(scout, outcome)
              /\ benchmark.result = "MISS" => \E b \in baskets : b > ScoutPnl(scout, outcome)

\* Every missed mover has a known reason (UNCLASSIFIED is never reached).  With the
\* minimum the repository ships, 30 real bars (config/scout_alpha_v1.json), the list
\* tells of an eligible mover what the table of reachability tells, which reads
\* another count and has its limits in the code (postmortem.py:68-83, 456-476); with
\* the shipped 10 for a shadow score the table says of a mover that it had fewer
\* bars than that exactly if the Scout could not score it.  And hypotheses are fed
\* only by names the Scout could see and take: visible, eligible, not selected.
MissesExplained ==
    postmortem # Nothing =>
        /\ \A t \in DOMAIN postmortem.class :
              LET class == postmortem.class[t]
                  reach == postmortem.reach[t]
              IN  /\ class # "UNCLASSIFIED"
                  /\ (shadow_min_premarket_bars = 10 /\ t \notin Selected(scout)) =>
                         (scout[t].status = "NOT_SCORABLE" <=> reach \in {"bars_0", "bars_1_9"})
                  /\ (minimum_real_bars_60m = 30 /\ securities[t].eligible) =>
                        /\ class = "INVISIBLE_AT_FREEZE" <=> reach \in {"bars_0", "bars_1_9", "bars_10_29"}
                        /\ class = "VISIBLE_SCORED_LOW" <=> reach = "visible_scored_low"
                        /\ class = "VISIBLE_REVERSAL_CANDIDATE" <=> reach = "visible_reversal_candidate"
                        /\ class = "VISIBLE_GUARDRAIL_REJECTED" <=> reach = "visible_guardrail_rejected"
        /\ \A h \in DOMAIN postmortem.failures : \A t \in postmortem.failures[h] :
              /\ scout[t].status = "SCORED" /\ securities[t].eligible
              /\ t \notin Selected(scout)
              /\ h = "selection_threshold" => ResearchEligible(securities[t])
=============================================================================
