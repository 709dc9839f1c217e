---------------------------- MODULE OutcomeGrading ----------------------------
(* What a day's session made of the Scout's selection (grade_replay_outcomes,  *)
(* trainer/outcome_grader.py) and how it compares with chance in the same      *)
(* universe (build_same_universe_benchmark, trainer/benchmark.py).  The result *)
(* simulate_trade would give a security is its pnl; the day's largest move is  *)
(* its move; path says whether its session can be simulated at all.            *)
EXTENDS ScoutSelection, FiniteSetsExt

CONSTANTS
    max_positions,          \* of the execution policy
    exit_mode,              \* of the execution policy
    comparison_positions,   \* max_positions of the policy it is compared with
    TopMovers               \* ten

ASSUME GradingAssumption ==
    /\ max_positions \in Nat \ {0} /\ comparison_positions \in Nat \ {0} /\ TopMovers \in Nat
    /\ exit_mode \in {"PERCENT", "ATR"}

-----------------------------------------------------------------------------
Selected(scout) == {t \in Tickers : scout[t].basis # "NOT_SELECTED"}
Qualifying(scout) == {t \in Tickers : scout[t].basis = "QUALIFYING_THRESHOLD"}
Exploring(scout) == Selected(scout) \ Qualifying(scout)

\* mutant: the explored names have their turn before the qualifying ones
TurnExploreFirst(scout, t) ==
    IF t \in Exploring(scout)
    THEN Cardinality({u \in Exploring(scout) : scout[u].rank < scout[t].rank}) + 1
    ELSE Cardinality(Exploring(scout))
         + Cardinality({u \in Qualifying(scout) : scout[u].rank < scout[t].rank}) + 1

\* the turn of a selected name: qualifying names by rank, then the others by rank
Turn(scout, t) ==
    IF t \in Qualifying(scout)
    THEN Cardinality({u \in Qualifying(scout) : scout[u].rank < scout[t].rank}) + 1
    ELSE Cardinality(Qualifying(scout))
         + Cardinality({u \in Exploring(scout) : scout[u].rank < scout[t].rank}) + 1

\* a name without a path, or excluded from execution, uses up its turn
Execution(sec, scout, positions, t) ==
    CASE sec[t].path # "bars" -> "NO_TRADE"
      [] sec[t].path = "bars" /\ t \in Selected(scout) /\ Turn(scout, t) <= positions
            -> "EXECUTED"
      [] sec[t].path = "bars" /\ t \in Selected(scout) /\ Turn(scout, t) > positions
            -> "MAX_POSITIONS_REACHED"
      [] OTHER -> "NONE"

PathPnl(sec, t) == IF sec[t].path = "bars" THEN sec[t].pnl ELSE 0
ExecutedPnl(sec, execution, t) == IF execution = "EXECUTED" THEN PathPnl(sec, t) ELSE 0

\* the day's best movers among the names that have a path
TopOutcomes(sec) ==
    FirstOf({t \in Tickers : sec[t].path = "bars"}, [t \in Tickers |-> sec[t].move], TopMovers)
MoverRank(sec, t) == Place(TopOutcomes(sec), [u \in Tickers |-> sec[u].move], t)

\* the same selection, and the best movers, under the policy it is compared with
PolicyComparison(sec, scout) ==
    [selection |-> [t \in Selected(scout) |-> Execution(sec, scout, comparison_positions, t)],
     movers |-> {t \in TopOutcomes(sec) : MoverRank(sec, t) <= comparison_positions}]

OutcomeResult(sec, scout) ==
    [execution |-> [t \in Tickers |-> Execution(sec, scout, max_positions, t)],
     pnl |-> [t \in Tickers |->
                 ExecutedPnl(sec, Execution(sec, scout, max_positions, t), t)],
     comparison |-> PolicyComparison(sec, scout)]

-----------------------------------------------------------------------------
PnlOf(pnl, S) == SumFunctionOnSet(pnl, S)

\* mutant: only the names that have a path are drawn from
EligibleWithPath(sec) == {t \in Tickers : sec[t].eligible /\ sec[t].path = "bars"}

\* the universe a draw comes from, paths or not, guardrails or not
EligibleUniverse(sec) == {t \in Tickers : sec[t].eligible}

\* the drawn names are simulated without their average ranges, which a policy that
\* exits by them rejects; the Scout's own trades get theirs
DrawnPnl(sec, t) == IF exit_mode = "PERCENT" THEN PathPnl(sec, t) ELSE 0

\* a draw names as many as the Scout did, and the policy executes the first of it
Smaller(a, b) == IF a <= b THEN a ELSE b
BasketPnls(sec, n) ==
    {PnlOf([t \in Tickers |-> DrawnPnl(sec, t)], B) :
        B \in {S \in SUBSET EligibleUniverse(sec) : Cardinality(S) = Smaller(n, max_positions)}}

\* the mean over the draws lies between the worst and the best basket
RandomMeans(sec, n) == Min(BasketPnls(sec, n))..Max(BasketPnls(sec, n))

\* the top movers beside the Scout's: simulated if eligible, while positions last
MoverExecution(sec, t) ==
    LET before == {u \in TopOutcomes(sec) :
                       sec[u].eligible /\ MoverRank(sec, u) < MoverRank(sec, t)}
    IN  IF ~sec[t].eligible THEN "NOT_IN_ELIGIBLE_UNIVERSE"
        ELSE IF Cardinality(before) < max_positions THEN "SIMULATED"
        ELSE "MAX_POSITIONS_REACHED"

\* _return_baselines() refuses a draw that is larger than the universe
DrawPossible(sec, scout) == Cardinality(Qualifying(scout)) <= Cardinality(EligibleUniverse(sec))

\* the verdict is about the qualifying names only
ScoutPnl(scout, outcome) == PnlOf(outcome.pnl, Qualifying(scout))
Verdict(scout, outcome, random) ==
    LET pnl == ScoutPnl(scout, outcome)
    IN  IF pnl > random THEN "WIN" ELSE IF pnl < random THEN "MISS" ELSE "TIE"

BenchmarkResult(sec, scout, outcome, random) ==
    [movers |-> [t \in TopOutcomes(sec) |-> MoverExecution(sec, t)],
     random |-> random,
     result |-> Verdict(scout, outcome, random)]
=============================================================================
