---------------------------- MODULE ScoutSelection ----------------------------
(* The Scout's selection from a day's frozen snapshot (_score_security and     *)
(* run_research_scout_alpha, trainer/research_scout_alpha.py).  What the       *)
(* rubric makes of a security's bars is its points; the module keeps who may   *)
(* be selected with them, on which basis, and at which rank.                   *)
EXTENDS Integers, FiniteSets

CONSTANTS
    Tickers,                    \* numbered as they sort
    shadow_min_premarket_bars, minimum_real_bars_60m,
    threshold_points,
    reversal_threshold,         \* selection_threshold_pct of the reversal scoring
    reversal_top_k, exploration_top_k

ASSUME ScoutAssumption ==
    /\ Tickers \subseteq Nat /\ IsFiniteSet(Tickers)
    /\ shadow_min_premarket_bars \in Nat /\ minimum_real_bars_60m \in Nat
    /\ shadow_min_premarket_bars < minimum_real_bars_60m
    /\ threshold_points \in Nat \ {0} /\ reversal_threshold \in Nat \ {0}
    /\ reversal_top_k \in Nat /\ exploration_top_k \in 0..5

-----------------------------------------------------------------------------
(* Orders: by a key, the largest first, then by ticker.                        *)
Ahead(S, key, t) == {u \in S : key[u] > key[t] \/ (key[u] = key[t] /\ u < t)}
Place(S, key, t) == Cardinality(Ahead(S, key, t)) + 1
FirstOf(S, key, k) == {t \in S : Place(S, key, t) <= k}

-----------------------------------------------------------------------------
(* One security: eligible in the universe, real bars in the last hour before   *)
(* the freeze, whether a guardrail rejects it, its points, its reversal score  *)
(* (-1: a required condition fails).                                           *)
Status(s) ==
    IF s.bars60 < shadow_min_premarket_bars THEN "NOT_SCORABLE"
    ELSE IF s.bars60 < minimum_real_bars_60m THEN "SHADOW_SCORED" ELSE "SCORED"

\* without enough bars nothing is evaluated, guardrails included
Rejected(s) == Status(s) # "NOT_SCORABLE" /\ s.rejected
Points(s) == IF Status(s) = "NOT_SCORABLE" THEN 0 ELSE s.points
ReversalScore(s) == IF Status(s) = "NOT_SCORABLE" THEN -1 ELSE s.reversal

ResearchEligible(s) == s.eligible /\ ~Rejected(s)
Qualifies(s) ==
    ResearchEligible(s) /\ Status(s) = "SCORED" /\ Points(s) >= threshold_points

\* scored and admissible, but below the threshold
Explorable(s) == ResearchEligible(s) /\ Status(s) = "SCORED" /\ ~Qualifies(s)

-----------------------------------------------------------------------------
PointsOf(sec) == [t \in Tickers |-> Points(sec[t])]
ReversalOf(sec) == [t \in Tickers |-> ReversalScore(sec[t])]

QualifyingPicks(sec) == {t \in Tickers : Qualifies(sec[t])}

\* the reversal pattern picks first; exploration chooses among those it leaves
ReversalPicks(sec) ==
    FirstOf({t \in Tickers : Explorable(sec[t]) /\ ReversalScore(sec[t]) >= reversal_threshold},
            ReversalOf(sec), reversal_top_k)
ExplorationPicks(sec) ==
    FirstOf({t \in Tickers : Explorable(sec[t])} \ ReversalPicks(sec), PointsOf(sec),
            exploration_top_k)

SelectionBasis(sec, t) ==
    CASE t \in QualifyingPicks(sec) -> "QUALIFYING_THRESHOLD"
      [] t \in ReversalPicks(sec) -> "REVERSAL_EXPLORATION"
      [] t \in ExplorationPicks(sec) -> "EXPLORATION_TOP_K"
      [] OTHER -> "NOT_SELECTED"

\* mutant: each group of names is ranked on its own
RankInGroup(sec, t) ==
    CASE t \in QualifyingPicks(sec) -> Place(QualifyingPicks(sec), PointsOf(sec), t)
      [] t \in ExplorationPicks(sec) -> Place(ExplorationPicks(sec), PointsOf(sec), t)
      [] t \in ReversalPicks(sec) -> Place(ReversalPicks(sec), ReversalOf(sec), t)
      [] OTHER -> 0

\* qualifying names first, then exploration, then reversal; 0: not selected
Rank(sec, t) ==
    LET qualifying == Cardinality(QualifyingPicks(sec))
        explored == Cardinality(ExplorationPicks(sec))
    IN  CASE t \in QualifyingPicks(sec) -> Place(QualifyingPicks(sec), PointsOf(sec), t)
          [] t \in ExplorationPicks(sec) ->
                 qualifying + Place(ExplorationPicks(sec), PointsOf(sec), t)
          [] t \in ReversalPicks(sec) ->
                 qualifying + explored + Place(ReversalPicks(sec), ReversalOf(sec), t)
          [] OTHER -> 0

ScoutResult(sec) ==
    [t \in Tickers |->
        [status |-> Status(sec[t]), basis |-> SelectionBasis(sec, t), rank |-> Rank(sec, t),
         points |-> Points(sec[t]), reversal |-> ReversalScore(sec[t]),
         rejected |-> Rejected(sec[t])]]
=============================================================================
