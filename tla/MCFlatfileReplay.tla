-------------------------- MODULE MCFlatfileReplay --------------------------
(* Model values for TLC: research requests for two trading dates, and one date *)
(* that operators request now as research and now as a smoke test.             *)
EXTENDS FlatfileReplay

\* the five phases of the nine that differ in what they may do: "report" stands
\* for the other four, which write a file and go on
MCPhases == <<"download", "universe", "scoring", "postmortem", "report">>

TwoDates == 1..2
ResearchRequests == {[dates |-> 1..2, smoke |-> FALSE]}

OneDate == {1}
OperatorRequests == {[dates |-> {1}, smoke |-> smoke] : smoke \in BOOLEAN}
=============================================================================
