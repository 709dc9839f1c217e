------------------------- MODULE MCScheduledBacklog -------------------------
(* Two units of two dates; main moves on to a commit with a new                *)
(* dataset_version.                                                            *)
EXTENDS ScheduledBacklog
MCUnits == <<"jan1", "jan2">>
MCDates == 1..2
MCCommits == <<"c1", "c2">>
MCVersion == [c \in {"c1", "c2"} |-> IF c = "c2" THEN 2 ELSE 1]
=============================================================================
