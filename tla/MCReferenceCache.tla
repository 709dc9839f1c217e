--------------------------- MODULE MCReferenceCache --------------------------
(* Lagged dates in two quarters.                                               *)
EXTENDS ReferenceCache

MCDates == 1..3
MCQuarter == [d \in MCDates |-> IF d = 1 THEN 1 ELSE 2]
=============================================================================
