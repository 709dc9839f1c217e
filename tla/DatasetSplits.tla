---------------------------- MODULE DatasetSplits ----------------------------
(* trainer/dataset_splits.py: which partition of the experiment a trading date *)
(* belongs to, and which dates a run may touch.  A date is its position in the *)
(* calendar.                                                                   *)
EXTENDS Integers, FiniteSets

CONSTANTS
    Dates,          \* the trading dates that can be asked for
    SplitMinimum    \* sessions below which all are development: 5 in the code

ASSUME DatesAssumption == Dates \subseteq Int /\ IsFiniteSet(Dates)
ASSUME SplitMinimumAssumption == SplitMinimum \in Nat /\ SplitMinimum >= 3

Partitions == {"DEVELOPMENT", "VALIDATION", "HOLDOUT"}

\* max(1, round(n * 0.2)); n * 0.2 is never half-way between two integers
ReservedCount(n) == IF n < 3 THEN 1 ELSE (n + 2) \div 5

\* the partition of the i-th of n sessions, counted from 0
PartitionAt(i, n) ==
    IF n < SplitMinimum \/ i < n - 2 * ReservedCount(n) THEN "DEVELOPMENT"
    ELSE IF i < n - ReservedCount(n) THEN "VALIDATION"
    ELSE "HOLDOUT"

\* build_chronological_splits(S); "NONE" for a date that is not in S
Split(S) ==
    [d \in Dates |->
        IF d \in S
        THEN PartitionAt(Cardinality({e \in S : e < d}), Cardinality(S))
        ELSE "NONE"]

\* enforce_partition_access raises PermissionError
AccessDenied(allowed, unlocked) == "HOLDOUT" \in allowed /\ ~unlocked

\* what it returns otherwise
Accessible(split, allowed) == {d \in Dates : split[d] \in allowed}
=============================================================================
