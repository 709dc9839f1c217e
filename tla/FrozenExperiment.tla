-------------------------- MODULE FrozenExperiment ---------------------------
(* How the date range of a saved experiment grows: each launch that resumes    *)
(* splits the saved and the requested dates together, and is refused when a    *)
(* saved date would change its partition (multi_day_trainer.py, lines          *)
(* 556-568, over trainer/dataset_splits.py).                                   *)
EXTENDS DatasetSplits

VARIABLES
    range,      \* requested_dates of the state file, {} before the first save
    frozen      \* date_partitions of the state file

vars == <<range, frozen>>

Init ==
    /\ range = {}
    /\ frozen = Split({})

\* changed_partitions is empty
KeepsFrozen(merged) == \A d \in range : Split(merged)[d] = frozen[d]

\* mutant: frozen dates keep their partition, new ones get that of a new split
ExtendByMerge(requested) ==
    /\ requested # {}
    /\ range' = range \cup requested
    /\ frozen' = [d \in Dates |->
            IF d \in range THEN frozen[d] ELSE Split(range \cup requested)[d]]

Extend(requested) ==
    /\ requested # {}
    /\ KeepsFrozen(range \cup requested)
    /\ range' = range \cup requested
    /\ frozen' = Split(range \cup requested)

Next == \E requested \in SUBSET Dates : Extend(requested)

Spec == Init /\ [][Next]_vars

-----------------------------------------------------------------------------
(* Properties *)

\* The type invariant.
TypeOK ==
    /\ range \subseteq Dates
    /\ frozen \in [Dates -> Partitions \cup {"NONE"}]

DistanceToFifth(c, n) == IF 5 * c >= n THEN 5 * c - n ELSE n - 5 * c

InPartition(p) == {d \in range : frozen[d] = p}

\* However the range grew, launch by launch, the frozen partitions are in the
\* order of time, so no hypothesis is built from a regime later than the dates
\* that measure it (build_chronological_splits: "without shuffling future
\* regimes into development").
NoFutureInDevelopment ==
    \A d, e \in range :
        d < e => /\ frozen[d] = "HOLDOUT" => frozen[e] = "HOLDOUT"
                 /\ frozen[d] = "VALIDATION" => frozen[e] # "DEVELOPMENT"

\* No other size of the reserved partitions is nearer to 20% of the range, and
\* an experiment that has a holdout also has dates to develop and validate on.
ReservedFifths ==
    LET n == Cardinality(range)
        v == Cardinality(InPartition("VALIDATION"))
        h == Cardinality(InPartition("HOLDOUT"))
    IN  IF n < SplitMinimum
        THEN InPartition("DEVELOPMENT") = range
        ELSE /\ v = h /\ h > 0 /\ v + h < n
             /\ \A c \in 1..n : DistanceToFifth(h, n) <= DistanceToFifth(c, n)

\* Both: the dates of an experiment are split in the order of time and in fifths.
SplitInOrder == NoFutureInDevelopment /\ ReservedFifths
=============================================================================
