---------------------------- MODULE ResumableRun ----------------------------
(* What a replay of a date range promises to whoever launches it again and     *)
(* again (trainer/flatfile_replay.py, run_flatfile_replay): the days completed *)
(* under one provenance only grow.  They are all forgotten only when the       *)
(* output root is put aside or a launch is told to resume nothing, and one of  *)
(* them is taken back only when a file of its evidence has disappeared.        *)
EXTENDS Integers

CONSTANTS
    Dates,
    Codes,              \* provenances
    ForceAllowed,       \* whether a debug launch may resume another provenance
    NoResumeAllowed     \* whether a launch may be told to resume nothing

VARIABLES
    code,       \* provenance the run's manifest names, "NONE" without manifest
    done,       \* the completed days
    damaged     \* days with a file that has disappeared

vars == <<code, done, damaged>>

Init == code = "NONE" /\ done = {} /\ damaged = {}

\* a first launch, or one that resumes what its own provenance has completed
Adopt(c) ==
    /\ c = code \/ code = "NONE" \/ ForceAllowed
    /\ code' = c /\ UNCHANGED <<done, damaged>>

Complete(d) == code # "NONE" /\ done' = done \cup {d} /\ UNCHANGED <<code, damaged>>

TakeBack(d) == d \in damaged /\ done' = done \ {d} /\ UNCHANGED <<code, damaged>>

Damage(d) == damaged' = damaged \cup {d} /\ UNCHANGED <<code, done>>

\* the files of a day are written again, which only happens to one not done
Repair(d) == d \notin done /\ damaged' = damaged \ {d} /\ UNCHANGED <<code, done>>

StartOver(c) ==
    /\ NoResumeAllowed
    /\ code' = c /\ done' = {} /\ damaged' = damaged

PutAside == code' = "NONE" /\ done' = {} /\ damaged' = {}

Next ==
    \/ \E c \in Codes : Adopt(c) \/ StartOver(c)
    \/ \E d \in Dates : Complete(d) \/ TakeBack(d) \/ Damage(d) \/ Repair(d)
    \/ PutAside

Spec == Init /\ [][Next]_vars
=============================================================================
