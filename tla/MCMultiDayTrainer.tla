-------------------------- MODULE MCMultiDayTrainer --------------------------
(* Requests of the runs of MultiDayTrainer.                                    *)
EXTENDS MultiDayTrainer

Locked == {"DEVELOPMENT", "VALIDATION"}

Ask(ds, policy, allowed, unlocked, resume) ==
    [dates |-> ds, policy |-> policy, allowed |-> allowed, unlocked |-> unlocked,
     resume |-> resume]

\* one policy: growing and narrowing requests, and a run for the holdout
SteadyRequests ==
    {Ask({1}, "p0", Locked, FALSE, TRUE),
     Ask({1, 2, 3}, "p0", Locked, FALSE, TRUE),
     Ask({1, 2, 3}, "p0", Partitions, TRUE, TRUE)}

\* restarts of the experiment: another policy, --no-resume, a refused holdout
RestartRequests ==
    {Ask({1, 2}, "p0", Locked, FALSE, TRUE),
     Ask({2, 3}, "p1", Locked, FALSE, TRUE),
     Ask({2, 3}, "p0", Locked, FALSE, FALSE),
     Ask({1, 2}, "p1", Partitions, FALSE, TRUE)}
=============================================================================
