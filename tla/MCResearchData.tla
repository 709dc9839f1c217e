---------------------------- MODULE MCResearchData ----------------------------
(* The REST client, the flat-file store and the page caches that a replay      *)
(* reads through, the research batch that is built on them, and the ledger of  *)
(* hypotheses over the days of an experiment.  They share no state, so a       *)
(* behaviour explores one of them and leaves the others as they start.         *)
EXTENDS RestClient, FlatfileStore, PageCaches, ResearchBatch, HypothesisLedger

VARIABLE part

researchVars ==
    <<part, clientVars, storeVars, pageVars, batchVars, ledgerVars>>

ResearchInit ==
    /\ part \in {"rest", "flatfiles", "pages", "batch", "ledger"}
    /\ ClientInit /\ StoreInit /\ PageInit /\ BatchInit /\ LedgerInit
    /\ part # "flatfiles" => listed = {"v1"}
    /\ part # "rest" => adaptive

Rest(action) ==
    part = "rest" /\ action /\ UNCHANGED <<part, storeVars, pageVars, batchVars, ledgerVars>>
Flatfiles(action) ==
    part = "flatfiles" /\ action /\ UNCHANGED <<part, clientVars, pageVars, batchVars, ledgerVars>>
PageStore(action) ==
    part = "pages" /\ action /\ UNCHANGED <<part, clientVars, storeVars, batchVars, ledgerVars>>
Batch(action) ==
    part = "batch" /\ action /\ UNCHANGED <<part, clientVars, storeVars, pageVars, ledgerVars>>
Ledger(action) ==
    part = "ledger" /\ action /\ UNCHANGED <<part, clientVars, storeVars, pageVars, batchVars>>

ResearchNext ==
    \/ Rest(ClientNext) \/ Flatfiles(StoreNext) \/ PageStore(PageNext)
    \/ Batch(BatchNext) \/ Ledger(LedgerNext)

\* a launch of the batch goes on until it ends or stops
ResearchSpec ==
    ResearchInit /\ [][ResearchNext]_researchVars /\ WF_researchVars(Batch(LaunchStep))

-----------------------------------------------------------------------------
MCRetryAfters ==
    {NoHeader, [form |-> "seconds", wait |-> 4], [form |-> "date", wait |-> 4]}
MCSizeOf == [v \in {"v1", "v2", "v3"} |-> IF v = "v3" THEN 2 ELSE 1]

Day(low, guardrail, seen, coverage, same) ==
    [missed |-> [h \in Hypotheses |-> IF h = "selection_threshold" THEN low ELSE guardrail],
     observed |-> seen, universe |-> coverage, sameUniverse |-> same]
MCPostmortems ==
    {Day({"A"}, {}, {"A"}, "complete", TRUE), Day({}, {"A"}, {}, "complete", TRUE),
     Day({"A"}, {"B"}, {"B"}, "complete", FALSE), Day({"A"}, {}, {}, "incomplete", TRUE)}
=============================================================================
