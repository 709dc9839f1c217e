------------------------ MODULE ReferenceCacheProofs -------------------------
(* Proofs about ReferenceCache, for any tickers, dates and quarters.           *)
(* An answer is stable because the file it came from stays its source: a fetch *)
(* for a date is only made while no file answers for that date, so the file it *)
(* adds can come between no earlier file and no date answered from that file.  *)
EXTENDS ReferenceCache, TLAPS

\* what was answered is what the files answer now
GivenInv ==
    \A t \in Tickers, d \in Dates :
        given[t][d] # NoAnswer =>
            /\ given[t][d].from \in Dates
            /\ Source(t, d, given[t][d].from)
            /\ given[t][d].says = entries[t][given[t][d].from]

\* a ticker the batch has to fetch is unknown until its file is written
TaskInv ==
    \A t \in Tickers :
        /\ task[t] \in {"waiting", "calling", "writing", "failed", "broken", "error"} =>
               ~Known(t, lagged_date)
        /\ task[t] \in {"writing", "settled"} => reply[t] \in Contents
        /\ task[t] = "settled" => entries[t][lagged_date] = reply[t]
        /\ pc = "idle" => task[t] = "unlisted"

IInv == TypeOK /\ GivenInv /\ TaskInv

-----------------------------------------------------------------------------
(* Lemmas about the files of one ticker.                                       *)

\* the files that answer for a date leave no choice
LEMMA SourceIsUnique ==
    ASSUME NEW t \in Tickers, NEW d \in Dates, NEW e \in Dates, NEW f \in Dates,
           Source(t, d, e), Source(t, d, f)
    PROVE  e = f
<1>1. CASE entries[t][d] # "NONE"
  BY <1>1 DEF Source
<1>2. CASE entries[t][d] = "NONE"
  BY <1>2, DatesAssumption DEF Source
<1> QED BY <1>1, <1>2

\* a new file takes no answer away from an older one
LEMMA SourceStays ==
    ASSUME TypeOK, NEW t \in Tickers, NEW l \in Dates, ~Known(t, l),
           NEW says \in Contents, entries' = [entries EXCEPT ![t][l] = says],
           NEW u \in Tickers, NEW d \in Dates, NEW f \in Dates, Source(u, d, f)
    PROVE  Source(u, d, f)' /\ entries'[u][f] = entries[u][f]
<1>1. \A v \in Tickers, g \in Dates :
          entries'[v][g] = IF v = t /\ g = l THEN says ELSE entries[v][g]
  BY DEF TypeOK
<1>2. CASE u # t
  <2>1. \A g \in Dates : entries'[u][g] = entries[u][g]
    BY <1>1, <1>2
  <2> QED BY <2>1 DEF Source, Candidate
<1>3. CASE u = t
  <2>1. entries[t][l] = "NONE" /\ \A e \in Dates : ~Candidate(t, l, e)
    BY DEF Known
  <2>2. f # l /\ d # l
    BY <1>3, <2>1, OverviewsAssumption DEF Source, Candidate
  <2>3. entries'[t][f] = entries[t][f] /\ entries'[t][d] = entries[t][d]
    BY <1>1, <2>2
  <2>4. CASE entries[t][d] # "NONE"
    BY <1>3, <2>3, <2>4 DEF Source
  <2>5. CASE entries[t][d] = "NONE"
    <3>1. Candidate(t, d, f) /\ \A g \in Dates : Candidate(t, d, g) => g <= f
      BY <1>3, <2>5 DEF Source, Candidate
    <3>2. Candidate(t, d, f)'
      BY <3>1, <2>3 DEF Candidate
    <3>3. ASSUME NEW g \in Dates, Candidate(t, d, g)' PROVE g <= f
      <4>1. CASE g # l
        BY <4>1, <1>1, <3>1, <3>3 DEF Candidate
      <4>2. CASE g = l
        <5>1. Quarter[l] = Quarter[d] /\ Quarter[f] = Quarter[d] /\ entries[t][f] \in Overviews
          BY <4>2, <3>1, <3>3 DEF Candidate
        <5>2. ~(f <= l)
          BY <5>1, <2>1 DEF Candidate
        <5> QED BY <5>2, <4>2, DatesAssumption
      <4> QED BY <4>1, <4>2
    <3> QED BY <1>3, <2>3, <2>5, <3>2, <3>3 DEF Source
  <2> QED BY <1>3, <2>3, <2>4, <2>5
<1> QED BY <1>2, <1>3

\* what one action does to one ticker's answer is all that GivenInv asks
LEMMA GivenStays ==
    ASSUME GivenInv, UNCHANGED <<entries, given>>
    PROVE  GivenInv'
BY DEF GivenInv, Source, Candidate

LEMMA InitIInv == Init => IInv
<1> SUFFICES ASSUME Init PROVE IInv
  OBVIOUS
<1>1. TypeOK
  BY DEF Init, TypeOK, NoTasks, TaskStates
<1>2. GivenInv
  BY DEF Init, GivenInv
<1>3. TaskInv
  BY DEF Init, TaskInv, NoTasks
<1> QED BY <1>1, <1>2, <1>3 DEF IInv

-----------------------------------------------------------------------------
(* Every step preserves the parts.                                             *)

LEMMA BeginStep ==
    ASSUME IInv, NEW ts \in Listings, NEW d \in Dates, Begin(ts, d) PROVE IInv'
<1>1. TypeOK'
  BY DEF IInv, TypeOK, Begin, TaskStates
<1>2. GivenInv'
  BY GivenStays DEF IInv, Begin
<1>3. TaskInv'
  BY <1>1 DEF IInv, TaskInv, TypeOK, Begin
<1> QED BY <1>1, <1>2, <1>3 DEF IInv

\* an answer that is given is the one the files give
LEMMA GiveStep ==
    ASSUME IInv, NEW t \in Tickers, NEW e \in Dates, NEW says \in Contents,
           lagged_date \in Dates, entries' = entries, Give(t, says, e),
           Source(t, lagged_date, e), entries[t][e] = says
    PROVE  /\ GivenInv'
           /\ given' \in [Tickers -> [Dates -> Answers \cup {NoAnswer}]]
           /\ \A u \in Tickers, d \in Dates :
                  given[u][d] # NoAnswer => given'[u][d] = given[u][d]
<1> DEFINE answer == [says |-> says, from |-> e]
<1>1. answer \in Answers
  BY DEF Answers
<1>2. \A u \in Tickers, d \in Dates :
          given'[u][d] = IF u = t /\ d = lagged_date THEN answer ELSE given[u][d]
  BY DEF Give, IInv, TypeOK
<1>3. given' \in [Tickers -> [Dates -> Answers \cup {NoAnswer}]]
  BY <1>1 DEF Give, IInv, TypeOK
<1>4. GivenInv'
  BY <1>2 DEF IInv, GivenInv, Source, Candidate
<1>5. ASSUME given[t][lagged_date] # NoAnswer PROVE given[t][lagged_date] = answer
  <2>1. given[t][lagged_date].from = e
    BY <1>5, SourceIsUnique DEF IInv, GivenInv
  <2>2. given[t][lagged_date].says = says
    BY <1>5, <2>1 DEF IInv, GivenInv
  <2>3. given[t][lagged_date] \in Answers
    BY <1>5 DEF IInv, TypeOK
  <2> QED BY <2>1, <2>2, <2>3 DEF Answers
<1> HIDE DEF answer
<1> QED BY <1>2, <1>3, <1>4, <1>5

LEMMA LookupHitStep ==
    ASSUME IInv, NEW t \in Tickers, NEW e \in Dates, LookupHit(t, e)
    PROVE  IInv' /\ \A u \in Tickers, d \in Dates :
                        given[u][d] # NoAnswer => given'[u][d] = given[u][d]
<1>1. lagged_date \in Dates /\ entries[t][e] \in Contents
  BY DEF IInv, TypeOK, LookupHit, Source, Candidate, Contents
<1>2. /\ GivenInv' /\ given' \in [Tickers -> [Dates -> Answers \cup {NoAnswer}]]
      /\ \A u \in Tickers, d \in Dates : given[u][d] # NoAnswer => given'[u][d] = given[u][d]
  BY <1>1, GiveStep DEF LookupHit
<1>3. TypeOK'
  BY <1>2 DEF IInv, TypeOK, LookupHit, TaskStates
<1>4. TaskInv'
  BY DEF IInv, TypeOK, TaskInv, LookupHit, Known, Candidate
<1> QED BY <1>2, <1>3, <1>4 DEF IInv

LEMMA CollectStep ==
    ASSUME IInv, NEW t \in Tickers, Collect(t)
    PROVE  IInv' /\ \A u \in Tickers, d \in Dates :
                        given[u][d] # NoAnswer => given'[u][d] = given[u][d]
<1>1. lagged_date \in Dates
  BY DEF IInv, TypeOK, Collect
<1>2. /\ GivenInv' /\ given' \in [Tickers -> [Dates -> Answers \cup {NoAnswer}]]
      /\ \A u \in Tickers, d \in Dates : given[u][d] # NoAnswer => given'[u][d] = given[u][d]
  <2>1. CASE task[t] = "settled"
    <3>1. reply[t] \in Contents /\ entries[t][lagged_date] = reply[t]
      BY <2>1 DEF IInv, TaskInv
    <3>2. Source(t, lagged_date, lagged_date)
      BY <3>1, OverviewsAssumption DEF Source, Contents
    <3> QED BY <1>1, <2>1, <3>1, <3>2, GiveStep DEF Collect
  <2>2. CASE task[t] = "failed"
    <3>1. given' = given /\ entries' = entries
      BY <2>2 DEF Collect
    <3> QED BY <3>1, GivenStays DEF IInv, TypeOK
  <2> QED BY <2>1, <2>2 DEF Collect
<1>3. TypeOK'
  BY <1>2 DEF IInv, TypeOK, Collect, TaskStates
<1>4. TaskInv'
  BY DEF IInv, TypeOK, TaskInv, Collect, Known, Candidate
<1> QED BY <1>2, <1>3, <1>4 DEF IInv

\* the steps that touch neither the files nor the answers
LEMMA QuietStep ==
    ASSUME IInv, NEW t \in Tickers,
           \/ LookupMiss(t) \/ CollectBroken(t) \/ Call(t) \/ Unclassified(t)
           \/ \E says \in Contents : Answered(t, says)
           \/ \E count \in ProviderRetries, exhausted \in BOOLEAN :
                  Transient(t, count, exhausted)
    PROVE  IInv' /\ given' = given
<1>1. CASE LookupMiss(t)
  <2>1. TypeOK'
    BY <1>1 DEF IInv, TypeOK, LookupMiss, TaskStates
  <2>2. TaskInv'
    BY <1>1 DEF IInv, TypeOK, TaskInv, LookupMiss, Known, Candidate
  <2> QED BY <1>1, <2>1, <2>2, GivenStays DEF IInv, LookupMiss
<1>2. CASE CollectBroken(t)
  <2>1. TypeOK'
    BY <1>2 DEF IInv, TypeOK, CollectBroken, TaskStates
  <2>2. TaskInv'
    BY <1>2 DEF IInv, TypeOK, TaskInv, CollectBroken, Known, Candidate
  <2> QED BY <1>2, <2>1, <2>2, GivenStays DEF IInv, CollectBroken
<1>3. CASE Call(t)
  <2>1. TypeOK'
    BY <1>3 DEF IInv, TypeOK, Call, TaskStates
  <2>2. TaskInv'
    BY <1>3 DEF IInv, TypeOK, TaskInv, Call, Known, Candidate
  <2> QED BY <1>3, <2>1, <2>2, GivenStays DEF IInv, Call
<1>4. CASE Unclassified(t)
  <2>1. TypeOK'
    BY <1>4 DEF IInv, TypeOK, Unclassified, TaskStates
  <2>2. TaskInv'
    BY <1>4 DEF IInv, TypeOK, TaskInv, Unclassified, Known, Candidate
  <2> QED BY <1>4, <2>1, <2>2, GivenStays DEF IInv, Unclassified
<1>5. ASSUME NEW says \in Contents, Answered(t, says) PROVE IInv' /\ given' = given
  <2>1. TypeOK'
    BY <1>5 DEF IInv, TypeOK, Answered, TaskStates
  <2>2. TaskInv'
    BY <1>5 DEF IInv, TypeOK, TaskInv, Answered, Known, Candidate
  <2> QED BY <1>5, <2>1, <2>2, GivenStays DEF IInv, Answered
<1>6. ASSUME NEW count \in ProviderRetries, NEW exhausted \in BOOLEAN,
             Transient(t, count, exhausted)
      PROVE  IInv' /\ given' = given
  <2>1. TypeOK'
    <3>1. CASE GivesUp(t, count, exhausted)
      BY <1>6, <3>1 DEF IInv, TypeOK, Transient, TaskStates
    <3>2. CASE ~GivesUp(t, count, exhausted)
      BY <1>6, <3>2 DEF IInv, TypeOK, Transient
    <3> QED BY <3>1, <3>2
  <2>2. TaskInv'
    BY <1>6 DEF IInv, TypeOK, TaskInv, Transient, Known, Candidate
  <2> QED BY <1>6, <2>1, <2>2, GivenStays DEF IInv, Transient
<1> QED BY <1>1, <1>2, <1>3, <1>4, <1>5, <1>6

LEMMA WriteStep == ASSUME IInv, NEW t \in Tickers, Write(t) PROVE IInv' /\ given' = given
<1>1. reply[t] \in Contents /\ ~Known(t, lagged_date)
  BY DEF IInv, TaskInv, Write
<1>2. lagged_date \in Dates
  BY DEF IInv, TypeOK, TaskInv, Write
<1>3. TypeOK'
  BY <1>1, <1>2 DEF IInv, TypeOK, Write, TaskStates
<1>4. GivenInv'
  <2>1. entries' = [entries EXCEPT ![t][lagged_date] = reply[t]] /\ given' = given
    BY DEF Write
  <2>2. ASSUME NEW u \in Tickers, NEW d \in Dates, given[u][d] # NoAnswer
        PROVE  /\ given[u][d].from \in Dates
               /\ Source(u, d, given[u][d].from)'
               /\ given[u][d].says = entries'[u][given[u][d].from]
    <3>1. /\ given[u][d].from \in Dates /\ Source(u, d, given[u][d].from)
          /\ given[u][d].says = entries[u][given[u][d].from]
      BY <2>2 DEF IInv, GivenInv
    <3>2. /\ Source(u, d, given[u][d].from)'
          /\ entries'[u][given[u][d].from] = entries[u][given[u][d].from]
      <4> DEFINE f == given[u][d].from
      <4>1. f \in Dates /\ Source(u, d, f) /\ f' = f
        BY <2>1, <3>1
      <4> HIDE DEF f
      <4>2. Source(u, d, f)' /\ entries'[u][f] = entries[u][f]
        BY <1>1, <1>2, <2>1, <4>1, SourceStays DEF IInv
      <4> QED BY <4>2, <4>1 DEF f
    <3> QED BY <3>1, <3>2
  <2> QED BY <2>1, <2>2 DEF GivenInv
<1>5. TaskInv'
  <2>1. \A u \in Tickers, d \in Dates :
            entries'[u][d] = IF u = t /\ d = lagged_date THEN reply[t] ELSE entries[u][d]
    BY DEF IInv, TypeOK, Write
  <2>2. \A u \in Tickers : u # t => (Known(u, lagged_date)' <=> Known(u, lagged_date))
    BY <1>2, <2>1 DEF Known, Candidate, Write
  <2> QED BY <1>1, <1>2, <2>1, <2>2 DEF IInv, TypeOK, TaskInv, Write
<1> QED BY <1>3, <1>4, <1>5 DEF IInv, Write

LEMMA IdleStep ==
    ASSUME IInv, Idle, UNCHANGED <<entries, given, batches>>, crashes' \in Nat
    PROVE  IInv'
<1>1. TypeOK'
  BY DEF IInv, TypeOK, Idle, NoTasks, TaskStates
<1>2. TaskInv'
  BY DEF TaskInv, Idle, NoTasks
<1> QED BY <1>1, <1>2, GivenStays DEF IInv

LEMMA InvStep ==
    ASSUME IInv, [Next]_vars
    PROVE  IInv' /\ \A u \in Tickers, d \in Dates :
                        given[u][d] # NoAnswer => given'[u][d] = given[u][d]
<1>1. CASE UNCHANGED vars
  BY <1>1 DEF vars, IInv, TypeOK, GivenInv, TaskInv, Source, Candidate, Known
<1>2. ASSUME NEW ts \in Listings, NEW d \in Dates, Begin(ts, d) PROVE IInv' /\ given' = given
  BY <1>2, BeginStep DEF Begin
<1>3. CASE OpenPool
  <2>1. TypeOK'
    BY <1>3 DEF IInv, TypeOK, OpenPool
  <2>2. TaskInv'
    BY <1>3 DEF IInv, TaskInv, OpenPool, Known, Candidate
  <2> QED BY <1>3, <2>1, <2>2, GivenStays DEF IInv, OpenPool
<1>4. CASE End \/ Crash
  <2>1. Idle /\ UNCHANGED <<entries, given, batches>> /\ crashes' \in Nat
    BY <1>4 DEF End, Crash, IInv, TypeOK
  <2> QED BY <2>1, IdleStep
<1>5. ASSUME NEW t \in Tickers, Step(t)
      PROVE  IInv' /\ \A u \in Tickers, d \in Dates :
                          given[u][d] # NoAnswer => given'[u][d] = given[u][d]
  <2>1. ASSUME NEW e \in Dates, LookupHit(t, e)
        PROVE  IInv' /\ \A u \in Tickers, d \in Dates :
                            given[u][d] # NoAnswer => given'[u][d] = given[u][d]
    BY <2>1, LookupHitStep
  <2>2. CASE Collect(t)
    BY <2>2, CollectStep
  <2>3. CASE Write(t)
    BY <2>3, WriteStep
  <2> QED BY <1>5, <2>1, <2>2, <2>3, QuietStep DEF Step
<1> QED BY <1>1, <1>2, <1>3, <1>4, <1>5 DEF Next, Batch

LEMMA Inductive == Spec => []IInv
<1>1. IInv /\ [Next]_vars => IInv'
  BY InvStep
<1> QED BY InitIInv, <1>1, PTL DEF Spec

-----------------------------------------------------------------------------
(* The theorems.                                                               *)

\* The type invariant of the cache and its batches.
THEOREM TypeCorrect == Spec => []TypeOK
<1>1. IInv => TypeOK
  BY DEF IInv
<1> QED BY Inductive, <1>1, PTL

\* No answer comes from the future of its lagged date (_reusable_path).
THEOREM AnswersArePointInTime == Spec => []PointInTime
<1>1. IInv => PointInTime
  <2> SUFFICES ASSUME IInv, NEW t \in Tickers, NEW d \in Dates, given[t][d] # NoAnswer
               PROVE  LET answer == given[t][d]
                      IN  /\ answer.from <= d /\ Quarter[answer.from] = Quarter[d]
                          /\ answer.says = "MISS" => answer.from = d
    BY DEF PointInTime
  <2>1. /\ given[t][d].from \in Dates /\ Source(t, d, given[t][d].from)
        /\ given[t][d].says = entries[t][given[t][d].from]
    BY DEF IInv, GivenInv
  <2> QED BY <2>1, DatesAssumption, OverviewsAssumption DEF Source, Candidate
<1> QED BY Inductive, <1>1, PTL

\* A failed request is not remembered (_fetch_result).
THEOREM FailuresLeaveNoTrace == Spec => []FailureLeavesNoTrace
<1>1. IInv => FailureLeavesNoTrace
  BY DEF IInv, TaskInv, FailureLeavesNoTrace, Known
<1> QED BY Inductive, <1>1, PTL

\* An answer is given again whenever it is asked for (get_many, get).
THEOREM AnswersAreStable == Spec => AnswersStable
<1> DEFINE Kept == \A t \in Tickers, d \in Dates :
                       given[t][d] # NoAnswer => given'[t][d] = given[t][d]
<1>1. IInv /\ [Next]_vars => [Kept]_vars
  BY InvStep
<1>2. Spec => [][Kept]_vars
  <2> HIDE DEF Kept
  <2> QED BY Inductive, <1>1, PTL DEF Spec
<1> QED BY <1>2 DEF AnswersStable
=============================================================================
