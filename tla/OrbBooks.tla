------------------------------ MODULE OrbBooks -------------------------------
(* The opening-range breakouts of a day (trainer/orb.py): the securities that  *)
(* pass are ranked by their opening volume against that of earlier sessions,   *)
(* each is given the signal its path would have made, and three books take     *)
(* positions in the order of the ranks, within a risk budget per trade and a   *)
(* cap on what is open at any one moment.  The signals overlap in time, and    *)
(* the order of the ranks is not the order in which they open.                 *)
EXTENDS Integers, Sequences, FiniteSets, FiniteSetsExt

CONSTANTS
    Names,                  \* securities with a base listing, numbered as their tickers sort
    OrbProfiles,            \* what the files may say of one on the day
    PriorSessions,          \* the sessions before the day, the day itself is none of them
    OpeningVolumes,         \* per security, its opening volume in the sessions it traded in
    minimum_baseline_sessions, minimum_relative_volume, top_n,
    candle_end,             \* the first minute after the opening candle
    entry_cutoff, minimum_open_price,
    atr_stop_divisor,       \* one over atr_stop_fraction
    risk_per_trade,         \* strategy_capital_usd * risk_per_trade_pct
    paper_cap, cash_cap     \* the leverage caps times strategy_capital_usd

(* A profile: ambiguous or discontinuous, enough volume history, the average   *)
(* range (0: none, else a stop of at least one unit of price), the opening     *)
(* volume, and the path: bars in the order of their minutes, counted from 9:30.*)
OrbBars == [at: Nat, open: Nat, high: Nat, low: Nat, close: Nat]
ASSUME OrbAssumption ==
    /\ Names \subseteq Nat /\ IsFiniteSet(Names) /\ IsFiniteSet(PriorSessions)
    /\ \A p \in OrbProfiles :
          /\ p.path \in Seq(OrbBars) /\ p.volume \in Nat
          /\ p.atr = 0 \/ (p.atr \in Nat /\ p.atr >= atr_stop_divisor)
          /\ \A i \in DOMAIN p.path : LET b == p.path[i] IN
                /\ b.low <= b.open /\ b.open <= b.high /\ b.low <= b.close /\ b.close <= b.high
                /\ \A j \in DOMAIN p.path : i < j => b.at < p.path[j].at
    /\ \A n \in Names : /\ DOMAIN OpeningVolumes[n] \subseteq PriorSessions
                        /\ \A d \in DOMAIN OpeningVolumes[n] : OpeningVolumes[n][d] \in Nat
    /\ minimum_baseline_sessions \in Nat \ {0} /\ minimum_relative_volume \in Nat \ {0}
    /\ atr_stop_divisor \in Nat \ {0} /\ risk_per_trade \in Nat /\ top_n \in Nat
    /\ candle_end \in Nat \ {0} /\ entry_cutoff \in Nat /\ minimum_open_price \in Nat
    /\ paper_cap \in Nat /\ cash_cap \in Nat

VARIABLES
    cachedSessions,         \* opening_volume_cache: the sessions that have a file
    orbStage,
    candidates,             \* the profiles of the day
    book,                   \* the book that is sized, of BookOrder
    sized,                  \* how many of the ranked rows it has gone through
    results                 \* per book, what became of each ranked row
orbVars == <<cachedSessions, orbStage, candidates, book, sized, results>>

-----------------------------------------------------------------------------
(* Who is a candidate, and where it ranks.                                     *)
Failing(condition, reason) == IF condition THEN {reason} ELSE {}

OpensOnTime(path) == path # <<>> /\ path[1].at = 0

OrbFailures(p) ==
    Failing(p.ambiguous, "IDENTITY_AMBIGUOUS")
    \cup Failing(p.jumps, "BAR_DISCONTINUITY")
    \cup Failing(~OpensOnTime(p.path), "OPEN_0930_UNAVAILABLE")
    \cup Failing(OpensOnTime(p.path) /\ p.path[1].open < minimum_open_price,
                 "OPEN_PRICE_BELOW_MINIMUM")
    \cup Failing(~p.traded, "AVERAGE_DAILY_VOLUME")
    \cup Failing(p.atr = 0, "ATR_14")

Passing == {n \in Names : OrbFailures(candidates[n]) = {}}

\* opening_volume_baseline(), as a total over a number of sessions
Baseline(n) ==
    LET known == cachedSessions \cap DOMAIN OpeningVolumes[n]
    IN  [sessions |-> Cardinality(known),
         total |-> SumFunctionOnSet(OpeningVolumes[n], known)]
HasBaseline(n) == Baseline(n).sessions >= minimum_baseline_sessions /\ Baseline(n).total > 0

Rankable == {n \in Passing : HasBaseline(n)}

\* the opening volumes over the baselines, compared by cross products
MoreRelative(n, o) ==
    LET left == candidates[n].volume * Baseline(n).sessions * Baseline(o).total
        right == candidates[o].volume * Baseline(o).sessions * Baseline(n).total
    IN  left > right \/ (left = right /\ n < o)
RankOf(n) == Cardinality({o \in Rankable : MoreRelative(o, n)}) + 1
Ranked == [r \in 1..Cardinality(Rankable) |-> CHOOSE n \in Rankable : RankOf(n) = r]

EnoughVolume(n) ==
    candidates[n].volume * Baseline(n).sessions >= minimum_relative_volume * Baseline(n).total

-----------------------------------------------------------------------------
(* The signal of one path.  A short is the long of the mirrored path: its      *)
(* prices count downwards.                                                     *)
OpeningBars(path) == {i \in DOMAIN path : path[i].at < candle_end}
CandleOpen(path) == path[Min(OpeningBars(path))].open
CandleClose(path) == path[Max(OpeningBars(path))].close
CandleHigh(path) == Max({path[i].high : i \in OpeningBars(path)})
CandleLow(path) == Min({path[i].low : i \in OpeningBars(path)})

Direction(path) ==
    IF CandleClose(path) > CandleOpen(path) THEN "LONG"
    ELSE IF CandleClose(path) < CandleOpen(path) THEN "SHORT" ELSE "DOJI"

Opens(side, bar) == IF side = "LONG" THEN bar.open ELSE -bar.open
Closes(side, bar) == IF side = "LONG" THEN bar.close ELSE -bar.close
Best(side, bar) == IF side = "LONG" THEN bar.high ELSE -bar.low
Worst(side, bar) == IF side = "LONG" THEN bar.low ELSE -bar.high
Trigger(side, path) == IF side = "LONG" THEN CandleHigh(path) ELSE -CandleLow(path)

Crossings(side, path) ==
    {i \in DOMAIN path : /\ path[i].at >= candle_end /\ path[i].at <= entry_cutoff
                         /\ Best(side, path[i]) > Trigger(side, path)}

EntryPrice(side, path, i) ==
    IF Opens(side, path[i]) > Trigger(side, path) THEN Opens(side, path[i])
    ELSE Trigger(side, path)

NoSignal == [executed |-> FALSE, side |-> "NONE", entry |-> 0, enters |-> 0, distance |-> 0,
             exit |-> 0, exits |-> 0, gapped |-> FALSE, reason |-> "NOT_TRIGGERED"]

StoppingBars(side, path, entered, stop) ==
    {i \in DOMAIN path : i >= entered /\ Worst(side, path[i]) <= stop}

\* simulate_orb_signal(): a bar that opens beyond the stop fills there
Signal(side, path, distance) ==
    IF Crossings(side, path) = {} THEN NoSignal
    ELSE LET entered == Min(Crossings(side, path))
             entry == EntryPrice(side, path, entered)
             stop == entry - distance
             stopping == StoppingBars(side, path, entered, stop)
             last == IF stopping = {} THEN Len(path) ELSE Min(stopping)
             gapped == stopping # {} /\ Opens(side, path[last]) < stop
         IN  [executed |-> TRUE, side |-> side, entry |-> entry, enters |-> path[entered].at,
              distance |-> distance, exits |-> path[last].at, gapped |-> gapped,
              exit |-> IF stopping = {} THEN Closes(side, path[last])
                       ELSE IF gapped THEN Opens(side, path[last]) ELSE stop,
              reason |-> IF stopping = {} THEN "SESSION_END" ELSE "STOP"]

StopDistanceOf(p) == p.atr \div atr_stop_divisor

SignalOf(n) ==
    LET p == candidates[n]
    IN  IF Direction(p.path) = "DOJI" THEN [NoSignal EXCEPT !.reason = "DOJI_SKIPPED"]
        ELSE Signal(Direction(p.path), p.path, StopDistanceOf(p))

-----------------------------------------------------------------------------
Qualified(n) == EnoughVolume(n) /\ Direction(candidates[n].path) # "DOJI"

\* the first top_n of those that qualify
SelectionStatus(n) ==
    IF ~EnoughVolume(n) THEN "BELOW_MINIMUM_RELATIVE_VOLUME"
    ELSE IF Direction(candidates[n].path) = "DOJI" THEN "DOJI_SKIPPED"
    ELSE IF Cardinality({o \in Rankable : Qualified(o) /\ RankOf(o) <= RankOf(n)}) <= top_n
         THEN "SELECTED" ELSE "BEYOND_TOP_N"

-----------------------------------------------------------------------------
(* The books (_sized_results).                                                 *)
BookOrder == <<"paper_long_only", "paper_long_short", "cash_long_only">>
Books == {BookOrder[i] : i \in DOMAIN BookOrder}
CapOf(b) == IF b = "cash_long_only" THEN cash_cap ELSE paper_cap
AllowShorts(b) == b = "paper_long_short"
Exhausted(b) == IF b = "cash_long_only" THEN "CASH_EXHAUSTED" ELSE "LEVERAGE_CAP_EXCEEDED"

OrbShares(signal) == risk_per_trade \div signal.distance
Magnitude(price) == IF price < 0 THEN -price ELSE price
Exposure(signal) == OrbShares(signal) * Magnitude(signal.entry)

Position(signal) ==
    [enters |-> signal.enters, exits |-> signal.exits, exposure |-> Exposure(signal)]

OpenExposure(positions, moment) ==
    SumFunctionOnSet([n \in DOMAIN positions |-> positions[n].exposure],
                     {n \in DOMAIN positions : /\ positions[n].enters <= moment
                                               /\ moment <= positions[n].exits})

\* mutant: what is open is added up when the new position enters
AtEntryOnly(positions, new) == OpenExposure(positions, positions[new].enters)

\* at the moments at which one of the positions enters or leaves
MaximumExposure(positions, new) ==
    Max({OpenExposure(positions, moment) :
            moment \in {positions[n].enters : n \in DOMAIN positions}
                       \cup {positions[n].exits : n \in DOMAIN positions}})

Executed(b) == {n \in DOMAIN results[b] : results[b][n] = "EXECUTED"}

\* what becomes of the next row of a book, after those before it
Outcome(b, n) ==
    LET signal == SignalOf(n)
        positions == [o \in Executed(b) \cup {n} |-> Position(SignalOf(o))]
    IN  IF SelectionStatus(n) # "SELECTED" THEN SelectionStatus(n)
        ELSE IF Direction(candidates[n].path) = "SHORT" /\ ~AllowShorts(b) THEN "SHORT_NOT_ALLOWED"
        ELSE IF ~signal.executed THEN signal.reason
        ELSE IF OrbShares(signal) = 0 THEN "POSITION_TOO_SMALL"
        ELSE IF MaximumExposure(positions, n) > CapOf(b) THEN Exhausted(b)
        ELSE "EXECUTED"

-----------------------------------------------------------------------------
NoResults == [b \in Books |-> <<>>]

OrbInit ==
    /\ cachedSessions \in SUBSET PriorSessions
    /\ orbStage = "warm" /\ candidates = <<>> /\ book = 1 /\ sized = 0
    /\ results = NoResults

\* orb_warmup: the missing sessions of the lookback, until one cannot be had
WarmSession(d) ==
    /\ orbStage = "warm" /\ d \notin cachedSessions
    /\ cachedSessions' = cachedSessions \cup {d}
    /\ UNCHANGED <<orbStage, candidates, book, sized, results>>

BuildOrb(profiles) ==
    /\ orbStage = "warm"
    /\ orbStage' = "sizing" /\ candidates' = profiles
    /\ UNCHANGED <<cachedSessions, book, sized, results>>

SizeRow ==
    /\ orbStage = "sizing" /\ sized < Len(Ranked)
    /\ LET b == BookOrder[book]
           n == Ranked[sized + 1]
       IN  results' = [results EXCEPT ![b] =
                          [o \in DOMAIN @ \cup {n} |-> IF o = n THEN Outcome(b, n) ELSE @[o]]]
    /\ sized' = sized + 1
    /\ UNCHANGED <<cachedSessions, orbStage, candidates, book>>

NextBook ==
    /\ orbStage = "sizing" /\ sized = Len(Ranked)
    /\ IF book < Len(BookOrder) THEN book' = book + 1 /\ sized' = 0 /\ UNCHANGED orbStage
       ELSE orbStage' = "done" /\ UNCHANGED <<book, sized>>
    /\ UNCHANGED <<cachedSessions, candidates, results>>

OrbNext ==
    \/ \E d \in PriorSessions : WarmSession(d)
    \/ \E profiles \in [Names -> OrbProfiles] : BuildOrb(profiles)
    \/ SizeRow
    \/ NextBook

OrbSpec == OrbInit /\ [][OrbNext]_orbVars

-----------------------------------------------------------------------------
(* Properties.                                                                 *)

\* At every moment of the day the positions a book has open stay together within
\* its cap, though they were accepted by rank and not by time; and however the
\* bars fall, a position loses no more than the risk of one trade unless the bar
\* that took it out had opened beyond the stop.
BooksWithinLimits ==
    \A b \in Books :
        /\ \A n \in Executed(b) : LET s == SignalOf(n) IN
              /\ s.side = "SHORT" => AllowShorts(b)
              /\ ~s.gapped => OrbShares(s) * (s.exit - s.entry) >= -risk_per_trade
        /\ LET positions == [n \in Executed(b) |-> Position(SignalOf(n))]
           IN  \A n, o \in Executed(b) : \A moment \in positions[n].enters..positions[o].exits :
                  OpenExposure(positions, moment) <= CapOf(b)
=============================================================================
