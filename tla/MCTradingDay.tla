----------------------------- MODULE MCTradingDay -----------------------------
(* The universe of a day, the rows of its files, the day from the snapshot to  *)
(* the postmortem, one simulated position, and the opening-range books.  They  *)
(* are checked side by side: a behaviour explores one of them and leaves the   *)
(* others as they start.                                                       *)
EXTENDS UniverseBuild, ReplaySnapshot, TradingDay, TradeWalk, OrbBooks

VARIABLE part

tradingVars == <<part, universeVars, tapeVars, dayVars, walkVars, orbVars>>

TradingInit ==
    /\ part \in {"universe", "tape", "day", "walk", "orb"}
    /\ UniverseInit /\ TapeInit /\ DayInit /\ TradeInit /\ OrbInit
    /\ part # "tape" => listing = CHOOSE l \in Listings : TRUE
    /\ part # "walk" => policy = CHOOSE p \in Policies : TRUE
    /\ part # "orb" => cachedSessions = {}

Universe(action) ==
    part = "universe" /\ action /\ UNCHANGED <<part, tapeVars, dayVars, walkVars, orbVars>>
Tape(action) ==
    part = "tape" /\ action /\ UNCHANGED <<part, universeVars, dayVars, walkVars, orbVars>>
Day(action) ==
    part = "day" /\ action /\ UNCHANGED <<part, universeVars, tapeVars, walkVars, orbVars>>
Walk(action) ==
    part = "walk" /\ action /\ UNCHANGED <<part, universeVars, tapeVars, dayVars, orbVars>>
Orb(action) ==
    part = "orb" /\ action /\ UNCHANGED <<part, universeVars, tapeVars, dayVars, walkVars>>

TradingNext ==
    \/ Universe(UniverseNext)
    \/ Tape(TapeNext)
    \/ Day(DayNext)
    \/ Walk(TradeNext)
    \/ Orb(OrbNext)

TradingSpec == TradingInit /\ [][TradingNext]_tradingVars

-----------------------------------------------------------------------------
Security(eligible, bars60, counted, rejected, points, reversal, path, move, pnl, stopped) ==
    [eligible |-> eligible, bars60 |-> bars60, counted |-> counted, rejected |-> rejected,
     points |-> points, reversal |-> reversal, path |-> path, move |-> move, pnl |-> pnl, stopped |-> stopped]

MCProfiles ==
    {Security(TRUE, 30, TRUE, FALSE, 3, -1, "bars", 4, 3, FALSE),       \* qualifies and wins
     Security(TRUE, 30, TRUE, FALSE, 2, 2, "bars", 1, -2, TRUE),        \* qualifies and loses
     Security(TRUE, 31, TRUE, FALSE, 3, -1, "excluded", 2, 1, FALSE),   \* qualifies, no trade
     Security(TRUE, 30, FALSE, FALSE, 1, -1, "bars", 3, 1, FALSE),      \* below the threshold
     Security(TRUE, 40, TRUE, FALSE, 0, 2, "bars", 3, 2, TRUE),         \* a reversal
     Security(TRUE, 30, TRUE, TRUE, 3, -1, "bars", 4, 2, FALSE),        \* a guardrail rejects it
     Security(TRUE, 29, TRUE, FALSE, 3, 2, "bars", 5, 4, FALSE),        \* a score for the record
     Security(TRUE, 9, FALSE, TRUE, 3, -1, "bars", 2, 1, FALSE),        \* too few bars to score
     Security(FALSE, 30, FALSE, FALSE, 3, -1, "bars", 5, 4, FALSE)}     \* not in the universe

Row(identity, cik, figi, dated, late, barred, traded, volume, fits) ==
    [identity |-> identity, cik |-> cik, figi |-> figi, dated |-> dated, late |-> late,
     barred |-> barred, traded |-> traded, volume |-> volume, fits |-> fits]

\* three classes chained by CIK and FIGI, an identity listed twice, and a row that
\* cannot be included
MCFacts ==
    <<Row("s1", "c1", "NONE", TRUE, FALSE, FALSE, TRUE, 2, TRUE),
      Row("s2", "c1", "f1", FALSE, FALSE, FALSE, TRUE, 3, TRUE),
      Row("s3", "NONE", "f1", TRUE, FALSE, FALSE, TRUE, 3, TRUE),
      Row("s2", "NONE", "NONE", FALSE, FALSE, FALSE, TRUE, 0, TRUE),
      Row("NONE", "NONE", "NONE", TRUE, TRUE, TRUE, FALSE, 0, FALSE)>>

MCPolicies ==
    {[exit_mode |-> exit, stop |-> IF exit = "ATR" THEN 1 ELSE 20,
      target |-> IF exit = "ATR" THEN 2 ELSE 40, sizing_mode |-> sizing] :
        exit \in {"PERCENT", "ATR"}, sizing \in {"FIXED_FRACTION", "RISK_PER_TRADE"}}

\* three identities that share a ticker, or a former one; the second has two entries,
\* and the last is not in the universe
MCListings ==
    LET Listed(identity, ticker, history, included, common) ==
            [identity |-> identity, ticker |-> ticker, history |-> history,
             included |-> included, common |-> common]
    IN  {<<Listed("s1", "A", IF former = {"C"} THEN {"B"} ELSE {}, TRUE, TRUE),
           Listed("s2", "B", former, TRUE, TRUE),
           Listed("s2", "C", {}, FALSE, again),
           Listed("s3", third, {}, FALSE, third # "D")>> :
            former \in {{}, {"A"}, {"C"}}, again \in BOOLEAN,
            third \in {"B", "C", "D"}}

MinuteRow(ticker, id, prior, minute, size, price) ==
    [ticker |-> ticker, id |-> id, prior |-> prior, minute |-> minute, size |-> size,
     price |-> price]
MCTapeRows ==
    {MinuteRow("A", "NONE", TRUE, 1, 1, 4),     \* before the freeze of the earlier session
     MinuteRow("A", "NONE", FALSE, 1, 2, 4),    \* before the freeze
     MinuteRow("A", "s2", FALSE, 2, 1, 5),      \* the same, with an identifier
     MinuteRow("A", "NONE", FALSE, 3, 1, 5),    \* between the freeze and the open
     MinuteRow("A", "NONE", FALSE, 4, 2, 5),    \* the open
     MinuteRow("A", "NONE", FALSE, 4, 1, 9),    \* its duplicate
     MinuteRow("A", "NONE", FALSE, 5, 1, 6),    \* in the opening candle
     MinuteRow("B", "NONE", FALSE, 4, 1, 7),
     MinuteRow("C", "NONE", FALSE, 4, 1, 7),
     MinuteRow("C", "s1", FALSE, 5, 3, 3),
     MinuteRow("A", "NONE", FALSE, 6, 1, 4),    \* after the candle
     MinuteRow("B", "NONE", FALSE, 6, 1, 7)}

Candle(at, open, high, low, close) ==
    [at |-> at, open |-> open, high |-> high, low |-> low, close |-> close]
Breakout(volume, atr, path) ==
    [ambiguous |-> FALSE, jumps |-> FALSE, traded |-> TRUE, volume |-> volume, atr |-> atr,
     path |-> path]
Rising == Candle(0, 9, 10, 9, 10)
MCOrbProfiles ==
    {Breakout(8, 20, <<Rising, Candle(2, 10, 11, 10, 11), Candle(8, 11, 12, 11, 12)>>),
     Breakout(12, 20, <<Rising, Candle(5, 9, 12, 9, 11), Candle(8, 9, 9, 7, 8)>>),
     Breakout(8, 20, <<Rising, Candle(3, 11, 12, 9, 9), Candle(8, 11, 12, 11, 12)>>),
     Breakout(10, 10, <<Candle(0, 10, 11, 9, 10), Candle(1, 10, 10, 9, 9),
                        Candle(4, 9, 9, 8, 8), Candle(6, 11, 11, 9, 10)>>),   \* short, gaps
     Breakout(8, 20, <<Rising, Candle(5, 7, 11, 7, 11)>>),      \* opens below its stop
     Breakout(6, 90, <<Rising, Candle(2, 10, 11, 10, 11)>>),    \* a stop too far
     Breakout(9, 20, <<Rising, Candle(7, 10, 12, 10, 12)>>),    \* too late
     Breakout(9, 20, <<Candle(0, 10, 11, 9, 10)>>),             \* no direction
     Breakout(9, 0, <<Candle(1, 10, 11, 9, 10)>>)}              \* no candidate

\* the third did not trade in the second session
MCOpeningVolumes == <<<<2, 3>>, <<3, 1>>, <<2>>>>
=============================================================================
