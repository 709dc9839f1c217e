------------------------------ MODULE TradeWalk -------------------------------
(* One simulated position (simulate_trade, trainer/trade_engine.py): it is     *)
(* sized, entered at the open of the first bar, and walks the bars of the      *)
(* session in their order until a bar takes it out.  A bar tells its range     *)
(* and not the order of its high and its low.  Prices are whole numbers; an    *)
(* exit price and a result count in hundredths, which keeps percentages exact. *)
EXTENDS Integers

CONSTANTS
    Prices,                 \* the prices a bar can show
    Policies,               \* the execution policies a session is graded under
    position_value,         \* calculate_position_value(): capital * max_position_pct
    risk_budget,            \* capital * risk_per_trade_pct
    AverageRanges           \* readings of atr_14_usd; 0: there is none

\* a policy exits by percentages of prices or by multiples of the average range
ASSUME TradePolicyAssumption ==
    Policies \subseteq [exit_mode: {"PERCENT", "ATR"}, stop: Nat \ {0}, target: Nat \ {0},
                        sizing_mode: {"FIXED_FRACTION", "RISK_PER_TRADE"}]
ASSUME PriceAssumption ==
    /\ Prices \subseteq Nat \ {0} /\ AverageRanges \subseteq Nat
    /\ position_value \in Nat /\ risk_budget \in Nat

VARIABLES policy, trade
walkVars == <<policy, trade>>
-----------------------------------------------------------------------------
\* open and close lie within the range: validate_outcome_bars()
Bars == {b \in [open: Prices, high: Prices, low: Prices, close: Prices, puts: BOOLEAN] :
            /\ b.low <= b.open /\ b.open <= b.high
            /\ b.low <= b.close /\ b.close <= b.high}

\* stop_distance and target_price, in hundredths; the percentages and multiples
\* are the policy's
StopDistance(entry, atr) ==
    IF policy.exit_mode = "PERCENT" THEN entry * policy.stop ELSE 100 * atr * policy.stop
TargetPrice(entry, atr) ==
    100 * entry + (IF policy.exit_mode = "PERCENT" THEN entry * policy.target
                   ELSE 100 * atr * policy.target)

Highest(high) == IF high > trade.highest THEN high ELSE trade.highest

\* the stop trails the highest price so far by a distance that grows with it only
\* if it is a percentage
StopPrice == 100 * trade.highest - StopDistance(trade.highest, trade.atr)

\* whole shares: what the position may cost, and what it may lose
Affordable(entry) == position_value \div entry

\* mutant: the size looks at the cost of the position only
CostOnly(entry, atr) == Affordable(entry)

Shares(entry, atr) ==
    LET risked == (100 * risk_budget) \div StopDistance(entry, atr)
    IN  IF policy.sizing_mode = "RISK_PER_TRADE" /\ risked < Affordable(entry)
        THEN risked ELSE Affordable(entry)

-----------------------------------------------------------------------------
NoTrade == [stage |-> "none", entry |-> 0, atr |-> 0, shares |-> 0, highest |-> 0,
            bars |-> 0, close |-> 0, exit |-> 0, reason |-> "NONE"]

TradeInit == policy \in Policies /\ trade = NoTrade

Rejects(reason) == trade' = [NoTrade EXCEPT !.stage = "rejected", !.reason = reason]

\* without an average range an ATR policy has no stop; no share is no position
Enter(entry, atr) ==
    /\ trade.stage = "none"
    /\ \/ policy.exit_mode = "ATR" /\ atr = 0 /\ Rejects("ATR_UNAVAILABLE")
       \/ /\ policy.exit_mode = "PERCENT" \/ atr > 0
          /\ Shares(entry, atr) = 0 /\ Rejects("POSITION_TOO_SMALL")
       \/ /\ policy.exit_mode = "PERCENT" \/ atr > 0
          /\ Shares(entry, atr) > 0
          /\ trade' = [NoTrade EXCEPT !.stage = "open", !.entry = entry, !.atr = atr,
                           !.shares = Shares(entry, atr), !.highest = entry]
    /\ UNCHANGED policy

Exits(price, reason) ==
    trade' = [trade EXCEPT !.stage = "closed", !.exit = price, !.reason = reason]

\* a bar is tested against the stop of the bars before it, the stop before the
\* target, and only a bar that leaves the position open moves the stop
WalkBar(b) ==
    LET stopped == 100 * b.low <= StopPrice
        reached == 100 * b.high >= TargetPrice(trade.entry, trade.atr)
    IN  /\ trade.stage = "open"
        /\ trade.bars = 0 => b.open = trade.entry
        /\ \/ b.puts /\ Exits(100 * b.open, "ABNORMAL_PUT_VOLUME")
           \/ ~b.puts /\ stopped /\ Exits(StopPrice, "TRAILING_STOP")
           \/ /\ ~b.puts /\ ~stopped /\ reached
              /\ Exits(TargetPrice(trade.entry, trade.atr), "PROFIT_TARGET")
           \/ /\ ~b.puts /\ ~stopped /\ ~reached
              /\ trade' = [trade EXCEPT !.bars = 1, !.close = b.close,
                                        !.highest = Highest(b.high)]
        /\ UNCHANGED policy

\* mandatory_end_of_session_liquidation, at the close of the last bar
EndSession ==
    /\ trade.stage = "open" /\ trade.bars = 1
    /\ Exits(100 * trade.close, "SESSION_END")
    /\ UNCHANGED policy

TradeNext ==
    \/ \E entry \in Prices, atr \in AverageRanges : Enter(entry, atr)
    \/ \E b \in Bars : WalkBar(b)
    \/ EndSession

TradeSpec == TradeInit /\ [][TradeNext]_walkVars

-----------------------------------------------------------------------------
(* Properties.                                                                 *)

\* The type invariant.
TradeTypeOK ==
    /\ policy \in Policies
    /\ trade \in [stage: {"none", "open", "closed", "rejected"}, entry: Nat, atr: Nat,
                  shares: Nat, highest: Nat, bars: 0..1, close: Nat, exit: Int,
                  reason: {"NONE", "ATR_UNAVAILABLE", "POSITION_TOO_SMALL",
                           "ABNORMAL_PUT_VOLUME", "TRAILING_STOP", "PROFIT_TARGET",
                           "SESSION_END"}]

RealizedPnl == (trade.exit - 100 * trade.entry) * trade.shares

\* Whatever the bars do, a position costs no more than its allocation, and unless
\* the put rule takes it out it loses no more per share than the stop distance it
\* was sized with: a policy that sizes by risk never loses more than its budget.
\* That holds at the end of the session only because every bar was tested first.
LossBounded ==
    trade.stage = "closed" =>
        /\ trade.shares * trade.entry <= position_value
        /\ trade.reason # "ABNORMAL_PUT_VOLUME" =>
               /\ trade.exit >= 100 * trade.entry - StopDistance(trade.entry, trade.atr)
               /\ trade.exit <= TargetPrice(trade.entry, trade.atr)
               /\ policy.sizing_mode = "RISK_PER_TRADE" => RealizedPnl >= -(100 * risk_budget)
=============================================================================
