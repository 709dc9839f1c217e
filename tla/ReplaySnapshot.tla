--------------------------- MODULE ReplaySnapshot ----------------------------
(* What a day's flat files become (build_flatfile_snapshot, trainer/           *)
(* flatfile_snapshot.py): every row is given to one security of the universe   *)
(* or to none, the rows before the freeze become the frozen snapshot the Scout *)
(* reads, and the rows of the session become the path outcomes are graded on.  *)
(* The opening-range research reads the same rows again, for a universe of its *)
(* own, and keeps an opening candle per ticker (write_opening_volume_cache,    *)
(* trainer/orb.py).  A row shows one price, its size stands for transactions   *)
(* and volume, and one earlier session stands for the lookback.                *)
EXTENDS Integers, Sequences, FiniteSets, FiniteSetsExt

CONSTANTS
    Companies,      \* the identities, stable_security_id
    Entries,        \* the places of the manifest's rows, in its order
    Listings,       \* what the day's manifest may say in them
    TapeRows,       \* rows the minute files may hold
    MaxRows,        \* bound: rows in the files
    freeze,         \* configured_freeze_datetime()
    last_hour,      \* an hour before it
    open_at, opening_end, close_at      \* 9:30, 9:35 and 16:00

(* An entry of the manifest: its identity, which several entries may have, of   *)
(* which one at most is included in the universe (OnePerIdentity of            *)
(* UniverseBuild); the ticker, the tickers of its ticker_history, and whether  *)
(* it is common stock the opening-range research looks at.  A row of a file:   *)
(* its ticker, the security identifier it may carry ("NONE": none), whether it *)
(* is of the earlier session, its minute.                                      *)
ASSUME SnapshotAssumption ==
    /\ \A l \in Listings :
          /\ l \in [Entries -> [identity: Companies, ticker: STRING, history: SUBSET STRING,
                               included: BOOLEAN, common: BOOLEAN]]
          /\ \A d, e \in Entries :
                l[d].included /\ l[e].included /\ l[d].identity = l[e].identity => d = e
    /\ \A r \in TapeRows : r \in [ticker: STRING, id: Companies \cup {"NONE"}, prior: BOOLEAN,
                                  minute: Nat, size: Nat, price: Nat \ {0}]
    /\ MaxRows \in Nat /\ IsFiniteSet(Companies) /\ Entries \subseteq Nat
    /\ {last_hour, freeze, open_at, opening_end, close_at} \subseteq Nat
    /\ last_hour < freeze /\ freeze < open_at /\ open_at < opening_end /\ opening_end < close_at

VARIABLES
    listing,
    tape,           \* the rows of the minute files, in their order
    snapshot,       \* historical_snapshot
    session,        \* outcome_bars and excluded_tickers
    openingCache    \* opening_volume_cache/<date>.json
tapeVars == <<listing, tape, snapshot, session, openingCache>>

-----------------------------------------------------------------------------
(* Whose row it is.  S is a set of entries, e one of them.                     *)
Eligible == {e \in Entries : listing[e].included}
Base == {e \in Entries : listing[e].common}
TickersOf(S) == {listing[e].ticker : e \in S}
Aliases(e) == {listing[e].ticker} \cup listing[e].history

\* by_id: of the entries of an identity the last one speaks for it
Kept(S) == {e \in S : \A d \in S : listing[d].identity = listing[e].identity => d <= e}

Bearers(S, ticker) ==
    {c \in Companies : \E e \in Kept(S) : listing[e].identity = c /\ ticker \in Aliases(e)}
Ambiguous(S, e) == Cardinality(Bearers(S, listing[e].ticker)) > 1

\* an identifier decides; a ticker only if no other identity ever bore it
Owners(S, row) ==
    IF row.id # "NONE" THEN {row.id} \cap {listing[e].identity : e \in S}
    ELSE IF Cardinality(Bearers(S, row.ticker)) = 1 THEN Bearers(S, row.ticker) ELSE {}

\* the rows of an entry are those its identity owns, by their places in the files
RowsOf(S, e, rows) ==
    {i \in DOMAIN rows :
        rows[i].ticker \in TickersOf(S) /\ listing[e].identity \in Owners(S, rows[i])}

Between(row, first, last) == ~row.prior /\ first <= row.minute /\ row.minute < last

-----------------------------------------------------------------------------
(* The session: one row per minute.                                            *)

BetterRow(row, kept) == row.size > kept.size

Minutes(path) == DOMAIN path
EmptyPath == [path |-> <<>>, collisions |-> {}]

\* _deduplicate_regular_bars(): every duplicate is compared with the row kept so far
TakeRow(acc, row) ==
    LET m == row.minute
        kept == acc.path[m]
    IN  IF m \notin Minutes(acc.path)
        THEN [acc EXCEPT !.path = [x \in Minutes(@) \cup {m} |-> IF x = m THEN row ELSE @[x]]]
        ELSE [path |-> IF BetterRow(row, kept) THEN [acc.path EXCEPT ![m] = row] ELSE acc.path,
              collisions |-> acc.collisions \cup {<<kept.price, row.price>>}]
Deduplicated(rows, I) ==
    MapThenFoldSet(LAMBDA row, acc : TakeRow(acc, row), EmptyPath, LAMBDA i : rows[i], Max, I)

RegularRows(S, c, rows) ==
    {i \in RowsOf(S, c, rows) : Between(rows[i], open_at, close_at)}
RegularPath(S, c, rows) == Deduplicated(rows, RegularRows(S, c, rows))

\* _bar_discontinuity(): duplicates, or neighbours, more than half apart
Jumps(p, q) == 2 * (q - p) > p \/ 2 * (p - q) > p
Apart(p, q) == Jumps(p, q) \/ Jumps(q, p)
Discontinuous(regular) ==
    \/ \E c \in regular.collisions : Apart(c[1], c[2])
    \/ \E m, n \in Minutes(regular.path) :
          /\ m < n /\ \A x \in Minutes(regular.path) : ~(m < x /\ x < n)
          /\ Jumps(regular.path[m].price, regular.path[n].price)

-----------------------------------------------------------------------------
(* The snapshot: premarket rows, none of them deduplicated.                    *)

\* mutant: the premarket lasts until the session opens
UntilOpen(S, c, rows) == {i \in RowsOf(S, c, rows) : Between(rows[i], 0, open_at)}

Premarket(S, c, rows) == {i \in RowsOf(S, c, rows) : Between(rows[i], 0, freeze)}
PriorPremarket(S, c, rows) ==
    {i \in RowsOf(S, c, rows) : rows[i].prior /\ rows[i].minute < freeze}

Volume(rows, I) == SumFunctionOnSet([i \in DOMAIN rows |-> rows[i].size], I)

\* the last row of the latest minute; 0 stands for the close of the earlier session
LastPrice(rows, I) ==
    LET latest == Max({rows[i].minute : i \in I})
    IN  IF I = {} THEN 0 ELSE rows[Max({i \in I : rows[i].minute = latest})].price

SnapshotOf(S, rows) ==
    [c \in S |->
        LET early == Premarket(S, c, rows)
        IN  [last_price |-> LastPrice(rows, early), premarket_volume |-> Volume(rows, early),
             average |-> Volume(rows, PriorPremarket(S, c, rows)),
             real_bar_count |-> Cardinality(early),
             real_bar_count_60m |-> Cardinality({i \in early : rows[i].minute >= last_hour})]]

SessionOf(S, rows) ==
    [c \in S |-> LET regular == RegularPath(S, c, rows)
                 IN  [path |-> regular.path, excluded |-> Discontinuous(regular)]]

-----------------------------------------------------------------------------
(* The opening candle.                                                         *)
NoCandle == [volume |-> 0, first |-> 0, high |-> 0, low |-> 0, last |-> 0]

\* _opening_candle()
OpeningCandle(path) ==
    LET prices == {path[m].price : m \in Minutes(path)}
    IN  IF Minutes(path) = {} THEN NoCandle
        ELSE [volume |-> SumFunctionOnSet([m \in Minutes(path) |-> path[m].size], Minutes(path)),
              first |-> path[Min(Minutes(path))].price, high |-> Max(prices),
              low |-> Min(prices), last |-> path[Max(Minutes(path))].price]

InOpening(row) == Between(row, open_at, opening_end)

\* mutant: the last row of a minute replaces the others
LastRow(rows, I, m) ==
    CHOOSE i \in I : rows[i].minute = m /\ \A j \in I : rows[j].minute = m => j <= i

\* of the rows of a minute the first that none exceeds: _bar_priority()
PriorityRow(rows, I, m) ==
    CHOOSE i \in I :
        /\ rows[i].minute = m
        /\ \A j \in I : rows[j].minute = m =>
              rows[j].size < rows[i].size \/ (rows[j].size = rows[i].size /\ i <= j)

\* the cache goes by the ticker of a row alone, whoever owns it
OpeningOf(ticker, rows) ==
    LET mine == {i \in DOMAIN rows : rows[i].ticker = ticker /\ InOpening(rows[i])}
    IN  OpeningCandle([m \in {rows[i].minute : i \in mine} |-> rows[PriorityRow(rows, mine, m)]])

-----------------------------------------------------------------------------
Unbuilt == [made |-> FALSE, of |-> <<>>]
Built(value) == [made |-> TRUE, of |-> value]

TapeInit ==
    /\ listing \in Listings /\ tape = <<>>
    /\ snapshot = Unbuilt /\ session = Unbuilt /\ openingCache = Unbuilt

\* the files as the provider wrote them
ReadRow(row) ==
    /\ Len(tape) < MaxRows /\ ~snapshot.made
    /\ tape' = Append(tape, row)
    /\ UNCHANGED <<listing, snapshot, session, openingCache>>

BuildSnapshot ==
    /\ ~snapshot.made /\ Eligible # {}
    /\ snapshot' = Built(SnapshotOf(Eligible, tape))
    /\ session' = Built(SessionOf(Eligible, tape))
    /\ UNCHANGED <<listing, tape, openingCache>>

WriteOpeningCache ==
    /\ snapshot.made /\ ~openingCache.made
    /\ openingCache' =
           Built([t \in {tape[i].ticker : i \in DOMAIN tape} |-> OpeningOf(t, tape)])
    /\ UNCHANGED <<listing, tape, snapshot, session>>

TapeNext ==
    \/ \E row \in TapeRows : ReadRow(row)
    \/ BuildSnapshot
    \/ WriteOpeningCache

TapeSpec == TapeInit /\ [][TapeNext]_tapeVars

-----------------------------------------------------------------------------
(* Properties.                                                                 *)

\* the files without the rows from the freeze on, the others in their places
Early(rows) == Restrict(rows, {i \in DOMAIN rows : rows[i].minute < freeze})

\* The snapshot of a day is that of the rows before the freeze: whatever the rest
\* of the day's rows say, of whichever security, nothing the Scout reads differs.
SnapshotIsPast ==
    snapshot.made =>
        snapshot.of = SnapshotOf(Eligible, Early(tape))

\* an entry speaks for its identity, and none of its former tickers is that of an
\* entry that does not speak for its own
Speaks(S, e) ==
    /\ e \in Kept(S)
    /\ \A d \in S \ Kept(S) :
          listing[d].ticker \in Aliases(e) => listing[d].ticker = listing[e].ticker

\* A breakout is triggered by the candle of an entry's ticker and walked on the path
\* of its identity.  Two pieces of code choose the rows of each.  Where the files
\* carry no identifiers both are made of the same rows, and a path that opens at
\* 9:30 has a candle, for an entry that speaks for its identity and whose ticker
\* is no other identity's.  Of an identity's other entries it would be false: the
\* candle is of their own ticker, the path of the one that speaks.
CandleIsOfThePath ==
    openingCache.made /\ (\A i \in DOMAIN tape : tape[i].id = "NONE") =>
        \A e \in Base :
            LET path == RegularPath(Base, e, tape).path
                early == {m \in Minutes(path) : m < opening_end}
            IN  Speaks(Base, e) /\ ~Ambiguous(Base, e) /\ open_at \in Minutes(path) =>
                    openingCache.of[listing[e].ticker]
                        = OpeningCandle([m \in early |-> path[m]])
=============================================================================
