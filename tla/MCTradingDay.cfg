SPECIFICATION TradingSpec
CONSTANTS
    Rows = {1, 2, 3, 4, 5}
    Facts <- MCFacts
    SmokeTickers = 2
    MaxBuilds = 2
    Tickers = {1, 2, 3, 4}
    shadow_min_premarket_bars = 10
    minimum_real_bars_60m = 30
    threshold_points = 2
    reversal_threshold = 2
    reversal_top_k = 1
    exploration_top_k = 1
    max_positions = 2
    exit_mode = "PERCENT"
    comparison_positions = 1
    TopMovers = 3
    Profiles <- MCProfiles
    Prices = {1, 2, 3, 4, 5, 6}
    Policies <- MCPolicies
    position_value = 12
    risk_budget = 1
    AverageRanges = {0, 1, 2}
    Companies = {"s1", "s2", "s3"}
    Entries = {1, 2, 3, 4}
    Listings <- MCListings
    TapeRows <- MCTapeRows
    MaxRows = 4
    last_hour = 2
    freeze = 3
    open_at = 4
    opening_end = 6
    close_at = 7
    Names = {1, 2, 3}
    OrbProfiles <- MCOrbProfiles
    PriorSessions = {1, 2}
    OpeningVolumes <- MCOpeningVolumes
    minimum_baseline_sessions = 1
    minimum_relative_volume = 3
    top_n = 2
    candle_end = 2
    entry_cutoff = 6
    minimum_open_price = 5
    atr_stop_divisor = 10
    risk_per_trade = 4
    paper_cap = 45
    cash_cap = 25
INVARIANTS
    LossBounded
    ExplorationIsFree
    VerdictIsFair
    MissesExplained
    UniverseSound
    SnapshotIsPast
    CandleIsOfThePath
    BooksWithinLimits
CHECK_DEADLOCK FALSE
