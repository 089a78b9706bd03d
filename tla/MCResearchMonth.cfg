\* The research alone.
CONSTANTS
    None = None
    A = A
    B = B
    C = C
    r1 = r1
    r2 = r2
    Companies <- Companies1
    Listings <- Listings1
    Assets = {A, B, C}
    Holdings <- Holdings1
    Universes <- Universes1
    Changes <- Changes1
    Assessments <- Assessments1
    NavUnits = 1000
    Lot = 2
    Tickers = {A}
    Requests = {r1, r2}
    Reports <- Reports1
    Turnover <- Turnover1
    Prices <- Prices1
    Stored <- Stored1
    MinLiquidity = 10
    Limit = 1
    CacheTTL = 2
    PriceTTL = 1
    MaxTime = 2
    MaxLists = 2
    Researched = {A}
    Filings <- Filings1
    Lag <- Lag1
    LastDay = 6
    MonthDays = 2
    YearDays = 2
    FetchDays = 2
    Indexes <- Indexes1
    Suspensions <- Suspensions1
    Horizons = {1, 2}
    Lookback = 1
    MinCrossSection = 1
    MinObservations = 2
    Quantiles = 1
    Configs <- Configs1
    AskedDates = {2, 5}
    Parts = {"research"}
SPECIFICATION MCSpec
INVARIANT SnapshotsAtMonthEnd
\* The last day ends.
CHECK_DEADLOCK FALSE
