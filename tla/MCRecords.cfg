\* Three writers of the log and rows edited by hand, or one client and repairs; two
\* importers, a crash and midnight; two requests to the registry, or one; three
\* blocks over three sessions, one of which drops; two threads over a cache of two
\* bars; one refresh after another of two dividends; four observations of one.
CONSTANTS
    Requests = {r1, r2, r3}
    Contents = {"a", "b"}
    ExportKeys = {"export"}
    NoKey = "none"
    AnchorKey = "CHAIN_REANCHOR"
    AnchorContent = "reanchor"
    Nobody = "nobody"
    MaxRows = 4
    MaxEdits = 2
    MaxCrashes = 1
    Payloads <- TwoPayloads
    ClientKeys <- OneKey
    LastDay = 2
    MaxImported = 5
    Instances = {"i1"}
    MaxPortfolios = 3
    MaxId = 4
    UserMayBeDeleted = TRUE
    Connections = {1, 2, 3, 4}
    MaxIdle = 2
    Public = "public"
    MaxBreaks = 1
    Threads = {"t1", "t2"}
    Queries = {"FPT", "VNM"}
    BarProviders <- TwoProviders
    TTL = 1
    MaxEntries = 2
    LastTick = 2
    Refresher = "request"
    KnownDividends = {"e1", "e2"}
    DividendProviders <- TwoSources
    Opening = 2
    TradeDays = {1, 2}
    Quantities = {1, 2}
    SalePrices = {1, 2}
    Par = 2
    UserTaxes = {0, 1}
    MaxTrades = 4
    MaxCorrections = 2
    Crawler = "crawl"
    Offers <- SixOffers
    Priority <- ProviderPriority
    Unknown <- Missing
    MaxObservations = 4
    MaxFailures = 1
SPECIFICATION MCSpec
SYMMETRY Symmetry
INVARIANTS VerdictRight LogInv BatchInv RegistryInv ConsistentForOneClient SessionsApart DividendsKept EvidenceShown
PROPERTIES RepairRebases TaxRight BarsRight StartNeverMoves
\* The log, the tax ledger or the batch is full, or the user deleted.
CHECK_DEADLOCK FALSE
