------------------------------- MODULE Records -------------------------------
(***************************************************************************)
(* The records of a portfolio and what they are read and written with: its *)
(* activity log, the import of its opening balance, the registry it is     *)
(* listed in, the database sessions, the cache of price histories, the     *)
(* cache of dividends, the evidence for them and the pool of dividend      *)
(* shares that sales are taxed on.  They share no variable, and each takes *)
(* its steps independently of the others.                                  *)
(***************************************************************************)
EXTENDS ActivityChain

CONSTANTS
    Payloads, ClientKeys, LastDay, MaxImported,                     \* ImportBatch
    Instances, MaxPortfolios, MaxId, UserMayBeDeleted,              \* PortfolioRegistry
    Connections, MaxIdle, Public, MaxBreaks,                        \* ConnectionPool
    Threads, Queries, BarProviders, TTL, MaxEntries, LastTick,      \* BarCache
    Refresher, KnownDividends, DividendProviders,                   \* DividendCache
    Opening, TradeDays, Quantities, SalePrices, Par, UserTaxes,     \* TaxPool
    MaxTrades, MaxCorrections,
    Crawler, Offers, Priority, Unknown, MaxObservations, MaxFailures    \* DividendEvidence

VARIABLES
    clients,        \* the requests of a behaviour that write log, import and registry
    today, ledger, batches, start, importing, reported, killed,     \* ImportBatch
    user, active, portfolios, defaults, nextId, tables, public, cache, request,     \* PortfolioRegistry
    idle, lent, link, path, writes, block, stored, breaks, shut,    \* ConnectionPool
    now, entries, thread,                                           \* BarCache
    dividends, fetched, refresh, deaths, lastGood,                  \* DividendCache
    taxLedger, corrections, chronological,                          \* TaxPool
    observations, canonical, conflicts, crawl, failures, ordered    \* DividendEvidence

imports  == <<today, ledger, batches, start, importing, reported, killed>>
registry == <<user, active, portfolios, defaults, nextId, tables, public, cache, request>>
sessions == <<idle, lent, link, path, writes, block, stored, breaks, shut>>
bars     == <<now, entries, thread>>
history  == <<dividends, fetched, refresh, deaths, lastGood>>
pool     == <<taxLedger, corrections, chronological>>
evidence == <<observations, canonical, conflicts, crawl, failures, ordered>>
records  == <<clients, vars, imports, registry, sessions, bars, history, pool, evidence>>

\* A client that waits for each answer before its next request.
Alone == \E r \in Requests : clients = {r}

-------------------------------------------------------------------------------
\* The modules with the theorems, so that what is proved of a component alone can be
\* cited of it here.
Import == INSTANCE ImportBatch WITH
    MaxRows <- MaxImported, req <- importing, answer <- reported, crashes <- killed

Registry == INSTANCE PortfolioRegistry_proofs WITH
    Instance <- Instances, Request <- Requests, rows <- portfolios

Sessions == INSTANCE ConnectionPool_proofs WITH active <- lent, request <- block

Bars == INSTANCE BarCache WITH Chain <- BarProviders

\* Refreshes of one symbol come one after another.
History == INSTANCE DividendCache WITH
    Requests <- {Refresher}, Events <- KnownDividends, Chain <- DividendProviders,
    rows <- dividends, request <- refresh, crashes <- deaths

\* The transactions of one symbol.
Tax == INSTANCE TaxPool WITH
    Day <- TradeDays, Quantity <- Quantities, Price <- SalePrices, UserTax <- UserTaxes,
    MaxEvents <- MaxTrades, ledger <- taxLedger

\* Crawls of one symbol come one after another.
Evidence == INSTANCE DividendEvidence WITH
    Requests <- {Crawler}, MaxCrashes <- MaxFailures, request <- crawl, crashes <- failures

ASSUME ImportFits == Import!ImportConstants
ASSUME RegistryFits == Registry!RegistryConstants
ASSUME PoolFits == Sessions!PoolConstants
ASSUME BarsFit == Bars!CacheConstants
ASSUME HistoryFits == History!CacheConstants
ASSUME TaxFits == Tax!TaxConstants
ASSUME EvidenceFits == Evidence!EvidenceConstants

-------------------------------------------------------------------------------
RecordsInit ==
    /\ clients \subseteq Requests
    /\ Init /\ Import!Init /\ Registry!Init /\ Sessions!Init /\ Bars!Init /\ History!Init
    /\ Tax!Init /\ Evidence!Init

\* A client that is alone may also repair the log, a call at a time, and rows are
\* edited by hand between its calls.
WriteLog ==
    /\ \/ (Alone => Quiet) /\ Edit
       \/ \E r \in clients : Work(r) \/ (Alone /\ Repair(r))
    /\ UNCHANGED <<imports, registry, sessions, bars, history, pool, evidence>>

ImportOpening ==
    /\ Import!Midnight \/ \E r \in clients : Import!Begin(r) \/ Import!Continue(r) \/ Import!Crash(r)
    /\ UNCHANGED <<vars, registry, sessions, bars, history, pool, evidence>>

Administer ==
    /\ \E r \in clients :
         \/ \E kind \in Registry!Kind, id \in 0 .. MaxId, i \in Instances : Registry!Begin(r, kind, id, i)
         \/ Registry!Advance(r)
    /\ UNCHANGED <<vars, imports, sessions, bars, history, pool, evidence>>

Connect       == Sessions!Next /\ UNCHANGED <<vars, imports, registry, bars, history, pool, evidence>>
SyncMarket    == Bars!Next /\ UNCHANGED <<vars, imports, registry, sessions, history, pool, evidence>>
ShowDividends == History!Next /\ UNCHANGED <<vars, imports, registry, sessions, bars, pool, evidence>>
Trade         == Tax!Next /\ UNCHANGED <<vars, imports, registry, sessions, bars, history, evidence>>
Reconcile     == Evidence!Next /\ UNCHANGED <<vars, imports, registry, sessions, bars, history, pool>>

RecordsNext ==
    /\ \/ WriteLog \/ ImportOpening \/ Administer \/ Connect
       \/ SyncMarket \/ ShowDividends \/ Trade \/ Reconcile
    /\ UNCHANGED clients

RecordsSpec == RecordsInit /\ [][RecordsNext]_records

-------------------------------------------------------------------------------
\* The log is well typed and, unless it is repaired, the segment after a re-anchor
\* verifies (repair_chain).
LogInv == TypeOK /\ (~Alone => NewSegmentVerifies)

\* A batch is stored whole and counted once, an answer names true rows of the data
\* that was sent, and data sent without a key of the client's is imported once,
\* however often retried.
BatchInv == Import!BatchInv

\* With one import at a time, nothing moves the start of a portfolio.
StartNeverMoves == [][Alone => Import!StartKept]_records

\* First requests that race agree on one default portfolio, and a listed portfolio
\* has its tables.
RegistryInv == Registry!RegistryInv

\* With one request at a time the rows, the schemas and the selection of a user
\* agree: no schema is left behind, the selection exists, the limit is kept, and no
\* table of a portfolio gets into the schema public.
ConsistentForOneClient ==
    Alone => /\ Registry!NoOrphanSchema /\ Registry!SelectionExists
             /\ Registry!LimitKept /\ Registry!LedgerIsolated

\* A session serves one request at a time and none is lost, what is stored was
\* written by the request that committed it into its own schema, and no request is
\* given a session that died in the pool.
SessionsApart == Sessions!SessionsApart

\* A cached price history is no older than it may be, the cache keeps to its limit,
\* and an entry that is still good is not given up for one that has expired.
BarsRight == [][Bars!CacheInv' /\ Bars!GoodOnesStay]_records

\* A refresh that finds nothing takes no dividend away.
DividendsKept == History!TypeOK /\ History!LastGoodKept

\* In date order every dividend share is taxed once, by the first sales after it, and
\* the tax a user entered survives every edit.
TaxRight == [][Tax!PoolInv' /\ Tax!UserTaxKept]_records

\* As long as the dates of the observations fall into events, every disagreement
\* about one is shown, and it has one row when they came in the order of the dates.
EvidenceShown ==
    /\ Evidence!TypeOK
    /\ Evidence!Settled /\ Evidence!Tight =>
         Evidence!DisagreementsShown /\ (ordered => Evidence!OneRowPerEvent)
===============================================================================
