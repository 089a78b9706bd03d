# QPort in TLA+

QPort (`src/python/portfolio`, served by `src/app/main.py`) keeps a buy-and-hold portfolio as a
ledger of transactions. Positions, cash, NAV history, dividends and taxes are derived from it;
corrections are appended, never written over. Beside the ledger it crawls the financial statements of
every listing, values the companies, screens them, advises on the allocation of a portfolio and tests
factors on the past. The same process serves several threads and, on Vercel, several instances over one
PostgreSQL database, with a transaction per step and almost no lock that spans a request. What is hard to
test is what these modules are about: two requests that validate on their own views, a request that dies
between two transactions, a retry of what was already done, a long sequence of legal corrections, a
verdict that ten sections of one function overwrite in turn, a number that reaches a past it was not
known in.

## The system

| Part | Code | State | Operations | Module |
|---|---|---|---|---|
| Accounting | `accounting.py`, `_validate_ledger` | positions, FIFO lots per broker book, cash, totals | replay of ten event types | `Accounting`, `LotBook` |
| Correctable ledger | `corrections.py`, `correctable_service.py` | `ledger_events`, `ledger_corrections` | append, edit, soft delete | `Ledger`, `EffectiveLedger` |
| NAV history | `service.py`, `institutional.py` | `market_prices`, `portfolio_snapshots`, `nav_controls`, `nav_restatements` | sync, rebuild, lock, restate | `NavBook` |
| Corporate actions | `automated_service.py`, `corporate_actions.py`, `institutional.py` | `corporate_actions`, receipts, postings | discover, verify, receive, post automatically or by hand | `DividendPosting` |
| Dividend tax | `tax_policy.py`, `automated_service.py` | metadata of events | tax a sale on untaxed dividend shares | `TaxPool` |
| Quick import | `import_events` | `import_batches`, `app_meta` | idempotent batch, start of tracking | `ImportBatch` |
| Activity log | `activity.py` | `activity_log` hash chain | append, verify, re-anchor, repair | `ActivityChain` |
| Portfolio registry | `main.py`, `postgres.py` | `portfolios`, schemas, cached services | create, select, reset, delete | `PortfolioRegistry` |
| Database sessions | `postgres.py` | idle and used connections, `search_path`, open writes | acquire, transaction, release, close | `ConnectionPool` |
| External calls | `external_cache.py`, `market_data.py` | answers with an expiry | look up, load, store, evict | `BarCache` |
| Dividend history | `dividend_store.py` | `dividend_events`, `dividend_fetch_state` | refresh from a chain of providers | `DividendCache` |
| Dividend evidence | `dividend_reconciliation.py` | observations, canonical rows, conflicts | observe, reconcile, clear | `DividendEvidence` |
| Crawl queue | `finance_catalog.py`, `finance_worker.py` | `crawl_queue`, `securities`, `documents` | enqueue, claim, crawl, finish, requeue, clear | `CrawlQueue` |
| Valuation | `value_engine/` | none: facts to a report | validate, normalise, value, score, gate, publish | `NumericValidation`, `IntrinsicValue`, `QualityScore`, `Archetypes`, `Valuation` |
| Inputs of the valuation | `main.py`, `screener.py`, `finance_catalog.py` | `canonical_facts` | the page's inputs, the list's inputs | `EngineInputs` |
| Screener | `screener.py` | a shared scored list, price caches | compute, refresh, filter, answer | `Screener` |
| Allocation | `allocation/` | none: portfolio and list to a report | eligibility, reductions, replacements, sizing, execution, simulation | `Allocation` |
| Research | `research/` | snapshots, outcomes, price tables | snapshot, label, validate, seal | `FactorResearch` |

How they interact. A route of `main.py` resolves the user's active portfolio to a schema and a cached
service (registry), whose statements run in a block of the connection pool. A mutation goes through
`correctable_service.py`: normalise, read the effective ledger, validate by replaying it (accounting),
apply the tax policy, insert a row, open a restatement when a published date changed, rebuild the
snapshots (NAV), append to the activity log. The daily cron syncs prices through the external cache,
rebuilds, discovers corporate actions and posts the due dividends, which are ledger mutations again. The
crawl queue is driven by local workers and administrators; what it stores the valuation reads, for one
page at a time (`main.py`) or for the whole list (`screener.py`), with share counts adjusted by the
canonical stock dividends. The allocation report reads the list and the portfolio. Research reads the
same facts, prices and dividends as they would have been known in the past.

Not modelled, with the reason for each, are the components that `PROJECT.json` lists as
`not_modelled`: users, sessions and passwords (single statements around library code; the deletion of a
user is in the registry), the scheduler of the legacy local server, the connectors to financial data
(parsing), scripts run by hand on a stopped system, the SQLite server that was replaced, and the
frontend. Statistics in floating point (analytics, risk) appear only as the choice of the evidence they
may report.

## Modules and code

Every definition that stands for code is listed under `map` in `PROJECT.json` with the lines it
translates.

### Records

**Accounting** holds `derive_state` as operators, without variables: `ApplyEvent` is the `if` chain of
`apply_event`, `Accepts` its refusals, `ConsumeFifo` and `AllocateStock` the two loops over lots,
`ValidLedger` the replay of `_validate_ledger` with its cash check. Money and quantities are integers.
Partial costs are proportional, and an instance must choose numbers that divide exactly; the float
tolerances of the code are abstracted with them. **LotBook** posts events one by one to a book: every
prefix of every valid ledger. Its properties read the lots share by share: the u-th oldest share of a book has a
cost (`UnitCost`), and FIFO is stated of those costs, without the loop over lots.

**Ledger** has two tables and the pending write of each request. `BeginAppend`, `BeginEdit` and
`BeginDelete` are the read and the validation of a request, which happen on one memoised view; the
`Commit` actions are its insert; `Abandon` is a crash or a failed insert. A row's current version is
computed as `transaction_versions` does it: edits count until the first delete. **EffectiveLedger** is
what a client sees of it: a set of transactions that changes by one record, correction or discard into
a set that replays.

**NavBook** abstracts an event to identity, date, symbol and revision, or to a deposit or withdrawal; a
snapshot is the set of events it was computed from and whether it is official, so two NAVs differ exactly when
they stand for different transactions. `Derived` is the rebuild as a function of the events and bars it has
read: the dates of the history are those on which a symbol of the ledger has a bar, from the first event on
(`MarketDates`); a date is skipped when a holding has not been seen on any of them yet (`Priced`), or when there
are neither holdings nor cash (`Penniless`); and the bars are the newest 10 000 of all symbols of the ledger together
(`Windows`). One action per transaction of the code: insert, the check against the latest
snapshot (before the insert for an append, after it for a correction, as the code has it), marking,
clearing, the wipe, and one `Save` per date.

**DividendPosting** follows an action from the provider chain to the ledger. A posting is two actions,
`ledger_events` and then `corporate_action_postings`, because it is two transactions. A posting by hand takes
the amounts and the date of the receipt that it read when it began. **TaxPool** keeps
with every event the tax stored when it was entered; the pool follows the events of a set in replay order, and
shares are counted one by one (`Shares`). **ImportBatch** is the lookup, preparation and one
transaction of an import, with retries, key reuse, midnight and crashes. **ActivityChain** represents a
hash by the contents it was computed from, the ideal hash. **CrawlQueue** and **PortfolioRegistry** have
one action per transaction or per access to the memory of a server instance; the insertion order of
`enqueue_crawl_all`, whose SELECT has none, is any order.

**ConnectionPool** is the life of a session across blocks: what `SET search_path` commits stays with the
session, what a block has not committed is lost with a break, and a block that is answered by no server
does not know whether it has committed (`CommitUnanswered`). A request is one block and stands for its
schema. **BarCache** is a dictionary in insertion order with a loader outside the lock, asked through the
provider chain of a market sync. **DividendCache** is one refresh as the code's three transactions after
the network calls. **DividendEvidence** keeps observations, groups them as they arrive, and upserts
canonical rows by date; `Tight`, `ordered` and `Settled` name the situation in which grouping has only
one reading.

### Computations

The value engine has no state of its own; what makes it hard is the order. **NumericValidation** is the
package `validation/`: z-scores, ratios, coherence, persistence, the classification of an odd year and
the regimes of a history. **IntrinsicValue** is owner earnings, the cycle and the models;
**QualityScore** dilution, the score, the rejects, the required margin and the verdict; **Archetypes** the
classification and the registry of models. **Valuation** is `ValuationEngine.evaluate`: the sections of
that function are its actions, and `confidence`, `model` and `pill` the variables they overwrite one after
another. **EngineInputs** is the two places that build the inputs of the engine, as two operators over the
same rows. A decimal is an integer in a unit that keeps it exact enough and below 2^31: billions of dong,
millions of shares, dong per share, thousandths.

**Screener** has one action per step of a request between two points where another thread may come in:
the lock around the computation, each write to a shared item, each fetch. An item is qualified on the margin
of the engine when it is computed, and on the rounded margin of the rounded value when it is refreshed, as the
code has it (`ScoredItem`, `Refreshed`). **Allocation** evaluates one
report with its stages as actions; money is in thousandths of the net asset value. A holding has the signal of its
item in the list only if it was held before the simulated changes (`mapped`). **FactorResearch**
follows where a number comes from, not the number: a price is its session, a return the two sessions it
spans, a metric the dates it is taken over. On which dates a factor or a return is the same for all listings, and has
no rank correlation, is left open (`Ranked`).

The modules that compose: `LotBook` and `Ledger` extend `Accounting`; `Ledger` instantiates
`EffectiveLedger` under the refinement `ledger <- EffectiveEvents`; `EngineInputs` extends `Valuation`,
which extends the four modules of its parts, and `MCValuation` feeds the inputs of a page into the
engine. `Screener`, `Allocation` and `FactorResearch` take the results of the ones before as constants:
`AllocationConstants`, an assumption about those, is what `Valuation` and `QualityScore` let out. **Market**
composes the four computations, which share no variable: a step of it is a step of one of them
(`Value`, `Advise`, `List`, `Study`). Its properties are those the run checks and the proofs are about.

`LedgerClients`, `NavBookClients` and `DividendClients` drive their component by its clients: the variable
`clients` is one client that waits for its answers, or several overlapping. A run therefore covers
both, and a property whose name ends in `ForOneClient` claims its part only. **Records** composes the eight
keepers of records that share no variable (log, import, registry, sessions, price histories, dividend
histories, the evidence for dividends, taxes): a step is a step of one of them, taken by any of `clients`
where clients take it.

Each `MC*` module adds the constants of the instance. `MCLedger`, which extends the requests of `LedgerClients`
and the replay of `LotBook`, `MCRecords`, which extends `Records`, and `MCMarket`, which extends `Market`, hold several components that share no variable. The variable `part` chooses in the
initial state the one that works; the others rest in one state each. Since none reads another's variables, this explores every state each of them has alone, and leaves out
only interleavings that cannot be told apart by a property of one of them.

## Runs

| Run | Question | Bounds and why they suffice |
|---|---|---|
| `ledger` | do overlapping corrections preserve history, deletes, identity; does one client get the abstract ledger? do the lots of a replay add up, and do sales take the oldest? | 2 requests, 4 rows, 3 corrections: two edits and a delete of one row, in every order. Replay: 1 symbol, 2 brokers and the unassigned book, 6 events out of 16 templates: enough for buy, split, dividend and two partial sales across books |
| `ledger_double_sell` | *violation*: two overlapping sales oversell | as `ledger` |
| `nav` | does the history follow the ledger, are published changes flagged, does it heal after a crash? | 2 dates, 2 symbols, deposits and withdrawals; 2 events with an edit each, or 3 when the first two move cash; 4 bars, of which a rebuild reads 3; a crash anywhere; two overlapping requests over one event: a bar before the first event, a holding without one, cash spent, a bar too many |
| `dividend` | posted once, auditable, not paid from the opening, and eventually paid? | a cash and a stock dividend, 3 days, 4 events, receipts of the second day entered on any, a crash anywhere or two overlapping requests |
| `dividend_posted_twice` | *violation*: a crash between event and posting row | 1 request |
| `crawl` | one job and one worker per symbol, nothing lost, every job finishes? | 2 workers, 2 symbols on different exchanges, 2 documents, 2 enqueues, a direct crawl, a crash, a universe sync |
| `crawl_overwrite` | *violation*: a direct crawl overwrites a fetched document | 1 worker, 1 document |
| `records` | eight keepers of records, one per behaviour (below) | below |
| `market` | four computations, one per behaviour (below) | below |
| `valuation_page_differs` | *violation*: the page of a listing asks the engine about other inputs than the list | the listings of `market` |
| `research_month_end` | *violation*: snapshots are not at the month's last session | the research of `market` |
| `research_legs` | *violation*: the two legs of an excess return start on different sessions | the research of `market` |

The parts of `records`:

| Part | Shown by | Bounds |
|---|---|---|
| log | `VerdictRight`, `LogInv`, `RepairRebases` | 3 writers, 4 rows, 2 hand edits, 1 crash: a row before, between and after two edits; or one client and repairs |
| tax | `TaxRight` | 5 writes, 2 of them corrections, prices below and at par; the last two at par and in date order |
| import | `BatchInv`, `StartNeverMoves` | 2 of 3 requests, or one; 2 payloads, 1 client key, 2 days, a crash |
| registry | `RegistryInv`, `ConsistentForOneClient` | 3 portfolios at most, 2 requests or one, the user deleted meanwhile |
| sessions | `SessionsApart` | 3 blocks over 4 connections, 2 idle at most, 1 break, the pool closed |
| bars | `BarsRight` | 2 threads, 2 symbols, a chain of 2 providers, a cache of 2, lifetime 1 of 2 ticks: the first load that evicts and the first that arrives late |
| history | `DividendsKept` | 1 refresh after another, 2 dividends, 2 providers, 2 crashes |
| evidence | `EvidenceShown` | 4 observations of 3 providers on 4 days, with missing, scaled and refused ratios; 1 failed crawl |

The parts of `market`:

| Part | Shown by | Bounds |
|---|---|---|
| valuation | `EvaluationInv`, `AdviceIsSound`, `ConfidenceCharged`, `ListMatchesPages` | 15 histories (growth, a break in scale, a peak, a slip of units, an odd year within or last, losses, gaps, too few years, issues of shares) for 13 businesses and banks, two prices, four lineages, five kinds of dilution; 40 or so listings of the finance database |
| allocation | `PlansFeasible`, `EvidenceBeforeAction` | up to 2 holdings, 2 listed companies of 8 kinds, 4 kinds of risk evidence, 5 sets of changes |
| screener | `ListInv`, `ComputedOncePerPeriod` | 1 listing, worth 99.96 and shown as 100.0; at one of 2 prices its margin is 24.97 % in full, 25.0 % rounded, and 25 % is required; 2 requests, 2 ticks, 2 lists |
| research | `NoLookAhead`, `ValidatedOnEvidence`, `ResolvedLabelsStay` | 1 listing, 6 sessions in 3 months, a suspension, 2 filings, 2 courses of the index, 5 configurations of the sealed period, two of them invalid, any dates without a rank correlation, snapshots asked for on days 2 and 5 |

Requests are interchangeable where nothing names one of them, and `records` and `market` use that
symmetry; neither has a liveness property. `CHECK_DEADLOCK FALSE` stands where a bound is used up, a
function has returned or the last day is over.

The six violations are disagreements with the repository's own statements, under `findings`, each with
the line it quotes: an oversold ledger, a dividend posted twice, an overwritten document, a page that
differs from the list, snapshots that are not at the end of the month, and legs that are not aligned.

Every module's type invariant is checked, by itself or as the first conjunct of the invariant of its run.

### What a conditional property leaves out

Where the code keeps a promise only under a condition, the property states the condition.

- *One client at a time* (`ImplementsForOneClient`, `FollowsForOneClient`, `FlaggedForOneClient`,
  `StartNeverMoves`, `ConsistentForOneClient`, `RepairRebases`, the recent prices of `ListInv`): requests validate,
  rebuild, count, select and filter on what they have read, so overlapping ones can oversell, publish a history
  without the other's transaction, move the start of tracking, exceed the limit, reach the tables of
  `public`, or answer with an item whose price no longer passes the filter (`screener.py:809`).
- *No crash yet* (`FollowsForOneClient`, `FlaggedForOneClient`, `PostedOnceForOneClient`,
  `OpeningNotPaidAgain`): the steps between two transactions are not repeated after a crash. What does
  heal is stated without that condition: `HealsForOneClient`, `DividendsArrive`, `JobsFinish`.
- *Bars that fit in one read* (`FlaggedForOneClient`): the limit of 10 000 rows counts the bars of all symbols of the
  ledger together, so with twenty symbols the dates of more than two years ago drop out of the next rebuild, and
  their published snapshots with them, without a restatement. `FollowsForOneClient` and `HealsForOneClient` do not
  need the condition: the history is always the one that some newest 10 000 bars give.
- *Items nobody is writing* (`ListInv`): a refresh writes the price of an item and then its margin and standing, so
  of two that overlap one may leave its price and the other its margin, until the next refresh. The property
  excepts an item that is being written, and one that two requests wrote at a time (`torn`).
- *A crash between delete and insert* (`DividendsKept`): the refresh of a dividend history that dies there
  leaves the symbol without rows, and a fetch state from before makes that a cache hit. The property
  is claimed of the answers without a crash, and of those that found data.
- *Dates that fall into events* (`EvidenceShown`): close to means within two days, which is not
  transitive. Days 1, 3 and 5 do chain into groups whose VERIFIED row disagrees with its evidence, against
  `docs/dividend-cache-reconciliation.md:27`; an event whose earliest date arrives last keeps a second row,
  which the share factors of `main.py:1579` and `screener.py:476` count twice.
- *Chronological entry* (`TaxRight`): the tax of a sale is not revisited when an earlier transaction
  arrives or is deleted.
- *Careful operators* (`QueueInv`, `CompletedMeansFetched`, `OutcomesKept`, `JobsFinish`): the stale cutoff
  exceeds any live crawl, workers run without `--retry-failed-only`, and nobody crawls directly or clears
  tables while workers run. Each of these, used otherwise, breaks one worker per job, fetched documents
  or completion; the run contains both kinds of operator, and one active job per symbol and finished jobs
  that stay finished hold for either.
- *A shared sync that heals* (`HealsForOneClient`) needs a symbol with a price: without one the rebuild
  returns before it deletes anything.
- *A payable dividend* (`DividendsArrive`) is one whose shares are still held on the payment date: the code
  refuses a stock dividend without open lots.
- *Plain, profitable listings* (`ListMatchesPages`): one provider for each fact, a name that does not say
  more than the industry, and a return on equity above one per cent. The list takes a company for a bank
  by its name or its industry, the page by its industry alone; the last condition is the subject of
  `valuation_page_differs`.

### Met while modelling, without a run of its own

No statement of the repository says otherwise, or the case is outside the instance:

- years that the validation has rejected enter the second computation of owner earnings (`engine.py:479`);
  the test of materiality drops the wrong year when a loss year comes before it; a negative value can be
  public; the earnings power value is shown only above a 75 % share of the terminal value;
- a bank without a book value per share ends in a `TypeError` (`engine.py:1038`);
- `max_total` of the pool is never read, although `docs/tasks/TASK-20260829-061` counts on it;
- the first refresh of a dividend history that fails is remembered as fetched, and a loader slower than
  the lifetime of its answer stores an entry that has expired;
- two observations without an identifier of their provider are stored twice when crawled twice, and a
  reconciliation that overlaps with a crawl writes rows of an older view;
- `validate-factor` keeps one horizon of a row; labels just before the sealed period are resolved with
  sealed prices; dates after the end of the sealed period count as tuning; the version of a factor is
  compared as text; the training window is anchored at the start; the minimum of observations counts dates;
- a rotation may sell although the lots of its purchase come out as zero;
- a later answer overwrites a stored close (`storage.py:295`), which changes the NAV of a date, and the return of a
  label built anew, without an event of the ledger: `NavBook` and `FactorResearch` follow what a number was
  computed from, not the close;
- a refresh scales the rounded price-earnings and price-book ratios it finds (`screener.py:112-117`), so they drift: with
  earnings of 7.3 a share and a price from 60 to 80 the list shows 10.9 where a new computation gives 11.0. The ratios
  decide nothing and are left out of the model;
- the standing of an item after a refresh may differ from the one first computed at the same price: the first
  compares the margin in full (`screener.py:630`), the second the rounded margin of the rounded value (`:106-108`). At
  the price of the instance the listing is not qualified at first and is after a refresh. `ListInv` claims the
  standing but for margins that equal the required one when rounded;
- a margin of exactly zero sorts as -999, below every negative one (`screener.py:759`);
- `run-full-research` with an invalid configuration writes its snapshots and outcomes before it fails (`runner.py:281`).

### Fairness

Fairness is stated in the MC modules only where a liveness property needs it. `nav` and `dividend`: a
request that is not killed takes its next step (`WF` of `Continue`), since a thread runs on; and the daily
sync starts again and again (`SF` of `BeginSync`), since a cron calls it every day whatever else happens:
it is enabled whenever the client is idle, which recurs but is not permanent. `crawl`: workers claim and
crawl (`WF`), because the operator keeps the loop of `finance_worker.py` running, and a RUNNING job nobody
works on ages past the cutoff (`WF` of `Age`), because time passes. No administrator, user or crash is
obliged to do anything.

### Other abstractions

- Withholding tax, broker splits of a dividend and amended terms (DividendPosting); row validation (ImportBatch).
- One issuer, and one provider in the run of dividends: with two the same dividend arrives under two keys.
- `PortfolioRegistry` leaves out crashes of a request, and reads of an empty schema that fall through to
  tables already in `public`; once something is there the run does not go on looking.
- A repair of an anchored activity log writes a predecessor hash into the anchor row and leaves it broken;
  `RepairRebases` is about logs without anchor. A re-anchor can happen once, by its key.
- The pool takes as many connections as there are blocks, as the code does; time spent under its lock is
  not modelled. The rewriting of SQLite statements is text processing.
- The texts of reports, economic events (the application passes none) and the portfolio's statistics.
- A fetch of the screener's prices is one step; its search, exchange and score filters only narrow.

## Proofs

TLAPS checks the following for every value of the constants: any number of requests, rows, days, symbols,
portfolios, connections, crashes. What a theorem assumes of the constants is a named assumption of the module,
or a definition that `Records` or `Market` assumes in turn (`PoolConstants`, `ImportConstants`,
`RegistryConstants`, `CacheConstants`; `AllocationConstants`, `ScreenerConstants`, `ResearchConstants`), so that
the runs evaluate all of them; `CompaniesFit` and `ListingsFit` are assumed by the valuation itself. A theorem whose `property` is listed in
`PROJECT.json` is about the definition that the run checks, under the specification that the run checks.

**`Ledger_proofs`.** `RacesHarmless` (types, `EditsKeepIdentity`, `GeneratedKept`) rests on `RaceInv`: the
pending edit of a request agrees, in the fields the edit policy protects, with the immutable source row (not
with the version the request read, which may have changed since), and every EDIT row does too. That makes
`EditsKeepIdentity` inductive although each request is checked against a different version. Soft deletes are
final by an argument on extrema: the edits that count are those before the first delete, and appending a
correction does not move them; the facts about the greatest member of a set of naturals (existence,
uniqueness, stability) that the `CHOOSE` and `Max` of the specifications need come first, from the library's
well-foundedness of the naturals. `SoftDeleteFinal`, `HistoryImmutable` (tables only grow) and
`OneTransactionPerWrite` (a step changes at most one effective transaction) follow. For one request at a time
`SerialInv` adds that a pending write is still valid on the tables it will be written to; then the effective
ledger always replays, and the two tables implement `EffectiveLedger`: each commit is a `Record`, a `Correct`
or a `Discard`, every other step a stutter. `ClientImplements` carries this to the clients of `LedgerClients`,
where the mapping shows the ledger of a client that is alone and nothing of clients that overlap.

`BooksAlwaysBalance` is about the replay: `BookInv` after any events, for any symbols, brokers and amounts. It
assumes of the events only what `normalize_event_payload` lets through (`PostingsAssumption`: a sale covers its
fee and tax, a holding event names its symbol, a ratio has a denominator) and that what a split or a stock
dividend shares out divides exactly (`WholeShares`, the bound of the model on the guard of `Post`). `BookInv` is
inductive once two things are added (`ReplayInv`): the events are in the order of their days and numbered in
that order, so that a new lot is the youngest; and every lot was opened by an event already posted. The first
third of the module is about finite sums (`Total`): splitting, changing one term, bounding a part by the whole.
They are proved by well-foundedness: the least set that breaks a law of sums is not empty, and the set
without one of its members breaks it too (`SubsetInduction`). `Sound` says of one position that its lots are sorted and
open, and carry its shares and cost; it is kept by an added lot (`LotAdded`), by the loop over lots
of a sale (`LotsConsumed`, from `TakenInOrder`: what is taken of the first lots is what is sold or all there is),
by a stock dividend (`StockAllocated`, whose remainder in the last lot needs that the shares rounded down do not
exceed the dividend) and by a split (`LotsSplit`). Then one lemma for each type of event moves the accounts.

`SalesTakeTheOldest` is first in, first out for every replay (`FifoDisposal`). Every share of a book has exactly
one lot, by the shares in older lots (`ShareExists`, `ShareCost`). A sale takes of the first lots as many shares
as are sold, or all (`TakenUpto`), and the lots that it leaves open keep their order and their shares
(`OpenShares`); so the u-th share after the sale is the one that was `qty` places behind before it
(`YoungestLeft`), and what the sale disposes of is the sum of the first `qty` unit costs (`DisposedByShare`, a run of
equal terms for each lot). That an event of one broker leaves the lots of the others (`CustodyIsolated`) is shown
for each type of event. Besides `ReplayInv` this needs that unit costs are whole (`WholeLots`), the bound that stands
for the exact arithmetic of the model.

**`NavBook_proofs`.** `HistoryAlwaysSound`, for requests that overlap and die: types; `OfficialIsExact`, from the
invariant that the bars a rebuild works on are bars of the market table; and `NoOrphanReview`, from the
invariant that a date under review is covered by an open restatement, which survives the resolution of others
because resolving clears every later date. For one client, `ClientInv` says what it knows at each place of a
handler. `DerivesFor`: the history is the one the ledger and the bars give, except between wipe and last save,
when it is that history on the dates already saved; the bars it holds are a read of the table (`Windows`), and what it has
read of the published dates is still so. Beyond the limit a rebuild has several reads to choose from, and the
history is that of the read it made. Hence `HistoryFollows`. `ShownFor`: of every date that has ever shown
an official NAV, either that NAV still stands for the transactions of the ledger up to the date (`Stands`), or
the date is marked or about to be (`Flagged`). Marks are only taken back by a resolution, which shows the new
NAV. Bars are never deleted, so what fits in one read (`Fits`) did so before, and then a read is all of them
(`WindowFits`): a date with the bars of its holdings does not drop out. Hence `PublishedChangesFlagged`.

**`DividendPosting_proofs`.** `PostingsStayAuditable`, for requests that overlap, are refused and die: `DInv` says
of each request that the event that waits for its posting row is in the ledger, with the action and a type it
posts, and of the rows that what they name exists. For one client without a crash, `OnlyOnce` relates three
stores that no transaction holds together: every dividend event of an action has its posting row, but for the
one whose row comes next; no action has two; what a request found posted when it began is still all there is,
but for its own; and what it is to post by hand has no row yet and is not from before the tracking.
`OneClientPostsOnce` and `OpeningStaysOut` follow.

**`CrawlQueue_proofs`.** Saves are unconditional and the requeue of a stale job asks no worker, so the promise
rests on more than the queue. `CrawlInv` says, for careful operators, what each worker holds at every step of
its crawl (`WorkerSound`): a RUNNING job of its own for the symbol it crawls, which has not aged; what it is
still to fetch is not there; and what is neither there nor still to be fetched has failed. One active job for
a symbol and one worker for a job give one crawl for a symbol: that is why an unconditional save loses nothing
(`FinishedStaysFinished`) and why a job that ends without a failure has all documents (`CompletedIsFetched`).
One active job per symbol (`NoDoubleWork`) is inductive without any care, from the check inside the insert.

**`ConnectionPool_proofs`.** `SessionsStayApart`. The invariant (`BlockSound`) ties the step of a block to its
session: it works only after its own `SET search_path`, its open writes are its own and in its schema, and a
session without a block has none. The deque needs lemmas about taking an element from within and closing
those behind it.

**`PortfolioRegistry_proofs`.** `RegistrySafe`. `RowsHaveTables` alone is not inductive: the invariant
(`ProofInv`, the theorem `RequestsSound`) says of every schema a portfolio has *or will have* that it holds its
tables or some request is about to give it them (`Covered`), and of every request (`Sound`) that its portfolio
was inserted, that the schema it found is still its portfolio's while the user exists, and that what it drops
for good is no longer listed. The limit of portfolios and the other parts of `ConsistentForOneClient` break
when requests overlap. For a client whose requests come one after another, `ClientInv` adds what it may rely
on between two transactions: a portfolio it works on is listed (`Placed`), so that every schema belongs to
a portfolio but the one it is about to drop (`Tidy`); the schema it fills exists, so that nothing gets into
`public`; the count it has read still holds; and a portfolio that is being created is not yet selected, so
that undoing it leaves the selection alone.

**`Records_proofs`** is about the components together. A behaviour of `RecordsSpec` is, for each component, one of
its own specification, so its theorems carry over (`SessionsStayApart`, `ImportedOnce`, `RegistrySafe`), and
their invariants are what the others build on. `ImportedOnce`: a batch names exactly the rows with its key,
every row has its batch, keys are unique, and what a request remembers of the stored batches is still stored
when it answers. A key that no client has chosen is the hash of its payload, whatever the day: so all rows of
a payload without client key are in one batch, and that batch has its size. `StartAlwaysKept` needs, besides, that the day a request has
read as the start of tracking is the one stored while the client is alone (`StartRead`);
`OneClientStaysConsistent` is the `ClientInv` of the registry. For the log (`ChainInvariant`): every row is
hashed over what was written, only the holder of the lock inserts and what it has read is the tail, a
lone client that repairs has read all rows, and every row links to the one before it unless rows were edited
*and* may have been repaired. From it `VerdictAlwaysRight` (every hand edit of the verified segment is
noticed, and a log nobody has edited verifies whatever writers die), `NewSegmentAlwaysVerifies` and
`RepairAlwaysRebases`. `DividendsAlwaysKept` rests on what a refresh holds at each of its steps: the rows
that a provider gave it, or nothing, and then it does not delete. `BarsAlwaysRight`: an entry of the cache of
price histories expires within one lifetime of its answer, and each key has one entry (`BarsInv`). The eviction
keeps what the loop over the entries has found good so far (`Kept`); by the least counterexample it keeps all
good entries in their order (`KeptEntries` and the lemmas before it), so that one of them is given up only when
all are good and the cache is full.

`DividendSharesTaxedOnce`: the code never compares what sales were taxed on with what dividends brought; it replays
a pool that is cut off at zero. The lemma `PoolIsWhatIsLeft` says that nothing is ever cut off in date order: after
any events of the ledger that contain with each of them all before it, the pool is what the dividends among them
brought less what the sales were taxed on, if each sale so far keeps to that (`TaxedInOrder`). So a transaction
that comes last, be it entered or edited, is taxed on exactly what is left (`EventAdded`), and the one that comes last
may be taken away (`EventRemoved`). The pool is a recursion over finite sets; that it exists and does not depend on
the set it is part of (`PoolsExist`, `PoolsAgree`) comes first. The user's tax survives because the automatic part is
part of the tax of every event (`TradeInv`).

`DisagreementsAlwaysShown`: whatever the dates, the groups of a reconciliation part what it has read (`GroupsPart`,
by the least counterexample over the ids) and have different dates (`DatesDiffer`), so that the rows it writes do
not overwrite one another. When the dates fall into events (`Tight`) the groups are these events
(`GroupsAreEvents`, `EventsAreGroups`). `EvidenceInv` adds that a crawl has read all there is when it writes, and
that every row has the date of an event as long as no event was given an earlier one (`RowsOnEvents`), which makes
each old row give way to the new one of its event.

**`Market_proofs`** has an invariant for each computation. No part touches another's variables (`Frames`), so each
invariant, kept by the steps of its own part, holds in every behaviour of `MarketSpec`.

- *Publication.* `Publication` and `ConfidencePaid` rest on the order of the sections of `evaluate`.
  `PublicationInv` carries, from one section to the next, what the later ones rely on (`ValuedInv`, `JudgedInv`,
  `GatedInv`). The lemma `GatesPass` says of all seven gates that they only take a standing away: a
  model that is still VERIFIED after them has the confidence and the pill that went in. So a public value shows
  the margin of the confidence it was charged for, although the margin comes before the gates.
- *Advice.* `EvidenceFirst`: `AllocationInv` says of the decisions so far that a holding is sold for its own safety
  only on usable evidence (`UnusableKept`), that a rotation sells only for a candidate that is better by
  evidence (`SoldForBetter`), and that what is bought has passed (`BoughtOnEvidence`).
  `PlansCanBeCarriedOut` adds `PlansInv`: the rows and the cash of a report are worth its net asset value
  (`MoneyInv`), a decision has no plan before the plans are made and a reduction has a target (`Unplanned`), and
  the most a candidate may be given is under the hard cap (`Sized`). That the simulated changes keep the money is
  the lemma `AppliedSound`: a sum over positions loses the old value of the one that changes and gains the new one
  (`TotalChanged`, from running totals that do not depend on their order, `RunsUnique`). The plans themselves
  are arithmetic of whole lots (`BuyFacts`, `ReduceFacts`).
- *Screener.* `ListComputedOnce` needs only who holds the lock (`LockHeld`). `ItemsMeanTheirPrice` is about any number
  of overlapping requests: an item that is not torn either agrees with its price (`Agrees`) and nobody is half-way
  with it, or exactly one request is, and it has given the item the price it fetched (`ItemsStand`). That the margin
  computed first and the margin of a refresh both agree is arithmetic of two roundings. Prices are recent, for one
  request at a time (`OneAtWork`), because what it fetched, or found fetched, was asked less than a lifetime ago (`Recent`).
- *Research.* `ResearchLooksBack` and `ValidationIsEarned` rest on `RowsRight`, a row has nothing later than its date,
  and `LabelsRight`, a label is resolved only with a session that has passed. The windows tile the time before the
  sealed period by the division of a day by the step (`StepOf`, `WindowFacts`). `ReturnsStayResolved` needs more
  than it says: sessions are found by their rank, so a session stored *between* others would move a resolved
  return. `Frontier` says why none is: the screener stores up to today whatever it finds within its
  window, so everything it finds later lies after all that a listing has (`LegStays`). Choices by rank need the
  lemmas that a finite set of days has exactly one member of each rank (`RankFromLast`, `OneRank`).

- *Evaluation.* `CyclesCompare` assumes that the history of a company is in order and ends with the year that is
  valued (`InOrder`); `InputsInOrder` shows that both callers of the engine build it so, from rows kept in any
  order. The regimes are what is left between the starts that the detector found: whatever it finds, they tile
  the years (`RegimesFacts`, from `AscendingFacts`: a finite set of years has one enumeration, by rank), so the
  years of the latest one are those after its start, and the cycle, cut from these, compares with the
  present (`CycleFacts`). A table of steps gives one of its points (`StepsAmong`), hence at most a hundred in all
  (`PointsInRange`), and the seven gates keep statuses, confidences and pills among those that exist (`GatedFits`).
- *The list and its pages.* `ListIsThePage` follows from `ListAsksWhatThePageAsks`, which compares the two ways to
  build the inputs of the engine field by field. The last row of a code is the first provider's when there is one row
  (`OneRow`). Earnings the list leaves out are those the engine does not read (`PositiveShare`), and equity matters
  only without a book value per share. A listing without an industry has the sector "unclassified" in the list and
  "listed company" on the page, and no keyword of any of the 48 rules matches either (`NoRuleMeets`). `ListingsFit` says
  that the book value of a listing is at least a dong a share, the unit of the model: the code divides without rounding.

**Only model-checked.** Liveness (`HealsForOneClient`, `DividendsArrive`, `JobsFinish`); every invariant and every
action property of a passing run is a theorem. Out of the prover's reach are liveness under fairness, `ENABLED`, and the induction theorems of the
library, which take an operator: what is proved here by induction over data (sums, lots of a sale) goes by the
least counterexample instead, and filtered or flattened sequences (`SelectSeq`, `FlattenSeq`) have no such detour.

### Met while proving

- `HistoricalFlags` was about every official NAV. It is false without holdings: the dates of the history are
  those on which a symbol of the ledger has a price (`service.py:459`), so the deletion of the only event of a
  symbol takes the snapshots of earlier dates of cash alone with it, and `_mark_restatement_if_needed`, which
  compares with the latest snapshot, has nothing to mark. The property is now about dates with holdings.
- The dividends assume a last day of at least 1, the registry a limit of at least one portfolio
  (`MAX_PORTFOLIOS_PER_USER` is 20): the default portfolio is inserted without a look at the limit.
- The chain of dividend providers is not empty (`default_dividend_providers` has several).
- `Rehashed` was a recursive operator; the digests of a repair are now one function over the rows
  (`RehashedOver`), since a digest stands for the contents it was computed from.
- A `CASE` whose guards overlap has no order in TLA+, and TLC takes the first. The chains of `if` in the allocation
  were written so and are now `IF`s, one after another, as in the code; records that were completed with
  `@@` name their fields.
- "The price of an item is that of its margin" is false between the two writes of a refresh, even for one
  request: the invariant of the screener names the half-written item.
- The lots left open by a sale were a filtered sequence (`SelectSeq`), of which nothing can be proved; they are now
  built one by one, as the loop of `_consume_fifo` does (`OpenLots`). For the same reason the eviction of the
  cached bars (`Kept`) and the simulated changes (`Applied`) are functions over the steps of their loops, and the
  pool of dividend shares (`PoolAfter`), a fold over a sorted sequence before, is one over the sets of events, and
  the groups of observations (`Groups`) one over the ids.
- An eviction leaves one entry fewer than the limit and one is added, so a cache with a limit of 0 would hold
  one entry: `BarsFit` assumes at least 1 (the default is 512).
- A price of 0 is no price to the planner (`execution_planner.py:110`); the assumption on the items says so. A
  holding without a quotation takes the price its simulated value implies (`service.py:446`), which `PriceOf` left out.
- An evaluation is sound only for a history in order: a company whose years are shuffled, or that is valued for another
  year than its last, has a cycle of years that do not compare. Both callers sort the years, which is now a theorem
  (`InputsInOrder`) and an assumption of the engine (`CompaniesFit`).
- "Above one per cent" was not enough for `ListMatchesPages` on listings other than the instance's: the model keeps
  thousandths, a return of 10.4 of them is one per cent there, and the page takes it for a fraction. `Profitable` now
  speaks of the thousandths the model keeps.
- "The lots add up" is not inductive alone: a sale takes lots by their order, and nothing in `LotsBalance` says that
  they are sorted. `LotsInOrder` is now part of `BookInv`.
- The tables the screener may find are functions on its listings, and a listed company that is rejected has
  no margin of safety: assumptions that only the instance had guaranteed are now stated.

## Plan

1. *Done*: the modules above, with the proofs of the ledger, NAV history, dividends, crawl queue, connection
   pool, imports, registry, activity log and dividend history, alone and together, and of the valuation,
   allocation, screener and research.
2. *Done*: proofs of every safety property the runs check.
3. More interaction: dividends composed with the ledger's corrections (a discarded dividend event), the
   activity log with mutations that fail half-way.
4. Two listings in the screener and two in research, once their numbers of states allow it; withholding and
   broker splits of a dividend.
