------------------------------- MODULE Market --------------------------------
(***************************************************************************)
(* What the application computes about the market: the valuation of a       *)
(* company, the allocation report of a portfolio, the list of the screener, *)
(* and the factor research.  They hand one another finished results only,   *)
(* which are inputs here, so they share no variable and each takes its      *)
(* steps independently of the others.                                       *)
(***************************************************************************)
EXTENDS EngineInputs

CONSTANTS
    Assets, Holdings, Universes, Changes, Assessments, NavUnits, Lot,       \* Allocation
    Tickers, Requests, Reports, Turnover, Prices, Stored,         \* Screener
    MinLiquidity, Limit, CacheTTL, PriceTTL, MaxTime, MaxLists,
    Researched, Filings, Lag, LastDay, MonthDays, YearDays, FetchDays,      \* FactorResearch
    Indexes, Suspensions, Horizons, Lookback, MinCrossSection,
    MinObservations, Quantiles, Configs, AskedDates

VARIABLES
    phase, rows, cash, changes, items, mapped, decisions, candidates, advice, verdict,      \* Allocation
    clock, market, stored, fetched, lists, universe, computedAt, lock, req, past, overlap, torn,  \* Screener
    today, index, traded, canonical, known, bars, benchmark, run, snapshots, outcomes, config, result

allocation == <<phase, rows, cash, changes, items, mapped, decisions, candidates, advice, verdict>>
screener   == <<clock, market, stored, fetched, lists, universe, computedAt, lock, req, past, overlap, torn>>
research   == <<today, index, traded, canonical, known, bars, benchmark, run, snapshots, outcomes, config, result>>
everything == <<vars, allocation, screener, research>>

-------------------------------------------------------------------------------
Allocate == INSTANCE Allocation WITH Symbols <- Assets, stage <- phase
Screen   == INSTANCE Screener WITH Symbols <- Tickers
Factors  == INSTANCE FactorResearch WITH Symbols <- Researched, market <- known

ASSUME AllocationFits == Allocate!AllocationConstants
ASSUME ScreenFits == Screen!ScreenerConstants
ASSUME ResearchFits == Factors!ResearchConstants

-------------------------------------------------------------------------------
MarketInit == Init /\ Allocate!Init /\ Screen!Init /\ Factors!Init

Value  == Next /\ UNCHANGED <<allocation, screener, research>>
Advise == Allocate!Next /\ UNCHANGED <<vars, screener, research>>
List   == Screen!Next /\ UNCHANGED <<vars, allocation, research>>
Study  == Factors!Next /\ UNCHANGED <<vars, allocation, screener>>

MarketNext == Value \/ Advise \/ List \/ Study

MarketSpec == MarketInit /\ [][MarketNext]_everything

-------------------------------------------------------------------------------
\* An evaluation is well typed, its regimes cut the history into intervals without
\* a gap, and its cycle is taken from years that compare with the present.
EvaluationInv == ValuationInv /\ ComparableYears

\* The list and the page of a listing ask the engine about the same company.
ListMatchesPages == ListMatchesPage

\* What is published is sound, and a pill that says to buy stands on it.
AdviceIsSound == PublishedIsSound /\ BuyNeedsValue

\* A public value shows the margin of safety of the confidence it publishes.
ConfidenceCharged == MarginCharged

\* What the plans of a report buy and sell can be paid and delivered.
PlansFeasible == Allocate!PlansFeasible

\* No share moves on missing, rejected or insufficient evidence.
EvidenceBeforeAction == Allocate!EvidenceBeforeAction

\* The margin and the standing of an item are those of its price, whoever refreshed
\* it, and as long as requests come one after another an answered price is recent.
ListInv == Screen!ItemsAgree /\ Screen!PricesAreRecentForOneClient

\* However many requests find the list stale, it is computed once per period.
ComputedOncePerPeriod == [][Screen!ComputedWhenDue]_everything

\* A snapshot is made of what was known on its date, and the sealed period is kept
\* out of what a factor is tuned on.
NoLookAhead == Factors!NothingFromTheFuture /\ Factors!SealedKeptOut

\* A factor is called VALIDATED on evidence of every kind.
ValidatedOnEvidence == Factors!ValidatedOnEvidence

\* Building the outcomes again leaves what was resolved.
ResolvedLabelsStay == [][Factors!LabelsKept]_everything

\* "Last trading day of each month" (runner.py:222).
SnapshotsAtMonthEnd == Factors!SnapshotsAtMonthEnd

\* "Index return aligned to the stock's base and end session dates" (outcomes.py:90).
LegsAligned == Factors!LegsAligned
===============================================================================
