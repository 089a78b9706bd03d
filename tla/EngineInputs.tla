---------------------------- MODULE EngineInputs ----------------------------
(***************************************************************************)
(* What the value engine is asked about a listing of the finance database. *)
(*                                                                         *)
(* Two places build its inputs.  The detail endpoint of the application    *)
(* (app/main.py) asks the catalog for an audited snapshot of the latest    *)
(* year and reads the other years beside it; the screener (screener.py)    *)
(* builds the inputs of every listing in one pass and is to arrive at the  *)
(* same ones, so that a list and the page behind it say the same.          *)
(*                                                                         *)
(* A listing has its symbol, the keywords of its name and of its industry, *)
(* the rows of canonical_facts, the stock dividends, and whether a         *)
(* document of the latest year did not parse.  The rows of a year and a    *)
(* code, which is the field of the engine it feeds, are a sequence of      *)
(* <<provider, value>> in the order the database returns them: billions of *)
(* dong or millions of shares; providers are numbered in the order of      *)
(* their names.                                                            *)
(***************************************************************************)
EXTENDS Valuation

CONSTANT Listings

(* _LATEST_YEAR_FACT_CODES: revenue is not among them *)
LatestYearCodes == EngineItems \union {"equity"}
AllCodes == EngineItems \union {"equity", "revenue"}

FiscalYears(l) == DOMAIN l.rows
LatestFiscalYear(l) == Max(FiscalYears(l))

(* by_year: of several rows for one code the last one stays *)
Item(l, year, code) == IF l.rows[year][code] = <<>> THEN None ELSE Last(l.rows[year][code])[2]

Items(l, year) == [code \in AllCodes |-> Item(l, year, code)]

(* The years and the rows of a listing; its book value is at least a dong a  *)
(* share, the unit of the model                                               *)
WellKept(l) ==
  /\ FiscalYears(l) \in SUBSET Int /\ IsFiniteSet(FiscalYears(l))
  /\ \A y \in FiscalYears(l), code \in AllCodes : l.rows[y][code] \in Seq(Int \X Int)
  /\ \A y \in FiscalYears(l) :
       Positive(Item(l, y, "equity")) /\ Positive(Item(l, y, "shares")) =>
         PerShare(Item(l, y, "equity"), Item(l, y, "shares")) > 0

ASSUME ListingsFit ==
  /\ None \notin Int /\ None # {"unclassified"}
  /\ \A l \in Listings : WellKept(l)

(* The facts of a year as the engine reads them *)
YearFacts(items, codes) ==
  [code \in AllCodes \ {"equity"} |-> IF code \in codes THEN items[code] ELSE None]

(***************************************************************************)
(* The history and the pillars, the same code in both places               *)
(***************************************************************************)
HistoryRow(l, year) ==
  LET i == Items(l, year) IN
  [year |-> year, revenue |-> i["revenue"], net_profit |-> i["net"], equity |-> i["equity"],
   operating_cash_flow |-> i["cfo"], total_debt |-> i["debt"], shares_outstanding |-> i["shares"],
   roe |-> IF Known(i["net"]) /\ Positive(i["equity"]) THEN Thousandths(i["net"], i["equity"]) ELSE None]

History(l) ==
  LET years == Ascending(FiscalYears(l)) IN [n \in DOMAIN years |-> HistoryRow(l, years[n])]

LastFive(s) == SubSeq(s, Max({1, Len(s) - 4}), Len(s))
Mean(s) == IF s = <<>> THEN None ELSE SumOf(s) \div Len(s)

Conversions(h) ==
  LET rows == SelectSeq(h, LAMBDA r : Known(r.operating_cash_flow) /\ Positive(r.net_profit))
  IN  [n \in DOMAIN rows |-> Thousandths(rows[n].operating_cash_flow, rows[n].net_profit)]

NoDilution == [class |-> None, confirmed |-> None, unexplained |-> None]

(* The share count of four reports ago against the latest, less the stock   *)
(* dividends since; no event that raises capital is ingested                 *)
DilutionOf(l) ==
  LET known == SelectSeq(History(l), LAMBDA r : Known(r.shares_outstanding))
      first == known[Len(known) - 4]
      since == SelectSeq(l.dividends, LAMBDA d : d.year >= first.year)
  IN  IF Len(known) < 5 \/ first.shares_outstanding <= 0 \/ Last(known).shares_outstanding = 0 THEN NoDilution
      ELSE ClassifyShares(first.shares_outstanding, Last(known).shares_outstanding,
                          [n \in DOMAIN since |-> since[n].ratio], <<>>)

PillarsOf(l, financial) ==
  LET h == History(l)
      latest == Last(h)
      net == IF financial THEN 0 ELSE Max({0, Zero(latest.total_debt) - Zero(Item(l, latest.year, "cash"))})
  IN  [roe |-> Mean(Facts(LastFive(h), "roe")),
       conversion |-> IF financial THEN None ELSE Mean(Conversions(LastFive(h))),
       dilution |-> DilutionOf(l), netDebt |-> net,
       payback |-> IF financial THEN None
                   ELSE IF net > 0 /\ Positive(latest.operating_cash_flow) THEN Thousandths(net, latest.operating_cash_flow)
                   ELSE 0]

FinancialWords == {"bank", "securities", "insurance"}

(* No crawled fact feeds the lease, the parts or the concession *)
Inputs(l, sector, bank, financial, facts, equity, eps, bvps, roe) ==
  [symbol |-> l.symbol, sector |-> sector, bank |-> bank, lineage |-> "SINGLE_SOURCE",
   facts |-> facts, history |-> History(l), year |-> LatestFiscalYear(l), price |-> l.price,
   shares |-> facts[LatestFiscalYear(l)]["shares"], eps |-> eps, bvps |-> bvps, roe |-> roe, equity |-> equity,
   deferred |-> None, works |-> None, fixed |-> None, concessionEnd |-> FALSE, pillars |-> PillarsOf(l, financial)]

(***************************************************************************)
(* The screener                                                            *)
(***************************************************************************)
ScreenerFacts_AllCodes(l) == [y \in FiscalYears(l) |-> YearFacts(Items(l, y), AllCodes)]

ScreenerFacts(l) ==
  [y \in FiscalYears(l) |-> YearFacts(Items(l, y), IF y = LatestFiscalYear(l) THEN LatestYearCodes ELSE AllCodes)]

(* The last year that has a fact *)
LastKnown(l, years, code) ==
  LET with == {y \in years : Known(Item(l, y, code))} IN IF with = {} THEN None ELSE Item(l, Max(with), code)

(* _build_engine_inputs, for a listing of at least two years *)
Screened(l) ==
  /\ Cardinality(FiscalYears(l)) >= 2
  /\ Positive(l.price) /\ Positive(Item(l, LatestFiscalYear(l), "shares"))

ScreenerInputs(l) ==
  LET latest == Items(l, LatestFiscalYear(l))
      words == l.name \union (IF l.industry = None THEN {} ELSE l.industry)
      share(x) == IF Positive(x) THEN PerShare(x, latest["shares"]) ELSE None
  IN  Inputs(l, IF l.industry = None THEN {"unclassified"} ELSE l.industry, "bank" \in words,
             words \intersect FinancialWords # {}, ScreenerFacts(l),
             LastKnown(l, FiscalYears(l), "equity"), share(latest["net"]), share(latest["equity"]),
             IF Known(latest["net"]) /\ Positive(latest["equity"]) THEN Thousandths(latest["net"], latest["equity"])
             ELSE None)

(***************************************************************************)
(* The detail endpoint                                                     *)
(***************************************************************************)
Candidates(l, code) == Range(l.rows[LatestFiscalYear(l)][code])

(* The first provider is taken *)
Selected(l, code) ==
  LET rows == Candidates(l, code)
  IN  IF rows = {} THEN None ELSE (CHOOSE r \in rows : \A s \in rows : r[1] <= s[1])[2]

(* _materially_conflicting: more than 0.1 % and more than one away from it *)
Conflicting(l, code) ==
  LET base == Selected(l, code)
  IN  \E r \in Candidates(l, code) : 1000 * Size(r[2] - base) > Max({1000, Size(base)})

(* valuation_readiness_audit *)
Ready(l) ==
  /\ FiscalYears(l) # {}
  /\ \A code \in EngineItems : Candidates(l, code) # {} /\ ~Conflicting(l, code)
  /\ ~l.unparsed
  /\ Known(l.price) => l.price > 0

DetailItems(l) == [code \in AllCodes |-> IF code \in LatestYearCodes THEN Selected(l, code) ELSE None]

(* percent: a number of at most one is taken for a fraction *)
Percent(rate) == IF Known(rate) /\ Size(rate) <= 10 THEN 100 * rate ELSE rate

(* portfolio_symbol_valuation, after the refusals *)
Detailed(l) == Ready(l) /\ Positive(l.price) /\ Positive(Selected(l, "shares"))

DetailInputs(l) ==
  LET latest == DetailItems(l)
      year == LatestFiscalYear(l)
      older == FiscalYears(l) \ {year}
      words == IF l.industry = None THEN {} ELSE l.industry
      equity == LastKnown(l, older, "equity")
      share(x) == IF Known(x) THEN PerShare(x, latest["shares"]) ELSE None
  IN  Inputs(l, l.industry, "bank" \in words, words \intersect FinancialWords # {},
             [y \in FiscalYears(l) |-> YearFacts(IF y = year THEN latest ELSE Items(l, y), AllCodes)],
             IF Known(equity) THEN equity ELSE latest["equity"], share(latest["net"]), share(latest["equity"]),
             Percent(IF Known(latest["net"]) /\ Positive(latest["equity"])
                     THEN Thousandths(latest["net"], latest["equity"]) ELSE None))

(***************************************************************************)
(* Properties                                                              *)
(***************************************************************************)
(* What the report is made of: earnings and book value of a share count     *)
(* only when positive, and the sector only for the archetype                 *)
Essence(c) ==
  [c EXCEPT !.sector = ProfileOf(c), !.eps = IF Positive(c.eps) THEN c.eps ELSE None,
            !.bvps = IF Positive(c.bvps) THEN c.bvps ELSE None,
            !.equity = IF Positive(c.bvps) THEN None ELSE c.equity]

(* A listing whose name and industry agree on what it is, and whose facts   *)
(* come from one provider                                                    *)
Plain(l) ==
  /\ l.name \intersect FinancialWords \subseteq (IF l.industry = None THEN {} ELSE l.industry)
  /\ \A y \in FiscalYears(l), code \in AllCodes : Len(l.rows[y][code]) <= 1

(* More than one percent of its equity is earned or lost, as far as the      *)
(* thousandths of the model can tell                                         *)
Profitable(l) ==
  LET i == Items(l, LatestFiscalYear(l)) IN
  Known(i["net"]) /\ Positive(i["equity"]) /\ Size(Thousandths(i["net"], i["equity"])) > 10

(* The plain, profitable listings that are in the list and have a page *)
Shown == {l \in Listings : Plain(l) /\ Profitable(l) /\ Screened(l) /\ Detailed(l)}

(* "The screener does not use an engine of its own" (screener.py:165-170):   *)
(* where the page of a plain, profitable listing can be shown, the list and  *)
(* the page ask the engine about the same company, of a single source.       *)
ListMatchesPage ==
  stage = "START" /\ company.lineage = "SINGLE_SOURCE" =>
    \A l \in Shown :
      l.symbol = company.symbol /\ DetailInputs(l) = company => Essence(ScreenerInputs(l)) = Essence(company)

(* "The screener must match EXACTLY the canonical report of the detail       *)
(* endpoint" (tests/test_screener_api.py:83-84): of every plain listing.     *)
ListIsPage ==
  stage = "START" =>
    \A l \in Listings :
      l.symbol = company.symbol /\ Plain(l) /\ Screened(l) /\ Detailed(l)
        /\ DetailInputs(l) = company =>
        Essence(ScreenerInputs(l)) = Essence(company)
=============================================================================
