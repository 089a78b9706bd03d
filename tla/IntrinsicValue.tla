--------------------------- MODULE IntrinsicValue ---------------------------
(***************************************************************************)
(* The models of the value engine (value_engine/*.py): owner earnings of a *)
(* year and of a cycle, the growth the history supports, and the value of  *)
(* a share under each model in three scenarios.                            *)
(*                                                                         *)
(* Amounts are in billions of dong, shares in millions, a value per share  *)
(* in dong, rates in thousandths; division rounds down.  The facts of a    *)
(* year are a record of usable line items: one that is missing,            *)
(* conflicting or quarantined is None.                                     *)
(***************************************************************************)
EXTENDS NumericValidation

OwnerEarningsItems == {"net", "depreciation", "capex", "cfo"}
EngineItems == OwnerEarningsItems \union {"operating", "debt", "cash", "shares"}

Complete(f, items) == \A k \in items : Known(f[k])

(***************************************************************************)
(* Owner earnings                                                          *)
(***************************************************************************)
(* OwnerEarningsCalculator.calculate: a working capital build-up is charged *)
(* to at most half of the core earning power                                *)
OwnerEarnings(f) ==
  LET core == f.net + f.depreciation - Min({Size(f.capex), Size(f.depreciation)})
      raw == core + (f.cfo - (f.net + f.depreciation))
  IN  IF raw <= 0 /\ core > 0 THEN Max({core \div 2, raw}) ELSE raw

LatestYear(facts, latest) ==
  [value |-> OwnerEarnings(facts[latest]), method |-> "LATEST_FY", years |-> {latest},
   maintenance |-> "LOW"]

(* calculate_cycle_normalized: the median margin on the median revenue of   *)
(* the years of the window.  A year without a cash flow statement counts    *)
(* with its profit; with fewer than three years, or in a cycle that earns   *)
(* nothing, the latest year stands alone.                                   *)
EarningsOf(f) == IF Complete(f, OwnerEarningsItems) THEN OwnerEarnings(f)
                 ELSE IF Positive(f.net) THEN f.net ELSE None

CycleYears_AnyRegime(facts, latest, lookback, included) ==
  {y \in (latest - lookback + 1 .. latest) \intersect DOMAIN facts :
     Known(EarningsOf(facts[y])) /\ Positive(facts[y].revenue)}

CycleYears(facts, latest, lookback, included) ==
  {y \in (latest - lookback + 1 .. latest) \intersect DOMAIN facts :
     (included = None \/ y \in included) /\ Known(EarningsOf(facts[y])) /\ Positive(facts[y].revenue)}

OverCycle(facts, latest, years, ordered) ==
  LET revenue == Median([i \in DOMAIN ordered |-> facts[ordered[i]].revenue])
      margin == Median([i \in DOMAIN ordered |->
                  (100000 * EarningsOf(facts[ordered[i]])) \div facts[ordered[i]].revenue])
  IN  IF Cardinality(years) < 3 \/ margin <= 0 THEN LatestYear(facts, latest)
      ELSE [value |-> (margin * revenue) \div 100000, method |-> "MID_CYCLE_MEDIAN", years |-> years,
            maintenance |-> IF Cardinality(years) >= 7 THEN "HIGH" ELSE "MEDIUM"]

CycleNormalized(facts, latest, lookback, included) ==
  LET years == CycleYears(facts, latest, lookback, included)
  IN  OverCycle(facts, latest, years, Ascending(years))

(***************************************************************************)
(* Growth                                                                  *)
(***************************************************************************)
UpperMedian(s) == SortSeq(s, LAMBDA a, b : a < b)[Len(s) \div 2 + 1]

Compounded(v, rate, years) ==
  LET at[n \in 0 .. years] == IF n = 0 THEN v ELSE (at[n - 1] * (1000 + rate)) \div 1000 IN at[years]

(* The yearly growth between two profits, as far as the caps can tell *)
HistoricalGrowth(profits) ==
  LET n == Len(profits)
      span == profits[n].year - profits[n - 4].year
      reached(rate) == Compounded(100 * profits[n - 4].net_profit, rate, span) <= 100 * profits[n].net_profit
  IN  IF n < 5 \/ span <= 0 THEN None ELSE Max({-11} \union {rate \in -10 .. 170 : reached(rate)})

(* Years whose equity, like the profit, is known and positive at both ends *)
EquityPairs(profits) ==
  SelectSeq([i \in 1 .. Len(profits) - 1 |->
      [profit |-> profits[i + 1].net_profit, change |-> profits[i + 1].net_profit - profits[i].net_profit,
       equity |-> IF Positive(profits[i].equity) /\ Positive(profits[i + 1].equity)
                  THEN profits[i + 1].equity - profits[i].equity ELSE None]],
    LAMBDA p : Known(p.equity))

(* _derive_growth: what is retained times what it returns, within the history *)
Growth(h, roe, cyclical) ==
  LET profits == SelectSeq(h, LAMBDA r : Positive(r.net_profit))
      pairs == EquityPairs(profits)
      growing == SelectSeq(pairs, LAMBDA p : p.equity > 0)
      cagr == HistoricalGrowth(profits)
      return == IF growing # <<>> THEN UpperMedian([i \in DOMAIN growing |-> Thousandths(growing[i].change, growing[i].equity)])
                ELSE IF Known(roe) /\ roe # 0 THEN roe
                ELSE 150
      retention == IF pairs = <<>> THEN 700
                   ELSE UpperMedian([i \in DOMAIN pairs |-> Max({0, Min({1000, Thousandths(pairs[i].equity, pairs[i].profit)})})])
      history == IF cagr = None THEN {} ELSE {Min({Max({20, cagr + 30}), 200})}
      base == Max({20, Min({(retention * return) \div 1000, IF cyclical THEN 200 ELSE 250} \union history)})
  IN  [base |-> base, bear |-> Max({20, (base * 600) \div 1000}), bull |-> Min({200, (base * 1350) \div 1000}),
       downgrade |-> cagr # None /\ cagr < 30]

(***************************************************************************)
(* Scenarios                                                               *)
(***************************************************************************)
(* Margin of safety, in thousandths of the value *)
SafetyOf(value, price) == IF value > 0 /\ price > 0 THEN 1000 + (-1000 * price) \div value ELSE None

PerShare(equity, shares) == (1000 * equity) \div shares

Scenario(equity, shares, price, terminal) ==
  LET value == PerShare(equity, shares) IN
  [equity |-> equity, value |-> value, safety |-> SafetyOf(value, price), terminal |-> terminal]

NoScenario == [equity |-> 0, value |-> None, safety |-> None, terminal |-> None]

(* The cash flow of each year, grown and discounted, in tenths *)
Discounted(base, rate, growth, years) ==
  LET at[t \in 0 .. years] == IF t = 0 THEN 10 * base ELSE (at[t - 1] * (1000 + growth)) \div (1000 + rate) IN at

Sum(f, first, last) == MapThenSumSet(LAMBDA t : f[t], first .. last)

(* DCFValuationModel.calculate_scenario: owner earnings are equity cash flow, *)
(* so that no debt is taken off again                                         *)
Dcf(base, shares, price, rate, growth, terminal) ==
  LET flow == Discounted(base, rate, growth, 5)
      tail == (flow[5] * (1000 + terminal)) \div (rate - terminal)
      total == Sum(flow, 1, 5) + tail
  IN  Scenario(total \div 10, shares, price, IF total > 0 THEN (100 * tail) \div (total \div 10) ELSE None)

(* IndustrialRealEstateValuationModel: the prepaid rent counts for 85%, the  *)
(* works in progress for 30%                                                  *)
Lease(base, unearned, works, debt, shares, price, rate, growth, terminal) ==
  LET flow == Discounted(base, rate, growth, 5)
      tail == (flow[5] * (1000 + terminal)) \div (rate - terminal)
      total == Sum(flow, 1, 5) + tail
  IN  Scenario(total \div 10 + (unearned * 850) \div 1000 - debt - (works * 300) \div 1000, shares, price,
               IF total > 0 THEN (100 * tail) \div (total \div 10) ELSE None)

(* ConcessionValuationModel: fifteen years, and nothing after *)
Concession(base, debt, shares, price, rate, growth) ==
  Scenario(Sum(Discounted(base, rate, growth, 15), 1, 15) \div 10 - debt, shares, price, 0)

(* SOTPValuationModel: the parts, less the holding discount and the debt,    *)
(* and never below zero                                                       *)
PartsValue(parts, weights) == MapThenSumSet(LAMBDA k : (parts[k] * weights[k]) \div 1000, DOMAIN parts)

SumOfParts(gross, debt, shares, price, discount) ==
  LET s == Scenario(Max({0, (gross * (1000 - discount)) \div 1000 - debt}), shares, price, 0)
  IN  IF s.value > 0 \/ price <= 0 THEN s ELSE [s EXCEPT !.safety = -1000]

(* The parts of the holdings the code knows, and of any other (a plantation) *)
NamedParts ==
  [VEA |-> [base |-> <<28000, 20000, 6000, 1500>>, bear |-> <<800, 750, 750, 800>>,
            bull |-> <<1200, 1200, 1200, 1200>>, discount |-> 100],
   REE |-> [base |-> <<18000, 9000, 4500, 2500>>, bear |-> <<800, 850, 850, 700>>,
            bull |-> <<1250, 1200, 1150, 1300>>, discount |-> 100],
   MSN |-> [base |-> <<80000, 35000, 25000, 10000, 8000>>, bear |-> <<800, 700, 750, 700, 700>>,
            bull |-> <<1250, 1300, 1250, 1300, 1300>>, discount |-> 150],
   VIC |-> [base |-> <<130000, 35000, 30000, 45000>>, bear |-> <<750, 750, 700, 500>>,
            bull |-> <<1300, 1250, 1300, 1500>>, discount |-> 200]]

PlantationParts(base, assets) ==
  <<IF base > 0 THEN (base * 8500) \div 1000 ELSE (assets * 400) \div 1000,
    (assets * 450) \div 1000, (assets * 300) \div 1000>>

(* calculate_rim_scenario: book value and what is earned on it above its     *)
(* cost, the return fading to its terminal level                              *)
Residual(book, shares, price, roe, cost, terminal, target) ==
  LET return(t) == roe + ((target - roe) * (t - 1)) \div 5
      books[t \in 1 .. 6] == IF t = 1 THEN book ELSE (books[t - 1] * (1000 + (800 * return(t - 1)) \div 1000)) \div 1000
      discount[t \in 0 .. 5] == IF t = 0 THEN 1000000 ELSE (discount[t - 1] \div (1000 + cost)) * 1000
      present(amount, t) == ((amount \div 10) * (discount[t] \div 1000)) \div 100
      excess[t \in 1 .. 5] == present(((return(t) - cost) * books[t]) \div 1000, t)
      after == ((target - cost) * books[6]) \div 1000
      tail == IF cost > terminal /\ after > 0 THEN present(Thousandths(after, cost - terminal), 5) ELSE 0
      value == Max({(book * 800) \div 1000, book + Sum(excess, 1, 5) + tail})
  IN  [equity |-> (value * shares) \div 1000, value |-> value, safety |-> SafetyOf(value, price), terminal |-> None]

(***************************************************************************)
(* The suites: bear, base and bull                                         *)
(***************************************************************************)
DcfSuite(base, g, shares, price) ==
  [bear |-> Dcf(base, shares, price, 120, g.bear, 25), base |-> Dcf(base, shares, price, 110, g.base, 35),
   bull |-> Dcf(base, shares, price, 100, g.bull, 40)]

LeaseSuite(base, unearned, works, debt, shares, price) ==
  LET at(rate, growth, terminal) == Lease(base, unearned, works, debt, shares, price, rate, growth, terminal)
  IN  [bear |-> at(120, 20, 20), base |-> at(110, 60, 25), bull |-> at(100, 100, 30)]

ConcessionSuite(base, debt, shares, price) ==
  LET at(rate, growth) == Concession(base, debt, shares, price, rate, growth)
  IN  [bear |-> at(115, 10), base |-> at(110, 35), bull |-> at(95, 55)]

PartsSuite(symbol, base, assets, debt, shares, price) ==
  LET at(parts, weights, discount) == SumOfParts(PartsValue(parts, weights), debt, shares, price, discount)
      whole(parts) == [i \in DOMAIN parts |-> 1000]
      n == NamedParts[symbol]
      p == PlantationParts(base, assets)
  IN  IF symbol \in DOMAIN NamedParts
      THEN [bear |-> at(n.base, n.bear, n.discount), base |-> at(n.base, whole(n.base), n.discount),
            bull |-> at(n.base, n.bull, n.discount)]
      ELSE [bear |-> at(p, <<750, 800, 600>>, 150), base |-> at(p, whole(p), 100),
            bull |-> at(p, <<1250, 1100, 1400>>, 50)]

(* calculate_bank_suite, the cost of equity given to it by the engine *)
BankSuite(book, roe, shares, price) ==
  LET at(return, cost, terminal, target) == Residual(book, shares, price, return, cost, terminal, target) IN
  [bear |-> at(Max({120, (roe * 750) \div 1000}), 130, 25, 130),
   base |-> at(roe, 110, 35, Min({145, Max({130, (roe * 750) \div 1000})})),
   bull |-> at(Min({240, (roe * 1100) \div 1000}), 105, 40, Min({165, Max({140, (roe * 850) \div 1000})}))]

NoSuite == [bear |-> NoScenario, base |-> NoScenario, bull |-> NoScenario]

(***************************************************************************)
(* The analytics beside a value                                            *)
(***************************************************************************)
(* EPVValuationModel.calculate *)
EarningsPower(operating, debt, shares) == PerShare(((operating * 800) \div 110) - debt, shares)

(* solve_implied_growth: sixty halvings of [-50%, 150%], or fewer when the    *)
(* value is within a hundred dong; a price out of reach ends at a bound       *)
ImpliedGrowth(base, shares, price) ==
  LET value(g) == Dcf(base, shares, price, 110, g, 35).value
      middle(b) == (b.low + b.high) \div 2
      step(b) == IF value(middle(b)) < price THEN [b EXCEPT !.low = middle(b)] ELSE [b EXCEPT !.high = middle(b)]
      near(b) == Size(value(middle(b)) - price) <= 100 \/ b.high - b.low <= 1
      search[n \in 0 .. 11] == IF n = 0 THEN [low |-> -500, high |-> 1500]
                               ELSE IF near(search[n - 1]) THEN search[n - 1] ELSE step(search[n - 1])
  IN  middle(search[11])

(* SensitivityAnalyzer.build_matrix; a rate no higher than the growth has no value *)
Sensitivity(base, shares, growth) ==
  [rate \in {90, 100, 110, 120, 130} |-> [terminal \in {25, 30, 35, 40} |->
     IF rate <= terminal THEN 0 ELSE Dcf(base, shares, 0, rate, growth, terminal).value]]
=============================================================================
