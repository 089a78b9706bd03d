----------------------------- MODULE MCValuation -----------------------------
(***************************************************************************)
(* Valuation on histories that go up to 2024: steady growth, a break in the *)
(* scale of the business, a cyclical peak, a slip of units, one odd year,   *)
(* losses, and too few years; each for businesses of many archetypes.       *)
(***************************************************************************)
EXTENDS EngineInputs

Row(year, revenue, profit, equity) ==
  [year |-> year, revenue |-> revenue, net_profit |-> profit,
   operating_cash_flow |-> profit + profit \div 10, equity |-> equity, total_debt |-> equity \div 3,
   shares_outstanding |-> 500, roe |-> IF equity > 0 THEN Thousandths(profit, equity) ELSE None]

(* n years in which revenue grows from 6000 by six percent a year, profit is *)
(* a tenth or so of it and equity follows                                     *)
Steady(n) ==
  [i \in 1 .. n |->
     LET revenue == Compounded(6000, 60, i)
     IN  Row(2024 - n + i, revenue, (revenue * (118 + 2 * (i % 2))) \div 1000, (revenue * 6) \div 10)]

(* The facts k of the years before, in and after change by a factor *)
Times(x, k) == IF x = None THEN None ELSE (x * k) \div 10

Scaled(h, years, metrics, k) ==
  [i \in DOMAIN h |-> [f \in DOMAIN h[i] |->
     IF h[i].year \in years /\ f \in metrics THEN Times(h[i][f], k) ELSE h[i][f]]]

Scale == {"revenue", "net_profit", "operating_cash_flow", "equity", "total_debt"}

Broken == Scaled(Steady(8), 2020 .. 2024, Scale, 25)
Peaked == Scaled(Scaled(Steady(9), {2020}, {"net_profit", "operating_cash_flow"}, 30), {2020}, {"revenue"}, 14)
Slipped == Scaled(Scaled(Steady(8), 2017 .. 2024, Scale, 1), {2022}, {"revenue"}, 1500)
OddLatest == Scaled(Steady(8), {2024}, {"net_profit"}, 35)
OddWithin == Scaled(Steady(8), {2022}, {"net_profit"}, 4)
OddAfterLoss == [OddWithin EXCEPT ![2].net_profit = -300, ![3].net_profit = -200]
Issued == Scaled(Steady(8), {2023, 2024}, {"shares_outstanding"}, 14)
Losing == [i \in 1 .. 6 |-> [Steady(6)[i] EXCEPT !.net_profit = -400, !.operating_cash_flow = -200]]
UnderWater(h) == [i \in DOMAIN h |-> [h[i] EXCEPT !.equity = -500, !.roe = None]]
Gapped == SelectSeq(Steady(9), LAMBDA r : r.year \notin {2019, 2021})
Scarce == [i \in 1 .. 3 |-> [Steady(3)[i] EXCEPT !.operating_cash_flow = None]]

(* The debt doubles in a year without which the median margin is another *)
Indebted ==
  LET h == Steady(4)
      margin == <<100, 130, 180, 190>>
  IN  [i \in 1 .. 4 |-> [h[i] EXCEPT !.net_profit = (h[i].revenue * margin[i]) \div 1000,
                           !.operating_cash_flow = (h[i].revenue * (130 + 4 * (i % 2))) \div 1000,
                           !.total_debt = IF i = 1 THEN @ ELSE 2 * @]]

Histories ==
  {Steady(10), Steady(8), Steady(2), Broken, Peaked, Slipped, OddLatest, OddWithin, OddAfterLoss, Issued,
   Losing, UnderWater(Steady(4)), Gapped, Scarce, Indebted}

FactsOf(h) ==
  [y \in Years(h) |->
     LET r == RowsOf(h, {y})[1] IN
     [net |-> r.net_profit, operating |-> Times(r.net_profit, 13), cfo |-> r.operating_cash_flow,
      depreciation |-> r.revenue \div 25, capex |-> -(r.revenue \div 20), debt |-> r.total_debt,
      cash |-> r.revenue \div 8, shares |-> r.shares_outstanding, revenue |-> r.revenue]]

Splits == ClassifyShares(500, 1000, <<1000>>, <<>>)
Placed == ClassifyShares(500, 650, <<>>, <<[ratio |-> 300, issue |-> 10, fair |-> 40]>>)
Given == ClassifyShares(500, 650, <<>>, <<[ratio |-> 300, issue |-> None, fair |-> None]>>)
Unexplained == ClassifyShares(500, 650, <<>>, <<>>)
Quiet == ClassifyShares(500, 500, <<>>, <<>>)

Pillars(roe, dilution) == [roe |-> roe, conversion |-> 1050, dilution |-> dilution, netDebt |-> None, payback |-> None]

Company(symbol, sector, bank, lineage, history, price, dilution) ==
  [symbol |-> symbol, sector |-> sector, bank |-> bank, lineage |-> lineage,
   facts |-> FactsOf(history), history |-> history, year |-> 2024, price |-> price, shares |-> 500,
   eps |-> PerShare(Last(history).net_profit, 500), bvps |-> IF Last(history).equity > 0 THEN PerShare(Last(history).equity, 500) ELSE None,
   roe |-> None, equity |-> None, deferred |-> 900, works |-> None, fixed |-> 4000,
   concessionEnd |-> symbol = "ACV" /\ price > 20000, pillars |-> Pillars(Last(history).roe, dilution)]

Businesses ==
  {<<"FPT", {"software"}>>, <<"XYZ", {"steel"}>>, <<"XYZ", {"food"}>>, <<"ACV", {"power"}>>, <<"IDC", {"industrial park"}>>,
   <<"VEA", {"automotive"}>>, <<"PHR", {"rubber"}>>, <<"NVL", {"real estate"}>>, <<"XYZ", {"shipping"}>>,
   <<"XYZ", {"other"}>>, <<"XYZ", None>>, <<"BWE", {"water"}>>, <<"SSI", {"securities"}>>}

Meagre == [i \in 1 .. 8 |-> [Steady(8)[i] EXCEPT !.net_profit = Steady(8)[i].equity \div 150]]

(* The rows of the finance database behind histories, a provider each *)
Rows(histories) ==
  LET amount(h, year, code) == IF code = "equity" THEN RowsOf(h, {year})[1].equity ELSE FactsOf(h)[year][code]
      stored(year, code) ==
        SelectSeq([p \in DOMAIN histories |-> <<p, amount(histories[p], year, code)>>], LAMBDA r : Known(r[2]))
  IN  [year \in Years(histories[1]) |-> [code \in AllCodes |-> stored(year, code)]]

Listing(symbol, name, industry, rows) ==
  [symbol |-> symbol, name |-> name, industry |-> industry, rows |-> rows, price |-> 12000, unparsed |-> FALSE,
   dividends |-> <<[year |-> 2023, ratio |-> 400]>>]

Listings1 ==
  {Listing(b[1], {}, b[2], Rows(<<h>>)) :
     b \in {<<"FPT", {"software"}>>, <<"XYZ", {"steel"}>>, <<"XYZ", None>>, <<"SSI", {"securities"}>>, <<"MBB", {"bank"}>>},
     h \in {Steady(10), Peaked, OddLatest, Losing, Issued, Gapped, Meagre}}
  \union {Listing("FPT", {}, {"software"}, Rows(<<UnderWater(Steady(4))>>))}
  \union {Listing("XYZ", {"bank"}, None, Rows(<<Steady(8)>>)), Listing("XYZ", {}, {"food"}, Rows(<<Steady(1)>>)),
          Listing("FPT", {}, {"software"}, Rows(<<Scarce>>)),
          Listing("XYZ", {}, {"food"}, Rows(<<Steady(8), OddWithin>>)),
          Listing("XYZ", {}, {"food"}, Rows(<<Steady(8), OddLatest>>)),
          [Listing("XYZ", {}, {"food"}, Rows(<<Steady(8)>>)) EXCEPT !.unparsed = TRUE]}

Companies1 ==
  {Company(b[1], b[2], FALSE, "CROSS_SOURCE_VERIFIED", h, price, Quiet) :
     b \in Businesses, h \in Histories, price \in {12000, 30000}}
  \union {Company("MBB", {"bank"}, TRUE, lineage, h, 12000, Quiet) :
     lineage \in {"CROSS_SOURCE_VERIFIED", "SINGLE_SOURCE"}, h \in Histories}
  \union {Company("FPT", {"software"}, FALSE, lineage, h, 12000, d) :
     lineage \in {"CONFLICT", "CROSS_SOURCE_VERIFIED", "SINGLE_SOURCE", "UNKNOWN"}, h \in {Steady(8), OddWithin},
     d \in {Splits, Placed, Given, Unexplained, Quiet}}
  \union {Company("BWE", {"water"}, FALSE, "UNKNOWN", Steady(1), 12000, Quiet)}
  \union {DetailInputs(l) : l \in {m \in Listings1 : Detailed(m)}}
=============================================================================
