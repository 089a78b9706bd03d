---------------------------- MODULE QualityScore ----------------------------
(***************************************************************************)
(* What the value engine thinks of a business and asks of its price:       *)
(* dilution.py tells a split from a dilution, quality_scorer.py gives the  *)
(* hundred points and the hard rejects, margin_of_safety.py the discount   *)
(* required and the verdict.                                               *)
(*                                                                         *)
(* Rates, margins and returns are integers in thousandths.  A profile is   *)
(* a record of archetype, overlays and base (the required margin of its    *)
(* sector, in percent).                                                    *)
(***************************************************************************)
EXTENDS NumericValidation

(***************************************************************************)
(* Dilution                                                                *)
(***************************************************************************)
NoBase == [class |-> "NO_BASE", confirmed |-> None, unexplained |-> None]

(* An event that issues shares: those without a price confirm all they issue *)
Transferred(e) ==
  IF Known(e.issue) /\ Positive(e.fair) THEN Max({0, (e.ratio * (e.fair - e.issue)) \div e.fair}) ELSE e.ratio

(* _confirmed_dilution_from_events *)
ConfirmedDilution(issues, residual) ==
  Min({residual, Max({0, FoldSeq(LAMBDA e, total : total + Transferred(e), 0, issues)})})

(* classify_share_change *)
ClassifyShares(old, new, splits, issues) ==
  LET expected == FoldSeq(LAMBDA ratio, n : n + (n * ratio) \div 1000, old, splits)
      residual == Max({0, Thousandths(new - expected, old)})
      splitUp == Thousandths(expected - old, old)
      confirmed == ConfirmedDilution(issues, residual)
      unexplained == residual - confirmed
  IN  IF old <= 0 THEN NoBase
      ELSE [class |-> IF confirmed >= 200 THEN "EXCESSIVE_DILUTION"
                      ELSE IF confirmed >= 50 THEN "ECONOMIC_DILUTION"
                      ELSE IF issues # <<>> /\ confirmed >= 5 THEN "ECONOMIC_DILUTION_MINOR"
                      ELSE IF unexplained >= 200 THEN "UNEXPLAINED_SHARE_CHANGE"
                      ELSE IF splitUp > 10 /\ residual < 50 THEN "NON_ECONOMIC_SHARE_CHANGE"
                      ELSE "NO_MATERIAL_CHANGE",
            confirmed |-> IF confirmed > 5 THEN confirmed ELSE None,
            unexplained |-> IF unexplained > 5 THEN unexplained ELSE None]

(***************************************************************************)
(* Statistics of a series                                                  *)
(***************************************************************************)
SumOf(s) == FoldSeq(+, 0, s)
Level(s) == IF s = <<>> THEN 0 ELSE Median(s)

(* The coefficient of variation is below c percent.  A series that does not *)
(* vary at all has none, as far as the code can tell: 0 or 999 is 999.       *)
SteadierThan(s, c) ==
  LET total == SumOf(s)
      spread == Len(s) * SumOf([i \in DOMAIN s |-> s[i] * s[i]]) - total * total
  IN  s # <<>> /\ total # 0 /\ spread # 0 /\ spread < (((total * total) \div 100) * c * c) \div 100

Margins(h) ==
  LET rows == SelectSeq(h, LAMBDA r : Positive(r.revenue) /\ Known(r.net_profit) /\ r.net_profit # 0)
  IN  [i \in DOMAIN rows |-> Thousandths(rows[i].net_profit, rows[i].revenue)]

(* The score of the first step that a value reaches *)
Steps(v, steps, otherwise) ==
  LET reached == {i \in DOMAIN steps : v >= steps[i][1]} IN
  IF reached = {} THEN otherwise ELSE steps[Min(reached)][2]

(***************************************************************************)
(* The pillars                                                             *)
(***************************************************************************)
IsBank(p) == p.archetype = "COMMERCIAL_BANK"

Predictability(p) ==
  IF "ASSET_LIGHT_COMPOUNDER" \in p.overlays THEN 10
  ELSE IF IsBank(p) THEN 8
  ELSE IF "HIGH_CYCLICALITY" \in p.overlays THEN 4
  ELSE 7

PricingPower(m) == Max({0, Steps(Level(m), <<<<120, 4>>, <<80, 3>>, <<40, 2>>>>, 1)
                            - (IF SteadierThan(m, 45) THEN 0 ELSE 1)})

CostAdvantage(m, conversion) ==
  Min({4, Steps(Level(m), <<<<120, 3>>, <<70, 2>>>>, 1) + (IF Known(conversion) /\ conversion >= 850 THEN 1 ELSE 0)})

SwitchingCost(m) ==
  IF SteadierThan(m, 25) /\ Level(m) >= 80 THEN 4
  ELSE IF SteadierThan(m, 40) /\ Level(m) >= 60 THEN 3
  ELSE IF SteadierThan(m, 60) THEN 2
  ELSE 1

ReturnPersistence(r) ==
  IF Level(r) >= 200 /\ SteadierThan(r, 30) THEN 4 ELSE Steps(Level(r), <<<<150, 3>>, <<100, 2>>>>, 1)

Durability(h) ==
  LET profitable == Cardinality({i \in DOMAIN h : Positive(h[i].net_profit)})
  IN  IF Len(h) >= 9 /\ profitable >= Len(h) - 1 THEN 4
      ELSE Steps(Len(h), <<<<7, 3>>, <<5, 2>>, <<3, 1>>>>, 0)

(* Six parts of four, out of twenty; without margins and returns of its own *)
(* to show, a business stays under the wide moat                             *)
Moat(h, conversion) ==
  LET m == Margins(h)
      returns == Facts(h, "roe")
      revenue == Facts(h, "revenue")
      margins == IF Len(m) < 3 THEN 0 ELSE PricingPower(m) + CostAdvantage(m, conversion) + SwitchingCost(m)
      scale == IF Len(revenue) < 3 THEN 0
               ELSE Steps(Level(revenue), <<<<30000, 4>>, <<10000, 3>>, <<3000, 2>>, <<1000, 1>>>>, 0)
      persistence == IF Len(returns) < 4 THEN 0 ELSE ReturnPersistence(returns)
      raw == margins + scale + persistence + Durability(h)
      points == IF raw \in {3, 15} THEN (5 * raw) \div 6 ELSE (5 * raw + 3) \div 6   \* round: a half goes to the even
  IN  Min({20, points, IF Len(m) < 3 \/ Len(returns) < 4 THEN 11 ELSE 20})

ReturnEconomics(roe) ==
  IF roe = None \/ roe = 0 THEN 10 ELSE Steps(roe, <<<<200, 20>>, <<150, 16>>, <<100, 10>>>>, 4)

(* Years to repay the net debt out of the cash flow the engine gives *)
FinancialStrength(p, netDebt, cashFlow) ==
  IF IsBank(p) THEN 13
  ELSE IF netDebt <= 0 THEN 15
  ELSE IF cashFlow > 0 THEN IF netDebt < 2 * cashFlow THEN 14 ELSE IF netDebt < 4 * cashFlow THEN 10 ELSE 5
  ELSE 4

Insolvent(p, netDebt, cashFlow) == ~IsBank(p) /\ netDebt > 10000 /\ cashFlow <= 0

CashQuality(p, h, conversion) ==
  LET returns == Facts(h, "roe")
      recent == Facts(Window(h, Len(h) - 4, Len(h)), "operating_cash_flow")
      paid == Len(SelectSeq(recent, LAMBDA c : c > 0))
  IN
  IF IsBank(p)
  THEN IF Len(returns) >= 4 /\ Level(returns) >= 150 /\ SteadierThan(returns, 35) THEN 9
       ELSE IF Len(returns) >= 3 /\ Level(returns) >= 120 THEN 8
       ELSE 6
  ELSE IF conversion = None THEN 7
       ELSE IF conversion \in 800 .. 1400 /\ paid >= 4 THEN 10
       ELSE IF conversion \in (700 .. 799) \union (1401 .. 2000) /\ paid >= 3 THEN 8
       ELSE IF conversion > 2000 THEN IF paid >= 4 THEN 7 ELSE 5
       ELSE IF conversion \in 400 .. 699 THEN 5
       ELSE IF conversion < 400 \/ paid <= 2 THEN 2
       ELSE 5

Zero(x) == IF x = None THEN 0 ELSE x

(* What each year's retained equity added to its profit *)
IncrementalReturns(h) ==
  LET gained(i, k) == Zero(h[i][k]) - Zero(h[i - 1][k])
      material == {i \in 2 .. Len(h) : Zero(h[i - 1].equity) # 0 /\ gained(i, "equity") # 0
                     /\ Thousandths(gained(i, "equity"), h[i - 1].equity) >= 10}
      rows == Ascending(material)
  IN  [n \in DOMAIN rows |-> Max({-500, Min({1000, Thousandths(gained(rows[n], "net_profit"), gained(rows[n], "equity"))})})]

(* What three years of it added *)
CumulativeReturn(h) ==
  LET now == h[Len(h)]
      before == h[Len(h) - 3]
      retained == Zero(now.equity) - Zero(before.equity)
  IN  IF Positive(before.equity) /\ Zero(now.equity) # 0 /\ 100 * retained >= 3 * before.equity /\ retained > 0
      THEN Thousandths(Zero(now.net_profit) - Zero(before.net_profit), retained) ELSE None

Confirmed(dilution) ==
  \/ dilution.class = "EXCESSIVE_DILUTION"
  \/ /\ dilution.class \in {"ECONOMIC_DILUTION", "ECONOMIC_DILUTION_MINOR"}
     /\ Known(dilution.confirmed) /\ dilution.confirmed >= 200

(* The dilution that counts here is the part that events confirm *)
CapitalAllocation(p, h, roe, dilution) ==
  LET d == Zero(dilution.confirmed)
      returns == IncrementalReturns(h)
      median == Median(returns)
      cumulative == IF Len(h) >= 4 THEN CumulativeReturn(h) ELSE None
      diluted(limit) == d >= limit
      points ==
        IF Len(h) >= 4 /\ returns = <<>> THEN 8
        ELSE IF Len(h) >= 4 /\ Known(cumulative) /\ cumulative < -50 THEN 4
        ELSE IF Len(h) >= 4 /\ median < -50 THEN 5
        ELSE IF Len(h) >= 4 /\ (median >= 150 \/ (Known(cumulative) /\ cumulative >= 150)) /\ ~diluted(25) THEN
             IF p.archetype \in {"CONGLOMERATE", "RUBBER_PLANTATION", "HOLDING_COMPANY"} THEN 12 ELSE 15
        ELSE IF Len(h) >= 4 /\ (median >= 100 \/ (Known(roe) /\ roe >= 140 /\ ~diluted(30))) THEN 13
        ELSE IF Len(h) >= 4 THEN Steps(median, <<<<50, 10>>, <<0, 7>>>>, 4)
        ELSE IF dilution.class \notin {"UNEXPLAINED_SHARE_CHANGE", "NON_ECONOMIC_SHARE_CHANGE"} THEN
             Steps(-d, <<<<-19, 12>>, <<-79, 9>>, <<-199, 5>>>>, 2)
        ELSE 8
  IN  Min({points, IF dilution.class = "UNEXPLAINED_SHARE_CHANGE" THEN 10 ELSE 15})

(* QualityScorer.evaluate *)
Tier(total) ==
  Steps(total, <<<<90, "EXCEPTIONAL">>, <<80, "HIGH_QUALITY">>, <<70, "INVESTABLE">>, <<60, "WATCH">>>>, "LOW_QUALITY")

HardRejects(p, h, netDebt, cashFlow, dilution) ==
  {r \in {"DATA_INSUFFICIENT", "SOLVENCY_RISK", "EXCESSIVE_DILUTION"} :
     CASE r = "DATA_INSUFFICIENT" -> Len(Facts(h, "net_profit")) < 3
       [] r = "SOLVENCY_RISK" -> Insolvent(p, netDebt, cashFlow)
       [] OTHER -> Confirmed(dilution)}

Scorecard(p, h, roe, conversion, netDebt, cashFlow, dilution) ==
  LET total == Predictability(p) + Moat(h, conversion) + ReturnEconomics(roe)
               + FinancialStrength(p, netDebt, cashFlow) + CashQuality(p, h, conversion)
               + CapitalAllocation(p, h, roe, dilution) + 8
  IN  [total |-> total, tier |-> Tier(total), rejects |-> HardRejects(p, h, netDebt, cashFlow, dilution)]

(***************************************************************************)
(* The margin required                                                     *)
(***************************************************************************)
GoodTier(tier) == tier \in {"EXCEPTIONAL", "HIGH_QUALITY"}

ConfidencePenalty(level) == CASE level = "HIGH" -> 0 [] level = "MEDIUM" -> 5 [] OTHER -> 10

(* Years to repay in thousandths, or None *)
LeveragePenalty(p, insolvent, netDebt, payback) ==
  IF insolvent THEN 10
  ELSE IF Known(netDebt) /\ netDebt <= 0 THEN 0
  ELSE IF Known(payback) THEN Steps(payback, <<<<8000, 10>>, <<4000, 6>>, <<2000, 3>>>>, 0)
  ELSE IF "CAPITAL_INTENSIVE" \in p.overlays THEN 5
  ELSE 3

(* In percent *)
RequiredMargin(p, tier, level, leverage) ==
  Max({20, Min({50, p.base + (IF "HIGH_CYCLICALITY" \in p.overlays THEN 10 ELSE 0) + leverage
                    + ConfidencePenalty(level) - (IF GoodTier(tier) THEN 5 ELSE 0)})})

RejectVerdict(rejects) ==
  IF "SOLVENCY_RISK" \in rejects THEN "AVOID_SOLVENCY"
  ELSE IF rejects \intersect {"UNNORMALIZABLE_EARNINGS", "ACCOUNTING_UNRELIABLE"} # {} THEN "UNVALUABLE"
  ELSE "AVOID_QUALITY"

Verdict(rejects, tier, margin, required, level) ==
  IF rejects # {} THEN RejectVerdict(rejects)
  ELSE IF tier = "LOW_QUALITY" THEN "AVOID_QUALITY"
  ELSE IF margin >= 10 * required THEN IF level = "HIGH" /\ GoodTier(tier) THEN "HIGH_CONVICTION_VALUE" ELSE "ATTRACTIVE"
  ELSE IF margin >= -150 THEN "FAIRLY_VALUED"
  ELSE "WATCH"

(* MarginOfSafetyEngine.calculate, of a margin in thousandths *)
SafetyVerdict(p, tier, margin, level, negative, rejects, netDebt, payback) ==
  LET insolvent == "SOLVENCY_RISK" \in rejects
      required == RequiredMargin(p, tier, level, LeveragePenalty(p, insolvent, netDebt, payback))
  IN  IF negative
      THEN [required |-> 0, level |-> level, satisfied |-> FALSE,
            verdict |-> IF insolvent THEN "AVOID_SOLVENCY" ELSE "UNVALUABLE"]
      ELSE [required |-> required, level |-> level, satisfied |-> margin >= 10 * required,
            verdict |-> Verdict(rejects, tier, margin, required, level)]
=============================================================================
