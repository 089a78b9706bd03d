----------------------------- MODULE Allocation -----------------------------
(***************************************************************************)
(* The advisory allocation report (allocation/*.py): one evaluation of a   *)
(* portfolio against the screener's items, or the simulation of weight     *)
(* changes.  AllocationService.evaluate is one call; its stages are the    *)
(* actions, so that what a later stage makes of an earlier one is seen.    *)
(*                                                                         *)
(* Money is in thousandths of the net asset value: a weight and the value  *)
(* it stands for are the same number, and rounding is down to it.  The     *)
(* risk engine (risk.py) is the choice of the evidence it reports.         *)
(* Liquidity is in billions a day, valuation safety in percentage points.  *)
(***************************************************************************)
EXTENDS Integers, Sequences, FiniteSets, FiniteSetsExt, Functions, SequencesExt

CONSTANTS
  Symbols,
  Holdings,       \* what the portfolio may hold: functions from symbols to rows
  Universes,      \* what the screener may list: functions from symbols to items
  Changes,        \* the changes a user may simulate, <<>> for a plain report
  Assessments,       \* what the risk engine may report of a position
  None,           \* a number the source does not have
  NavUnits,       \* 1000: the net asset value
  Lot             \* shares in a board lot

Row == [quantity : Nat, price : Nat \cup {None}, value : Nat]

(* What the screener lists is what the valuation publishes: no margin of     *)
(* safety for a rejected business.  A price of zero is no price to the       *)
(* planner.                                                                  *)
AllocationConstants ==
  /\ None \notin Int
  /\ NavUnits \in Nat /\ Lot \in Nat \ {0}
  /\ \A book \in Holdings : IsFiniteSet(DOMAIN book) /\ book \in [DOMAIN book -> Row]
  /\ \A wanted \in Changes : wanted \in Seq([symbol : Symbols, target : Nat])
  /\ \A universe \in Universes : \A s \in DOMAIN universe :
       /\ universe[s].mos \in Int \cup {None} /\ universe[s].required \in Int \cup {None}
       /\ universe[s].rejects # {} \/ universe[s].tier = "LOW_QUALITY" => universe[s].mos = None
       /\ universe[s].price \in (Nat \ {0}) \cup {None}

Percent(n) == (n * NavUnits) \div 100
HardCap == Percent(20)
MaxBuyReady == 5

(* Costs, in ten thousandths of the traded value *)
Commission == 10
SellTax == 10
Slippage == 5
Whole == 10000

Lesser(a, b) == IF a < b THEN a ELSE b
Greater(a, b) == IF a > b THEN a ELSE b

InvestableTiers == {"EXCEPTIONAL", "HIGH_QUALITY", "INVESTABLE"}
TierOrder == <<"LOW_QUALITY", "WATCH", "INVESTABLE", "HIGH_QUALITY", "EXCEPTIONAL">>
FitOrder == <<"UNAVAILABLE", "WEAK", "MODERATE", "GOOD">>
Rank(order, x) == CHOOSE i \in 0 .. Len(order) : IF x \in ToSet(order) THEN i > 0 /\ order[i] = x ELSE i = 0

VARIABLES
  stage,          \* where the evaluation is
  rows,           \* position rows, after the simulated changes
  cash,           \* simulated_cash
  changes,        \* the changes of this request
  items,          \* candidate_items and, for the symbols of mapped, valuation_map
  mapped,         \* the symbols held before the simulated changes
  decisions,      \* holding_decisions
  candidates,     \* the shortlisted candidates, hydrated: the others are only
                  \* listed, as things to watch
  advice,         \* decisions on the BUY_READY candidates
  verdict         \* posture, and the least cash suggested

vars == <<stage, rows, cash, changes, items, mapped, decisions, candidates, advice, verdict>>

NoFunction == [s \in {} |-> {}]

(***************************************************************************)
(* Eligibility and sizing                                                  *)
(***************************************************************************)
(* signal_from_screener_item: a zero reads as a missing number, and the     *)
(* confidence is looked up under a name the screener's items do not have.   *)
SignalFrom(item) ==
  [rejects  |-> item.rejects,
   tier     |-> item.tier,
   safety   |-> IF item.mos \in {None, 0} \/ item.required = None
                THEN None ELSE item.mos - item.required,
   confidence |-> None]

NoSignal == [rejects |-> {}, tier |-> None, safety |-> None, confidence |-> None]

(* eligibility_from_signal *)
Eligibility(signal) ==
  LET thesis == signal.rejects \ {"DATA_INSUFFICIENT"}
      status == IF thesis # {} \/ signal.tier = "LOW_QUALITY" THEN "INELIGIBLE"
                ELSE IF signal.rejects # {} \/ signal.tier \notin InvestableTiers
                          \/ signal.safety = None THEN "WATCHLIST"
                ELSE "INVESTABLE"
  IN  [rejects |-> thesis, tier |-> signal.tier, safety |-> signal.safety, confidence |-> signal.confidence,
       status |-> status]

(* Tier of conviction: minimum, middle and maximum of the band, in percent *)
Band(signal) ==
  LET e == Eligibility(signal) IN
  IF e.status # "INVESTABLE" \/ e.safety < 0 THEN <<3, 4, 5>>
  ELSE IF e.tier \in {"EXCEPTIONAL", "HIGH_QUALITY"} THEN <<12, 15, 18>>
  ELSE <<7, 10, 12>>

RiskCap(fit) ==
  CASE fit = "GOOD" -> HardCap
    [] fit = "MODERATE" -> (HardCap * 60) \div 100
    [] fit = "WEAK" -> (HardCap * 25) \div 100
    [] OTHER -> HardCap \div 2

(* sizing_for: the band, under the cap its fit allows *)
Sizing(signal, fit) ==
  LET band == Band(signal) IN
  [min |-> Percent(band[1]),
   mid |-> Lesser(Percent(band[2]), RiskCap(fit)),
   max |-> Lesser(Percent(band[3]), RiskCap(fit))]

(***************************************************************************)
(* Portfolio fit: the verdict on what the risk engine reports of the        *)
(* portfolio with the candidate in it                                       *)
(***************************************************************************)
ProposedFit(e) ==
  IF rows = NoFunction THEN "GOOD"
  ELSE IF ~e.actionable THEN "UNAVAILABLE"
  ELSE IF e.share = "excessive" \/ e.correlation = "high" \/ e.volatility = "jumps" THEN "WEAK"
  ELSE IF e.correlation = "low" /\ (e.volatility = "falls" \/ (e.volatility = "steady" /\ e.diversified)) THEN "GOOD"
  ELSE "MODERATE"

(***************************************************************************)
(* Decisions                                                               *)
(***************************************************************************)
Decision(action, weight, target, reason) ==
  [action |-> action, weight |-> weight, target |-> target, reason |-> reason,
   min |-> None, max |-> None, confidence |-> "MEDIUM", plan |-> None]

(* _reduce_target: half of the weight, within half a percent and the cap *)
ReduceTarget(weight, limit) ==
  LET mid == Greater(NavUnits \div 200, Lesser(weight \div 2, limit))
  IN  IF mid >= weight THEN weight \div 2 ELSE mid

Reduce(weight, limit, reason) ==
  LET mid == ReduceTarget(weight, limit)
  IN  [Decision("REDUCE", weight, mid, reason) EXCEPT
         !.min = mid \div 2, !.max = (mid * 5) \div 4]

(* decide_holding: the gates in their order *)
DecideHolding(e, weight, evidence) ==
  IF e.rejects # {} THEN Decision("SELL", weight, 0, "THESIS_BROKEN")
  ELSE IF e.status = "INELIGIBLE" THEN Reduce(weight, Percent(5), "QUALITY_DETERIORATING")
  ELSE IF evidence.actionable /\ evidence.share = "excessive" THEN
       Reduce(weight, Percent(15), "RISK_CONTRIBUTION_HIGH")
  ELSE IF e.status = "WATCHLIST" \/ e.confidence = "LOW" THEN
       [Decision("HOLD", weight, weight, "REVIEW_REQUIRED") EXCEPT !.confidence = "LOW"]
  ELSE Decision("HOLD", weight, weight, "NO_SUPERIOR_REPLACEMENT")

(* validate_decision_semantics, which a decision's constructor calls *)
Meaningful(d) ==
  CASE d.action = "HOLD" -> d.weight > 0 => d.target = d.weight
    [] d.action = "REDUCE" -> d.target > 0 /\ (d.weight > 0 => d.target < d.weight)
    [] d.action = "SELL" -> d.target = 0
    [] d.action = "BUY_MORE" -> d.target > d.weight
    [] OTHER -> TRUE

(* classify_candidate: fit is None before the fit is simulated *)
ClassifyCandidate(e, liquidity, fit) ==
  IF e.rejects # {} \/ e.tier = "LOW_QUALITY" \/ liquidity < 3 THEN "REJECTED"
  ELSE IF /\ liquidity >= 10
          /\ e.status = "INVESTABLE" \/ e.tier \in InvestableTiers
          /\ e.safety # None /\ e.safety >= 0
          /\ fit \in {None, "GOOD", "MODERATE"}
          /\ e.confidence \in {"HIGH", "MEDIUM", None} THEN "BUY_READY"
  ELSE "WATCHLIST"

(* decide_candidate *)
DecideCandidate(c, cashWeight, funded) ==
  LET e == c.eligibility
      Watch(reason) == Decision("WATCH", 0, None, reason)
  IN  IF e.status # "INVESTABLE" \/ c.fit = "UNAVAILABLE" THEN Watch("DATA_INSUFFICIENT")
      ELSE IF c.fit = "WEAK" THEN Watch("PORTFOLIO_FIT_WEAK")
      ELSE IF e.safety < 0 THEN Watch("VALUATION_SAFETY_INSUFFICIENT")
      ELSE IF ~funded /\ cashWeight < c.sizing.min THEN Watch("CASH_PREFERRED")
      ELSE [Decision("BUY_MORE", 0, c.sizing.mid, "GATES_PASSED") EXCEPT
                 !.min = c.sizing.min, !.max = c.sizing.max,
                 !.confidence = IF c.fit = "GOOD" /\ e.confidence \in {"HIGH", None}
                                THEN "HIGH" ELSE "MEDIUM"]

(* rotation_gates, with holding_is_rotation_eligible *)
Replaces_AnyBetter(c, holding) ==
  /\ holding.rejects = {} /\ holding.status = "WATCHLIST"
  /\ c.eligibility.status = "INVESTABLE"
  /\ Rank(FitOrder, c.fit) >= Rank(FitOrder, "MODERATE")

Replaces(c, holding) ==
  LET e == c.eligibility IN
  /\ holding.rejects = {} /\ holding.status = "WATCHLIST"
  /\ e.status = "INVESTABLE"
  /\ Rank(TierOrder, e.tier) >= Rank(TierOrder, holding.tier)
  /\ IF holding.safety # None THEN e.safety - holding.safety >= 10 ELSE e.safety >= 0
  /\ Rank(FitOrder, c.fit) >= Rank(FitOrder, "MODERATE")

(***************************************************************************)
(* Execution plans                                                         *)
(***************************************************************************)
(* Shares bought or sold, the cash left and the position left *)
Plan(executable, change, cashAfter, quantity, price) ==
  [executable |-> executable, change |-> change, cashAfter |-> cashAfter,
   quantity |-> quantity, price |-> price]

WholeLots(value, unitCost) == (value \div (unitCost * Lot)) * Lot

Proceeds(shares, price) ==
  (shares * price * (Whole - Commission - SellTax - Slippage)) \div Whole

BuyCost(shares, price) ==
  LET gross == shares * price * (Whole + Commission + Slippage)
  IN  (gross + Whole - 1) \div Whole

BuyPlan_CostFree(d, money, quantity, price) ==
  LET shares == Lesser(WholeLots(Greater(0, d.target - quantity * price), price), WholeLots(money, price))
  IN  Plan(TRUE, shares, money - shares * price, quantity + shares, price)

BuyPlan(d, money, quantity, price) ==
  LET value     == quantity * price
      unitCost  == price * (Whole + Commission + Slippage)
      wanted    == WholeLots(Greater(0, d.target - value) * Whole, unitCost)
      afforded  == WholeLots(money * Whole, unitCost)
      allowed   == WholeLots(Greater(0, d.max - value), price)
      shares    == Lesser(wanted, Lesser(afforded, allowed))
  IN  IF shares < Lot
      THEN Plan(FALSE, 0, money, quantity, price)
      ELSE Plan(TRUE, shares, Greater(0, money - BuyCost(shares, price)), quantity + shares, price)

SellPlan(money, quantity, price) ==
  Plan(TRUE, -quantity, money + Proceeds(quantity, price), 0, price)

(* The lots above and below the target that leave a position; the one inside *)
(* the band, then the one nearest to the target, then the larger sale.       *)
ReducePlan(d, money, quantity, price) ==
  LET excess == Greater(0, quantity * price - d.target)
      below  == Lesser(quantity, WholeLots(excess, price))
      above  == Lesser(quantity, WholeLots(excess + price * Lot - 1, price))
      Left(n) == (quantity - n) * price
      Inside(n) == d.min <= Left(n) /\ Left(n) <= d.max
      Error(n) == Greater(Left(n) - d.target, d.target - Left(n))
      Better(m, n) == \/ Inside(m) /\ ~Inside(n)
                      \/ (Inside(m) <=> Inside(n)) /\ Error(m) < Error(n)
                      \/ (Inside(m) <=> Inside(n)) /\ Error(m) = Error(n) /\ m > n
      first  == {n \in {below, above} : 0 < n /\ n < quantity}
      choice == IF first # {} THEN first
                ELSE {n \in {Greater(0, Lesser(below, quantity - Lot))} : n >= Lot}
      sale   == CHOOSE n \in choice : \A m \in choice \ {n} : Better(n, m)
  IN  IF choice = {}
      THEN Plan(FALSE, 0, money, quantity, price)
      ELSE Plan(TRUE, -sale, money + Proceeds(sale, price), quantity - sale, price)

(* compute_execution_plan *)
ExecutionPlan(d, money, quantity, price) ==
  CASE d.action \in {"HOLD", "WATCH"} -> Plan(TRUE, 0, money, quantity, price)
    [] d.action \notin {"HOLD", "WATCH"} /\ price = None -> Plan(FALSE, 0, money, quantity, 0)
    [] d.action = "BUY_MORE" /\ price # None -> BuyPlan(d, money, quantity, price)
    [] d.action = "REDUCE" /\ price # None -> ReducePlan(d, money, quantity, price)
    [] d.action = "SELL" /\ price # None -> SellPlan(money, quantity, price)

(***************************************************************************)
(* The evaluation                                                          *)
(***************************************************************************)
Value(row) == row.value
Held == DOMAIN rows
SignalOf(s) == IF s \in mapped \cap DOMAIN items THEN SignalFrom(items[s]) ELSE NoSignal

Total(f, S) == MapThenSumSet(LAMBDA s : f[s], S)
CashBeside(book) == NavUnits - Total([s \in DOMAIN book |-> book[s].value], DOMAIN book)

(* _apply_changes: the value of a position moves to and from the cash; a     *)
(* change the cash cannot pay is left out.  Quantity and price stay.         *)
Change(portfolio, change) ==
  LET held == DOMAIN portfolio.rows
      old  == IF change.symbol \in held THEN portfolio.rows[change.symbol]
              ELSE [quantity |-> 0, price |-> None, value |-> 0]
      left == portfolio.cash + old.value - change.target
  IN  IF left < 0 THEN portfolio
      ELSE [rows |-> [s \in held \cup {change.symbol} |->
                        IF s = change.symbol THEN [old EXCEPT !.value = change.target]
                        ELSE portfolio.rows[s]],
            cash |-> left]

Applied(book, wanted) ==
  LET after[n \in 0 .. Len(wanted)] ==
        IF n = 0 THEN [rows |-> book, cash |-> CashBeside(book)]
        ELSE Change(after[n - 1], wanted[n])
  IN  after[Len(wanted)]

Init ==
  /\ stage = "idle"
  /\ rows = NoFunction /\ cash = 0 /\ changes = <<>> /\ items = NoFunction /\ mapped = {}
  /\ decisions = NoFunction /\ candidates = NoFunction /\ advice = NoFunction
  /\ verdict = None

(* GET allocation, POST allocation/simulate *)
Begin(book, universe, wanted) ==
  /\ stage = "idle"
  /\ CashBeside(book) >= 0
  /\ rows' = Applied(book, wanted).rows /\ cash' = Applied(book, wanted).cash
  /\ changes' = wanted
  /\ items' = universe /\ mapped' = DOMAIN book
  /\ stage' = "holdings"
  /\ UNCHANGED <<decisions, candidates, advice, verdict>>

(* The risk engine has nothing to say of a position without value, and the   *)
(* risk of the only position is its own                                      *)
Sees(reported, s) ==
  /\ rows[s].value = 0 => ~reported[s].actionable
  /\ reported[s].share = "excessive" => \E t \in Held \ {s} : rows[t].value > 0

DecideHoldings(reported) ==
  /\ stage = "holdings"
  /\ \A s \in Held : Sees(reported, s)
  /\ decisions' = [s \in Held |-> DecideHolding(Eligibility(SignalOf(s)), Value(rows[s]), reported[s])]
  /\ stage' = IF \A s \in Held : Meaningful(decisions'[s]) THEN "candidates" ELSE "failed"
  /\ UNCHANGED <<rows, cash, changes, items, mapped, candidates, advice, verdict>>

(* classify_screener_universe: the candidates that are not held; of those     *)
(* BUY_READY the safest are kept.  Quality, turnover and the symbol decide    *)
(* between equals: any choice.                                                *)
Classified(s) ==
  LET e == Eligibility(SignalFrom(items[s]))
  IN  [eligibility |-> e, fit |-> None, sizing |-> None,
       tier |-> ClassifyCandidate(e, items[s].liquidity, None)]

Shortlists ==
  LET found == {s \in DOMAIN items \ Held : Classified(s).tier = "BUY_READY"}
      Safety(s) == Classified(s).eligibility.safety
  IN  {kept \in SUBSET found :
         /\ Cardinality(kept) = Lesser(MaxBuyReady, Cardinality(found))
         /\ \A s \in kept, t \in found \ kept : Safety(s) >= Safety(t)}

(* _hydrate_candidate: the signal is built again from the eligibility, the    *)
(* fit is simulated at the middle of the band and again at the capped target  *)
Hydrated(s, atMiddle, atTarget) ==
  LET known   == Classified(s).eligibility
      signal  == [rejects |-> known.rejects, tier |-> known.tier,
                  safety |-> known.safety, confidence |-> known.confidence]
      e       == Eligibility(signal)
      sizing  == Sizing(signal, ProposedFit(atMiddle))
      fit     == ProposedFit(IF sizing.mid # Percent(Band(signal)[2]) THEN atTarget ELSE atMiddle)
  IN  [eligibility |-> e, fit |-> fit, sizing |-> sizing,
       tier |-> ClassifyCandidate(e, items[s].liquidity, fit)]

HydrateCandidates(kept, atMiddle, atTarget) ==
  /\ stage = "candidates"
  /\ candidates' = [s \in kept |-> Hydrated(s, atMiddle[s], atTarget[s])]
  /\ stage' = "rotation"
  /\ UNCHANGED <<rows, cash, changes, items, mapped, decisions, advice, verdict>>

BuyReady == {s \in DOMAIN candidates : candidates[s].tier = "BUY_READY"}

(* Rotation, then the plans of the holdings, each with all of the cash *)
Rotated(s) ==
  IF /\ decisions[s].action = "HOLD"
     /\ \E t \in BuyReady : Replaces(candidates[t], Eligibility(SignalOf(s)))
  THEN [decisions[s] EXCEPT !.action = "SELL", !.target = 0, !.reason = "SUPERIOR_REPLACEMENT"]
  ELSE decisions[s]

(* Without a quotation the price is what the value, simulated or not, implies *)
PriceOf(row) ==
  LET implied == IF row.quantity > 0 THEN row.value \div row.quantity ELSE 0
      price   == IF row.price \in {None, 0} THEN implied ELSE row.price
  IN  IF price > 0 THEN price ELSE None

RotateAndPlan ==
  /\ stage = "rotation"
  /\ decisions' = [s \in Held |->
       [Rotated(s) EXCEPT !.plan =
          ExecutionPlan(Rotated(s), cash, rows[s].quantity, PriceOf(rows[s]))]]
  /\ stage' = "advice"
  /\ UNCHANGED <<rows, cash, changes, items, mapped, candidates, advice, verdict>>

(* rotation_funded_symbols are the symbols of the holdings to be sold *)
FundedBy(given) == {s \in DOMAIN given : given[s].reason = "SUPERIOR_REPLACEMENT"}

(* The verdict: what a reduction frees counts, what a sale frees does not *)
Verdict(given, bought) ==
  LET Sum(f(_), set) == MapThenSumSet(f, set)
      reduced == {s \in DOMAIN given : given[s].action = "REDUCE"}
      leaving == \E s \in DOMAIN given : given[s].action \in {"REDUCE", "SELL"}
      buying  == {s \in DOMAIN bought : bought[s].action = "BUY_MORE"}
      freed   == Sum(LAMBDA s : Greater(0, given[s].weight - given[s].target), reduced)
      planned == Sum(LAMBDA s : bought[s].target, buying)
  IN  [posture |-> IF leaving THEN "ROTATE_OR_REVIEW"
                   ELSE IF buying # {} THEN "HOLD_SELECTIVE_BUY" ELSE "KEEP_CASH",
       least   |-> Greater(0, cash - Lesser(cash + freed, planned))]

DecideCandidates ==
  /\ stage = "advice"
  /\ advice' = [s \in BuyReady |->
       LET d == DecideCandidate(candidates[s], cash, s \in FundedBy(decisions))
       IN  [d EXCEPT !.plan = ExecutionPlan(d, cash, 0, items[s].price)]]
  /\ stage' = IF \A s \in BuyReady : Meaningful(advice'[s]) THEN "report" ELSE "failed"
  /\ verdict' = IF stage' = "report" THEN Verdict(decisions, advice') ELSE None
  /\ UNCHANGED <<rows, cash, changes, items, mapped, decisions, candidates>>

(* The report is sent, or the error of a failed evaluation (500) *)
Answer ==
  /\ stage \in {"report", "failed"}
  /\ stage' = "idle"
  /\ rows' = NoFunction /\ cash' = 0 /\ changes' = <<>> /\ items' = NoFunction /\ mapped' = {}
  /\ decisions' = NoFunction /\ candidates' = NoFunction /\ advice' = NoFunction
  /\ verdict' = None

Next ==
  \/ \E book \in Holdings, universe \in Universes, wanted \in Changes : Begin(book, universe, wanted)
  \/ \E reported \in [Held -> Assessments] : DecideHoldings(reported)
  \/ \E kept \in Shortlists : \E atMiddle, atTarget \in [kept -> Assessments] :
       HydrateCandidates(kept, atMiddle, atTarget)
  \/ RotateAndPlan
  \/ DecideCandidates
  \/ Answer

Spec == Init /\ [][Next]_vars
-----------------------------------------------------------------------------
(* What the report promises *)

BuyAdvice == {s \in DOMAIN advice : advice[s].action = "BUY_MORE"}

(* The money of a report is the value of its rows and its cash: a simulated *)
(* change moves value, it makes none.                                       *)
NavPreserved == stage # "idle" => cash = CashBeside(rows) /\ cash >= 0

(* A planned purchase is in whole lots, is paid by the cash with its costs,  *)
(* and leaves the position under the hard cap.                              *)
BuysFeasible ==
  \A s \in DOMAIN advice :
    LET p == advice[s].plan IN
    p # None /\ p.change > 0 =>
      /\ p.change % Lot = 0
      /\ BuyCost(p.change, p.price) <= cash
      /\ p.change * p.price <= Lesser(HardCap, advice[s].max)

(* A planned reduction sells something and leaves something. *)
ReductionsFeasible ==
  \A s \in DOMAIN decisions :
    LET d == decisions[s] IN
    d.action = "REDUCE" /\ d.plan # None /\ d.plan.executable =>
      0 < d.plan.quantity /\ d.plan.quantity < rows[s].quantity

PlansFeasible == NavPreserved /\ BuysFeasible /\ ReductionsFeasible

(* Missing data never sells or buys: a position without a usable valuation  *)
(* is held unless a better one that passes every gate replaces it, and no   *)
(* share is bought on rejected, missing or insufficient evidence.           *)
EvidenceBeforeAction ==
  /\ \A s \in DOMAIN decisions :
       LET e == Eligibility(SignalOf(s)) IN
       e.status = "WATCHLIST" /\ decisions[s].action = "SELL" =>
         \E t \in BuyReady : candidates[t].eligibility.safety >= 0 /\ candidates[t].eligibility.safety
                               >= (IF e.safety = None THEN 0 ELSE e.safety + 10)
  /\ \A s \in BuyAdvice :
       /\ items[s].rejects = {} /\ items[s].tier \in InvestableTiers
       /\ items[s].mos # None /\ items[s].mos >= items[s].required
       /\ s \notin Held
=============================================================================
