------------------------------ MODULE Valuation ------------------------------
(***************************************************************************)
(* ValuationEngine.evaluate (value_engine/engine.py): from the facts of a  *)
(* company to the report that the application publishes.                   *)
(*                                                                         *)
(* One evaluation takes its steps in the order of the code.  Confidence,   *)
(* model status and pill are variables of the function that one section    *)
(* after another overwrites; the margin of safety is charged in the middle *)
(* of them, and the history is validated twice, for the gate on the model  *)
(* and again for the years that the model used.                            *)
(***************************************************************************)
EXTENDS IntrinsicValue, QualityScore, Archetypes

CONSTANT Companies     \* the inputs of an evaluation

(* Both callers read the history from the database in the order of its years *)
(* and value the last of them                                                 *)
InOrder(c) ==
  /\ c.history \in Seq(ToSet(c.history))
  /\ \A i \in DOMAIN c.history : c.history[i].year \in Int
  /\ \A i \in 2 .. Len(c.history) : c.history[i - 1].year < c.history[i].year
  /\ c.history # <<>> => Last(c.history).year = c.year

ASSUME CompaniesFit == \A c \in Companies : InOrder(c)

MinConfidence == 60

VARIABLES company,     \* the inputs of this evaluation
          stage,       \* the section it has reached
          confidence, model, pill,
          value,       \* what the model computed
          card,        \* the quality score and the margin required
          report
vars == <<company, stage, confidence, model, pill, value, card, report>>

(***************************************************************************)
(* The inputs                                                              *)
(***************************************************************************)
ConfidenceOf(lineage) ==
  CASE lineage = "CONFLICT" -> "LOW" [] lineage = "CROSS_SOURCE_VERIFIED" -> "HIGH"
    [] lineage = "SINGLE_SOURCE" -> "MEDIUM" [] OTHER -> "BLOCKED"

Lowered(c) == CASE c = "HIGH" -> "MEDIUM" [] c = "MEDIUM" -> "LOW" [] OTHER -> c

(* A company of no known sector is a bank or a listed company *)
ProfileOf(c) ==
  Classify(c.symbol, IF Known(c.sector) THEN c.sector ELSE IF c.bank THEN {"bank"} ELSE {"listed company"})

IsFinancial(c) == c.bank \/ ProfileOf(c).model = Rim

ReturnOnEquity(c) ==
  IF Known(c.roe) THEN c.roe
  ELSE IF Known(c.eps) /\ Positive(c.bvps) THEN Thousandths(c.eps, c.bvps)
  ELSE None

(* The estimate from the equity takes an amount in dong for one in billions, *)
(* which is past the integers of TLC: no company of the instance needs it     *)
HasEquity(c) == Known(c.equity) /\ c.shares > 0

BookPerShare(c) ==
  IF Positive(c.bvps) THEN c.bvps
  ELSE IF HasEquity(c) THEN PerShare(c.equity, c.shares) * 1000000000
  ELSE None

NetDebt(c) == IF IsFinancial(c) THEN 0 ELSE c.facts[c.year].debt - c.facts[c.year].cash

(* The name of the model that ran *)
ModelRun(c) ==
  IF IsFinancial(c) THEN Rim
  ELSE IF ProfileOf(c).model \in {LeaseDcf, ConcessionDcf, "SOTP", "RNAV"} THEN ProfileOf(c).model
  ELSE EarningsDcf

FirstValidation(c) == Validate(c.history, IsFinancial(c), None, None)

NeedsFullCycle(p) ==
  Registry[p.archetype].policy = LongCycle \/ {"HIGH_CYCLICALITY", "COMMODITY_EXPOSED"} \subseteq p.overlays

(***************************************************************************)
(* The value                                                               *)
(***************************************************************************)
NoAnalytics == [epv |-> None, implied |-> None, grid |-> None]
NoValue == [suite |-> NoSuite, bridge |-> None, analytics |-> NoAnalytics,
            unvaluable |-> FALSE, incomplete |-> FALSE, fullCycle |-> TRUE]
NoCard == [score |-> None, margin |-> None]
NoReport == [public |-> None]

Init ==
  /\ company \in Companies
  /\ stage = "START"
  /\ confidence = ConfidenceOf(company.lineage)
  /\ model = "MODEL_VERIFIED" /\ pill = None
  /\ value = NoValue /\ card = NoCard /\ report = NoReport

(* Residual income, for banks, brokers and insurers *)
ResidualIncome ==
  /\ stage = "START" /\ IsFinancial(company)
  /\ LET book == BookPerShare(company)
         roe == ReturnOnEquity(company)
     IN  IF book = None \/ roe = None
         THEN /\ value' = [value EXCEPT !.incomplete = TRUE]
              /\ confidence' = "LOW" /\ model' = "MODEL_INCOMPLETE" /\ pill' = "MODEL_INCOMPLETE"
         ELSE /\ value' = [value EXCEPT !.suite = BankSuite(book, roe, company.shares, company.price)]
              /\ UNCHANGED <<confidence, model, pill>>
  /\ stage' = "VALUED"
  /\ UNCHANGED <<company, card, report>>

(* VALUATION_FACTS_INCOMPLETE *)
Refuse ==
  /\ stage = "START" /\ ~IsFinancial(company)
  /\ company.year \in DOMAIN company.facts => ~Complete(company.facts[company.year], EngineItems)
  /\ stage' = "REFUSED"
  /\ UNCHANGED <<company, confidence, model, pill, value, card, report>>

(* The router: the model recommended for the archetype *)
SuiteOf(c, base, g) ==
  LET f == c.facts[c.year]
      debt == NetDebt(c)
      recommended == ProfileOf(c).model
      share(amount, part) == (Zero(amount) * part) \div 100
  IN  CASE recommended = LeaseDcf -> LeaseSuite(base, share(c.deferred, 35), share(c.works, 20), debt, c.shares, c.price)
        [] recommended = ConcessionDcf -> ConcessionSuite(base, debt, c.shares, c.price)
        [] recommended = "SOTP" -> PartsSuite(c.symbol, base, Zero(c.fixed), debt, c.shares, c.price)
        [] OTHER -> DcfSuite(base, g, c.shares, c.price)

(* Where the terminal value is most of the value, and only there, the value *)
(* is looked at in other ways                                                *)
AnalyticsOf(c, base, g) ==
  [epv |-> EarningsPower(c.facts[c.year].operating, NetDebt(c), c.shares),
   implied |-> ImpliedGrowth(base, c.shares, c.price), grid |-> Sensitivity(base, c.shares, g.base)]

(* The owner earnings are more than nothing, or the model does without them *)
Hopeless(c, bridge) == bridge.value <= 0 /\ ProfileOf(c).model \notin {"SOTP", "RNAV", Rim}

(* More than three quarters of the value is terminal *)
FarOff(suite) == Known(suite.base.terminal) /\ suite.base.terminal > 750

WholeCycle(bridge) == bridge.method = "MID_CYCLE_MEDIAN" /\ Cardinality(bridge.years) >= 7

OwnerEarningsValue ==
  /\ stage = "START" /\ ~IsFinancial(company)
  /\ company.year \in DOMAIN company.facts /\ Complete(company.facts[company.year], EngineItems)
  /\ \E p \in {ProfileOf(company)} :
     LET full == NeedsFullCycle(p)
         cyclical == "HIGH_CYCLICALITY" \in p.overlays
     IN  \E bridge \in {CycleNormalized(company.facts, company.year, IF cyclical \/ full THEN 10 ELSE 5,
                                         FirstValidation(company).latest)},
            g \in {Growth(company.history, ReturnOnEquity(company), cyclical)} :
         \E suite \in {IF Hopeless(company, bridge) THEN NoSuite ELSE SuiteOf(company, bridge.value, g)} :
           LET blocked == IF Hopeless(company, bridge) THEN "BLOCKED" ELSE confidence
               grown == IF g.downgrade THEN Lowered(blocked) ELSE blocked
           IN  /\ value' = [suite |-> suite, bridge |-> bridge, unvaluable |-> Hopeless(company, bridge),
                            incomplete |-> FALSE,
                            analytics |-> IF FarOff(suite) THEN AnalyticsOf(company, bridge.value, g) ELSE NoAnalytics,
                            fullCycle |-> full => WholeCycle(bridge)]
               /\ confidence' = IF FarOff(suite) THEN Lowered(grown) ELSE grown
  /\ stage' = "VALUED"
  /\ UNCHANGED <<company, model, pill, card, report>>

(***************************************************************************)
(* The judgement                                                           *)
(***************************************************************************)
Negative(suite) == suite.base.equity <= 0 \/ (Known(suite.base.value) /\ suite.base.value <= 0)

ExplainedConfidence(c, dilution) ==
  IF dilution.class # "UNEXPLAINED_SHARE_CHANGE" THEN c
  ELSE IF Zero(dilution.unexplained) >= 200 THEN "LOW"
  ELSE IF c = "HIGH" THEN "MEDIUM"
  ELSE c

(* The last cash flow that is not zero, when it is positive, or a tenth of *)
(* the market value                                                         *)
CashFlowProxy(c) ==
  LET flows == SelectSeq(Facts(c.history, "operating_cash_flow"), LAMBDA x : x # 0)
  IN  IF flows # <<>> /\ Last(flows) > 0 THEN Last(flows) ELSE (c.price * c.shares) \div 10000

ScoreOf(c) ==
  LET roe == ReturnOnEquity(c) IN
  Scorecard(ProfileOf(c), c.history,
            IF Known(c.pillars.roe) /\ c.pillars.roe # 0 THEN c.pillars.roe ELSE IF roe = 0 THEN None ELSE roe,
            IF c.bank THEN None ELSE c.pillars.conversion, NetDebt(c), CashFlowProxy(c), c.pillars.dilution)

MarginOf(c, score, suite, level) ==
  SafetyVerdict(ProfileOf(c), score.tier, Zero(suite.base.safety), level, Negative(suite), score.rejects,
                IF Known(c.pillars.netDebt) THEN c.pillars.netDebt ELSE NetDebt(c), c.pillars.payback)

Judge ==
  /\ stage = "VALUED"
  /\ LET level == ExplainedConfidence(confidence, company.pillars.dilution) IN
     \E score \in {ScoreOf(company)} :
     \E margin \in {MarginOf(company, score, value.suite, level)} :
         /\ confidence' = level
         /\ card' = [score |-> score, margin |-> margin]
         /\ pill' = IF value.incomplete THEN "MODEL_INCOMPLETE" ELSE margin.verdict
  /\ stage' = "JUDGED"
  /\ UNCHANGED <<company, model, value, report>>

(***************************************************************************)
(* The gates on the model                                                  *)
(***************************************************************************)
Standing(c, m, p) == [confidence |-> c, model |-> m, pill |-> p]
Fail(status, p) == Standing("LOW", status, p)

RegistryGate(c, s) ==
  IF MayValue(ModelRun(c), ProfileOf(c).archetype) THEN s ELSE Fail("MODEL_INCOMPLETE", "MODEL_INCOMPLETE")

ArchetypeGate(c, s) ==
  CASE ProfileOf(c).archetype = "ARCHETYPE_UNKNOWN" -> Fail("ARCHETYPE_UNKNOWN", "ARCHETYPE_UNSUPPORTED")
    [] ProfileOf(c).archetype = "GENERIC_ENTERPRISE" -> Fail("FALLBACK_MODEL_ONLY", "FALLBACK_MODEL_ONLY")
    [] OTHER -> s

(* No evaluation has the project breakdown of an RNAV *)
ProjectGate(c, s) == IF ProfileOf(c).model = "RNAV" THEN Fail("MODEL_INCOMPLETE", "MODEL_INCOMPLETE") ELSE s

FullCycleGate_OnlyDoubts(c, v, s) ==
  IF s.model = "MODEL_VERIFIED" /\ ~c.bank /\ ~v.fullCycle THEN [s EXCEPT !.confidence = "LOW"] ELSE s

FullCycleGate(c, v, s) ==
  IF s.model = "MODEL_VERIFIED" /\ ~c.bank /\ ~v.fullCycle
  THEN Fail(IF v.bridge.method = "MID_CYCLE_MEDIAN" THEN "MODEL_PARTIAL" ELSE "MODEL_INCOMPLETE", "MODEL_INCOMPLETE")
  ELSE s

(* Nor the parameters of a lease *)
LeaseGate(c, s) ==
  IF ProfileOf(c).archetype = "INDUSTRIAL_REAL_ESTATE" \/ ModelRun(c) = LeaseDcf
  THEN Fail("MODEL_INCOMPLETE", "MODEL_INCOMPLETE") ELSE s

(* The life of an airport concession is an assumption *)
AirportGate(c, s) ==
  IF s.model = "MODEL_VERIFIED" /\ ModelRun(c) = ConcessionDcf
     /\ ProfileOf(c).archetype = "AIRPORT_INFRASTRUCTURE" /\ ~c.concessionEnd
  THEN [s EXCEPT !.model = "MODEL_ESTIMATED"] ELSE s

EarningsGate(v, s) ==
  IF v.unvaluable THEN [s EXCEPT !.model = "MODEL_UNVALUABLE", !.pill = "UNVALUABLE"] ELSE s

(* The parts of a sum of parts always have a value and a trace *)
Gated(c, v, s) ==
  EarningsGate(v, AirportGate(c, LeaseGate(c, FullCycleGate(c, v, ProjectGate(c, ArchetypeGate(c, RegistryGate(c, s)))))))

GateModel ==
  /\ stage = "JUDGED"
  /\ \E s \in {Gated(company, value, Standing(confidence, model, pill))} :
       confidence' = s.confidence /\ model' = s.model /\ pill' = s.pill
  /\ stage' = "GATED"
  /\ UNCHANGED <<company, value, card, report>>

(***************************************************************************)
(* Publication                                                             *)
(***************************************************************************)
Blocked(score) == score.rejects # {} \/ score.tier = "LOW_QUALITY"
InputYears(c, v) ==
  IF v.bridge = None \/ v.bridge.method = "LATEST_FY" THEN {c.year} ELSE v.bridge.years

UnresolvedYears_Latest(validation, inputs) ==
  {y \in validation.unresolved : validation.resolutions[y].relevance \in {"VALUATION_INPUT", "PER_SHARE_INPUT"}}

(* The years whose unresolved facts reach the value *)
UnresolvedYears(validation, inputs) ==
  {y \in validation.unresolved :
     y \in inputs \/ validation.resolutions[y].relevance \in {"VALUATION_INPUT", "PER_SHARE_INPUT"}}

(* What the model status and the pill become when the validation is not enough *)
Doubted(status) == IF status = "MODEL_VERIFIED" THEN "MODEL_PARTIAL" ELSE status
Withheld(p) == IF p \in {"MODEL_INCOMPLETE", "UNVALUABLE"} THEN p ELSE "MODEL_INCOMPLETE"

(* The text of a bank's report quotes the book value of a share, and the     *)
(* evaluation breaks off when there is none                                   *)
Unquotable(c) == c.bank /\ c.bvps = None /\ ~HasEquity(c)

BreakOff ==
  /\ stage = "GATED" /\ Unquotable(company)
  /\ stage' = "BROKEN"
  /\ UNCHANGED <<company, confidence, model, pill, value, card, report>>

Publish ==
  /\ stage = "GATED" /\ ~Unquotable(company)
  /\ \E first \in {FirstValidation(company)}, inputs \in {InputYears(company, value)} :
     \E second \in {Validate(company.history, IsFinancial(company), inputs, first.latest)} :
     LET weak == first.confidence < MinConfidence
         unresolved == UnresolvedYears(second, inputs)
         status == IF weak \/ unresolved # {} THEN Doubted(model) ELSE model
         public == model = "MODEL_VERIFIED" /\ ~Blocked(card.score) /\ ~weak /\ unresolved = {}
         shown(x) == IF public THEN x ELSE None
     IN  /\ model' = status
         /\ pill' = IF unresolved # {} THEN "MODEL_INCOMPLETE" ELSE IF weak THEN Withheld(pill) ELSE pill
         /\ confidence' = IF unresolved # {} THEN "LOW" ELSE confidence
         /\ report' = [public |-> public, base |-> shown(value.suite.base.value), bear |-> shown(value.suite.bear.value),
                       bull |-> shown(value.suite.bull.value), epv |-> shown(value.analytics.epv),
                       margin |-> shown(IF Negative(value.suite) THEN None ELSE Zero(value.suite.base.safety)),
                       inputs |-> inputs, validation |-> second]
  /\ stage' = "REPORTED"
  /\ UNCHANGED <<company, value, card>>

Done == stage \in {"REPORTED", "REFUSED", "BROKEN"} /\ UNCHANGED vars

Next == ResidualIncome \/ Refuse \/ OwnerEarningsValue \/ Judge \/ GateModel \/ BreakOff \/ Publish \/ Done

Spec == Init /\ [][Next]_vars

(***************************************************************************)
(* Properties                                                              *)
(***************************************************************************)
Reported == stage = "REPORTED"
IsPublic == Reported /\ report.public

(* What the three of them may say *)
Levels == {"HIGH", "MEDIUM", "LOW", "BLOCKED"}
Statuses ==
  {"MODEL_VERIFIED", "MODEL_PARTIAL", "MODEL_ESTIMATED", "MODEL_INCOMPLETE", "MODEL_UNVALUABLE",
   "FALLBACK_MODEL_ONLY", "ARCHETYPE_UNKNOWN"}
Pills ==
  {"AVOID_SOLVENCY", "AVOID_QUALITY", "UNVALUABLE", "HIGH_CONVICTION_VALUE", "ATTRACTIVE", "FAIRLY_VALUED", "WATCH",
   "MODEL_INCOMPLETE", "ARCHETYPE_UNSUPPORTED", "FALLBACK_MODEL_ONLY"}

(* The variables hold what the code can leave in them, and the regimes of a *)
(* history cut its years into intervals without a gap (regime_detector.py). *)
RegimesCover(h, regimes) ==
  regimes # <<>> =>
    /\ regimes[1].first = h[1].year /\ Last(regimes).last = Last(h).year
    /\ \A n \in DOMAIN regimes : regimes[n].first <= regimes[n].last
    /\ \A n \in 2 .. Len(regimes) : regimes[n].first = regimes[n - 1].last + 1

ValuationInv ==
  /\ confidence \in Levels /\ model \in Statuses
  /\ stage \in {"JUDGED", "GATED", "REPORTED"} => pill \in Pills /\ card.score.total \in 0 .. 100
  /\ stage = "START" => RegimesCover(company.history, FirstValidation(company).regimes)

(* The cycle that a value is normalised over is taken from the years that    *)
(* compare with the present, the latest regime, and never from before a      *)
(* structural break (engine.py:472-480, the included_years).                 *)
ComparableYears ==
  Known(value.bridge) /\ Known(FirstValidation(company).latest) =>
    value.bridge.years \subseteq FirstValidation(company).latest

(* A value is public only for a business that passes: no hard reject and no *)
(* low quality tier, a model that the registry allows, a full cycle behind  *)
(* it where one is needed, and no unresolved year among those it used       *)
(* (engine.py:868-1216).                                                    *)
PublishedIsSound ==
  IsPublic =>
    /\ model = "MODEL_VERIFIED"
    /\ card.score.rejects = {} /\ card.score.tier # "LOW_QUALITY"
    /\ MayValue(ModelRun(company), ProfileOf(company).archetype) /\ value.fullCycle
    /\ \A y \in report.inputs \intersect DOMAIN report.validation.resolutions :
         report.validation.resolutions[y].class # "UNRESOLVED_MATERIAL"

(* The gates that follow the margin of safety lower the confidence that the  *)
(* margin was charged for.  A report that shows a value shows the margin of  *)
(* the confidence it publishes (engine.py:851-862, 869-1211).                *)
MarginCharged ==
  IsPublic => card.margin = MarginOf(company, card.score, value.suite, confidence)

(* A pill that says to buy stands on a value that is public, or on the       *)
(* estimate of an airport (engine.py:955-969, 1156-1216).                    *)
BuyNeedsValue ==
  Reported /\ pill \in {"ATTRACTIVE", "HIGH_CONVICTION_VALUE"} => IsPublic \/ model = "MODEL_ESTIMATED"
=============================================================================
