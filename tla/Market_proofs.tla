---------------------------- MODULE Market_proofs ----------------------------
(***************************************************************************)
(* Theorems about what is computed on the market, for any companies,       *)
(* holdings and universes.  Each part has an invariant of its own, which   *)
(* every step of the part keeps and no step of another part can disturb.   *)
(***************************************************************************)
EXTENDS Market, FiniteSetTheorems, SequenceTheorems, WellFoundedInduction, TLAPS



(***************************************************************************)
(* Publication: the gates only ever take a standing away                   *)
(***************************************************************************)
Buying == {"ATTRACTIVE", "HIGH_CONVICTION_VALUE"}

(* A gate leaves a verified standing as it found it, and a pill that says to *)
(* buy only where it was and on a model that was verified or is estimated     *)
IsStanding(t) == t \in [confidence : {t.confidence}, model : {t.model}, pill : {t.pill}]

Passes(s, t) ==
  /\ IsStanding(t)
  /\ t.model = "MODEL_VERIFIED" => t = s
  /\ t.pill \in Buying => t.pill = s.pill /\ t.model \in {s.model, "MODEL_ESTIMATED"}

LEMMA PassesOn ==
  ASSUME NEW s, NEW t, NEW u, Passes(s, t), Passes(t, u)
  PROVE  Passes(s, u)
BY DEF Passes

LEMMA GatesPass ==
  ASSUME NEW c, NEW v, NEW s, IsStanding(s)
  PROVE  /\ Passes(s, RegistryGate(c, s)) /\ Passes(s, ArchetypeGate(c, s)) /\ Passes(s, ProjectGate(c, s))
         /\ Passes(s, FullCycleGate(c, v, s)) /\ Passes(s, LeaseGate(c, s)) /\ Passes(s, AirportGate(c, s))
         /\ Passes(s, EarningsGate(v, s))
<1>1. Passes(s, s)
  BY DEF Passes
<1>2. ASSUME NEW m, NEW p, m # "MODEL_VERIFIED", p \notin Buying
      PROVE  Passes(s, Fail(m, p))
  BY <1>2 DEF Passes, Fail, Standing, IsStanding
<1>3. ASSUME NEW m, m # "MODEL_VERIFIED", NEW p, (p = s.pill /\ m = "MODEL_ESTIMATED") \/ p \notin Buying
      PROVE  Passes(s, [s EXCEPT !.model = m, !.pill = p])
  <2> DEFINE t == [s EXCEPT !.model = m, !.pill = p]
  <2>1. t \in [confidence : {s.confidence}, model : {m}, pill : {p}]
    BY DEF IsStanding
  <2> HIDE DEF t
  <2>2. t.model = m /\ t.pill = p /\ IsStanding(t)
    BY <2>1 DEF IsStanding
  <2>3. Passes(s, t)
    BY <1>3, <2>2 DEF Passes
  <2> QED BY <2>3 DEF t
<1>4. [s EXCEPT !.model = "MODEL_ESTIMATED"] = [s EXCEPT !.model = "MODEL_ESTIMATED", !.pill = s.pill]
  BY DEF IsStanding
<1>5. "UNVALUABLE" \notin Buying /\ "MODEL_INCOMPLETE" \notin Buying /\ "ARCHETYPE_UNSUPPORTED" \notin Buying
      /\ "FALLBACK_MODEL_ONLY" \notin Buying
  BY DEF Buying
<1>6. Passes(s, RegistryGate(c, s)) /\ Passes(s, ProjectGate(c, s)) /\ Passes(s, LeaseGate(c, s))
  BY <1>1, <1>2, <1>5 DEF RegistryGate, ProjectGate, LeaseGate
<1>7. Passes(s, ArchetypeGate(c, s))
  BY <1>1, <1>2, <1>5 DEF ArchetypeGate
<1>8. Passes(s, FullCycleGate(c, v, s))
  <2>1. Passes(s, Fail("MODEL_PARTIAL", "MODEL_INCOMPLETE")) /\ Passes(s, Fail("MODEL_INCOMPLETE", "MODEL_INCOMPLETE"))
    BY <1>2, <1>5
  <2> QED BY <1>1, <2>1 DEF FullCycleGate
<1>9. Passes(s, AirportGate(c, s))
  BY <1>1, <1>3, <1>4 DEF AirportGate
<1>10. Passes(s, EarningsGate(v, s))
  BY <1>1, <1>3, <1>5 DEF EarningsGate
<1> QED BY <1>6, <1>7, <1>8, <1>9, <1>10

LEMMA GatedFacts ==
  ASSUME NEW c, NEW v, NEW a, NEW m, NEW p
  PROVE  LET s == Standing(a, m, p)
             t == Gated(c, v, s)
         IN  /\ Passes(s, t)
             /\ t.model = "MODEL_VERIFIED" =>
                  MayValue(ModelRun(c), ProfileOf(c).archetype) /\ (c.bank \/ v.fullCycle)
<1> DEFINE s0 == Standing(a, m, p)
           s1 == RegistryGate(c, s0)
           s2 == ArchetypeGate(c, s1)
           s3 == ProjectGate(c, s2)
           s4 == FullCycleGate(c, v, s3)
           s5 == LeaseGate(c, s4)
           s6 == AirportGate(c, s5)
           s7 == EarningsGate(v, s6)
<1>0. Gated(c, v, s0) = s7
  BY DEF Gated
<1>a. IsStanding(s0)
  BY DEF Standing, IsStanding
<1>b. s1.model = "MODEL_VERIFIED" => MayValue(ModelRun(c), ProfileOf(c).archetype)
  <2>1. Fail("MODEL_INCOMPLETE", "MODEL_INCOMPLETE").model # "MODEL_VERIFIED"
    BY DEF Fail, Standing
  <2> QED BY <2>1 DEF RegistryGate
<1>c. s4.model = "MODEL_VERIFIED" => c.bank \/ v.fullCycle
  <2> HIDE DEF s3
  <2>1. \A x : Fail(x, "MODEL_INCOMPLETE").model = x
    BY DEF Fail, Standing
  <2>2. CASE s3.model = "MODEL_VERIFIED" /\ ~c.bank /\ ~v.fullCycle
    <3>1. s4 = Fail(IF v.bridge.method = "MID_CYCLE_MEDIAN" THEN "MODEL_PARTIAL" ELSE "MODEL_INCOMPLETE", "MODEL_INCOMPLETE")
      BY <2>2 DEF FullCycleGate
    <3> HIDE DEF s4
    <3> QED BY <2>1, <3>1
  <2>3. CASE ~(s3.model = "MODEL_VERIFIED" /\ ~c.bank /\ ~v.fullCycle)
    <3>1. s4 = s3
      BY <2>3 DEF FullCycleGate
    <3> HIDE DEF s4
    <3> QED BY <2>3, <3>1
  <2> QED BY <2>2, <2>3
<1>1. Passes(s0, s1) BY <1>a, GatesPass
<1> HIDE DEF s0, s1
<1>2. Passes(s1, s2) BY <1>1, GatesPass DEF Passes
<1> HIDE DEF s2
<1>3. Passes(s2, s3) BY <1>2, GatesPass DEF Passes
<1> HIDE DEF s3
<1>4. Passes(s3, s4) BY <1>3, GatesPass DEF Passes
<1> HIDE DEF s4
<1>5. Passes(s4, s5) BY <1>4, GatesPass DEF Passes
<1> HIDE DEF s5
<1>6. Passes(s5, s6) BY <1>5, GatesPass DEF Passes
<1> HIDE DEF s6
<1>7. Passes(s6, s7) BY <1>6, GatesPass DEF Passes
<1> HIDE DEF s7
<1>8. Passes(s0, s7)
  BY <1>1, <1>2, <1>3, <1>4, <1>5, <1>6, <1>7, PassesOn
<1>9. s7.model = "MODEL_VERIFIED" => s1.model = "MODEL_VERIFIED" /\ s4.model = "MODEL_VERIFIED"
  BY <1>2, <1>3, <1>4, <1>5, <1>6, <1>7 DEF Passes
<1> QED BY <1>0, <1>8, <1>9, <1>b, <1>c DEF s0

(***************************************************************************)
(* The invariant: what each section may rely on                            *)
(***************************************************************************)
Charged == card.margin = MarginOf(company, card.score, value.suite, confidence)

(* A value was computed for the model that is verified *)
ValuedInv == stage = "VALUED" => model = "MODEL_VERIFIED" \/ value.incomplete

(* A bank is not asked for a full cycle *)
BankInv == stage # "START" /\ company.bank => value.fullCycle

JudgedInv ==
  stage = "JUDGED" =>
    Charged /\ (pill \in Buying => model = "MODEL_VERIFIED" /\ ~Blocked(card.score))

GatedInv ==
  stage = "GATED" =>
    /\ pill \in Buying => model \in {"MODEL_VERIFIED", "MODEL_ESTIMATED"} /\ ~Blocked(card.score)
    /\ model = "MODEL_VERIFIED" =>
         Charged /\ MayValue(ModelRun(company), ProfileOf(company).archetype) /\ value.fullCycle

Stages == {"START", "VALUED", "JUDGED", "GATED", "REPORTED", "REFUSED", "BROKEN"}

PublicationInv ==
  /\ stage \in Stages
  /\ stage = "START" => model = "MODEL_VERIFIED" /\ value = NoValue
  /\ ValuedInv /\ BankInv /\ JudgedInv /\ GatedInv
  /\ PublishedIsSound /\ MarginCharged /\ BuyNeedsValue

(* A verdict to buy is of a business that nothing blocks *)
LEMMA VerdictFacts ==
  ASSUME NEW c, NEW score, NEW suite, NEW level, MarginOf(c, score, suite, level).verdict \in Buying
  PROVE  ~Blocked(score)
<1> DEFINE margin == Zero(suite.base.safety)
           debt == IF Known(c.pillars.netDebt) THEN c.pillars.netDebt ELSE NetDebt(c)
           required == RequiredMargin(ProfileOf(c), score.tier, level,
                         LeveragePenalty(ProfileOf(c), "SOLVENCY_RISK" \in score.rejects, debt, c.pillars.payback))
<1>1. MarginOf(c, score, suite, level).verdict
        = IF Negative(suite) THEN IF "SOLVENCY_RISK" \in score.rejects THEN "AVOID_SOLVENCY" ELSE "UNVALUABLE"
          ELSE Verdict(score.rejects, score.tier, margin, required, level)
  BY DEF MarginOf, SafetyVerdict
<1> HIDE DEF margin, debt, required
<1>2. Verdict(score.rejects, score.tier, margin, required, level) \in Buying
  BY <1>1 DEF Buying
<1>3. score.rejects = {} /\ score.tier # "LOW_QUALITY"
  BY <1>2 DEF Verdict, RejectVerdict, Buying
<1> QED BY <1>3 DEF Blocked

(* What is unresolved among the years of the inputs is withheld *)
LEMMA UnresolvedFacts ==
  ASSUME NEW h, NEW financial, NEW inputs, NEW latest,
         UnresolvedYears(Validate(h, financial, inputs, latest), inputs) = {}
  PROVE  LET v == Validate(h, financial, inputs, latest) IN
         \A y \in inputs \intersect DOMAIN v.resolutions : v.resolutions[y].class # "UNRESOLVED_MATERIAL"
<1> DEFINE v == Validate(h, financial, inputs, latest)
<1>1. ASSUME NEW y \in DOMAIN v.resolutions, v.resolutions[y].class = "UNRESOLVED_MATERIAL"
      PROVE  y \in v.unresolved
  <2>1. CASE Len(h) < 2
    <3>1. v = Insufficient
      BY <2>1 DEF Validate
    <3>2. DOMAIN v.resolutions = {}
      BY <3>1 DEF Insufficient, NoResolutions
    <3> QED BY <3>2
  <2>2. CASE ~(Len(h) < 2)
    <3>1. \A a, z, e, r, n, g : LET w == Gate(a, z, e, r, n, g) IN
            w.unresolved = {x \in DOMAIN w.resolutions : w.resolutions[x].class = "UNRESOLVED_MATERIAL"}
      <4>1. \A a, z, r, q : LET w == Findings(a, z, r, q) IN
              w.unresolved = {x \in DOMAIN w.resolutions : w.resolutions[x].class = "UNRESOLVED_MATERIAL"}
        BY DEF Findings
      <4> QED BY <4>1 DEF Gate
    <3>2. v.unresolved = {x \in DOMAIN v.resolutions : v.resolutions[x].class = "UNRESOLVED_MATERIAL"}
      BY <2>2, <3>1 DEF Validate
    <3> QED BY <1>1, <3>2
  <2> QED BY <2>1, <2>2
<1>2. \A y \in v.unresolved : y \notin inputs
  BY DEF UnresolvedYears
<1> QED BY <1>1, <1>2

LEMMA PublicationStart == Init => PublicationInv
<1> SUFFICES ASSUME Init PROVE PublicationInv
  OBVIOUS
<1>1. stage = "START" /\ model = "MODEL_VERIFIED" /\ value = NoValue
  BY DEF Init
<1> QED BY <1>1 DEF PublicationInv, Stages, ValuedInv, BankInv, JudgedInv, GatedInv, PublishedIsSound, MarginCharged,
             BuyNeedsValue, IsPublic, Reported

LEMMA PublicationStep == PublicationInv /\ [Next]_vars => PublicationInv'
<1> SUFFICES ASSUME PublicationInv, [Next]_vars PROVE PublicationInv'
  OBVIOUS
<1> DEFINE Parts == <<ValuedInv, BankInv, JudgedInv, GatedInv, PublishedIsSound, MarginCharged, BuyNeedsValue>>
<1>1. CASE ResidualIncome
  <2>1. stage = "START" /\ stage' = "VALUED" /\ company' = company /\ value = NoValue /\ model = "MODEL_VERIFIED"
    BY <1>1 DEF ResidualIncome, PublicationInv
  <2>2. value'.fullCycle /\ (model' = "MODEL_VERIFIED" \/ value'.incomplete)
    <3> DEFINE book == BookPerShare(company)
               roe == ReturnOnEquity(company)
    <3>1. CASE book = None \/ roe = None
      <4>1. value' = [value EXCEPT !.incomplete = TRUE]
        BY <1>1, <3>1 DEF ResidualIncome
      <4> QED BY <2>1, <4>1 DEF NoValue
    <3>2. CASE ~(book = None \/ roe = None)
      <4>1. value' = [value EXCEPT !.suite = BankSuite(book, roe, company.shares, company.price)] /\ model' = model
        BY <1>1, <3>2 DEF ResidualIncome
      <4> QED BY <2>1, <4>1 DEF NoValue
    <3> QED BY <3>1, <3>2
  <2> QED BY <2>1, <2>2 DEF PublicationInv, Stages, ValuedInv, BankInv, JudgedInv, GatedInv, PublishedIsSound, MarginCharged,
             BuyNeedsValue, IsPublic, Reported
<1>2. CASE Refuse
  <2>1. stage' = "REFUSED" /\ company' = company /\ ~company.bank
    BY <1>2 DEF Refuse, IsFinancial
  <2> QED BY <2>1 DEF PublicationInv, Stages, ValuedInv, BankInv, JudgedInv, GatedInv, PublishedIsSound, MarginCharged,
             BuyNeedsValue, IsPublic, Reported
<1>3. CASE OwnerEarningsValue
  <2>1. stage = "START" /\ stage' = "VALUED" /\ company' = company /\ ~company.bank /\ model' = "MODEL_VERIFIED"
    BY <1>3 DEF OwnerEarningsValue, IsFinancial, PublicationInv
  <2> QED BY <2>1 DEF PublicationInv, Stages, ValuedInv, BankInv, JudgedInv, GatedInv, PublishedIsSound, MarginCharged,
             BuyNeedsValue, IsPublic, Reported
<1>4. CASE Judge
  <2>1. /\ stage = "VALUED" /\ stage' = "JUDGED" /\ UNCHANGED <<company, model, value, report>>
        /\ card'.margin = MarginOf(company, card'.score, value.suite, confidence')
        /\ pill' = IF value.incomplete THEN "MODEL_INCOMPLETE" ELSE card'.margin.verdict
    BY <1>4 DEF Judge
  <2>2. Charged'
    BY <2>1 DEF Charged
  <2>3. pill' \in Buying => model' = "MODEL_VERIFIED" /\ ~Blocked(card'.score)
    BY <2>1, VerdictFacts DEF PublicationInv, ValuedInv, Buying
  <2>4. BankInv'
    BY <2>1 DEF PublicationInv, BankInv
  <2> QED BY <2>1, <2>2, <2>3, <2>4 DEF PublicationInv, Stages, ValuedInv, JudgedInv, GatedInv, PublishedIsSound,
             MarginCharged, BuyNeedsValue, IsPublic, Reported
<1>5. CASE GateModel
  <2> DEFINE s == Standing(confidence, model, pill)
             t == Gated(company, value, s)
  <2>1. /\ stage = "JUDGED" /\ stage' = "GATED" /\ UNCHANGED <<company, value, card, report>>
        /\ confidence' = t.confidence /\ model' = t.model /\ pill' = t.pill
    BY <1>5 DEF GateModel
  <2>2. Passes(s, t) /\ (t.model = "MODEL_VERIFIED" =>
          MayValue(ModelRun(company), ProfileOf(company).archetype) /\ (company.bank \/ value.fullCycle))
    BY GatedFacts
  <2>3. s.confidence = confidence /\ s.model = model /\ s.pill = pill
    BY DEF Standing
  <2> HIDE DEF s, t
  <2>4. pill' \in Buying => model' \in {"MODEL_VERIFIED", "MODEL_ESTIMATED"} /\ ~Blocked(card'.score)
    BY <2>1, <2>2, <2>3 DEF Passes, PublicationInv, JudgedInv
  <2>5. model' = "MODEL_VERIFIED" => Charged'
    BY <2>1, <2>2, <2>3 DEF Passes, PublicationInv, JudgedInv, Charged
  <2>6. model' = "MODEL_VERIFIED" => MayValue(ModelRun(company'), ProfileOf(company').archetype) /\ value'.fullCycle
    BY <2>1, <2>2 DEF PublicationInv, BankInv
  <2>7. BankInv'
    BY <2>1 DEF PublicationInv, BankInv
  <2> QED BY <2>1, <2>4, <2>5, <2>6, <2>7 DEF PublicationInv, Stages, ValuedInv, JudgedInv, GatedInv, PublishedIsSound,
             MarginCharged, BuyNeedsValue, IsPublic, Reported
<1>6. CASE BreakOff
  <2>1. stage = "GATED" /\ stage' = "BROKEN" /\ company' = company /\ value' = value
    BY <1>6 DEF BreakOff
  <2> QED BY <2>1 DEF PublicationInv, Stages, ValuedInv, BankInv, JudgedInv, GatedInv, PublishedIsSound, MarginCharged,
             BuyNeedsValue, IsPublic, Reported
<1>7. CASE Publish
  <2>1. PICK first \in {FirstValidation(company)}, inputs \in {InputYears(company, value)} :
        \E second \in {Validate(company.history, IsFinancial(company), inputs, first.latest)} :
        LET weak == first.confidence < MinConfidence
            unresolved == UnresolvedYears(second, inputs)
            status == IF weak \/ unresolved # {} THEN Doubted(model) ELSE model
            public == model = "MODEL_VERIFIED" /\ ~Blocked(card.score) /\ ~weak /\ unresolved = {}
            shown(x) == IF public THEN x ELSE None
        IN  /\ model' = status
            /\ pill' = IF unresolved # {} THEN "MODEL_INCOMPLETE" ELSE IF weak THEN Withheld(pill) ELSE pill
            /\ confidence' = IF unresolved # {} THEN "LOW" ELSE confidence
            /\ report' = [public |-> public, base |-> shown(value.suite.base.value), bear |-> shown(value.suite.bear.value),
                          bull |-> shown(value.suite.bull.value), epv |-> shown(value.analytics.epv),
                          margin |-> shown(IF Negative(value.suite) THEN None ELSE Zero(value.suite.base.safety)),
                          inputs |-> inputs, validation |-> second]
    BY <1>7 DEF Publish
  <2> DEFINE second == Validate(company.history, IsFinancial(company), inputs, first.latest)
             weak == first.confidence < MinConfidence
             unresolved == UnresolvedYears(second, inputs)
             public == model = "MODEL_VERIFIED" /\ ~Blocked(card.score) /\ ~weak /\ unresolved = {}
  <2>2. stage = "GATED" /\ stage' = "REPORTED" /\ UNCHANGED <<company, value, card>>
    BY <1>7 DEF Publish
  <2>3. /\ model' = IF weak \/ unresolved # {} THEN Doubted(model) ELSE model
        /\ pill' = IF unresolved # {} THEN "MODEL_INCOMPLETE" ELSE IF weak THEN Withheld(pill) ELSE pill
        /\ confidence' = IF unresolved # {} THEN "LOW" ELSE confidence
        /\ report'.public <=> public
        /\ report'.inputs = inputs /\ report'.validation = second
    <3> DEFINE shown(x) == IF public THEN x ELSE None
               made == [public |-> public, base |-> shown(value.suite.base.value), bear |-> shown(value.suite.bear.value),
                        bull |-> shown(value.suite.bull.value), epv |-> shown(value.analytics.epv),
                        margin |-> shown(IF Negative(value.suite) THEN None ELSE Zero(value.suite.base.safety)),
                        inputs |-> inputs, validation |-> second]
    <3>1. report' = made
      BY <2>1, Zenon
    <3>2. (made.public <=> public) /\ made.inputs = inputs /\ made.validation = second
      <4> HIDE DEF public, second, shown
      <4> QED OBVIOUS
    <3>3. /\ model' = IF weak \/ unresolved # {} THEN Doubted(model) ELSE model
          /\ pill' = IF unresolved # {} THEN "MODEL_INCOMPLETE" ELSE IF weak THEN Withheld(pill) ELSE pill
          /\ confidence' = IF unresolved # {} THEN "LOW" ELSE confidence
      BY <2>1, Zenon
    <3> HIDE DEF made, public, second, weak, unresolved
    <3> QED BY <3>1, <3>2, <3>3
  <2>4. public => \A y \in inputs \intersect DOMAIN second.resolutions : second.resolutions[y].class # "UNRESOLVED_MATERIAL"
    BY UnresolvedFacts
  <2> HIDE DEF second, weak, unresolved
  <2>5. PublishedIsSound'
    <3> SUFFICES ASSUME report'.public PROVE
            /\ model' = "MODEL_VERIFIED"
            /\ card'.score.rejects = {} /\ card'.score.tier # "LOW_QUALITY"
            /\ MayValue(ModelRun(company'), ProfileOf(company').archetype) /\ value'.fullCycle
            /\ \A y \in report'.inputs \intersect DOMAIN report'.validation.resolutions :
                 report'.validation.resolutions[y].class # "UNRESOLVED_MATERIAL"
      BY DEF PublishedIsSound, IsPublic, Reported
    <3> QED BY <2>2, <2>3, <2>4 DEF PublicationInv, GatedInv, Blocked
  <2>6. MarginCharged'
    <3> SUFFICES ASSUME report'.public PROVE Charged'
      BY DEF MarginCharged, IsPublic, Reported, Charged
    <3> QED BY <2>2, <2>3 DEF PublicationInv, GatedInv, Charged
  <2>7. BuyNeedsValue'
    <3> SUFFICES ASSUME pill' \in Buying PROVE report'.public \/ model' = "MODEL_ESTIMATED"
      BY <2>2 DEF BuyNeedsValue, IsPublic, Reported, Buying
    <3>1. unresolved = {} /\ ~weak
      BY <2>3 DEF Buying, Withheld
    <3>2. pill \in Buying /\ model' = model
      BY <2>3, <3>1
    <3> QED BY <2>2, <2>3, <3>1, <3>2 DEF PublicationInv, GatedInv
  <2>8. BankInv'
    BY <2>2 DEF PublicationInv, BankInv
  <2> QED BY <2>2, <2>5, <2>6, <2>7, <2>8 DEF PublicationInv, Stages, ValuedInv, JudgedInv, GatedInv
<1>8. CASE UNCHANGED vars
  BY <1>8 DEF vars, PublicationInv, ValuedInv, BankInv, JudgedInv, GatedInv, PublishedIsSound, MarginCharged,
       BuyNeedsValue, IsPublic, Reported, Charged
<1> QED BY <1>1, <1>2, <1>3, <1>4, <1>5, <1>6, <1>7, <1>8 DEF Next, Done


(***************************************************************************)
(* Evidence                                                                *)
(***************************************************************************)
LEMMA EligibilityFacts ==
  ASSUME NEW x
  PROVE  /\ Allocate!Eligibility(x).rejects = x.rejects \ {"DATA_INSUFFICIENT"}
         /\ Allocate!Eligibility(x).tier = x.tier /\ Allocate!Eligibility(x).safety = x.safety
         /\ Allocate!Eligibility(x).confidence = x.confidence
         /\ Allocate!Eligibility(x).status = IF x.rejects \ {"DATA_INSUFFICIENT"} # {} \/ x.tier = "LOW_QUALITY" THEN "INELIGIBLE"
                                    ELSE IF x.rejects # {} \/ x.tier \notin Allocate!InvestableTiers \/ x.safety = None
                                    THEN "WATCHLIST" ELSE "INVESTABLE"
<1> DEFINE thesis == x.rejects \ {"DATA_INSUFFICIENT"}
           status == IF thesis # {} \/ x.tier = "LOW_QUALITY" THEN "INELIGIBLE"
                     ELSE IF x.rejects # {} \/ x.tier \notin Allocate!InvestableTiers \/ x.safety = None
                     THEN "WATCHLIST" ELSE "INVESTABLE"
<1> HIDE DEF thesis, status
<1>1. Allocate!Eligibility(x) = [rejects |-> thesis, tier |-> x.tier, safety |-> x.safety, confidence |-> x.confidence,
                        status |-> status]
  BY DEF Allocate!Eligibility, thesis, status
<1> QED BY <1>1 DEF thesis, status

LEMMA SignalFacts ==
  ASSUME NEW item
  PROVE  /\ Allocate!SignalFrom(item).rejects = item.rejects /\ Allocate!SignalFrom(item).tier = item.tier
         /\ Allocate!SignalFrom(item).safety = IF item.mos \in {None, 0} \/ item.required = None
                                      THEN None ELSE item.mos - item.required
BY DEF Allocate!SignalFrom

(* A holding without a usable valuation is not sold for its own sake *)
LEMMA HoldingFacts ==
  ASSUME NEW x, NEW weight, NEW evidence,
         Allocate!DecideHolding(Allocate!Eligibility(x), weight, evidence).action = "SELL"
  PROVE  Allocate!Eligibility(x).status # "WATCHLIST"
<1> DEFINE e == Allocate!Eligibility(x)
<1>1. e.rejects # {}
  <2> HIDE DEF e
  <2>1. \A t, r : Allocate!Decision("HOLD", weight, t, r).action # "SELL" /\ Allocate!Decision("REDUCE", weight, t, r).action # "SELL"
    BY DEF Allocate!Decision
  <2>2. \A t, r : Allocate!Reduce(weight, t, r).action # "SELL"
    BY DEF Allocate!Decision, Allocate!Reduce
  <2>3. \A t, r : [Allocate!Decision("HOLD", weight, t, r) EXCEPT !.confidence = "LOW"].action # "SELL"
    BY DEF Allocate!Decision
  <2>4. Allocate!DecideHolding(e, weight, evidence).action = "SELL"
    BY DEF e
  <2> QED BY <2>1, <2>2, <2>3, <2>4 DEF Allocate!DecideHolding
<1> QED BY <1>1, EligibilityFacts

(* The fields of a decision that a plan leaves alone *)
Field(d) == "action" \in DOMAIN d

LEMMA DecisionFields ==
  ASSUME NEW e, NEW weight, NEW evidence
  PROVE  Field(Allocate!DecideHolding(e, weight, evidence))
<1>1. \A a, w, t, r : Field(Allocate!Decision(a, w, t, r))
  BY DEF Field, Allocate!Decision
<1>2. \A t, r : Field(Allocate!Reduce(weight, t, r))
  BY DEF Field, Allocate!Decision, Allocate!Reduce
<1>3. \A t, r : Field([Allocate!Decision("HOLD", weight, t, r) EXCEPT !.confidence = "LOW"])
  BY DEF Field, Allocate!Decision
<1> QED BY <1>1, <1>2, <1>3 DEF Allocate!DecideHolding

(* A candidate that is ready to be bought has the margin its tier requires *)
CandidateTyped(c) ==
  c.eligibility.safety \in Int \cup {None}
  /\ (c.tier = "BUY_READY" => c.eligibility.safety \in Int /\ c.eligibility.safety >= 0)

(* A candidate is a listing that is not held, with the evidence it is listed with *)
CandidateInv(s) ==
  LET c == candidates[s] IN
  /\ s \in DOMAIN items \ Allocate!Held
  /\ c.eligibility.safety = Allocate!SignalFrom(items[s]).safety
  /\ CandidateTyped(c)
  /\ c.eligibility.status = "INVESTABLE" =>
       /\ items[s].rejects \subseteq {"DATA_INSUFFICIENT"} /\ items[s].tier \in Allocate!InvestableTiers
       /\ c.eligibility.safety # None

LEMMA SafetyFacts ==
  ASSUME Allocate!AllocationConstants, NEW listed \in Universes, NEW s \in DOMAIN listed
  PROVE  /\ Allocate!SignalFrom(listed[s]).safety \in Int \cup {None}
         /\ Allocate!SignalFrom(listed[s]).safety # None =>
              /\ listed[s].mos \in Int /\ listed[s].required \in Int
              /\ Allocate!SignalFrom(listed[s]).safety = listed[s].mos - listed[s].required
              /\ listed[s].rejects = {} /\ listed[s].tier # "LOW_QUALITY"
<1> DEFINE item == listed[s]
<1>1. item.mos \in Int \cup {None} /\ item.required \in Int \cup {None} /\ None \notin Int
      /\ (item.rejects # {} \/ item.tier = "LOW_QUALITY" => item.mos = None)
  BY DEF Allocate!AllocationConstants
<1> HIDE DEF item
<1>2. Allocate!SignalFrom(item).safety = IF item.mos \in {None, 0} \/ item.required = None THEN None ELSE item.mos - item.required
  BY SignalFacts
<1>3. /\ Allocate!SignalFrom(item).safety \in Int \cup {None}
      /\ Allocate!SignalFrom(item).safety # None =>
              /\ item.mos \in Int /\ item.required \in Int
              /\ Allocate!SignalFrom(item).safety = item.mos - item.required
              /\ item.rejects = {} /\ item.tier # "LOW_QUALITY"
  BY <1>1, <1>2
<1> QED BY <1>3 DEF item

(***************************************************************************)
(* The invariant                                                           *)
(***************************************************************************)
Early == {"idle", "holdings"}
Deciding == {"candidates", "rotation"}

(* Before the rotation nothing without a usable valuation is sold *)
UnusableKept ==
  \A s \in DOMAIN decisions : decisions[s].action = "SELL" => Allocate!Eligibility(Allocate!SignalOf(s)).status # "WATCHLIST"

SoldForBetter ==
  \A s \in DOMAIN decisions :
    LET e == Allocate!Eligibility(Allocate!SignalOf(s)) IN
    e.status = "WATCHLIST" /\ decisions[s].action = "SELL" =>
      \E t \in Allocate!BuyReady : candidates[t].eligibility.safety >= 0 /\ candidates[t].eligibility.safety
                            >= (IF e.safety = None THEN 0 ELSE e.safety + 10)

BoughtOnEvidence ==
  \A s \in Allocate!BuyAdvice :
    /\ items[s].rejects = {} /\ items[s].tier \in Allocate!InvestableTiers
    /\ items[s].mos # None /\ items[s].mos >= items[s].required
    /\ s \notin Allocate!Held

AllocationInv ==
  /\ phase \in Early \cup Deciding \cup {"advice", "report", "failed"}
  /\ phase # "idle" => items \in Universes
  /\ phase \in Early => decisions = Allocate!NoFunction
  /\ phase \in Deciding => UnusableKept /\ DOMAIN decisions = Allocate!Held /\ \A s \in Allocate!Held : Field(decisions[s])
  /\ phase \in Early \cup {"candidates"} => candidates = Allocate!NoFunction
  /\ phase \in Early \cup Deciding \cup {"advice"} => advice = Allocate!NoFunction
  /\ \A s \in DOMAIN candidates : CandidateInv(s)
  /\ Allocate!EvidenceBeforeAction

LEMMA EvidenceParts == Allocate!EvidenceBeforeAction <=> SoldForBetter /\ BoughtOnEvidence
BY DEF Allocate!EvidenceBeforeAction, SoldForBetter, BoughtOnEvidence

LEMMA NothingYet ==
  /\ DOMAIN Allocate!NoFunction = {}
  /\ decisions = Allocate!NoFunction => SoldForBetter /\ UnusableKept
  /\ advice = Allocate!NoFunction => BoughtOnEvidence
<1>1. DOMAIN Allocate!NoFunction = {}
  BY DEF Allocate!NoFunction
<1> QED BY <1>1 DEF SoldForBetter, UnusableKept, BoughtOnEvidence, Allocate!BuyAdvice

LEMMA NothingYetNext ==
  /\ decisions' = Allocate!NoFunction => SoldForBetter' /\ UnusableKept'
  /\ advice' = Allocate!NoFunction => BoughtOnEvidence'
<1>1. DOMAIN Allocate!NoFunction = {}
  BY DEF Allocate!NoFunction
<1> QED BY <1>1 DEF SoldForBetter, UnusableKept, BoughtOnEvidence, Allocate!BuyAdvice

LEMMA EvidencePartsNext == Allocate!EvidenceBeforeAction' <=> SoldForBetter' /\ BoughtOnEvidence'
BY DEF Allocate!EvidenceBeforeAction, SoldForBetter, BoughtOnEvidence

LEMMA AllocationStart == Allocate!Init => AllocationInv
<1> SUFFICES ASSUME Allocate!Init PROVE AllocationInv
  OBVIOUS
<1>1. phase = "idle" /\ decisions = Allocate!NoFunction /\ candidates = Allocate!NoFunction /\ advice = Allocate!NoFunction
  BY DEF Allocate!Init
<1> QED BY <1>1, EvidenceParts, NothingYet DEF AllocationInv, Early, Deciding

LEMMA BeginKeeps ==
  ASSUME AllocationInv, NEW book, NEW listed \in Universes, NEW wanted, Allocate!Begin(book, listed, wanted)
  PROVE  AllocationInv'
<1>1. phase = "idle" /\ phase' = "holdings" /\ items' = listed
      /\ decisions' = decisions /\ candidates' = candidates /\ advice' = advice
  BY DEF Allocate!Begin
<1>2. decisions' = Allocate!NoFunction /\ candidates' = Allocate!NoFunction /\ advice' = Allocate!NoFunction
  BY <1>1 DEF AllocationInv, Early
<1> QED BY <1>1, <1>2, EvidencePartsNext, NothingYet, NothingYetNext DEF AllocationInv, Early, Deciding

LEMMA DecideHoldingsKeeps ==
  ASSUME AllocationInv, NEW reported, Allocate!DecideHoldings(reported)
  PROVE  AllocationInv'
<1>1. /\ phase = "holdings" /\ phase' \in {"candidates", "failed"}
      /\ UNCHANGED <<rows, cash, changes, items, mapped, candidates, advice, verdict>>
      /\ decisions' = [s \in Allocate!Held |-> Allocate!DecideHolding(Allocate!Eligibility(Allocate!SignalOf(s)), Allocate!Value(rows[s]), reported[s])]
  BY DEF Allocate!DecideHoldings
<1>2. candidates' = Allocate!NoFunction /\ advice' = Allocate!NoFunction /\ items' \in Universes
  BY <1>1 DEF AllocationInv, Early
<1>3. UnusableKept'
  <2> SUFFICES ASSUME NEW s \in DOMAIN decisions', decisions'[s].action = "SELL"
               PROVE  Allocate!Eligibility(Allocate!SignalOf(s)').status # "WATCHLIST"
    BY DEF UnusableKept
  <2>1. Allocate!SignalOf(s)' = Allocate!SignalOf(s)
    BY <1>1 DEF Allocate!SignalOf
  <2>2. Allocate!DecideHolding(Allocate!Eligibility(Allocate!SignalOf(s)), Allocate!Value(rows[s]), reported[s]).action = "SELL"
    BY <1>1
  <2> QED BY <2>1, <2>2, HoldingFacts
<1>4. SoldForBetter'
  BY <1>3 DEF UnusableKept, SoldForBetter
<1>5. DOMAIN decisions' = Allocate!Held' /\ \A s \in Allocate!Held' : Field(decisions'[s])
  BY <1>1, DecisionFields DEF Allocate!Held
<1> QED BY <1>1, <1>2, <1>3, <1>4, <1>5, EvidencePartsNext, NothingYet, NothingYetNext DEF AllocationInv, Early, Deciding

LEMMA HydratedFacts ==
  ASSUME Allocate!AllocationConstants, items \in Universes, NEW s \in DOMAIN items, NEW m, NEW t
  PROVE  LET c == Allocate!Hydrated(s, m, t) IN
         /\ c.eligibility.safety = Allocate!SignalFrom(items[s]).safety
         /\ CandidateTyped(c)
         /\ c.eligibility.status = "INVESTABLE" =>
              /\ items[s].rejects \subseteq {"DATA_INSUFFICIENT"} /\ items[s].tier \in Allocate!InvestableTiers
              /\ c.eligibility.safety # None
<1> DEFINE given == Allocate!Classified(s).eligibility
           signal == [rejects |-> given.rejects, tier |-> given.tier,
                      safety |-> given.safety, confidence |-> given.confidence]
           e == Allocate!Eligibility(signal)
           c == Allocate!Hydrated(s, m, t)
<1>1. given = Allocate!Eligibility(Allocate!SignalFrom(items[s]))
  BY DEF Allocate!Classified
<1>2. /\ given.rejects = items[s].rejects \ {"DATA_INSUFFICIENT"} /\ given.tier = items[s].tier
      /\ given.safety = Allocate!SignalFrom(items[s]).safety
  BY <1>1, SignalFacts, EligibilityFacts, SMTT(30)
<1> HIDE DEF given
<1>3. signal.rejects = given.rejects /\ signal.tier = given.tier /\ signal.safety = given.safety
  OBVIOUS
<1> HIDE DEF signal
<1>4. /\ e.safety = Allocate!SignalFrom(items[s]).safety
      /\ e.status = "INVESTABLE" =>
           items[s].rejects \subseteq {"DATA_INSUFFICIENT"} /\ items[s].tier \in Allocate!InvestableTiers /\ e.safety # None
  BY <1>2, <1>3, EligibilityFacts
<1> HIDE DEF e
<1>5. c.eligibility = e /\ c.tier = Allocate!ClassifyCandidate(e, items[s].liquidity, c.fit)
  BY DEF Allocate!Hydrated, e, signal, given
<1>6. c.tier = "BUY_READY" => e.safety # None /\ e.safety >= 0
  BY <1>5 DEF Allocate!ClassifyCandidate
<1>7. e.safety \in Int \cup {None}
  BY <1>4, SafetyFacts
<1> HIDE DEF c
<1>8. CandidateTyped(c)
  BY <1>5, <1>6, <1>7 DEF CandidateTyped
<1> QED BY <1>4, <1>5, <1>8 DEF c

LEMMA HydrateKeeps ==
  ASSUME Allocate!AllocationConstants, AllocationInv, NEW kept \in Allocate!Shortlists, NEW atMiddle, NEW atTarget,
         Allocate!HydrateCandidates(kept, atMiddle, atTarget)
  PROVE  AllocationInv'
<1>1. /\ phase = "candidates" /\ phase' = "rotation"
      /\ UNCHANGED <<rows, cash, changes, items, mapped, decisions, advice, verdict>>
      /\ candidates' = [s \in kept |-> Allocate!Hydrated(s, atMiddle[s], atTarget[s])]
  BY DEF Allocate!HydrateCandidates
<1>2. items \in Universes /\ items' \in Universes /\ advice' = Allocate!NoFunction /\ UnusableKept
  BY <1>1 DEF AllocationInv, Early, Deciding
<1>3. UnusableKept' /\ SoldForBetter'
  BY <1>1, <1>2 DEF UnusableKept, SoldForBetter, Allocate!SignalOf
<1>5. DOMAIN decisions' = Allocate!Held' /\ \A s \in Allocate!Held' : Field(decisions'[s])
  BY <1>1 DEF AllocationInv, Deciding, Allocate!Held
<1>4. \A s \in DOMAIN candidates' : CandidateInv(s)'
  <2> SUFFICES ASSUME NEW s \in kept PROVE CandidateInv(s)'
    BY <1>1
  <2>1. s \in DOMAIN items \ Allocate!Held
    BY DEF Allocate!Shortlists
  <2>2. candidates'[s] = Allocate!Hydrated(s, atMiddle[s], atTarget[s])
    BY <1>1
  <2> QED BY <1>1, <1>2, <2>1, <2>2, HydratedFacts DEF CandidateInv, Allocate!Held
<1> QED BY <1>1, <1>2, <1>3, <1>4, <1>5, EvidencePartsNext, NothingYetNext DEF AllocationInv, Early, Deciding

LEMMA RotatedFacts ==
  ASSUME Allocate!AllocationConstants, AllocationInv, NEW s \in DOMAIN decisions, Allocate!Rotated(s).action = "SELL",
         phase = "rotation", Allocate!Eligibility(Allocate!SignalOf(s)).status = "WATCHLIST"
  PROVE  \E t \in Allocate!BuyReady :
           candidates[t].eligibility.safety >= 0 /\ candidates[t].eligibility.safety
             >= (IF Allocate!Eligibility(Allocate!SignalOf(s)).safety = None THEN 0 ELSE Allocate!Eligibility(Allocate!SignalOf(s)).safety + 10)
<1> DEFINE e == Allocate!Eligibility(Allocate!SignalOf(s))
<1>1. decisions[s].action # "SELL"
  BY DEF AllocationInv, UnusableKept, Deciding
<1>2. PICK t \in Allocate!BuyReady : Allocate!Replaces(candidates[t], e)
  BY <1>1 DEF Allocate!Rotated
<1>3. t \in DOMAIN candidates /\ candidates[t].tier = "BUY_READY"
  BY DEF Allocate!BuyReady
<1>4. candidates[t].eligibility.safety \in Int /\ candidates[t].eligibility.safety >= 0
  BY <1>3 DEF AllocationInv, CandidateInv, CandidateTyped
<1>5. e.safety \in Int \cup {None}
  <2>1. e.safety = Allocate!SignalOf(s).safety
    BY SignalFacts, EligibilityFacts DEF Allocate!SignalOf
  <2>2. CASE s \in mapped \cap DOMAIN items
    <3>1. items \in Universes
      BY DEF AllocationInv
    <3> QED BY <2>1, <2>2, <3>1, SafetyFacts DEF Allocate!SignalOf
  <2>3. CASE s \notin mapped \cap DOMAIN items
    BY <2>1, <2>3 DEF Allocate!SignalOf, Allocate!NoSignal
  <2> QED BY <2>2, <2>3
<1>6. e.safety # None => candidates[t].eligibility.safety - e.safety >= 10
  BY <1>2 DEF Allocate!Replaces
<1> HIDE DEF e
<1>7. candidates[t].eligibility.safety >= (IF e.safety = None THEN 0 ELSE e.safety + 10)
  BY <1>4, <1>5, <1>6
<1> QED BY <1>4, <1>7 DEF e

LEMMA RotateKeeps ==
  ASSUME Allocate!AllocationConstants, AllocationInv, Allocate!RotateAndPlan
  PROVE  AllocationInv'
<1>1. /\ phase = "rotation" /\ phase' = "advice"
      /\ UNCHANGED <<rows, cash, changes, items, mapped, candidates, advice, verdict>>
      /\ decisions' = [s \in Allocate!Held |-> [Allocate!Rotated(s) EXCEPT !.plan =
                         Allocate!ExecutionPlan(Allocate!Rotated(s), cash, rows[s].quantity, Allocate!PriceOf(rows[s]))]]
  BY DEF Allocate!RotateAndPlan
<1>2. items \in Universes /\ advice' = Allocate!NoFunction /\ DOMAIN decisions = Allocate!Held /\ \A s \in Allocate!Held : Field(decisions[s])
  BY <1>1 DEF AllocationInv, Deciding
<1>3. ASSUME NEW s \in Allocate!Held
      PROVE  decisions'[s].action = Allocate!Rotated(s).action
  <2> DEFINE d == decisions[s]
  <2>1. "action" \in DOMAIN [d EXCEPT !.action = "SELL", !.target = 0, !.reason = "SUPERIOR_REPLACEMENT"]
    BY <1>2 DEF Field
  <2>2. "action" \in DOMAIN Allocate!Rotated(s)
    BY <1>2, <2>1 DEF Field, Allocate!Rotated
  <2> DEFINE was == Allocate!Rotated(s)
             plan == Allocate!ExecutionPlan(Allocate!Rotated(s), cash, rows[s].quantity, Allocate!PriceOf(rows[s]))
  <2>3. decisions'[s] = [was EXCEPT !.plan = plan]
    BY <1>1
  <2> HIDE DEF was, plan
  <2>4. decisions'[s].action = was.action
    BY <2>2, <2>3 DEF was
  <2> QED BY <2>4 DEF was
<1>4. SoldForBetter'
  <2> SUFFICES ASSUME NEW s \in Allocate!Held, Allocate!Eligibility(Allocate!SignalOf(s)).status = "WATCHLIST", decisions'[s].action = "SELL"
               PROVE  \E t \in Allocate!BuyReady :
                        candidates[t].eligibility.safety >= 0 /\ candidates[t].eligibility.safety
                          >= (IF Allocate!Eligibility(Allocate!SignalOf(s)).safety = None THEN 0 ELSE Allocate!Eligibility(Allocate!SignalOf(s)).safety + 10)
    <3>1. \A s : Allocate!SignalOf(s)' = Allocate!SignalOf(s)
      BY <1>1 DEF Allocate!SignalOf
    <3>2. Allocate!BuyReady' = Allocate!BuyReady /\ DOMAIN decisions' = Allocate!Held
      BY <1>1 DEF Allocate!BuyReady
    <3> QED BY <1>1, <3>1, <3>2 DEF SoldForBetter
  <2> QED BY <1>1, <1>2, <1>3, RotatedFacts
<1>5. \A s \in DOMAIN candidates' : CandidateInv(s)'
  BY <1>1 DEF AllocationInv, CandidateInv, Allocate!Held
<1> QED BY <1>1, <1>2, <1>4, <1>5, EvidencePartsNext, NothingYetNext DEF AllocationInv, Early, Deciding

(* Shares are bought of a candidate that passed every gate *)
LEMMA BoughtFacts ==
  ASSUME NEW c, NEW weight, NEW funded, Allocate!DecideCandidate(c, weight, funded).action = "BUY_MORE"
  PROVE  c.eligibility.status = "INVESTABLE" /\ ~(c.eligibility.safety < 0)
<1>1. \A r : Allocate!Decision("WATCH", 0, None, r).action # "BUY_MORE"
  BY DEF Allocate!Decision
<1> QED BY <1>1 DEF Allocate!DecideCandidate

LEMMA CandidateFields ==
  ASSUME NEW c, NEW weight, NEW funded
  PROVE  Field(Allocate!DecideCandidate(c, weight, funded))
<1>1. \A a, w, t, r : Field(Allocate!Decision(a, w, t, r))
  BY DEF Field, Allocate!Decision
<1>2. \A x, y, z : Field([Allocate!Decision("BUY_MORE", 0, c.sizing.mid, "GATES_PASSED") EXCEPT !.min = x, !.max = y, !.confidence = z])
  BY DEF Field, Allocate!Decision
<1> QED BY <1>1, <1>2 DEF Allocate!DecideCandidate

LEMMA AdviseKeeps ==
  ASSUME Allocate!AllocationConstants, AllocationInv, Allocate!DecideCandidates
  PROVE  AllocationInv'
<1> DEFINE made(s) == Allocate!DecideCandidate(candidates[s], cash, s \in Allocate!FundedBy(decisions))
<1>1. /\ phase = "advice" /\ phase' \in {"report", "failed"}
      /\ UNCHANGED <<rows, cash, changes, items, mapped, decisions, candidates>>
      /\ advice' = [s \in Allocate!BuyReady |-> [made(s) EXCEPT !.plan = Allocate!ExecutionPlan(made(s), cash, 0, items[s].price)]]
  BY DEF Allocate!DecideCandidates
<1>2. items \in Universes
  BY <1>1 DEF AllocationInv
<1>3. SoldForBetter'
  <2>1. SoldForBetter
    BY EvidenceParts DEF AllocationInv
  <2> QED BY <1>1, <2>1 DEF SoldForBetter, Allocate!SignalOf, Allocate!BuyReady
<1>4. BoughtOnEvidence'
  <2> SUFFICES ASSUME NEW s \in Allocate!BuyReady, advice'[s].action = "BUY_MORE"
               PROVE  /\ items[s].rejects = {} /\ items[s].tier \in Allocate!InvestableTiers
                      /\ items[s].mos # None /\ items[s].mos >= items[s].required
                      /\ s \notin Allocate!Held
    BY <1>1 DEF BoughtOnEvidence, Allocate!BuyAdvice, Allocate!Held
  <2> DEFINE d == made(s)
             plan == Allocate!ExecutionPlan(made(s), cash, 0, items[s].price)
  <2>1. advice'[s] = [d EXCEPT !.plan = plan]
    BY <1>1
  <2>2. "action" \in DOMAIN d
    BY CandidateFields DEF Field
  <2>3. d.action = "BUY_MORE"
    <3> HIDE DEF d, plan
    <3> QED BY <2>1, <2>2
  <2>4. candidates[s].eligibility.status = "INVESTABLE" /\ ~(candidates[s].eligibility.safety < 0)
    BY <2>3, BoughtFacts
  <2>5. CandidateInv(s)
    BY DEF Allocate!BuyReady, AllocationInv
  <2>6. /\ s \in DOMAIN items \ Allocate!Held /\ items[s].tier \in Allocate!InvestableTiers
        /\ Allocate!SignalFrom(items[s]).safety # None /\ ~(Allocate!SignalFrom(items[s]).safety < 0)
    BY <2>4, <2>5 DEF CandidateInv
  <2>7. /\ items[s].mos \in Int /\ items[s].required \in Int /\ items[s].rejects = {}
        /\ Allocate!SignalFrom(items[s]).safety = items[s].mos - items[s].required
    BY <1>2, <2>6, SafetyFacts
  <2>8. items[s].mos >= items[s].required
    BY <2>6, <2>7
  <2>9. items[s].mos # None
    BY <2>7 DEF Allocate!AllocationConstants
  <2> QED BY <2>6, <2>7, <2>8, <2>9
<1>5. \A s \in DOMAIN candidates' : CandidateInv(s)'
  BY <1>1 DEF AllocationInv, CandidateInv, Allocate!Held
<1> QED BY <1>1, <1>2, <1>3, <1>4, <1>5, EvidencePartsNext DEF AllocationInv, Early, Deciding

LEMMA AllocationStep == Allocate!AllocationConstants /\ AllocationInv /\ [Allocate!Next]_(Allocate!vars) => AllocationInv'
<1> SUFFICES ASSUME Allocate!AllocationConstants, AllocationInv, [Allocate!Next]_(Allocate!vars) PROVE AllocationInv'
  OBVIOUS
<1>1. CASE Allocate!Answer
  <2>1. phase' = "idle" /\ decisions' = Allocate!NoFunction /\ candidates' = Allocate!NoFunction /\ advice' = Allocate!NoFunction
    BY <1>1 DEF Allocate!Answer
  <2> QED BY <2>1, EvidencePartsNext, NothingYet, NothingYetNext DEF AllocationInv, Early, Deciding
<1>2. CASE UNCHANGED Allocate!vars
  BY <1>2 DEF Allocate!vars, AllocationInv, UnusableKept, CandidateInv, Allocate!EvidenceBeforeAction, Allocate!Held, Allocate!SignalOf, Allocate!BuyReady, Allocate!BuyAdvice
<1> QED BY <1>1, <1>2, BeginKeeps, DecideHoldingsKeeps, HydrateKeeps, RotateKeeps, AdviseKeeps DEF Allocate!Next

\* A non-empty set of natural numbers has a least element.
LEMMA LeastElement ==
  ASSUME NEW K \in SUBSET Nat, K # {}
  PROVE  \E k \in K : \A j \in K : k <= j
<1>1. \E x \in K : \A y \in K : ~(<<y, x>> \in OpToRel(<, Nat))
  BY WFMin, NatLessThanWellFounded, Zenon
<1>2. PICK x \in K : \A y \in K : ~(y < x)
  <2>1. PICK x \in K : \A y \in K : ~(<<y, x>> \in OpToRel(<, Nat))
    BY <1>1
  <2>2. \A y \in K : ~(y < x)
    BY <2>1 DEF OpToRel
  <2> QED BY <2>2
<1> QED BY <1>2

\* A family of sets that has every subset of K all of whose smaller subsets it has,
\* has all subsets of K.
LEMMA SubsetInduction ==
  ASSUME NEW K, IsFiniteSet(K), NEW G,
         \A T \in SUBSET K : (\A U \in SUBSET T : U # T => U \in G) => T \in G
  PROVE  \A T \in SUBSET K : T \in G
<1> DEFINE Missing == {T \in SUBSET K : T \notin G}
           Sizes == {Cardinality(T) : T \in Missing}
<1>1. \A T \in SUBSET K : IsFiniteSet(T) /\ Cardinality(T) \in Nat
  BY FS_Subset, FS_CardinalityType
<1> SUFFICES ASSUME Missing # {} PROVE FALSE
  OBVIOUS
<1>2. Sizes \in SUBSET Nat /\ Sizes # {}
  BY <1>1
<1>3. PICK n \in Sizes : \A m \in Sizes : n <= m
  <2> HIDE DEF Sizes
  <2> QED BY <1>2, LeastElement
<1>4. PICK T \in Missing : Cardinality(T) = n
  OBVIOUS
<1>5. \A U \in SUBSET T : U # T => U \in G
  <2> SUFFICES ASSUME NEW U \in SUBSET T, U # T, U \notin G PROVE FALSE
    OBVIOUS
  <2>1. Cardinality(U) <= Cardinality(T) /\ Cardinality(U) # Cardinality(T)
    BY <1>1, FS_Subset
  <2>2. U \in Missing
    OBVIOUS
  <2>3. n <= Cardinality(U)
    BY <2>2, <1>3
  <2> QED BY <2>1, <2>3, <1>1, <1>4
<1> QED BY <1>5

OneOf(S) == CHOOSE x \in S : TRUE

\* The running totals of f over the subsets of K.
RunsOf(f, K, g) == [S \in SUBSET K |-> IF S = {} THEN 0 ELSE f[OneOf(S)] + g[S \ {OneOf(S)}]]

\* The running totals of a function exist.
LEMMA RunsExist ==
  ASSUME NEW f, NEW K, IsFiniteSet(K)
  PROVE  \E g : g = RunsOf(f, K, g)
<1> DEFINE Upto(n) == {S \in SUBSET K : Cardinality(S) <= n}
           Good(n) == \E g : \A S \in Upto(n) : g[S] = RunsOf(f, K, g)[S]
           Missing == {n \in Nat : ~Good(n)}
<1>1. \A S \in SUBSET K : IsFiniteSet(S) /\ Cardinality(S) \in Nat
  BY FS_Subset, FS_CardinalityType
<1>2. \A S \in SUBSET K : S # {} => /\ OneOf(S) \in S
                                    /\ S \ {OneOf(S)} \in SUBSET K
                                    /\ Cardinality(S \ {OneOf(S)}) = Cardinality(S) - 1
  BY <1>1, FS_RemoveElement DEF OneOf
<1>3. Missing = {}
  <2> SUFFICES ASSUME Missing # {} PROVE FALSE
    OBVIOUS
  <2>1. PICK n \in Missing : \A m \in Missing : n <= m
    <3>1. Missing \in SUBSET Nat
      OBVIOUS
    <3> HIDE DEF Missing
    <3> QED BY <3>1, LeastElement
  <2>2. CASE n = 0
    <3>1. \A S \in Upto(0) : S = {}
      BY <1>1, FS_EmptySet
    <3>2. \A S \in Upto(0) : [T \in SUBSET K |-> 0][S] = RunsOf(f, K, [T \in SUBSET K |-> 0])[S]
      BY <3>1 DEF RunsOf
    <3> QED BY <3>2, <2>2
  <2>3. CASE n # 0
    <3>1. Good(n - 1)
      <4>1. n - 1 \in Nat /\ ~(n <= n - 1)
        BY <2>3
      <4> HIDE DEF Good
      <4> QED BY <4>1, <2>1
    <3>2. PICK g : \A S \in Upto(n - 1) : g[S] = RunsOf(f, K, g)[S]
      BY <3>1
    <3> DEFINE h == RunsOf(f, K, g)
    <3>3. \A S \in Upto(n) : h[S] = RunsOf(f, K, h)[S]
      <4> SUFFICES ASSUME NEW S \in Upto(n) PROVE h[S] = RunsOf(f, K, h)[S]
        OBVIOUS
      <4>1. CASE S = {}
        BY <4>1 DEF RunsOf
      <4>2. CASE S # {}
        <5> DEFINE less == S \ {OneOf(S)}
        <5>1. less \in Upto(n - 1)
          BY <4>2, <1>1, <1>2
        <5>2. h[less] = g[less]
          BY <5>1, <3>2
        <5>3. h[S] = f[OneOf(S)] + g[less]
          BY <4>2 DEF RunsOf
        <5>4. RunsOf(f, K, h)[S] = f[OneOf(S)] + h[less]
          <6> HIDE DEF h
          <6> QED BY <4>2 DEF RunsOf
        <5> QED BY <5>2, <5>3, <5>4
      <4> QED BY <4>1, <4>2
    <3> QED BY <3>3
  <2> QED BY <2>2, <2>3
<1>4. PICK g : \A S \in Upto(Cardinality(K)) : g[S] = RunsOf(f, K, g)[S]
  BY <1>3, <1>1
<1>5. \A S \in SUBSET K : g[S] = RunsOf(f, K, g)[S]
  BY <1>4, FS_Subset
<1> DEFINE h == RunsOf(f, K, g)
<1>6. \A S \in SUBSET K : h[S] = g[S]
  BY <1>5
<1>7. h = RunsOf(f, K, h)
  <2>1. \A S \in SUBSET K : S # {} => h[S \ {OneOf(S)}] = g[S \ {OneOf(S)}]
    BY <1>2, <1>6
  <2>2. RunsOf(f, K, h) = [S \in SUBSET K |-> IF S = {} THEN 0 ELSE f[OneOf(S)] + h[S \ {OneOf(S)}]]
    BY DEF RunsOf
  <2>3. h = [S \in SUBSET K |-> IF S = {} THEN 0 ELSE f[OneOf(S)] + g[S \ {OneOf(S)}]]
    BY DEF RunsOf
  <2> HIDE DEF h
  <2> QED BY <2>1, <2>2, <2>3
<1> QED BY <1>7

\* Total is the last of them.
LEMMA TotalIsRun ==
  ASSUME NEW f, NEW K, IsFiniteSet(K)
  PROVE  \E g : g = RunsOf(f, K, g) /\ Allocate!Total(f, K) = g[K]
<1> DEFINE g == CHOOSE h : h = RunsOf(f, K, h)
<1>1. g = RunsOf(f, K, g)
  BY RunsExist
<1>2. Allocate!Total(f, K) = g[K]
  BY DEF Allocate!Total, Allocate!MapThenSumSet, Allocate!MapThenFoldSet, RunsOf, OneOf
<1> QED BY <1>1, <1>2

\* Running totals agree wherever they are defined.
LEMMA RunsUnique ==
  ASSUME NEW f, NEW K, IsFiniteSet(K), NEW L \in SUBSET K,
         NEW g, g = RunsOf(f, K, g), NEW h, h = RunsOf(f, L, h)
  PROVE  g[L] = h[L]
<1> DEFINE G == {T \in SUBSET L : g[T] = h[T]}
<1>1. \A T \in SUBSET L : (\A U \in SUBSET T : U # T => U \in G) => T \in G
  <2> SUFFICES ASSUME NEW T \in SUBSET L, \A U \in SUBSET T : U # T => U \in G
               PROVE  g[T] = h[T]
    OBVIOUS
  <2>1. g[T] = (IF T = {} THEN 0 ELSE f[OneOf(T)] + g[T \ {OneOf(T)}])
    BY DEF RunsOf
  <2>2. h[T] = (IF T = {} THEN 0 ELSE f[OneOf(T)] + h[T \ {OneOf(T)}])
    BY DEF RunsOf
  <2>3. T # {} => T \ {OneOf(T)} \in G
    BY DEF OneOf
  <2> QED BY <2>1, <2>2, <2>3
<1>2. IsFiniteSet(L)
  BY FS_Subset
<1>3. L \in G
  <2> HIDE DEF G
  <2> QED BY <1>1, <1>2, SubsetInduction
<1> QED BY <1>3

\* Nothing adds up to zero.
LEMMA TotalEmpty == \A f : Allocate!Total(f, {}) = 0
<1> SUFFICES ASSUME NEW f PROVE Allocate!Total(f, {}) = 0
  OBVIOUS
<1>1. PICK g : g = RunsOf(f, {}, g) /\ Allocate!Total(f, {}) = g[{}]
  BY TotalIsRun, FS_EmptySet
<1> QED BY <1>1 DEF RunsOf

\* A total is one term and the total of the rest.
LEMMA TotalOneOf ==
  ASSUME NEW f, NEW K, IsFiniteSet(K), K # {}
  PROVE  OneOf(K) \in K /\ Allocate!Total(f, K) = f[OneOf(K)] + Allocate!Total(f, K \ {OneOf(K)})
<1> DEFINE less == K \ {OneOf(K)}
<1>1. OneOf(K) \in K
  BY DEF OneOf
<1>2. IsFiniteSet(less)
  BY FS_RemoveElement
<1>3. PICK g : g = RunsOf(f, K, g) /\ Allocate!Total(f, K) = g[K]
  BY TotalIsRun
<1>4. PICK h : h = RunsOf(f, less, h) /\ Allocate!Total(f, less) = h[less]
  BY <1>2, TotalIsRun
<1>5. g[less] = h[less]
  BY <1>3, <1>4, RunsUnique
<1>6. g[K] = f[OneOf(K)] + g[less]
  BY <1>3 DEF RunsOf
<1> QED BY <1>1, <1>3, <1>4, <1>5, <1>6

\* The total of integers is an integer.
LEMMA TotalInt ==
  ASSUME NEW K, IsFiniteSet(K), NEW f, \A x \in K : f[x] \in Int
  PROVE  \A T \in SUBSET K : Allocate!Total(f, T) \in Int
<1> DEFINE G == {T \in SUBSET K : Allocate!Total(f, T) \in Int}
<1>1. \A T \in SUBSET K : (\A U \in SUBSET T : U # T => U \in G) => T \in G
  <2> SUFFICES ASSUME NEW T \in SUBSET K, \A U \in SUBSET T : U # T => U \in G
               PROVE  Allocate!Total(f, T) \in Int
    OBVIOUS
  <2>1. CASE T = {}
    BY <2>1, TotalEmpty
  <2>2. CASE T # {}
    <3>1. IsFiniteSet(T)
      BY FS_Subset
    <3>2. OneOf(T) \in T /\ Allocate!Total(f, T) = f[OneOf(T)] + Allocate!Total(f, T \ {OneOf(T)})
      BY <2>2, <3>1, TotalOneOf
    <3>3. T \ {OneOf(T)} \in G
      BY <3>2
    <3> QED BY <3>2, <3>3
  <2> QED BY <2>1, <2>2
<1>3. \A T \in SUBSET K : T \in G
  <2> HIDE DEF G
  <2> QED BY <1>1, SubsetInduction
<1> QED BY <1>3

\* Any argument may be taken out of a sum.
LEMMA TotalRemove ==
  ASSUME NEW K, IsFiniteSet(K), NEW f, \A x \in K : f[x] \in Int
  PROVE  \A T \in SUBSET K : \A x \in T : Allocate!Total(f, T) = f[x] + Allocate!Total(f, T \ {x})
<1> DEFINE G == {T \in SUBSET K : \A x \in T : Allocate!Total(f, T) = f[x] + Allocate!Total(f, T \ {x})}
<1>0. \A T \in SUBSET K : Allocate!Total(f, T) \in Int
  BY TotalInt
<1>1. \A T \in SUBSET K : (\A U \in SUBSET T : U # T => U \in G) => T \in G
  <2> SUFFICES ASSUME NEW T \in SUBSET K, \A U \in SUBSET T : U # T => U \in G, NEW x \in T
               PROVE  Allocate!Total(f, T) = f[x] + Allocate!Total(f, T \ {x})
    OBVIOUS
  <2> DEFINE y == OneOf(T)
  <2>1. IsFiniteSet(T)
    BY FS_Subset
  <2>2. y \in T /\ Allocate!Total(f, T) = f[y] + Allocate!Total(f, T \ {y})
    BY <2>1, TotalOneOf
  <2>3. CASE x = y
    <3> HIDE DEF y
    <3>1. T \ {x} = T \ {y}
      BY <2>3
    <3>2. f[x] = f[y] /\ Allocate!Total(f, T \ {x}) = Allocate!Total(f, T \ {y})
      BY <3>1, <2>3, Zenon
    <3> QED BY <2>2, <3>2, Zenon
  <2>4. CASE x # y
    <3> HIDE DEF y
    <3>1. T \ {y} \in G /\ T \ {x} \in G
      BY <2>2
    <3>2. Allocate!Total(f, T \ {y}) = f[x] + Allocate!Total(f, (T \ {y}) \ {x})
      BY <3>1, <2>4
    <3>3. Allocate!Total(f, T \ {x}) = f[y] + Allocate!Total(f, (T \ {x}) \ {y})
      BY <3>1, <2>4, <2>2
    <3>4. (T \ {x}) \ {y} = (T \ {y}) \ {x} /\ (T \ {x}) \ {y} \in SUBSET K
      OBVIOUS
    <3>5. Allocate!Total(f, (T \ {x}) \ {y}) \in Int
      BY <3>4, <1>0
    <3>6. f[x] \in Int /\ f[y] \in Int
      BY <2>2
    <3>7. Allocate!Total(f, (T \ {y}) \ {x}) = Allocate!Total(f, (T \ {x}) \ {y})
      BY <3>4
    <3> DEFINE rest == Allocate!Total(f, (T \ {x}) \ {y})
    <3>8. Allocate!Total(f, T) = f[y] + (f[x] + rest)
      BY <2>2, <3>2, <3>7
    <3> HIDE DEF rest
    <3>9. Allocate!Total(f, T) = f[x] + (f[y] + rest)
      BY <3>5, <3>6, <3>8 DEF rest
    <3> QED BY <3>3, <3>9 DEF rest
  <2> QED BY <2>3, <2>4
<1>3. \A T \in SUBSET K : T \in G
  <2> HIDE DEF G
  <2> QED BY <1>1, SubsetInduction
<1> QED BY <1>3

\* What a sum is of depends on the values of its arguments alone.
LEMMA TotalSame ==
  ASSUME NEW K, IsFiniteSet(K), NEW f, NEW g, \A x \in K : f[x] = g[x]
  PROVE  Allocate!Total(f, K) = Allocate!Total(g, K)
<1> DEFINE G == {T \in SUBSET K : Allocate!Total(f, T) = Allocate!Total(g, T)}
<1>1. \A T \in SUBSET K : (\A U \in SUBSET T : U # T => U \in G) => T \in G
  <2> SUFFICES ASSUME NEW T \in SUBSET K, \A U \in SUBSET T : U # T => U \in G
               PROVE  Allocate!Total(f, T) = Allocate!Total(g, T)
    OBVIOUS
  <2>1. CASE T = {}
    BY <2>1, TotalEmpty
  <2>2. CASE T # {}
    <3>1. IsFiniteSet(T)
      BY FS_Subset
    <3>2. OneOf(T) \in T /\ Allocate!Total(f, T) = f[OneOf(T)] + Allocate!Total(f, T \ {OneOf(T)})
      BY <2>2, <3>1, TotalOneOf
    <3>3. Allocate!Total(g, T) = g[OneOf(T)] + Allocate!Total(g, T \ {OneOf(T)})
      BY <2>2, <3>1, TotalOneOf
    <3>4. T \ {OneOf(T)} \in G
      BY <3>2
    <3> QED BY <3>2, <3>3, <3>4
  <2> QED BY <2>1, <2>2
<1>3. \A T \in SUBSET K : T \in G
  <2> HIDE DEF G
  <2> QED BY <1>1, SubsetInduction
<1> QED BY <1>3

-------------------------------------------------------------------------------
(* The plans of the allocation: a change moves value and makes none, and what *)
(* is planned can be paid and delivered.                                       *)

TermOf(f, D, x) == IF x \in D THEN f[x] ELSE 0

\* A sum after one of its terms has changed or joined.
LEMMA TotalChanged ==
  ASSUME NEW D, IsFiniteSet(D), NEW f, \A d \in D : f[d] \in Int, NEW x, NEW g, g[x] \in Int,
         \A d \in D \ {x} : g[d] = f[d]
  PROVE  /\ Allocate!Total(f, D) \in Int
         /\ Allocate!Total(g, D \cup {x}) = Allocate!Total(f, D) - TermOf(f, D, x) + g[x]
<1> DEFINE E == D \cup {x}
           rest == D \ {x}
<1>1. IsFiniteSet(E) /\ IsFiniteSet(rest) /\ x \in E /\ E \ {x} = rest
  BY FS_AddElement, FS_RemoveElement
<1>2. \A d \in E : g[d] \in Int
  OBVIOUS
<1> HIDE DEF E
<1>3. Allocate!Total(g, E) = g[x] + Allocate!Total(g, E \ {x})
  BY <1>1, <1>2, TotalRemove
<1>4. Allocate!Total(f, D) \in Int /\ Allocate!Total(f, rest) \in Int
  BY TotalInt
<1>5. Allocate!Total(g, rest) = Allocate!Total(f, rest)
  BY <1>1, TotalSame
<1>6. Allocate!Total(g, E) = g[x] + Allocate!Total(f, rest)
  BY <1>1, <1>3, <1>5
<1>7. Allocate!Total(f, D) = (IF x \in D THEN f[x] ELSE 0) + Allocate!Total(f, rest)
  <2>1. CASE x \in D
    <3>1. Allocate!Total(f, D) = f[x] + Allocate!Total(f, rest)
      BY <2>1, TotalRemove
    <3> QED BY <2>1, <3>1
  <2>2. CASE x \notin D
    <3>1. rest = D
      BY <2>2
    <3> HIDE DEF rest
    <3> QED BY <1>4, <2>2, <3>1
  <2> QED BY <2>1, <2>2
<1> DEFINE old == IF x \in D THEN f[x] ELSE 0
<1>8. old \in Int
  OBVIOUS
<1>9. Allocate!Total(f, D) = old + Allocate!Total(f, rest)
  BY <1>7
<1> HIDE DEF old, rest
<1>10. Allocate!Total(g, E) = Allocate!Total(f, D) - old + g[x]
  BY <1>4, <1>6, <1>8, <1>9
<1> QED BY <1>4, <1>10 DEF E, old, TermOf

BookSound(book) == IsFiniteSet(DOMAIN book) /\ book \in [DOMAIN book -> Allocate!Row]

PortfolioSound(p) ==
  /\ BookSound(p.rows)
  /\ p.cash \in Nat /\ p.cash = Allocate!CashBeside(p.rows)

\* What is in no position is cash.
LEMMA ChangeSound ==
  ASSUME Allocate!AllocationConstants, NEW p, PortfolioSound(p), NEW change \in [symbol : Assets, target : Nat]
  PROVE  PortfolioSound(Allocate!Change(p, change))
<1> DEFINE held == DOMAIN p.rows
           x == change.symbol
           old == IF x \in held THEN p.rows[x] ELSE [quantity |-> 0, price |-> None, value |-> 0]
           left == p.cash + old.value - change.target
           now_ == [old EXCEPT !.value = change.target]
           book == [s \in held \cup {x} |-> IF s = x THEN now_ ELSE p.rows[s]]
<1>1. change.target \in Nat /\ p.cash \in Nat /\ NavUnits \in Nat
  BY DEF PortfolioSound, Allocate!AllocationConstants
<1>2. old \in Allocate!Row
  BY DEF PortfolioSound, BookSound, Allocate!Row
<1>3. old.value \in Nat /\ old.value = (IF x \in held THEN p.rows[x].value ELSE 0)
  BY <1>2 DEF Allocate!Row
<1>4. CASE left < 0
  BY <1>4 DEF Allocate!Change
<1>5. CASE ~(left < 0)
  <2>1. Allocate!Change(p, change) = [rows |-> book, cash |-> left]
    BY <1>5 DEF Allocate!Change
  <2>2. now_ \in Allocate!Row /\ now_.value = change.target
    BY <1>1, <1>2 DEF Allocate!Row
  <2> HIDE DEF old, now_
  <2>3. BookSound(book)
    <3>1. IsFiniteSet(DOMAIN book)
      BY FS_AddElement DEF PortfolioSound, BookSound
    <3>2. \A s \in DOMAIN book : book[s] \in Allocate!Row
      BY <2>2 DEF PortfolioSound, BookSound
    <3> QED BY <3>1, <3>2 DEF BookSound
  <2>4. Allocate!CashBeside(book) = left
    <3> DEFINE f == [s \in held |-> p.rows[s].value]
               g == [s \in held \cup {x} |-> book[s].value]
    <3>1. Allocate!CashBeside(p.rows) = NavUnits - Allocate!Total(f, held)
      BY DEF Allocate!CashBeside
    <3>2. Allocate!CashBeside(book) = NavUnits - Allocate!Total(g, held \cup {x})
      BY DEF Allocate!CashBeside
    <3>3. /\ IsFiniteSet(held) /\ \A s \in held : f[s] \in Int
          /\ g[x] = change.target /\ \A s \in held \ {x} : g[s] = f[s]
          /\ x \in held => f[x] = p.rows[x].value
      BY <2>2 DEF PortfolioSound, BookSound, Allocate!Row
    <3> HIDE DEF f, g, held, book, x
    <3>4. /\ Allocate!Total(f, held) \in Int
          /\ Allocate!Total(g, held \cup {x}) = Allocate!Total(f, held) - TermOf(f, held, x) + g[x]
      <4>1. g[x] \in Int
        BY <1>1, <3>3
      <4>2. IsFiniteSet(held) /\ \A s \in held : f[s] \in Int
        BY <3>3
      <4>3. \A s \in held \ {x} : g[s] = f[s]
        BY <3>3
      <4> QED BY <4>1, <4>2, <4>3, TotalChanged
    <3>5. old.value = TermOf(f, held, x)
      BY <1>3, <3>3 DEF TermOf
    <3> QED BY <1>1, <1>3, <3>1, <3>2, <3>3, <3>4, <3>5 DEF PortfolioSound
  <2>5. left \in Nat
    BY <1>1, <1>3, <1>5
  <2> HIDE DEF book, left
  <2> QED BY <2>1, <2>3, <2>4, <2>5 DEF PortfolioSound
<1> QED BY <1>4, <1>5

\* The portfolios of the changes, one after another.
AppliedUpto(book, wanted, after) ==
  [n \in 0 .. Len(wanted) |->
      IF n = 0 THEN [rows |-> book, cash |-> Allocate!CashBeside(book)]
      ELSE Allocate!Change(after[n - 1], wanted[n])]

LEMMA AppliedExists ==
  ASSUME NEW book, NEW wanted, Len(wanted) \in Nat
  PROVE  \E o : o = AppliedUpto(book, wanted, o)
<1> DEFINE Good(n) == \E o : \A m \in 0 .. n : o[m] = AppliedUpto(book, wanted, o)[m]
           Missing == {n \in 0 .. Len(wanted) : ~Good(n)}
           first == [rows |-> book, cash |-> Allocate!CashBeside(book)]
<1>1. Missing = {}
  <2> SUFFICES ASSUME Missing # {} PROVE FALSE
    OBVIOUS
  <2>1. PICK n \in Missing : \A m \in Missing : n <= m
    <3>1. Missing \in SUBSET Nat
      OBVIOUS
    <3> HIDE DEF Missing
    <3> QED BY <3>1, LeastElement
  <2>2. CASE n = 0
    <3>1. \A m \in 0 .. 0 : [k \in {0} |-> first][m] = AppliedUpto(book, wanted, [k \in {0} |-> first])[m]
      BY DEF AppliedUpto
    <3> QED BY <3>1, <2>2
  <2>3. CASE n # 0
    <3>1. Good(n - 1)
      <4>1. n - 1 \in 0 .. Len(wanted) /\ ~(n <= n - 1)
        BY <2>3
      <4> HIDE DEF Good
      <4> QED BY <4>1, <2>1
    <3>2. PICK o : \A m \in 0 .. n - 1 : o[m] = AppliedUpto(book, wanted, o)[m]
      BY <3>1
    <3> DEFINE p == AppliedUpto(book, wanted, o)
    <3>3. \A m \in 0 .. n : p[m] = AppliedUpto(book, wanted, p)[m]
      <4> SUFFICES ASSUME NEW m \in 0 .. n PROVE p[m] = AppliedUpto(book, wanted, p)[m]
        OBVIOUS
      <4>0. m \in 0 .. Len(wanted)
        OBVIOUS
      <4>1. CASE m = 0
        BY <4>0, <4>1 DEF AppliedUpto
      <4>2. CASE m # 0
        <5>1. m - 1 \in 0 .. n - 1
          BY <4>2
        <5>2. p[m - 1] = o[m - 1]
          BY <5>1, <3>2
        <5>3. p[m] = Allocate!Change(o[m - 1], wanted[m])
          BY <4>0, <4>2 DEF AppliedUpto
        <5>4. AppliedUpto(book, wanted, p)[m] = Allocate!Change(p[m - 1], wanted[m])
          <6> HIDE DEF p
          <6> QED BY <4>0, <4>2 DEF AppliedUpto
        <5> QED BY <5>2, <5>3, <5>4
      <4> QED BY <4>1, <4>2
    <3> QED BY <3>3
  <2> QED BY <2>2, <2>3
<1>2. Good(Len(wanted))
  BY <1>1
<1>3. PICK o : \A m \in 0 .. Len(wanted) : o[m] = AppliedUpto(book, wanted, o)[m]
  BY <1>2
<1> DEFINE p == AppliedUpto(book, wanted, o)
<1>4. \A m \in 0 .. Len(wanted) : p[m] = o[m]
  BY <1>3
<1>5. p = AppliedUpto(book, wanted, p)
  <2>1. \A m \in 0 .. Len(wanted) : m # 0 => p[m - 1] = o[m - 1]
    BY <1>4
  <2>2. p = [n \in 0 .. Len(wanted) |-> IF n = 0 THEN first ELSE Allocate!Change(o[n - 1], wanted[n])]
    BY DEF AppliedUpto
  <2>3. AppliedUpto(book, wanted, p) = [n \in 0 .. Len(wanted) |-> IF n = 0 THEN first ELSE Allocate!Change(p[n - 1], wanted[n])]
    BY DEF AppliedUpto
  <2> HIDE DEF p, first
  <2> QED BY <2>1, <2>2, <2>3
<1> QED BY <1>5

LEMMA AppliedSound ==
  ASSUME Allocate!AllocationConstants, NEW book \in Holdings, NEW wanted \in Changes, Allocate!CashBeside(book) >= 0
  PROVE  PortfolioSound(Allocate!Applied(book, wanted))
<1> DEFINE o == CHOOSE p : p = AppliedUpto(book, wanted, p)
           Right(n) == PortfolioSound(o[n])
           Wrong == {n \in 0 .. Len(wanted) : ~Right(n)}
<1>0. wanted \in Seq([symbol : Assets, target : Nat]) /\ Len(wanted) \in Nat
  <2>1. wanted \in Seq([symbol : Assets, target : Nat])
    BY Zenon DEF Allocate!AllocationConstants
  <2> QED BY <2>1
<1>1. o = AppliedUpto(book, wanted, o)
  BY <1>0, AppliedExists
<1>2. Allocate!Applied(book, wanted) = o[Len(wanted)]
  BY DEF Allocate!Applied, AppliedUpto
<1> HIDE DEF o
<1>3. Right(0)
  <2> DEFINE first == [rows |-> book, cash |-> Allocate!CashBeside(book)]
  <2>1. o[0] = first
    <3>1. AppliedUpto(book, wanted, o)[0] = first
      BY <1>0 DEF AppliedUpto
    <3> QED BY <1>1, <3>1
  <2>2. BookSound(book)
    <3>1. Allocate!IsFiniteSet(DOMAIN book) /\ book \in [DOMAIN book -> Allocate!Row]
      BY DEF Allocate!AllocationConstants
    <3>2. IsFiniteSet(DOMAIN book)
      BY <3>1 DEF Allocate!IsFiniteSet, IsFiniteSet
    <3> QED BY <3>1, <3>2 DEF BookSound
  <2>3. Allocate!CashBeside(book) \in Int
    <3> DEFINE f == [s \in DOMAIN book |-> book[s].value]
    <3>1. IsFiniteSet(DOMAIN book) /\ \A s \in DOMAIN book : f[s] \in Int
      BY <2>2 DEF BookSound, Allocate!Row
    <3> HIDE DEF f
    <3>2. Allocate!Total(f, DOMAIN book) \in Int
      BY <3>1, TotalInt
    <3>3. Allocate!CashBeside(book) = NavUnits - Allocate!Total(f, DOMAIN book)
      BY DEF Allocate!CashBeside, f
    <3> QED BY <3>2, <3>3 DEF Allocate!AllocationConstants
  <2> QED BY <2>1, <2>2, <2>3 DEF PortfolioSound
<1>4. ASSUME NEW n \in 1 .. Len(wanted), Right(n - 1) PROVE Right(n)
  <2>1. o[n] = Allocate!Change(o[n - 1], wanted[n])
    <3>1. AppliedUpto(book, wanted, o)[n] = Allocate!Change(o[n - 1], wanted[n])
      BY <1>0 DEF AppliedUpto
    <3> QED BY <1>1, <3>1
  <2> DEFINE C == [symbol : Assets, target : Nat]
  <2>2. wanted[n] \in C
    <3>1. wanted \in Seq(C)
      BY <1>0
    <3> HIDE DEF C
    <3> QED BY <1>0, <3>1, ElementOfSeq
  <2> QED BY <1>4, <2>1, <2>2, ChangeSound
<1> HIDE DEF Right
<1>5. Wrong = {}
  <2> SUFFICES ASSUME Wrong # {} PROVE FALSE
    OBVIOUS
  <2>1. PICK n \in Wrong : \A m \in Wrong : n <= m
    <3>1. Wrong \in SUBSET Nat
      BY <1>0
    <3> HIDE DEF Wrong
    <3> QED BY <3>1, LeastElement
  <2>2. n # 0
    BY <1>3, <2>1
  <2>3. n \in 1 .. Len(wanted) /\ n - 1 \in 0 .. Len(wanted) /\ ~(n <= n - 1)
    BY <1>0, <2>1, <2>2
  <2>4. Right(n - 1)
    BY <2>1, <2>3
  <2> QED BY <1>4, <2>1, <2>3, <2>4
<1>6. Right(Len(wanted))
  BY <1>0, <1>5
<1> QED BY <1>2, <1>6 DEF Right

\* Whole lots of what a value pays.
LEMMA LotFacts ==
  ASSUME NEW v \in Nat, NEW u \in Nat \ {0}, Allocate!AllocationConstants
  PROVE  LET n == Allocate!WholeLots(v, u)
         IN  n \in Nat /\ n % Lot = 0 /\ u * n <= v
<1> DEFINE q == v \div (u * Lot)
           n == q * Lot
<1>0. Lot \in Nat \ {0}
  BY DEF Allocate!AllocationConstants
<1>1. u * Lot \in Nat \ {0}
  BY <1>0
<1>2. q \in Nat /\ (u * Lot) * q <= v
  <2> DEFINE w == u * Lot
  <2>1. w \in Nat \ {0}
    BY <1>1
  <2> HIDE DEF w
  <2>2. v \div w \in Nat /\ w * (v \div w) <= v
    BY <2>1
  <2> QED BY <2>2 DEF w
<1>3. Allocate!WholeLots(v, u) = n
  BY DEF Allocate!WholeLots
<1> HIDE DEF q
<1>4. n \in Nat /\ u * n = (u * Lot) * q
  BY <1>0, <1>2
<1>5. n % Lot = 0
  BY <1>0, <1>2
<1> QED BY <1>2, <1>3, <1>4, <1>5

LEMMA GreaterFacts ==
  ASSUME NEW a \in Int, NEW b \in Int
  PROVE  /\ Allocate!Greater(a, b) \in {a, b} /\ Allocate!Greater(a, b) >= a /\ Allocate!Greater(a, b) >= b
         /\ Allocate!Lesser(a, b) \in {a, b} /\ Allocate!Lesser(a, b) <= a /\ Allocate!Lesser(a, b) <= b
BY DEF Allocate!Greater, Allocate!Lesser

\* A purchase that starts a position is in whole lots, is paid with its costs, and keeps
\* the position under its maximum.
LEMMA BuyFacts ==
  ASSUME Allocate!AllocationConstants, NEW d, d.target \in Int, d.max \in Int,
         NEW money \in Nat, NEW price \in Nat \ {0}
  PROVE  LET p == Allocate!BuyPlan(d, money, 0, price)
         IN  p.change > 0 =>
               /\ p.price = price
               /\ p.change % Lot = 0
               /\ Allocate!BuyCost(p.change, price) <= money
               /\ p.change * price <= d.max
<1> DEFINE rate == Allocate!Whole + Allocate!Commission + Allocate!Slippage
           cost == price * rate
           want == Allocate!Greater(0, d.target - 0 * price) * Allocate!Whole
           most == Allocate!Greater(0, d.max - 0 * price)
           wanted == Allocate!WholeLots(want, cost)
           afforded == Allocate!WholeLots(money * Allocate!Whole, cost)
           allowed == Allocate!WholeLots(most, price)
           n == Allocate!Lesser(wanted, Allocate!Lesser(afforded, allowed))
           p == Allocate!BuyPlan(d, money, 0, price)
<1>0. Lot \in Nat \ {0}
  BY DEF Allocate!AllocationConstants
<1>1. /\ p = IF n < Lot THEN Allocate!Plan(FALSE, 0, money, 0, price)
             ELSE Allocate!Plan(TRUE, n, Allocate!Greater(0, money - Allocate!BuyCost(n, price)), 0 + n, price)
      /\ Allocate!BuyCost(n, price) = (n * price * rate + Allocate!Whole - 1) \div Allocate!Whole
  BY DEF Allocate!BuyPlan, Allocate!BuyCost
<1>9. rate = 10015 /\ Allocate!Whole = 10000
  BY DEF Allocate!Whole, Allocate!Commission, Allocate!Slippage
<1> HIDE DEF rate
<1>2. 0 * price = 0 /\ cost \in Nat \ {0} /\ money * Allocate!Whole \in Nat /\ money * Allocate!Whole = money * 10000
  BY <1>9
<1>3. want \in Nat /\ most \in Nat /\ most \in {0, d.max}
  BY <1>2, <1>9 DEF Allocate!Greater
<1> HIDE DEF cost, want, most
<1>4. /\ wanted \in Nat /\ wanted % Lot = 0
      /\ afforded \in Nat /\ afforded % Lot = 0 /\ cost * afforded <= money * 10000
      /\ allowed \in Nat /\ allowed % Lot = 0 /\ price * allowed <= most
  BY <1>2, <1>3, LotFacts
<1> HIDE DEF wanted, afforded, allowed
<1>5. n \in Nat /\ n % Lot = 0 /\ n <= afforded /\ n <= allowed
  BY <1>4 DEF Allocate!Lesser
<1> HIDE DEF n, p
<1>6. CASE n < Lot
  <2>1. p.change = 0
    BY <1>1, <1>6 DEF Allocate!Plan
  <2> QED BY <2>1 DEF p
<1>7. CASE ~(n < Lot)
  <2>1. p.change = n /\ p.price = price
    BY <1>1, <1>7 DEF Allocate!Plan
  <2>2. n > 0
    BY <1>0, <1>5, <1>7
  <2>3. cost * n <= cost * afforded /\ cost * afforded \in Nat /\ cost * n \in Nat
    BY <1>2, <1>4, <1>5
  <2>4. n * price * rate = cost * n
    BY <1>5, <1>9 DEF cost
  <2>5. n * price * rate <= money * 10000 /\ n * price * rate \in Nat
    BY <1>2, <1>4, <2>3, <2>4
  <2>6. Allocate!BuyCost(n, price) <= money
    <3> DEFINE g == n * price * rate
    <3>1. g \in Nat /\ g <= money * 10000
      BY <2>5
    <3> HIDE DEF g
    <3>2. (g + 10000 - 1) \div 10000 <= money
      BY <3>1
    <3> QED BY <1>1, <1>9, <3>2 DEF g
  <2>7. price * n <= price * allowed /\ price * n > 0 /\ price * allowed \in Nat
    BY <1>4, <1>5, <2>2
  <2>8. n * price = price * n
    BY <1>5
  <2>9. n * price <= d.max
    <3> DEFINE g == price * n
               h == price * allowed
    <3>1. g <= h /\ g > 0 /\ h \in Nat /\ g \in Int /\ h <= most
      BY <1>4, <1>5, <2>7
    <3> HIDE DEF g, h
    <3>2. g <= d.max
      BY <1>3, <3>1
    <3> QED BY <2>8, <3>2 DEF g
  <2> QED BY <1>5, <2>1, <2>6, <2>9 DEF p
<1> QED BY <1>6, <1>7

\* A reduction sells something and leaves something.
LEMMA ReduceFacts ==
  ASSUME Allocate!AllocationConstants, NEW d, d.target \in Int,
         NEW money \in Nat, NEW quantity \in Nat, NEW price \in Nat \ {0}
  PROVE  LET p == Allocate!ReducePlan(d, money, quantity, price)
         IN  p.executable => 0 < p.quantity /\ p.quantity < quantity
<1> DEFINE excess == Allocate!Greater(0, quantity * price - d.target)
           below == Allocate!Lesser(quantity, Allocate!WholeLots(excess, price))
           above == Allocate!Lesser(quantity, Allocate!WholeLots(excess + price * Lot - 1, price))
           Left(n) == (quantity - n) * price
           Inside(n) == d.min <= Left(n) /\ Left(n) <= d.max
           Error(n) == Allocate!Greater(Left(n) - d.target, d.target - Left(n))
           Better(m, n) == \/ Inside(m) /\ ~Inside(n)
                           \/ (Inside(m) <=> Inside(n)) /\ Error(m) < Error(n)
                           \/ (Inside(m) <=> Inside(n)) /\ Error(m) = Error(n) /\ m > n
           first == {n \in {below, above} : 0 < n /\ n < quantity}
           second == {n \in {Allocate!Greater(0, Allocate!Lesser(below, quantity - Lot))} : n >= Lot}
           choice == IF first # {} THEN first ELSE second
           sale == CHOOSE n \in choice : \A m \in choice \ {n} : Better(n, m)
           p == Allocate!ReducePlan(d, money, quantity, price)
<1>0. Lot \in Nat \ {0}
  BY DEF Allocate!AllocationConstants
<1>1. p = IF choice = {} THEN Allocate!Plan(FALSE, 0, money, quantity, price)
          ELSE Allocate!Plan(TRUE, -sale, money + Allocate!Proceeds(sale, price), quantity - sale, price)
  BY DEF Allocate!ReducePlan
<1>2. excess \in Nat
  <2>1. quantity * price - d.target \in Int
    OBVIOUS
  <2> HIDE DEF excess
  <2> QED BY <2>1, GreaterFacts DEF excess
<1>3. excess + price * Lot - 1 \in Nat
  <2>1. price * Lot \in Nat \ {0}
    BY <1>0
  <2> HIDE DEF excess
  <2> QED BY <1>2, <2>1
<1> HIDE DEF excess
<1>4. below \in Nat /\ above \in Nat
  BY <1>2, <1>3, LotFacts, GreaterFacts DEF Allocate!Lesser
<1> HIDE DEF below, above
<1>5. \A n \in choice : n \in Int /\ 0 < n /\ n < quantity
  <2>1. \A n \in first : n \in Int /\ 0 < n /\ n < quantity
    BY <1>4
  <2>2. \A n \in second : n \in Int /\ 0 < n /\ n < quantity
    BY <1>0, <1>4 DEF Allocate!Lesser, Allocate!Greater
  <2> HIDE DEF first, second
  <2> QED BY <2>1, <2>2
<1>6. choice # {} => sale \in choice
  <2> SUFFICES ASSUME choice # {} PROVE \E n \in choice : \A m \in choice \ {n} : Better(n, m)
    <3> HIDE DEF choice, Better
    <3> QED OBVIOUS
  <2>1. PICK a, b : choice \subseteq {a, b} /\ a \in choice /\ b \in choice
    <3>1. \E a, b : first \subseteq {a, b}
      OBVIOUS
    <3>2. \E a, b : second \subseteq {a, b}
      OBVIOUS
    <3> HIDE DEF first, second
    <3>3. PICK a, b : choice \subseteq {a, b}
      BY <3>1, <3>2
    <3> HIDE DEF choice
    <3>4. CASE a \in choice /\ b \in choice
      BY <3>3, <3>4
    <3>5. CASE a \notin choice
      <4>1. choice \subseteq {b, b} /\ b \in choice
        BY <3>3, <3>5
      <4> QED BY <4>1
    <3>6. CASE b \notin choice
      <4>1. choice \subseteq {a, a} /\ a \in choice
        BY <3>3, <3>6
      <4> QED BY <4>1
    <3> QED BY <3>4, <3>5, <3>6
  <2>2. a \in Int /\ b \in Int
    BY <1>5, <2>1
  <2>3. Left(a) \in Int /\ Left(b) \in Int
    BY <2>2
  <2>4. Error(a) \in Int /\ Error(b) \in Int
    <3> HIDE DEF Left
    <3> QED BY <2>3 DEF Allocate!Greater
  <2>5. a = b \/ Better(a, b) \/ Better(b, a)
    <3> HIDE DEF Error, Inside
    <3> QED BY <2>2, <2>4
  <2> HIDE DEF choice, Better
  <2> QED BY <2>1, <2>5
<1> HIDE DEF choice, sale, p
<1>7. CASE choice = {}
  <2>1. p.executable = FALSE
    BY <1>1, <1>7 DEF Allocate!Plan
  <2> QED BY <2>1 DEF p
<1>8. CASE choice # {}
  <2>1. p.quantity = quantity - sale
    BY <1>1, <1>8 DEF Allocate!Plan
  <2>2. sale \in Int /\ 0 < sale /\ sale < quantity
    BY <1>5, <1>6, <1>8
  <2> QED BY <2>1, <2>2 DEF p
<1> QED BY <1>7, <1>8

\* The most a position may be given is under the hard cap.
Sized(c) ==
  /\ c.sizing.mid \in Int /\ c.sizing.max \in Int
  /\ c.sizing.max <= Allocate!HardCap

LEMMA CapFacts ==
  ASSUME Allocate!AllocationConstants, NEW fit
  PROVE  /\ Allocate!HardCap \in Nat
         /\ Allocate!RiskCap(fit) \in Int /\ Allocate!RiskCap(fit) <= Allocate!HardCap
<1>0. NavUnits \in Nat
  BY DEF Allocate!AllocationConstants
<1>1. Allocate!HardCap \in Nat
  BY <1>0 DEF Allocate!HardCap, Allocate!Percent
<1>2. \A n \in Nat : /\ (n * 60) \div 100 \in Int /\ (n * 60) \div 100 <= n
                     /\ (n * 25) \div 100 \in Int /\ (n * 25) \div 100 <= n
                     /\ n \div 2 \in Int /\ n \div 2 <= n
  OBVIOUS
<1> DEFINE h == Allocate!HardCap
<1>3. Allocate!RiskCap(fit) \in {h, (h * 60) \div 100, (h * 25) \div 100, h \div 2}
  <2> HIDE DEF h
  <2>1. CASE fit = "GOOD"
    BY <2>1 DEF Allocate!RiskCap, h
  <2>2. CASE fit = "MODERATE"
    BY <2>2 DEF Allocate!RiskCap, h
  <2>3. CASE fit = "WEAK"
    BY <2>3 DEF Allocate!RiskCap, h
  <2>4. CASE fit \notin {"GOOD", "MODERATE", "WEAK"}
    BY <2>4 DEF Allocate!RiskCap, h
  <2> QED BY <2>1, <2>2, <2>3, <2>4
<1> HIDE DEF h
<1>4. h \in Nat
  BY <1>1 DEF h
<1>5. Allocate!RiskCap(fit) \in Int /\ Allocate!RiskCap(fit) <= h
  BY <1>2, <1>3, <1>4
<1> QED BY <1>1, <1>5 DEF h

LEMMA SizingFacts ==
  ASSUME Allocate!AllocationConstants, NEW s, NEW m, NEW t
  PROVE  Sized(Allocate!Hydrated(s, m, t))
<1> DEFINE given == Allocate!Classified(s).eligibility
           signal == [rejects |-> given.rejects, tier |-> given.tier,
                      safety |-> given.safety, confidence |-> given.confidence]
           fit == Allocate!ProposedFit(m)
           band == Allocate!Band(signal)
           c == Allocate!Hydrated(s, m, t)
<1>1. c.sizing = Allocate!Sizing(signal, fit)
  <2> HIDE DEF signal
  <2>1. \A a, b, d, e : [eligibility |-> a, fit |-> b, sizing |-> d, tier |-> e].sizing = d
    OBVIOUS
  <2> QED BY <2>1 DEF Allocate!Hydrated, signal, given
<1> HIDE DEF signal, fit, given
<1>2. /\ band[2] \in Int /\ band[3] \in Int
  BY DEF Allocate!Band
<1>3. /\ c.sizing.mid = Allocate!Lesser(Allocate!Percent(band[2]), Allocate!RiskCap(fit))
      /\ c.sizing.max = Allocate!Lesser(Allocate!Percent(band[3]), Allocate!RiskCap(fit))
  <2> HIDE DEF c, band
  <2> QED BY <1>1 DEF Allocate!Sizing, band
<1> HIDE DEF band, c
<1>4. Allocate!Percent(band[2]) \in Int /\ Allocate!Percent(band[3]) \in Int
  BY <1>2 DEF Allocate!Percent, Allocate!AllocationConstants
<1>5. Allocate!RiskCap(fit) \in Int /\ Allocate!RiskCap(fit) <= Allocate!HardCap /\ Allocate!HardCap \in Nat
  BY CapFacts
<1>6. c.sizing.mid \in Int /\ c.sizing.max \in Int /\ c.sizing.max <= Allocate!RiskCap(fit)
  BY <1>3, <1>4, <1>5, GreaterFacts
<1>7. c.sizing.max <= Allocate!HardCap
  BY <1>5, <1>6
<1> QED BY <1>6, <1>7 DEF Sized, c

\* A decision before it is planned; what is to be reduced has a target.
Unplanned(d) ==
  /\ "action" \in DOMAIN d /\ "plan" \in DOMAIN d
  /\ d.plan = None
  /\ d.action = "REDUCE" => d.target \in Int

LEMMA TargetType ==
  ASSUME Allocate!AllocationConstants, NEW weight \in Nat, NEW limit \in Int
  PROVE  Allocate!ReduceTarget(weight, limit) \in Int
<1>1. NavUnits \div 200 \in Int /\ weight \div 2 \in Int
  BY DEF Allocate!AllocationConstants
<1>2. Allocate!Lesser(weight \div 2, limit) \in Int
  BY <1>1, GreaterFacts
<1>3. Allocate!Greater(NavUnits \div 200, Allocate!Lesser(weight \div 2, limit)) \in Int
  BY <1>1, <1>2, GreaterFacts
<1> QED BY <1>1, <1>3 DEF Allocate!ReduceTarget

LEMMA HoldingUnplanned ==
  ASSUME Allocate!AllocationConstants, NEW e, NEW weight \in Nat, NEW evidence
  PROVE  Unplanned(Allocate!DecideHolding(e, weight, evidence))
<1>1. \A a, t, r : a # "REDUCE" => Unplanned(Allocate!Decision(a, weight, t, r))
  BY DEF Unplanned, Allocate!Decision
<1>2. \A limit \in Int : \A r : Unplanned(Allocate!Reduce(weight, limit, r))
  <2> SUFFICES ASSUME NEW limit \in Int, NEW r PROVE Unplanned(Allocate!Reduce(weight, limit, r))
    OBVIOUS
  <2> DEFINE mid == Allocate!ReduceTarget(weight, limit)
  <2>1. mid \in Int
    BY TargetType
  <2>2. Allocate!Reduce(weight, limit, r) = [Allocate!Decision("REDUCE", weight, mid, r) EXCEPT
                                                !.min = mid \div 2, !.max = (mid * 5) \div 4]
    BY DEF Allocate!Reduce
  <2> HIDE DEF mid
  <2> QED BY <2>1, <2>2 DEF Unplanned, Allocate!Decision
<1>3. \A t, r : Unplanned([Allocate!Decision("HOLD", weight, t, r) EXCEPT !.confidence = "LOW"])
  BY DEF Unplanned, Allocate!Decision
<1>4. Allocate!Percent(5) \in Int /\ Allocate!Percent(15) \in Int
  BY DEF Allocate!Percent, Allocate!AllocationConstants
<1>5. "SELL" # "REDUCE" /\ "HOLD" # "REDUCE"
  OBVIOUS
<1> QED BY <1>1, <1>2, <1>3, <1>4, <1>5 DEF Allocate!DecideHolding

\* What is planned of a decision to reduce.
ReductionRight(d, quantity) ==
  d.action = "REDUCE" /\ d.plan # None /\ d.plan.executable => 0 < d.plan.quantity /\ d.plan.quantity < quantity

LEMMA UnplannedRight == ASSUME NEW d, Unplanned(d), NEW quantity PROVE ReductionRight(d, quantity)
BY DEF Unplanned, ReductionRight

LEMMA ReductionFacts ==
  ASSUME Allocate!AllocationConstants, NEW d, d.action = "REDUCE" => d.target \in Int,
         "action" \in DOMAIN d, "plan" \in DOMAIN d,
         NEW money \in Nat, NEW quantity \in Nat, NEW price \in (Nat \ {0}) \cup {None}
  PROVE  ReductionRight([d EXCEPT !.plan = Allocate!ExecutionPlan(d, money, quantity, price)], quantity)
<1> DEFINE p == Allocate!ExecutionPlan(d, money, quantity, price)
           planned == [d EXCEPT !.plan = p]
<1> HIDE DEF p
<1>1. planned.action = d.action /\ planned.plan = p
  OBVIOUS
<1> HIDE DEF planned
<1>2. CASE d.action # "REDUCE"
  BY <1>1, <1>2 DEF ReductionRight, planned, p
<1>3. CASE d.action = "REDUCE" /\ price = None
  <2>1. p = Allocate!Plan(FALSE, 0, money, quantity, 0)
    BY <1>3 DEF Allocate!ExecutionPlan, p
  <2>2. p.executable = FALSE
    BY <2>1 DEF Allocate!Plan
  <2> QED BY <1>1, <2>2 DEF ReductionRight, planned, p
<1>4. CASE d.action = "REDUCE" /\ price # None
  <2>1. p = Allocate!ReducePlan(d, money, quantity, price)
    BY <1>4 DEF Allocate!ExecutionPlan, p
  <2>2. price \in Nat \ {0} /\ d.target \in Int
    BY <1>4
  <2>3. p.executable => 0 < p.quantity /\ p.quantity < quantity
    BY <2>1, <2>2, ReduceFacts
  <2> QED BY <1>1, <2>3 DEF ReductionRight, planned, p
<1> QED BY <1>2, <1>3, <1>4

\* What is planned of a decision on a candidate.
PurchaseRight(d, money) ==
  LET p == d.plan
  IN  p # None /\ p.change > 0 =>
        /\ p.change % Lot = 0
        /\ Allocate!BuyCost(p.change, p.price) <= money
        /\ p.change * p.price <= Allocate!Lesser(Allocate!HardCap, d.max)

LEMMA CandidateUnplanned ==
  ASSUME NEW c, NEW weight, NEW funded, Sized(c)
  PROVE  LET d == Allocate!DecideCandidate(c, weight, funded)
         IN  /\ "action" \in DOMAIN d /\ "plan" \in DOMAIN d /\ "max" \in DOMAIN d
             /\ \/ d.action = "WATCH"
                \/ /\ d.action = "BUY_MORE" /\ d.target \in Int /\ d.max \in Int
                   /\ d.max <= Allocate!HardCap
<1> DEFINE Good(d) == /\ "action" \in DOMAIN d /\ "plan" \in DOMAIN d /\ "max" \in DOMAIN d
                      /\ \/ d.action = "WATCH"
                         \/ /\ d.action = "BUY_MORE" /\ d.target \in Int /\ d.max \in Int
                            /\ d.max <= Allocate!HardCap
<1>1. \A r : Good(Allocate!Decision("WATCH", 0, None, r))
  BY DEF Allocate!Decision
<1>2. \A a, b : Good([Allocate!Decision("BUY_MORE", 0, c.sizing.mid, "GATES_PASSED") EXCEPT
                        !.min = a, !.max = c.sizing.max, !.confidence = b])
  <2> SUFFICES ASSUME NEW a, NEW b
               PROVE  Good([Allocate!Decision("BUY_MORE", 0, c.sizing.mid, "GATES_PASSED") EXCEPT
                        !.min = a, !.max = c.sizing.max, !.confidence = b])
    OBVIOUS
  <2> DEFINE mid == c.sizing.mid
             most == c.sizing.max
  <2>1. mid \in Int /\ most \in Int /\ most <= Allocate!HardCap
    BY DEF Sized
  <2> HIDE DEF mid, most
  <2>2. Good([Allocate!Decision("BUY_MORE", 0, mid, "GATES_PASSED") EXCEPT !.min = a, !.max = most, !.confidence = b])
    BY <2>1 DEF Allocate!Decision
  <2> HIDE DEF Good
  <2> QED BY <2>2 DEF mid, most
<1> HIDE DEF Good
<1>3. Good(Allocate!DecideCandidate(c, weight, funded))
  BY <1>1, <1>2 DEF Allocate!DecideCandidate
<1> QED BY <1>3 DEF Good

LEMMA PurchaseFacts ==
  ASSUME Allocate!AllocationConstants, NEW c, Sized(c), NEW weight, NEW funded,
         NEW money \in Nat, NEW price \in (Nat \ {0}) \cup {None}
  PROVE  LET d == Allocate!DecideCandidate(c, weight, funded)
         IN  PurchaseRight([d EXCEPT !.plan = Allocate!ExecutionPlan(d, money, 0, price)], money)
<1> DEFINE d == Allocate!DecideCandidate(c, weight, funded)
           p == Allocate!ExecutionPlan(d, money, 0, price)
           planned == [d EXCEPT !.plan = p]
<1>1. /\ "plan" \in DOMAIN d /\ "max" \in DOMAIN d
      /\ \/ d.action = "WATCH"
         \/ /\ d.action = "BUY_MORE" /\ d.target \in Int /\ d.max \in Int
            /\ d.max <= Allocate!HardCap
  BY CandidateUnplanned
<1> HIDE DEF d, p
<1>2. planned.plan = p /\ planned.max = d.max
  BY <1>1
<1> HIDE DEF planned
<1>3. CASE p.change = 0
  <2>1. ~(p.change > 0)
    BY <1>3
  <2> QED BY <1>2, <2>1 DEF PurchaseRight, planned, p, d
<1>4. d.action = "WATCH" => p.change = 0
  BY DEF Allocate!ExecutionPlan, Allocate!Plan, p
<1>5. d.action = "BUY_MORE" /\ price = None => p.change = 0
  BY DEF Allocate!ExecutionPlan, Allocate!Plan, p
<1>6. CASE d.action = "BUY_MORE" /\ price # None
  <2>1. p = Allocate!BuyPlan(d, money, 0, price)
    BY <1>6 DEF Allocate!ExecutionPlan, p
  <2>2. d.target \in Int /\ d.max \in Int /\ d.max <= Allocate!HardCap /\ price \in Nat \ {0}
    BY <1>1, <1>6
  <2>3. p.change > 0 =>
          /\ p.price = price
          /\ p.change % Lot = 0
          /\ Allocate!BuyCost(p.change, price) <= money
          /\ p.change * price <= d.max
    BY <2>1, <2>2, BuyFacts
  <2>4. Allocate!Lesser(Allocate!HardCap, d.max) = d.max
    <3>1. Allocate!HardCap \in Nat
      BY CapFacts
    <3> QED BY <2>2, <3>1 DEF Allocate!Lesser
  <2>5. PurchaseRight(planned, money)
    BY <1>2, <2>3, <2>4 DEF PurchaseRight
  <2> QED BY <2>5 DEF planned, p, d
<1> QED BY <1>1, <1>3, <1>4, <1>5, <1>6

\* What a report relies on: its money is all there, and each stage hands on what the
\* plans need of it.
MoneyInv == phase # "idle" => PortfolioSound([rows |-> rows, cash |-> cash])

PlansInv ==
  /\ MoneyInv
  /\ phase \in Deciding => \A s \in DOMAIN decisions : Unplanned(decisions[s])
  /\ \A s \in DOMAIN candidates : Sized(candidates[s])
  /\ \A s \in DOMAIN decisions : ReductionRight(decisions[s], rows[s].quantity)
  /\ \A s \in DOMAIN advice : PurchaseRight(advice[s], cash)

LEMMA MoneyFacts ==
  ASSUME MoneyInv, phase # "idle"
  PROVE  /\ BookSound(rows) /\ cash \in Nat /\ cash = Allocate!CashBeside(rows)
         /\ \A s \in Allocate!Held : rows[s].value \in Nat /\ rows[s].quantity \in Nat
                                     /\ Allocate!PriceOf(rows[s]) \in (Nat \ {0}) \cup {None}
<1>1. BookSound(rows) /\ cash \in Nat /\ cash = Allocate!CashBeside(rows)
  BY DEF MoneyInv, PortfolioSound
<1>2. ASSUME NEW s \in Allocate!Held
      PROVE  rows[s].value \in Nat /\ rows[s].quantity \in Nat /\ Allocate!PriceOf(rows[s]) \in (Nat \ {0}) \cup {None}
  <2>1. rows[s] \in Allocate!Row
    BY <1>1 DEF BookSound, Allocate!Held
  <2>2. rows[s].value \in Nat /\ rows[s].quantity \in Nat /\ rows[s].price \in Nat \cup {None}
    BY <2>1 DEF Allocate!Row
  <2> DEFINE implied == IF rows[s].quantity > 0 THEN rows[s].value \div rows[s].quantity ELSE 0
             price == IF rows[s].price \in {None, 0} THEN implied ELSE rows[s].price
  <2>3. implied \in Nat /\ price \in Nat
    BY <2>2
  <2>4. Allocate!PriceOf(rows[s]) = IF price > 0 THEN price ELSE None
    BY DEF Allocate!PriceOf
  <2> HIDE DEF implied, price
  <2>5. Allocate!PriceOf(rows[s]) \in (Nat \ {0}) \cup {None}
    BY <2>3, <2>4
  <2> QED BY <2>2, <2>5
<1> QED BY <1>1, <1>2

LEMMA PlansStart == Allocate!Init => PlansInv
<1> SUFFICES ASSUME Allocate!Init PROVE PlansInv
  OBVIOUS
<1>1. phase = "idle" /\ decisions = Allocate!NoFunction /\ candidates = Allocate!NoFunction /\ advice = Allocate!NoFunction
  BY DEF Allocate!Init
<1> QED BY <1>1, NothingYet DEF PlansInv, MoneyInv, Deciding

LEMMA BeginPlans ==
  ASSUME Allocate!AllocationConstants, AllocationInv, PlansInv,
         NEW book \in Holdings, NEW listed, NEW wanted \in Changes, Allocate!Begin(book, listed, wanted)
  PROVE  PlansInv'
<1>1. /\ phase = "idle" /\ phase' = "holdings" /\ Allocate!CashBeside(book) >= 0
      /\ rows' = Allocate!Applied(book, wanted).rows /\ cash' = Allocate!Applied(book, wanted).cash
      /\ decisions' = decisions /\ candidates' = candidates /\ advice' = advice
  BY DEF Allocate!Begin
<1>2. decisions' = Allocate!NoFunction /\ candidates' = Allocate!NoFunction /\ advice' = Allocate!NoFunction
  BY <1>1 DEF AllocationInv, Early
<1>3. MoneyInv'
  <2>1. PortfolioSound(Allocate!Applied(book, wanted))
    BY <1>1, AppliedSound
  <2>2. PortfolioSound([rows |-> rows', cash |-> cash'])
    BY <1>1, <2>1 DEF PortfolioSound
  <2> QED BY <2>2 DEF MoneyInv
<1> QED BY <1>1, <1>2, <1>3, NothingYet DEF PlansInv, Deciding

LEMMA DecideHoldingsPlans ==
  ASSUME Allocate!AllocationConstants, AllocationInv, PlansInv, NEW reported, Allocate!DecideHoldings(reported)
  PROVE  PlansInv'
<1>1. /\ phase = "holdings" /\ phase' \in {"candidates", "failed"}
      /\ UNCHANGED <<rows, cash, changes, items, mapped, candidates, advice, verdict>>
      /\ decisions' = [s \in Allocate!Held |-> Allocate!DecideHolding(Allocate!Eligibility(Allocate!SignalOf(s)), Allocate!Value(rows[s]), reported[s])]
  BY DEF Allocate!DecideHoldings
<1>2. ASSUME NEW s \in DOMAIN decisions' PROVE Unplanned(decisions'[s])
  <2>1. s \in Allocate!Held
    BY <1>1
  <2>2. Allocate!Value(rows[s]) \in Nat
    BY <1>1, <2>1, MoneyFacts DEF PlansInv, Allocate!Value
  <2>3. decisions'[s] = Allocate!DecideHolding(Allocate!Eligibility(Allocate!SignalOf(s)), Allocate!Value(rows[s]), reported[s])
    BY <1>1, <2>1
  <2> QED BY <2>2, <2>3, HoldingUnplanned
<1>3. \A s \in DOMAIN decisions' : ReductionRight(decisions'[s], rows'[s].quantity)
  BY <1>2, UnplannedRight
<1>4. MoneyInv'
  BY <1>1 DEF PlansInv, MoneyInv
<1> QED BY <1>1, <1>2, <1>3, <1>4 DEF PlansInv

LEMMA HydratePlans ==
  ASSUME Allocate!AllocationConstants, PlansInv, NEW kept \in Allocate!Shortlists, NEW atMiddle, NEW atTarget,
         Allocate!HydrateCandidates(kept, atMiddle, atTarget)
  PROVE  PlansInv'
<1>1. /\ phase = "candidates" /\ phase' = "rotation"
      /\ UNCHANGED <<rows, cash, changes, items, mapped, decisions, advice, verdict>>
      /\ candidates' = [s \in kept |-> Allocate!Hydrated(s, atMiddle[s], atTarget[s])]
  BY DEF Allocate!HydrateCandidates
<1>2. \A s \in DOMAIN candidates' : Sized(candidates'[s])
  BY <1>1, SizingFacts
<1> QED BY <1>1, <1>2 DEF PlansInv, MoneyInv, Deciding

LEMMA RotatePlans ==
  ASSUME Allocate!AllocationConstants, AllocationInv, PlansInv, Allocate!RotateAndPlan
  PROVE  PlansInv'
<1>1. /\ phase = "rotation" /\ phase' = "advice"
      /\ UNCHANGED <<rows, cash, changes, items, mapped, candidates, advice, verdict>>
      /\ decisions' = [s \in Allocate!Held |-> [Allocate!Rotated(s) EXCEPT !.plan =
                         Allocate!ExecutionPlan(Allocate!Rotated(s), cash, rows[s].quantity, Allocate!PriceOf(rows[s]))]]
  BY DEF Allocate!RotateAndPlan
<1>2. MoneyInv' /\ MoneyInv
  BY <1>1 DEF PlansInv, MoneyInv
<1>3. ASSUME NEW s \in DOMAIN decisions' PROVE ReductionRight(decisions'[s], rows'[s].quantity)
  <2>1. s \in Allocate!Held /\ s \in DOMAIN decisions /\ Unplanned(decisions[s])
    BY <1>1 DEF AllocationInv, PlansInv, Deciding
  <2> DEFINE d == Allocate!Rotated(s)
  <2>2. "action" \in DOMAIN d /\ "plan" \in DOMAIN d /\ (d.action = "REDUCE" => d.target \in Int)
    <3> DEFINE was == decisions[s]
               sold == [was EXCEPT !.action = "SELL", !.target = 0, !.reason = "SUPERIOR_REPLACEMENT"]
    <3>1. d \in {was, sold}
      BY DEF Allocate!Rotated
    <3>2. "action" \in DOMAIN was /\ "plan" \in DOMAIN was /\ (was.action = "REDUCE" => was.target \in Int)
      BY <2>1 DEF Unplanned
    <3> HIDE DEF was
    <3>3. "action" \in DOMAIN sold /\ "plan" \in DOMAIN sold /\ sold.action # "REDUCE"
      BY <3>2
    <3> HIDE DEF sold, d
    <3> QED BY <3>1, <3>2, <3>3
  <2>3. /\ cash \in Nat /\ rows[s].quantity \in Nat
        /\ Allocate!PriceOf(rows[s]) \in (Nat \ {0}) \cup {None}
    BY <1>1, <1>2, <2>1, MoneyFacts
  <2>4. decisions'[s] = [d EXCEPT !.plan = Allocate!ExecutionPlan(d, cash, rows[s].quantity, Allocate!PriceOf(rows[s]))]
    BY <1>1, <2>1
  <2> DEFINE n == rows[s].quantity
             price == Allocate!PriceOf(rows[s])
  <2> HIDE DEF d, n, price
  <2>5. ReductionRight([d EXCEPT !.plan = Allocate!ExecutionPlan(d, cash, n, price)], n)
    <3>1. cash \in Nat /\ n \in Nat /\ price \in (Nat \ {0}) \cup {None}
      BY <2>3 DEF n, price
    <3>2. d.action = "REDUCE" => d.target \in Int
      BY <2>2
    <3>3. "action" \in DOMAIN d /\ "plan" \in DOMAIN d
      BY <2>2
    <3> QED BY <3>1, <3>2, <3>3, ReductionFacts
  <2> QED BY <1>1, <2>4, <2>5 DEF n, price
<1> QED BY <1>1, <1>2, <1>3 DEF PlansInv, Deciding

LEMMA AdvisePlans ==
  ASSUME Allocate!AllocationConstants, AllocationInv, PlansInv, Allocate!DecideCandidates
  PROVE  PlansInv'
<1> DEFINE made(s) == Allocate!DecideCandidate(candidates[s], cash, s \in Allocate!FundedBy(decisions))
<1>1. /\ phase = "advice" /\ phase' \in {"report", "failed"}
      /\ UNCHANGED <<rows, cash, changes, items, mapped, decisions, candidates>>
      /\ advice' = [s \in Allocate!BuyReady |-> [made(s) EXCEPT !.plan = Allocate!ExecutionPlan(made(s), cash, 0, items[s].price)]]
  BY DEF Allocate!DecideCandidates
<1>2. MoneyInv' /\ MoneyInv
  BY <1>1 DEF PlansInv, MoneyInv
<1>3. ASSUME NEW s \in DOMAIN advice' PROVE PurchaseRight(advice'[s], cash')
  <2>1. s \in DOMAIN candidates /\ Sized(candidates[s]) /\ s \in DOMAIN items
    BY <1>1 DEF PlansInv, AllocationInv, CandidateInv, Allocate!BuyReady
  <2>2. items[s].price \in (Nat \ {0}) \cup {None}
    BY <1>1, <2>1 DEF AllocationInv, Allocate!AllocationConstants
  <2>3. cash \in Nat
    BY <1>1, <1>2, MoneyFacts
  <2>4. advice'[s] = [made(s) EXCEPT !.plan = Allocate!ExecutionPlan(made(s), cash, 0, items[s].price)]
    BY <1>1
  <2>5. PurchaseRight(advice'[s], cash)
    BY <2>1, <2>2, <2>3, <2>4, PurchaseFacts
  <2> QED BY <1>1, <2>5
<1> QED BY <1>1, <1>2, <1>3 DEF PlansInv, Deciding

LEMMA PlansStep ==
  ASSUME Allocate!AllocationConstants, AllocationInv, PlansInv, [Allocate!Next]_(Allocate!vars)
  PROVE  PlansInv'
<1>1. CASE Allocate!Answer
  <2>1. phase' = "idle" /\ decisions' = Allocate!NoFunction /\ candidates' = Allocate!NoFunction /\ advice' = Allocate!NoFunction
    BY <1>1 DEF Allocate!Answer
  <2> QED BY <2>1, NothingYet DEF PlansInv, MoneyInv, Deciding
<1>2. CASE UNCHANGED Allocate!vars
  BY <1>2 DEF Allocate!vars, PlansInv, MoneyInv
<1> QED BY <1>1, <1>2, BeginPlans, DecideHoldingsPlans, HydratePlans, RotatePlans, AdvisePlans DEF Allocate!Next

LEMMA PlansHold == PlansInv => PlansFeasible
<1> SUFFICES ASSUME PlansInv PROVE PlansFeasible
  OBVIOUS
<1>1. Allocate!NavPreserved
  <2>1. phase # "idle" => cash = Allocate!CashBeside(rows) /\ cash >= 0
    BY MoneyFacts DEF PlansInv
  <2> QED BY <2>1 DEF Allocate!NavPreserved
<1>2. Allocate!BuysFeasible
  BY DEF PlansInv, PurchaseRight, Allocate!BuysFeasible
<1>3. Allocate!ReductionsFeasible
  BY DEF PlansInv, ReductionRight, Allocate!ReductionsFeasible
<1> QED BY <1>1, <1>2, <1>3 DEF PlansFeasible, Allocate!PlansFeasible

(***************************************************************************)
(* The screener: a list, and what one request after another makes of it    *)
(***************************************************************************)
Writing == {"fill", "refresh"}
Computing == {"backfill", "score"}
WithList == {"filter", "liquidity", "fill", "select", "prices", "refresh", "answer", "answered"}
Stations == {"idle", "waiting"} \cup Computing \cup WithList

(* An item has a price, and no margin if the listing has no value *)
Grounded(item, s) ==
  item.price \in Screen!Price(s) /\ (Reports[s].value = None => item.margin = None /\ ~item.qualified)

Scored == {l \in [Tickers -> Screen!Item \cup {None}] : \A s \in Tickers : l[s] # None => Grounded(l[s], s)}

(* A quotation for some of the listings, or a price list of the database *)
Quoted(got) == got = [s \in Tickers |-> got[s]] /\ \A s \in Tickers : got[s] \in Screen!Price(s) \cup {None}
Table(t) == t = [s \in Tickers |-> t[s]] /\ \A s \in Tickers : t[s] \in Screen!PriceRow(s) \cup {None}

Answers == UNION {[S -> Screen!Item] : S \in SUBSET Tickers}

Request ==
  [pc : Stations, now : Nat, list : Nat, prices : [Tickers -> [price : Nat, turnover : Nat] \cup {None}],
   visible : SUBSET Tickers, got : [Tickers -> Nat \cup {None}], todo : SUBSET Tickers,
   half : BOOLEAN, answer : Answers]

(* The item a request is in the middle of *)
Item0(q) == CHOOSE x \in q.todo : TRUE

(* A request under way has a list, and works on items it has a price for *)
RequestTyped(q, all, now) ==
  /\ q \in Request
  /\ q.now <= now /\ q.list <= Len(all)
  /\ Table(q.prices) /\ Quoted(q.got) /\ q.todo \subseteq q.visible
  /\ q.pc \in WithList <=> q.list # 0
  /\ q.list = 0 => q.visible = {}
  /\ \A s \in q.visible : all[q.list][s] # None
  /\ q.todo # {} => q.pc \in Writing
  /\ \A s \in q.todo : q.got[s] # None
  /\ q.half => q.todo # {}

FetchedAt(s) ==
  fetched[s] # None => /\ fetched[s] = [at |-> fetched[s].at, price |-> fetched[s].price]
                       /\ fetched[s].at \in 0 .. clock
                       /\ fetched[s].price = past[fetched[s].at + 1][s]

ScreenTyped ==
  /\ clock \in Nat /\ market \in Screen!Quotes
  /\ past \in Seq(Screen!Quotes) /\ Len(past) = clock + 1 /\ past[clock + 1] = market
  /\ Table(stored)
  /\ fetched = [s \in Tickers |-> fetched[s]] /\ \A s \in Tickers : FetchedAt(s)
  /\ lists \in Seq(Scored)
  /\ universe \in 0 .. Len(lists) /\ computedAt \in Nat
  /\ req = [r \in Requests |-> req[r]]
  /\ \A r \in Requests : RequestTyped(req[r], lists, clock)
  /\ overlap \in BOOLEAN

(* Who computes the list holds the lock, and found it stale when it took it *)
LockHeld ==
  /\ lock \in Requests \cup {None}
  /\ \A r \in Requests :
       req[r].pc \in Computing =>
         lock = r /\ (~Screen!HasItems(universe) \/ req[r].now - computedAt >= CacheTTL)

(* A price the market has asked since, or less than the time one is cached before *)
RecentPrice(s, price, now) == \E t \in 0 .. clock : t > now - PriceTTL /\ past[t + 1][s] = price

Recent ==
  \A r \in Requests : \A s \in Tickers :
    req[r].got[s] # None => RecentPrice(s, req[r].got[s], req[r].now)

(* One client at a time *)
OneAtWork == \A q, r \in Requests : ~Screen!At(q, "idle") /\ ~Screen!At(r, "idle") => q = r

(* A request has written the price of the item s of the list n, and nothing else *)
Stuck(q, n, s) == q.half /\ q.list = n /\ s = Item0(q)

(* An item that is not torn agrees with its price, or one request alone has  *)
(* written the price and will write the rest of it for that price             *)
ItemsStand ==
  \A n \in DOMAIN lists, s \in Tickers :
    lists[n][s] # None /\ <<n, s>> \notin torn =>
      \/ Screen!Halfway(n, s) = {} /\ Screen!Agrees(lists[n][s], s)
      \/ \E r \in Requests : Screen!Halfway(n, s) = {r} /\ lists[n][s].price = req[r].got[s]

(* What a request was given a price of shows it, once it is written *)
Shows(q, all) ==
  q.pc \in {"refresh", "answer"} =>
    \A s \in q.visible :
      q.got[s] # None =>
        \/ s \in q.todo /\ (~q.half \/ s # Item0(q))
        \/ all[q.list][s].price = q.got[s]

Answered(q) ==
  q.pc = "answered" =>
    /\ DOMAIN q.answer \subseteq Tickers
    /\ \A s \in DOMAIN q.answer : q.got[s] # None => q.answer[s].price = q.got[s]

OneClient == OneAtWork /\ \A r \in Requests : Shows(req[r], lists) /\ Answered(req[r])

IdleInv == \A r \in Requests : Screen!At(r, "idle") => req[r] = Screen!Idle

ScreenInv == ScreenTyped /\ IdleInv /\ LockHeld /\ Recent /\ ItemsStand /\ (~overlap => OneClient)

(***************************************************************************)
(* Items                                                                   *)
(***************************************************************************)
(* The whole number next to a / b reaches k when a / b does *)
LEMMA RoundedFacts ==
  ASSUME NEW a \in Int, NEW b \in Int, b > 0
  PROVE  /\ Screen!Rounded(a, b) \in Int /\ Screen!Nearest(Screen!Rounded(a, b), a, b)
         /\ \A k \in Int : a >= k * b => Screen!Rounded(a, b) >= k
         /\ \A k \in Int : Screen!Rounded(a, b) > k => a >= k * b
<1> DEFINE m == Screen!Rounded(a, b)
           c == 2 * a + b
           d == 2 * b
<1>1. c \in Int /\ d \in Int /\ d > 0 /\ m = c \div d
  BY DEF Screen!Rounded
<1>2. m \in Int /\ d * m <= c /\ c < d * m + d
  <2> HIDE DEF c, d, m
  <2>1. c = d * (c \div d) + (c % d) /\ c % d \in 0 .. d - 1 /\ c \div d \in Int
    BY <1>1
  <2>2. d * (c \div d) \in Int
    BY <1>1, <2>1
  <2> QED BY <1>1, <2>1, <2>2
<1> HIDE DEF m
<1>3. d * m = 2 * m * b /\ m * b \in Int
  BY <1>2
<1>4. Screen!Nearest(m, a, b)
  BY <1>2, <1>3 DEF Screen!Nearest
<1>5. ASSUME NEW k \in Int, a >= k * b PROVE m >= k
  <2> SUFFICES ASSUME m + 1 <= k PROVE FALSE
    BY <1>2
  <2>1. (m + 1) * b <= k * b
    BY <1>2
  <2>2. (m + 1) * b = m * b + b
    BY <1>2
  <2> QED BY <1>2, <1>3, <1>5, <2>1, <2>2
<1>6. ASSUME NEW k \in Int, m > k PROVE a >= k * b
  <2>1. (k + 1) * b <= m * b
    BY <1>2, <1>6
  <2>2. (k + 1) * b = k * b + b /\ k * b \in Int
    OBVIOUS
  <2> QED BY <1>2, <1>3, <2>1, <2>2
<1> QED BY <1>2, <1>4, <1>5, <1>6 DEF m

LEMMA PriceFacts ==
  ASSUME Screen!ScreenerConstants, NEW s \in Tickers
  PROVE  /\ None \notin Screen!Price(s) /\ None \notin Screen!PriceRow(s) /\ None \notin Screen!Item /\ None \notin Int
         /\ Screen!Price(s) \subseteq Nat
         /\ Reports[s].value # None => Reports[s].value \in Int /\ Reports[s].value >= 10
         /\ Reports[s].required \in Int /\ Reports[s].tenths \in BOOLEAN
         /\ Turnover[s] \in Nat
BY DEF Screen!ScreenerConstants, Screen!Price

(* The value of an item, to a tenth of a dong *)
LEMMA ShownFacts ==
  ASSUME Screen!ScreenerConstants, NEW s \in Tickers, Reports[s].value # None
  PROVE  Screen!ShownValue(s) \in Int /\ Screen!ShownValue(s) > 0
<1> DEFINE v == Reports[s].value
<1>1. v \in Int /\ v >= 10
  BY PriceFacts
<1> HIDE DEF v
<1>2. Screen!Rounded(v, 10) \in Int /\ (v >= 1 * 10 => Screen!Rounded(v, 10) >= 1)
  BY <1>1, RoundedFacts
<1> QED BY <1>1, <1>2 DEF Screen!ShownValue, v

LEMMA ScoredFacts ==
  ASSUME Screen!ScreenerConstants, NEW s \in Tickers, NEW row \in Screen!PriceRow(s)
  PROVE  LET new == Screen!ScoredItem(s, row) IN new \in Screen!Item /\ Grounded(new, s) /\ Screen!Agrees(new, s)
<1> DEFINE new == Screen!ScoredItem(s, row)
           p == row.price
           v == Reports[s].value
           required == Reports[s].required
           excess == 1000 * (v - 100 * p)
           margin == Screen!Rounded(excess, v)
           stands == IF Reports[s].tenths THEN margin >= required ELSE excess >= required * v
<1>1. p \in Screen!Price(s) /\ p \in Nat /\ row.turnover \in Nat
  BY DEF Screen!PriceRow, Screen!Price
<1>2. CASE v = None
  <2>1. new = [price |-> p, margin |-> None, qualified |-> FALSE, turnover |-> row.turnover]
    BY <1>2 DEF Screen!ScoredItem
  <2> QED BY <1>1, <1>2, <2>1 DEF Screen!Item, Grounded, Screen!Agrees
<1>3. CASE v # None
  <2>1. v \in Int /\ v > 0 /\ required \in Int /\ Reports[s].tenths \in BOOLEAN /\ None \notin Int
    BY <1>3, PriceFacts
  <2>2. excess \in Int
    BY <1>1, <2>1
  <2>3. new = [price |-> p, margin |-> margin, qualified |-> stands, turnover |-> row.turnover]
    BY <1>3 DEF Screen!ScoredItem
  <2>4. Screen!Agrees(new, s) <=>
          /\ new.margin # None
          /\ \/ Screen!Nearest(new.margin, 1000 * (v - 100 * new.price), v)
             \/ Screen!Nearest(new.margin, 1000 * (Screen!ShownValue(s) - 10 * new.price), Screen!ShownValue(s))
          /\ new.qualified => new.margin >= required
          /\ new.margin > required => new.qualified
    BY <1>3 DEF Screen!Agrees
  <2> HIDE DEF v, new, p
  <2>5. /\ margin \in Int /\ Screen!Nearest(margin, excess, v)
        /\ excess >= required * v => margin >= required
        /\ margin > required => excess >= required * v
    <3> HIDE DEF excess, required
    <3> QED BY <2>1, <2>2, RoundedFacts
  <2>6. stands \in BOOLEAN /\ (stands => margin >= required) /\ (margin > required => stands)
    <3> HIDE DEF excess, required, margin
    <3>1. margin > required => margin >= required
      BY <2>1, <2>5
    <3>2. CASE Reports[s].tenths
      <4>1. stands <=> margin >= required
        BY <3>2
      <4>2. stands \in BOOLEAN
        BY <3>2
      <4> HIDE DEF stands
      <4> QED BY <3>1, <4>1, <4>2
    <3>3. CASE ~Reports[s].tenths
      <4>1. stands <=> excess >= required * v
        BY <3>3
      <4>2. stands \in BOOLEAN
        BY <3>3
      <4> HIDE DEF stands
      <4> QED BY <2>5, <4>1, <4>2
    <3> QED BY <3>2, <3>3
  <2>7. new.price = p /\ new.margin = margin /\ new.qualified = stands /\ new \in Screen!Item
    <3> HIDE DEF margin, stands
    <3> QED BY <1>1, <2>3, <2>5, <2>6 DEF Screen!Item
  <2>8. Screen!Nearest(new.margin, 1000 * (v - 100 * new.price), v)
    BY <2>5, <2>7
  <2>9. new.margin # None
    BY <2>1, <2>5, <2>7
  <2> HIDE DEF margin, stands, required
  <2>10. Screen!Agrees(new, s)
    BY <2>4, <2>6, <2>7, <2>8, <2>9
  <2> QED BY <1>1, <1>3, <2>7, <2>10 DEF Grounded, v, new
<1> QED BY <1>2, <1>3

LEMMA RefreshedFacts ==
  ASSUME Screen!ScreenerConstants, NEW s \in Tickers, NEW price \in Screen!Price(s), NEW item \in Screen!Item, Grounded(item, s)
  PROVE  LET new == Screen!Refreshed(item, s, price)
         IN  /\ new \in Screen!Item /\ new.price = item.price /\ Grounded(new, s)
             /\ item.price = price => Screen!Agrees(new, s)
<1> DEFINE new == Screen!Refreshed(item, s, price)
           v == Reports[s].value
           required == Reports[s].required
           shown == Screen!ShownValue(s)
           excess == 1000 * (shown - 10 * price)
           margin == Screen!Rounded(excess, shown)
           stands == margin >= required
<1>1. CASE v = None
  <2>1. new = item
    BY <1>1 DEF Screen!Refreshed
  <2>2. Grounded(item, s) => Screen!Agrees(item, s)
    BY <1>1 DEF Grounded, Screen!Agrees
  <2> QED BY <2>1, <2>2
<1>2. CASE v # None
  <2>1. shown \in Int /\ shown > 0 /\ required \in Int /\ None \notin Int /\ price \in Int
    BY <1>2, ShownFacts, PriceFacts
  <2>2. new = [item EXCEPT !.margin = margin, !.qualified = stands]
    BY <1>2 DEF Screen!Refreshed, Screen!RefreshedMargin
  <2> HIDE DEF shown, new
  <2>3. excess \in Int
    BY <2>1
  <2>4. margin \in Int /\ Screen!Nearest(margin, excess, shown)
    <3> HIDE DEF excess
    <3> QED BY <2>1, <2>3, RoundedFacts
  <2>5. stands \in BOOLEAN
    OBVIOUS
  <2>6. new \in Screen!Item /\ new.price = item.price /\ new.margin = margin /\ new.qualified = stands
    <3> HIDE DEF margin, stands
    <3> QED BY <2>2, <2>4, <2>5 DEF Screen!Item
  <2>7. Grounded(new, s)
    BY <1>2, <2>6 DEF Grounded
  <2>8. ASSUME item.price = price PROVE Screen!Agrees(new, s)
    <3>1. Screen!Nearest(new.margin, 1000 * (shown - 10 * new.price), shown)
      BY <2>4, <2>6, <2>8
    <3>2. new.margin # None
      BY <2>1, <2>4, <2>6
    <3>3. (new.qualified => new.margin >= required) /\ (new.margin > required => new.qualified)
      <4> HIDE DEF margin
      <4>1. margin > required => margin >= required
        BY <2>1, <2>4
      <4>2. new.qualified <=> margin >= required
        BY <2>6
      <4> QED BY <2>6, <4>1, <4>2
    <3> QED BY <1>2, <3>1, <3>2, <3>3 DEF Screen!Agrees, shown
  <2> QED BY <2>6, <2>7, <2>8 DEF new
<1> QED BY <1>1, <1>2

(***************************************************************************)
(* Lists.  A list is written to, and never gains or loses an item.         *)
(***************************************************************************)
SameKnown(all, more) ==
  /\ DOMAIN all \subseteq DOMAIN more /\ Len(all) <= Len(more)
  /\ \A n \in DOMAIN all, s \in Tickers : all[n][s] = None <=> more[n][s] = None

LEMMA ListRewritten ==
  ASSUME NEW all \in Seq(Scored), NEW n \in DOMAIN all, NEW new \in Scored,
         \A s \in Tickers : all[n][s] = None <=> new[s] = None, NEW more, more = [all EXCEPT ![n] = new]
  PROVE  /\ more \in Seq(Scored) /\ SameKnown(all, more) /\ DOMAIN more = DOMAIN all /\ Len(more) = Len(all)
         /\ more[n] = new /\ \A m \in DOMAIN all \ {n} : more[m] = all[m]
<1>1. more \in Seq(Scored) /\ Len(more) = Len(all)
  BY ExceptSeq
<1>2. DOMAIN more = DOMAIN all /\ more[n] = new /\ \A m \in DOMAIN all \ {n} : more[m] = all[m]
  OBVIOUS
<1>3. Len(all) \in Nat
  BY LenProperties
<1>4. SameKnown(all, more)
  BY <1>1, <1>2, <1>3 DEF SameKnown
<1> QED BY <1>1, <1>2, <1>4

(* One item of one list is written *)
Rewritten(all, n, s, item, more) ==
  /\ more \in Seq(Scored) /\ SameKnown(all, more) /\ DOMAIN more = DOMAIN all /\ Len(more) = Len(all)
  /\ more[n][s] = item
  /\ \A m \in DOMAIN all, t \in Tickers : m # n \/ t # s => more[m][t] = all[m][t]

LEMMA ItemRewritten ==
  ASSUME Screen!ScreenerConstants, NEW all \in Seq(Scored), NEW n \in DOMAIN all, NEW s \in Tickers,
         all[n][s] # None, NEW item \in Screen!Item, Grounded(item, s), NEW more, more = [all EXCEPT ![n] = [all[n] EXCEPT ![s] = item]]
  PROVE  Rewritten(all, n, s, item, more)
<1> DEFINE new == [all[n] EXCEPT ![s] = item]
<1>1. all[n] \in Scored
  BY ElementOfSeq
<1>2. new \in Scored /\ new[s] = item /\ \A t \in Tickers : t # s => new[t] = all[n][t]
  BY <1>1 DEF Scored
<1>3. item # None
  BY DEF Screen!ScreenerConstants
<1>4. \A t \in Tickers : all[n][t] = None <=> new[t] = None
  BY <1>2, <1>3
<1>5. more = [all EXCEPT ![n] = new]
  OBVIOUS
<1> HIDE DEF new
<1>6. /\ more \in Seq(Scored) /\ SameKnown(all, more) /\ DOMAIN more = DOMAIN all /\ Len(more) = Len(all)
      /\ more[n] = new /\ \A m \in DOMAIN all \ {n} : more[m] = all[m]
  BY <1>2, <1>4, <1>5, ListRewritten
<1> QED BY <1>2, <1>6 DEF Rewritten

LEMMA RequestStays ==
  ASSUME NEW all \in Seq(Scored), NEW more \in Seq(Scored), SameKnown(all, more),
         NEW c \in Nat, NEW d \in Nat, c <= d, NEW q, RequestTyped(q, all, c)
  PROVE  RequestTyped(q, more, d)
<1>1. Len(all) \in Nat /\ Len(more) \in Nat /\ q.now \in Nat /\ q.list \in Nat
  BY LenProperties DEF RequestTyped, Request
<1>2. q.now <= d /\ q.list <= Len(more)
  BY <1>1 DEF RequestTyped, SameKnown
<1>3. q.visible \subseteq Tickers
  BY DEF RequestTyped, Request
<1>4. q.list # 0 => q.list \in DOMAIN all
  BY <1>1, LenProperties DEF RequestTyped
<1>5. \A s \in q.visible : more[q.list][s] # None
  BY <1>3, <1>4 DEF RequestTyped, SameKnown
<1> QED BY <1>2, <1>5 DEF RequestTyped, SameKnown

(* One request moves on *)
LEMMA RequestMoves ==
  ASSUME ScreenTyped, NEW r \in Requests, NEW q, req' = [req EXCEPT ![r] = q],
         lists' \in Seq(Scored), SameKnown(lists, lists'), clock' \in Nat, clock <= clock',
         RequestTyped(q, lists', clock')
  PROVE  /\ req' = [x \in Requests |-> req'[x]] /\ req'[r] = q
         /\ \A x \in Requests \ {r} : req'[x] = req[x]
         /\ \A x \in Requests : RequestTyped(req'[x], lists', clock')
<1>1. req = [x \in Requests |-> req[x]]
  BY DEF ScreenTyped
<1>2. req' = [x \in Requests |-> req'[x]] /\ req'[r] = q /\ \A x \in Requests \ {r} : req'[x] = req[x]
  BY <1>1
<1>3. \A x \in Requests \ {r} : RequestTyped(req'[x], lists', clock')
  BY <1>2, RequestStays DEF ScreenTyped
<1> QED BY <1>2, <1>3

LEMMA SameLists == ASSUME NEW all \in Seq(Scored) PROVE SameKnown(all, all)
BY LenProperties DEF SameKnown

(***************************************************************************)
(* Typed                                                                   *)
(***************************************************************************)
LEMMA RequestFacts ==
  ASSUME ScreenTyped, NEW r \in Requests
  PROVE  /\ RequestTyped(req[r], lists, clock) /\ req[r] \in Request
         /\ req[r].pc \in Stations /\ req[r].now \in Nat /\ req[r].list \in Nat
         /\ req[r].visible \subseteq Tickers /\ req[r].todo \subseteq req[r].visible
         /\ req[r].got \in [Tickers -> Nat \cup {None}]
         /\ req[r].prices \in [Tickers -> [price : Nat, turnover : Nat] \cup {None}]
         /\ clock \in Nat /\ lists \in Seq(Scored) /\ Len(lists) \in Nat /\ DOMAIN lists = 1 .. Len(lists)
         /\ \A n \in DOMAIN lists : lists[n] \in Scored
         /\ universe \in Nat /\ universe <= Len(lists) /\ req[r].list <= Len(lists) /\ req[r].now <= clock
BY LenProperties, ElementOfSeq DEF ScreenTyped, RequestTyped, Request

LEMMA IdleTyped ==
  ASSUME NEW all \in Seq(Scored), NEW c \in Nat
  PROVE  RequestTyped(Screen!Idle, all, c)
<1>1. <<>> \in Answers
  <2>1. <<>> \in [{} -> Screen!Item]
    OBVIOUS
  <2> QED BY <2>1 DEF Answers
<1>2. [s \in Tickers |-> None] \in [Tickers -> Nat \cup {None}]
      /\ [s \in Tickers |-> None] \in [Tickers -> [price : Nat, turnover : Nat] \cup {None}]
  OBVIOUS
<1>3. Screen!Idle \in Request
  BY <1>1, <1>2 DEF Screen!Idle, Request, Stations
<1>4. Screen!Idle.pc = "idle" /\ Screen!Idle.now = 0 /\ Screen!Idle.list = 0 /\ Screen!Idle.todo = {} /\ ~Screen!Idle.half
      /\ Screen!Idle.prices = [s \in Tickers |-> None] /\ Screen!Idle.got = [s \in Tickers |-> None] /\ Screen!Idle.visible = {}
  BY DEF Screen!Idle
<1>5. 0 <= c /\ 0 <= Len(all) /\ 0 \notin DOMAIN all
  BY LenProperties
<1>6. Table(Screen!Idle.prices) /\ Quoted(Screen!Idle.got)
  BY <1>4 DEF Table, Quoted
<1> QED BY <1>3, <1>4, <1>5, <1>6 DEF RequestTyped, Writing, WithList

(* A step of one request, which may write to the lists *)
LEMMA TypedMove ==
  ASSUME ScreenTyped, NEW r \in Requests, NEW q, req' = [req EXCEPT ![r] = q],
         UNCHANGED <<clock, market, past>>,
         lists' \in Seq(Scored), SameKnown(lists, lists'), RequestTyped(q, lists', clock),
         Table(stored'), fetched' = [s \in Tickers |-> fetched'[s]], \A s \in Tickers : FetchedAt(s)',
         universe' \in 0 .. Len(lists'), computedAt' \in Nat, overlap' \in BOOLEAN
  PROVE  ScreenTyped' /\ req'[r] = q /\ \A x \in Requests \ {r} : req'[x] = req[x]
<1>1. /\ req' = [x \in Requests |-> req'[x]] /\ req'[r] = q
      /\ \A x \in Requests \ {r} : req'[x] = req[x]
      /\ \A x \in Requests : RequestTyped(req'[x], lists', clock')
  <2>1. clock' \in Nat /\ clock <= clock' /\ RequestTyped(q, lists', clock')
    BY DEF ScreenTyped
  <2> QED BY <2>1, RequestMoves
<1>2. ScreenTyped'
  BY <1>1 DEF ScreenTyped
<1> QED BY <1>1, <1>2

LEMMA TypedQuiet ==
  ASSUME ScreenTyped, NEW r \in Requests, NEW q, req' = [req EXCEPT ![r] = q], RequestTyped(q, lists, clock),
         UNCHANGED <<clock, market, past, stored, fetched, lists, universe, computedAt>>, overlap' \in BOOLEAN
  PROVE  ScreenTyped' /\ req'[r] = q /\ \A x \in Requests \ {r} : req'[x] = req[x]
<1>1. lists' \in Seq(Scored) /\ SameKnown(lists, lists') /\ RequestTyped(q, lists', clock)
  BY SameLists DEF ScreenTyped
<1>2. Table(stored') /\ fetched' = [s \in Tickers |-> fetched'[s]] /\ universe' \in 0 .. Len(lists') /\ computedAt' \in Nat
  BY DEF ScreenTyped
<1>3. \A s \in Tickers : FetchedAt(s)'
  BY DEF ScreenTyped, FetchedAt
<1> QED BY <1>1, <1>2, <1>3, TypedMove

LEMMA TypedArrive ==
  ASSUME Screen!ScreenerConstants, ScreenTyped, NEW r \in Requests, Screen!Arrive(r)
  PROVE  ScreenTyped'
<1> DEFINE q == [Screen!Idle EXCEPT !.pc = "waiting", !.now = clock]
<1>1. req' = [req EXCEPT ![r] = q] /\ overlap' \in BOOLEAN
  BY DEF Screen!Arrive, ScreenTyped
<1>2. RequestTyped(Screen!Idle, lists, clock)
  BY IdleTyped, RequestFacts
<1>3. q \in Request /\ q.pc = "waiting" /\ q.now = clock /\ q.list = Screen!Idle.list /\ q.prices = Screen!Idle.prices
      /\ q.got = Screen!Idle.got /\ q.todo = Screen!Idle.todo /\ q.visible = Screen!Idle.visible /\ q.half = Screen!Idle.half
  BY <1>2, RequestFacts DEF Request, RequestTyped, Stations
<1> HIDE DEF q
<1>4. RequestTyped(q, lists, clock)
  BY <1>2, <1>3, RequestFacts DEF RequestTyped, Writing, WithList, Screen!Idle
<1> QED BY <1>1, <1>4, TypedQuiet DEF Screen!Arrive

LEMMA TypedUseList ==
  ASSUME Screen!ScreenerConstants, ScreenTyped, NEW r \in Requests, Screen!UseList(r)
  PROVE  ScreenTyped'
<1> DEFINE q == [req[r] EXCEPT !.pc = "filter", !.list = universe]
<1>1. req' = [req EXCEPT ![r] = q] /\ universe # 0 /\ req[r].pc = "waiting"
  BY DEF Screen!UseList, Screen!HasItems, Screen!At
<1>2. q \in Request /\ q.pc = "filter" /\ q.list = universe /\ q.now = req[r].now /\ q.prices = req[r].prices
      /\ q.got = req[r].got /\ q.todo = req[r].todo /\ q.visible = req[r].visible /\ q.half = req[r].half
  BY RequestFacts DEF Request, Stations, WithList
<1>3. req[r].visible = {} /\ req[r].todo = {}
  BY <1>1, RequestFacts DEF RequestTyped, WithList
<1> HIDE DEF q
<1>4. RequestTyped(q, lists, clock)
  BY <1>1, <1>2, <1>3, RequestFacts DEF RequestTyped, Writing, WithList
<1>5. overlap' \in BOOLEAN
  BY DEF Screen!UseList, ScreenTyped
<1> QED BY <1>1, <1>4, <1>5, TypedQuiet DEF Screen!UseList

LEMMA TypedReadPrices ==
  ASSUME Screen!ScreenerConstants, ScreenTyped, NEW r \in Requests, Screen!ReadPrices(r)
  PROVE  ScreenTyped'
<1> DEFINE q == [req[r] EXCEPT !.pc = "backfill", !.prices = stored]
<1>1. req' = [req EXCEPT ![r] = q] /\ req[r].pc = "waiting"
  BY DEF Screen!ReadPrices, Screen!At
<1>2. stored \in [Tickers -> [price : Nat, turnover : Nat] \cup {None}]
  BY DEF ScreenTyped, Table, Screen!PriceRow, Screen!Price
<1>3. q \in Request /\ q.pc = "backfill" /\ q.list = req[r].list /\ q.now = req[r].now /\ q.prices = stored
      /\ q.got = req[r].got /\ q.todo = req[r].todo /\ q.visible = req[r].visible /\ q.half = req[r].half
  BY <1>2, RequestFacts DEF Request, Stations, Computing
<1> HIDE DEF q
<1>4. RequestTyped(q, lists, clock)
  BY <1>1, <1>3, RequestFacts DEF RequestTyped, Writing, WithList, ScreenTyped
<1>5. overlap' \in BOOLEAN
  BY DEF Screen!ReadPrices, ScreenTyped
<1> QED BY <1>1, <1>4, <1>5, TypedQuiet DEF Screen!ReadPrices

(* What is fetched is a price of the market, now or when it was cached *)
LEMMA FetchFacts ==
  ASSUME Screen!ScreenerConstants, ScreenTyped, NEW symbols \in SUBSET Tickers, NEW failed,
         fetched' = Screen!Cached(symbols, failed), UNCHANGED <<clock, past>>
  PROVE  /\ Quoted(Screen!Fetched(symbols, failed)) /\ Screen!Fetched(symbols, failed) \in [Tickers -> Nat \cup {None}]
         /\ \A s \in Tickers \ symbols : Screen!Fetched(symbols, failed)[s] = None
         /\ \A s \in Tickers : Screen!Fetched(symbols, failed)[s] # None =>
              \E t \in 0 .. clock : t > clock - PriceTTL /\ past[t + 1][s] = Screen!Fetched(symbols, failed)[s]
         /\ fetched' = [s \in Tickers |-> fetched'[s]] /\ \A s \in Tickers : FetchedAt(s)'
<1> DEFINE got == Screen!Fetched(symbols, failed)
<1>1. clock \in Nat /\ market \in Screen!Quotes /\ past[clock + 1] = market /\ PriceTTL \in Nat /\ PriceTTL > 0
      /\ past \in Seq(Screen!Quotes) /\ Len(past) = clock + 1
  BY DEF ScreenTyped, Screen!ScreenerConstants
<1>2. \A t \in 0 .. clock : past[t + 1] \in Screen!Quotes
  <2> TAKE t \in 0 .. clock
  <2>1. t + 1 \in 1 .. Len(past)
    BY <1>1
  <2> QED BY <1>1, <2>1, ElementOfSeq
<1>3. \A m \in Screen!Quotes : \A s \in Tickers : m[s] \in Screen!Price(s) /\ m[s] # None /\ m[s] \in Nat
  BY PriceFacts DEF Screen!Quotes, Screen!ScreenerConstants
<1>4. ASSUME NEW s \in Tickers
      PROVE  /\ got[s] \in Screen!Price(s) \cup {None} /\ got[s] \in Nat \cup {None} /\ (s \notin symbols => got[s] = None)
             /\ got[s] # None => \E t \in 0 .. clock : t > clock - PriceTTL /\ past[t + 1][s] = got[s]
             /\ FetchedAt(s)'
  <2>1. CASE s \notin symbols
    <3>1. got[s] = None
      BY <2>1 DEF Screen!Fetched
    <3>2. fetched'[s] = fetched[s]
      BY <2>1 DEF Screen!Cached
    <3> QED BY <2>1, <3>1, <3>2 DEF ScreenTyped, FetchedAt
  <2>2. CASE s \in symbols /\ Screen!Fresh(s, clock)
    <3>1. got[s] = fetched[s].price
      BY <2>2 DEF Screen!Fetched
    <3>4. fetched'[s] = fetched[s]
      BY <2>2 DEF Screen!Cached
    <3>2. fetched[s].at \in 0 .. clock /\ fetched[s].at > clock - PriceTTL /\ fetched[s].price = past[fetched[s].at + 1][s]
      <4>1. fetched[s] # None /\ clock - fetched[s].at < PriceTTL
        BY <2>2 DEF Screen!Fresh
      <4>2. fetched[s].at \in 0 .. clock /\ fetched[s].price = past[fetched[s].at + 1][s]
        BY <4>1 DEF ScreenTyped, FetchedAt
      <4> QED BY <1>1, <4>1, <4>2
    <3>3. got[s] \in Screen!Price(s) /\ got[s] \in Nat
      BY <1>2, <1>3, <3>1, <3>2
    <3> QED BY <2>2, <3>1, <3>2, <3>3, <3>4 DEF ScreenTyped, FetchedAt
  <2>3. CASE s \in symbols /\ ~Screen!Fresh(s, clock) /\ s \in failed
    <3>1. got[s] = None /\ fetched'[s] = fetched[s]
      BY <2>3 DEF Screen!Fetched, Screen!Cached
    <3> QED BY <2>3, <3>1 DEF ScreenTyped, FetchedAt
  <2>4. CASE s \in symbols /\ ~Screen!Fresh(s, clock) /\ s \notin failed
    <3>1. got[s] = market[s] /\ fetched'[s] = [at |-> clock, price |-> market[s]]
      BY <2>4 DEF Screen!Fetched, Screen!Cached
    <3>2. clock \in 0 .. clock /\ clock > clock - PriceTTL /\ past[clock + 1][s] = market[s]
      BY <1>1
    <3>3. FetchedAt(s)'
      BY <3>1, <3>2 DEF FetchedAt
    <3> QED BY <1>1, <1>3, <2>4, <3>1, <3>2, <3>3
  <2> QED BY <2>1, <2>2, <2>3, <2>4
<1>5. got = [s \in Tickers |-> got[s]] /\ fetched' = [s \in Tickers |-> fetched'[s]]
  BY DEF Screen!Fetched, Screen!Cached
<1> HIDE DEF got
<1>6. got \in [Tickers -> Nat \cup {None}] /\ Quoted(got)
  BY <1>4, <1>5 DEF Quoted
<1> QED BY <1>4, <1>5, <1>6 DEF got

(* What is persisted *)
LEMMA PersistFacts ==
  ASSUME Screen!ScreenerConstants, ScreenTyped, NEW got, Quoted(got)
  PROVE  Table(Screen!Persisted(got))
<1>1. \A s \in Tickers : Screen!Persisted(got)[s] \in Screen!PriceRow(s) \cup {None}
  <2> SUFFICES ASSUME NEW s \in Tickers PROVE Screen!Persisted(got)[s] \in Screen!PriceRow(s) \cup {None}
    OBVIOUS
  <2>1. stored[s] \in Screen!PriceRow(s) \cup {None} /\ got[s] \in Screen!Price(s) \cup {None} /\ Turnover[s] \in Nat
    BY DEF ScreenTyped, Table, Quoted, Screen!ScreenerConstants
  <2> QED BY <2>1 DEF Screen!Persisted, Screen!PriceRow
<1> QED BY <1>1 DEF Table, Screen!Persisted

LEMMA TypedBackfill ==
  ASSUME Screen!ScreenerConstants, ScreenTyped, NEW r \in Requests, Screen!Backfill(r)
  PROVE  ScreenTyped'
<1> DEFINE missing == {s \in Tickers : req[r].prices[s] = None}
<1>1. PICK failed \in SUBSET missing :
        LET got == Screen!Fetched(missing, failed) IN
        /\ fetched' = Screen!Cached(missing, failed)
        /\ stored' \in {stored, Screen!Persisted(got)}
        /\ req' = [req EXCEPT ![r].pc = "score",
                     ![r].prices = [s \in Tickers |-> IF got[s] # None THEN [price |-> got[s], turnover |-> Turnover[s]]
                                                      ELSE @[s]]]
  BY DEF Screen!Backfill
<1> DEFINE got == Screen!Fetched(missing, failed)
           prices == [s \in Tickers |-> IF got[s] # None THEN [price |-> got[s], turnover |-> Turnover[s]]
                                        ELSE req[r].prices[s]]
           q == [req[r] EXCEPT !.pc = "score", !.prices = prices]
<1>2. req' = [req EXCEPT ![r] = q] /\ req[r].pc = "backfill" /\ UNCHANGED <<clock, market, lists, universe, computedAt, past, overlap>>
  BY <1>1 DEF Screen!Backfill, Screen!At
<1>3. /\ Quoted(got) /\ fetched' = [s \in Tickers |-> fetched'[s]] /\ \A s \in Tickers : FetchedAt(s)'
  BY <1>1, <1>2, FetchFacts
<1>4. Table(stored')
  <2>1. Table(Screen!Persisted(got)) /\ Table(stored)
    BY <1>3, PersistFacts DEF ScreenTyped
  <2> HIDE DEF got
  <2> QED BY <1>1, <2>1 DEF got
<1>5. Table(prices) /\ prices \in [Tickers -> [price : Nat, turnover : Nat] \cup {None}]
  <2> HIDE DEF got
  <2>1. \A s \in Tickers : prices[s] \in Screen!PriceRow(s) \cup {None}
    <3> SUFFICES ASSUME NEW s \in Tickers PROVE prices[s] \in Screen!PriceRow(s) \cup {None}
      OBVIOUS
    <3>1. req[r].prices[s] \in Screen!PriceRow(s) \cup {None} /\ got[s] \in Screen!Price(s) \cup {None} /\ Turnover[s] \in Nat
      BY <1>3, RequestFacts DEF RequestTyped, Table, Quoted, Screen!ScreenerConstants
    <3> QED BY <3>1 DEF Screen!PriceRow
  <2>2. \A s \in Tickers : prices[s] \in [price : Nat, turnover : Nat] \cup {None}
    BY <2>1 DEF Screen!PriceRow, Screen!Price
  <2> QED BY <2>1, <2>2 DEF Table
<1> HIDE DEF prices, got
<1>6. q \in Request /\ q.pc = "score" /\ q.list = req[r].list /\ q.now = req[r].now /\ q.prices = prices
      /\ q.got = req[r].got /\ q.todo = req[r].todo /\ q.visible = req[r].visible /\ q.half = req[r].half
  BY <1>5, RequestFacts DEF Request, Stations, Computing
<1> HIDE DEF q
<1>7. RequestTyped(q, lists', clock)
  BY <1>2, <1>5, <1>6, RequestFacts DEF RequestTyped, Writing, WithList
<1>8. lists' \in Seq(Scored) /\ SameKnown(lists, lists') /\ universe' \in 0 .. Len(lists') /\ computedAt' \in Nat /\ overlap' \in BOOLEAN
  BY <1>2, SameLists DEF ScreenTyped
<1> QED BY <1>2, <1>3, <1>4, <1>7, <1>8, TypedMove

(* A new list *)
LEMMA ListAppended ==
  ASSUME NEW all \in Seq(Scored), NEW new \in Scored, NEW more, more = Append(all, new)
  PROVE  /\ more \in Seq(Scored) /\ SameKnown(all, more) /\ Len(more) = Len(all) + 1 /\ Len(more) \in DOMAIN more
         /\ more[Len(more)] = new /\ \A n \in DOMAIN all : more[n] = all[n]
<1>1. /\ more \in Seq(Scored) /\ Len(more) = Len(all) + 1 /\ Len(all) \in Nat
      /\ more[Len(all) + 1] = new /\ \A n \in 1 .. Len(all) : more[n] = all[n]
  BY AppendProperties, LenProperties
<1>2. DOMAIN all = 1 .. Len(all) /\ DOMAIN more = 1 .. Len(more)
  BY <1>1, LenProperties
<1> QED BY <1>1, <1>2 DEF SameKnown

LEMMA ScoreFacts ==
  ASSUME Screen!ScreenerConstants, ScreenTyped, NEW r \in Requests, Screen!Score(r)
  PROVE  LET new == [s \in Tickers |-> IF req[r].prices[s] = None THEN None ELSE Screen!ScoredItem(s, req[r].prices[s])]
         IN  /\ lists' = Append(lists, new) /\ new \in Scored
             /\ \A s \in Tickers : new[s] # None => Screen!Agrees(new[s], s)
<1> DEFINE new == [s \in Tickers |-> IF req[r].prices[s] = None THEN None ELSE Screen!ScoredItem(s, req[r].prices[s])]
<1>1. \A s \in Tickers : new[s] \in Screen!Item \cup {None} /\ (new[s] # None => Grounded(new[s], s) /\ Screen!Agrees(new[s], s))
  <2> SUFFICES ASSUME NEW s \in Tickers PROVE new[s] \in Screen!Item \cup {None} /\ (new[s] # None => Grounded(new[s], s) /\ Screen!Agrees(new[s], s))
    OBVIOUS
  <2>1. req[r].prices[s] \in Screen!PriceRow(s) \cup {None}
    BY RequestFacts DEF RequestTyped, Table
  <2> QED BY <2>1, ScoredFacts
<1>2. new \in [Tickers -> Screen!Item \cup {None}]
  BY <1>1
<1> HIDE DEF new
<1>3. new \in Scored
  BY <1>1, <1>2 DEF Scored
<1>4. lists' = Append(lists, new)
  BY DEF Screen!Score, new
<1> QED BY <1>1, <1>3, <1>4 DEF new

LEMMA TypedScore ==
  ASSUME Screen!ScreenerConstants, ScreenTyped, NEW r \in Requests, Screen!Score(r)
  PROVE  ScreenTyped'
<1> DEFINE q == [req[r] EXCEPT !.pc = "filter", !.list = Len(lists'), !.prices = Screen!Idle.prices]
<1>1. /\ req' = [req EXCEPT ![r] = q] /\ req[r].pc = "score" /\ universe' = Len(lists') /\ computedAt' = req[r].now
      /\ UNCHANGED <<clock, market, past, stored, fetched, overlap>>
  BY DEF Screen!Score, Screen!At
<1>2. /\ lists' \in Seq(Scored) /\ SameKnown(lists, lists') /\ Len(lists') = Len(lists) + 1
  BY ScoreFacts, ListAppended, RequestFacts
<1>3. Screen!Idle.prices \in [Tickers -> [price : Nat, turnover : Nat] \cup {None}] /\ Table(Screen!Idle.prices)
  BY DEF Screen!Idle, Table
<1>4. Len(lists') \in Nat /\ Len(lists') # 0
  BY <1>2, RequestFacts
<1>5. q \in Request /\ q.pc = "filter" /\ q.list = Len(lists') /\ q.now = req[r].now /\ q.prices = Screen!Idle.prices
      /\ q.got = req[r].got /\ q.todo = req[r].todo /\ q.visible = req[r].visible /\ q.half = req[r].half
  BY <1>3, <1>4, RequestFacts DEF Request, Stations, WithList
<1>6. req[r].visible = {} /\ req[r].todo = {}
  BY <1>1, RequestFacts DEF RequestTyped, WithList
<1> HIDE DEF q
<1>7. RequestTyped(q, lists', clock)
  BY <1>1, <1>3, <1>4, <1>5, <1>6, RequestFacts DEF RequestTyped, Writing, WithList
<1>8. Table(stored') /\ fetched' = [s \in Tickers |-> fetched'[s]] /\ universe' \in 0 .. Len(lists') /\ computedAt' \in Nat
      /\ overlap' \in BOOLEAN
  BY <1>1, <1>4, RequestFacts DEF ScreenTyped
<1>9. \A s \in Tickers : FetchedAt(s)'
  BY <1>1 DEF ScreenTyped, FetchedAt
<1> QED BY <1>1, <1>2, <1>7, <1>8, <1>9, TypedMove

(* The same price, margin and standing *)
SameStanding(a, b) == a.price = b.price /\ a.margin = b.margin /\ a.qualified = b.qualified

LEMMA TurnoverWritten ==
  ASSUME NEW item \in Screen!Item, NEW t \in Nat
  PROVE  [item EXCEPT !.turnover = t] \in Screen!Item /\ SameStanding([item EXCEPT !.turnover = t], item)
BY DEF Screen!Item, SameStanding

(* A request works on a list that there is *)
LEMMA AtWork ==
  ASSUME ScreenTyped, NEW r \in Requests, req[r].pc \in WithList
  PROVE  /\ req[r].list \in DOMAIN lists /\ lists[req[r].list] \in Scored
         /\ \A s \in req[r].visible : s \in Tickers /\ lists[req[r].list][s] \in Screen!Item
                                      /\ lists[req[r].list][s] # None
                                      /\ Grounded(lists[req[r].list][s], s)
<1>1. req[r].list \in DOMAIN lists
  BY RequestFacts DEF RequestTyped
<1>2. lists[req[r].list] \in Scored
  BY <1>1, RequestFacts
<1> QED BY <1>1, <1>2, RequestFacts DEF RequestTyped, Scored

LEMMA FetchedLists ==
  ASSUME Screen!ScreenerConstants, ScreenTyped, NEW r \in Requests, req[r].pc \in WithList,
         NEW symbols \in SUBSET req[r].visible, NEW next, Screen!Fetch(r, symbols, next)
  PROVE  /\ lists' \in Seq(Scored) /\ SameKnown(lists, lists') /\ DOMAIN lists' = DOMAIN lists
         /\ \A n \in DOMAIN lists, s \in Tickers :
              lists[n][s] # None => SameStanding(lists'[n][s], lists[n][s])
<1>1. CASE next # "fill"
  <2>1. lists' = lists
    BY <1>1 DEF Screen!Fetch
  <2> QED BY <2>1, SameLists, RequestFacts DEF SameStanding
<1>2. CASE next = "fill"
  <2>1. PICK failed \in SUBSET symbols :
          LET got == Screen!Fetched(symbols, failed) IN
          lists' = [lists EXCEPT ![req[r].list] =
                      [s \in Tickers |-> IF s \in symbols
                                         THEN [@[s] EXCEPT !.turnover = IF got[s] = None THEN 0 ELSE Turnover[s]]
                                         ELSE @[s]]]
    BY <1>2 DEF Screen!Fetch
  <2> DEFINE got == Screen!Fetched(symbols, failed)
             n == req[r].list
             told(s) == IF got[s] = None THEN 0 ELSE Turnover[s]
             new == [s \in Tickers |-> IF s \in symbols THEN [lists[n][s] EXCEPT !.turnover = told(s)] ELSE lists[n][s]]
  <2>2. lists' = [lists EXCEPT ![n] = new] /\ n \in DOMAIN lists /\ lists[n] \in Scored
    BY <2>1, AtWork
  <2>3. \A s \in Tickers : told(s) \in Nat
    BY DEF Screen!ScreenerConstants
  <2> HIDE DEF told, n, got
  <2>4. ASSUME NEW s \in Tickers
        PROVE  /\ new[s] \in Screen!Item \cup {None} /\ (lists[n][s] = None <=> new[s] = None)
               /\ lists[n][s] # None => SameStanding(new[s], lists[n][s]) /\ Grounded(lists[n][s], s)
    <3>1. CASE s \in symbols
      <4>1. lists[n][s] \in Screen!Item /\ lists[n][s] # None /\ Grounded(lists[n][s], s)
        BY <3>1, AtWork DEF n
      <4>2. new[s] = [lists[n][s] EXCEPT !.turnover = told(s)]
        BY <3>1
      <4>3. new[s] \in Screen!Item /\ SameStanding(new[s], lists[n][s])
        <5> HIDE DEF new
        <5> QED BY <2>3, <4>1, <4>2, TurnoverWritten
      <4>4. new[s] # None
        BY <4>3 DEF Screen!ScreenerConstants
      <4> QED BY <4>1, <4>3, <4>4
    <3>2. CASE s \notin symbols
      <4>1. new[s] = lists[n][s]
        BY <3>2
      <4> HIDE DEF new
      <4> QED BY <2>2, <4>1 DEF Scored, SameStanding
    <3> QED BY <3>1, <3>2
  <2>5. new \in Scored
    <3>1. new \in [Tickers -> Screen!Item \cup {None}]
      BY <2>4
    <3> HIDE DEF new
    <3>2. \A s \in Tickers : new[s] # None => Grounded(new[s], s)
      BY <2>4 DEF SameStanding, Grounded
    <3> QED BY <3>1, <3>2 DEF Scored
  <2> HIDE DEF new
  <2>6. /\ lists' \in Seq(Scored) /\ SameKnown(lists, lists') /\ DOMAIN lists' = DOMAIN lists
        /\ lists'[n] = new /\ \A m \in DOMAIN lists \ {n} : lists'[m] = lists[m]
    BY <2>2, <2>4, <2>5, ListRewritten, RequestFacts
  <2> QED BY <2>4, <2>6 DEF SameStanding
<1> QED BY <1>1, <1>2

LEMMA TypedFetch ==
  ASSUME Screen!ScreenerConstants, ScreenTyped, NEW r \in Requests, req[r].pc \in {"liquidity", "prices"},
         NEW symbols \in SUBSET req[r].visible, NEW next \in Writing, Screen!Fetch(r, symbols, next)
  PROVE  ScreenTyped'
<1>1. /\ lists' \in Seq(Scored) /\ SameKnown(lists, lists') /\ DOMAIN lists' = DOMAIN lists
  BY FetchedLists DEF WithList
<1>2. PICK failed \in SUBSET symbols :
        LET got == Screen!Fetched(symbols, failed) IN
        /\ fetched' = Screen!Cached(symbols, failed)
        /\ req' = [req EXCEPT ![r].pc = next, ![r].got = got, ![r].todo = {s \in symbols : got[s] # None}]
  BY DEF Screen!Fetch
<1> DEFINE got == Screen!Fetched(symbols, failed)
           todo == {s \in symbols : got[s] # None}
           q == [req[r] EXCEPT !.pc = next, !.got = got, !.todo = todo]
<1>3. req' = [req EXCEPT ![r] = q] /\ UNCHANGED <<clock, market, past, stored, universe, computedAt, overlap>>
  BY <1>2 DEF Screen!Fetch
<1>4. symbols \in SUBSET Tickers
  BY RequestFacts
<1>5. /\ Quoted(got) /\ got \in [Tickers -> Nat \cup {None}]
      /\ fetched' = [s \in Tickers |-> fetched'[s]] /\ \A s \in Tickers : FetchedAt(s)'
  BY <1>2, <1>3, <1>4, FetchFacts
<1> HIDE DEF got
<1>6. todo \subseteq req[r].visible /\ todo \subseteq Tickers /\ \A s \in todo : got[s] # None
  BY <1>4
<1> HIDE DEF todo
<1>7. q \in Request /\ q.pc = next /\ q.list = req[r].list /\ q.now = req[r].now /\ q.prices = req[r].prices
      /\ q.got = got /\ q.todo = todo /\ q.visible = req[r].visible /\ q.half = req[r].half
  BY <1>5, <1>6, RequestFacts DEF Request, Stations, WithList, Writing
<1> HIDE DEF q
<1>8. req[r].todo = {} /\ ~req[r].half
  BY RequestFacts DEF RequestTyped, Writing
<1>9. RequestTyped(q, lists, clock)
  BY <1>5, <1>6, <1>7, <1>8, RequestFacts DEF RequestTyped, Writing, WithList
<1>10. RequestTyped(q, lists', clock)
  BY <1>1, <1>9, RequestStays, RequestFacts
<1>11. Table(stored') /\ universe' \in 0 .. Len(lists') /\ computedAt' \in Nat /\ overlap' \in BOOLEAN
  <2>1. Len(lists') = Len(lists)
    BY <1>1, RequestFacts, LenProperties
  <2> QED BY <1>3, <2>1 DEF ScreenTyped
<1> QED BY <1>1, <1>3, <1>5, <1>10, <1>11, TypedMove

LEMMA TypedFilter ==
  ASSUME Screen!ScreenerConstants, ScreenTyped, NEW r \in Requests, Screen!Filter(r)
  PROVE  ScreenTyped'
<1>1. PICK filter \in Screen!Filters : req' = [req EXCEPT ![r].pc = "liquidity", ![r].visible = Screen!Passing(r, filter)]
  BY DEF Screen!Filter
<1> DEFINE visible == Screen!Passing(r, filter)
           q == [req[r] EXCEPT !.pc = "liquidity", !.visible = visible]
<1>2. req' = [req EXCEPT ![r] = q] /\ req[r].pc = "filter"
  BY <1>1 DEF Screen!Filter, Screen!At
<1>3. visible \subseteq Tickers /\ \A s \in visible : lists[req[r].list][s] # None
  BY DEF Screen!Passing, Screen!Items
<1> HIDE DEF visible
<1>4. q \in Request /\ q.pc = "liquidity" /\ q.list = req[r].list /\ q.now = req[r].now /\ q.prices = req[r].prices
      /\ q.got = req[r].got /\ q.todo = req[r].todo /\ q.visible = visible /\ q.half = req[r].half
  BY <1>3, RequestFacts DEF Request, Stations, WithList
<1> HIDE DEF q
<1>5. req[r].todo = {}
  BY <1>2, RequestFacts DEF RequestTyped, Writing
<1>6. RequestTyped(q, lists, clock)
  BY <1>2, <1>3, <1>4, <1>5, RequestFacts DEF RequestTyped, Writing, WithList
<1>7. overlap' \in BOOLEAN
  BY DEF Screen!Filter, ScreenTyped
<1> QED BY <1>2, <1>6, <1>7, TypedQuiet DEF Screen!Filter

LEMMA TypedSelect ==
  ASSUME Screen!ScreenerConstants, ScreenTyped, NEW r \in Requests, Screen!Select(r)
  PROVE  ScreenTyped'
<1>1. PICK shown \in Screen!Shown(r) : req' = [req EXCEPT ![r].pc = "prices", ![r].visible = shown]
  BY DEF Screen!Select
<1> DEFINE q == [req[r] EXCEPT !.pc = "prices", !.visible = shown]
<1>2. req' = [req EXCEPT ![r] = q] /\ req[r].pc = "select"
  BY <1>1 DEF Screen!Select, Screen!At
<1>3. shown \subseteq req[r].visible
  BY DEF Screen!Shown
<1>4. q \in Request /\ q.pc = "prices" /\ q.list = req[r].list /\ q.now = req[r].now /\ q.prices = req[r].prices
      /\ q.got = req[r].got /\ q.todo = req[r].todo /\ q.visible = shown /\ q.half = req[r].half
  BY <1>3, RequestFacts DEF Request, Stations, WithList
<1> HIDE DEF q
<1>5. req[r].todo = {}
  BY <1>2, RequestFacts DEF RequestTyped, Writing
<1>6. RequestTyped(q, lists, clock)
  BY <1>2, <1>3, <1>4, <1>5, RequestFacts DEF RequestTyped, Writing, WithList
<1>7. overlap' \in BOOLEAN
  BY DEF Screen!Select, ScreenTyped
<1> QED BY <1>2, <1>6, <1>7, TypedQuiet DEF Screen!Select

LEMMA TypedAnswer ==
  ASSUME Screen!ScreenerConstants, ScreenTyped, NEW r \in Requests, Screen!Answer(r)
  PROVE  ScreenTyped'
<1> DEFINE answer == [s \in req[r].visible |-> Screen!Items(r)[s]]
           q == [req[r] EXCEPT !.pc = "answered", !.answer = answer, !.visible = {}]
<1>1. req' = [req EXCEPT ![r] = q] /\ req[r].pc = "answer"
  BY DEF Screen!Answer, Screen!At
<1>2. answer \in Answers
  <2>1. answer \in [req[r].visible -> Screen!Item]
    BY <1>1, AtWork DEF Screen!Items, WithList
  <2> QED BY <2>1, RequestFacts DEF Answers
<1> HIDE DEF answer
<1>3. q \in Request /\ q.pc = "answered" /\ q.list = req[r].list /\ q.now = req[r].now /\ q.prices = req[r].prices
      /\ q.got = req[r].got /\ q.todo = req[r].todo /\ q.visible = {} /\ q.half = req[r].half
  <2>1. req[r] \in Request
    BY RequestFacts
  <2> HIDE DEF Answers
  <2> QED BY <1>2, <2>1 DEF Request, Stations, WithList
<1> HIDE DEF q
<1>4. req[r].todo = {}
  BY <1>1, RequestFacts DEF RequestTyped, Writing
<1>5. RequestTyped(q, lists, clock)
  BY <1>1, <1>3, <1>4, RequestFacts DEF RequestTyped, Writing, WithList
<1>6. overlap' \in BOOLEAN
  BY DEF Screen!Answer, ScreenTyped
<1> QED BY <1>1, <1>5, <1>6, TypedQuiet DEF Screen!Answer

LEMMA TypedLeave ==
  ASSUME Screen!ScreenerConstants, ScreenTyped, NEW r \in Requests, Screen!Leave(r)
  PROVE  ScreenTyped'
<1>1. RequestTyped(Screen!Idle, lists, clock)
  BY IdleTyped, RequestFacts
<1>2. overlap' \in BOOLEAN
  BY DEF Screen!Leave, ScreenTyped
<1> QED BY <1>1, <1>2, TypedQuiet DEF Screen!Leave

LEMMA TypedPersist ==
  ASSUME Screen!ScreenerConstants, ScreenTyped, NEW r \in Requests, Screen!Persist(r)
  PROVE  ScreenTyped'
<1> DEFINE pc == IF req[r].pc = "fill" THEN "select" ELSE "answer"
           got == IF req[r].pc = "fill" THEN Screen!Idle.got ELSE req[r].got
           q == [req[r] EXCEPT !.pc = pc, !.got = got]
<1>1. /\ req' = [req EXCEPT ![r] = q] /\ req[r].pc \in Writing /\ req[r].todo = {} /\ ~req[r].half
      /\ stored' \in {stored, Screen!Persisted(req[r].got)}
      /\ UNCHANGED <<clock, market, fetched, lists, universe, computedAt, past, overlap>>
  BY DEF Screen!Persist, Screen!At, Writing
<1>2. pc \in {"select", "answer"}
  OBVIOUS
<1>3. got \in [Tickers -> Nat \cup {None}] /\ Quoted(got)
  BY RequestFacts DEF Screen!Idle, RequestTyped, Quoted
<1> HIDE DEF pc, got
<1>4. q \in Request /\ q.pc = pc /\ q.list = req[r].list /\ q.now = req[r].now /\ q.prices = req[r].prices
      /\ q.got = got /\ q.todo = req[r].todo /\ q.visible = req[r].visible /\ q.half = req[r].half
  BY <1>2, <1>3, RequestFacts DEF Request, Stations, WithList
<1> HIDE DEF q
<1>5. RequestTyped(q, lists', clock)
  BY <1>1, <1>2, <1>3, <1>4, RequestFacts DEF RequestTyped, Writing, WithList
<1>6. Table(stored')
  <2>1. Table(Screen!Persisted(req[r].got)) /\ Table(stored)
    BY PersistFacts, RequestFacts DEF ScreenTyped, RequestTyped
  <2> QED BY <1>1, <2>1
<1>7. /\ lists' \in Seq(Scored) /\ SameKnown(lists, lists') /\ universe' \in 0 .. Len(lists') /\ computedAt' \in Nat
      /\ fetched' = [s \in Tickers |-> fetched'[s]] /\ overlap' \in BOOLEAN
  BY <1>1, SameLists DEF ScreenTyped
<1>8. \A s \in Tickers : FetchedAt(s)'
  BY <1>1 DEF ScreenTyped, FetchedAt
<1> QED BY <1>1, <1>5, <1>6, <1>7, <1>8, TypedMove

(* What the two writes of _apply_refreshed_price do to the item *)
LEMMA WritePriceFacts ==
  ASSUME Screen!ScreenerConstants, ScreenTyped, NEW r \in Requests, Screen!WritePrice(r)
  PROVE  LET s == Item0(req[r])
             n == req[r].list
         IN  /\ s \in req[r].todo /\ s \in Tickers /\ n \in DOMAIN lists
             /\ lists[n][s] \in Screen!Item /\ lists[n][s] # None /\ Grounded(lists[n][s], s)
             /\ req[r].got[s] \in Screen!Price(s)
             /\ ~req[r].half /\ req' = [req EXCEPT ![r].half = TRUE]
             /\ lists' = [lists EXCEPT ![n] = [lists[n] EXCEPT ![s] = [lists[n][s] EXCEPT !.price = req[r].got[s]]]]
<1> DEFINE s == Item0(req[r])
           n == req[r].list
<1>1. req[r].pc \in Writing /\ req[r].todo # {}
  BY DEF Screen!WritePrice, Writing
<1>2. s \in req[r].todo /\ s \in req[r].visible
  BY <1>1, RequestFacts DEF Item0
<1>3. /\ ~req[r].half /\ req' = [req EXCEPT ![r].half = TRUE]
      /\ lists' = [lists EXCEPT ![n][s].price = req[r].got[s]]
  BY DEF Screen!WritePrice, Item0, Screen!Current
<1>4. s \in Tickers /\ n \in DOMAIN lists /\ lists[n][s] \in Screen!Item /\ lists[n][s] # None /\ Grounded(lists[n][s], s)
  BY <1>1, <1>2, AtWork DEF Writing, WithList
<1>5. req[r].got[s] \in Screen!Price(s)
  BY <1>2, <1>4, RequestFacts DEF RequestTyped, Quoted
<1>6. lists' = [lists EXCEPT ![n] = [lists[n] EXCEPT ![s] = [lists[n][s] EXCEPT !.price = req[r].got[s]]]]
  BY <1>3
<1> QED BY <1>2, <1>3, <1>4, <1>5, <1>6

LEMMA WriteItemFacts ==
  ASSUME Screen!ScreenerConstants, ScreenTyped, NEW r \in Requests, Screen!WriteItem(r)
  PROVE  LET s == Item0(req[r])
             n == req[r].list
         IN  /\ s \in req[r].todo /\ s \in Tickers /\ n \in DOMAIN lists
             /\ lists[n][s] \in Screen!Item /\ lists[n][s] # None /\ Grounded(lists[n][s], s)
             /\ req[r].got[s] \in Screen!Price(s) /\ req[r].half
             /\ req' = [req EXCEPT ![r].half = FALSE, ![r].todo = req[r].todo \ {s}]
             /\ lists' = [lists EXCEPT ![n] = [lists[n] EXCEPT ![s] =
                            Screen!Refreshed(lists[n][s], s, req[r].got[s])]]
<1> DEFINE s == Item0(req[r])
           n == req[r].list
<1>1. req[r].pc \in Writing /\ req[r].half
  BY DEF Screen!WriteItem, Writing
<1>2. req[r].todo # {}
  BY <1>1, RequestFacts DEF RequestTyped
<1>3. s \in req[r].todo /\ s \in req[r].visible
  BY <1>2, RequestFacts DEF Item0
<1>4. /\ req' = [req EXCEPT ![r].half = FALSE, ![r].todo = @ \ {s}]
      /\ lists' = [lists EXCEPT ![n][s] = Screen!Refreshed(@, s, req[r].got[s])]
  BY DEF Screen!WriteItem, Item0, Screen!Current
<1>5. s \in Tickers /\ n \in DOMAIN lists /\ lists[n][s] \in Screen!Item /\ lists[n][s] # None /\ Grounded(lists[n][s], s)
  BY <1>1, <1>3, AtWork DEF Writing, WithList
<1>6. req[r].got[s] \in Screen!Price(s)
  BY <1>3, <1>5, RequestFacts DEF RequestTyped, Quoted
<1>7. /\ req' = [req EXCEPT ![r].half = FALSE, ![r].todo = req[r].todo \ {s}]
      /\ lists' = [lists EXCEPT ![n] = [lists[n] EXCEPT ![s] =
                     Screen!Refreshed(lists[n][s], s, req[r].got[s])]]
  BY <1>4
<1> QED BY <1>1, <1>2, <1>3, <1>5, <1>6, <1>7

(* The item of the list that a step writes, and the others *)
LEMMA WrittenLists ==
  ASSUME Screen!ScreenerConstants, ScreenTyped, NEW r \in Requests, Screen!WritePrice(r) \/ Screen!WriteItem(r)
  PROVE  LET s == Item0(req[r])
             n == req[r].list
         IN  /\ lists' \in Seq(Scored) /\ SameKnown(lists, lists') /\ DOMAIN lists' = DOMAIN lists
             /\ Len(lists') = Len(lists)
             /\ Screen!WritePrice(r) => lists'[n][s] = [lists[n][s] EXCEPT !.price = req[r].got[s]]
             /\ Screen!WriteItem(r) => lists'[n][s] = Screen!Refreshed(lists[n][s], s, req[r].got[s])
             /\ \A m \in DOMAIN lists, t \in Tickers : m # n \/ t # s => lists'[m][t] = lists[m][t]
<1> DEFINE s == Item0(req[r])
           n == req[r].list
           priced == [lists[n][s] EXCEPT !.price = req[r].got[s]]
           new == Screen!Refreshed(lists[n][s], s, req[r].got[s])
<1>0. lists \in Seq(Scored)
  BY DEF ScreenTyped
<1>1. Screen!WritePrice(r) => Rewritten(lists, n, s, priced, lists')
  <2> SUFFICES ASSUME Screen!WritePrice(r) PROVE Rewritten(lists, n, s, priced, lists')
    OBVIOUS
  <2>1. /\ s \in Tickers /\ n \in DOMAIN lists /\ lists[n][s] \in Screen!Item /\ lists[n][s] # None
        /\ Grounded(lists[n][s], s) /\ req[r].got[s] \in Screen!Price(s) /\ lists' = [lists EXCEPT ![n] = [lists[n] EXCEPT ![s] = priced]]
    BY WritePriceFacts
  <2>2. priced \in Screen!Item /\ Grounded(priced, s)
    BY <2>1 DEF Screen!Item, Screen!Price, Grounded
  <2> HIDE DEF priced, s, n
  <2> QED BY <1>0, <2>1, <2>2, ItemRewritten
<1>2. Screen!WriteItem(r) => Rewritten(lists, n, s, new, lists')
  <2> SUFFICES ASSUME Screen!WriteItem(r) PROVE Rewritten(lists, n, s, new, lists')
    OBVIOUS
  <2>1. /\ s \in Tickers /\ n \in DOMAIN lists /\ lists[n][s] \in Screen!Item /\ lists[n][s] # None
        /\ Grounded(lists[n][s], s) /\ req[r].got[s] \in Screen!Price(s)
        /\ lists' = [lists EXCEPT ![n] = [lists[n] EXCEPT ![s] = new]]
    BY WriteItemFacts
  <2>2. new \in Screen!Item /\ Grounded(new, s)
    BY <2>1, RefreshedFacts
  <2> HIDE DEF new, s, n
  <2> QED BY <1>0, <2>1, <2>2, ItemRewritten
<1>3. ~(Screen!WritePrice(r) /\ Screen!WriteItem(r))
  BY DEF Screen!WritePrice, Screen!WriteItem
<1> HIDE DEF s, n, priced, new
<1> QED BY <1>1, <1>2, <1>3 DEF Rewritten, s, n, priced, new

LEMMA TypedWritePrice ==
  ASSUME Screen!ScreenerConstants, ScreenTyped, NEW r \in Requests, Screen!WritePrice(r)
  PROVE  ScreenTyped'
<1> DEFINE s == Item0(req[r])
           q == [req[r] EXCEPT !.half = TRUE]
<1>1. req' = [req EXCEPT ![r] = q] /\ req[r].todo # {}
  BY WritePriceFacts
<1>2. /\ lists' \in Seq(Scored) /\ SameKnown(lists, lists') /\ Len(lists') = Len(lists)
  BY WrittenLists
<1>3. UNCHANGED <<clock, market, past, stored, fetched, universe, computedAt, overlap>>
  BY DEF Screen!WritePrice
<1>4. q \in Request /\ q.pc = req[r].pc /\ q.list = req[r].list /\ q.now = req[r].now /\ q.prices = req[r].prices
      /\ q.got = req[r].got /\ q.todo = req[r].todo /\ q.visible = req[r].visible /\ q.half = TRUE
  BY <1>1, RequestFacts DEF Request
<1> HIDE DEF q
<1>6. RequestTyped(q, lists, clock)
  BY <1>1, <1>4, RequestFacts DEF RequestTyped
<1>7. RequestTyped(q, lists', clock)
  BY <1>2, <1>6, RequestStays, RequestFacts
<1>8. Table(stored') /\ fetched' = [x \in Tickers |-> fetched'[x]] /\ universe' \in 0 .. Len(lists') /\ computedAt' \in Nat
      /\ overlap' \in BOOLEAN
  BY <1>2, <1>3 DEF ScreenTyped
<1>9. \A x \in Tickers : FetchedAt(x)'
  BY <1>3 DEF ScreenTyped, FetchedAt
<1> QED BY <1>1, <1>2, <1>3, <1>7, <1>8, <1>9, TypedMove

LEMMA TypedWriteItem ==
  ASSUME Screen!ScreenerConstants, ScreenTyped, NEW r \in Requests, Screen!WriteItem(r)
  PROVE  ScreenTyped'
<1> DEFINE s == Item0(req[r])
           todo == req[r].todo \ {s}
           q == [req[r] EXCEPT !.half = FALSE, !.todo = todo]
<1>1. req' = [req EXCEPT ![r] = q] /\ req[r].pc \in Writing
  <2>1. req[r].pc \in Writing
    BY DEF Screen!WriteItem, Writing
  <2>2. req' = [req EXCEPT ![r] = q]
    BY WriteItemFacts
  <2> QED BY <2>1, <2>2
<1>2. /\ lists' \in Seq(Scored) /\ SameKnown(lists, lists') /\ Len(lists') = Len(lists)
  BY WrittenLists
<1>3. UNCHANGED <<clock, market, past, stored, fetched, universe, computedAt, overlap>>
  BY DEF Screen!WriteItem
<1>a. todo \subseteq req[r].todo
  OBVIOUS
<1> HIDE DEF todo
<1>4. q \in Request /\ q.pc = req[r].pc /\ q.list = req[r].list /\ q.now = req[r].now /\ q.prices = req[r].prices
      /\ q.got = req[r].got /\ q.todo = todo /\ q.visible = req[r].visible /\ q.half = FALSE
  BY <1>a, RequestFacts DEF Request
<1> HIDE DEF q
<1>6. RequestTyped(q, lists, clock)
  BY <1>1, <1>a, <1>4, RequestFacts DEF RequestTyped
<1>7. RequestTyped(q, lists', clock)
  BY <1>2, <1>6, RequestStays, RequestFacts
<1>8. Table(stored') /\ fetched' = [x \in Tickers |-> fetched'[x]] /\ universe' \in 0 .. Len(lists') /\ computedAt' \in Nat
      /\ overlap' \in BOOLEAN
  BY <1>2, <1>3 DEF ScreenTyped
<1>9. \A x \in Tickers : FetchedAt(x)'
  BY <1>3 DEF ScreenTyped, FetchedAt
<1> QED BY <1>1, <1>2, <1>3, <1>7, <1>8, <1>9, TypedMove

LEMMA PastGrows ==
  ASSUME ScreenTyped, Screen!Tick
  PROVE  /\ past' \in Seq(Screen!Quotes) /\ Len(past') = clock' + 1 /\ past'[clock' + 1] = market' /\ clock' = clock + 1
         /\ market' \in Screen!Quotes
         /\ \A t \in 0 .. clock : past'[t + 1] = past[t + 1]
<1>1. past \in Seq(Screen!Quotes) /\ Len(past) = clock + 1 /\ clock \in Nat /\ clock' = clock + 1
      /\ market' \in Screen!Quotes /\ past' = Append(past, market')
  BY DEF ScreenTyped, Screen!Tick
<1>2. /\ past' \in Seq(Screen!Quotes) /\ Len(past') = Len(past) + 1 /\ past'[Len(past) + 1] = market'
      /\ \A i \in 1 .. Len(past) : past'[i] = past[i]
  BY <1>1, AppendProperties
<1>3. \A t \in 0 .. clock : t + 1 \in 1 .. Len(past)
  BY <1>1
<1> QED BY <1>1, <1>2, <1>3

LEMMA TypedTick ==
  ASSUME ScreenTyped, Screen!Tick
  PROVE  ScreenTyped'
<1>1. UNCHANGED <<stored, fetched, lists, universe, computedAt, req, overlap>> /\ clock \in Nat
  BY DEF Screen!Tick, ScreenTyped
<1>2. \A r \in Requests : RequestTyped(req'[r], lists', clock')
  <2> SUFFICES ASSUME NEW r \in Requests PROVE RequestTyped(req[r], lists, clock')
    BY <1>1
  <2>1. clock' \in Nat /\ clock <= clock' /\ lists \in Seq(Scored) /\ SameKnown(lists, lists)
        /\ RequestTyped(req[r], lists, clock)
    BY <1>1, PastGrows, SameLists, RequestFacts
  <2> QED BY <1>1, <2>1, RequestStays
<1>3. \A s \in Tickers : FetchedAt(s)'
  <2> SUFFICES ASSUME NEW s \in Tickers, fetched[s] # None
               PROVE  fetched[s].at \in 0 .. clock' /\ fetched[s].price = past'[fetched[s].at + 1][s]
                      /\ fetched[s] = [at |-> fetched[s].at, price |-> fetched[s].price]
    BY <1>1 DEF FetchedAt
  <2>1. FetchedAt(s)
    BY DEF ScreenTyped
  <2> QED BY <1>1, <2>1, PastGrows DEF FetchedAt
<1>4. clock' \in Nat
  BY <1>1, PastGrows
<1> QED BY <1>1, <1>2, <1>3, <1>4, PastGrows DEF ScreenTyped

LEMMA TypedStep ==
  ASSUME Screen!ScreenerConstants, ScreenTyped, [Screen!Next]_(Screen!vars)
  PROVE  ScreenTyped'
<1>1. ASSUME NEW r \in Requests, Screen!Work(r) PROVE ScreenTyped'
  <2>1. CASE Screen!FetchLiquidity(r)
    <3>1. /\ req[r].pc \in {"liquidity", "prices"} /\ "fill" \in Writing
          /\ Screen!Fetch(r, {s \in req[r].visible : Screen!Items(r)[s].turnover = 0}, "fill")
      BY <2>1 DEF Screen!FetchLiquidity, Screen!At, Writing
    <3> QED BY <3>1, TypedFetch
  <2>2. CASE Screen!FetchShown(r)
    <3>1. req[r].pc \in {"liquidity", "prices"} /\ "refresh" \in Writing /\ Screen!Fetch(r, req[r].visible, "refresh")
      BY <2>2 DEF Screen!FetchShown, Screen!At, Writing
    <3> QED BY <3>1, TypedFetch
  <2> QED
    BY <1>1, <2>1, <2>2, TypedArrive, TypedUseList, TypedReadPrices, TypedBackfill, TypedScore, TypedFilter,
       TypedWritePrice, TypedWriteItem, TypedPersist, TypedSelect, TypedAnswer, TypedLeave DEF Screen!Work
<1>2. CASE UNCHANGED Screen!vars
  <2>1. \A s \in Tickers : FetchedAt(s)'
    BY <1>2 DEF Screen!vars, ScreenTyped, FetchedAt
  <2> QED BY <1>2, <2>1 DEF Screen!vars, ScreenTyped
<1> QED BY <1>1, <1>2, TypedTick DEF Screen!Next

LEMMA ScreenStart == Screen!ScreenerConstants /\ Screen!Init => ScreenInv
<1> SUFFICES ASSUME Screen!ScreenerConstants, Screen!Init PROVE ScreenInv
  OBVIOUS
<1>1. /\ clock = 0 /\ market \in Screen!Quotes /\ past = <<market>> /\ stored \in Stored /\ fetched = [s \in Tickers |-> None]
      /\ lists = <<>> /\ universe = 0 /\ computedAt = 0 /\ lock = None /\ overlap = FALSE
      /\ req = [r \in Requests |-> Screen!Idle]
  BY DEF Screen!Init
<1>2. lists \in Seq(Scored) /\ Len(lists) = 0 /\ DOMAIN lists = {}
  BY <1>1
<1>3. past \in Seq(Screen!Quotes) /\ Len(past) = clock + 1 /\ past[clock + 1] = market
  BY <1>1
<1>4. Table(stored)
  BY <1>1 DEF Screen!ScreenerConstants, Table
<1>5. \A r \in Requests : req[r] = Screen!Idle /\ RequestTyped(req[r], lists, clock)
  BY <1>1, <1>2, IdleTyped
<1>6. ScreenTyped
  <2>1. fetched = [s \in Tickers |-> fetched[s]] /\ \A s \in Tickers : FetchedAt(s)
    BY <1>1 DEF FetchedAt
  <2>2. clock \in Nat /\ universe \in 0 .. Len(lists) /\ computedAt \in Nat
    BY <1>1, <1>2
  <2>3. overlap \in BOOLEAN
    BY <1>1
  <2> QED BY <1>1, <1>2, <1>3, <1>4, <1>5, <2>1, <2>2, <2>3 DEF ScreenTyped
<1>7. Screen!Idle.pc = "idle" /\ Screen!Idle.got = [s \in Tickers |-> None]
  BY DEF Screen!Idle
<1>8. LockHeld /\ Recent
  BY <1>1, <1>5, <1>7 DEF LockHeld, Recent, Computing
<1>9. OneClient
  BY <1>2, <1>5, <1>7 DEF OneClient, OneAtWork, Screen!At, Shows, Answered
<1>10. ItemsStand
  BY <1>2 DEF ItemsStand
<1> QED BY <1>5, <1>6, <1>8, <1>9, <1>10 DEF ScreenInv, IdleInv

(***************************************************************************)
(* What a step leaves alone                                                *)
(***************************************************************************)
(* Requests come and go on their own, and only a fetch gives one new prices *)
LEMMA WorkFacts ==
  ASSUME ScreenTyped, NEW r \in Requests, Screen!Work(r)
  PROVE  /\ \A x \in Requests \ {r} : req'[x] = req[x]
         /\ UNCHANGED <<clock, past>>
         /\ req'[r].pc = "idle" => req'[r] = Screen!Idle
         /\ Screen!Arrive(r) \/ Screen!Leave(r) \/ req'[r].now = req[r].now
         /\ req'[r].pc \in Computing => Screen!ReadPrices(r) \/ (Screen!Backfill(r) /\ req[r].pc \in Computing)
         /\ Screen!Arrive(r) \/ (req[r].pc # "idle" /\ overlap' = overlap)
         /\ \/ Screen!FetchLiquidity(r) \/ Screen!FetchShown(r) \/ req'[r].got = req[r].got \/ req'[r].got = Screen!Idle.got
<1> DEFINE q == req[r]
<1>1. q \in Request /\ req = [x \in Requests |-> req[x]]
  BY RequestFacts DEF ScreenTyped
<1>2. ASSUME NEW next, next # "idle", NEW symbols, Screen!Fetch(r, symbols, next)
      PROVE  /\ \A x \in Requests \ {r} : req'[x] = req[x]
             /\ UNCHANGED <<clock, past, overlap>> /\ req'[r].pc = next /\ req'[r].now = q.now
  <2>1. PICK got, todo : req' = [req EXCEPT ![r].pc = next, ![r].got = got, ![r].todo = todo]
    BY <1>2 DEF Screen!Fetch
  <2> QED BY <1>1, <1>2, <2>1 DEF Screen!Fetch, Request
<1>3. CASE Screen!FetchLiquidity(r)
  <2>1. Screen!Fetch(r, {s \in req[r].visible : Screen!Items(r)[s].turnover = 0}, "fill") /\ req[r].pc = "liquidity"
    BY <1>3 DEF Screen!FetchLiquidity, Screen!At
  <2>2. /\ \A x \in Requests \ {r} : req'[x] = req[x]
        /\ UNCHANGED <<clock, past, overlap>> /\ req'[r].pc = "fill" /\ req'[r].now = q.now
    BY <1>2, <2>1
  <2> QED BY <1>3, <2>1, <2>2 DEF Computing
<1>4. CASE Screen!FetchShown(r)
  <2>1. Screen!Fetch(r, req[r].visible, "refresh") /\ req[r].pc = "prices"
    BY <1>4 DEF Screen!FetchShown, Screen!At
  <2>2. /\ \A x \in Requests \ {r} : req'[x] = req[x]
        /\ UNCHANGED <<clock, past, overlap>> /\ req'[r].pc = "refresh" /\ req'[r].now = q.now
    BY <1>2, <2>1
  <2> QED BY <1>4, <2>1, <2>2 DEF Computing
<1>5. CASE Screen!Arrive(r)
  BY <1>1, <1>5 DEF Screen!Arrive, Screen!Idle, Computing
<1>6. CASE Screen!Leave(r)
  BY <1>1, <1>6 DEF Screen!Leave, Screen!At, Screen!Idle, Computing
<1>7. CASE Screen!UseList(r) \/ Screen!ReadPrices(r) \/ Screen!Score(r) \/ Screen!Select(r)
  <2>1. CASE Screen!UseList(r)
    BY <1>1, <2>1 DEF Screen!UseList, Screen!At, Request, Computing
  <2>2. CASE Screen!ReadPrices(r)
    BY <1>1, <2>2 DEF Screen!ReadPrices, Screen!At, Request, Computing
  <2>3. CASE Screen!Score(r)
    BY <1>1, <2>3 DEF Screen!Score, Screen!At, Request, Computing
  <2>4. CASE Screen!Select(r)
    <3>1. PICK visible : req' = [req EXCEPT ![r].pc = "prices", ![r].visible = visible]
      BY <2>4 DEF Screen!Select
    <3> QED BY <1>1, <2>4, <3>1 DEF Screen!Select, Screen!At, Request, Computing
  <2> QED BY <1>7, <2>1, <2>2, <2>3, <2>4
<1>8. CASE Screen!Backfill(r)
  <2>1. PICK prices : req' = [req EXCEPT ![r].pc = "score", ![r].prices = prices]
    BY <1>1, <1>8 DEF Screen!Backfill
  <2> QED BY <1>1, <1>8, <2>1 DEF Screen!Backfill, Screen!At, Request, Computing
<1>9. CASE Screen!Filter(r)
  <2>1. PICK visible : req' = [req EXCEPT ![r].pc = "liquidity", ![r].visible = visible]
    BY <1>9 DEF Screen!Filter
  <2> QED BY <1>1, <1>9, <2>1 DEF Screen!Filter, Screen!At, Request, Computing
<1>10. CASE Screen!WritePrice(r) \/ Screen!WriteItem(r)
  BY <1>1, <1>10 DEF Screen!WritePrice, Screen!WriteItem, Request, Computing
<1>11. CASE Screen!Persist(r)
  BY <1>1, <1>11 DEF Screen!Persist, Screen!At, Request, Computing
<1>12. CASE Screen!Answer(r)
  <2>1. PICK answer : req' = [req EXCEPT ![r].pc = "answered", ![r].answer = answer, ![r].visible = {}]
    BY <1>12 DEF Screen!Answer
  <2>2. req' = [req EXCEPT ![r] = [q EXCEPT !.pc = "answered", !.answer = answer, !.visible = {}]]
    BY <2>1
  <2>3. req'[r] = [q EXCEPT !.pc = "answered", !.answer = answer, !.visible = {}] /\ \A x \in Requests \ {r} : req'[x] = req[x]
    BY <1>1, <2>2
  <2>4. req'[r].pc = "answered" /\ req'[r].now = q.now /\ req'[r].got = q.got
    BY <1>1, <2>3 DEF Request
  <2> QED BY <1>12, <2>3, <2>4 DEF Screen!Answer, Screen!At, Computing
<1> QED BY <1>3, <1>4, <1>5, <1>6, <1>7, <1>8, <1>9, <1>10, <1>11, <1>12 DEF Screen!Work

LEMMA IdleKept ==
  ASSUME ScreenTyped, IdleInv, [Screen!Next]_(Screen!vars)
  PROVE  IdleInv'
<1>1. ASSUME NEW r \in Requests, Screen!Work(r) PROVE IdleInv'
  <2> SUFFICES ASSUME NEW x \in Requests, req'[x].pc = "idle" PROVE req'[x] = Screen!Idle
    BY DEF IdleInv, Screen!At
  <2> QED BY <1>1, WorkFacts DEF IdleInv, Screen!At
<1>2. CASE UNCHANGED Screen!vars
  BY <1>2 DEF Screen!vars, IdleInv, Screen!At
<1>3. CASE Screen!Tick
  BY <1>3 DEF Screen!Tick, IdleInv, Screen!At
<1> QED BY <1>1, <1>2, <1>3 DEF Screen!Next

(***************************************************************************)
(* The lock                                                                *)
(***************************************************************************)
LEMMA SameItems ==
  ASSUME ScreenTyped, NEW more, SameKnown(lists, more)
  PROVE  Screen!HasItems(universe) <=> (universe # 0 /\ \E s \in Tickers : more[universe][s] # None)
<1>1. universe # 0 => universe \in DOMAIN lists
  BY RequestFacts, LenProperties DEF ScreenTyped
<1> QED BY <1>1 DEF Screen!HasItems, SameKnown

(* A step that neither takes the lock nor computes the list *)
LEMMA ListsKeepItems ==
  ASSUME Screen!ScreenerConstants, ScreenTyped, NEW r \in Requests, Screen!Work(r), ~Screen!Score(r)
  PROVE  /\ lists' \in Seq(Scored) /\ SameKnown(lists, lists') /\ DOMAIN lists' = DOMAIN lists
         /\ UNCHANGED <<universe, computedAt>>
<1>0. ASSUME NEW next, NEW symbols \in SUBSET req[r].visible, Screen!Fetch(r, symbols, next), req[r].pc \in WithList
      PROVE  /\ lists' \in Seq(Scored) /\ SameKnown(lists, lists') /\ DOMAIN lists' = DOMAIN lists
             /\ UNCHANGED <<universe, computedAt>>
  <2>1. UNCHANGED <<universe, computedAt>>
    BY <1>0 DEF Screen!Fetch
  <2> QED BY <1>0, <2>1, FetchedLists
<1>1. CASE Screen!FetchLiquidity(r)
  <2>1. Screen!Fetch(r, {s \in req[r].visible : Screen!Items(r)[s].turnover = 0}, "fill") /\ req[r].pc \in WithList
    BY <1>1 DEF Screen!FetchLiquidity, Screen!At, WithList
  <2> QED BY <1>0, <2>1
<1>2. CASE Screen!FetchShown(r)
  <2>1. Screen!Fetch(r, req[r].visible, "refresh") /\ req[r].pc \in WithList
    BY <1>2 DEF Screen!FetchShown, Screen!At, WithList
  <2> QED BY <1>0, <2>1
<1>3. CASE Screen!WritePrice(r) \/ Screen!WriteItem(r)
  BY <1>3, WrittenLists DEF Screen!WritePrice, Screen!WriteItem
<1>4. CASE ~(Screen!FetchLiquidity(r) \/ Screen!FetchShown(r) \/ Screen!WritePrice(r) \/ Screen!WriteItem(r))
  <2>1. UNCHANGED <<lists, universe, computedAt>>
    BY <1>4 DEF Screen!Work, Screen!Arrive, Screen!UseList, Screen!ReadPrices, Screen!Backfill, Screen!Filter, Screen!Persist, Screen!Select, Screen!Answer, Screen!Leave
  <2> QED BY <2>1, SameLists DEF ScreenTyped
<1> QED BY <1>1, <1>2, <1>3, <1>4

LEMMA LockKept ==
  ASSUME Screen!ScreenerConstants, ScreenTyped, LockHeld, [Screen!Next]_(Screen!vars)
  PROVE  LockHeld'
<1>1. ASSUME NEW r \in Requests, Screen!Work(r) PROVE LockHeld'
  <2>1. CASE Screen!Score(r)
    <3>1. req[r].pc = "score" /\ lock' = None /\ req'[r].pc = "filter"
      <4>1. req[r] \in Request /\ req = [x \in Requests |-> req[x]]
        BY RequestFacts DEF ScreenTyped
      <4> QED BY <2>1, <4>1 DEF Screen!Score, Screen!At, Request
    <3>2. \A x \in Requests : req[x].pc \in Computing => x = r
      BY <3>1 DEF LockHeld, Computing
    <3> QED BY <1>1, <3>1, <3>2, WorkFacts DEF LockHeld, Computing
  <2>2. CASE Screen!ReadPrices(r)
    <3>1. /\ lock = None /\ lock' = r /\ UNCHANGED <<lists, universe, computedAt>>
          /\ ~Screen!HasItems(universe) \/ req[r].now - computedAt >= CacheTTL
      BY <2>2 DEF Screen!ReadPrices
    <3>2. req'[r].now = req[r].now
      BY <2>2, RequestFacts DEF Screen!ReadPrices, ScreenTyped, Request
    <3>3. \A x \in Requests : req[x].pc \notin Computing
      BY <3>1 DEF LockHeld, Screen!ScreenerConstants
    <3> QED BY <1>1, <3>1, <3>2, <3>3, WorkFacts DEF LockHeld, Screen!HasItems
  <2>3. CASE ~Screen!Score(r) /\ ~Screen!ReadPrices(r)
    <3>1. lock' = lock
      BY <1>1, <2>3 DEF Screen!Work, Screen!Arrive, Screen!UseList, Screen!Backfill, Screen!Filter, Screen!FetchLiquidity, Screen!FetchShown, Screen!Fetch, Screen!WritePrice, Screen!WriteItem,
        Screen!Persist, Screen!Select, Screen!Answer, Screen!Leave
    <3>2. UNCHANGED <<universe, computedAt>> /\ (Screen!HasItems(universe)' <=> Screen!HasItems(universe))
      BY <1>1, <2>3, ListsKeepItems, SameItems DEF Screen!HasItems
    <3>3. req'[r].pc \in Computing => req[r].pc \in Computing /\ req'[r].now = req[r].now
      BY <1>1, <2>3, WorkFacts DEF Screen!Arrive, Screen!Leave, Screen!Backfill, Screen!At, Computing
    <3>4. \A x \in Requests : req'[x].pc \in Computing => req[x].pc \in Computing /\ req'[x].now = req[x].now
      BY <1>1, <3>3, WorkFacts
    <3> QED BY <3>1, <3>2, <3>4 DEF LockHeld
  <2> QED BY <2>1, <2>2, <2>3
<1>2. CASE UNCHANGED Screen!vars
  BY <1>2 DEF Screen!vars, LockHeld, Screen!HasItems
<1>3. CASE Screen!Tick
  BY <1>3 DEF Screen!Tick, LockHeld, Screen!HasItems
<1> QED BY <1>1, <1>2, <1>3 DEF Screen!Next

(* However many requests find the list stale, only the one that holds the lock computes it *)
LEMMA ComputedFacts ==
  ASSUME Screen!ScreenerConstants, ScreenTyped, LockHeld, [Screen!Next]_(Screen!vars)
  PROVE  Screen!ComputedWhenDue
<1> SUFFICES ASSUME universe' # universe, Screen!HasItems(universe) PROVE computedAt' - computedAt >= CacheTTL
  BY DEF Screen!ComputedWhenDue
<1>1. PICK r \in Requests : Screen!Work(r)
  BY DEF Screen!Next, Screen!Tick, Screen!vars
<1>2. Screen!Score(r)
  BY <1>1, ListsKeepItems
<1>3. req[r].pc \in Computing /\ computedAt' = req[r].now
  BY <1>2 DEF Screen!Score, Screen!At, Computing
<1> QED BY <1>3 DEF LockHeld

(***************************************************************************)
(* Recent prices                                                           *)
(***************************************************************************)
LEMMA RecentKept ==
  ASSUME Screen!ScreenerConstants, ScreenTyped, Recent, [Screen!Next]_(Screen!vars)
  PROVE  Recent'
<1>0. /\ clock \in Nat /\ PriceTTL \in Nat
  BY DEF ScreenTyped, Screen!ScreenerConstants
<1>1. ASSUME NEW r \in Requests, Screen!Work(r) PROVE Recent'
  <2> SUFFICES ASSUME NEW s \in Tickers, req'[r].got[s] # None
               PROVE  RecentPrice(s, req'[r].got[s], req'[r].now)
    BY <1>1, WorkFacts DEF Recent, RecentPrice
  <2>1. ASSUME NEW symbols \in SUBSET req[r].visible, NEW next, Screen!Fetch(r, symbols, next)
        PROVE  RecentPrice(s, req'[r].got[s], req'[r].now)
    <3>1. PICK failed \in SUBSET symbols :
            LET got == Screen!Fetched(symbols, failed) IN
            /\ fetched' = Screen!Cached(symbols, failed)
            /\ req' = [req EXCEPT ![r].pc = next, ![r].got = got, ![r].todo = {x \in symbols : got[x] # None}]
      BY <2>1 DEF Screen!Fetch
    <3> DEFINE got == Screen!Fetched(symbols, failed)
               todo == {x \in symbols : got[x] # None}
    <3>2. UNCHANGED <<clock, past>> /\ symbols \in SUBSET Tickers
      BY <2>1, RequestFacts DEF Screen!Fetch
    <3>a. fetched' = Screen!Cached(symbols, failed)
      BY <3>1
    <3>3. got[s] # None => \E t \in 0 .. clock : t > clock - PriceTTL /\ past[t + 1][s] = got[s]
      <4>1. \A x \in Tickers : Screen!Fetched(symbols, failed)[x] # None =>
              \E t \in 0 .. clock : t > clock - PriceTTL /\ past[t + 1][x] = Screen!Fetched(symbols, failed)[x]
        BY <3>a, <3>2, FetchFacts
      <4> QED BY <4>1
    <3> HIDE DEF got, todo
    <3>4. req' = [req EXCEPT ![r].pc = next, ![r].got = got, ![r].todo = todo]
      BY <3>1 DEF got, todo
    <3>5. req'[r].got = got /\ req'[r].now = req[r].now /\ req[r].now <= clock /\ req[r].now \in Nat
      BY <3>4, RequestFacts DEF ScreenTyped, Request
    <3> QED BY <1>0, <3>3, <3>5 DEF RecentPrice
  <2>2. CASE Screen!FetchLiquidity(r)
    <3>1. Screen!Fetch(r, {x \in req[r].visible : Screen!Items(r)[x].turnover = 0}, "fill")
      BY <2>2 DEF Screen!FetchLiquidity
    <3> QED BY <2>1, <3>1
  <2>3. CASE Screen!FetchShown(r)
    BY <2>1, <2>3 DEF Screen!FetchShown
  <2>4. CASE ~Screen!FetchLiquidity(r) /\ ~Screen!FetchShown(r)
    <3>1. Screen!Idle.got[s] = None
      BY DEF Screen!Idle
    <3>2. req'[r].got = req[r].got
      BY <1>1, <2>4, <3>1, WorkFacts
    <3>3. ~Screen!Leave(r)
      <4>1. Screen!Leave(r) => req'[r] = Screen!Idle
        BY DEF Screen!Leave, ScreenTyped
      <4> QED BY <3>1, <4>1
    <3>4. ~Screen!Arrive(r)
      <4>1. Screen!Arrive(r) => req'[r].got = Screen!Idle.got
        BY DEF Screen!Arrive, ScreenTyped, Screen!Idle
      <4> QED BY <3>1, <4>1
    <3> QED BY <1>1, <3>2, <3>3, <3>4, WorkFacts DEF Recent
  <2> QED BY <2>2, <2>3, <2>4
<1>2. CASE UNCHANGED Screen!vars
  BY <1>2 DEF Screen!vars, Recent, RecentPrice
<1>3. CASE Screen!Tick
  <2>1. req' = req /\ clock' = clock + 1 /\ \A t \in 0 .. clock : past'[t + 1] = past[t + 1]
    BY <1>3, PastGrows DEF Screen!Tick
  <2> SUFFICES ASSUME NEW r \in Requests, NEW s \in Tickers, req[r].got[s] # None
               PROVE  RecentPrice(s, req[r].got[s], req[r].now)'
    BY <2>1 DEF Recent, RecentPrice
  <2>2. PICK t \in 0 .. clock : t > req[r].now - PriceTTL /\ past[t + 1][s] = req[r].got[s]
    BY DEF Recent, RecentPrice
  <2>3. t \in 0 .. clock' /\ t > req'[r].now - PriceTTL /\ past'[t + 1][s] = req'[r].got[s]
    BY <1>0, <2>1, <2>2
  <2> QED BY <2>3 DEF RecentPrice
<1> QED BY <1>1, <1>2, <1>3 DEF Screen!Next

(***************************************************************************)
(* What the items mean                                                     *)
(***************************************************************************)
LEMMA HalfwayFacts ==
  ASSUME NEW n, NEW s
  PROVE  /\ Screen!Halfway(n, s) = {x \in Requests : Stuck(req[x], n, s)}
         /\ Screen!Halfway(n, s)' = {x \in Requests : Stuck(req'[x], n, s)}
BY DEF Screen!Halfway, Screen!Current, Stuck, Item0

(* Who is not writing has finished the item *)
LEMMA Finished ==
  ASSUME ScreenTyped, NEW r \in Requests, req[r].pc \notin Writing \/ req[r].todo = {}
  PROVE  ~req[r].half /\ req[r].todo = {}
BY RequestFacts DEF RequestTyped

(* Only the two writes begin and end an item, and only the first may tear it *)
LEMMA NotHalf ==
  ASSUME ScreenTyped, NEW r \in Requests, Screen!Work(r), ~Screen!WritePrice(r), ~Screen!WriteItem(r)
  PROVE  ~req[r].half /\ ~req'[r].half /\ torn' = torn
<1>1. req[r] \in Request /\ req = [x \in Requests |-> req[x]]
  BY RequestFacts DEF ScreenTyped
<1>2. torn' = torn
  BY DEF Screen!Work, Screen!Arrive, Screen!UseList, Screen!ReadPrices, Screen!Backfill, Screen!Score, Screen!Filter,
         Screen!FetchLiquidity, Screen!FetchShown, Screen!Fetch, Screen!Persist, Screen!Select, Screen!Answer, Screen!Leave
<1>3. ~Screen!Persist(r) => req[r].pc \notin Writing
  BY DEF Screen!Work, Screen!Arrive, Screen!UseList, Screen!ReadPrices, Screen!Backfill, Screen!Score, Screen!Filter,
         Screen!FetchLiquidity, Screen!FetchShown, Screen!Select, Screen!Answer, Screen!Leave, Screen!At, Writing
<1>4. ~req[r].half
  BY <1>3, Finished DEF Screen!Persist
<1>5. Screen!Idle.half = FALSE
  BY DEF Screen!Idle
<1>6. ASSUME NEW next, NEW symbols, Screen!Fetch(r, symbols, next)
      PROVE  ~req'[r].half
  <2>1. PICK got, todo : req' = [req EXCEPT ![r].pc = next, ![r].got = got, ![r].todo = todo]
    BY <1>6 DEF Screen!Fetch
  <2> QED BY <1>1, <1>4, <2>1 DEF Request
<1>7. CASE Screen!FetchLiquidity(r) \/ Screen!FetchShown(r)
  <2>1. CASE Screen!FetchLiquidity(r)
    <3> DEFINE unknown == {s \in req[r].visible : Screen!Items(r)[s].turnover = 0}
    <3>1. Screen!Fetch(r, unknown, "fill")
      BY <2>1 DEF Screen!FetchLiquidity
    <3> HIDE DEF unknown
    <3> QED BY <1>2, <1>4, <1>6, <3>1
  <2>2. CASE Screen!FetchShown(r)
    <3>1. Screen!Fetch(r, req[r].visible, "refresh")
      BY <2>2 DEF Screen!FetchShown
    <3>2. ~req'[r].half
      BY <1>6, <3>1
    <3> QED BY <1>2, <1>4, <3>2
  <2> QED BY <1>7, <2>1, <2>2
<1>8. CASE Screen!Arrive(r)
  <2>1. req'[r] = [Screen!Idle EXCEPT !.pc = "waiting", !.now = clock]
    BY <1>1, <1>8 DEF Screen!Arrive
  <2>2. req'[r].half = FALSE
    BY <2>1 DEF Screen!Idle
  <2> QED BY <1>2, <1>4, <2>2
<1>9. CASE Screen!Leave(r)
  BY <1>1, <1>2, <1>4, <1>5, <1>9 DEF Screen!Leave
<1>10. CASE Screen!UseList(r)
  BY <1>1, <1>2, <1>4, <1>10 DEF Screen!UseList, Request
<1>11. CASE Screen!ReadPrices(r)
  BY <1>1, <1>2, <1>4, <1>11 DEF Screen!ReadPrices, Request
<1>12. CASE Screen!Score(r)
  BY <1>1, <1>2, <1>4, <1>12 DEF Screen!Score, Request
<1>13. CASE Screen!Backfill(r)
  <2>1. PICK prices : req' = [req EXCEPT ![r].pc = "score", ![r].prices = prices]
    BY <1>1, <1>2, <1>4, <1>13 DEF Screen!Backfill
  <2> QED BY <1>1, <1>2, <1>4, <2>1 DEF Request
<1>14. CASE Screen!Filter(r) \/ Screen!Select(r)
  <2>1. PICK pc, visible : req' = [req EXCEPT ![r].pc = pc, ![r].visible = visible]
    BY <1>14 DEF Screen!Filter, Screen!Select
  <2> QED BY <1>1, <1>2, <1>4, <2>1 DEF Request
<1>15. CASE Screen!Persist(r)
  BY <1>1, <1>2, <1>4, <1>15 DEF Screen!Persist, Request
<1>16. CASE Screen!Answer(r)
  <2>1. PICK answer : req' = [req EXCEPT ![r] = [req[r] EXCEPT !.pc = "answered", !.answer = answer, !.visible = {}]]
    BY <1>16 DEF Screen!Answer
  <2> QED BY <1>1, <1>2, <1>4, <2>1 DEF Request
<1> QED BY <1>2, <1>4, <1>7, <1>8, <1>9, <1>10, <1>11, <1>12, <1>13, <1>14, <1>15, <1>16 DEF Screen!Work

LEMMA SameMeaning ==
  ASSUME NEW s \in Tickers, NEW a, NEW b, SameStanding(a, b), Screen!Agrees(b, s)
  PROVE  Screen!Agrees(a, s)
BY DEF SameStanding, Screen!Agrees

(* A step that begins and ends no item, and leaves them or adds some that agree *)
LEMMA StandingQuiet ==
  ASSUME ScreenTyped, ItemsStand, NEW r \in Requests, Screen!Work(r), ~Screen!WritePrice(r), ~Screen!WriteItem(r),
         \A n \in DOMAIN lists, s \in Tickers : lists'[n][s] # None => lists[n][s] # None /\ SameStanding(lists'[n][s], lists[n][s]),
         \A n \in DOMAIN lists' \ DOMAIN lists, s \in Tickers : lists'[n][s] # None => Screen!Agrees(lists'[n][s], s)
  PROVE  ItemsStand'
<1>1. /\ \A x \in Requests : req'[x].half => req'[x] = req[x]
      /\ \A x \in Requests : req[x].half => req'[x] = req[x]
      /\ torn' = torn
  BY NotHalf, WorkFacts
<1>2. ASSUME NEW n \in DOMAIN lists', NEW s \in Tickers, lists'[n][s] # None, <<n, s>> \notin torn'
      PROVE  \/ Screen!Halfway(n, s)' = {} /\ Screen!Agrees(lists'[n][s], s)
             \/ \E x \in Requests : Screen!Halfway(n, s)' = {x} /\ lists'[n][s].price = req'[x].got[s]
  <2>1. Screen!Halfway(n, s)' = Screen!Halfway(n, s)
    <3>1. \A x \in Requests : Stuck(req'[x], n, s) <=> Stuck(req[x], n, s)
      <4> SUFFICES ASSUME NEW x \in Requests PROVE Stuck(req'[x], n, s) <=> Stuck(req[x], n, s)
        OBVIOUS
      <4>1. CASE req[x].half \/ req'[x].half
        BY <1>1, <4>1
      <4>2. CASE ~req[x].half /\ ~req'[x].half
        BY <4>2 DEF Stuck
      <4> QED BY <4>1, <4>2
    <3>2. Screen!Halfway(n, s) = {x \in Requests : Stuck(req[x], n, s)}
      BY HalfwayFacts
    <3>3. Screen!Halfway(n, s)' = {x \in Requests : Stuck(req'[x], n, s)}
      BY HalfwayFacts
    <3> QED BY <3>1, <3>2, <3>3
  <2>2. \A x \in Screen!Halfway(n, s) : req'[x].got = req[x].got
    BY <1>1, HalfwayFacts DEF Stuck
  <2>3. CASE n \in DOMAIN lists
    <3>1. lists[n][s] # None /\ SameStanding(lists'[n][s], lists[n][s]) /\ <<n, s>> \notin torn
      BY <1>1, <1>2, <2>3
    <3>2. CASE Screen!Halfway(n, s) = {} /\ Screen!Agrees(lists[n][s], s)
      BY <2>1, <3>1, <3>2, SameMeaning
    <3>3. CASE \E x \in Requests : Screen!Halfway(n, s) = {x} /\ lists[n][s].price = req[x].got[s]
      <4>1. PICK x \in Requests : Screen!Halfway(n, s) = {x} /\ lists[n][s].price = req[x].got[s]
        BY <3>3
      <4>2. lists'[n][s].price = req'[x].got[s]
        BY <2>2, <3>1, <4>1 DEF SameStanding
      <4> QED BY <2>1, <4>1, <4>2
    <3> QED BY <2>3, <3>1, <3>2, <3>3 DEF ItemsStand
  <2>4. CASE n \notin DOMAIN lists
    <3>1. ASSUME NEW x \in Requests, Stuck(req[x], n, s) PROVE FALSE
      <4>1. req[x].todo # {}
        BY <3>1, RequestFacts DEF RequestTyped, Stuck
      <4>2. req[x].pc \in WithList
        BY <4>1, RequestFacts DEF RequestTyped, Writing, WithList
      <4> QED BY <2>4, <3>1, <4>2, AtWork DEF Stuck
    <3>2. Screen!Halfway(n, s) = {}
      BY <3>1, HalfwayFacts
    <3> QED BY <1>2, <2>1, <2>4, <3>2
  <2> QED BY <2>3, <2>4
<1> QED BY <1>2 DEF ItemsStand, Screen!Agrees, Screen!Nearest, Screen!ShownValue, Screen!Rounded

(* The price first: if nobody is half-way there, the item waits for the rest *)
LEMMA StandingWritePrice ==
  ASSUME Screen!ScreenerConstants, ScreenTyped, ItemsStand, NEW r \in Requests, Screen!WritePrice(r)
  PROVE  ItemsStand'
<1> DEFINE n0 == req[r].list
           s0 == Item0(req[r])
<1>1. /\ s0 \in Tickers /\ n0 \in DOMAIN lists /\ lists[n0][s0] \in Screen!Item
      /\ ~req[r].half /\ req' = [req EXCEPT ![r].half = TRUE]
  BY WritePriceFacts
<1>2. /\ DOMAIN lists' = DOMAIN lists
      /\ lists'[n0][s0] = [lists[n0][s0] EXCEPT !.price = req[r].got[s0]]
      /\ \A m \in DOMAIN lists, t \in Tickers : m # n0 \/ t # s0 => lists'[m][t] = lists[m][t]
  BY WrittenLists
<1>3. /\ req'[r].half /\ req'[r].list = n0 /\ req'[r].todo = req[r].todo /\ req'[r].got = req[r].got
      /\ \A x \in Requests \ {r} : req'[x] = req[x]
  BY <1>1, RequestFacts DEF ScreenTyped, Request
<1>4. torn' = IF Screen!Halfway(n0, s0) # {} THEN torn \cup {<<n0, s0>>} ELSE torn \ {<<n0, s0>>}
  BY DEF Screen!WritePrice, Screen!Current, Item0
<1>5. \A n, s : Stuck(req'[r], n, s) <=> n = n0 /\ s = s0
  BY <1>3 DEF Stuck, Item0
<1>6. \A n, s : ~Stuck(req[r], n, s)
  BY <1>1 DEF Stuck
<1>7. lists'[n0][s0].price = req[r].got[s0]
  <2> HIDE DEF n0, s0
  <2> QED BY <1>1, <1>2 DEF Screen!Item
<1> HIDE DEF n0, s0
<1>8. ASSUME NEW n \in DOMAIN lists', NEW s \in Tickers, lists'[n][s] # None, <<n, s>> \notin torn'
      PROVE  \/ Screen!Halfway(n, s)' = {} /\ Screen!Agrees(lists'[n][s], s)
             \/ \E x \in Requests : Screen!Halfway(n, s)' = {x} /\ lists'[n][s].price = req'[x].got[s]
  <2>1. CASE n = n0 /\ s = s0
    <3>1. Screen!Halfway(n, s) = {}
      BY <1>4, <1>8, <2>1
    <3>2. Screen!Halfway(n, s)' = {r}
      BY <1>3, <1>5, <2>1, <3>1, HalfwayFacts
    <3> QED BY <1>3, <1>7, <2>1, <3>2
  <2>2. CASE ~(n = n0 /\ s = s0)
    <3>1. <<n, s>> \notin torn /\ lists'[n][s] = lists[n][s] /\ n \in DOMAIN lists
      BY <1>2, <1>4, <1>8, <2>2
    <3>2. Screen!Halfway(n, s)' = Screen!Halfway(n, s)
      <4>1. \A x \in Requests : Stuck(req'[x], n, s) <=> Stuck(req[x], n, s)
        BY <1>3, <1>5, <1>6, <2>2
      <4> QED BY <4>1, HalfwayFacts
    <3>3. \A x \in Requests : req'[x].got = req[x].got
      BY <1>3 DEF ScreenTyped
    <3> QED BY <1>8, <3>1, <3>2, <3>3 DEF ItemsStand
  <2> QED BY <2>1, <2>2
<1> QED BY <1>8 DEF ItemsStand, Screen!Agrees, Screen!Nearest, Screen!ShownValue, Screen!Rounded

(* Then the rest of it, for the price that it still shows *)
LEMMA StandingWriteItem ==
  ASSUME Screen!ScreenerConstants, ScreenTyped, ItemsStand, NEW r \in Requests, Screen!WriteItem(r)
  PROVE  ItemsStand'
<1> DEFINE n0 == req[r].list
           s0 == Item0(req[r])
           todo == req[r].todo \ {s0}
           item == lists[n0][s0]
           new == Screen!Refreshed(item, s0, req[r].got[s0])
<1>1. /\ s0 \in Tickers /\ n0 \in DOMAIN lists /\ item \in Screen!Item /\ item # None /\ Grounded(item, s0)
      /\ req[r].got[s0] \in Screen!Price(s0)
      /\ req[r].half /\ req' = [req EXCEPT ![r].half = FALSE, ![r].todo = todo]
  BY WriteItemFacts
<1>2. /\ DOMAIN lists' = DOMAIN lists /\ lists'[n0][s0] = new
      /\ \A m \in DOMAIN lists, t \in Tickers : m # n0 \/ t # s0 => lists'[m][t] = lists[m][t]
  BY WrittenLists
<1>3. ~req'[r].half /\ req'[r].got = req[r].got /\ \A x \in Requests \ {r} : req'[x] = req[x]
  <2> HIDE DEF todo
  <2> QED BY <1>1, RequestFacts DEF ScreenTyped, Request
<1>4. torn' = torn
  BY DEF Screen!WriteItem
<1>5. \A n, s : Stuck(req[r], n, s) <=> n = n0 /\ s = s0
  BY <1>1 DEF Stuck
<1>6. \A n, s : ~Stuck(req'[r], n, s)
  BY <1>3 DEF Stuck
<1>7. item.price = req[r].got[s0] => Screen!Agrees(new, s0)
  BY <1>1, RefreshedFacts
<1> HIDE DEF n0, s0, item, new
<1>8. ASSUME NEW n \in DOMAIN lists', NEW s \in Tickers, lists'[n][s] # None, <<n, s>> \notin torn'
      PROVE  \/ Screen!Halfway(n, s)' = {} /\ Screen!Agrees(lists'[n][s], s)
             \/ \E x \in Requests : Screen!Halfway(n, s)' = {x} /\ lists'[n][s].price = req'[x].got[s]
  <2>1. CASE n = n0 /\ s = s0
    <3>1. r \in Screen!Halfway(n, s)
      BY <1>5, <2>1, HalfwayFacts
    <3>2. lists[n][s] # None /\ <<n, s>> \notin torn
      BY <1>1, <1>4, <1>8, <2>1 DEF item
    <3>3. Screen!Halfway(n, s) = {r} /\ lists[n][s].price = req[r].got[s]
      BY <1>2, <1>8, <3>1, <3>2 DEF ItemsStand
    <3>4. Screen!Halfway(n, s)' = {}
      BY <1>3, <1>6, <3>3, HalfwayFacts
    <3> QED BY <1>2, <1>7, <2>1, <3>3, <3>4 DEF item
  <2>2. CASE ~(n = n0 /\ s = s0)
    <3>1. <<n, s>> \notin torn /\ lists'[n][s] = lists[n][s] /\ n \in DOMAIN lists
      BY <1>2, <1>4, <1>8, <2>2
    <3>2. Screen!Halfway(n, s)' = Screen!Halfway(n, s)
      <4>1. \A x \in Requests : Stuck(req'[x], n, s) <=> Stuck(req[x], n, s)
        BY <1>3, <1>5, <1>6, <2>2
      <4> QED BY <4>1, HalfwayFacts
    <3>3. \A x \in Requests : req'[x].got = req[x].got
      BY <1>3 DEF ScreenTyped
    <3> QED BY <1>8, <3>1, <3>2, <3>3 DEF ItemsStand
  <2> QED BY <2>1, <2>2
<1> QED BY <1>8 DEF ItemsStand, Screen!Agrees, Screen!Nearest, Screen!ShownValue, Screen!Rounded

LEMMA StandingKept ==
  ASSUME Screen!ScreenerConstants, ScreenTyped, ItemsStand, [Screen!Next]_(Screen!vars)
  PROVE  ItemsStand'
<1>1. ASSUME NEW r \in Requests, Screen!Work(r) PROVE ItemsStand'
  <2>1. CASE Screen!Score(r)
    <3>1. ~Screen!WritePrice(r) /\ ~Screen!WriteItem(r)
      BY <2>1 DEF Screen!Score, Screen!WritePrice, Screen!WriteItem, Screen!At
    <3>2. PICK new \in Scored : lists' = Append(lists, new) /\ \A s \in Tickers : new[s] # None => Screen!Agrees(new[s], s)
      BY <2>1, ScoreFacts
    <3>3. /\ Len(lists') = Len(lists) + 1 /\ lists'[Len(lists')] = new /\ \A n \in DOMAIN lists : lists'[n] = lists[n]
          /\ DOMAIN lists' = 1 .. Len(lists') /\ DOMAIN lists = 1 .. Len(lists) /\ Len(lists) \in Nat
      BY <3>2, ListAppended, RequestFacts, LenProperties
    <3>4. \A n \in DOMAIN lists, s \in Tickers :
            lists'[n][s] # None => lists[n][s] # None /\ SameStanding(lists'[n][s], lists[n][s])
      BY <3>3 DEF SameStanding
    <3>5. \A n \in DOMAIN lists' \ DOMAIN lists : lists'[n] = new
      BY <3>3
    <3>6. \A n \in DOMAIN lists' \ DOMAIN lists, s \in Tickers : lists'[n][s] # None => Screen!Agrees(lists'[n][s], s)
      BY <3>2, <3>5
    <3> QED BY <1>1, <3>1, <3>4, <3>6, StandingQuiet
  <2>2. CASE ~Screen!Score(r) /\ ~Screen!WritePrice(r) /\ ~Screen!WriteItem(r)
    <3>1. DOMAIN lists' \ DOMAIN lists = {} /\ SameKnown(lists, lists')
      BY <1>1, <2>2, ListsKeepItems
    <3>2. \A n \in DOMAIN lists, s \in Tickers : lists[n][s] # None => SameStanding(lists'[n][s], lists[n][s])
      <4>1. CASE Screen!FetchLiquidity(r)
        <5>1. req[r].pc \in WithList /\ Screen!Fetch(r, {s \in req[r].visible : Screen!Items(r)[s].turnover = 0}, "fill")
          BY <4>1 DEF Screen!FetchLiquidity, Screen!At, WithList
        <5> QED BY <5>1, FetchedLists
      <4>2. CASE ~Screen!FetchLiquidity(r)
        <5>1. lists' = lists
          BY <1>1, <2>2, <4>2 DEF Screen!Work, Screen!Arrive, Screen!UseList, Screen!ReadPrices, Screen!Backfill, Screen!Filter,
             Screen!FetchShown, Screen!Fetch, Screen!Persist, Screen!Select, Screen!Answer, Screen!Leave
        <5> QED BY <5>1 DEF SameStanding
      <4> QED BY <4>1, <4>2
    <3>3. \A n \in DOMAIN lists, s \in Tickers :
            lists'[n][s] # None => lists[n][s] # None /\ SameStanding(lists'[n][s], lists[n][s])
      BY <3>1, <3>2 DEF SameKnown
    <3> QED BY <1>1, <2>2, <3>1, <3>3, StandingQuiet
  <2> QED BY <2>1, <2>2, StandingWritePrice, StandingWriteItem
<1>2. CASE UNCHANGED <<lists, req, torn>>
  <2>1. \A n, s : Screen!Halfway(n, s)' = Screen!Halfway(n, s)
    BY <1>2, HalfwayFacts
  <2> QED BY <1>2, <2>1 DEF ItemsStand, Screen!Agrees, Screen!Nearest, Screen!ShownValue, Screen!Rounded
<1> QED BY <1>1, <1>2 DEF Screen!Next, Screen!Tick, Screen!vars

(***************************************************************************)
(* One client                                                              *)
(***************************************************************************)
(* As long as requests have not overlapped, a step of one finds and leaves *)
(* the others idle                                                          *)
LEMMA OneAlone ==
  ASSUME ScreenTyped, IdleInv, OneAtWork, NEW r \in Requests, Screen!Work(r), ~overlap'
  PROVE  /\ \A x \in Requests \ {r} : req[x] = Screen!Idle /\ req'[x] = Screen!Idle
         /\ ~overlap /\ OneAtWork'
<1>1. ~overlap /\ \A x \in Requests \ {r} : Screen!At(x, "idle")
  <2>1. CASE Screen!Arrive(r)
    BY <2>1 DEF Screen!Arrive
  <2>2. CASE ~Screen!Arrive(r)
    BY <2>2, WorkFacts DEF OneAtWork, Screen!At
  <2> QED BY <2>1, <2>2
<1>2. \A x \in Requests \ {r} : req[x] = Screen!Idle /\ req'[x] = Screen!Idle
  BY <1>1, WorkFacts DEF IdleInv
<1>3. Screen!Idle.pc = "idle"
  BY DEF Screen!Idle
<1> QED BY <1>1, <1>2, <1>3 DEF OneAtWork, Screen!At

LEMMA IdleFacts ==
  ASSUME NEW all
  PROVE  Shows(Screen!Idle, all) /\ Answered(Screen!Idle)
BY DEF Screen!Idle, Shows, Answered

(* What the request of a step must see to, the others being idle *)
LEMMA OneClientNext ==
  ASSUME NEW r \in Requests, \A x \in Requests \ {r} : req'[x] = Screen!Idle,
         OneAtWork', Shows(req'[r], lists'), Answered(req'[r])
  PROVE  OneClient'
<1>1. \A x \in Requests : Shows(req'[x], lists') /\ Answered(req'[x])
  BY IdleFacts
<1> QED BY <1>1 DEF OneClient, Shows, Answered

LEMMA OneClientQuiet ==
  ASSUME Screen!ScreenerConstants, ScreenTyped, IdleInv, OneClient, NEW r \in Requests, Screen!Work(r), ~overlap',
         Screen!Arrive(r) \/ Screen!UseList(r) \/ Screen!ReadPrices(r) \/ Screen!Backfill(r) \/ Screen!Filter(r) \/ Screen!Select(r) \/ Screen!Leave(r)
  PROVE  OneClient'
<1>1. /\ \A x \in Requests \ {r} : req[x] = Screen!Idle /\ req'[x] = Screen!Idle
      /\ OneAtWork'
  BY OneAlone DEF OneClient
<1>2. lists' = lists /\ req[r].pc \notin Writing
  BY DEF Screen!Arrive, Screen!UseList, Screen!ReadPrices, Screen!Backfill, Screen!Filter, Screen!Select, Screen!Leave, Screen!At, Writing
<1>4. req[r] \in Request /\ req = [x \in Requests |-> req[x]]
  BY RequestFacts DEF ScreenTyped
<1>5. req'[r].pc \notin {"refresh", "answer", "answered"}
  <2>0. Screen!Idle.pc = "idle"
    BY DEF Screen!Idle
  <2>1. CASE Screen!Arrive(r)
    BY <1>4, <2>1 DEF Screen!Arrive, Screen!Idle
  <2>7. CASE Screen!Leave(r)
    BY <1>4, <2>0, <2>7 DEF Screen!Leave
  <2>2. CASE Screen!UseList(r)
    BY <1>4, <2>2 DEF Screen!UseList, Request
  <2>3. CASE Screen!ReadPrices(r)
    BY <1>4, <2>3 DEF Screen!ReadPrices, Request
  <2>4. CASE Screen!Backfill(r)
    <3>1. PICK prices : req' = [req EXCEPT ![r].pc = "score", ![r].prices = prices]
      BY <1>4, <2>4 DEF Screen!Backfill
    <3> QED BY <1>4, <3>1 DEF Request
  <2>5. CASE Screen!Filter(r)
    <3>1. PICK visible : req' = [req EXCEPT ![r].pc = "liquidity", ![r].visible = visible]
      BY <2>5 DEF Screen!Filter
    <3> QED BY <1>4, <3>1 DEF Request
  <2>6. CASE Screen!Select(r)
    <3>1. PICK visible : req' = [req EXCEPT ![r].pc = "prices", ![r].visible = visible]
      BY <2>6 DEF Screen!Select
    <3> QED BY <1>4, <3>1 DEF Request
  <2> QED BY <2>1, <2>2, <2>3, <2>4, <2>5, <2>6, <2>7
<1>7. Shows(req'[r], lists') /\ Answered(req'[r])
  BY <1>5 DEF Shows, Answered
<1> QED BY <1>1, <1>7, OneClientNext

LEMMA OneClientScore ==
  ASSUME Screen!ScreenerConstants, ScreenTyped, IdleInv, OneClient, NEW r \in Requests, Screen!Score(r), ~overlap'
  PROVE  OneClient'
<1>0. Screen!Work(r)
  BY DEF Screen!Work
<1>1. /\ \A x \in Requests \ {r} : req[x] = Screen!Idle /\ req'[x] = Screen!Idle
      /\ OneAtWork'
  BY <1>0, OneAlone DEF OneClient
<1>2. req'[r].pc = "filter"
  BY RequestFacts DEF Screen!Score, ScreenTyped, Request
<1>3. Shows(req'[r], lists') /\ Answered(req'[r])
  BY <1>2 DEF Shows, Answered
<1> QED BY <1>1, <1>3, OneClientNext

LEMMA OneClientFetch ==
  ASSUME Screen!ScreenerConstants, ScreenTyped, IdleInv, OneClient, NEW r \in Requests, Screen!Work(r), ~overlap',
         req[r].pc \in {"liquidity", "prices"},
         NEW symbols \in SUBSET req[r].visible, NEW next \in Writing, Screen!Fetch(r, symbols, next),
         next = "refresh" => symbols = req[r].visible
  PROVE  OneClient'
<1>1. /\ \A x \in Requests \ {r} : req[x] = Screen!Idle /\ req'[x] = Screen!Idle
      /\ OneAtWork'
  BY OneAlone DEF OneClient
<1>2. ~req[r].half
  BY Finished DEF Writing
<1>3. PICK got : req' = [req EXCEPT ![r].pc = next, ![r].got = got, ![r].todo = {s \in symbols : got[s] # None}]
  BY DEF Screen!Fetch
<1>4. /\ ~req'[r].half /\ req'[r].pc = next /\ req'[r].got = got /\ req'[r].visible = req[r].visible
      /\ req'[r].todo = {s \in symbols : got[s] # None}
  <2> DEFINE todo == {s \in symbols : got[s] # None}
  <2>1. req' = [req EXCEPT ![r].pc = next, ![r].got = got, ![r].todo = todo]
    BY <1>3
  <2> HIDE DEF todo
  <2>2. /\ ~req'[r].half /\ req'[r].pc = next /\ req'[r].got = got /\ req'[r].visible = req[r].visible
        /\ req'[r].todo = todo
    BY <1>2, <2>1, RequestFacts DEF ScreenTyped, Request
  <2> QED BY <2>2 DEF todo
<1>5. Shows(req'[r], lists') /\ Answered(req'[r])
  BY <1>4 DEF Shows, Answered, Writing
<1> QED BY <1>1, <1>5, OneClientNext

LEMMA OneClientPersist ==
  ASSUME Screen!ScreenerConstants, ScreenTyped, IdleInv, OneClient, NEW r \in Requests, Screen!Persist(r), ~overlap'
  PROVE  OneClient'
<1>0. Screen!Work(r)
  BY DEF Screen!Work
<1>1. /\ \A x \in Requests \ {r} : req[x] = Screen!Idle /\ req'[x] = Screen!Idle
      /\ OneAtWork'
  BY <1>0, OneAlone DEF OneClient
<1>2. ~req[r].half /\ req[r].todo = {} /\ lists' = lists /\ req[r].pc \in Writing
  BY DEF Screen!Persist, Writing
<1>3. /\ ~req'[r].half /\ req'[r].pc \in {"select", "answer"} /\ req'[r].todo = {}
      /\ req'[r].pc = "answer" => req[r].pc = "refresh"
      /\ req'[r].pc = "answer" => req'[r].got = req[r].got
      /\ req'[r].visible = req[r].visible /\ req'[r].list = req[r].list
  BY <1>2, RequestFacts DEF Screen!Persist, ScreenTyped, Request, Screen!At, Writing
<1>4. Shows(req[r], lists)
  BY DEF OneClient
<1>5. Shows(req'[r], lists') /\ Answered(req'[r])
  BY <1>2, <1>3, <1>4 DEF Shows, Answered
<1> QED BY <1>1, <1>5, OneClientNext

LEMMA OneClientAnswer ==
  ASSUME Screen!ScreenerConstants, ScreenTyped, IdleInv, OneClient, NEW r \in Requests, Screen!Answer(r), ~overlap'
  PROVE  OneClient'
<1>0. Screen!Work(r)
  BY DEF Screen!Work
<1>1. /\ \A x \in Requests \ {r} : req[x] = Screen!Idle /\ req'[x] = Screen!Idle
      /\ OneAtWork'
  BY <1>0, OneAlone DEF OneClient
<1>2. req[r].pc = "answer" /\ lists' = lists
  BY DEF Screen!Answer, Screen!At
<1>3. ~req[r].half /\ req[r].todo = {} /\ req[r].visible \subseteq Tickers
  BY <1>2, Finished, RequestFacts DEF Writing
<1> DEFINE answer == [s \in req[r].visible |-> lists[req[r].list][s]]
<1>4. req'[r].pc = "answered" /\ req'[r].answer = answer /\ req'[r].got = req[r].got
  <2>1. req' = [req EXCEPT ![r] = [req[r] EXCEPT !.pc = "answered", !.answer = answer, !.visible = {}]]
    BY DEF Screen!Answer, Screen!Items
  <2> HIDE DEF answer
  <2>2. req'[r] = [req[r] EXCEPT !.pc = "answered", !.answer = answer, !.visible = {}]
    BY <2>1 DEF ScreenTyped
  <2> QED BY <1>3, <2>2, RequestFacts DEF Request
<1>6. Answered(req'[r])
  <2>1. Shows(req[r], lists)
    BY DEF OneClient
  <2>2. \A s \in req[r].visible : req[r].got[s] # None => answer[s].price = req[r].got[s]
    BY <1>2, <1>3, <2>1 DEF Shows
  <2> QED BY <1>3, <1>4, <2>2 DEF Answered
<1>7. Shows(req'[r], lists')
  BY <1>4 DEF Shows
<1> QED BY <1>1, <1>6, <1>7, OneClientNext

LEMMA OneClientWritePrice ==
  ASSUME Screen!ScreenerConstants, ScreenTyped, IdleInv, OneClient, NEW r \in Requests, Screen!WritePrice(r), ~overlap'
  PROVE  OneClient'
<1> DEFINE n == req[r].list
           s == Item0(req[r])
           item == lists[n][s]
<1>0. Screen!Work(r) /\ req[r].pc \in Writing
  BY DEF Screen!Work, Screen!WritePrice, Writing
<1>1. /\ \A x \in Requests \ {r} : req[x] = Screen!Idle /\ req'[x] = Screen!Idle
      /\ OneAtWork'
  BY <1>0, OneAlone DEF OneClient
<1>2. /\ s \in req[r].todo /\ s \in Tickers /\ n \in DOMAIN lists /\ item \in Screen!Item
      /\ ~req[r].half /\ req' = [req EXCEPT ![r].half = TRUE]
  BY WritePriceFacts
<1>3. /\ lists'[n][s] = [item EXCEPT !.price = req[r].got[s]]
      /\ \A m \in DOMAIN lists, t \in Tickers : m # n \/ t # s => lists'[m][t] = lists[m][t]
  BY WrittenLists
<1>4. /\ req'[r].pc = req[r].pc /\ req'[r].got = req[r].got /\ req'[r].todo = req[r].todo
      /\ req'[r].visible = req[r].visible /\ req'[r].list = n
  BY <1>2, RequestFacts DEF ScreenTyped, Request
<1>5. Item0(req'[r]) = s
  BY <1>4 DEF Item0
<1>6. lists'[n][s].price = req[r].got[s]
  <2> HIDE DEF item, s, n
  <2> QED BY <1>2, <1>3 DEF Screen!Item
<1> HIDE DEF item, s, n
<1>7. Shows(req'[r], lists')
  <2> SUFFICES ASSUME req'[r].pc \in {"refresh", "answer"}, NEW t \in req[r].visible, req[r].got[t] # None, t # s
               PROVE  \/ t \in req[r].todo
                      \/ lists'[n][t].price = req[r].got[t]
    BY <1>4, <1>5, <1>6 DEF Shows
  <2>1. t \in Tickers
    BY RequestFacts
  <2>2. Shows(req[r], lists)
    BY DEF OneClient
  <2> QED BY <1>2, <1>3, <1>4, <2>1, <2>2 DEF Shows, n
<1>8. Answered(req'[r])
  BY <1>0, <1>4 DEF Answered, Writing
<1> QED BY <1>1, <1>7, <1>8, OneClientNext

LEMMA OneClientWriteItem ==
  ASSUME Screen!ScreenerConstants, ScreenTyped, IdleInv, OneClient, NEW r \in Requests, Screen!WriteItem(r), ~overlap'
  PROVE  OneClient'
<1> DEFINE n == req[r].list
           s == Item0(req[r])
           item == lists[n][s]
           todo == req[r].todo \ {s}
<1>0. Screen!Work(r) /\ req[r].half /\ req[r].pc \in Writing
  BY DEF Screen!Work, Screen!WriteItem, Writing
<1>1. /\ \A x \in Requests \ {r} : req[x] = Screen!Idle /\ req'[x] = Screen!Idle
      /\ OneAtWork'
  BY <1>0, OneAlone DEF OneClient
<1>2. /\ s \in req[r].todo /\ s \in Tickers /\ n \in DOMAIN lists
      /\ item \in Screen!Item /\ Grounded(item, s) /\ req[r].got[s] \in Screen!Price(s)
      /\ req' = [req EXCEPT ![r].half = FALSE, ![r].todo = todo]
  BY WriteItemFacts
<1>3. /\ lists'[n][s] = Screen!Refreshed(item, s, req[r].got[s])
      /\ \A m \in DOMAIN lists, t \in Tickers : m # n \/ t # s => lists'[m][t] = lists[m][t]
  BY WrittenLists
<1>4. lists'[n][s].price = item.price
  BY <1>2, <1>3, RefreshedFacts
<1>5. /\ req'[r].pc = req[r].pc /\ req'[r].got = req[r].got /\ req'[r].todo = todo
      /\ req'[r].visible = req[r].visible /\ req'[r].list = n /\ ~req'[r].half
  <2> HIDE DEF todo
  <2> QED BY <1>2, RequestFacts DEF ScreenTyped, Request
<1> HIDE DEF s, n
<1>6. Shows(req'[r], lists')
  <2> SUFFICES ASSUME req'[r].pc \in {"refresh", "answer"}, NEW t \in req[r].visible, req[r].got[t] # None
               PROVE  \/ t \in todo
                      \/ lists'[n][t].price = req[r].got[t]
    BY <1>5 DEF Shows
  <2>1. t \in Tickers
    BY RequestFacts
  <2>2. Shows(req[r], lists)
    BY DEF OneClient
  <2>3. t # s => t \in todo \/ lists[n][t].price = req[r].got[t]
    BY <1>5, <2>2 DEF Shows, n
  <2>4. t = s => item.price = req[r].got[s]
    BY <1>0, <1>5, <2>2 DEF Shows, n, s
  <2> QED BY <1>2, <1>3, <1>4, <2>1, <2>3, <2>4
<1>7. Answered(req'[r])
  BY <1>0, <1>5 DEF Answered, Writing
<1> QED BY <1>1, <1>6, <1>7, OneClientNext

LEMMA OneClientKept ==
  ASSUME Screen!ScreenerConstants, ScreenTyped, IdleInv, ~overlap => OneClient, [Screen!Next]_(Screen!vars), ~overlap'
  PROVE  OneClient'
<1>1. ASSUME NEW r \in Requests, Screen!Work(r) PROVE OneClient'
  <2>0. OneClient
    BY <1>1, WorkFacts DEF Screen!Arrive, ScreenTyped
  <2>1. CASE Screen!FetchLiquidity(r)
    <3>1. /\ req[r].pc \in {"liquidity", "prices"} /\ "fill" \in Writing
          /\ Screen!Fetch(r, {s \in req[r].visible : Screen!Items(r)[s].turnover = 0}, "fill")
      BY <2>1 DEF Screen!FetchLiquidity, Screen!At, Writing
    <3> QED BY <1>1, <2>0, <3>1, OneClientFetch
  <2>2. CASE Screen!FetchShown(r)
    <3>1. req[r].pc \in {"liquidity", "prices"} /\ "refresh" \in Writing /\ Screen!Fetch(r, req[r].visible, "refresh")
      BY <2>2 DEF Screen!FetchShown, Screen!At, Writing
    <3> QED BY <1>1, <2>0, <3>1, OneClientFetch
  <2> QED
    BY <1>1, <2>0, <2>1, <2>2, OneClientQuiet, OneClientScore, OneClientPersist, OneClientAnswer,
       OneClientWritePrice, OneClientWriteItem DEF Screen!Work
<1>2. CASE UNCHANGED <<lists, req, overlap>>
  <2>1. OneClient
    BY <1>2
  <2> QED BY <1>2, <2>1 DEF OneClient, OneAtWork, Screen!At, Shows, Answered
<1> QED BY <1>1, <1>2 DEF Screen!Next, Screen!Tick, Screen!vars

LEMMA ScreenStep == Screen!ScreenerConstants /\ ScreenInv /\ [Screen!Next]_(Screen!vars) => ScreenInv'
BY TypedStep, IdleKept, LockKept, RecentKept, StandingKept, OneClientKept DEF ScreenInv

LEMMA ScreenHolds ==
  ASSUME ScreenInv
  PROVE  Screen!ItemsAgree /\ Screen!PricesAreRecentForOneClient
<1>1. Screen!ItemsAgree
  BY DEF ScreenInv, ItemsStand, Screen!ItemsAgree
<1>2. Screen!PricesAreRecentForOneClient
  <2> SUFFICES ASSUME ~overlap, NEW r \in Requests, Screen!At(r, "answered"), NEW s \in DOMAIN req[r].answer, req[r].got[s] # None
               PROVE  \E t \in 0 .. clock : t > req[r].now - PriceTTL /\ past[t + 1][s] = req[r].answer[s].price
    BY DEF Screen!PricesAreRecentForOneClient
  <2>1. s \in Tickers /\ req[r].answer[s].price = req[r].got[s]
    BY DEF ScreenInv, OneClient, Answered, Screen!At
  <2>2. RecentPrice(s, req[r].got[s], req[r].now)
    BY <2>1 DEF ScreenInv, Recent
  <2> QED BY <2>1, <2>2 DEF RecentPrice
<1> QED BY <1>1, <1>2

(***************************************************************************)
(* The research: sessions by their rank                                    *)
(***************************************************************************)
After(S, d) == {x \in S : x > d}
Sessions(S) == S \in SUBSET Int /\ Factors!IsFiniteSet(S)

(* The cardinality the research takes is that of the theorems on finite sets *)
LEMMA SameCount ==
  /\ \A S : Factors!Cardinality(S) = Cardinality(S)
  /\ \A S : Factors!IsFiniteSet(S) <=> IsFiniteSet(S)
<1>1. ASSUME NEW S PROVE Factors!Cardinality(S) = Cardinality(S)
  BY DEF Factors!Cardinality, Cardinality
<1>2. ASSUME NEW S PROVE Factors!IsFiniteSet(S) <=> IsFiniteSet(S)
  BY DEF Factors!IsFiniteSet, IsFiniteSet
<1> QED BY <1>1, <1>2

LEMMA SessionCount == ASSUME NEW S, Sessions(S) PROVE Factors!Cardinality(S) \in Nat
BY SameCount, FS_CardinalityType DEF Sessions

LEMMA PartOfSessions ==
  ASSUME NEW S, Sessions(S), NEW T \in SUBSET S
  PROVE  Sessions(T) /\ Factors!Cardinality(T) \in Nat /\ Factors!Cardinality(T) <= Factors!Cardinality(S) /\ (T # S => Factors!Cardinality(T) < Factors!Cardinality(S))
<1>1. Factors!IsFiniteSet(T) /\ Factors!Cardinality(T) <= Factors!Cardinality(S) /\ (Factors!Cardinality(S) = Factors!Cardinality(T) => S = T)
  BY SameCount, FS_Subset DEF Sessions
<1>2. T \in SUBSET Int
  BY DEF Sessions
<1>3. Factors!Cardinality(T) \in Nat /\ Factors!Cardinality(S) \in Nat
  BY <1>1, SameCount, FS_CardinalityType DEF Sessions
<1> QED BY <1>1, <1>2, <1>3 DEF Sessions

LEMMA SessionSets ==
  ASSUME NEW S, Sessions(S), NEW d
  PROVE  /\ Sessions(Factors!Until(S, d)) /\ Factors!Cardinality(Factors!Until(S, d)) \in Nat
         /\ Sessions(After(S, d)) /\ Factors!Cardinality(After(S, d)) \in Nat
<1>1. Factors!Until(S, d) \in SUBSET S /\ After(S, d) \in SUBSET S
  BY DEF Factors!Until, After
<1> QED BY <1>1, PartOfSessions

(* Fewer come after a later one *)
LEMMA LaterHasFewer ==
  ASSUME NEW S, Sessions(S), NEW x \in S, NEW y \in S, x < y
  PROVE  Factors!Cardinality(After(S, y)) < Factors!Cardinality(After(S, x))
<1>1. y \in After(S, x) /\ y \notin After(S, y)
  BY DEF After, Sessions
<1>2. After(S, y) \in SUBSET After(S, x)
  <2>1. \A z \in S : z \in Int /\ x \in Int /\ y \in Int
    BY DEF Sessions
  <2>2. \A z \in S : z > y => z > x
    BY <2>1
  <2> QED BY <2>2 DEF After
<1> QED BY <1>1, <1>2, SessionSets, PartOfSessions

(* There is one session that so many come after *)
LEMMA RankFromLast ==
  ASSUME NEW S, Sessions(S), NEW n \in Nat, n < Factors!Cardinality(S)
  PROVE  \E x \in S : Factors!Cardinality(After(S, x)) = n
<1> DEFINE rank == [x \in S |-> Factors!Cardinality(After(S, x))]
           c == Factors!Cardinality(S)
           R == 0 .. c - 1
<1>1. c \in Nat
  BY SessionCount
<1>2. Factors!IsFiniteSet(R) /\ Factors!Cardinality(R) = c
  <2>1. c - 1 \in Int /\ 0 \in Int
    BY <1>1
  <2> HIDE DEF c
  <2> QED BY <1>1, <2>1, SameCount, FS_Interval
<1>3. ASSUME NEW x \in S PROVE Factors!Cardinality(After(S, x)) \in R
  <2>1. After(S, x) \in SUBSET S /\ x \notin After(S, x)
    BY DEF After, Sessions
  <2>2. Factors!Cardinality(After(S, x)) < Factors!Cardinality(S) /\ Factors!Cardinality(After(S, x)) \in Nat
    BY <2>1, PartOfSessions
  <2> QED BY <1>1, <2>2
<1>4. ASSUME NEW x \in S, NEW y \in S, rank[x] = rank[y] PROVE x = y
  <2>1. x \in Int /\ y \in Int /\ Factors!Cardinality(After(S, x)) \in Nat /\ Factors!Cardinality(After(S, y)) \in Nat
    BY SessionSets DEF Sessions
  <2>2. CASE x < y
    BY <1>4, <2>1, <2>2, LaterHasFewer
  <2>3. CASE y < x
    BY <1>4, <2>1, <2>3, LaterHasFewer
  <2> QED BY <2>1, <2>2, <2>3
<1>5. rank \in [S -> R]
  BY <1>3
<1> HIDE DEF rank, R, c
<1>6. rank \in Injection(S, R)
  BY <1>4, <1>5 DEF Injection, IsInjective
<1>7. rank \in Surjection(S, R)
  BY <1>2, <1>6, SameCount, FS_Injection DEF c
<1>8. n \in R
  BY <1>1 DEF R, c
<1>9. PICK x \in S : rank[x] = n
  BY <1>7, <1>8 DEF Surjection
<1> QED BY <1>9 DEF rank

LEMMA HasMax ==
  ASSUME NEW S, Sessions(S), S # {}
  PROVE  Factors!Max(S) \in S /\ \A y \in S : y <= Factors!Max(S)
<1>1. 0 < Factors!Cardinality(S)
  <2>1. Factors!Cardinality(S) \in Nat /\ Factors!Cardinality(S) # 0
    BY SessionCount, SameCount, FS_EmptySet DEF Sessions
  <2> QED BY <2>1
<1>2. PICK x \in S : Factors!Cardinality(After(S, x)) = 0
  BY <1>1, RankFromLast
<1>3. After(S, x) = {}
  BY <1>2, SameCount, FS_EmptySet, SessionSets DEF Sessions
<1>4. \A y \in S : x >= y
  BY <1>3 DEF After, Sessions
<1>5. Factors!Max(S) \in S /\ \A y \in S : Factors!Max(S) >= y
  BY <1>4 DEF Factors!Max
<1> QED BY <1>5 DEF Sessions

LEMMA AsOfFacts ==
  ASSUME NEW S, Sessions(S), NEW d \in Int, Factors!Until(S, d) # {}
  PROVE  Factors!AsOf(S, d) \in S /\ Factors!AsOf(S, d) <= d /\ \A y \in S : y <= d => y <= Factors!AsOf(S, d)
<1>1. Factors!Max(Factors!Until(S, d)) \in Factors!Until(S, d) /\ \A y \in Factors!Until(S, d) : y <= Factors!Max(Factors!Until(S, d))
  BY SessionSets, HasMax
<1> QED BY <1>1 DEF Factors!AsOf, Factors!Until

(* The session that so many come before, itself included *)
LEMMA RankFromFirst ==
  ASSUME NEW S, Sessions(S), NEW n \in Nat, n > 0, n <= Factors!Cardinality(S)
  PROVE  \E x \in S : Factors!Cardinality(Factors!Until(S, x)) = n
<1> DEFINE m == Factors!Cardinality(S) - n
<1>1. m \in Nat /\ m < Factors!Cardinality(S) /\ Factors!Cardinality(S) \in Nat
  <2>1. Factors!Cardinality(S) \in Nat
    BY SessionCount
  <2> QED BY <2>1
<1>2. PICK x \in S : Factors!Cardinality(After(S, x)) = m
  BY <1>1, RankFromLast
<1>3. Factors!Until(S, x) = S \ After(S, x) /\ S \cap After(S, x) = After(S, x)
  <2>1. \A z \in S : z <= x <=> ~(z > x)
    BY DEF Sessions
  <2> QED BY <2>1 DEF Factors!Until, After
<1>4. Factors!Cardinality(Factors!Until(S, x)) = Factors!Cardinality(S) - m
  BY <1>2, <1>3, SameCount, FS_Difference DEF Sessions
<1> QED BY <1>1, <1>4

LEMMA EarlierFacts ==
  ASSUME NEW S, Sessions(S), NEW base \in Int, NEW n \in Nat, Factors!Earlier(S, base, n) # None
  PROVE  /\ Factors!Earlier(S, base, n) \in S /\ Factors!Earlier(S, base, n) <= base
         /\ n > 0 => Factors!Earlier(S, base, n) < base
<1> DEFINE E == Factors!Until(S, base)
           e == Factors!Earlier(S, base, n)
<1>1. Sessions(E) /\ Factors!Cardinality(E) \in Nat
  BY SessionSets
<1>2. ~(Factors!Cardinality(E) <= n) /\ e = CHOOSE x \in E : Factors!Cardinality(After(E, x)) = n
  BY DEF Factors!Earlier, Factors!Until, After
<1> HIDE DEF E, e
<1>3. \E x \in E : Factors!Cardinality(After(E, x)) = n
  BY <1>1, <1>2, RankFromLast
<1>4. e \in E /\ Factors!Cardinality(After(E, e)) = n
  BY <1>2, <1>3
<1>5. e \in S /\ e <= base
  BY <1>4 DEF E, Factors!Until
<1>6. ASSUME n > 0 PROVE e < base
  <2>1. After(E, e) # {}
    BY <1>4, <1>6, SameCount, FS_EmptySet
  <2>2. PICK y \in S : y <= base /\ y > e
    BY <2>1 DEF After, E, Factors!Until
  <2> QED BY <1>5, <2>2 DEF Sessions
<1> QED BY <1>5, <1>6 DEF e

LEMMA LaterFacts ==
  ASSUME NEW S, Sessions(S), NEW base \in Int, NEW n \in Nat, n > 0, Factors!Later(S, base, n) # None
  PROVE  /\ Factors!Later(S, base, n) \in S /\ Factors!Later(S, base, n) > base
         /\ Factors!Cardinality(Factors!Until(After(S, base), Factors!Later(S, base, n))) = n
<1> DEFINE E == After(S, base)
           e == Factors!Later(S, base, n)
<1>1. Sessions(E) /\ Factors!Cardinality(E) \in Nat
  BY SessionSets
<1>2. ~(Factors!Cardinality(E) < n) /\ e = CHOOSE x \in E : Factors!Cardinality(Factors!Until(E, x)) = n
  BY DEF Factors!Later, After
<1> HIDE DEF E, e
<1>3. \E x \in E : Factors!Cardinality(Factors!Until(E, x)) = n
  BY <1>1, <1>2, RankFromFirst
<1>4. e \in E /\ Factors!Cardinality(Factors!Until(E, e)) = n
  BY <1>2, <1>3
<1> QED BY <1>4 DEF E, e, After

(* No two sessions have as many before them *)
LEMMA OneRank ==
  ASSUME NEW S, Sessions(S), NEW x \in S, NEW y \in S, Factors!Cardinality(Factors!Until(S, x)) = Factors!Cardinality(Factors!Until(S, y))
  PROVE  x = y
<1>1. ASSUME NEW v \in S, NEW w \in S, v < w PROVE Factors!Cardinality(Factors!Until(S, v)) < Factors!Cardinality(Factors!Until(S, w))
  <2>1. \A z \in S : z \in Int /\ v \in Int /\ w \in Int
    BY DEF Sessions
  <2>2. w \in Factors!Until(S, w) /\ w \notin Factors!Until(S, v) /\ \A z \in S : z <= v => z <= w
    BY <1>1, <2>1 DEF Factors!Until
  <2>3. Factors!Until(S, v) \in SUBSET Factors!Until(S, w)
    BY <2>2 DEF Factors!Until
  <2> QED BY <2>2, <2>3, SessionSets, PartOfSessions
<1>2. x \in Int /\ y \in Int /\ Factors!Cardinality(Factors!Until(S, x)) \in Nat
  BY SessionSets DEF Sessions
<1> QED BY <1>1, <1>2

(* The sessions stored later all come after those there were: what was      *)
(* resolved then is what is resolved now                                     *)
LEMMA LegStays ==
  ASSUME Factors!ResearchConstants, NEW S, Sessions(S), NEW more, Sessions(more), S \subseteq more,
         \A x \in more \ S, y \in S : x > y,
         NEW d \in Int, NEW h \in Horizons, Factors!StockLeg(S, d, h) # None
  PROVE  Factors!StockLeg(more, d, h) = Factors!StockLeg(S, d, h)
<1> DEFINE base == Factors!AsOf(S, d)
           e == Factors!Later(S, base, h)
           f == Factors!Later(more, base, h)
<1>0. h \in Nat /\ h > 0 /\ None \notin Int
  BY DEF Factors!ResearchConstants
<1>1. base # None /\ e # None /\ Factors!StockLeg(S, d, h) = <<base, e>>
  BY DEF Factors!StockLeg
<1>2. Factors!Until(S, d) # {}
  BY <1>1 DEF Factors!AsOf
<1>3. base \in S /\ base \in Int /\ base <= d /\ \A y \in S : y <= d => y <= base
  BY <1>2, AsOfFacts DEF Sessions
<1> HIDE DEF base
<1>4. e \in S /\ e > base /\ e \in Int /\ Factors!Cardinality(Factors!Until(After(S, base), e)) = h
  BY <1>0, <1>1, <1>3, LaterFacts DEF Sessions
<1> HIDE DEF e
<1>5. e > d
  BY <1>3, <1>4
<1>6. \A x \in more : x \in Int /\ (x \notin S => x > e /\ x > base /\ x > d)
  BY <1>3, <1>4, <1>5 DEF Sessions
<1>a. \A x \in more \ S : ~(x <= e) /\ ~(x <= d)
  BY <1>4, <1>6
<1>7. Factors!Until(more, d) = Factors!Until(S, d)
  BY <1>a DEF Factors!Until
<1>8. Factors!AsOf(more, d) = base
  BY <1>7 DEF Factors!AsOf, base
<1>9. After(S, base) \subseteq After(more, base) /\ Sessions(After(more, base)) /\ Sessions(After(S, base))
  BY SessionSets DEF After
<1>10. Factors!Until(After(more, base), e) = Factors!Until(After(S, base), e)
  BY <1>a DEF Factors!Until, After
<1>11. e \in After(more, base)
  BY <1>4 DEF After
<1>12. h <= Factors!Cardinality(After(more, base)) /\ Factors!Cardinality(After(more, base)) \in Nat
  BY <1>4, <1>9, <1>10, PartOfSessions, SessionCount DEF Factors!Until
<1>13. f # None /\ f \in After(more, base) /\ Factors!Cardinality(Factors!Until(After(more, base), f)) = h
  <2>1. f = CHOOSE x \in After(more, base) : Factors!Cardinality(Factors!Until(After(more, base), x)) = h
    BY <1>0, <1>12 DEF Factors!Later, After
  <2>2. f \in After(more, base) /\ Factors!Cardinality(Factors!Until(After(more, base), f)) = h
    BY <1>4, <1>10, <1>11, <2>1
  <2> QED BY <1>0, <1>9, <2>2 DEF Sessions
<1> HIDE DEF f
<1>14. f = e
  BY <1>4, <1>9, <1>10, <1>11, <1>13, OneRank
<1>15. Factors!StockLeg(more, d, h) = <<base, f>>
  BY <1>1, <1>8, <1>13 DEF Factors!StockLeg, f
<1> QED BY <1>1, <1>14, <1>15


(***************************************************************************)
(* Rows and labels                                                         *)
(***************************************************************************)
(* What a snapshot row is made of was there on its date *)
PointInTime(r) ==
  /\ r.symbol \in Researched /\ r.date \in Factors!Days
  /\ \A f \in r.facts : f.end + Lag[f.period] <= r.date
  /\ r.price # None => r.price <= r.date
  /\ \A m \in {r.momentum, r.momentum_12_1} \ {None} : m[1] < m[2] /\ m[2] <= r.date

LEMMA MomentumFacts ==
  ASSUME Factors!ResearchConstants, NEW S, Sessions(S), NEW skip \in Nat, Factors!Momentum(S, Lookback, skip) # None
  PROVE  LET m == Factors!Momentum(S, Lookback, skip) IN m[1] < m[2] /\ m[2] \in S
<1> DEFINE now == Factors!Earlier(S, Factors!Max(S), skip)
           before == Factors!Earlier(S, now, Lookback)
<1>1. S # {} /\ now # None /\ before # None /\ Factors!Momentum(S, Lookback, skip) = <<before, now>>
  BY DEF Factors!Momentum
<1>2. Factors!Max(S) \in Int
  BY <1>1, HasMax DEF Sessions
<1>3. now \in S
  BY <1>1, <1>2, EarlierFacts
<1> HIDE DEF now
<1>4. before < now
  <2>1. Lookback \in Nat /\ Lookback > 0 /\ now \in Int
    BY <1>3 DEF Factors!ResearchConstants, Sessions
  <2> QED BY <1>1, <2>1, EarlierFacts
<1> HIDE DEF before
<1> QED BY <1>1, <1>3, <1>4

LEMMA RowFacts ==
  ASSUME Factors!ResearchConstants, NEW s \in Researched, NEW d \in Factors!Days, NEW facts, NEW S, Sessions(S)
  PROVE  /\ PointInTime(Factors!Row(s, d, facts, S)) /\ Factors!Row(s, d, facts, S).symbol = s /\ Factors!Row(s, d, facts, S).date = d
<1> DEFINE r == Factors!Row(s, d, facts, S)
           P == Factors!Until(S, d)
<1>1. /\ r.symbol = s /\ r.date = d /\ r.price = Factors!AsOf(S, d)
      /\ r.facts = Factors!FactsAsOf({f \in facts : f.symbol = s}, d)
      /\ r.momentum = Factors!Momentum(P, Lookback, 0) /\ r.momentum_12_1 = Factors!Momentum(P, Lookback, 1)
  BY DEF Factors!Row
<1> HIDE DEF r
<1>2. d \in Int
  BY DEF Factors!Days
<1>3. r.price # None => r.price <= r.date
  BY <1>1, <1>2, AsOfFacts DEF Factors!AsOf
<1>4. Sessions(P) /\ \A x \in P : x <= d
  BY SessionSets DEF Factors!Until
<1> HIDE DEF P
<1>5. \A m \in {r.momentum, r.momentum_12_1} \ {None} : m[1] < m[2] /\ m[2] <= r.date
  BY <1>1, <1>4, MomentumFacts
<1>6. \A f \in r.facts : f.end + Lag[f.period] <= r.date
  BY <1>1 DEF Factors!FactsAsOf, Factors!AvailableFrom
<1> QED BY <1>1, <1>3, <1>5, <1>6 DEF PointInTime, r

(* Of a label that is resolved, the last session is one of those stored *)
LEMMA LegFacts ==
  ASSUME Factors!ResearchConstants, NEW S, Sessions(S), NEW d \in Int, NEW h \in Horizons, Factors!StockLeg(S, d, h) # None
  PROVE  Factors!StockLeg(S, d, h)[2] \in S
<1> DEFINE base == Factors!AsOf(S, d)
<1>1. base # None /\ Factors!Later(S, base, h) # None /\ Factors!StockLeg(S, d, h) = <<base, Factors!Later(S, base, h)>>
  BY DEF Factors!StockLeg
<1>2. base \in Int
  BY <1>1, AsOfFacts DEF Factors!AsOf, Sessions
<1>3. h \in Nat \ {0}
  BY DEF Factors!ResearchConstants
<1>4. Factors!Later(S, base, h) \in S
  BY <1>1, <1>2, <1>3, LaterFacts
<1> QED BY <1>1, <1>4

(***************************************************************************)
(* Walk forward                                                            *)
(***************************************************************************)
LEMMA StepsApart ==
  ASSUME NEW first \in Nat, NEW step \in Nat, step > 0, NEW j \in Nat, NEW k \in Nat, j < k
  PROVE  first + (j + 1) * step - 1 < first + k * step
<1>1. PICK i \in Nat : k = j + 1 + i
  <2>1. k - (j + 1) \in Nat /\ k = j + 1 + (k - (j + 1))
    OBVIOUS
  <2> QED BY <2>1
<1>2. k * step = (j + 1) * step + i * step /\ i * step >= 0
  BY <1>1
<1>3. (j + 1) * step \in Int /\ i * step \in Int /\ k * step \in Int
  OBVIOUS
<1> QED BY <1>2, <1>3

(* Every day belongs to a step *)
LEMMA StepOf ==
  ASSUME NEW first \in Nat, NEW step \in Nat, step > 0, NEW d \in Nat, first <= d
  PROVE  \E k \in 0 .. d : first + k * step <= d /\ d <= first + (k + 1) * step - 1
<1> DEFINE k == (d - first) \div step
           m == (d - first) % step
<1>1. d - first = step * k + m /\ k \in Int /\ m \in 0 .. step - 1
  <2>1. d - first \in Int
    OBVIOUS
  <2> QED BY <2>1
<1>2. k \in Nat /\ k <= d
  BY <1>1
<1> HIDE DEF k, m
<1>3. (k + 1) * step = step * k + step /\ k * step = step * k /\ step * k \in Int
  BY <1>2
<1>4. first + k * step <= d /\ d <= first + (k + 1) * step - 1
  BY <1>1, <1>2, <1>3
<1> QED BY <1>2, <1>4

LEMMA WindowFacts ==
  ASSUME Factors!ResearchConstants, NEW c \in Configs, Factors!ValidConfig(c), Factors!ResearchCutoff(c) \in Int
  PROVE  LET first == c.research_start + c.train_years * YearDays
         IN  /\ \A v, w \in Factors!WalkForwardWindows(c) :
                  v # w => (v.valid_start .. v.valid_end) \cap (w.valid_start .. w.valid_end) = {}
             /\ Factors!Sealed(c) =>
                  UNION {w.valid_start .. w.valid_end : w \in Factors!WalkForwardWindows(c)} = first .. (c.sealed_start - 1)
<1> DEFINE step == c.validation_years * YearDays
           first == c.research_start + c.train_years * YearDays
           cut == Factors!ResearchCutoff(c)
           upto(k) == Factors!Min({first + (k + 1) * step - 1, cut})
           window(k) == [valid_start |-> first + k * step, valid_end |-> upto(k)]
           ks == {k \in 0 .. LastDay : first + k * step <= cut}
<1>1. step \in Nat /\ step > 0 /\ first \in Nat /\ cut \in Int /\ LastDay \in Nat
  <2>1. /\ c.validation_years \in Nat /\ c.validation_years > 0 /\ c.train_years \in Nat /\ c.research_start \in Nat
        /\ YearDays \in Nat /\ YearDays > 0 /\ LastDay \in Nat
    BY DEF Factors!ResearchConstants, Factors!ValidConfig
  <2>2. c.validation_years * YearDays \in Nat /\ c.validation_years * YearDays > 0 /\ c.train_years * YearDays \in Nat
    BY <2>1
  <2> QED BY <2>1, <2>2
<1>2. Factors!WalkForwardWindows(c) = {window(k) : k \in ks}
  BY DEF Factors!WalkForwardWindows
<1>3. ASSUME NEW k \in 0 .. LastDay
      PROVE  upto(k) \in Int /\ upto(k) <= cut /\ upto(k) <= first + (k + 1) * step - 1
             /\ \A d \in Int : d <= cut /\ d <= first + (k + 1) * step - 1 => d <= upto(k)
  <2> DEFINE a == first + (k + 1) * step - 1
  <2>1. a \in Int
    <3> HIDE DEF first, step
    <3> QED BY <1>1
  <2>2. upto(k) = Factors!Min({a, cut})
    OBVIOUS
  <2> HIDE DEF upto, a, cut
  <2>3. \E x \in {a, cut} : \A y \in {a, cut} : x <= y
    BY <1>1, <2>1
  <2>4. upto(k) \in {a, cut} /\ \A y \in {a, cut} : upto(k) <= y
    BY <2>2, <2>3 DEF Factors!Min
  <2>5. upto(k) \in Int /\ upto(k) <= cut /\ upto(k) <= a /\ \A d \in Int : d <= cut /\ d <= a => d <= upto(k)
    BY <1>1, <2>1, <2>4
  <2> QED BY <2>5 DEF a
<1> HIDE DEF upto, step, first, cut
<1>4. ASSUME NEW j \in ks, NEW k \in ks, j < k PROVE (first + j * step .. upto(j)) \cap (first + k * step .. upto(k)) = {}
  <2>1. j \in Nat /\ k \in Nat /\ j \in 0 .. LastDay
    BY <1>1
  <2>2. first + (j + 1) * step - 1 < first + k * step
    BY <1>1, <1>4, <2>1, StepsApart
  <2>3. upto(j) <= first + (j + 1) * step - 1 /\ upto(j) \in Int
    BY <1>3, <2>1
  <2>4. (j + 1) * step \in Int /\ k * step \in Int /\ j * step \in Int
    BY <1>1, <2>1
  <2>5. upto(j) < first + k * step
    BY <1>1, <2>2, <2>3, <2>4
  <2> QED BY <1>1, <2>3, <2>4, <2>5
<1>5. ASSUME NEW j \in ks, NEW k \in ks, window(j) # window(k)
      PROVE  (window(j).valid_start .. window(j).valid_end) \cap (window(k).valid_start .. window(k).valid_end) = {}
  <2>1. j \in Int /\ k \in Int /\ j # k
    BY <1>1, <1>5
  <2>2. j < k \/ k < j
    BY <2>1
  <2> QED BY <1>4, <2>2
<1>6. ASSUME Factors!Sealed(c)
      PROVE  UNION {window(k).valid_start .. window(k).valid_end : k \in ks} = first .. (c.sealed_start - 1)
  <2>1. cut = c.sealed_start - 1 /\ c.sealed_start \in 1 .. LastDay
    BY <1>6 DEF cut, Factors!ResearchCutoff, Factors!Sealed, Factors!ResearchConstants, Factors!Days
  <2>2. ASSUME NEW k \in ks, NEW d \in (first + k * step .. upto(k)) PROVE d \in first .. cut
    <3>1. k \in 0 .. LastDay /\ k \in Nat
      BY <1>1
    <3>2. upto(k) \in Int /\ upto(k) <= cut
      BY <1>3, <3>1
    <3>3. k * step \in Nat
      BY <1>1, <3>1
    <3> QED BY <1>1, <3>2, <3>3
  <2>3. ASSUME NEW d \in first .. cut PROVE \E k \in ks : d \in (first + k * step .. upto(k))
    <3>1. d \in Nat /\ first <= d /\ d <= cut /\ d <= LastDay
      BY <1>1, <2>1
    <3>2. PICK k \in 0 .. d : first + k * step <= d /\ d <= first + (k + 1) * step - 1
      BY <1>1, <3>1, StepOf
    <3>3. k \in 0 .. LastDay /\ k * step \in Int
      BY <1>1, <3>1
    <3>4. d <= upto(k) /\ upto(k) \in Int
      BY <1>3, <3>1, <3>2, <3>3
    <3>5. first + k * step <= cut
      BY <1>1, <3>1, <3>2, <3>3
    <3> QED BY <1>1, <3>1, <3>2, <3>3, <3>4, <3>5
  <2>4. \A k \in ks : window(k).valid_start = first + k * step /\ window(k).valid_end = upto(k)
    OBVIOUS
  <2> HIDE DEF window, ks
  <2>5. UNION {window(k).valid_start .. window(k).valid_end : k \in ks} = first .. cut
    BY <2>2, <2>3, <2>4
  <2> QED BY <2>1, <2>5
<1>7. {w.valid_start .. w.valid_end : w \in Factors!WalkForwardWindows(c)} = {window(k).valid_start .. window(k).valid_end : k \in ks}
  <2> HIDE DEF window, ks
  <2> QED BY <1>2
<1>8. \A v, w \in Factors!WalkForwardWindows(c) :
        v # w => (v.valid_start .. v.valid_end) \cap (w.valid_start .. w.valid_end) = {}
  <2> HIDE DEF window, ks
  <2> QED BY <1>2, <1>5
<1> QED BY <1>6, <1>7, <1>8 DEF first

(***************************************************************************)
(* The invariant of the research                                           *)
(***************************************************************************)
Series(x) == x = [s \in Researched |-> x[s]] /\ \A s \in Researched : x[s] \subseteq Factors!Days /\ \A d \in x[s] : d <= today

ResearchTyped ==
  /\ today \in Nat /\ DOMAIN index \subseteq Factors!Days /\ \A s \in Researched : traded[s] \subseteq Factors!Days
  /\ Series(known) /\ Series(bars) /\ benchmark \subseteq Factors!Days
  /\ run \in [kind : {"none", "full", "cli"}, at : {"none", "prices", "snapshots", "outcomes", "validated", "failed"}, usable : SUBSET Researched]
  /\ config \in Configs \cup {None} /\ (run.kind = "full" => config \in Configs)

(* What the screener stores it stores to the day, of the last days, so that *)
(* no session is ever stored before one that is there                        *)
Frontier ==
  \A s \in Researched :
    known[s] # {} =>
      \E t \in 0 .. today :
        /\ \A x \in known[s] : x <= t
        /\ \A x \in traded[s] : x > t - FetchDays /\ x <= t => x \in known[s]

RowsRight ==
  /\ \A r \in snapshots : PointInTime(r)
  /\ \A q, r \in snapshots : q.symbol = r.symbol /\ q.date = r.date => q = r

Keys == {<<r.date, r.symbol, h>> : r \in snapshots, h \in Horizons}

Labelled(k) ==
  /\ outcomes[k].excess => outcomes[k].stock # None /\ outcomes[k].bench # None
  /\ outcomes[k].stock # None => outcomes[k].stock[2] \in Int /\ outcomes[k].stock[2] <= today
  /\ run.kind = "cli" /\ outcomes[k].stock # None => outcomes[k].stock = Factors!StockLeg(known[k[2]], k[1], k[3])

LabelsRight ==
  IF run.at \in {"outcomes", "validated", "failed"}
  THEN DOMAIN outcomes = Keys /\ \A k \in Keys : Labelled(k)
  ELSE DOMAIN outcomes = {}

ResearchInv ==
  /\ ResearchTyped /\ Frontier /\ RowsRight /\ LabelsRight
  /\ result # None => run.at = "validated"
  /\ Factors!SealedKeptOut /\ Factors!ValidatedOnEvidence

LEMMA DaySets == ASSUME Factors!ResearchConstants, NEW S \in SUBSET Factors!Days PROVE Sessions(S)
<1>1. LastDay \in Int /\ 1 \in Int
  BY DEF Factors!ResearchConstants
<1>2. Factors!IsFiniteSet(Factors!Days)
  BY <1>1, SameCount, FS_Interval DEF Factors!Days
<1>3. Factors!Days \subseteq Int
  BY DEF Factors!Days
<1> QED BY <1>2, <1>3, SameCount, FS_Subset DEF Sessions

LEMMA KeyFacts ==
  ASSUME RowsRight, NEW k \in Keys
  PROVE  /\ k[1] \in Factors!Days /\ k[2] \in Researched /\ k[3] \in Horizons /\ k = <<k[1], k[2], k[3]>>
         /\ \E r \in snapshots : r.date = k[1] /\ r.symbol = k[2]
<1>1. PICK r \in snapshots, h \in Horizons : k = <<r.date, r.symbol, h>>
  BY DEF Keys
<1> QED BY <1>1 DEF RowsRight, PointInTime

(***************************************************************************)
(* Validation                                                              *)
(***************************************************************************)
(* The rows of a date are as many as their listings *)
LEMMA RowsOfDate ==
  ASSUME Factors!ResearchConstants, RowsRight, NEW d, NEW X \in SUBSET snapshots, \A r \in X : r.date = d
  PROVE  /\ Factors!IsFiniteSet(X) /\ Factors!Cardinality(X) \in Nat
         /\ \A Y \in SUBSET Researched : (\A r \in X : r.symbol \in Y) => Factors!Cardinality(X) <= Factors!Cardinality(Y) /\ Factors!Cardinality(Y) \in Nat
<1>1. ASSUME NEW Y \in SUBSET Researched, \A r \in X : r.symbol \in Y
      PROVE  Factors!IsFiniteSet(X) /\ Factors!Cardinality(X) <= Factors!Cardinality(Y) /\ Factors!Cardinality(Y) \in Nat
  <2> DEFINE f == [r \in X |-> r.symbol]
  <2>1. f \in [X -> Y]
    BY <1>1
  <2>2. \A q, r \in X : f[q] = f[r] => q = r
    BY DEF RowsRight
  <2> HIDE DEF f
  <2>3. f \in Injection(X, Y)
    BY <2>1, <2>2 DEF Injection, IsInjective
  <2>4. Factors!IsFiniteSet(Y)
    BY SameCount, FS_Subset DEF Factors!ResearchConstants
  <2> QED BY <2>3, <2>4, SameCount, FS_Injection, FS_CardinalityType
<1>2. \A r \in X : r.symbol \in Researched
  BY DEF RowsRight, PointInTime
<1>3. Factors!IsFiniteSet(X)
  BY <1>1, <1>2
<1> QED BY <1>1, <1>3, SameCount, FS_CardinalityType

Crossing(taken, factor, h, labels, d) ==
  {r \in taken : r.date = d /\ r[factor] # None /\ labels[<<d, r.symbol, h>>].excess}

LEMMA DateFacts ==
  ASSUME NEW taken, NEW factor, NEW h, NEW labels, NEW least, NEW d
  PROVE  d \in Factors!Dates(taken, factor, h, labels, least)
           <=> (\E r \in taken : r.date = d) /\ Factors!Cardinality(Crossing(taken, factor, h, labels, d)) >= least
BY DEF Factors!Dates, Crossing

(* A date of a window is a date of the period the factor is tuned on *)
LEMMA WindowDate ==
  ASSUME Factors!ResearchConstants, RowsRight, NEW taken \in SUBSET snapshots, NEW windows, NEW factor, NEW h, NEW labels,
         NEW flat, NEW d \in Factors!WindowDates(taken, windows, factor, h, labels, flat)
  PROVE  d \in Factors!Ranked(taken, factor, h, labels, flat)
<1>1. PICK w \in windows :
        d \in Factors!Dates({r \in taken : r.date \in w.valid_start .. w.valid_end}, factor, h, labels, MinCrossSection) \ flat
  BY DEF Factors!WindowDates, Factors!Ranked
<1> DEFINE inside == {r \in taken : r.date \in w.valid_start .. w.valid_end}
           X == Crossing(inside, factor, h, labels, d)
           Y == Crossing(taken, factor, h, labels, d)
<1>2. (\E r \in inside : r.date = d) /\ Factors!Cardinality(X) >= MinCrossSection
  BY <1>1, DateFacts
<1>3. X \in SUBSET Y /\ Y \in SUBSET snapshots /\ X \in SUBSET snapshots /\ (\A r \in Y : r.date = d) /\ (\A r \in X : r.date = d)
  BY DEF Crossing
<1> HIDE DEF X, Y
<1>4. Factors!IsFiniteSet(Y) /\ Factors!Cardinality(Y) \in Nat /\ Factors!Cardinality(X) \in Nat /\ MinCrossSection \in Nat
  BY <1>3, RowsOfDate DEF Factors!ResearchConstants
<1>5. Factors!Cardinality(X) <= Factors!Cardinality(Y)
  BY <1>3, <1>4, SameCount, FS_Subset
<1>6. Factors!Cardinality(Y) >= MinCrossSection
  BY <1>2, <1>4, <1>5
<1>7. d \in Factors!Dates(taken, factor, h, labels, MinCrossSection)
  BY <1>2, <1>6, DateFacts DEF Y
<1> QED BY <1>1, <1>7 DEF Factors!Ranked

(* As many listings as the cross-section takes had made their returns *)
LEMMA EnoughListings ==
  ASSUME Factors!ResearchConstants, RowsRight, DOMAIN outcomes = Keys, \A k \in Keys : Labelled(k),
         NEW taken \in SUBSET snapshots, NEW factor, NEW h \in Horizons, NEW labels,
         \A k \in Keys : labels[k].excess => outcomes[k].excess,
         NEW flat, NEW d \in Factors!Ranked(taken, factor, h, labels, flat)
  PROVE  Factors!Cardinality({s \in Researched :
           LET k == <<d, s, h>> IN
           /\ k \in DOMAIN outcomes /\ outcomes[k].stock # None /\ outcomes[k].bench # None
           /\ outcomes[k].stock[2] <= today}) >= MinCrossSection
<1> DEFINE X == Crossing(taken, factor, h, labels, d)
           Y == {s \in Researched :
                   LET k == <<d, s, h>> IN
                   /\ k \in DOMAIN outcomes /\ outcomes[k].stock # None /\ outcomes[k].bench # None
                   /\ outcomes[k].stock[2] <= today}
<1>1. Factors!Cardinality(X) >= MinCrossSection
  <2>1. d \in Factors!Dates(taken, factor, h, labels, MinCrossSection)
    BY DEF Factors!Ranked
  <2> QED BY <2>1, DateFacts
<1>2. X \in SUBSET snapshots /\ (\A r \in X : r.date = d)
  BY DEF Crossing
<1>3. ASSUME NEW r \in X PROVE r.symbol \in Y
  <2> DEFINE k == <<d, r.symbol, h>>
  <2>1. r \in snapshots /\ r.date = d /\ labels[k].excess
    BY DEF Crossing
  <2>2. k \in Keys /\ r.symbol \in Researched
    BY <2>1 DEF Keys, RowsRight, PointInTime
  <2>3. Labelled(k) /\ outcomes[k].excess
    BY <2>1, <2>2
  <2> HIDE DEF X
  <2> QED BY <2>2, <2>3 DEF Labelled
<1>4. Y \in SUBSET Researched
  OBVIOUS
<1> HIDE DEF X, Y
<1>5. Factors!Cardinality(X) <= Factors!Cardinality(Y) /\ Factors!Cardinality(X) \in Nat /\ Factors!Cardinality(Y) \in Nat /\ MinCrossSection \in Nat
  BY <1>2, <1>3, <1>4, RowsOfDate DEF Factors!ResearchConstants
<1>6. Factors!Cardinality(Y) >= MinCrossSection
  BY <1>1, <1>5
<1> QED BY <1>6 DEF Y

LEMMA MetricFacts ==
  ASSUME NEW dates, "passing" \in Factors!Metric(dates)
  PROVE  dates # {}
BY DEF Factors!Metric

(* VALIDATED takes a passing metric of every kind *)
LEMMA ValidatedFacts ==
  ASSUME Factors!ResearchConstants, NEW n \in Nat, NEW a, NEW b, NEW e, NEW f, NEW g, NEW i,
         NEW m \in [mean : Factors!Metric(a), ratio : Factors!Metric(b), median : Factors!Metric(e), spread : Factors!Metric(f), walk : Factors!Metric(g), oos : Factors!Metric(i)],
         Factors!FactorVerdict(n, m) = "VALIDATED"
  PROVE  n >= MinObservations /\ g # {} /\ i # {}
<1>1. ~(n < MinObservations) /\ m.walk = "passing" /\ m.oos = "passing"
  BY DEF Factors!FactorVerdict
<1>2. "passing" \in Factors!Metric(g) /\ "passing" \in Factors!Metric(i)
  BY <1>1
<1>3. MinObservations \in Nat
  BY DEF Factors!ResearchConstants
<1> QED BY <1>1, <1>2, <1>3, MetricFacts

(* The listings whose returns of a date had been made *)
ListingsMade(d, h, told, now) ==
  {s \in Researched :
     LET k == <<d, s, h>> IN
     /\ k \in DOMAIN told /\ told[k].stock # None /\ told[k].bench # None
     /\ told[k].stock[2] <= now}

LEMMA ValidationFacts ==
  ASSUME Factors!ResearchConstants, RowsRight, DOMAIN outcomes = Keys, \A k \in Keys : Labelled(k),
         NEW c \in Configs, Factors!ValidConfig(c), Factors!ResearchCutoff(c) \in Int,
         NEW factor, NEW h \in Horizons, NEW labels, \A k \in Keys : labels[k].excess => outcomes[k].excess,
         NEW flat, config' = c, result' = Factors!Validation(c, factor, h, labels, flat), UNCHANGED <<snapshots, outcomes, today>>
  PROVE  Factors!SealedKeptOut' /\ Factors!ValidatedOnEvidence'
<1> DEFINE tuning == {r \in snapshots : ~Factors!IsSealed(c, r.date)}
           sealed == snapshots \ tuning
           windows == Factors!WalkForwardWindows(c)
           ic == Factors!Ranked(tuning, factor, h, labels, flat)
           oos == Factors!Ranked(sealed, factor, h, labels, flat)
           walk == Factors!WindowDates(tuning, windows, factor, h, labels, flat)
           spread == Factors!SpreadDates(tuning, factor, h, labels)
           metrics == [mean : Factors!Metric(ic), ratio : Factors!Metric(ic), median : Factors!Metric(ic), spread : Factors!Metric(spread),
                       walk : Factors!Metric(walk), oos : Factors!Metric(oos)]
           verdicts == {Factors!FactorVerdict(Factors!Cardinality(ic), m) : m \in metrics}
<1>1. /\ result'.horizon = h /\ result'.tuning = tuning /\ result'.sealed = sealed /\ result'.windows = windows
      /\ result'.ic = ic /\ result'.oos = oos /\ result'.walk = walk /\ result'.verdicts = verdicts
  BY DEF Factors!Validation
<1>2. Factors!SealedKeptOut'
  <2> HIDE DEF ic, oos, walk, spread, metrics, verdicts
  <2>1. /\ \A v, w \in windows : v # w => (v.valid_start .. v.valid_end) \cap (w.valid_start .. w.valid_end) = {}
        /\ Factors!Sealed(c) =>
             UNION {w.valid_start .. w.valid_end : w \in windows}
               = (c.research_start + c.train_years * YearDays) .. (c.sealed_start - 1)
    BY WindowFacts
  <2>2. Factors!Sealed(c) => \A r \in tuning : r.date \notin c.sealed_start .. c.sealed_end
    BY DEF Factors!IsSealed
  <2>3. tuning \cap sealed = {} /\ tuning \cup sealed = snapshots
    OBVIOUS
  <2> HIDE DEF tuning, sealed, windows
  <2> QED BY <1>1, <2>1, <2>2, <2>3 DEF Factors!SealedKeptOut
<1>3. tuning \in SUBSET snapshots /\ sealed \in SUBSET snapshots /\ \A r \in sealed : Factors!IsSealed(c, r.date)
  OBVIOUS
<1>4. ASSUME NEW d \in ic \cup oos
      PROVE  Factors!Cardinality({s \in Researched :
               LET k == <<d, s, h>> IN
               /\ k \in DOMAIN outcomes /\ outcomes[k].stock # None /\ outcomes[k].bench # None
               /\ outcomes[k].stock[2] <= today}) >= MinCrossSection
  <2> HIDE DEF tuning, sealed
  <2>1. CASE d \in ic
    BY <1>3, <2>1, EnoughListings
  <2>2. CASE d \in oos
    BY <1>3, <2>2, EnoughListings
  <2> QED BY <2>1, <2>2
<1>5. walk \subseteq ic
  <2> HIDE DEF tuning, windows
  <2> QED BY <1>3, WindowDate
<1>6. \A d \in oos : Factors!IsSealed(c, d)
  <2> HIDE DEF tuning, sealed
  <2>1. \A d \in oos : d \in Factors!Dates(sealed, factor, h, labels, MinCrossSection)
    BY DEF Factors!Ranked
  <2>2. \A d \in oos : \E r \in sealed : r.date = d
    BY <2>1, DateFacts
  <2> QED BY <1>3, <2>2
<1>7. Factors!Cardinality(ic) \in Nat
  <2>1. ic \in SUBSET Factors!Days
    <3> HIDE DEF tuning
    <3> QED BY <1>3 DEF Factors!Ranked, Factors!Dates, RowsRight, PointInTime
  <2> HIDE DEF ic
  <2> QED BY <2>1, DaySets, SessionCount
<1>8. "VALIDATED" \in verdicts => Factors!Cardinality(ic) >= MinObservations /\ walk # {} /\ oos # {}
  <2> SUFFICES ASSUME "VALIDATED" \in verdicts PROVE Factors!Cardinality(ic) >= MinObservations /\ walk # {} /\ oos # {}
    OBVIOUS
  <2> HIDE DEF ic, walk, oos, spread
  <2>1. PICK m \in metrics : Factors!FactorVerdict(Factors!Cardinality(ic), m) = "VALIDATED"
    OBVIOUS
  <2> QED BY <1>7, <2>1, ValidatedFacts
<1> HIDE DEF tuning, sealed, windows, ic, oos, walk, spread, metrics, verdicts
<1>9. \A d \in ic \cup oos : Factors!Cardinality(ListingsMade(d, h, outcomes, today)) >= MinCrossSection
  BY <1>4 DEF ListingsMade
<1>10. \A d \in result'.ic \cup result'.oos : Factors!Cardinality(ListingsMade(d, result'.horizon, outcomes', today')) >= MinCrossSection
  BY <1>1, <1>9
<1>11. "VALIDATED" \in result'.verdicts =>
         /\ Factors!Cardinality(result'.ic) >= MinObservations
         /\ result'.walk # {} /\ result'.walk \subseteq result'.ic
         /\ result'.oos # {} /\ \A d \in result'.oos : Factors!IsSealed(config', d)
  BY <1>1, <1>5, <1>6, <1>8
<1>12. Factors!ValidatedOnEvidence'
  BY <1>10, <1>11 DEF Factors!ValidatedOnEvidence, ListingsMade
<1> QED BY <1>2, <1>12

(***************************************************************************)
(* The steps                                                               *)
(***************************************************************************)
LEMMA NoResult ==
  ASSUME result' = None
  PROVE  Factors!SealedKeptOut' /\ Factors!ValidatedOnEvidence'
BY DEF Factors!SealedKeptOut, Factors!ValidatedOnEvidence

(* Rows, labels and verdicts stay right when only time passes *)
LEMMA ResultStays ==
  ASSUME Factors!SealedKeptOut, Factors!ValidatedOnEvidence, UNCHANGED <<snapshots, outcomes, config, result>>,
         today \in Nat, today' \in Nat, today <= today',
         Factors!ResearchConstants, RowsRight, DOMAIN outcomes = Keys, \A k \in Keys : Labelled(k)
  PROVE  Factors!SealedKeptOut' /\ Factors!ValidatedOnEvidence'
<1>1. Factors!SealedKeptOut'
  BY DEF Factors!SealedKeptOut
<1>2. ASSUME NEW d, NEW h, Factors!Cardinality(ListingsMade(d, h, outcomes, today)) >= MinCrossSection
      PROVE  Factors!Cardinality(ListingsMade(d, h, outcomes, today')) >= MinCrossSection
  <2>1. ListingsMade(d, h, outcomes, today) = ListingsMade(d, h, outcomes, today')
    <3>1. \A k \in DOMAIN outcomes : outcomes[k].stock # None =>
            outcomes[k].stock[2] <= today /\ outcomes[k].stock[2] <= today'
      BY DEF Labelled
    <3> QED BY <3>1 DEF ListingsMade
  <2> QED BY <1>2, <2>1
<1>3. Factors!ValidatedOnEvidence'
  <2> SUFFICES ASSUME result # None, "VALIDATED" \in result.verdicts
               PROVE  \A d \in result.ic \cup result.oos : Factors!Cardinality(ListingsMade(d, result.horizon, outcomes, today')) >= MinCrossSection
    BY DEF Factors!ValidatedOnEvidence, ListingsMade
  <2>1. \A d \in result.ic \cup result.oos : Factors!Cardinality(ListingsMade(d, result.horizon, outcomes, today)) >= MinCrossSection
    BY DEF Factors!ValidatedOnEvidence, ListingsMade
  <2> QED BY <1>2, <2>1
<1> QED BY <1>1, <1>3

LEMMA ResearchStart == Factors!ResearchConstants /\ Factors!Init => ResearchInv
<1> SUFFICES ASSUME Factors!ResearchConstants, Factors!Init PROVE ResearchInv
  OBVIOUS
<1>1. /\ today = 1 /\ index \in Indexes /\ traded \in [Researched -> {DOMAIN index \ gone : gone \in Suspensions}]
      /\ known = [s \in Researched |-> {}] /\ bars = [s \in Researched |-> {}] /\ benchmark = {}
      /\ run = Factors!NoRun /\ snapshots = {} /\ outcomes = <<>> /\ config = None /\ result = None
  BY DEF Factors!Init
<1>2. DOMAIN index \subseteq Factors!Days /\ \A s \in Researched : traded[s] \subseteq Factors!Days
  <2>1. DOMAIN index \subseteq Factors!Days
    BY <1>1 DEF Factors!ResearchConstants
  <2> QED BY <1>1, <2>1
<1>3. Series(known) /\ Series(bars)
  BY <1>1 DEF Series
<1>4. /\ run \in [kind : {"none", "full", "cli"}, at : {"none", "prices", "snapshots", "outcomes", "validated", "failed"}, usable : SUBSET Researched]
      /\ run.kind = "none" /\ run.at = "none"
  BY <1>1 DEF Factors!NoRun
<1>5. ResearchTyped
  <2>1. today \in Nat /\ benchmark \subseteq Factors!Days
    BY <1>1
  <2>2. config \in Configs \cup {None} /\ (run.kind = "full" => config \in Configs)
    BY <1>1, <1>4
  <2> QED BY <1>2, <1>3, <1>4, <2>1, <2>2 DEF ResearchTyped
<1>6. Frontier /\ RowsRight /\ result = None
  BY <1>1 DEF Frontier, RowsRight
<1>7. LabelsRight
  <2>1. DOMAIN outcomes = {}
    BY <1>1
  <2> QED BY <1>4, <2>1 DEF LabelsRight
<1>8. Factors!SealedKeptOut /\ Factors!ValidatedOnEvidence
  BY <1>6 DEF Factors!SealedKeptOut, Factors!ValidatedOnEvidence
<1> QED BY <1>5, <1>6, <1>7, <1>8 DEF ResearchInv

(* Days pass, and the sessions a listing traded in are stored *)
LEMMA LabelsStay ==
  ASSUME Factors!ResearchConstants, ResearchInv, UNCHANGED <<run, snapshots, outcomes, config, result>>,
         today' \in Nat, today <= today',
         run.kind = "cli" => \A s \in Researched, d \in Factors!Days, h \in Horizons :
           Factors!StockLeg(known[s], d, h) # None => Factors!StockLeg(known'[s], d, h) = Factors!StockLeg(known[s], d, h)
  PROVE  LabelsRight' /\ RowsRight' /\ Factors!SealedKeptOut' /\ Factors!ValidatedOnEvidence' /\ (result' # None => run'.at = "validated")
<1>1. RowsRight' /\ Keys' = Keys
  BY DEF ResearchInv, RowsRight, PointInTime, Keys
<1>2. today \in Nat
  BY DEF ResearchInv, ResearchTyped
<1>3. LabelsRight'
  <2>1. CASE run.at \in {"outcomes", "validated", "failed"}
    <3> SUFFICES ASSUME NEW k \in Keys PROVE Labelled(k)'
      BY <1>1, <2>1 DEF ResearchInv, LabelsRight
    <3>1. Labelled(k) /\ k[1] \in Factors!Days /\ k[2] \in Researched /\ k[3] \in Horizons
      BY <2>1, KeyFacts DEF ResearchInv, LabelsRight
    <3> QED BY <1>2, <3>1 DEF Labelled
  <2>2. CASE run.at \notin {"outcomes", "validated", "failed"}
    BY <2>2 DEF ResearchInv, LabelsRight
  <2> QED BY <2>1, <2>2
<1>4. Factors!SealedKeptOut' /\ Factors!ValidatedOnEvidence' /\ (result' # None => run'.at = "validated")
  <2>1. CASE result = None
    BY <2>1, NoResult
  <2>2. CASE result # None
    <3>1. run.at = "validated"
      BY <2>2 DEF ResearchInv
    <3> QED BY <1>2, <3>1, ResultStays DEF ResearchInv, LabelsRight
  <2> QED BY <2>1, <2>2
<1> QED BY <1>1, <1>3, <1>4

LEMMA TickKeeps ==
  ASSUME Factors!ResearchConstants, ResearchInv, Factors!Tick
  PROVE  ResearchInv'
<1>1. today' = today + 1 /\ UNCHANGED <<index, traded, canonical, known, bars, benchmark, run, snapshots, outcomes, config, result>>
  BY DEF Factors!Tick
<1>2. today \in Nat /\ today' \in Nat /\ today <= today' /\ ResearchTyped /\ LastDay \in Nat
  BY <1>1 DEF ResearchInv, ResearchTyped, Factors!ResearchConstants
<1>3. ResearchTyped'
  <2>1. ASSUME NEW s \in Researched, NEW d \in Factors!Days, d <= today PROVE d <= today'
    BY <1>2, <2>1 DEF Factors!Days
  <2>2. Series(known)' /\ Series(bars)'
    BY <1>1, <1>2, <2>1 DEF ResearchTyped, Series
  <2> QED BY <1>1, <1>2, <2>2 DEF ResearchTyped
<1>4. Frontier'
  <2> SUFFICES ASSUME NEW s \in Researched, known[s] # {}
               PROVE  \E t \in 0 .. today' :
                        /\ \A x \in known[s] : x <= t
                        /\ \A x \in traded[s] : x > t - FetchDays /\ x <= t => x \in known[s]
    BY <1>1 DEF Frontier
  <2>1. PICK t \in 0 .. today :
               /\ \A x \in known[s] : x <= t
               /\ \A x \in traded[s] : x > t - FetchDays /\ x <= t => x \in known[s]
    BY DEF ResearchInv, Frontier
  <2>2. t \in 0 .. today'
    BY <1>2
  <2> QED BY <2>1, <2>2
<1>5. LabelsRight' /\ RowsRight' /\ Factors!SealedKeptOut' /\ Factors!ValidatedOnEvidence' /\ (result' # None => run'.at = "validated")
  BY <1>1, <1>2, LabelsStay
<1> QED BY <1>3, <1>4, <1>5 DEF ResearchInv

LEMMA CrawlKeeps ==
  ASSUME Factors!ResearchConstants, ResearchInv, UNCHANGED <<today, index, traded, known, bars, benchmark, run, snapshots, outcomes, config, result>>
  PROVE  ResearchInv'
<1>1. ResearchTyped' /\ Frontier'
  BY DEF ResearchInv, ResearchTyped, Series, Frontier
<1>2. today \in Nat /\ today <= today
  BY DEF ResearchInv, ResearchTyped
<1>3. LabelsRight' /\ RowsRight' /\ Factors!SealedKeptOut' /\ Factors!ValidatedOnEvidence' /\ (result' # None => run'.at = "validated")
  BY <1>2, LabelsStay
<1> QED BY <1>1, <1>3 DEF ResearchInv

LEMMA StoreKeeps ==
  ASSUME Factors!ResearchConstants, ResearchInv, Factors!ScreenerStores
  PROVE  ResearchInv'
<1>1. PICK s \in Researched :
        LET seen == {x \in traded[s] : x <= today /\ x > today - FetchDays} IN
        known' = [known EXCEPT ![s] = @ \cup seen]
  BY DEF Factors!ScreenerStores
<1> DEFINE seen == {x \in traded[s] : x <= today /\ x > today - FetchDays}
<1>2. UNCHANGED <<today, index, traded, canonical, bars, benchmark, run, snapshots, outcomes, config, result>>
  BY DEF Factors!ScreenerStores
<1>3. /\ ResearchTyped /\ today \in Nat /\ FetchDays \in Nat /\ seen \subseteq Factors!Days
      /\ known[s] \subseteq Factors!Days
  BY DEF ResearchInv, ResearchTyped, Series, Factors!ResearchConstants
<1>4. known' = [x \in Researched |-> known'[x]] /\ known'[s] = known[s] \cup seen /\ \A x \in Researched \ {s} : known'[x] = known[x]
  BY <1>1, <1>3 DEF ResearchTyped, Series
<1>5. \A x \in seen : x <= today /\ x > today - FetchDays /\ x \in traded[s]
  OBVIOUS
<1>6. \A x \in traded[s] : x <= today /\ x > today - FetchDays => x \in seen
  OBVIOUS
<1> HIDE DEF seen
<1>7. Series(known)'
  BY <1>2, <1>3, <1>4, <1>5 DEF ResearchTyped, Series
<1>8. ResearchTyped'
  BY <1>2, <1>3, <1>7 DEF ResearchTyped, Series
<1>9. Frontier'
  <2> SUFFICES ASSUME NEW q \in Researched, known'[q] # {}
               PROVE  \E t \in 0 .. today :
                        /\ \A x \in known'[q] : x <= t
                        /\ \A x \in traded[q] : x > t - FetchDays /\ x <= t => x \in known'[q]
    BY <1>2 DEF Frontier
  <2>1. CASE q = s
    <3>1. today \in 0 .. today /\ (\A x \in known'[s] : x <= today)
      BY <1>2, <1>3, <1>7 DEF Series
    <3>2. \A x \in traded[s] : x > today - FetchDays /\ x <= today => x \in known'[s]
      BY <1>4, <1>6
    <3> QED BY <2>1, <3>1, <3>2
  <2>2. CASE q # s
    BY <1>4, <2>2 DEF ResearchInv, Frontier
  <2> QED BY <2>1, <2>2
(* What is stored comes after what was *)
<1>10. ASSUME NEW x \in known'[s] \ known[s], NEW y \in known[s] PROVE x > y
  <2>1. PICK t \in 0 .. today :
               /\ \A z \in known[s] : z <= t
               /\ \A z \in traded[s] : z > t - FetchDays /\ z <= t => z \in known[s]
    BY DEF ResearchInv, Frontier
  <2>2. x \in seen /\ x \in traded[s] /\ x > today - FetchDays /\ x \in Int /\ y \in Int /\ t \in Int /\ t <= today
    BY <1>3, <1>4, <1>5 DEF Factors!Days
  <2>3. ~(x <= t)
    BY <1>3, <2>1, <2>2
  <2> QED BY <2>1, <2>2, <2>3
<1>11. ASSUME NEW q \in Researched, NEW d \in Factors!Days, NEW h \in Horizons, Factors!StockLeg(known[q], d, h) # None
       PROVE  Factors!StockLeg(known'[q], d, h) = Factors!StockLeg(known[q], d, h)
  <2>1. CASE q = s
    <3>1. Sessions(known[s]) /\ Sessions(known'[s]) /\ known[s] \subseteq known'[s] /\ d \in Int
      BY <1>3, <1>4, DaySets DEF Factors!Days
    <3> QED BY <1>10, <1>11, <2>1, <3>1, LegStays
  <2>2. CASE q # s
    BY <1>4, <2>2
  <2> QED BY <2>1, <2>2
<1>12. LabelsRight' /\ RowsRight' /\ Factors!SealedKeptOut' /\ Factors!ValidatedOnEvidence' /\ (result' # None => run'.at = "validated")
  <2>1. today' \in Nat /\ today <= today'
    BY <1>2, <1>3
  <2> QED BY <1>2, <1>11, <2>1, LabelsStay
<1> QED BY <1>8, <1>9, <1>12 DEF ResearchInv

(* A run begins, or a part of it ends: nothing is concluded yet *)
LEMMA FetchPricesKeeps ==
  ASSUME Factors!ResearchConstants, ResearchInv, Factors!FetchPrices
  PROVE  ResearchInv'
<1>1. PICK provided \in SUBSET Researched :
        /\ bars' = [s \in Researched |-> bars[s] \cup (IF s \in provided THEN Factors!Until(traded[s], today) ELSE {})]
        /\ run' = [kind |-> "full", at |-> "prices", usable |-> {s \in provided : Factors!Until(traded[s], today) # {}}]
  BY DEF Factors!FetchPrices
<1>2. /\ run.at = "none" /\ benchmark' = Factors!Until(DOMAIN index, today)
      /\ config' \in Configs
      /\ UNCHANGED <<today, index, traded, canonical, known, snapshots, outcomes, result>>
  BY DEF Factors!FetchPrices
<1>3. result = None /\ DOMAIN outcomes = {}
  BY <1>2 DEF ResearchInv, LabelsRight
<1>4. run' \in [kind : {"none", "full", "cli"}, at : {"none", "prices", "snapshots", "outcomes", "validated", "failed"}, usable : SUBSET Researched]
      /\ run'.kind = "full" /\ run'.at = "prices"
  BY <1>1
<1>5. Series(bars)'
  <2>1. \A s \in Researched : Factors!Until(traded[s], today) \subseteq Factors!Days /\ \A d \in Factors!Until(traded[s], today) : d <= today
    BY DEF ResearchInv, ResearchTyped, Factors!Until
  <2> QED BY <1>1, <1>2, <2>1 DEF ResearchInv, ResearchTyped, Series
<1>6. Series(known)' /\ benchmark' \subseteq Factors!Days
  BY <1>2 DEF ResearchInv, ResearchTyped, Series, Factors!Until
<1>7. ResearchTyped'
  BY <1>2, <1>4, <1>5, <1>6 DEF ResearchInv, ResearchTyped
<1>8. Frontier' /\ RowsRight'
  BY <1>2 DEF ResearchInv, Frontier, RowsRight, PointInTime
<1>9. LabelsRight'
  BY <1>2, <1>3, <1>4 DEF LabelsRight
<1> QED BY <1>2, <1>3, <1>7, <1>8, <1>9, NoResult DEF ResearchInv

LEMMA BuildKeeps ==
  ASSUME Factors!ResearchConstants, ResearchInv, Factors!BuildSnapshots
  PROVE  ResearchInv'
<1>1. /\ run.kind = "full" /\ run.at = "prices"
      /\ snapshots' = {Factors!Row(s, d, canonical, bars[s]) : s \in run.usable, d \in Factors!MonthlyDates}
      /\ run' = [run EXCEPT !.at = "snapshots"]
      /\ UNCHANGED <<today, index, traded, canonical, known, bars, benchmark, outcomes, config, result>>
  BY DEF Factors!BuildSnapshots
<1>2. result = None /\ DOMAIN outcomes = {}
  BY <1>1 DEF ResearchInv, LabelsRight
<1>3. run' \in [kind : {"none", "full", "cli"}, at : {"none", "prices", "snapshots", "outcomes", "validated", "failed"}, usable : SUBSET Researched]
      /\ run'.kind = "full" /\ run'.at = "snapshots" /\ run.usable \subseteq Researched
  BY <1>1 DEF ResearchInv, ResearchTyped
<1>4. Factors!MonthlyDates \subseteq Factors!Days /\ \A s \in Researched : Sessions(bars[s])
  BY DaySets DEF Factors!MonthlyDates, ResearchInv, ResearchTyped, Series
<1>5. RowsRight'
  BY <1>1, <1>3, <1>4, RowFacts DEF RowsRight
<1>6. ResearchTyped' /\ Frontier'
  BY <1>1, <1>3 DEF ResearchInv, ResearchTyped, Series, Frontier
<1>7. LabelsRight'
  BY <1>1, <1>2, <1>3 DEF LabelsRight
<1> QED BY <1>1, <1>2, <1>5, <1>6, <1>7, NoResult DEF ResearchInv

LEMMA CmdBuildKeeps ==
  ASSUME Factors!ResearchConstants, ResearchInv, Factors!CmdBuildSnapshots
  PROVE  ResearchInv'
<1>1. PICK dates \in SUBSET AskedDates :
        snapshots' = {Factors!Row(s, d, canonical, known[s]) : s \in Researched, d \in dates}
  BY DEF Factors!CmdBuildSnapshots
<1>2. /\ run' = [kind |-> "cli", at |-> "snapshots", usable |-> Researched]
      /\ outcomes' = <<>> /\ config' = None /\ result' = None
      /\ UNCHANGED <<today, index, traded, canonical, known, bars, benchmark>>
  BY DEF Factors!CmdBuildSnapshots
<1>3. run' \in [kind : {"none", "full", "cli"}, at : {"none", "prices", "snapshots", "outcomes", "validated", "failed"}, usable : SUBSET Researched]
      /\ run'.kind = "cli" /\ run'.at = "snapshots"
  BY <1>2
<1>4. dates \subseteq Factors!Days /\ \A s \in Researched : Sessions(known[s])
  BY DaySets DEF ResearchInv, ResearchTyped, Series, Factors!ResearchConstants
<1>5. RowsRight'
  BY <1>1, <1>4, RowFacts DEF RowsRight
<1>6. ResearchTyped' /\ Frontier'
  BY <1>2, <1>3 DEF ResearchInv, ResearchTyped, Series, Frontier
<1>7. LabelsRight'
  <2>1. DOMAIN outcomes' = {}
    BY <1>2
  <2> QED BY <1>3, <2>1 DEF LabelsRight
<1> QED BY <1>2, <1>5, <1>6, <1>7, NoResult DEF ResearchInv

LEMMA LabelFacts ==
  ASSUME NEW I, NEW S, NEW d, NEW h
  PROVE  LET l == Factors!Label(I, S, d, h) IN l.stock = Factors!StockLeg(S, d, h) /\ (l.excess => l.stock # None /\ l.bench # None)
<1> DEFINE stock == Factors!StockLeg(S, d, h)
           bench == Factors!IndexLeg(I, S, d, h)
           l == Factors!Label(I, S, d, h)
<1>1. l = [stock |-> stock, bench |-> bench, excess |-> stock # None /\ bench # None]
  BY DEF Factors!Label
<1> HIDE DEF stock, bench, l
<1>2. l.stock = stock /\ l.bench = bench
  BY <1>1
<1>3. l.excess <=> stock # None /\ bench # None
  BY <1>1
<1>4. l.stock = stock /\ (l.excess => l.stock # None /\ l.bench # None)
  BY <1>2, <1>3
<1> QED BY <1>4 DEF l, stock

LEMMA BuildOutcomesKeeps ==
  ASSUME Factors!ResearchConstants, ResearchInv, Factors!BuildOutcomes
  PROVE  ResearchInv'
<1> DEFINE series == IF run.kind = "full" THEN bars ELSE known
<1>1. /\ run.at \in {"snapshots", "outcomes"}
      /\ outcomes' = [k \in Keys |-> Factors!Label(benchmark, series[k[2]], k[1], k[3])]
      /\ run' = [run EXCEPT !.at = "outcomes"]
      /\ UNCHANGED <<today, index, traded, canonical, known, bars, benchmark, snapshots, config, result>>
  BY DEF Factors!BuildOutcomes, Keys
<1>2. result = None
  BY <1>1 DEF ResearchInv
<1>3. run' \in [kind : {"none", "full", "cli"}, at : {"none", "prices", "snapshots", "outcomes", "validated", "failed"}, usable : SUBSET Researched]
      /\ run'.kind = run.kind /\ run'.at = "outcomes"
  BY <1>1 DEF ResearchInv, ResearchTyped
<1>4. ResearchTyped' /\ Frontier' /\ RowsRight' /\ Keys' = Keys
  BY <1>1, <1>3 DEF ResearchInv, ResearchTyped, Series, Frontier, RowsRight, PointInTime, Keys
<1>5. /\ Series(series) /\ (run.kind = "cli" => series = known)
  BY DEF ResearchInv, ResearchTyped
<1> HIDE DEF series
<1>6. ASSUME NEW k \in Keys PROVE Labelled(k)'
  <2>1. k[1] \in Factors!Days /\ k[2] \in Researched /\ k[3] \in Horizons
    BY KeyFacts DEF ResearchInv
  <2>2. Sessions(series[k[2]]) /\ \A x \in series[k[2]] : x \in Int /\ x <= today
    BY <1>5, <2>1, DaySets DEF Series, Factors!Days
  <2>3. outcomes'[k] = Factors!Label(benchmark, series[k[2]], k[1], k[3])
    BY <1>1
  <2>4. /\ outcomes'[k].stock = Factors!StockLeg(series[k[2]], k[1], k[3])
        /\ outcomes'[k].excess => outcomes'[k].stock # None /\ outcomes'[k].bench # None
    BY <2>3, LabelFacts
  <2>5. outcomes'[k].stock # None => outcomes'[k].stock[2] \in Int /\ outcomes'[k].stock[2] <= today
    BY <2>1, <2>2, <2>4, LegFacts DEF Factors!Days
  <2>6. run'.kind = "cli" /\ outcomes'[k].stock # None => outcomes'[k].stock = Factors!StockLeg(known'[k[2]], k[1], k[3])
    BY <1>1, <1>3, <1>5, <2>4
  <2> QED BY <1>1, <2>4, <2>5, <2>6 DEF Labelled
<1>7. DOMAIN outcomes' = Keys
  BY <1>1
<1>8. LabelsRight'
  BY <1>3, <1>4, <1>6, <1>7 DEF LabelsRight
<1> QED BY <1>1, <1>2, <1>4, <1>8, NoResult DEF ResearchInv

LEMMA CutoffType ==
  ASSUME Factors!ResearchConstants, ResearchInv, NEW c \in Configs
  PROVE  Factors!ResearchCutoff(c) \in Int
<1>1. today \in Int
  BY DEF ResearchInv, ResearchTyped
<1>2. c.sealed_start \in Factors!Days \cup {None} /\ c.research_end \in Factors!Days \cup {None}
  BY DEF Factors!ResearchConstants
<1>3. Factors!Days \subseteq Int
  BY DEF Factors!Days
<1>4. CASE c.sealed_start # None
  <2>1. Factors!ResearchCutoff(c) = c.sealed_start - 1
    BY <1>4 DEF Factors!ResearchCutoff, Factors!Sealed
  <2>2. c.sealed_start \in Int
    BY <1>2, <1>3, <1>4
  <2> QED BY <2>1, <2>2
<1>5. CASE c.sealed_start = None
  <2>1. Factors!ResearchCutoff(c) = IF c.research_end # None THEN c.research_end ELSE today
    BY <1>5 DEF Factors!ResearchCutoff, Factors!Sealed
  <2> QED BY <1>1, <1>2, <1>3, <2>1
<1> QED BY <1>4, <1>5

LEMMA ValidateKeeps ==
  ASSUME Factors!ResearchConstants, ResearchInv, Factors!Validate
  PROVE  ResearchInv'
<1>1. /\ run.kind = "full" /\ run.at = "outcomes"
      /\ UNCHANGED <<today, index, traded, canonical, known, bars, benchmark, snapshots, outcomes, config>>
  BY DEF Factors!Validate
<1>2. run' \in [kind : {"none", "full", "cli"}, at : {"none", "prices", "snapshots", "outcomes", "validated", "failed"}, usable : SUBSET Researched]
      /\ run'.kind = run.kind /\ run'.at \in {"validated", "failed"}
  <2>1. run' = [run EXCEPT !.at = "validated"] \/ run' = [run EXCEPT !.at = "failed"]
    BY DEF Factors!Validate
  <2>2. CASE run' = [run EXCEPT !.at = "validated"]
    BY <2>2 DEF ResearchInv, ResearchTyped
  <2>3. CASE run' = [run EXCEPT !.at = "failed"]
    BY <2>3 DEF ResearchInv, ResearchTyped
  <2> QED BY <2>1, <2>2, <2>3
<1>3. ResearchTyped' /\ Frontier' /\ RowsRight' /\ Keys' = Keys
  BY <1>1, <1>2 DEF ResearchInv, ResearchTyped, Series, Frontier, RowsRight, PointInTime, Keys
<1>4. DOMAIN outcomes = Keys /\ (\A k \in Keys : Labelled(k)) /\ RowsRight /\ result = None
  BY <1>1 DEF ResearchInv, LabelsRight
<1>5. LabelsRight'
  BY <1>1, <1>2, <1>3, <1>4 DEF LabelsRight, Labelled
<1>6. config \in Configs /\ Factors!ResearchCutoff(config) \in Int
  BY <1>1, CutoffType DEF ResearchInv, ResearchTyped
<1>7. (result' # None => run'.at = "validated") /\ Factors!SealedKeptOut' /\ Factors!ValidatedOnEvidence'
  <2>1. CASE Factors!ValidConfig(config)
    <3>1. PICK factor \in Factors!Factors, h \in Horizons : \E flat \in Factors!FlatDates(factor, h, outcomes) :
            result' = Factors!Validation(config, factor, h, outcomes, flat)
      BY <2>1 DEF Factors!Validate
    <3>2. run'.at = "validated"
      <4>1. run' = [run EXCEPT !.at = "validated"]
        BY <2>1 DEF Factors!Validate
      <4> QED BY <4>1 DEF ResearchInv, ResearchTyped
    <3>3. Factors!SealedKeptOut' /\ Factors!ValidatedOnEvidence'
      <4>1. PICK flat : result' = Factors!Validation(config, factor, h, outcomes, flat)
        BY <3>1
      <4> QED BY <1>1, <1>4, <1>6, <2>1, <4>1, ValidationFacts
    <3> QED BY <3>2, <3>3
  <2>2. CASE ~Factors!ValidConfig(config)
    <3>1. result' = None
      BY <1>4, <2>2 DEF Factors!Validate
    <3> QED BY <3>1, NoResult
  <2> QED BY <2>1, <2>2
<1> QED BY <1>2, <1>3, <1>5, <1>7 DEF ResearchInv

LEMMA CmdValidateKeeps ==
  ASSUME Factors!ResearchConstants, ResearchInv, Factors!CmdValidate
  PROVE  ResearchInv'
<1>1. PICK h \in Horizons, kept \in [snapshots -> Horizons] :
        LET labels == [k \in DOMAIN outcomes |->
                         IF \E r \in snapshots : r.date = k[1] /\ r.symbol = k[2] /\ kept[r] = k[3] THEN outcomes[k]
                         ELSE [stock |-> None, bench |-> None, excess |-> FALSE]]
        IN  \E flat \in Factors!FlatDates("value_factor", h, labels) :
              result' = Factors!Validation(config', "value_factor", h, labels, flat)
  BY DEF Factors!CmdValidate
<1> DEFINE labels == [k \in DOMAIN outcomes |->
                        IF \E r \in snapshots : r.date = k[1] /\ r.symbol = k[2] /\ kept[r] = k[3] THEN outcomes[k]
                        ELSE [stock |-> None, bench |-> None, excess |-> FALSE]]
<1>2. /\ run.kind = "cli" /\ run.at = "outcomes" /\ run' = [run EXCEPT !.at = "validated"]
      /\ config' \in Configs /\ Factors!ValidConfig(config')
      /\ UNCHANGED <<today, index, traded, canonical, known, bars, benchmark, snapshots, outcomes>>
  BY DEF Factors!CmdValidate
<1>3. run' \in [kind : {"none", "full", "cli"}, at : {"none", "prices", "snapshots", "outcomes", "validated", "failed"}, usable : SUBSET Researched]
      /\ run'.kind = "cli" /\ run'.at = "validated"
  BY <1>2 DEF ResearchInv, ResearchTyped
<1>4. ResearchTyped' /\ Frontier' /\ RowsRight' /\ Keys' = Keys
  BY <1>2, <1>3 DEF ResearchInv, ResearchTyped, Series, Frontier, RowsRight, PointInTime, Keys
<1>5. DOMAIN outcomes = Keys /\ (\A k \in Keys : Labelled(k)) /\ RowsRight
  BY <1>2 DEF ResearchInv, LabelsRight
<1>6. LabelsRight'
  BY <1>2, <1>3, <1>4, <1>5 DEF LabelsRight, Labelled
<1>7. Factors!ResearchCutoff(config') \in Int
  BY <1>2, CutoffType
<1>8. \A k \in Keys : labels[k].excess => outcomes[k].excess
  BY <1>5
<1>9. PICK flat : result' = Factors!Validation(config', "value_factor", h, labels, flat)
  BY <1>1
<1> HIDE DEF labels
<1>10. PICK c \in Configs : c = config'
  BY <1>2
<1>11. Factors!SealedKeptOut' /\ Factors!ValidatedOnEvidence'
  <2>1. Factors!ValidConfig(c) /\ Factors!ResearchCutoff(c) \in Int /\ result' = Factors!Validation(c, "value_factor", h, labels, flat) /\ config' = c
    BY <1>2, <1>7, <1>9, <1>10
  <2> QED BY <1>2, <1>5, <1>8, <2>1, ValidationFacts
<1> QED BY <1>3, <1>4, <1>6, <1>11 DEF ResearchInv

LEMMA ResearchStep == Factors!ResearchConstants /\ ResearchInv /\ [Factors!Next]_(Factors!vars) => ResearchInv'
<1> SUFFICES ASSUME Factors!ResearchConstants, ResearchInv, [Factors!Next]_(Factors!vars) PROVE ResearchInv'
  OBVIOUS
<1>1. CASE Factors!Tick
  BY <1>1, TickKeeps
<1>2. CASE Factors!Crawl
  BY <1>2, CrawlKeeps DEF Factors!Crawl
<1>3. CASE Factors!ScreenerStores
  BY <1>3, StoreKeeps
<1>4. CASE Factors!FetchPrices
  BY <1>4, FetchPricesKeeps
<1>5. CASE Factors!BuildSnapshots
  BY <1>5, BuildKeeps
<1>6. CASE Factors!CmdBuildSnapshots
  BY <1>6, CmdBuildKeeps
<1>7. CASE Factors!BuildOutcomes
  BY <1>7, BuildOutcomesKeeps
<1>8. CASE Factors!Validate
  BY <1>8, ValidateKeeps
<1>9. CASE Factors!CmdValidate
  BY <1>9, CmdValidateKeeps
<1>10. CASE UNCHANGED Factors!vars
  BY <1>10, CrawlKeeps DEF Factors!vars
<1> QED BY <1>1, <1>2, <1>3, <1>4, <1>5, <1>6, <1>7, <1>8, <1>9, <1>10 DEF Factors!Next

(* Building the outcomes of a run again resolves what was open, and leaves  *)
(* what was resolved                                                        *)
LEMMA BuiltAgain ==
  ASSUME Factors!ResearchConstants, ResearchInv, [Factors!Next]_(Factors!vars)
  PROVE  Factors!LabelsKept
<1> SUFFICES ASSUME run'.kind = run.kind, run.kind = "cli", snapshots' = snapshots,
                    NEW k \in DOMAIN outcomes, outcomes[k].stock # None
             PROVE  outcomes'[k].stock = outcomes[k].stock
  BY DEF Factors!LabelsKept
<1>1. CASE Factors!BuildOutcomes
  <2>1. outcomes' = [j \in Keys |-> Factors!Label(benchmark, known[j[2]], j[1], j[3])]
    BY <1>1 DEF Factors!BuildOutcomes, Keys
  <2>2. k \in Keys /\ Labelled(k)
    BY DEF ResearchInv, LabelsRight
  <2>3. outcomes'[k].stock = Factors!StockLeg(known[k[2]], k[1], k[3])
    BY <2>1, <2>2 DEF Factors!Label
  <2> QED BY <2>2, <2>3 DEF Labelled
<1>2. CASE outcomes' = outcomes
  BY <1>2
<1> QED BY <1>1, <1>2 DEF Factors!Next, Factors!vars, Factors!Tick, Factors!Crawl, Factors!ScreenerStores, Factors!FetchPrices, Factors!BuildSnapshots, Factors!CmdBuildSnapshots, Factors!Validate, Factors!CmdValidate

LEMMA ResearchSafe == ResearchInv => Factors!NothingFromTheFuture /\ Factors!SealedKeptOut /\ Factors!ValidatedOnEvidence
BY DEF ResearchInv, RowsRight, PointInTime, Factors!NothingFromTheFuture

(***************************************************************************)
(* The parts together                                                      *)
(***************************************************************************)
(* A step of the market is a step of each part, or leaves it as it was *)
LEMMA Frames ==
  ASSUME [MarketNext]_everything
  PROVE  /\ [Next]_vars /\ [Allocate!Next]_(Allocate!vars)
         /\ [Screen!Next]_(Screen!vars) /\ [Factors!Next]_(Factors!vars)
<1>1. \/ Next /\ UNCHANGED <<allocation, screener, research>>
      \/ Allocate!Next /\ UNCHANGED <<vars, screener, research>>
      \/ Screen!Next /\ UNCHANGED <<vars, allocation, research>>
      \/ Factors!Next /\ UNCHANGED <<vars, allocation, screener>>
      \/ UNCHANGED <<vars, allocation, screener, research>>
  BY DEF MarketNext, Value, Advise, List, Study, everything
<1>2. /\ UNCHANGED allocation => UNCHANGED Allocate!vars
      /\ UNCHANGED screener => UNCHANGED Screen!vars
      /\ UNCHANGED research => UNCHANGED Factors!vars
  BY DEF allocation, screener, research, Allocate!vars, Screen!vars, Factors!vars
<1> QED BY <1>1, <1>2

(* The invariant of an evaluation holds whatever the other parts do *)
LEMMA PublicationHolds == MarketSpec => []PublicationInv
<1>1. MarketInit => PublicationInv
  BY PublicationStart DEF MarketInit
<1>2. PublicationInv /\ [MarketNext]_everything => PublicationInv'
  BY Frames, PublicationStep
<1> QED BY <1>1, <1>2, PTL DEF MarketSpec

(* For any company, what is published is sound and a pill that says to buy  *)
(* stands on a value (engine.py)                                             *)
THEOREM Publication == MarketSpec => []AdviceIsSound
<1>1. PublicationInv => AdviceIsSound
  BY DEF PublicationInv, AdviceIsSound
<1> QED BY <1>1, PublicationHolds, PTL

(* For any company, a public value shows the margin of safety of the        *)
(* confidence it publishes, although the gates lower the confidence after   *)
(* the margin was charged (engine.py)                                        *)
THEOREM ConfidencePaid == MarketSpec => []ConfidenceCharged
<1>1. PublicationInv => ConfidenceCharged
  BY DEF PublicationInv, ConfidenceCharged
<1> QED BY <1>1, PublicationHolds, PTL

(* For any holdings, universes, changes and risk evidence, no share moves   *)
(* on missing, rejected or insufficient evidence (allocation/service.py)     *)
THEOREM EvidenceFirst == MarketSpec => []EvidenceBeforeAction
<1>1. MarketInit => AllocationInv
  BY AllocationStart DEF MarketInit
<1>2. AllocationInv /\ [MarketNext]_everything => AllocationInv'
  BY Frames, AllocationStep, AllocationFits
<1>3. AllocationInv => EvidenceBeforeAction
  BY DEF AllocationInv, EvidenceBeforeAction
<1> QED BY <1>1, <1>2, <1>3, PTL DEF MarketSpec

(* For any holdings, changes, universes and risk evidence: the money of a    *)
(* report is all there, whatever was simulated; a planned purchase is in     *)
(* whole lots, is paid by the cash with its costs and stays under the cap;   *)
(* a planned reduction sells something and leaves something                  *)
(* (allocation/execution_planner.py, service.py)                             *)
THEOREM PlansCanBeCarriedOut == MarketSpec => []PlansFeasible
<1>1. MarketInit => AllocationInv /\ PlansInv
  BY AllocationStart, PlansStart DEF MarketInit
<1>2. AllocationInv /\ PlansInv /\ [MarketNext]_everything => (AllocationInv /\ PlansInv)'
  <2> SUFFICES ASSUME AllocationInv, PlansInv, [MarketNext]_everything PROVE AllocationInv' /\ PlansInv'
    OBVIOUS
  <2>1. [Allocate!Next]_(Allocate!vars)
    BY Frames
  <2> QED BY <2>1, AllocationStep, PlansStep, AllocationFits
<1> QED BY <1>1, <1>2, PlansHold, PTL DEF MarketSpec

LEMMA ScreenHoldsAlways == MarketSpec => []ScreenInv
<1>1. MarketInit => ScreenInv
  BY ScreenStart, ScreenFits DEF MarketInit
<1>2. ScreenInv /\ [MarketNext]_everything => ScreenInv'
  BY Frames, ScreenStep, ScreenFits
<1> QED BY <1>1, <1>2, PTL DEF MarketSpec

(* For any listings, values, prices and number of requests: however their    *)
(* steps interleave, the margin and the standing of an item are those of the *)
(* price it shows, to the rounding of the code, unless a request began to    *)
(* write it while another was half-way and nobody has since; and as long as  *)
(* requests come one after another, an answered price is recent (screener.py) *)
THEOREM ItemsMeanTheirPrice == MarketSpec => []ListInv
<1>1. ScreenInv => ListInv
  BY ScreenHolds DEF ListInv
<1> QED BY <1>1, ScreenHoldsAlways, PTL

(* However many requests find the list stale at once, one of them computes  *)
(* it and the others use what it computed (screener.py)                      *)
THEOREM ListComputedOnce == MarketSpec => ComputedOncePerPeriod
<1>1. ScreenInv /\ [MarketNext]_everything => [Screen!ComputedWhenDue]_everything
  <2> SUFFICES ASSUME ScreenInv, [MarketNext]_everything PROVE Screen!ComputedWhenDue
    OBVIOUS
  <2> QED BY Frames, ComputedFacts, ScreenFits DEF ScreenInv
<1> QED BY <1>1, ScreenHoldsAlways, PTL DEF MarketSpec, ComputedOncePerPeriod

LEMMA ResearchHolds == MarketSpec => []ResearchInv
<1>1. MarketInit => ResearchInv
  BY ResearchStart, ResearchFits DEF MarketInit
<1>2. ResearchInv /\ [MarketNext]_everything => ResearchInv'
  BY Frames, ResearchStep, ResearchFits
<1> QED BY <1>1, <1>2, PTL DEF MarketSpec

(* For any listings, filings, prices and configurations: a snapshot is made  *)
(* of what was there on its date, however late it is built, the walk-forward *)
(* windows neither overlap nor leave a gap before the sealed period, and no  *)
(* row of that period is tuned on (pit.py, walk_forward.py)                  *)
THEOREM ResearchLooksBack == MarketSpec => []NoLookAhead
<1>1. ResearchInv => NoLookAhead
  BY ResearchSafe DEF NoLookAhead
<1> QED BY <1>1, ResearchHolds, PTL

(* A factor is called VALIDATED on enough dates, in a window and in the      *)
(* sealed period, each with enough listings whose returns had been made      *)
(* (validation.py)                                                           *)
THEOREM ValidationIsEarned == MarketSpec => []ValidatedOnEvidence
<1>1. ResearchInv => ValidatedOnEvidence
  BY ResearchSafe DEF ValidatedOnEvidence
<1> QED BY <1>1, ResearchHolds, PTL

(* Whatever prices are stored in between, building the outcomes of a run     *)
(* again leaves the returns that were resolved (outcomes.py)                 *)
THEOREM ReturnsStayResolved == MarketSpec => ResolvedLabelsStay
<1>1. ResearchInv /\ [MarketNext]_everything => [Factors!LabelsKept]_everything
  <2> SUFFICES ASSUME ResearchInv, [MarketNext]_everything PROVE Factors!LabelsKept
    OBVIOUS
  <2> QED BY Frames, BuiltAgain, ResearchFits
<1> QED BY <1>1, ResearchHolds, PTL DEF MarketSpec, ResolvedLabelsStay

(***************************************************************************)
(* An evaluation: its points, its regimes and its cycle                    *)
(***************************************************************************)
(* The least of natural numbers is one of them *)
LEMMA LeastIsOne ==
  ASSUME NEW S \in SUBSET Nat, S # {}
  PROVE  Min(S) \in S
<1>1. PICK k \in S : \A j \in S : k <= j
  BY LeastElement
<1> QED BY <1>1 DEF Min

LEMMA GreaterIsOne ==
  ASSUME NEW a \in Int, NEW b \in Int
  PROVE  Max({a, b}) \in {a, b} /\ Max({a, b}) >= a /\ Max({a, b}) >= b
<1>1. \E x \in {a, b} : \A y \in {a, b} : x >= y
  <2>1. CASE a >= b
    BY <2>1
  <2>2. CASE b >= a
    BY <2>2
  <2> QED BY <2>1, <2>2
<1>2. Max({a, b}) \in {a, b} /\ \A y \in {a, b} : Max({a, b}) >= y
  BY <1>1 DEF Max
<1> QED BY <1>2

(* The points of a step are among those of its table *)
LEMMA StepsAmong ==
  ASSUME NEW v, NEW steps, NEW otherwise, NEW R, DOMAIN steps \in SUBSET Nat,
         \A i \in DOMAIN steps : steps[i][2] \in R, otherwise \in R
  PROVE  Steps(v, steps, otherwise) \in R
<1> DEFINE reached == {i \in DOMAIN steps : v >= steps[i][1]}
<1>1. reached # {} => Min(reached) \in reached
  <2>1. reached \in SUBSET Nat
    OBVIOUS
  <2> HIDE DEF reached
  <2> QED BY <2>1, LeastIsOne
<1> QED BY <1>1 DEF Steps

LEMMA TwoSteps ==
  ASSUME NEW v, NEW a, NEW b, NEW x, NEW y, NEW z
  PROVE  Steps(v, <<<<a, x>>, <<b, y>>>>, z) \in {x, y, z}
<1> DEFINE steps == <<<<a, x>>, <<b, y>>>>
           R == {x, y, z}
<1>1. DOMAIN steps = 1 .. 2 /\ steps[1][2] = x /\ steps[2][2] = y
  OBVIOUS
<1>a. x \in R /\ y \in R /\ z \in R
  OBVIOUS
<1> HIDE DEF steps, R
<1>2. DOMAIN steps \in SUBSET Nat /\ \A i \in DOMAIN steps : steps[i][2] \in R
  BY <1>1, <1>a
<1>3. Steps(v, steps, z) \in R
  BY <1>2, <1>a, StepsAmong
<1> QED BY <1>3 DEF steps, R

LEMMA ThreeSteps ==
  ASSUME NEW v, NEW a, NEW b, NEW c, NEW x, NEW y, NEW w, NEW z
  PROVE  Steps(v, <<<<a, x>>, <<b, y>>, <<c, w>>>>, z) \in {x, y, w, z}
<1> DEFINE steps == <<<<a, x>>, <<b, y>>, <<c, w>>>>
           R == {x, y, w, z}
<1>1. DOMAIN steps = 1 .. 3 /\ steps[1][2] = x /\ steps[2][2] = y /\ steps[3][2] = w
  OBVIOUS
<1>a. x \in R /\ y \in R /\ w \in R /\ z \in R
  OBVIOUS
<1> HIDE DEF steps, R
<1>2. DOMAIN steps \in SUBSET Nat /\ \A i \in DOMAIN steps : steps[i][2] \in R
  BY <1>1, <1>a
<1>3. Steps(v, steps, z) \in R
  BY <1>2, <1>a, StepsAmong
<1> QED BY <1>3 DEF steps, R

LEMMA FourSteps ==
  ASSUME NEW v, NEW a, NEW b, NEW c, NEW d, NEW x, NEW y, NEW w, NEW u, NEW z
  PROVE  Steps(v, <<<<a, x>>, <<b, y>>, <<c, w>>, <<d, u>>>>, z) \in {x, y, w, u, z}
<1> DEFINE steps == <<<<a, x>>, <<b, y>>, <<c, w>>, <<d, u>>>>
           R == {x, y, w, u, z}
<1>1. DOMAIN steps = 1 .. 4 /\ steps[1][2] = x /\ steps[2][2] = y /\ steps[3][2] = w /\ steps[4][2] = u
  OBVIOUS
<1>a. x \in R /\ y \in R /\ w \in R /\ u \in R /\ z \in R
  OBVIOUS
<1> HIDE DEF steps, R
<1>2. DOMAIN steps \in SUBSET Nat /\ \A i \in DOMAIN steps : steps[i][2] \in R
  BY <1>1, <1>a
<1>3. Steps(v, steps, z) \in R
  BY <1>2, <1>a, StepsAmong
<1> QED BY <1>3 DEF steps, R

LEMMA MoatPoints == ASSUME NEW h, NEW conversion PROVE Moat(h, conversion) \in 0 .. 20
<1> DEFINE m == Margins(h)
           returns == Facts(h, "roe")
           revenue == Facts(h, "revenue")
<1>1. PricingPower(m) \in 0 .. 4
  <2> DEFINE s == Steps(Level(m), <<<<120, 4>>, <<80, 3>>, <<40, 2>>>>, 1)
             t == IF SteadierThan(m, 45) THEN 0 ELSE 1
  <2>1. s \in 1 .. 4 /\ t \in 0 .. 1
    <3>1. s \in {4, 3, 2, 1}
      BY ThreeSteps
    <3> QED BY <3>1
  <2> HIDE DEF s, t
  <2>2. Max({0, s - t}) \in {0, s - t} /\ s - t \in 0 .. 4
    BY <2>1, GreaterIsOne
  <2> QED BY <2>2 DEF PricingPower, s, t
<1>2. CostAdvantage(m, conversion) \in 0 .. 4
  <2> DEFINE s == Steps(Level(m), <<<<120, 3>>, <<70, 2>>>>, 1)
             t == IF Known(conversion) /\ conversion >= 850 THEN 1 ELSE 0
  <2>1. s \in 1 .. 3 /\ t \in 0 .. 1
    <3>1. s \in {3, 2, 1}
      BY TwoSteps
    <3> QED BY <3>1
  <2> HIDE DEF s, t
  <2>2. {4, s + t} \in SUBSET Nat /\ s + t \in 0 .. 4
    BY <2>1
  <2>3. Min({4, s + t}) \in {4, s + t}
    BY <2>2, LeastIsOne
  <2> QED BY <2>2, <2>3 DEF CostAdvantage, s, t
<1>3. SwitchingCost(m) \in 0 .. 4
  BY DEF SwitchingCost
<1>4. ReturnPersistence(returns) \in 0 .. 4
  <2>1. Steps(Level(returns), <<<<150, 3>>, <<100, 2>>>>, 1) \in {3, 2, 1}
    BY TwoSteps
  <2> QED BY <2>1 DEF ReturnPersistence
<1>5. Durability(h) \in 0 .. 4
  <2>1. Steps(Len(h), <<<<7, 3>>, <<5, 2>>, <<3, 1>>>>, 0) \in {3, 2, 1, 0}
    BY ThreeSteps
  <2> QED BY <2>1 DEF Durability
<1> DEFINE margins == IF Len(m) < 3 THEN 0 ELSE PricingPower(m) + CostAdvantage(m, conversion) + SwitchingCost(m)
           scale == IF Len(revenue) < 3 THEN 0
                    ELSE Steps(Level(revenue), <<<<30000, 4>>, <<10000, 3>>, <<3000, 2>>, <<1000, 1>>>>, 0)
           persistence == IF Len(returns) < 4 THEN 0 ELSE ReturnPersistence(returns)
           raw == margins + scale + persistence + Durability(h)
           points == IF raw \in {3, 15} THEN (5 * raw) \div 6 ELSE (5 * raw + 3) \div 6
           cap == IF Len(m) < 3 \/ Len(returns) < 4 THEN 11 ELSE 20
<1>6. margins \in 0 .. 12
  BY <1>1, <1>2, <1>3
<1>7. scale \in 0 .. 4
  <2>1. Steps(Level(revenue), <<<<30000, 4>>, <<10000, 3>>, <<3000, 2>>, <<1000, 1>>>>, 0) \in {4, 3, 2, 1, 0}
    BY FourSteps
  <2> QED BY <2>1
<1>8. persistence \in 0 .. 4
  BY <1>4
<1>9. Moat(h, conversion) = Min({20, points, cap})
  BY DEF Moat
<1>a. cap \in {11, 20}
  OBVIOUS
<1> HIDE DEF margins, scale, persistence, cap
<1>10. raw \in 0 .. 24
  BY <1>5, <1>6, <1>7, <1>8
<1> HIDE DEF raw
<1>11. points \in 0 .. 20
  BY <1>10
<1> HIDE DEF points
<1>12. {20, points, cap} \in SUBSET Nat /\ {20, points, cap} # {}
  BY <1>a, <1>11
<1>13. Min({20, points, cap}) \in {20, points, cap}
  BY <1>12, LeastIsOne
<1> QED BY <1>9, <1>a, <1>11, <1>13

LEMMA CapitalPoints ==
  ASSUME NEW p, NEW h, NEW roe, NEW dilution
  PROVE  CapitalAllocation(p, h, roe, dilution) \in 0 .. 15
<1> DEFINE d == Zero(dilution.confirmed)
           returns == IncrementalReturns(h)
           median == Median(returns)
           cumulative == IF Len(h) >= 4 THEN CumulativeReturn(h) ELSE None
           diluted(limit) == d >= limit
           byMedian == Steps(median, <<<<50, 10>>, <<0, 7>>>>, 4)
           byShares == Steps(-d, <<<<-19, 12>>, <<-79, 9>>, <<-199, 5>>>>, 2)
           points ==
             IF Len(h) >= 4 /\ returns = <<>> THEN 8
             ELSE IF Len(h) >= 4 /\ Known(cumulative) /\ cumulative < -50 THEN 4
             ELSE IF Len(h) >= 4 /\ median < -50 THEN 5
             ELSE IF Len(h) >= 4 /\ (median >= 150 \/ (Known(cumulative) /\ cumulative >= 150)) /\ ~diluted(25) THEN
                  IF p.archetype \in {"CONGLOMERATE", "RUBBER_PLANTATION", "HOLDING_COMPANY"} THEN 12 ELSE 15
             ELSE IF Len(h) >= 4 /\ (median >= 100 \/ (Known(roe) /\ roe >= 140 /\ ~diluted(30))) THEN 13
             ELSE IF Len(h) >= 4 THEN byMedian
             ELSE IF dilution.class \notin {"UNEXPLAINED_SHARE_CHANGE", "NON_ECONOMIC_SHARE_CHANGE"} THEN byShares
             ELSE 8
           cap == IF dilution.class = "UNEXPLAINED_SHARE_CHANGE" THEN 10 ELSE 15
<1>1. byMedian \in {10, 7, 4}
  BY TwoSteps
<1>2. byShares \in {12, 9, 5, 2}
  BY ThreeSteps
<1>3. CapitalAllocation(p, h, roe, dilution) = Min({points, cap})
  BY DEF CapitalAllocation
<1> HIDE DEF byMedian, byShares, cumulative, median, returns, d
<1>4. points \in 0 .. 15 /\ cap \in {10, 15}
  BY <1>1, <1>2
<1> HIDE DEF points, cap
<1>5. {points, cap} \in SUBSET Nat /\ {points, cap} # {}
  BY <1>4
<1>6. Min({points, cap}) \in {points, cap}
  BY <1>5, LeastIsOne
<1> QED BY <1>3, <1>4, <1>6

(* No business has more than a hundred points *)
LEMMA PointsInRange ==
  ASSUME NEW p, NEW h, NEW roe, NEW conversion, NEW netDebt, NEW cashFlow, NEW dilution
  PROVE  Scorecard(p, h, roe, conversion, netDebt, cashFlow, dilution).total \in 0 .. 100
<1>1. Predictability(p) \in 0 .. 10
  BY DEF Predictability
<1>2. ReturnEconomics(roe) \in 0 .. 20
  <2>1. Steps(roe, <<<<200, 20>>, <<150, 16>>, <<100, 10>>>>, 4) \in {20, 16, 10, 4}
    BY ThreeSteps
  <2> QED BY <2>1 DEF ReturnEconomics
<1>3. FinancialStrength(p, netDebt, cashFlow) \in 0 .. 15
  BY DEF FinancialStrength
<1>4. CashQuality(p, h, conversion) \in 0 .. 10
  BY DEF CashQuality
<1>5. Moat(h, conversion) \in 0 .. 20 /\ CapitalAllocation(p, h, roe, dilution) \in 0 .. 15
  BY MoatPoints, CapitalPoints
<1> QED BY <1>1, <1>2, <1>3, <1>4, <1>5 DEF Scorecard

(* What of a set of numbers comes before one of them *)
Before(S, x) == {y \in S : y < x}

LEMMA FewerBefore ==
  ASSUME NEW S, Sessions(S), NEW x \in S
  PROVE  /\ Sessions(Before(S, x)) /\ Cardinality(Before(S, x)) \in Nat
         /\ Cardinality(Before(S, x)) = Cardinality(Factors!Until(S, x)) - 1
         /\ Cardinality(Before(S, x)) < Cardinality(S)
         /\ \A y \in S : x < y => Cardinality(Before(S, x)) < Cardinality(Before(S, y))
<1>1. Before(S, x) \in SUBSET S /\ x \notin Before(S, x) /\ \A y \in S : y \in Int
  BY DEF Before, Sessions
<1>2. Sessions(Before(S, x)) /\ Cardinality(Before(S, x)) \in Nat /\ Cardinality(Before(S, x)) < Cardinality(S)
  BY <1>1, PartOfSessions, SameCount
<1>3. Cardinality(Before(S, x)) = Cardinality(Factors!Until(S, x)) - 1
  <2>1. Before(S, x) = Factors!Until(S, x) \ {x} /\ x \in Factors!Until(S, x)
    BY <1>1 DEF Before, Factors!Until
  <2>2. IsFiniteSet(Factors!Until(S, x))
    BY SessionSets, SameCount DEF Sessions
  <2> QED BY <2>1, <2>2, FS_RemoveElement
<1>4. ASSUME NEW y \in S, x < y PROVE Cardinality(Before(S, x)) < Cardinality(Before(S, y))
  <2>1. Before(S, y) \in SUBSET S /\ x \in Before(S, y)
    BY <1>4 DEF Before
  <2>2. \A z \in S : z < x => z < y
    BY <1>1, <1>4
  <2>3. Before(S, x) \in SUBSET Before(S, y) /\ Before(S, x) # Before(S, y)
    BY <1>1, <2>1, <2>2 DEF Before
  <2>4. Sessions(Before(S, y))
    BY <2>1, PartOfSessions
  <2> QED BY <2>3, <2>4, PartOfSessions, SameCount
<1> QED BY <1>2, <1>3, <1>4

(* Numbers in their order: each is there once, and they ascend *)
LEMMA AscendingFacts ==
  ASSUME NEW S, Sessions(S)
  PROVE  /\ Cardinality(S) \in Nat /\ Ascending(S) \in [1 .. Cardinality(S) -> S]
         /\ \A i, j \in 1 .. Cardinality(S) : i < j => Ascending(S)[i] < Ascending(S)[j]
         /\ \A x \in S : \E i \in 1 .. Cardinality(S) : Ascending(S)[i] = x
<1> DEFINE N == Cardinality(S)
           a == Ascending(S)
<1>1. N \in Nat
  BY SessionCount, SameCount
<1>2. a = [i \in 1 .. N |-> CHOOSE x \in S : Cardinality(Before(S, x)) = i - 1]
  BY DEF Ascending, Before
<1>3. ASSUME NEW i \in 1 .. N PROVE \E x \in S : Cardinality(Before(S, x)) = i - 1
  <2>1. i \in Nat /\ i > 0 /\ i <= Factors!Cardinality(S)
    BY <1>1, SameCount
  <2>2. PICK x \in S : Factors!Cardinality(Factors!Until(S, x)) = i
    BY <2>1, RankFromFirst
  <2> QED BY <2>2, FewerBefore, SameCount
<1> HIDE DEF N, a
<1>4. \A i \in 1 .. N : a[i] \in S /\ Cardinality(Before(S, a[i])) = i - 1
  BY <1>2, <1>3
<1>5. a \in [1 .. N -> S]
  BY <1>2, <1>4
<1>6. ASSUME NEW x \in S, NEW y \in S, Cardinality(Before(S, x)) <= Cardinality(Before(S, y)) PROVE x <= y
  <2>1. x \in Int /\ y \in Int
    BY DEF Sessions
  <2>2. CASE y < x
    <3>1. Cardinality(Before(S, y)) < Cardinality(Before(S, x))
      BY <2>2, FewerBefore
    <3> QED BY <1>6, <3>1, FewerBefore
  <2> QED BY <2>1, <2>2
<1>7. ASSUME NEW i \in 1 .. N, NEW j \in 1 .. N, i < j PROVE a[i] < a[j]
  <2>0. Cardinality(Before(S, a[i])) <= Cardinality(Before(S, a[j]))
    <3>1. i - 1 <= j - 1
      BY <1>1, <1>7
    <3> QED BY <1>4, <3>1
  <2>1. a[i] <= a[j] /\ a[i] \in Int /\ a[j] \in Int
    BY <1>4, <1>6, <2>0 DEF Sessions
  <2>2. a[i] # a[j]
    BY <1>4, <1>7
  <2> QED BY <2>1, <2>2
<1>8. ASSUME NEW x \in S PROVE \E i \in 1 .. N : a[i] = x
  <2> DEFINE n == Cardinality(Before(S, x))
  <2>1. n \in Nat /\ n < N
    BY FewerBefore DEF N
  <2>2. n + 1 \in 1 .. N /\ (n + 1) - 1 = n
    BY <1>1, <2>1
  <2>3. a[n + 1] \in S /\ Cardinality(Before(S, a[n + 1])) = n
    BY <1>4, <2>2
  <2>a. Cardinality(Before(S, a[n + 1])) <= Cardinality(Before(S, x)) /\ Cardinality(Before(S, x)) <= Cardinality(Before(S, a[n + 1]))
    BY <2>1, <2>3
  <2> HIDE DEF n
  <2>4. a[n + 1] <= x /\ x <= a[n + 1] /\ a[n + 1] \in Int /\ x \in Int
    BY <1>6, <2>3, <2>a DEF Sessions
  <2> QED BY <2>2, <2>4
<1> QED BY <1>1, <1>5, <1>7, <1>8 DEF N, a

LEMMA YearsAscend ==
  ASSUME NEW c, InOrder(c)
  PROVE  /\ Len(c.history) \in Nat /\ DOMAIN c.history = 1 .. Len(c.history)
         /\ \A i, j \in 1 .. Len(c.history) : i < j => c.history[i].year < c.history[j].year
<1> DEFINE h == c.history
           N == Len(h)
<1>1. N \in Nat /\ DOMAIN h = 1 .. N
  BY DEF InOrder
<1>2. /\ \A i \in 1 .. N : h[i].year \in Int
      /\ \A i \in 2 .. N : h[i - 1].year < h[i].year
  BY <1>1 DEF InOrder
<1> HIDE DEF h, N
<1> SUFFICES ASSUME NEW i \in 1 .. N PROVE \A j \in 1 .. N : i < j => h[i].year < h[j].year
  BY <1>1 DEF h, N
<1> DEFINE K == {j \in 1 .. N : i < j /\ ~(h[i].year < h[j].year)}
<1>3. ASSUME K # {} PROVE FALSE
  <2>1. K \in SUBSET Nat
    BY <1>1
  <2>2. PICK j \in K : \A k \in K : j <= k
    <3> HIDE DEF K
    <3> QED BY <1>3, <2>1, LeastElement
  <2>3. j \in 2 .. N /\ j - 1 \in 1 .. N /\ i <= j - 1 /\ h[j - 1].year < h[j].year
    BY <1>1, <1>2
  <2>4. j - 1 \notin K
    BY <2>2, <2>3
  <2>5. i = j - 1 \/ h[i].year < h[j - 1].year
    BY <1>1, <2>3, <2>4
  <2>6. h[i].year \in Int /\ h[j].year \in Int /\ h[j - 1].year \in Int
    BY <1>2, <2>3
  <2> QED BY <2>3, <2>5, <2>6
<1> QED BY <1>3

(* The regimes of a history in order: from its first year to its last, one  *)
(* after another without a gap, the last of them up to the year that is      *)
(* valued                                                                    *)
LEMMA RegimesFacts ==
  ASSUME NEW c, InOrder(c), Len(c.history) >= 2
  PROVE  RegimesCover(c.history, Regimes(c.history)) /\ c.year \in LatestYears(Regimes(c.history))
<1> DEFINE h == c.history
           B == StructuralBreaks(h)
           S == {h[1].year} \union {h[i].year : i \in B}
           N == Cardinality(S)
           a == Ascending(S)
           regimes == Between(h, a)
           L == Len(h)
<1>1. L \in Nat /\ L >= 2 /\ DOMAIN h = 1 .. L
  BY YearsAscend
<1>2. /\ \A i \in 1 .. L : h[i].year \in Int
      /\ \A i \in 1 .. L : h[1].year <= h[i].year /\ h[i].year <= h[L].year
      /\ h[L].year = c.year
  <2>1. \A i \in 1 .. L : h[i].year \in Int
    BY <1>1 DEF InOrder
  <2>2. h[L].year = c.year
    BY <1>1 DEF InOrder, Last
  <2>3. \A i, j \in 1 .. L : i < j => h[i].year < h[j].year
    BY YearsAscend
  <2> HIDE DEF h, L
  <2>4. ASSUME NEW i \in 1 .. L PROVE h[1].year <= h[i].year /\ h[i].year <= h[L].year
    <3>1. 1 \in 1 .. L /\ L \in 1 .. L /\ (i = 1 \/ 1 < i) /\ (i = L \/ i < L)
      BY <1>1
    <3>2. h[1].year \in Int /\ h[i].year \in Int /\ h[L].year \in Int
      BY <2>1, <3>1
    <3> QED BY <2>3, <3>1, <3>2
  <2> QED BY <2>1, <2>2, <2>4
<1>3. B \in SUBSET (2 .. L)
  BY DEF StructuralBreaks
<1> HIDE DEF h, B, L
<1>4. Sessions(S) /\ \A x \in S : h[1].year <= x /\ x <= h[L].year
  <2>1. S \in SUBSET Int /\ \A x \in S : h[1].year <= x /\ x <= h[L].year
    <3>1. 1 \in 1 .. L /\ \A i \in B : i \in 1 .. L
      BY <1>1, <1>3
    <3>2. ASSUME NEW x \in S PROVE \E i \in 1 .. L : x = h[i].year
      BY <3>1
    <3> HIDE DEF S
    <3>3. ASSUME NEW x \in S PROVE x \in Int /\ h[1].year <= x /\ x <= h[L].year
      <4>1. PICK i \in 1 .. L : x = h[i].year
        BY <3>2
      <4> QED BY <1>2, <4>1
    <3> QED BY <3>3
  <2>2. IsFiniteSet(B)
    <3>1. IsFiniteSet(2 .. L)
      BY <1>1, FS_Interval
    <3> QED BY <1>3, <3>1, FS_Subset
  <2>3. IsFiniteSet({h[i].year : i \in B})
    <3> DEFINE T == {h[i].year : i \in B}
               f == [i \in B |-> h[i].year]
    <3>1. f \in Surjection(B, T)
      BY DEF Surjection
    <3> HIDE DEF f, T
    <3>2. IsFiniteSet(T)
      BY <2>2, <3>1, FS_Surjection
    <3> QED BY <3>2 DEF T
  <2>4. IsFiniteSet(S)
    BY <2>3, FS_Singleton, FS_Union
  <2> QED BY <2>1, <2>4, SameCount DEF Sessions
<1>5. h[1].year \in S
  OBVIOUS
<1>6. Regimes(h) = regimes
  BY DEF Regimes, B
<1> HIDE DEF S
<1>7. /\ N \in Nat /\ a \in [1 .. N -> S]
      /\ \A i, j \in 1 .. N : i < j => a[i] < a[j]
      /\ \A x \in S : \E i \in 1 .. N : a[i] = x
  BY <1>4, AscendingFacts
<1> HIDE DEF N, a
<1>8. N >= 1 /\ a[1] = h[1].year
  <2>1. PICK i \in 1 .. N : a[i] = h[1].year
    BY <1>5, <1>7
  <2>2. 1 \in 1 .. N /\ a[1] \in S /\ N >= 1
    BY <1>7
  <2>3. i = 1 \/ a[1] < a[i]
    BY <1>7, <2>2
  <2>4. a[1] \in Int /\ a[i] \in Int /\ h[1].year <= a[1]
    BY <1>4, <2>2, <1>7 DEF Sessions
  <2> QED BY <2>1, <2>2, <2>3, <2>4
<1> DEFINE confidence_(n) == IF n = Len(a) THEN None ELSE BreakConfidence(h, CHOOSE i \in DOMAIN h : h[i].year = a[n + 1])
           until(n) == IF n = N THEN h[L].year ELSE a[n + 1] - 1
           R == {regimes[n] : n \in 1 .. N}
<1>9. a \in Seq(S) /\ Len(a) = N /\ DOMAIN a = 1 .. N
  BY <1>7
<1>10. DOMAIN regimes = 1 .. N /\ \A n \in 1 .. N : regimes[n].first = a[n] /\ regimes[n].last = until(n)
  BY <1>9 DEF Between, L
<1>11. regimes \in Seq(R) /\ Len(regimes) = N
  <2>1. regimes \in [1 .. N -> R]
    <3>1. regimes = [n \in DOMAIN a |-> regimes[n]]
      BY DEF Between
    <3> HIDE DEF regimes
    <3> QED BY <1>9, <3>1
  <2> HIDE DEF regimes, R
  <2> QED BY <1>7, <2>1
<1> HIDE DEF regimes, R
<1>12. 1 \in 1 .. N /\ N \in 1 .. N /\ until(N) = h[L].year
  BY <1>7, <1>8
<1>13. regimes[1].first = h[1].year /\ Last(regimes).last = h[L].year
  BY <1>8, <1>10, <1>11, <1>12 DEF Last
<1>14. ASSUME NEW n \in 1 .. N PROVE a[n] \in Int /\ a[n] <= until(n)
  <2>1. a[n] \in Int /\ a[n] <= h[L].year
    BY <1>4, <1>7 DEF Sessions
  <2>2. CASE n = N
    BY <2>1, <2>2
  <2>3. CASE n # N
    <3>1. n + 1 \in 1 .. N /\ n < n + 1
      BY <1>7, <2>3
    <3>2. a[n + 1] \in Int /\ a[n] < a[n + 1]
      BY <1>4, <1>7, <3>1 DEF Sessions
    <3> QED BY <2>1, <2>3, <3>2
  <2> QED BY <2>2, <2>3
<1>15. ASSUME NEW n \in 2 .. N PROVE regimes[n].first = regimes[n - 1].last + 1
  <2>1. n \in 1 .. N /\ n - 1 \in 1 .. N /\ n - 1 # N /\ (n - 1) + 1 = n
    BY <1>7
  <2>2. until(n - 1) = a[n] - 1 /\ a[n] \in Int
    BY <2>1, <1>14
  <2> QED BY <1>10, <2>1, <2>2
<1>16. RegimesCover(h, regimes)
  BY <1>10, <1>11, <1>13, <1>14, <1>15 DEF RegimesCover, Last, L
<1>17. c.year \in LatestYears(regimes)
  <2>1. Last(regimes).first = a[N] /\ Last(regimes).last = c.year
    BY <1>2, <1>10, <1>11, <1>12, <1>13 DEF Last
  <2>2. a[N] \in Int /\ a[N] <= c.year /\ c.year \in Int
    BY <1>1, <1>2, <1>12, <1>14
  <2> QED BY <2>1, <2>2 DEF LatestYears
<1> QED BY <1>6, <1>16, <1>17 DEF h

(* The years that compare with the present have the year that is valued     *)
(* among them                                                                *)
LEMMA FirstFacts ==
  ASSUME NEW c, InOrder(c)
  PROVE  LET v == FirstValidation(c)
         IN  RegimesCover(c.history, v.regimes) /\ (Known(v.latest) => c.year \in v.latest)
<1> DEFINE v == FirstValidation(c)
           h == c.history
<1>1. CASE Len(h) < 2
  <2>1. v = Insufficient
    BY <1>1 DEF FirstValidation, Validate
  <2>2. v.regimes = <<>> /\ v.latest = None
    BY <2>1 DEF Insufficient
  <2> QED BY <2>2 DEF RegimesCover, Known
<1>2. CASE ~(Len(h) < 2)
  <2>1. PICK z, x : v = Gate(h, z, x, Regimes(h), None, None)
    <3>1. v = Gate(h, [table |-> YearScores(h, IF IsFinancial(c) THEN {"operating_cash_flow"} ELSE {}),
                       jumps |-> UnitJumps(h, IF IsFinancial(c) THEN {"operating_cash_flow"} ELSE {}),
                       breaks |-> {h[i].year : i \in StructuralBreaks(h)}],
                   CycleExtremes(h, IF IsFinancial(c) THEN {"operating_cash_flow"} ELSE {}), Regimes(h), None, None)
      BY <1>2 DEF FirstValidation, Validate
    <3> QED BY <3>1
  <2>2. PICK r : v = Findings(h, z, Regimes(h), r)
    BY <2>1 DEF Gate
  <2>3. v.regimes = Regimes(h) /\ v.latest = LatestYears(Regimes(h))
    BY <2>2 DEF Findings
  <2>4. Len(h) >= 2
    BY <1>2, YearsAscend
  <2>5. RegimesCover(h, Regimes(h)) /\ c.year \in LatestYears(Regimes(h))
    BY <2>4, RegimesFacts
  <2> QED BY <2>3, <2>5
<1> QED BY <1>1, <1>2

(* A cycle is the year that is valued or years that compare with it *)
LEMMA CycleFacts ==
  ASSUME NEW c, InOrder(c), NEW lookback, Known(FirstValidation(c).latest)
  PROVE  CycleNormalized(c.facts, c.year, lookback, FirstValidation(c).latest).years \in SUBSET FirstValidation(c).latest
<1>1. PICK latest : latest = FirstValidation(c).latest
  OBVIOUS
<1>2. c.year \in latest /\ latest # None
  BY <1>1, FirstFacts DEF Known
<1>3. PICK years : years = CycleYears(c.facts, c.year, lookback, latest)
  OBVIOUS
<1>4. years \in SUBSET latest
  BY <1>2, <1>3 DEF CycleYears
<1>5. OverCycle(c.facts, c.year, years, Ascending(years)).years \in {years, {c.year}}
  BY DEF OverCycle, LatestYear
<1> QED BY <1>1, <1>2, <1>3, <1>4, <1>5 DEF CycleNormalized

-------------------------------------------------------------------------------
(* What a gate makes of a standing is a standing *)
Fits(s) == IsStanding(s) /\ s.confidence \in Levels /\ s.model \in Statuses /\ s.pill \in Pills

LEMMA GatedFits ==
  ASSUME NEW c, NEW v, NEW a \in Levels, NEW m \in Statuses, NEW p \in Pills
  PROVE  Fits(Gated(c, v, Standing(a, m, p)))
<1>1. Fits(Standing(a, m, p))
  BY DEF Fits, Standing, IsStanding
<1>2. ASSUME NEW x \in Statuses, NEW y \in Pills PROVE Fits(Fail(x, y))
  BY <1>2 DEF Fits, Fail, Standing, IsStanding, Levels
<1>3. ASSUME NEW s, Fits(s), NEW x \in Statuses, NEW y \in Pills PROVE Fits([s EXCEPT !.model = x, !.pill = y])
  <2> DEFINE t == [s EXCEPT !.model = x, !.pill = y]
  <2>1. t \in [confidence : {s.confidence}, model : {x}, pill : {y}]
    BY <1>3 DEF Fits, IsStanding
  <2> HIDE DEF t
  <2>2. t.confidence = s.confidence /\ t.model = x /\ t.pill = y /\ IsStanding(t)
    BY <2>1 DEF IsStanding
  <2>3. Fits(t)
    BY <1>3, <2>2 DEF Fits
  <2> QED BY <2>3 DEF t
<1>4. ASSUME NEW s, Fits(s) PROVE [s EXCEPT !.model = "MODEL_ESTIMATED"] = [s EXCEPT !.model = "MODEL_ESTIMATED", !.pill = s.pill]
  BY <1>4 DEF Fits, IsStanding
<1>5. /\ {"MODEL_INCOMPLETE", "MODEL_PARTIAL", "MODEL_ESTIMATED", "MODEL_UNVALUABLE", "ARCHETYPE_UNKNOWN", "FALLBACK_MODEL_ONLY"} \in SUBSET Statuses
      /\ {"MODEL_INCOMPLETE", "ARCHETYPE_UNSUPPORTED", "FALLBACK_MODEL_ONLY", "UNVALUABLE"} \in SUBSET Pills
  BY DEF Statuses, Pills
<1>6. \A s : Fits(s) => Fits(RegistryGate(c, s)) /\ Fits(ProjectGate(c, s)) /\ Fits(LeaseGate(c, s))
  BY <1>2, <1>5 DEF RegistryGate, ProjectGate, LeaseGate
<1>7. \A s : Fits(s) => Fits(ArchetypeGate(c, s))
  BY <1>2, <1>5 DEF ArchetypeGate
<1>8. \A s : Fits(s) => Fits(FullCycleGate(c, v, s))
  <2>1. Fits(Fail("MODEL_PARTIAL", "MODEL_INCOMPLETE")) /\ Fits(Fail("MODEL_INCOMPLETE", "MODEL_INCOMPLETE"))
    BY <1>2, <1>5
  <2> QED BY <2>1 DEF FullCycleGate
<1>9. \A s : Fits(s) => Fits(AirportGate(c, s)) /\ Fits(EarningsGate(v, s))
  <2> SUFFICES ASSUME NEW s, Fits(s) PROVE Fits(AirportGate(c, s)) /\ Fits(EarningsGate(v, s))
    OBVIOUS
  <2>1. Fits([s EXCEPT !.model = "MODEL_ESTIMATED"])
    <3>1. s.pill \in Pills
      BY DEF Fits
    <3>2. Fits([s EXCEPT !.model = "MODEL_ESTIMATED", !.pill = s.pill])
      BY <1>3, <1>5, <3>1
    <3> QED BY <1>4, <3>2
  <2>2. Fits([s EXCEPT !.model = "MODEL_UNVALUABLE", !.pill = "UNVALUABLE"])
    BY <1>3, <1>5
  <2> QED BY <2>1, <2>2 DEF AirportGate, EarningsGate
<1> DEFINE s0 == Standing(a, m, p)
           s3 == ProjectGate(c, ArchetypeGate(c, RegistryGate(c, s0)))
           s6 == AirportGate(c, LeaseGate(c, FullCycleGate(c, v, s3)))
<1>10. Gated(c, v, s0) = EarningsGate(v, s6)
  BY DEF Gated
<1>11. Fits(s3)
  BY <1>1, <1>6, <1>7
<1> HIDE DEF s3
<1>12. Fits(s6)
  BY <1>6, <1>8, <1>9, <1>11
<1> HIDE DEF s6
<1> QED BY <1>9, <1>10, <1>12

(* Before it is valued an evaluation has no value *)
EvaluatedInv == company \in Companies /\ (stage = "START" => value = NoValue) /\ EvaluationInv

LEMMA LevelFacts ==
  /\ \A lineage : ConfidenceOf(lineage) \in Levels
  /\ \A a \in Levels : Lowered(a) \in Levels
  /\ \A a \in Levels : \A d : ExplainedConfidence(a, d) \in Levels
<1>1. \A lineage : ConfidenceOf(lineage) \in Levels
  BY DEF ConfidenceOf, Levels
<1>2. \A a \in Levels : Lowered(a) \in Levels
  BY DEF Lowered, Levels
<1>3. \A a \in Levels : \A d : ExplainedConfidence(a, d) \in Levels
  BY DEF ExplainedConfidence, Levels
<1> QED BY <1>1, <1>2, <1>3

LEMMA VerdictAmong ==
  ASSUME NEW p, NEW tier, NEW margin, NEW level, NEW negative, NEW rejects, NEW netDebt, NEW payback
  PROVE  SafetyVerdict(p, tier, margin, level, negative, rejects, netDebt, payback).verdict \in Pills
<1>1. \A required : Verdict(rejects, tier, margin, required, level) \in Pills
  BY DEF Verdict, RejectVerdict, Pills
<1>2. "AVOID_SOLVENCY" \in Pills /\ "UNVALUABLE" \in Pills
  BY DEF Pills
<1> QED BY <1>1, <1>2 DEF SafetyVerdict

LEMMA EvaluationStart == CompaniesFit /\ Init => EvaluatedInv
<1> SUFFICES ASSUME CompaniesFit, Init PROVE EvaluatedInv
  OBVIOUS
<1>1. /\ company \in Companies /\ stage = "START" /\ model \in Statuses /\ value = NoValue
      /\ confidence \in Levels
  BY LevelFacts DEF Init, Statuses
<1>2. InOrder(company)
  BY <1>1 DEF CompaniesFit
<1>3. RegimesCover(company.history, FirstValidation(company).regimes)
  BY <1>2, FirstFacts
<1>4. value.bridge = None
  BY <1>1 DEF NoValue
<1> QED BY <1>1, <1>3, <1>4 DEF EvaluatedInv, EvaluationInv, ValuationInv, ComparableYears, Known

LEMMA EvaluationStep == CompaniesFit /\ EvaluatedInv /\ [Next]_vars => EvaluatedInv'
<1> SUFFICES ASSUME CompaniesFit, EvaluatedInv, [Next]_vars PROVE EvaluatedInv'
  OBVIOUS
<1>0. company \in Companies /\ InOrder(company) /\ confidence \in Levels /\ model \in Statuses
  BY DEF CompaniesFit, EvaluatedInv, EvaluationInv, ValuationInv
<1>1. CASE ResidualIncome
  <2>1. stage' = "VALUED" /\ company' = company /\ value = NoValue
    BY <1>1 DEF ResidualIncome, EvaluatedInv
  <2>2. value'.bridge = None /\ confidence' \in Levels /\ model' \in Statuses
    <3>1. CASE BookPerShare(company) = None \/ ReturnOnEquity(company) = None
      <4>1. value' = [value EXCEPT !.incomplete = TRUE] /\ confidence' = "LOW" /\ model' = "MODEL_INCOMPLETE"
        BY <1>1, <3>1 DEF ResidualIncome
      <4> QED BY <2>1, <4>1 DEF NoValue, Levels, Statuses
    <3>2. CASE ~(BookPerShare(company) = None \/ ReturnOnEquity(company) = None)
      <4>1. /\ value' = [value EXCEPT !.suite = BankSuite(BookPerShare(company), ReturnOnEquity(company), company.shares, company.price)]
            /\ confidence' = confidence /\ model' = model
        BY <1>1, <3>2 DEF ResidualIncome
      <4> QED BY <1>0, <2>1, <4>1 DEF NoValue
    <3> QED BY <3>1, <3>2
  <2> QED BY <1>0, <2>1, <2>2 DEF EvaluatedInv, EvaluationInv, ValuationInv, ComparableYears, Known
<1>2. CASE Refuse
  <2>1. stage' = "REFUSED" /\ UNCHANGED <<company, confidence, model, value>>
    BY <1>2 DEF Refuse
  <2> QED BY <1>0, <2>1 DEF EvaluatedInv, EvaluationInv, ValuationInv, ComparableYears
<1>3. CASE OwnerEarningsValue
  <2>1. stage' = "VALUED" /\ company' = company /\ model' = model
    BY <1>3 DEF OwnerEarningsValue
  <2>2. PICK lookback :
          /\ value'.bridge = CycleNormalized(company.facts, company.year, lookback, FirstValidation(company).latest)
          /\ confidence' \in Levels
    <3>1. PICK p \in {ProfileOf(company)} :
            LET full == NeedsFullCycle(p)
                cyclical == "HIGH_CYCLICALITY" \in p.overlays
            IN  \E bridge \in {CycleNormalized(company.facts, company.year, IF cyclical \/ full THEN 10 ELSE 5,
                                               FirstValidation(company).latest)},
                   g \in {Growth(company.history, ReturnOnEquity(company), cyclical)} :
                \E suite \in {IF Hopeless(company, bridge) THEN NoSuite ELSE SuiteOf(company, bridge.value, g)} :
                  LET blocked == IF Hopeless(company, bridge) THEN "BLOCKED" ELSE confidence
                      grown == IF g.downgrade THEN Lowered(blocked) ELSE blocked
                  IN  /\ value' = [suite |-> suite, bridge |-> bridge, unvaluable |-> Hopeless(company, bridge),
                                   incomplete |-> FALSE,
                                   analytics |-> IF FarOff(suite) THEN AnalyticsOf(company, bridge.value, g) ELSE NoAnalytics,
                                   fullCycle |-> full => WholeCycle(bridge)]
                      /\ confidence' = IF FarOff(suite) THEN Lowered(grown) ELSE grown
      BY <1>3 DEF OwnerEarningsValue
    <3>2. PICK lookback : lookback = IF "HIGH_CYCLICALITY" \in p.overlays \/ NeedsFullCycle(p) THEN 10 ELSE 5
      OBVIOUS
    <3>3. PICK bridge \in {CycleNormalized(company.facts, company.year, lookback, FirstValidation(company).latest)} : \E g, suite :
             LET blocked == IF Hopeless(company, bridge) THEN "BLOCKED" ELSE confidence
                 grown == IF g.downgrade THEN Lowered(blocked) ELSE blocked
             IN  /\ value' = [suite |-> suite, bridge |-> bridge, unvaluable |-> Hopeless(company, bridge),
                              incomplete |-> FALSE,
                              analytics |-> IF FarOff(suite) THEN AnalyticsOf(company, bridge.value, g) ELSE NoAnalytics,
                              fullCycle |-> NeedsFullCycle(p) => WholeCycle(bridge)]
                 /\ confidence' = IF FarOff(suite) THEN Lowered(grown) ELSE grown
      BY <3>1, <3>2
    <3>4. "BLOCKED" \in Levels
      BY DEF Levels
    <3>5. confidence' \in Levels
      BY <1>0, <3>3, <3>4, LevelFacts
    <3>6. value'.bridge = bridge
      BY <3>3
    <3> QED BY <3>5, <3>6
  <2>3. Known(FirstValidation(company).latest) => value'.bridge.years \subseteq FirstValidation(company).latest
    BY <1>0, <2>2, CycleFacts
  <2> QED BY <1>0, <2>1, <2>2, <2>3 DEF EvaluatedInv, EvaluationInv, ValuationInv, ComparableYears
<1>4. CASE Judge
  <2>1. /\ stage' = "JUDGED" /\ UNCHANGED <<company, model, value>>
        /\ confidence' = ExplainedConfidence(confidence, company.pillars.dilution)
    BY <1>4 DEF Judge
  <2>2. card'.score = ScoreOf(company) /\ card'.margin = MarginOf(company, card'.score, value.suite, confidence')
        /\ pill' = IF value.incomplete THEN "MODEL_INCOMPLETE" ELSE card'.margin.verdict
    BY <1>4 DEF Judge
  <2>3. card'.score.total \in 0 .. 100
    <3>1. PICK roe, conversion, netDebt, cashFlow, dilution :
             ScoreOf(company) = Scorecard(ProfileOf(company), company.history, roe, conversion, netDebt, cashFlow, dilution)
      BY DEF ScoreOf
    <3> QED BY <2>2, <3>1, PointsInRange
  <2>4. pill' \in Pills
    <3>1. MarginOf(company, card'.score, value.suite, confidence').verdict \in Pills
      BY VerdictAmong DEF MarginOf
    <3>2. "MODEL_INCOMPLETE" \in Pills
      BY DEF Pills
    <3> QED BY <2>2, <3>1, <3>2
  <2> QED BY <1>0, <2>1, <2>3, <2>4, LevelFacts DEF EvaluatedInv, EvaluationInv, ValuationInv, ComparableYears
<1>5. CASE GateModel
  <2> DEFINE t == Gated(company, value, Standing(confidence, model, pill))
  <2>1. /\ stage = "JUDGED" /\ stage' = "GATED" /\ UNCHANGED <<company, value, card, report>>
        /\ confidence' = t.confidence /\ model' = t.model /\ pill' = t.pill
    BY <1>5 DEF GateModel
  <2>2. pill \in Pills /\ card.score.total \in 0 .. 100
    BY <2>1 DEF EvaluatedInv, EvaluationInv, ValuationInv
  <2>3. Fits(t)
    BY <1>0, <2>2, GatedFits
  <2> HIDE DEF t
  <2> QED BY <1>0, <2>1, <2>2, <2>3 DEF Fits, EvaluatedInv, EvaluationInv, ValuationInv, ComparableYears
<1>6. CASE BreakOff
  <2>1. stage' = "BROKEN" /\ UNCHANGED <<company, confidence, model, value>>
    BY <1>6 DEF BreakOff
  <2> QED BY <1>0, <2>1 DEF EvaluatedInv, EvaluationInv, ValuationInv, ComparableYears
<1>7. CASE Publish
  <2>1. stage = "GATED" /\ stage' = "REPORTED" /\ UNCHANGED <<company, value, card>>
    BY <1>7 DEF Publish
  <2>2. pill \in Pills /\ card.score.total \in 0 .. 100
    BY <2>1 DEF EvaluatedInv, EvaluationInv, ValuationInv
  <2>3. model' \in {model, Doubted(model)} /\ pill' \in {pill, "MODEL_INCOMPLETE", Withheld(pill)} /\ confidence' \in {confidence, "LOW"}
    BY <1>7 DEF Publish
  <2>4. Doubted(model) \in Statuses /\ Withheld(pill) \in Pills /\ "MODEL_INCOMPLETE" \in Pills /\ "LOW" \in Levels
    BY <1>0, <2>2 DEF Doubted, Withheld, Statuses, Pills, Levels
  <2>5. model' \in Statuses /\ pill' \in Pills /\ confidence' \in Levels
    BY <1>0, <2>2, <2>3, <2>4
  <2> QED BY <1>0, <2>1, <2>2, <2>5 DEF EvaluatedInv, EvaluationInv, ValuationInv, ComparableYears
<1>8. CASE Done \/ UNCHANGED vars
  <2>1. UNCHANGED vars
    BY <1>8 DEF Done
  <2> QED BY <2>1 DEF vars, EvaluatedInv, EvaluationInv, ValuationInv, ComparableYears
<1> QED BY <1>1, <1>2, <1>3, <1>4, <1>5, <1>6, <1>7, <1>8 DEF Next

(* For any company whose history is in order and ends with the year that is *)
(* valued: every status, confidence and pill of an evaluation is one of      *)
(* those that have a meaning, no business has more than a hundred points,    *)
(* the regimes cut its history without a gap, and the cycle its value is     *)
(* normalised over is taken from the years of the latest regime              *)
(* (engine.py, regime_detector.py, owner_earnings.py, quality_scorer.py)     *)
THEOREM CyclesCompare == MarketSpec => []EvaluationInv
<1>1. MarketInit => EvaluatedInv
  BY EvaluationStart, CompaniesFit DEF MarketInit
<1>2. EvaluatedInv /\ [MarketNext]_everything => EvaluatedInv'
  BY Frames, EvaluationStep, CompaniesFit
<1>3. EvaluatedInv => EvaluationInv
  BY DEF EvaluatedInv
<1> QED BY <1>1, <1>2, <1>3, PTL DEF MarketSpec

(***************************************************************************)
(* A list and its pages                                                    *)
(***************************************************************************)
(* No keyword of a rule stands for a sector that is not known *)
Unplaced == {"unclassified", "listed company"}

LEMMA NoRuleMeets == \A i \in DOMAIN Rules : Rules[i][1] \notin Unplaced
<1> DEFINE Says(i) == Rules[i][1] \notin Unplaced
<1>1. DOMAIN Rules = 1 .. 48
  BY DEF Rules
<1>2. /\ Says(1) /\ Says(2) /\ Says(3) /\ Says(4) /\ Says(5) /\ Says(6)
      /\ Says(7) /\ Says(8) /\ Says(9) /\ Says(10) /\ Says(11) /\ Says(12)
      /\ Says(13) /\ Says(14) /\ Says(15) /\ Says(16) /\ Says(17) /\ Says(18)
      /\ Says(19) /\ Says(20) /\ Says(21) /\ Says(22) /\ Says(23) /\ Says(24)
  BY DEF Rules, Unplaced
<1>3. /\ Says(25) /\ Says(26) /\ Says(27) /\ Says(28) /\ Says(29) /\ Says(30)
      /\ Says(31) /\ Says(32) /\ Says(33) /\ Says(34) /\ Says(35) /\ Says(36)
      /\ Says(37) /\ Says(38) /\ Says(39) /\ Says(40) /\ Says(41) /\ Says(42)
      /\ Says(43) /\ Says(44) /\ Says(45) /\ Says(46) /\ Says(47) /\ Says(48)
  BY DEF Rules, Unplaced
<1> HIDE DEF Says
<1>4. \A i \in 1 .. 48 : Says(i)
  <2>1. ASSUME NEW i \in 1 .. 24 PROVE Says(i)
    <3>1. i \in {1, 2, 3, 4, 5, 6, 7, 8, 9, 10, 11, 12, 13, 14, 15, 16, 17, 18, 19, 20, 21, 22, 23, 24}
      OBVIOUS
    <3> QED BY <1>2, <3>1
  <2>2. ASSUME NEW i \in 25 .. 48 PROVE Says(i)
    <3>1. i \in {25, 26, 27, 28, 29, 30, 31, 32, 33, 34, 35, 36, 37, 38, 39, 40, 41, 42, 43, 44, 45, 46, 47, 48}
      OBVIOUS
    <3> QED BY <1>3, <3>1
  <2> QED BY <2>1, <2>2
<1> QED BY <1>1, <1>4 DEF Says

LEMMA UnplacedAlike == ASSUME NEW symbol PROVE Classify(symbol, {"unclassified"}) = Classify(symbol, {"listed company"})
<1>1. {i \in DOMAIN Rules : Rules[i][1] \in {"unclassified"}} = {} /\ {i \in DOMAIN Rules : Rules[i][1] \in {"listed company"}} = {}
  BY NoRuleMeets DEF Unplaced
<1>2. {"unclassified"} # {} /\ {"listed company"} # {}
  OBVIOUS
<1> QED BY <1>1, <1>2 DEF Classify

(* The latest year is one of the years of a listing *)
LEMMA LatestIsOne ==
  ASSUME NEW l, WellKept(l), FiscalYears(l) # {}
  PROVE  LatestFiscalYear(l) \in FiscalYears(l) /\ \A y \in FiscalYears(l) : y <= LatestFiscalYear(l)
<1>1. Sessions(FiscalYears(l))
  BY SameCount DEF WellKept, Sessions
<1>2. Factors!Max(FiscalYears(l)) = Max(FiscalYears(l))
  BY DEF Factors!Max, Max
<1> QED BY <1>1, <1>2, HasMax DEF LatestFiscalYear

(* What both callers build is in order, and ends with the year it values *)
LEMMA BuiltInOrder ==
  ASSUME NEW l, WellKept(l), FiscalYears(l) # {}, NEW c, c.history = History(l), c.year = LatestFiscalYear(l)
  PROVE  InOrder(c)
<1> DEFINE Y == FiscalYears(l)
           N == Cardinality(Y)
           a == Ascending(Y)
           h == History(l)
           R == {h[n] : n \in 1 .. N}
<1>1. Sessions(Y)
  BY SameCount DEF WellKept, Sessions
<1>2. /\ N \in Nat /\ a \in [1 .. N -> Y]
      /\ \A i, j \in 1 .. N : i < j => a[i] < a[j]
      /\ \A x \in Y : \E i \in 1 .. N : a[i] = x
  BY <1>1, AscendingFacts
<1>3. h = [n \in DOMAIN a |-> HistoryRow(l, a[n])] /\ DOMAIN a = 1 .. N
  BY <1>2 DEF History
<1>4. \A y : HistoryRow(l, y).year = y
  BY DEF HistoryRow
<1>5. LatestFiscalYear(l) \in Y /\ (\A y \in Y : y <= LatestFiscalYear(l)) /\ Y \in SUBSET Int
  BY LatestIsOne DEF WellKept
<1> HIDE DEF a, N, h, Y
<1>6. DOMAIN h = 1 .. N /\ \A n \in 1 .. N : h[n].year = a[n] /\ a[n] \in Y
  BY <1>2, <1>3, <1>4
<1>7. h \in Seq(R) /\ Len(h) = N /\ R = ToSet(h)
  <2>1. h \in [1 .. N -> R]
    BY <1>3
  <2>2. R = ToSet(h)
    BY <1>6 DEF ToSet
  <2> HIDE DEF R
  <2> QED BY <1>2, <2>1, <2>2
<1>8. \A i \in 2 .. N : h[i - 1].year < h[i].year
  <2> SUFFICES ASSUME NEW i \in 2 .. N PROVE h[i - 1].year < h[i].year
    OBVIOUS
  <2>1. i \in 1 .. N /\ i - 1 \in 1 .. N /\ i - 1 < i
    BY <1>2
  <2> QED BY <1>2, <1>6, <2>1
<1>9. h # <<>> => Last(h).year = LatestFiscalYear(l)
  <2> SUFFICES ASSUME h # <<>> PROVE Last(h).year = LatestFiscalYear(l)
    OBVIOUS
  <2>1. PICK i \in 1 .. N : a[i] = LatestFiscalYear(l)
    BY <1>2, <1>5
  <2>2. N \in 1 .. N /\ (i = N \/ i < N)
    BY <1>2, <2>1
  <2>3. a[N] \in Y /\ (i = N \/ a[i] < a[N])
    BY <1>2, <1>6, <2>2
  <2>4. a[N] <= LatestFiscalYear(l) /\ a[N] \in Int /\ LatestFiscalYear(l) \in Int
    BY <1>5, <2>3
  <2>5. a[N] = LatestFiscalYear(l)
    BY <2>1, <2>3, <2>4
  <2> QED BY <1>6, <1>7, <2>2, <2>5 DEF Last
<1>10. \A n \in 1 .. N : h[n].year \in Int
  BY <1>5, <1>6
<1> QED BY <1>6, <1>7, <1>8, <1>9, <1>10 DEF InOrder, h

(* For any listing with rows kept for it, what the list and what the page    *)
(* build for the engine is in order and ends with the latest year            *)
(* (screener.py, _build_engine_inputs; main.py, portfolio_symbol_valuation)  *)
THEOREM InputsInOrder ==
  ASSUME NEW l \in Listings, FiscalYears(l) # {}
  PROVE  InOrder(ScreenerInputs(l)) /\ InOrder(DetailInputs(l))
<1>1. WellKept(l)
  BY ListingsFit DEF ListingsFit
<1>2. ASSUME NEW sector, NEW bank, NEW financial, NEW facts, NEW equity, NEW eps, NEW bvps, NEW roe
      PROVE  InOrder(Inputs(l, sector, bank, financial, facts, equity, eps, bvps, roe))
  <2> DEFINE c == Inputs(l, sector, bank, financial, facts, equity, eps, bvps, roe)
  <2>1. c.history = History(l) /\ c.year = LatestFiscalYear(l)
    BY DEF Inputs
  <2> HIDE DEF c
  <2>2. InOrder(c)
    BY <1>1, <2>1, BuiltInOrder
  <2> QED BY <2>2 DEF c
<1> QED BY <1>2 DEF ScreenerInputs, DetailInputs

(* With one row for each fact, the last row is the first provider's *)
LEMMA OneRow ==
  ASSUME NEW l, WellKept(l), FiscalYears(l) # {}, Plain(l), NEW code \in AllCodes
  PROVE  Selected(l, code) = Item(l, LatestFiscalYear(l), code)
<1> DEFINE rows_ == l.rows[LatestFiscalYear(l)][code]
<1>1. LatestFiscalYear(l) \in FiscalYears(l)
  BY LatestIsOne
<1>2. rows_ \in Seq(Int \X Int) /\ Len(rows_) <= 1
  BY <1>1 DEF WellKept, Plain
<1>a. Candidates(l, code) = Range(rows_)
  BY DEF Candidates
<1>b. Item(l, LatestFiscalYear(l), code) = IF rows_ = <<>> THEN None ELSE Last(rows_)[2]
  BY DEF Item
<1> HIDE DEF rows_
<1>3. CASE rows_ = <<>>
  <2>1. Range(rows_) = {}
    BY <1>3 DEF Range
  <2> QED BY <1>3, <1>a, <1>b, <2>1 DEF Selected
<1>4. CASE rows_ # <<>>
  <2>0. Len(rows_) = 1
    <3> DEFINE k == Len(rows_)
    <3>1. k \in Nat /\ k # 0
      BY <1>2, <1>4
    <3>2. k <= 1
      BY <1>2
    <3> HIDE DEF k
    <3>3. k = 1
      BY <3>1, <3>2
    <3> QED BY <3>3 DEF k
  <2>1. Len(rows_) = 1 /\ rows_[1] \in Int \X Int /\ DOMAIN rows_ = {1}
    <3>1. DOMAIN rows_ = 1 .. 1 /\ 1 \in 1 .. Len(rows_)
      BY <1>2, <2>0
    <3> QED BY <1>2, <2>0, <3>1
  <2>2. Range(rows_) = {rows_[1]} /\ rows_[1][1] <= rows_[1][1]
    BY <2>1 DEF Range
  <2>3. Selected(l, code) = (CHOOSE r \in {rows_[1]} : \A s \in {rows_[1]} : r[1] <= s[1])[2]
    BY <1>a, <2>2 DEF Selected
  <2>4. (CHOOSE r \in {rows_[1]} : \A s \in {rows_[1]} : r[1] <= s[1]) = rows_[1]
    BY <2>2
  <2>5. Item(l, LatestFiscalYear(l), code) = rows_[1][2]
    BY <1>4, <1>b, <2>1 DEF Last
  <2> QED BY <2>3, <2>4, <2>5
<1> QED BY <1>3, <1>4

LEMMA ItemType ==
  ASSUME NEW l, WellKept(l), NEW y \in FiscalYears(l), NEW code \in AllCodes
  PROVE  Item(l, y, code) \in Int \union {None}
<1> DEFINE rows_ == l.rows[y][code]
<1>1. rows_ \in Seq(Int \X Int)
  BY DEF WellKept
<1>2. Item(l, y, code) = IF rows_ = <<>> THEN None ELSE Last(rows_)[2]
  BY DEF Item
<1> HIDE DEF rows_
<1>3. rows_ # <<>> => Last(rows_) \in Int \X Int
  BY <1>1 DEF Last
<1> QED BY <1>2, <1>3

(* What is not positive is not positive for a share either *)
LEMMA PositiveShare ==
  ASSUME NEW x \in Int, NEW n \in Int, n > 0, x <= 0
  PROVE  ~(PerShare(x, n) > 0)
<1> DEFINE a == 1000 * x
           q == a \div n
<1>1. a \in Int /\ a <= 0
  OBVIOUS
<1> HIDE DEF a
<1>2. q \in Int /\ n * q <= a
  BY <1>1
<1>3. ASSUME q > 0 PROVE FALSE
  <2> HIDE DEF q
  <2>1. n * q > 0
    BY <1>2, <1>3
  <2>2. n * q \in Int
    BY <1>2
  <2> QED BY <1>1, <1>2, <2>1, <2>2
<1> QED BY <1>2, <1>3 DEF PerShare, a

(* What the engine is asked, up to what it does not read *)
Read(x) == IF Positive(x) THEN x ELSE None
Placed(symbol, sector, bank) == Classify(symbol, IF Known(sector) THEN sector ELSE IF bank THEN {"bank"} ELSE {"listed company"})

Question(l, profile, bank, financial, facts, equity, eps, bvps, roe) ==
  [symbol |-> l.symbol, sector |-> profile, bank |-> bank, lineage |-> "SINGLE_SOURCE",
   facts |-> facts, history |-> History(l), year |-> LatestFiscalYear(l), price |-> l.price,
   shares |-> facts[LatestFiscalYear(l)]["shares"], eps |-> eps, bvps |-> bvps, roe |-> roe, equity |-> equity,
   deferred |-> None, works |-> None, fixed |-> None, concessionEnd |-> FALSE, pillars |-> PillarsOf(l, financial)]

LEMMA EssenceFacts ==
  ASSUME NEW l, NEW sector, NEW bank, NEW financial, NEW facts, NEW equity, NEW eps, NEW bvps, NEW roe
  PROVE  Essence(Inputs(l, sector, bank, financial, facts, equity, eps, bvps, roe))
           = Question(l, Placed(l.symbol, sector, bank), bank, financial, facts,
                      IF Positive(bvps) THEN None ELSE equity, Read(eps), Read(bvps), roe)
<1> DEFINE c == Inputs(l, sector, bank, financial, facts, equity, eps, bvps, roe)
<1>1. ProfileOf(c) = Placed(l.symbol, sector, bank)
  BY DEF ProfileOf, Placed, Inputs
<1>2. c.eps = eps /\ c.bvps = bvps /\ c.equity = equity
  BY DEF Inputs
<1>3. Essence(c) = [c EXCEPT !.sector = Placed(l.symbol, sector, bank), !.eps = Read(eps), !.bvps = Read(bvps),
                             !.equity = IF Positive(bvps) THEN None ELSE equity]
  BY <1>1, <1>2 DEF Essence, Read
<1> DEFINE s == Placed(l.symbol, sector, bank)
           e == Read(eps)
           b == Read(bvps)
           q == IF Positive(bvps) THEN None ELSE equity
           h == History(l)
           y == LatestFiscalYear(l)
           n == facts[LatestFiscalYear(l)]["shares"]
           p == PillarsOf(l, financial)
<1>4. c = [symbol |-> l.symbol, sector |-> sector, bank |-> bank, lineage |-> "SINGLE_SOURCE",
           facts |-> facts, history |-> h, year |-> y, price |-> l.price,
           shares |-> n, eps |-> eps, bvps |-> bvps, roe |-> roe, equity |-> equity,
           deferred |-> None, works |-> None, fixed |-> None, concessionEnd |-> FALSE, pillars |-> p]
  BY DEF Inputs
<1>5. Question(l, s, bank, financial, facts, q, e, b, roe) =
          [symbol |-> l.symbol, sector |-> s, bank |-> bank, lineage |-> "SINGLE_SOURCE",
           facts |-> facts, history |-> h, year |-> y, price |-> l.price,
           shares |-> n, eps |-> e, bvps |-> b, roe |-> roe, equity |-> q,
           deferred |-> None, works |-> None, fixed |-> None, concessionEnd |-> FALSE, pillars |-> p]
  BY DEF Question
<1>7. Essence(c) = [c EXCEPT !.sector = s, !.eps = e, !.bvps = b, !.equity = q]
  BY <1>3
<1> HIDE DEF c, s, e, b, q, h, y, n, p
<1> DEFINE r == [symbol |-> l.symbol, sector |-> s, bank |-> bank, lineage |-> "SINGLE_SOURCE",
                 facts |-> facts, history |-> h, year |-> y, price |-> l.price,
                 shares |-> n, eps |-> e, bvps |-> b, roe |-> roe, equity |-> q,
                 deferred |-> None, works |-> None, fixed |-> None, concessionEnd |-> FALSE, pillars |-> p]
           D == {"symbol", "sector", "bank", "lineage", "facts", "history", "year", "price", "shares", "eps", "bvps",
                 "roe", "equity", "deferred", "works", "fixed", "concessionEnd", "pillars"}
           u == [c EXCEPT !.sector = s, !.eps = e, !.bvps = b, !.equity = q]
           changed(k) == IF k = "sector" THEN s ELSE IF k = "eps" THEN e ELSE IF k = "bvps" THEN b
                         ELSE IF k = "equity" THEN q ELSE c[k]
<1>6. u = r
  <2>1. DOMAIN c = D
    BY <1>4
  <2>2. r = [k \in D |-> r[k]]
    OBVIOUS
  <2>3. u = [k \in D |-> changed(k)]
    <3> HIDE DEF D
    <3> DEFINE u1 == [c EXCEPT !.sector = s]
               u2 == [u1 EXCEPT !.eps = e]
               u3 == [u2 EXCEPT !.bvps = b]
               u4 == [u3 EXCEPT !.equity = q]
    <3>1. DOMAIN u1 = D /\ \A k \in D : u1[k] = IF k = "sector" THEN s ELSE c[k]
      BY <2>1
    <3>0. u = u4
      OBVIOUS
    <3> HIDE DEF u, u1
    <3>2. DOMAIN u2 = D /\ \A k \in D : u2[k] = IF k = "eps" THEN e ELSE u1[k]
      BY <3>1
    <3> HIDE DEF u2
    <3>3. DOMAIN u3 = D /\ \A k \in D : u3[k] = IF k = "bvps" THEN b ELSE u2[k]
      BY <3>2
    <3> HIDE DEF u3
    <3>4. u4 = [k \in D |-> IF k = "equity" THEN q ELSE u3[k]]
      BY <3>3
    <3> HIDE DEF u4
    <3>5. \A k \in D : (IF k = "equity" THEN q ELSE u3[k]) = changed(k)
      BY <3>1, <3>2, <3>3
    <3> HIDE DEF changed
    <3>6. [k \in D |-> IF k = "equity" THEN q ELSE u3[k]] = [k \in D |-> changed(k)]
      BY ONLY <3>5
    <3> QED BY <3>0, <3>4, <3>6
  <2>4. \A k \in D : r[k] = changed(k)
    <3> DEFINE same(k) == r[k] = changed(k)
    <3>1. same("sector") /\ same("eps") /\ same("bvps") /\ same("equity")
      OBVIOUS
    <3>2. same("symbol") /\ same("bank") /\ same("lineage") /\ same("facts") /\ same("history") /\ same("year") /\ same("price")
      BY <1>4
    <3>3. same("shares") /\ same("roe") /\ same("deferred") /\ same("works") /\ same("fixed") /\ same("concessionEnd") /\ same("pillars")
      BY <1>4
    <3> HIDE DEF same
    <3>4. \A k \in D : same(k)
      BY <3>1, <3>2, <3>3
    <3> QED BY <3>4 DEF same
  <2> HIDE DEF u, r, D, changed
  <2>5. [k \in D |-> r[k]] = [k \in D |-> changed(k)]
    BY ONLY <2>4
  <2> QED BY <2>2, <2>3, <2>5
<1>8. Essence(c) = Question(l, s, bank, financial, facts, q, e, b, roe)
  BY <1>5, <1>6, <1>7
<1> QED BY <1>8 DEF c, s, e, b, q

(* Where a listing is shown, the page finds in the latest year what the list does *)
LEMMA ShownAlike ==
  ASSUME NEW l \in Shown
  PROVE  /\ WellKept(l) /\ Plain(l) /\ FiscalYears(l) # {} /\ LatestFiscalYear(l) \in FiscalYears(l)
         /\ \A code \in AllCodes : Selected(l, code) = Item(l, LatestFiscalYear(l), code)
         /\ Item(l, LatestFiscalYear(l), "net") \in Int
         /\ Item(l, LatestFiscalYear(l), "equity") \in Int /\ Item(l, LatestFiscalYear(l), "equity") > 0
         /\ Item(l, LatestFiscalYear(l), "shares") \in Int /\ Item(l, LatestFiscalYear(l), "shares") > 0
<1> DEFINE y == LatestFiscalYear(l)
<1>1. l \in Listings /\ WellKept(l) /\ Plain(l) /\ Profitable(l) /\ Screened(l) /\ Detailed(l)
  BY ListingsFit DEF Shown, ListingsFit
<1>2. FiscalYears(l) # {}
  BY <1>1 DEF Detailed, Ready
<1>3. y \in FiscalYears(l)
  BY <1>1, <1>2, LatestIsOne
<1>4. \A code \in AllCodes : Selected(l, code) = Item(l, y, code)
  BY <1>1, <1>2, OneRow
<1>5. {"net", "equity", "shares"} \subseteq AllCodes
  BY DEF AllCodes, EngineItems, OwnerEarningsItems
<1>6. \A code \in AllCodes : Item(l, y, code) \in Int \union {None}
  BY <1>1, <1>3, ItemType
<1> HIDE DEF y
<1>7. Known(Item(l, y, "net")) /\ Positive(Item(l, y, "equity"))
  <2>1. Items(l, y)["net"] = Item(l, y, "net") /\ Items(l, y)["equity"] = Item(l, y, "equity")
    BY <1>5 DEF Items
  <2> QED BY <1>1, <2>1 DEF Profitable, y
<1>8. Positive(Item(l, y, "shares"))
  BY <1>1 DEF Screened, y
<1> QED BY <1>1, <1>2, <1>3, <1>4, <1>5, <1>6, <1>7, <1>8 DEF Positive, Known, y

(* The facts of the years *)
LEMMA FactsAlike ==
  ASSUME NEW l \in Shown
  PROVE  ScreenerFacts(l) = [y \in FiscalYears(l) |->
           YearFacts(IF y = LatestFiscalYear(l) THEN DetailItems(l) ELSE Items(l, y), AllCodes)]
<1> DEFINE screened(y) == YearFacts(Items(l, y), IF y = LatestFiscalYear(l) THEN LatestYearCodes ELSE AllCodes)
           shown(y) == YearFacts(IF y = LatestFiscalYear(l) THEN DetailItems(l) ELSE Items(l, y), AllCodes)
<1>1. ASSUME NEW y \in FiscalYears(l) PROVE screened(y) = shown(y)
  <2>1. CASE y # LatestFiscalYear(l)
    BY <2>1
  <2>2. CASE y = LatestFiscalYear(l)
    <3> DEFINE mine(code) == IF code \in LatestYearCodes THEN Items(l, y)[code] ELSE None
               theirs(code) == IF code \in AllCodes THEN DetailItems(l)[code] ELSE None
    <3>1. \A code \in AllCodes \ {"equity"} : mine(code) = theirs(code)
      <4>1. \A code \in AllCodes : Items(l, y)[code] = Item(l, y, code)
        BY DEF Items
      <4>2. \A code \in AllCodes : DetailItems(l)[code] = IF code \in LatestYearCodes THEN Selected(l, code) ELSE None
        BY DEF DetailItems
      <4>3. \A code \in AllCodes : Selected(l, code) = Item(l, y, code)
        BY <2>2, ShownAlike
      <4> QED BY <4>1, <4>2, <4>3
    <3>2. screened(y) = [code \in AllCodes \ {"equity"} |-> mine(code)]
      BY <2>2 DEF YearFacts
    <3>3. shown(y) = [code \in AllCodes \ {"equity"} |-> theirs(code)]
      BY <2>2 DEF YearFacts
    <3> HIDE DEF mine, theirs, screened, shown
    <3>4. [code \in AllCodes \ {"equity"} |-> mine(code)] = [code \in AllCodes \ {"equity"} |-> theirs(code)]
      BY ONLY <3>1
    <3> QED BY <3>2, <3>3, <3>4
  <2> QED BY <2>1, <2>2
<1>2. ScreenerFacts(l) = [y \in FiscalYears(l) |-> screened(y)]
  BY DEF ScreenerFacts
<1> HIDE DEF screened, shown
<1>3. [y \in FiscalYears(l) |-> screened(y)] = [y \in FiscalYears(l) |-> shown(y)]
  BY ONLY <1>1
<1> QED BY <1>2, <1>3 DEF shown

(* The earnings and the book value of a share, and the return on equity *)
LEMMA SharesAlike ==
  ASSUME NEW net \in Int, NEW equity \in Int, equity > 0, NEW n \in Int, n > 0,
         PerShare(equity, n) > 0, Size(Thousandths(net, equity)) > 10
  PROVE  /\ Read(IF Positive(net) THEN PerShare(net, n) ELSE None) = Read(IF Known(net) THEN PerShare(net, n) ELSE None)
         /\ Positive(net) \/ Known(net)
         /\ Positive(PerShare(equity, n))
         /\ Percent(Thousandths(net, equity)) = Thousandths(net, equity)
<1>1. None \notin Int
  BY ListingsFit DEF ListingsFit
<1>2. PerShare(net, n) \in Int /\ PerShare(equity, n) \in Int
  BY DEF PerShare
<1>3. Known(net) /\ Known(equity)
  BY <1>1 DEF Known
<1>4. net <= 0 => ~(PerShare(net, n) > 0)
  BY PositiveShare
<1>5. Read(IF Positive(net) THEN PerShare(net, n) ELSE None) = Read(IF Known(net) THEN PerShare(net, n) ELSE None)
  <2>1. CASE Positive(net)
    BY <1>3, <2>1
  <2>2. CASE ~Positive(net)
    <3>1. net <= 0
      BY <1>3, <2>2 DEF Positive
    <3> QED BY <1>3, <1>4, <2>2, <3>1 DEF Read, Positive, Known
  <2> QED BY <2>1, <2>2
<1>6. Positive(PerShare(equity, n))
  BY <1>1, <1>2 DEF Positive, Known
<1>7. ~(Size(Thousandths(net, equity)) <= 10)
  <2>1. Thousandths(net, equity) \in Int
    BY DEF Thousandths
  <2> HIDE DEF Thousandths
  <2> QED BY <2>1 DEF Size
<1> QED BY <1>3, <1>5, <1>6, <1>7 DEF Percent

(* For any listing that is plain, profitable, in the list and with a page,   *)
(* the two callers, which read the facts in different ways, ask the engine   *)
(* about the same company: the same facts, history, pillars, shares, return  *)
(* and archetype, the same earnings and book value where they are read       *)
THEOREM ListAsksWhatThePageAsks ==
  ASSUME NEW l \in Shown
  PROVE  Essence(ScreenerInputs(l)) = Essence(DetailInputs(l))
<1> DEFINE y == LatestFiscalYear(l)
           net == Item(l, y, "net")
           equity == Item(l, y, "equity")
           n == Item(l, y, "shares")
           own == IF l.industry = None THEN {} ELSE l.industry
           words == l.name \union own
           roe == Thousandths(net, equity)
           b == PerShare(equity, n)
           facts == ScreenerFacts(l)
           e1 == IF Positive(net) THEN PerShare(net, n) ELSE None
           e2 == IF Known(net) THEN PerShare(net, n) ELSE None
           q1 == LastKnown(l, FiscalYears(l), "equity")
           q2 == IF Known(LastKnown(l, FiscalYears(l) \ {y}, "equity")) THEN LastKnown(l, FiscalYears(l) \ {y}, "equity") ELSE equity
           s1 == IF l.industry = None THEN {"unclassified"} ELSE l.industry
           bank == "bank" \in own
           financial == own \intersect FinancialWords # {}
<1>1. /\ WellKept(l) /\ Plain(l) /\ y \in FiscalYears(l) /\ net \in Int /\ equity \in Int /\ equity > 0 /\ n \in Int /\ n > 0
      /\ \A code \in AllCodes : Selected(l, code) = Item(l, y, code)
  BY ShownAlike
<1>2. {"net", "equity", "shares"} \subseteq AllCodes \intersect LatestYearCodes
  BY DEF AllCodes, LatestYearCodes, EngineItems, OwnerEarningsItems
<1>3. Items(l, y)["net"] = net /\ Items(l, y)["equity"] = equity /\ Items(l, y)["shares"] = n
  BY <1>2 DEF Items
<1>4. DetailItems(l)["net"] = net /\ DetailItems(l)["equity"] = equity /\ DetailItems(l)["shares"] = n
  BY <1>1, <1>2 DEF DetailItems
<1>5. ("bank" \in words) = bank /\ (words \intersect FinancialWords # {}) = financial
  BY <1>1 DEF Plain, FinancialWords
<1> HIDE DEF y, net, equity, n, own, words, bank, financial
<1>6. None \notin Int
  BY ListingsFit DEF ListingsFit
<1>7. Known(net) /\ Known(equity) /\ Positive(equity) /\ Positive(n)
  BY <1>1, <1>6 DEF Known, Positive
<1>8. ScreenerInputs(l) = Inputs(l, s1, bank, financial, facts, q1, e1, b, roe)
  BY <1>3, <1>5, <1>7 DEF ScreenerInputs, y, own, words
<1>9. DetailInputs(l) = Inputs(l, l.industry, bank, financial, facts, q2, e2, b, Percent(roe))
  BY <1>4, <1>7, FactsAlike DEF DetailInputs, y, own, bank, financial
<1>10. b > 0 /\ Size(roe) > 10
  <2>1. b > 0
    BY <1>1, <1>7 DEF WellKept, equity, n
  <2>2. l \in Listings /\ Profitable(l)
    BY DEF Shown
  <2> QED BY <1>3, <2>1, <2>2 DEF Profitable, y
<1> HIDE DEF b, roe, facts, e1, e2, q1, q2, s1
<1>11. Read(e1) = Read(e2) /\ Positive(b) /\ Percent(roe) = roe
  BY <1>1, <1>10, SharesAlike DEF e1, e2, b, roe
<1>12. Placed(l.symbol, s1, bank) = Placed(l.symbol, l.industry, bank)
  <2>1. CASE l.industry # None
    BY <2>1 DEF s1
  <2>2. CASE l.industry = None
    <3>1. ~bank /\ s1 = {"unclassified"} /\ Known(s1) /\ ~Known(l.industry)
      BY <2>2, ListingsFit DEF bank, own, s1, Known, ListingsFit
    <3> QED BY <3>1, UnplacedAlike DEF Placed
  <2> QED BY <2>1, <2>2
<1>13. Essence(ScreenerInputs(l)) = Question(l, Placed(l.symbol, s1, bank), bank, financial, facts, None, Read(e1), Read(b), roe)
  BY <1>8, <1>11, EssenceFacts
<1>14. Essence(DetailInputs(l)) = Question(l, Placed(l.symbol, l.industry, bank), bank, financial, facts, None, Read(e2), Read(b), Percent(roe))
  BY <1>9, <1>11, EssenceFacts
<1> QED BY <1>11, <1>12, <1>13, <1>14

(* So whatever company an evaluation starts with, the screener asks about it *)
(* what its page asked (screener.py:165-170)                                 *)
THEOREM ListIsThePage == MarketSpec => []ListMatchesPages
<1>1. ListMatchesPages
  BY ListAsksWhatThePageAsks DEF ListMatchesPages, ListMatchesPage
<1> QED BY <1>1, PTL DEF MarketSpec
===============================================================================
