-------------------------- MODULE NumericValidation --------------------------
(***************************************************************************)
(* The validation gate of the value engine (value_engine/validation/*.py): *)
(* what a list of yearly facts says about itself.  Each year that moves    *)
(* unusually is given a classification, and the history is split into      *)
(* regimes; the engine values the company on what the gate lets through.   *)
(*                                                                         *)
(* A history is a sequence of rows, one a fiscal year, in the order of the *)
(* years; years may be missing, and a fact may be None.  z-scores and      *)
(* ratios are integers in thousandths, rounded down; coherence,            *)
(* persistence and reversion are in hundredths, as the code rounds them.   *)
(***************************************************************************)
EXTENDS Integers, Sequences, FiniteSets, FiniteSetsExt, SequencesExt

CONSTANT None     \* a fact the source does not have

Metrics == {"revenue", "net_profit", "operating_cash_flow", "equity", "total_debt",
            "shares_outstanding"}
OperatingMetrics == {"revenue", "net_profit", "operating_cash_flow"}
RegimeMetrics == {"revenue", "net_profit", "equity", "total_debt"}

Unusual == 2500
Strong == 3500
Clamp == 10000

Known(x) == x # None
Positive(x) == Known(x) /\ x > 0
Size(x) == IF x < 0 THEN -x ELSE x
Thousandths(a, b) == (1000 * a) \div b
Hundredths(a, b) == ((200 * a) \div b + 1) \div 2

(* Numbers in their order *)
Ascending(S) ==
  [i \in 1 .. Cardinality(S) |-> CHOOSE x \in S : Cardinality({y \in S : y < x}) = i - 1]

Median(s) ==
  LET n == Len(s)
      ordered == SortSeq(s, LAMBDA a, b : a < b)
  IN  CASE n = 0 -> None
        [] n % 2 = 1 -> ordered[n \div 2 + 1]
        [] OTHER -> (ordered[n \div 2] + ordered[n \div 2 + 1]) \div 2

Facts(rows, metric) ==
  LET known == SelectSeq(rows, LAMBDA r : Known(r[metric]))
  IN  [i \in DOMAIN known |-> known[i][metric]]

Years(h) == {h[i].year : i \in DOMAIN h}
RowsOf(h, years) == SelectSeq(h, LAMBDA r : r.year \in years)
Window(h, first, last) == SubSeq(h, Max({1, first}), Min({Len(h), last}))

(***************************************************************************)
(* Anomalies                                                               *)
(***************************************************************************)
(* In parts of four thousand, finer than the scores made from it *)
SymmetricChange(p, q) == (4000 * (q - p)) \div ((p + q) \div 2)

(* robust_z: deviations from the median over the median deviation; a series *)
(* that hardly moves makes every other move extreme                         *)
RobustZ(deltas) ==
  LET med == Median(deltas)
      mad == Median([i \in DOMAIN deltas |-> Size(deltas[i] - med)])
      z(d) == IF d = med THEN 0
              ELSE IF mad = 0 THEN IF d > med THEN Clamp ELSE -Clamp
              ELSE Max({-Clamp, Min({Clamp, (6745 * (d - med)) \div (10 * mad)})})
  IN  [i \in DOMAIN deltas |-> IF Len(deltas) < 3 THEN 0 ELSE z(deltas[i])]

ScoresOf(h, metric) ==
  LET series == SelectSeq(h, LAMBDA r : Positive(r[metric]))
      z == RobustZ([i \in 1 .. Len(series) - 1 |->
                      SymmetricChange(series[i][metric], series[i + 1][metric])])
  IN  [y \in {series[i + 1].year : i \in DOMAIN z} |->
         z[CHOOSE i \in DOMAIN z : series[i + 1].year = y]]

(* compute_year_metric_scores: for each year, the metrics it has a move of *)
ByYear(scores) ==
  [y \in UNION {DOMAIN scores[metric] : metric \in DOMAIN scores} |->
     [metric \in {k \in DOMAIN scores : y \in DOMAIN scores[k]} |-> scores[metric][y]]]

YearScores(h, ignored) == ByYear([metric \in Metrics \ ignored |-> ScoresOf(h, metric)])

(* detect_unit_jumps: a hundredfold move that nothing else confirms *)
UnitJumps(h, ignored) ==
  LET moves(i, k) == Positive(h[i - 1][k]) /\ Known(h[i][k])
      others(i, metric) == {k \in (OperatingMetrics \union {"equity"}) \ (ignored \union {metric}) : moves(i, k)}
  IN  {h[i].year : i \in {j \in 2 .. Len(h) : \E metric \in OperatingMetrics \ ignored :
         /\ Positive(h[j - 1][metric]) /\ Positive(h[j][metric])
         /\ h[j][metric] > 100 * h[j - 1][metric]
         /\ others(j, metric) # {}
         /\ \A k \in others(j, metric) : 5 * Size(h[j][k] - h[j - 1][k]) < h[j - 1][k]}}

(* numeric_layer_1_checks *)
LayerOneIssues(h) ==
  {h[i].year : i \in {j \in DOMAIN h :
     \/ Known(h[j].shares_outstanding) /\ h[j].shares_outstanding <= 0
     \/ Known(h[j].equity) /\ h[j].equity < 0 /\ Positive(h[j].revenue)}}

(***************************************************************************)
(* Coherence                                                               *)
(***************************************************************************)
(* 100000 times exp(-d/20), a tenth of a z-score a step up to 3.5 *)
Similarity[d \in 0 .. 35] == IF d = 0 THEN 100000 ELSE (Similarity[d - 1] * 9512) \div 10000

(* pairwise_coherence of the scores of a year *)
Coherence(z) ==
  LET capped(k) == Max({-Strong, Min({Strong, z[k]})})
      pairs == {p \in kSubset(2, DOMAIN z) : \A k \in p : z[k] # 0}
      agreement(p) ==
        LET a == CHOOSE k \in p : TRUE
            b == CHOOSE k \in p : k # a
        IN  IF (z[a] > 0) = (z[b] > 0)
            THEN Similarity[(Size(capped(a) - capped(b)) + 50) \div 100] ELSE 0
  IN  IF pairs = {} THEN 0 ELSE Hundredths(MapThenSumSet(agreement, pairs) \div Cardinality(pairs), 100000)

(***************************************************************************)
(* Regimes and cycles                                                      *)
(***************************************************************************)
Shifted(pre, post, least) == 1000 * Size(post - pre) > least * pre

(* persistence_score: the metrics whose level of this year and the two next *)
(* has left the level of the two before, by fiscal year                      *)
Persistence(h, y) ==
  LET pre(k) == Median(Facts(RowsOf(h, {y - 2, y - 1}), k))
      post(k) == Median(Facts(RowsOf(h, y .. y + 2), k))
      compared == {k \in RegimeMetrics : Positive(pre(k)) /\ Known(post(k))}
  IN  IF compared = {} THEN 0
      ELSE Hundredths(Cardinality({k \in compared : Shifted(pre(k), post(k), 500)}), Cardinality(compared))

(* mean_reversion_score: how far two years later has come back *)
MeanReversion(h, y) ==
  LET row(year) == RowsOf(h, {year})
      pre(k) == Median(Facts(RowsOf(h, {y - 2, y - 1}), k))
      at(k, year) == IF row(year) = <<>> THEN None ELSE row(year)[1][k]
      compared == {k \in OperatingMetrics : Known(pre(k)) /\ Known(at(k, y)) /\ Known(at(k, y + 2))}
      score(k) ==
        LET away == Size(at(k, y) - pre(k))
        IN  IF away = 0 THEN 1000
            ELSE Max({0, 1000 - Thousandths(Size(at(k, y + 2) - pre(k)), away)})
  IN  IF compared = {} THEN 0 ELSE Hundredths(MapThenSumSet(score, compared), 1000 * Cardinality(compared))

(* year_changes, between two rows *)
ChangeOf(h, i, k) ==
  IF Positive(h[i - 1][k]) /\ Positive(h[i][k])
  THEN Thousandths(h[i][k] - h[i - 1][k], h[i - 1][k]) ELSE 0

LeastLarge == [k \in RegimeMetrics |-> IF k \in {"revenue", "net_profit"} THEN 600 ELSE 500]

LargeChanges(h, i) == {k \in RegimeMetrics : Size(ChangeOf(h, i, k)) >= LeastLarge[k]}

(* _persistent_shift, by row *)
PersistentShift(h, i) ==
  LET pre == Median(Facts(Window(h, i - 2, i - 1), "revenue"))
      post == Median(Facts(Window(h, i, i + 2), "revenue"))
  IN  Positive(pre) /\ Known(post) /\ Shifted(pre, post, 500)

(* Revenue after the break is still on its way to the next one *)
Ramping(h, i) ==
  LET post == ToSet(Facts(Window(h, i, i + 2), "revenue"))
  IN  /\ Len(Facts(Window(h, i, i + 2), "revenue")) >= 2
      /\ Min(post) > 0 /\ 10 * Max(post) > 25 * Min(post)

(* Profit doubles and is gone within three years *)
PeaksAndReverts(h, i) ==
  /\ ChangeOf(h, i, "net_profit") >= 1000
  /\ \E j \in i + 1 .. Min({Len(h), i + 3}) :
       Positive(h[j].net_profit) /\ 10 * h[j].net_profit <= 6 * h[i].net_profit

BreakConfidence(h, i) ==
  LET large == LargeChanges(h, i)
      old == h[i - 1].shares_outstanding
      new == h[i].shares_outstanding
      issued == Positive(old) /\ Known(new) /\ 10 * Size(new - old) >= 3 * old
  IN  IF Cardinality(large) >= 4 \/ issued \/ "equity" \in large THEN "HIGH" ELSE "MEDIUM"

(* detect_structural_breaks: the rows that start a new scale *)
StructuralBreaks(h) ==
  {i \in 2 .. Len(h) :
     /\ "revenue" \in LargeChanges(h, i) /\ Cardinality(LargeChanges(h, i)) >= 3
     /\ PersistentShift(h, i) /\ ~Ramping(h, i) /\ ~PeaksAndReverts(h, i)}

(* build_regimes: [first, last] years, split at each break.  The confidence *)
(* of a regime is that of the break that ends it.                            *)
Between(h, starts) ==
  [n \in DOMAIN starts |->
     [first |-> starts[n],
      last |-> IF n = Len(starts) THEN h[Len(h)].year ELSE starts[n + 1] - 1,
      confidence |-> IF n = Len(starts) THEN None
                     ELSE BreakConfidence(h, CHOOSE i \in DOMAIN h : h[i].year = starts[n + 1])]]

Regimes(h) == Between(h, Ascending({h[1].year} \union {h[i].year : i \in StructuralBreaks(h)}))

(* latest_comparable_regime: every year from its first to its last *)
LatestYears(regimes) == Last(regimes).first .. Last(regimes).last

(* detect_cycle_extremes *)
CycleExtremes(h, ignored) ==
  LET both(i, k) == Known(h[i - 1][k]) /\ Known(h[i][k]) /\ h[i - 1][k] > 0
      holds(i, j) == Positive(h[j].net_profit) /\ 10 * h[j].net_profit >= 15 * h[i - 1].net_profit
      span(i) == 1 + (IF i + 1 <= Len(h) /\ holds(i, i + 1)
                      THEN 1 + (IF i + 2 <= Len(h) /\ holds(i, i + 2) THEN 1 ELSE 0) ELSE 0)
      after(i) == Window(h, i + span(i), i + span(i) + 2)
      peak(i) == Max({0} \union ToSet(Facts(Window(h, i, i + span(i) - 1), "net_profit")))
      level(i) == Median(Facts(after(i), "revenue"))
  IN  {h[i].year : i \in {j \in 2 .. Len(h) :
         /\ ChangeOf(h, j, "net_profit") >= 1000
         /\ "operating_cash_flow" \notin ignored /\ both(j, "operating_cash_flow")
              /\ h[j].operating_cash_flow > 0
              => h[j].operating_cash_flow >= 2 * h[j - 1].operating_cash_flow
         /\ both(j, "revenue") /\ h[j].revenue # 0 => h[j].revenue > h[j - 1].revenue
         /\ \E n \in DOMAIN after(j) :
              Positive(after(j)[n].net_profit) /\ 10 * after(j)[n].net_profit <= 6 * peak(j)
         /\ Known(level(j)) /\ Known(h[j].revenue) /\ h[j].revenue # 0 => level(j) < 2 * h[j].revenue}}

(***************************************************************************)
(* Materiality                                                             *)
(***************************************************************************)
NotComputed == [impact |-> None, grade |-> "UNKNOWN"]
NotApplicable == [impact |-> 0, grade |-> "IMMATERIAL"]
Blocking(m) == m.grade \in {"MATERIAL", "CRITICAL"}

Graded(impact) ==
  [impact |-> impact,
   grade |-> IF impact < 50 THEN "IMMATERIAL" ELSE IF impact < 150 THEN "LOW"
             ELSE IF impact < 250 THEN "MATERIAL" ELSE "CRITICAL"]

(* assess_materiality: the median margin without the year.  The margins are *)
(* those of the profitable rows, paired with the rows from the first on: a   *)
(* loss before the year makes another year the one that is left out.         *)
Materiality(h, y, window) ==
  LET rows == IF window = {} THEN h ELSE RowsOf(h, window)
      profitable == SelectSeq(rows, LAMBDA r : Positive(r.net_profit) /\ Positive(r.revenue))
      margins == [i \in DOMAIN profitable |-> (10000 * profitable[i].net_profit) \div profitable[i].revenue]
      kept == SelectSeq([i \in DOMAIN margins |-> [year |-> rows[i].year, margin |-> margins[i]]],
                        LAMBDA r : r.year # y)
      base == Median(margins)
      alt == Median(Facts(kept, "margin"))
  IN  IF Len(margins) < 3 \/ base = 0 THEN NotComputed
      ELSE Graded(Thousandths(Size(alt - base), base))

(***************************************************************************)
(* The gate                                                                *)
(***************************************************************************)
(* The level at which a year takes part in the valuation *)
Relevance(y, z, latest, normalization, regime) ==
  IF "shares_outstanding" \in DOMAIN z /\ Size(z["shares_outstanding"]) >= Strong THEN "PER_SHARE_INPUT"
  ELSE IF y = latest THEN "VALUATION_INPUT"
  ELSE IF y \in normalization THEN "NORMALIZATION_INPUT"
  ELSE IF y \in regime THEN "REGIME_INPUT"
  ELSE "HISTORICAL_CONTEXT"

(* _classify_year: the scores of a year *)
Evidence(h, y, z) ==
  LET top == Max({0} \union {Size(z[k]) : k \in DOMAIN z})
      a == IF DOMAIN z = {} THEN 0
           ELSE Thousandths(Cardinality({k \in DOMAIN z : Size(z[k]) >= Unusual}), Cardinality(DOMAIN z))
      c == Coherence(z)
      p == Persistence(h, y)
  IN  [a |-> a, c |-> c,
       strong |-> {k \in DOMAIN z : Size(z[k]) >= Strong},
       regime |-> (a * c * p + 5000) \div 10000,
       cycle  |-> (a * c * MeanReversion(h, y) * (100 - p) + 500000) \div 1000000,
       bad    |-> (Min({1000, Thousandths(top, Strong)}) * (100 - c) * (100 - p) + 5000) \div 10000]

(* The decision table, in its order *)
Class(e, jump, breaks, relevance, m) ==
  LET alone(k, others) == k \in e.strong /\ e.strong \intersect others = {}
      impact == IF Known(m.impact) THEN m.impact ELSE 0
      material == Blocking(m) \/ impact >= 150
  IN
  IF jump THEN "UNIT_MAPPING_ERROR_CANDIDATE"
  ELSE IF breaks /\ e.regime >= 80 THEN "STRUCTURAL_REGIME_BREAK"
  ELSE IF e.regime >= 150 THEN "STRUCTURAL_BREAK_CANDIDATE"
  ELSE IF e.cycle >= 50 /\ e.a >= 350 /\ e.c >= 35 THEN "CYCLICAL_EXTREME"
  ELSE IF alone("net_profit", {"revenue", "operating_cash_flow"}) /\ e.a < 400 THEN "EARNINGS_ONE_OFF_CANDIDATE"
  ELSE IF alone("operating_cash_flow", {"revenue", "net_profit"}) /\ e.a < 400 THEN "CASHFLOW_TIMING_CANDIDATE"
  ELSE IF alone("shares_outstanding", OperatingMetrics) THEN "SHARE_STRUCTURE_CHANGE"
  ELSE IF \/ Blocking(m) /\ impact >= 150 /\ e.c < 40 /\ e.a < 500
          \/ relevance \in {"VALUATION_INPUT", "PER_SHARE_INPUT"} /\ material THEN "UNRESOLVED_MATERIAL"
  ELSE IF e.bad >= 600 /\ e.a < 500 THEN "UNIT_MAPPING_ERROR_CANDIDATE"
  ELSE "SUSPICIOUS_ISOLATED"

(* What is done with the year's facts *)
Included(class) ==
  class \notin {"UNIT_MAPPING_ERROR_CANDIDATE", "EARNINGS_ONE_OFF_CANDIDATE", "UNRESOLVED_MATERIAL"}

ExcludedMetrics(class, jump, z) ==
  LET anomalous == {k \in DOMAIN z : Size(z[k]) >= Unusual} IN
  CASE class = "EARNINGS_ONE_OFF_CANDIDATE" -> {"net_profit"}
    [] class = "UNIT_MAPPING_ERROR_CANDIDATE" ->
         IF jump /\ anomalous = {} THEN {"revenue"} ELSE anomalous
    [] OTHER -> {}

Resolved(class, relevance, m, coherence, jump, scores) ==
  [class |-> class, relevance |-> relevance, impact |-> m.impact, grade |-> m.grade,
   coherence |-> coherence, include |-> Included(class),
   exclude |-> ExcludedMetrics(class, jump, scores), block |-> class = "UNRESOLVED_MATERIAL"]

Assessed(e, jump, break, relevance, m, scores) ==
  Resolved(Class(e, jump, break, relevance, m), relevance, m, e.c, jump, scores)

Resolution(h, y, z, normalization, regime) ==
  LET scores == IF y \in DOMAIN z.table THEN z.table[y] ELSE [k \in {} |-> 0]
      relevance == Relevance(y, scores, h[Len(h)].year, normalization, regime)
  IN  Assessed(Evidence(h, y, scores), y \in z.jumps, y \in z.breaks, relevance,
               IF relevance \in {"HISTORICAL_CONTEXT", "REGIME_INPUT"} THEN NotApplicable
               ELSE Materiality(h, y, regime), scores)

(* _validation_confidence *)
Confidence(h, resolutions, issues, jumps) ==
  LET years == DOMAIN resolutions
      n == Cardinality(years)
      bad == {y \in years : resolutions[y].class \in {"UNRESOLVED_MATERIAL", "UNIT_MAPPING_ERROR_CANDIDATE"}}
      c == IF n = 0 THEN 50 ELSE Max({resolutions[y].coherence : y \in years})
      resolved == IF n = 0 THEN 1000 ELSE 1000 - Thousandths(Cardinality(bad), n)
      impact == Max({0} \union {resolutions[y].impact : y \in {x \in years : Known(resolutions[x].impact)}})
      broken == \E y \in years : resolutions[y].class = "STRUCTURAL_REGIME_BREAK"
      total == 20 * (IF issues = {} /\ jumps = {} THEN 1000 ELSE 0) + 200 * c
               + 15 * (IF broken THEN 500 ELSE 800) + 15 * resolved
               + 15 * (1000 - impact) + 15 * Min({100 * Len(h), 1000})
  IN  Max({0, Min({100, (total + 500) \div 1000})})

ConfidenceLevel(v) ==
  IF v >= 90 THEN "HIGH" ELSE IF v >= 75 THEN "MEDIUM" ELSE IF v >= 60 THEN "LOW" ELSE "UNVERIFIED"

NoResolutions == [y \in {} |-> NotComputed]

(* What the gate says of the events of a history *)
Findings(h, z, regimes, resolutions) ==
  LET unresolved == {y \in DOMAIN resolutions : resolutions[y].class = "UNRESOLVED_MATERIAL"}
      suspicious == {y \in DOMAIN resolutions : resolutions[y].class = "SUSPICIOUS_ISOLATED" /\ Blocking(resolutions[y])}
  IN  [resolutions |-> resolutions, unresolved |-> unresolved, regimes |-> regimes, latest |-> LatestYears(regimes),
       numeric |-> IF unresolved # {} \/ z.jumps # {} THEN "LOW"
                   ELSE IF suspicious # {} THEN "MEDIUM" ELSE "HIGH",
       status |-> IF z.jumps # {} \/ LayerOneIssues(h) # {} THEN "CONFLICTED"
                  ELSE IF unresolved # {} THEN "SUSPICIOUS"
                  ELSE IF DOMAIN resolutions # {} THEN "VALID_WITH_CLASSIFIED_EVENTS"
                  ELSE "VALID",
       confidence |-> Confidence(h, resolutions, LayerOneIssues(h), z.jumps)]

(* The years that moved, and the regime and the normalisation they are read  *)
(* with: on the first run, when both are None, the latest regime and its      *)
(* last year                                                                   *)
Gate(h, z, extremes, regimes, normalization, regime) ==
  LET moved == {y \in DOMAIN z.table : \E k \in DOMAIN z.table[y] : Size(z.table[y][k]) >= Unusual}
      latest == LatestYears(regimes)
      norm == IF normalization = None THEN {Max(latest)} ELSE normalization
  IN  Findings(h, z, regimes,
               [y \in moved \union extremes \union z.breaks \union z.jumps |->
                  Resolution(h, y, z, norm, IF regime = None THEN latest ELSE regime)])

Insufficient ==
  [resolutions |-> NoResolutions, unresolved |-> {}, regimes |-> <<>>, latest |-> None,
   numeric |-> "HIGH", status |-> "INSUFFICIENT", confidence |-> 60]

(* run_validation_gate *)
Validate(h, financial, normalization, regime) ==
  LET ignored == IF financial THEN {"operating_cash_flow"} ELSE {}
  IN  IF Len(h) < 2 THEN Insufficient
      ELSE Gate(h, [table |-> YearScores(h, ignored), jumps |-> UnitJumps(h, ignored),
                    breaks |-> {h[i].year : i \in StructuralBreaks(h)}],
                CycleExtremes(h, ignored), Regimes(h), normalization, regime)
=============================================================================
