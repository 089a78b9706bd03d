--------------------------- MODULE FactorResearch ---------------------------
(***************************************************************************)
(* The factor research of research/: what was known of a listing on a date *)
(* (snapshots), what its price did afterwards against the index (outcomes),*)
(* and whether a factor told the one from the other (validation), with a   *)
(* last period sealed off from everything but a final test.                *)
(*                                                                         *)
(* The model follows where a number comes from, not the number: a price is *)
(* the session it was made in, a return the pair of sessions it spans, a   *)
(* metric the dates it is taken over.  Dates are days, months and years    *)
(* have the same length each (so the 29th of February is left out), and    *)
(* one run is followed through its commands.                               *)
(***************************************************************************)
EXTENDS Integers, FiniteSets, FiniteSetsExt

CONSTANTS Symbols, Filings,      \* the facts the crawler may find: [symbol, period, end]
          Lag,                 \* DEFAULT_LAGS: "FY", "QUARTER" -> days
          LastDay, MonthDays, YearDays, FetchDays,
          Indexes,             \* what the index may do: session -> close
          Suspensions,         \* the days a listing may be suspended
          Horizons, Lookback,  \* in sessions
          MinCrossSection, MinObservations, Quantiles,
          Configs,             \* of the validation: ResearchConfig
          AskedDates,          \* bound: the dates asked of build-snapshots, two at most
          None

Days == 1 .. LastDay

(* A horizon and a look-back are at least one session, a configuration is    *)
(* dates within the bound; ValidConfig, not this, is what __post_init__ asks *)
ResearchConstants ==
  /\ None \notin Int \cup (Int \X Int)
  /\ {LastDay, MonthDays, YearDays, Lookback, MinObservations} \subseteq Nat \ {0} /\ FetchDays \in Nat
  /\ {MinCrossSection, Quantiles} \subseteq Nat /\ Horizons \subseteq Nat \ {0}
  /\ IsFiniteSet(Symbols) /\ AskedDates \subseteq Days
  /\ \A i \in Indexes : DOMAIN i \subseteq Days
  /\ \A c \in Configs :
       /\ {c.research_start, c.snapshot_end, c.train_years, c.validation_years} \subseteq Nat
       /\ {c.sealed_start, c.sealed_end, c.research_end} \subseteq Days \cup {None}

VARIABLES today,
          index,       \* the close of the index on every session there will be
          traded,      \* symbol -> the sessions it trades in
          canonical,   \* canonical_facts
          market,      \* market_prices: symbol -> the sessions stored
          bars,        \* research_stock_prices: symbol -> the sessions stored
          benchmark,   \* research_benchmark_prices: the sessions stored
          run,         \* the command sequence: [kind, at, usable]
          snapshots,   \* research_factor_snapshots of the run
          outcomes,    \* research_factor_outcomes: <<date, symbol, horizon>> -> label
          config, result
vars == <<today, index, traded, canonical, market, bars, benchmark, run, snapshots, outcomes, config, result>>

Until(S, d) == {x \in S : x <= d}

(***************************************************************************)
(* Sessions                                                                *)
(***************************************************************************)
AsOf(S, d) == IF Until(S, d) = {} THEN None ELSE Max(Until(S, d))

(* The n-th session after, and before, one of them *)
Later(S, base, n) ==
  LET E == {x \in S : x > base} IN
  IF Cardinality(E) < n THEN None ELSE CHOOSE x \in E : Cardinality(Until(E, x)) = n

Earlier(S, base, n) ==
  LET E == {x \in S : x <= base} IN
  IF Cardinality(E) <= n THEN None ELSE CHOOSE x \in E : Cardinality({y \in E : y > x}) = n

(***************************************************************************)
(* Point in time                                                           *)
(***************************************************************************)
(* No row of canonical_facts has a date of publication, so availability is *)
(* always the end of the period and a lag; the same fact of two providers   *)
(* is one here, and so the choice between versions of a fact is left out     *)
AvailableFrom(f) == f.end + Lag[f.period]

FactsAsOf(facts, d) == {f \in facts : AvailableFrom(f) <= d}

Momentum(S, lookback, skip) ==
  LET now == Earlier(S, Max(S), skip) IN
  IF S = {} \/ now = None THEN None
  ELSE IF Earlier(S, now, lookback) = None THEN None ELSE <<Earlier(S, now, lookback), now>>

(* build_snapshot_row, with the sessions the price provider has *)
Row(s, d, facts, sessions) ==
  LET known == FactsAsOf({f \in facts : f.symbol = s}, d)
      past == Until(sessions, d)
      price == AsOf(sessions, d)
      reported == \E f \in known : f.period = "FY"
  IN  [symbol |-> s, date |-> d, facts |-> known, price |-> price,
       value_factor |-> IF reported /\ price # None THEN <<known, price>> ELSE None,
       quality_factor |-> IF reported THEN known ELSE None,
       momentum |-> Momentum(past, Lookback, 0),
       momentum_12_1 |-> Momentum(past, Lookback, 1)]

Factors == {"value_factor", "quality_factor", "momentum", "momentum_12_1"}

(***************************************************************************)
(* Outcomes                                                                *)
(***************************************************************************)
(* Of the horizon after the last price known at the date *)
StockLeg_Filled(S, d, h) ==
  LET base == AsOf(S, d) IN
  IF base = None THEN None
  ELSE <<base, IF Later(S, base, h) = None THEN Max(S) ELSE Later(S, base, h)>>

StockLeg(S, d, h) ==
  LET base == AsOf(S, d) IN
  IF base = None THEN None
  ELSE IF Later(S, base, h) = None THEN None ELSE <<base, Later(S, base, h)>>

(* Of the index, from the first session of the listing at or after the date *)
IndexLeg(I, S, d, h) ==
  LET after == {x \in S : x >= d} IN
  IF after = {} \/ I = {} THEN None
  ELSE LET base == Min(after)
           end == Later(S, base, h)
       IN  IF end = None \/ AsOf(I, base) = None THEN None ELSE <<AsOf(I, base), AsOf(I, end)>>

Label(I, S, d, h) ==
  LET stock == StockLeg(S, d, h)  bench == IndexLeg(I, S, d, h) IN
  [stock |-> stock, bench |-> bench, excess |-> stock # None /\ bench # None]

(***************************************************************************)
(* Walk forward                                                            *)
(***************************************************************************)
Sealed(c) == c.sealed_start # None
ValidConfig(c) ==
  /\ c.train_years > 0 /\ c.validation_years > 0
  /\ (c.sealed_start = None) = (c.sealed_end = None)
  /\ Sealed(c) => c.sealed_start < c.sealed_end /\ c.research_start < c.sealed_start
  /\ Sealed(c) /\ c.research_end # None => c.sealed_end <= c.research_end

ResearchCutoff_Inclusive(c) ==
  IF Sealed(c) THEN c.sealed_start ELSE IF c.research_end # None THEN c.research_end ELSE today
ResearchCutoff(c) ==
  IF Sealed(c) THEN c.sealed_start - 1 ELSE IF c.research_end # None THEN c.research_end ELSE today

WalkForwardWindows(c) ==
  LET step == c.validation_years * YearDays
      first == c.research_start + c.train_years * YearDays
  IN  {[valid_start |-> first + k * step, valid_end |-> Min({first + (k + 1) * step - 1, ResearchCutoff(c)})] :
         k \in {k \in 0 .. LastDay : first + k * step <= ResearchCutoff(c)}}

IsSealed(c, d) == Sealed(c) /\ d \in c.sealed_start .. c.sealed_end

(***************************************************************************)
(* Validation                                                              *)
(***************************************************************************)
(* The dates of a cross-section large enough: rank correlations, quantiles *)
Dates(rows, factor, h, labels, least) ==
  {d \in {r.date : r \in rows} :
     Cardinality({r \in rows : r.date = d /\ r[factor] # None /\ labels[<<d, r.symbol, h>>].excess}) >= least}

(* Those with a rank correlation: not the flat ones, where the factor or the *)
(* return is the same for every listing; which these are is left open         *)
FlatDates(factor, h, labels) == SUBSET Dates(snapshots, factor, h, labels, MinCrossSection)

Ranked(rows, factor, h, labels, flat) == Dates(rows, factor, h, labels, MinCrossSection) \ flat

(* Dates that count for a spread between quantiles, and for the windows *)
SpreadDates(rows, factor, h, labels) == Dates(rows, factor, h, labels, Quantiles)

WindowDates(rows, windows, factor, h, labels, flat) ==
  UNION {Ranked({r \in rows : r.date \in w.valid_start .. w.valid_end}, factor, h, labels, flat) : w \in windows}

(* A metric over no date is missing; what it is otherwise is left open *)
Metric(dates) == IF dates = {} THEN {"missing"} ELSE {"failing", "passing"}

FactorVerdict_AnyOos(count, m) ==
  IF count < MinObservations THEN "INSUFFICIENT_DATA"
  ELSE IF m.mean # "passing" THEN "REJECTED"
  ELSE IF m.ratio # "passing" \/ m.spread # "passing" THEN "WEAK"
  ELSE IF m.walk # "passing" \/ m.oos = "failing" THEN "UNSTABLE"
  ELSE IF m.median # "passing" THEN "WEAK"
  ELSE "VALIDATED"

FactorVerdict(count, m) ==
  IF count < MinObservations THEN "INSUFFICIENT_DATA"
  ELSE IF m.mean # "passing" THEN "REJECTED"
  ELSE IF m.ratio # "passing" \/ m.spread # "passing" THEN "WEAK"
  ELSE IF m.walk # "passing" \/ m.oos # "passing" THEN "UNSTABLE"
  ELSE IF m.median # "passing" THEN "WEAK"
  ELSE "VALIDATED"

(* validate_factor, with the verdicts it may come to *)
Validation(c, factor, h, labels, flat) ==
  LET tuning == {r \in snapshots : ~IsSealed(c, r.date)}
      sealed == snapshots \ tuning
      windows == WalkForwardWindows(c)
      ic == Ranked(tuning, factor, h, labels, flat)
      oos == Ranked(sealed, factor, h, labels, flat)
      walk == WindowDates(tuning, windows, factor, h, labels, flat)
      spread == SpreadDates(tuning, factor, h, labels)
      metrics == [mean : Metric(ic), ratio : Metric(ic), median : Metric(ic), spread : Metric(spread),
                  walk : Metric(walk), oos : Metric(oos)]
  IN  [horizon |-> h, tuning |-> tuning, sealed |-> sealed, windows |-> windows, ic |-> ic, oos |-> oos, walk |-> walk,
       verdicts |-> {FactorVerdict(Cardinality(ic), m) : m \in metrics}]

(***************************************************************************)
(* Around the research: days pass, the crawler finds facts, the screener   *)
(* stores the prices of the last weeks                                      *)
(***************************************************************************)
NoRun == [kind |-> "none", at |-> "none", usable |-> {}]

Init ==
  /\ today = 1 /\ index \in Indexes
  /\ traded \in [Symbols -> {DOMAIN index \ gone : gone \in Suspensions}]
  /\ canonical = {} /\ market = [s \in Symbols |-> {}] /\ bars = [s \in Symbols |-> {}] /\ benchmark = {}
  /\ run = NoRun /\ snapshots = {} /\ outcomes = <<>>
  /\ config = None /\ result = None

Tick ==
  /\ today < LastDay
  /\ today' = today + 1
  /\ UNCHANGED <<index, traded, canonical, market, bars, benchmark, run, snapshots, outcomes, config, result>>

Crawl ==
  /\ \E f \in Filings \ canonical : f.end <= today /\ canonical' = canonical \cup {f}
  /\ UNCHANGED <<today, index, traded, market, bars, benchmark, run, snapshots, outcomes, config, result>>

ScreenerStores ==
  /\ \E s \in Symbols :
       LET seen == {x \in traded[s] : x <= today /\ x > today - FetchDays} IN
       ~(seen \subseteq market[s]) /\ market' = [market EXCEPT ![s] = @ \cup seen]
  /\ UNCHANGED <<today, index, traded, canonical, bars, benchmark, run, snapshots, outcomes, config, result>>

(***************************************************************************)
(* run-full-research                                                       *)
(***************************************************************************)
(* A listing whose prices cannot be fetched is left out *)
FetchPrices ==
  /\ run.at = "none"
  /\ Cardinality({index[x] : x \in Until(DOMAIN index, today)}) > 1   \* validate_benchmark_points
  /\ \E fetched \in SUBSET Symbols :
       /\ bars' = [s \in Symbols |-> bars[s] \cup (IF s \in fetched THEN Until(traded[s], today) ELSE {})]
       /\ run' = [kind |-> "full", at |-> "prices", usable |-> {s \in fetched : Until(traded[s], today) # {}}]
  /\ benchmark' = Until(DOMAIN index, today)
  /\ config' \in Configs
  /\ UNCHANGED <<today, index, traded, canonical, market, snapshots, outcomes, result>>

(* monthly_snapshot_dates: of each month the session of the highest close, *)
(* the first of them                                                        *)
Month(d) == (d - 1) \div MonthDays
MonthlyDates ==
  LET grid == benchmark \cap (config.research_start .. config.snapshot_end) IN
  {d \in grid : \A x \in grid : Month(x) = Month(d) => index[x] < index[d] \/ (index[x] = index[d] /\ d <= x)}

BuildSnapshots ==
  /\ run.kind = "full" /\ run.at = "prices"
  /\ snapshots' = {Row(s, d, canonical, bars[s]) : s \in run.usable, d \in MonthlyDates}
  /\ run' = [run EXCEPT !.at = "snapshots"]
  /\ UNCHANGED <<today, index, traded, canonical, market, bars, benchmark, outcomes, config, result>>

(***************************************************************************)
(* build-snapshots, build-outcomes, validate-factor: a run of its own,     *)
(* after or instead of the other                                            *)
(***************************************************************************)
CmdBuildSnapshots ==
  /\ run.kind # "cli"
  /\ \E dates \in SUBSET AskedDates :
       /\ Cardinality(dates) \in {1, 2}
       /\ snapshots' = {Row(s, d, canonical, market[s]) : s \in Symbols, d \in dates}
  /\ run' = [kind |-> "cli", at |-> "snapshots", usable |-> Symbols]
  /\ outcomes' = <<>> /\ config' = None /\ result' = None
  /\ UNCHANGED <<today, index, traded, canonical, market, bars, benchmark>>

(* Both ways: the prices are read anew, and the labels written over the old *)
BuildOutcomes ==
  /\ run.at = "snapshots" \/ (run.kind = "cli" /\ run.at = "outcomes")
  /\ snapshots # {} /\ benchmark # {}
  /\ LET series == IF run.kind = "full" THEN bars ELSE market IN
     outcomes' = [k \in {<<r.date, r.symbol, h>> : r \in snapshots, h \in Horizons} |->
                    Label(benchmark, series[k[2]], k[1], k[3])]
  /\ run' = [run EXCEPT !.at = "outcomes"]
  /\ UNCHANGED <<today, index, traded, canonical, market, bars, benchmark, snapshots, config, result>>

(* run_full_research makes its ResearchConfig only now, when the snapshots  *)
(* and the outcomes are written: it fails, or every factor is validated      *)
(* over every horizon                                                        *)
Validate ==
  /\ run.kind = "full" /\ run.at = "outcomes"
  /\ \/ /\ ValidConfig(config) /\ run' = [run EXCEPT !.at = "validated"]
        /\ \E factor \in Factors, h \in Horizons : \E flat \in FlatDates(factor, h, outcomes) :
             result' = Validation(config, factor, h, outcomes, flat)
     \/ /\ ~ValidConfig(config) /\ run' = [run EXCEPT !.at = "failed"]
        /\ UNCHANGED result
  /\ UNCHANGED <<today, index, traded, canonical, market, bars, benchmark, snapshots, outcomes, config>>

(* validate-factor reads the outcomes in the order of the table and keeps  *)
(* one horizon of each row                                                  *)
CmdValidate ==
  /\ run.kind = "cli" /\ run.at = "outcomes"
  /\ config' \in {c \in Configs : ValidConfig(c)}
  /\ \E h \in Horizons, kept \in [snapshots -> Horizons] :
       LET labels == [k \in DOMAIN outcomes |->
                        IF \E r \in snapshots : r.date = k[1] /\ r.symbol = k[2] /\ kept[r] = k[3] THEN outcomes[k]
                        ELSE [stock |-> None, bench |-> None, excess |-> FALSE]]
       IN  \E flat \in FlatDates("value_factor", h, labels) :
             result' = Validation(config', "value_factor", h, labels, flat)
  /\ run' = [run EXCEPT !.at = "validated"]
  /\ UNCHANGED <<today, index, traded, canonical, market, bars, benchmark, snapshots, outcomes>>

Next ==
  \/ Tick \/ Crawl \/ ScreenerStores
  \/ FetchPrices \/ BuildSnapshots \/ CmdBuildSnapshots \/ BuildOutcomes \/ Validate \/ CmdValidate

Spec == Init /\ [][Next]_vars

(***************************************************************************)
(* Properties                                                              *)
(***************************************************************************)
(* "For analysis time T, no financial fact with available_from > T may be  *)
(* used" (pit.py:3-5), and no later price: what a snapshot is made of was   *)
(* there on its date, however late the snapshot is built.                   *)
NothingFromTheFuture ==
  \A r \in snapshots :
    /\ \A f \in r.facts : f.end + Lag[f.period] <= r.date
    /\ r.price # None => r.price <= r.date
    /\ \A m \in {r.momentum, r.momentum_12_1} \ {None} : m[1] < m[2] /\ m[2] <= r.date

(* "Unresolved horizons stay None. Outcomes are never forward-filled"       *)
(* (outcomes.py:17-18): building the outcomes of a run again, when more is  *)
(* known, resolves what was open and leaves what was resolved.               *)
LabelsKept ==
  run'.kind = run.kind /\ run.kind = "cli" /\ snapshots' = snapshots =>
    \A k \in DOMAIN outcomes :
      outcomes[k].stock # None => outcomes'[k].stock = outcomes[k].stock

ResolvedLabelsStay == [][LabelsKept]_vars

(* "No tuning/validation window may overlap [S, E]" (walk_forward.py:20):   *)
(* the windows follow one another without a gap up to the eve of the sealed *)
(* period, and no row of it is among those the factor is tuned on.           *)
SealedKeptOut ==
  result # None =>
    LET c == config
        covered == UNION {w.valid_start .. w.valid_end : w \in result.windows}
    IN  /\ \A v, w \in result.windows : v # w => (v.valid_start .. v.valid_end) \cap (w.valid_start .. w.valid_end) = {}
        /\ Sealed(c) =>
             /\ covered = (c.research_start + c.train_years * YearDays) .. (c.sealed_start - 1)
             /\ \A r \in result.tuning : r.date \notin c.sealed_start .. c.sealed_end
        /\ result.tuning \cap result.sealed = {} /\ result.tuning \cup result.sealed = snapshots

(* A factor is called VALIDATED on evidence of every kind: enough dates,    *)
(* some in a walk-forward window, some in the sealed period, each with      *)
(* enough listings whose returns had been made by then (validation.py:26,   *)
(* :242-251).                                                                *)
ValidatedOnEvidence ==
  result # None /\ "VALIDATED" \in result.verdicts =>
    /\ Cardinality(result.ic) >= MinObservations
    /\ result.walk # {} /\ result.walk \subseteq result.ic
    /\ result.oos # {} /\ \A d \in result.oos : IsSealed(config, d)
    /\ \A d \in result.ic \cup result.oos :
         Cardinality({s \in Symbols :
           LET k == <<d, s, result.horizon>> IN
           /\ k \in DOMAIN outcomes /\ outcomes[k].stock # None /\ outcomes[k].bench # None
           /\ outcomes[k].stock[2] <= today}) >= MinCrossSection

(* "Last trading day of each month" (runner.py:222): the dates of the       *)
(* snapshots of a full run.                                                  *)
SnapshotsAtMonthEnd ==
  run.kind = "full" =>
    \A r \in snapshots :
      \A x \in benchmark \cap (config.research_start .. config.snapshot_end) : Month(x) = Month(r.date) => x <= r.date

(* "Index return aligned to the stock's base and end session dates"         *)
(* (outcomes.py:90): both legs of an excess return span the same days.      *)
LegsAligned ==
  \A k \in DOMAIN outcomes :
    outcomes[k].excess => outcomes[k].bench = <<AsOf(benchmark, outcomes[k].stock[1]), AsOf(benchmark, outcomes[k].stock[2])>>
=============================================================================
