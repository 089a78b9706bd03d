------------------------------ MODULE MCMarket ------------------------------
(***************************************************************************)
(* The parts of the market, one of them at work per behaviour: the others  *)
(* rest in one state.                                                      *)
(***************************************************************************)
EXTENDS Market, MCValuation, TLC

CONSTANTS
    Parts,          \* the components of this run
    A, B, C,        \* symbols
    r1, r2          \* requests to the screener

VARIABLE part       \* the component that works

-------------------------------------------------------------------------------
\* Holdings of one symbol or two, a universe of two listings.
Item1(rejects, tier, mos, required, trust) ==
    [rejects |-> rejects, tier |-> tier, mos |-> mos, required |-> required,
     confidence |-> trust, liquidity |-> 10, price |-> 10]

Best  == Item1({}, "HIGH_QUALITY", 40, 25, "MEDIUM")
Cheap  == Item1({}, "INVESTABLE", 30, 30, "LOW")

Items1 ==
    { Best, Cheap,
      Item1({}, "INVESTABLE", 10, 30, "MEDIUM"), Item1({}, "HIGH_QUALITY", None, 25, "LOW"),
      Item1({}, "WATCH", 50, 35, "MEDIUM"), Item1({}, "LOW_QUALITY", None, 50, "MEDIUM"),
      Item1({"SOLVENCY_RISK"}, "INVESTABLE", None, 50, "MEDIUM"),
      Item1({"DATA_INSUFFICIENT"}, "INVESTABLE", None, 35, "LOW") }

Held1(quantity, price) ==
    [quantity |-> quantity, price |-> price, value |-> IF price = None THEN 0 ELSE quantity * price]

Holdings1 ==
    {<<>>} \cup {A :> Held1(q, p) : q \in {1, 20, 44, 49}, p \in {20}} \cup {A :> Held1(4, None)}
    \cup {(A :> Held1(9, 20)) @@ (B :> Held1(4, 50))}

Universes1 == {(A :> i) @@ (B :> j) : i, j \in Items1} \cup {(B :> Best) @@ (C :> Cheap)}

Changes1 ==
    {<<>>} \cup {<<[symbol |-> A, target |-> n]>> : n \in {0, 50, 400}}
    \cup {<<[symbol |-> A, target |-> 0], [symbol |-> B, target |-> 300]>>}

Risk(actionable, share, correlation, volatility) ==
    [actionable |-> actionable, share |-> share, correlation |-> correlation,
     volatility |-> volatility, diversified |-> TRUE]

Assessments1 ==
    { Risk(FALSE, "low", "low", "steady"), Risk(TRUE, "low", "low", "steady"),
      Risk(TRUE, "fair", "medium", "drifts"), Risk(TRUE, "excessive", "low", "falls") }

-------------------------------------------------------------------------------
\* One listing worth 99.96, shown as 100.0, that the database knows or not.  At 75 its
\* margin is 24.97 %, shown as the 25.0 % required.
Reports1 == A :> [value |-> 9996, required |-> 250, tenths |-> FALSE]
Turnover1 == A :> 20
Prices1 == A :> {75, 120}
Stored1 == {A :> None, A :> [price |-> 60, turnover |-> 0]}

Symmetry == Permutations(Requests)

-------------------------------------------------------------------------------
\* One listing over six sessions of three months, two days each.
Filings1 == {[symbol |-> A, period |-> "FY", end |-> 1], [symbol |-> A, period |-> "QUARTER", end |-> 3]}
Lag1 == ("FY" :> 2) @@ ("QUARTER" :> 1)
Indexes1 == {[d \in 1 .. 6 |-> 10 + d], [d \in {1, 2, 4, 5, 6} |-> IF d = 2 THEN 13 ELSE 10]}
Suspensions1 == {{}, {2, 3}}

Configs1 ==
    {[research_start |-> 1, research_end |-> IF s[2] = None THEN None ELSE 6, snapshot_end |-> 6, train_years |-> 1,
      validation_years |-> 1, sealed_start |-> s[1], sealed_end |-> s[2]] :
        s \in {<<None, None>>, <<4, 6>>, <<5, 6>>, <<6, 4>>, <<4, None>>}}

-------------------------------------------------------------------------------
Resting(works, choices) == IF works THEN choices ELSE {CHOOSE x \in choices : TRUE}

\* Where none is valued, a company of one year
SomeCompany == CHOOSE c \in Companies : Len(c.history) = 1 /\ c.lineage = "UNKNOWN"

MCInit ==
    /\ part \in Parts
    /\ company \in IF part = "valuation" THEN Companies ELSE {SomeCompany}
    /\ market \in Resting(part = "screener", Screen!Quotes)
    /\ stored \in Resting(part = "screener", Stored)
    /\ index \in Resting(part = "research", Indexes)
    /\ traded \in Resting(part = "research", [Researched -> {DOMAIN index \ gone : gone \in Suspensions}])
    /\ Init /\ Allocate!Init /\ Screen!Init /\ Factors!Init

MCNext ==
    /\ \/ part = "valuation" /\ Value
       \/ part = "allocation" /\ Advise
       \/ part = "screener" /\ List
       \/ part = "research" /\ Study
    /\ UNCHANGED part

MCSpec == MCInit /\ [][MCNext]_<<part, everything>>

===============================================================================
