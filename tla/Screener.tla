------------------------------ MODULE Screener ------------------------------
(***************************************************************************)
(* The stock screener (screener.py): one list of scored listings, kept in  *)
(* the memory of the server for all requests, whose items each request     *)
(* brings up to date with prices it fetches.                               *)
(*                                                                         *)
(* The list is computed under a lock.  The requests then filter it, and    *)
(* write prices and margins into its items, without one: every request     *)
(* that was given the same list changes the same items.                    *)
(*                                                                         *)
(* The report of the value engine on a listing is a constant: EngineInputs *)
(* and Valuation model it.  Search, exchange and score only narrow what a  *)
(* request sees and are left out, and so is the diagnostic margin.  So are *)
(* the price-earnings and price-book ratios: a refresh scales the rounded  *)
(* ratio it finds (screener.py:112-117), they drift with every one, and    *)
(* nothing is decided on them.                                             *)
(*                                                                         *)
(* Prices are in dong, values in hundredths of a dong where the engine     *)
(* reports them and in tenths in an item, margins in tenths of a percent.  *)
(***************************************************************************)
EXTENDS Integers, Sequences, FiniteSets, FiniteSetsExt

CONSTANTS Symbols,    \* listings with two years of facts and a share count
          Requests,
          Reports,      \* symbol -> [value, required, tenths]: the value may be None; tenths
                        \*   where the method itself rounds the margin (sotp_valuation.py:95)
          Turnover,     \* symbol -> what the provider says of its liquidity
          Prices,       \* symbol -> what the market may ask for a share
          Stored,       \* what the database may hold at first
          MinLiquidity, Limit,
          CacheTTL, PriceTTL,   \* _CACHE_TTL_SECONDS, _PRICE_FETCH_CACHE_TTL
          MaxTime, MaxLists,    \* bounds
          None

Price(s) == Nat \ {0}
PriceRow(s) == [price : Price(s), turnover : Nat]
Item == [price : Nat, margin : Int \cup {None}, qualified : BOOLEAN, turnover : Nat]

ScreenerConstants ==
  /\ None \notin Requests \cup Int \cup Item
  /\ \A s \in Symbols :
       /\ None \notin PriceRow(s)
       /\ Turnover[s] \in Nat
       /\ Reports[s].value # None => Reports[s].value \in Nat /\ Reports[s].value >= 10
       /\ Reports[s].required \in Int /\ Reports[s].tenths \in BOOLEAN
       /\ Prices[s] \subseteq Price(s)
       /\ \A table \in Stored : table[s] \in PriceRow(s) \cup {None}
  /\ \A table \in Stored : table = [s \in Symbols |-> table[s]]
  /\ CacheTTL \in Nat /\ PriceTTL \in Nat \ {0} /\ MaxTime \in Nat /\ MaxLists \in Nat

VARIABLES clock, market,
          stored,       \* market_prices: symbol -> [price, turnover] or None
          fetched,      \* _PRICE_FETCH_CACHE: symbol -> [at, price] or None
          lists,        \* the lists computed so far, symbol -> item or None
          universe,     \* _SCORED_UNIVERSE_CACHE: the last of them, 0 before the first
          computedAt,   \* _LAST_COMPUTE_TIME
          lock,         \* _CACHE_LOCK
          req,
          past,         \* the prices the market has asked, by time
          overlap,      \* whether two requests have ever been at work together
          torn          \* <<list, symbol>>: items a request began to write while another was half-way
vars == <<clock, market, stored, fetched, lists, universe, computedAt, lock, req, past, overlap, torn>>

Filters == {"all", "buffett_qualified"}

Quotes == {m \in [Symbols -> UNION {Prices[s] : s \in Symbols}] : \A s \in Symbols : m[s] \in Prices[s]}

Idle == [pc |-> "idle", now |-> 0, list |-> 0, prices |-> [s \in Symbols |-> None],
         visible |-> {}, got |-> [s \in Symbols |-> None], todo |-> {}, half |-> FALSE, answer |-> <<>>]

Init ==
  /\ clock = 0 /\ market \in Quotes
  /\ stored \in Stored /\ fetched = [s \in Symbols |-> None]
  /\ lists = <<>> /\ universe = 0 /\ computedAt = 0 /\ lock = None
  /\ req = [r \in Requests |-> Idle]
  /\ past = <<market>> /\ overlap = FALSE /\ torn = {}

At(r, pc) == req[r].pc = pc
Items(r) == lists[req[r].list]

(***************************************************************************)
(* Items                                                                   *)
(***************************************************************************)
(* a / b to the nearest whole number.  Half-way the code takes either, as    *)
(* the binary fraction falls; this takes the upper one.                       *)
Rounded(a, b) == (2 * a + b) \div (2 * b)

ShownValue(s) == Rounded(Reports[s].value, 10)

(* The margin is shown rounded, and the listing is qualified on the margin   *)
(* the engine reports                                                         *)
ScoredItem(s, row) ==
  LET report == Reports[s]
      excess == 1000 * (report.value - 100 * row.price)
      margin == Rounded(excess, report.value)
      stands == IF report.tenths THEN margin >= report.required ELSE excess >= report.required * report.value
  IN  IF report.value = None
      THEN [price |-> row.price, margin |-> None, qualified |-> FALSE, turnover |-> row.turnover]
      ELSE [price |-> row.price, margin |-> margin, qualified |-> stands, turnover |-> row.turnover]

(* _apply_refreshed_price, after the price: the margin from the value shown, *)
(* and the standing from the margin as it is rounded                          *)
RefreshedMargin(s, price) == Rounded(1000 * (ShownValue(s) - 10 * price), ShownValue(s))

Refreshed_KeepsStanding(item, s, price) ==
  IF Reports[s].value = None THEN item ELSE [item EXCEPT !.margin = RefreshedMargin(s, price)]

Refreshed(item, s, price) ==
  IF Reports[s].value = None THEN item
  ELSE [item EXCEPT !.margin = RefreshedMargin(s, price),
                    !.qualified = RefreshedMargin(s, price) >= Reports[s].required]

(***************************************************************************)
(* Prices                                                                  *)
(***************************************************************************)
Fresh(s, now) == fetched[s] # None /\ now - fetched[s].at < PriceTTL

(* _fetch_latest_prices: what is fresh comes from the cache, the rest from  *)
(* the provider unless it fails; a failure is not cached                    *)
Fetched(symbols, failed) ==
  [s \in Symbols |-> IF s \notin symbols THEN None
                     ELSE IF Fresh(s, clock) THEN fetched[s].price
                     ELSE IF s \in failed THEN None
                     ELSE market[s]]

Cached(symbols, failed) ==
  [s \in Symbols |-> IF s \in symbols \ failed /\ ~Fresh(s, clock) THEN [at |-> clock, price |-> market[s]]
                     ELSE fetched[s]]

(* _persist_price_rows *)
Persisted(got) ==
  [s \in Symbols |-> IF got[s] # None THEN [price |-> got[s], turnover |-> Turnover[s]] ELSE stored[s]]

(***************************************************************************)
(* compute_all_screener_scores                                             *)
(***************************************************************************)
Arrive(r) ==
  /\ At(r, "idle")
  /\ req' = [req EXCEPT ![r] = [Idle EXCEPT !.pc = "waiting", !.now = clock]]
  /\ overlap' = (overlap \/ \E q \in Requests \ {r} : ~At(q, "idle"))
  /\ UNCHANGED <<clock, market, stored, fetched, lists, universe, computedAt, lock, past, torn>>

HasItems(n) == n # 0 /\ \E s \in Symbols : lists[n][s] # None

UseList(r) ==
  /\ At(r, "waiting") /\ lock = None
  /\ HasItems(universe) /\ req[r].now - computedAt < CacheTTL
  /\ req' = [req EXCEPT ![r].pc = "filter", ![r].list = universe]
  /\ UNCHANGED <<clock, market, stored, fetched, lists, universe, computedAt, lock, past, overlap, torn>>

ReadPrices_Unlocked(r) ==
  /\ At(r, "waiting") /\ Len(lists) < MaxLists
  /\ ~HasItems(universe) \/ req[r].now - computedAt >= CacheTTL
  /\ lock' = r
  /\ req' = [req EXCEPT ![r].pc = "backfill", ![r].prices = stored]
  /\ UNCHANGED <<clock, market, stored, fetched, lists, universe, computedAt, past, overlap, torn>>

ReadPrices(r) ==
  /\ At(r, "waiting") /\ lock = None /\ Len(lists) < MaxLists
  /\ ~HasItems(universe) \/ req[r].now - computedAt >= CacheTTL
  /\ lock' = r
  /\ req' = [req EXCEPT ![r].pc = "backfill", ![r].prices = stored]
  /\ UNCHANGED <<clock, market, stored, fetched, lists, universe, computedAt, past, overlap, torn>>

(* Listings without a price get one from the provider *)
Backfill(r) ==
  LET missing == {s \in Symbols : req[r].prices[s] = None} IN
  /\ At(r, "backfill")
  /\ \E failed \in SUBSET missing :
       LET got == Fetched(missing, failed) IN
       /\ fetched' = Cached(missing, failed)
       /\ stored' \in {stored, Persisted(got)}
       /\ req' = [req EXCEPT ![r].pc = "score",
                    ![r].prices = [s \in Symbols |-> IF got[s] # None THEN [price |-> got[s], turnover |-> Turnover[s]]
                                                     ELSE @[s]]]
  /\ UNCHANGED <<clock, market, lists, universe, computedAt, lock, past, overlap, torn>>

(* The list is as old as the request that computes it *)
Score(r) ==
  /\ At(r, "score")
  /\ lists' = Append(lists, [s \in Symbols |-> IF req[r].prices[s] = None THEN None ELSE ScoredItem(s, req[r].prices[s])])
  /\ universe' = Len(lists') /\ computedAt' = req[r].now /\ lock' = None
  /\ req' = [req EXCEPT ![r].pc = "filter", ![r].list = Len(lists'), ![r].prices = Idle.prices]
  /\ UNCHANGED <<clock, market, stored, fetched, past, overlap, torn>>

(***************************************************************************)
(* get_screener_results                                                    *)
(***************************************************************************)
Passing(r, filter) ==
  {s \in Symbols : Items(r)[s] # None /\ (filter = "buffett_qualified" => Items(r)[s].qualified)}

Filter(r) ==
  /\ At(r, "filter")
  /\ \E filter \in Filters : req' = [req EXCEPT ![r].pc = "liquidity", ![r].visible = Passing(r, filter)]
  /\ UNCHANGED <<clock, market, stored, fetched, lists, universe, computedAt, lock, past, overlap, torn>>

(* The prices a request needs, and the items it will write them to *)
Fetch(r, symbols, next) ==
  \E failed \in SUBSET symbols :
    LET got == Fetched(symbols, failed) IN
    /\ fetched' = Cached(symbols, failed)
    /\ req' = [req EXCEPT ![r].pc = next, ![r].got = got, ![r].todo = {s \in symbols : got[s] # None}]
    /\ lists' = IF next = "fill"
                THEN [lists EXCEPT ![req[r].list] =
                        [s \in Symbols |-> IF s \in symbols
                                           THEN [@[s] EXCEPT !.turnover = IF got[s] = None THEN 0 ELSE Turnover[s]]
                                           ELSE @[s]]]
                ELSE lists
    /\ UNCHANGED <<clock, market, stored, universe, computedAt, lock, past, overlap, torn>>

(* Items of unknown liquidity first *)
FetchLiquidity(r) ==
  /\ At(r, "liquidity")
  /\ Fetch(r, {s \in req[r].visible : Items(r)[s].turnover = 0}, "fill")

(* _apply_refreshed_price writes the price of an item, then the rest of it *)
Current(r) == CHOOSE s \in req[r].todo : TRUE

Halfway(n, s) == {r \in Requests : req[r].half /\ req[r].list = n /\ s = Current(r)}

WritePrice(r) ==
  /\ req[r].pc \in {"fill", "refresh"} /\ req[r].todo # {} /\ ~req[r].half
  /\ LET s == Current(r)
         n == req[r].list
     IN  /\ req' = [req EXCEPT ![r].half = TRUE]
         /\ lists' = [lists EXCEPT ![n][s].price = req[r].got[s]]
         /\ torn' = IF Halfway(n, s) # {} THEN torn \cup {<<n, s>>} ELSE torn \ {<<n, s>>}
  /\ UNCHANGED <<clock, market, stored, fetched, universe, computedAt, lock, past, overlap>>

WriteItem(r) ==
  /\ req[r].pc \in {"fill", "refresh"} /\ req[r].half
  /\ LET s == Current(r) IN
     /\ lists' = [lists EXCEPT ![req[r].list][s] = Refreshed(@, s, req[r].got[s])]
     /\ req' = [req EXCEPT ![r].half = FALSE, ![r].todo = @ \ {s}]
  /\ UNCHANGED <<clock, market, stored, fetched, universe, computedAt, lock, past, overlap, torn>>

(* A failure to persist is swallowed *)
Persist(r) ==
  /\ req[r].pc \in {"fill", "refresh"} /\ req[r].todo = {} /\ ~req[r].half
  /\ stored' \in {stored, Persisted(req[r].got)}
  /\ req' = [req EXCEPT ![r].pc = IF @ = "fill" THEN "select" ELSE "answer",
                        ![r].got = IF At(r, "fill") THEN Idle.got ELSE @]
  /\ UNCHANGED <<clock, market, fetched, lists, universe, computedAt, lock, past, overlap, torn>>

(* Sorted by margin, as many as the limit; `or -999` makes the most of a     *)
(* margin of zero                                                             *)
Before(r, s, t) ==
  LET margin(x) == Items(r)[x].margin
      key(x) == IF margin(x) = 0 THEN -9990 ELSE margin(x)
  IN  margin(s) # None /\ (margin(t) = None \/ key(s) > key(t))

Shown(r) ==
  LET liquid == {s \in req[r].visible : Items(r)[s].turnover >= MinLiquidity}
  IN  {S \in SUBSET liquid : /\ Cardinality(S) = Min({Limit, Cardinality(liquid)})
                             /\ \A s \in S, t \in liquid \ S : ~Before(r, t, s)}

Select(r) ==
  /\ At(r, "select")
  /\ \E shown \in Shown(r) : req' = [req EXCEPT ![r].pc = "prices", ![r].visible = shown]
  /\ UNCHANGED <<clock, market, stored, fetched, lists, universe, computedAt, lock, past, overlap, torn>>

FetchShown(r) == At(r, "prices") /\ Fetch(r, req[r].visible, "refresh")

Answer(r) ==
  /\ At(r, "answer")
  /\ req' = [req EXCEPT ![r].pc = "answered", ![r].answer = [s \in req[r].visible |-> Items(r)[s]], ![r].visible = {}]
  /\ UNCHANGED <<clock, market, stored, fetched, lists, universe, computedAt, lock, past, overlap, torn>>

Leave(r) ==
  /\ At(r, "answered")
  /\ req' = [req EXCEPT ![r] = Idle]
  /\ UNCHANGED <<clock, market, stored, fetched, lists, universe, computedAt, lock, past, overlap, torn>>

(***************************************************************************)
(* Time                                                                    *)
(***************************************************************************)
Tick ==
  /\ clock < MaxTime
  /\ clock' = clock + 1 /\ market' \in Quotes
  /\ past' = Append(past, market')
  /\ UNCHANGED <<stored, fetched, lists, universe, computedAt, lock, req, overlap, torn>>

Work(r) ==
  \/ Arrive(r) \/ UseList(r) \/ ReadPrices(r) \/ Backfill(r) \/ Score(r) \/ Filter(r) \/ FetchLiquidity(r)
  \/ WritePrice(r) \/ WriteItem(r) \/ Persist(r) \/ Select(r) \/ FetchShown(r) \/ Answer(r) \/ Leave(r)

Next == Tick \/ \E r \in Requests : Work(r)

Spec == Init /\ [][Next]_vars

(***************************************************************************)
(* Properties                                                              *)
(***************************************************************************)
(* m is a whole number nearest to a / b *)
Nearest(m, a, b) == 2 * a - b <= 2 * m * b /\ 2 * m * b <= 2 * a + b

(* The margin of an item is that of its price, from the value in full or as  *)
(* it is shown, and its standing follows from it, unless margin and required *)
(* margin are the same when rounded                                           *)
Agrees(item, s) ==
  LET report == Reports[s]
      shown == ShownValue(s)
  IN  IF report.value = None THEN item.margin = None /\ ~item.qualified
      ELSE /\ item.margin # None
           /\ \/ Nearest(item.margin, 1000 * (report.value - 100 * item.price), report.value)
              \/ Nearest(item.margin, 1000 * (shown - 10 * item.price), shown)
           /\ item.qualified => item.margin >= report.required
           /\ item.margin > report.required => item.qualified

(* An item means what its price says, however often and by however many      *)
(* requests it was refreshed (screener.py:101-108, 630-650): nobody's price   *)
(* stands beside another's margin.  Excepted are an item that is being       *)
(* written and one that a request began to write while another was half-way, *)
(* until it is written again: of those two, each may write last.             *)
ItemsAgree ==
  \A n \in DOMAIN lists, s \in Symbols :
    lists[n][s] # None /\ <<n, s>> \notin torn /\ Halfway(n, s) = {} => Agrees(lists[n][s], s)

(* However many requests find the list stale, one of them computes it and    *)
(* the others use what it computed (screener.py:389-392).                     *)
ComputedWhenDue ==
  universe' # universe /\ HasItems(universe) => computedAt' - computedAt >= CacheTTL

ComputedOncePerPeriod == [][ComputedWhenDue]_vars

(* "Prices are fetched on every visit" (screener.py:796-798): the price of   *)
(* an answered item that the provider did not fail on is one the market      *)
(* asked less than the time a price is cached before the visit, or since.     *)
PricesAreRecentForOneClient ==
  ~overlap =>
    \A r \in Requests :
      At(r, "answered") =>
        \A s \in DOMAIN req[r].answer :
          req[r].got[s] # None =>
            \E t \in 0 .. clock : t > req[r].now - PriceTTL /\ past[t + 1][s] = req[r].answer[s].price
=============================================================================
