------------------------------ MODULE Accounting ------------------------------
(***************************************************************************)
(* The pure accounting core (python/portfolio/accounting.py): how one      *)
(* ledger event changes a portfolio state made of cash, running totals and *)
(* one FIFO book of tax lots per symbol, and how a whole ledger replays.   *)
(*                                                                         *)
(* Money and shares are integers: the code computes in floating point with *)
(* 1e-9 tolerances and the models only post events whose arithmetic is     *)
(* exact, so that no tolerance is needed.  A custody is the pair           *)
(* <<broker_code, account_id>>; dates are numbers; a split ratio is a pair *)
(* <<numerator, denominator>>.  A lot is the record [acquired, source,     *)
(* qty, cost, custody].                                                    *)
(***************************************************************************)
EXTENDS Integers, Sequences, SequencesExt

CONSTANTS
    Symbols,        \* the securities that can be held
    NoSymbol,       \* the symbol of an event that names none
    Brokers,        \* broker codes
    Unassigned,     \* the broker code of events without a broker
    Accounts        \* account identifiers at a broker

ASSUME AccountingAssumption == Unassigned \in Brokers /\ NoSymbol \notin Symbols

AcquisitionTypes == {"POSITION_IMPORT", "BUY", "RIGHTS_ISSUE"}
HoldingTypes     == AcquisitionTypes \cup {"SELL", "STOCK_DIVIDEND", "SPLIT"}
MoneyTypes       == {"CASH_DEPOSIT", "CASH_WITHDRAW", "CASH_DIVIDEND", "FEE"}
EventTypes       == HoldingTypes \cup MoneyTypes

Events ==
    [id : Nat, type : EventTypes, date : Nat, sym : Symbols \cup {NoSymbol},
     qty : Nat, price : Nat, fee : Nat, tax : Nat, amount : Nat,
     ratio : Nat \X Nat, custody : Brokers \X Accounts, generated : BOOLEAN]

\* Event types after which _validate_ledger refuses a negative cash balance.
CashCheckedTypes == {"BUY", "RIGHTS_ISSUE", "CASH_WITHDRAW", "FEE"}

EmptyPosition == [shares |-> 0, cost |-> 0, lots |-> <<>>]

EmptyState ==
    [cash |-> 0, contributions |-> 0, withdrawals |-> 0, dividends |-> 0,
     realized |-> 0, costs |-> 0, pos |-> [s \in Symbols |-> EmptyPosition]]

-------------------------------------------------------------------------------
\* Tax lots.

InBook_AnyBroker(lot, custody) == lot.qty > 0

\* An event without a broker reaches the lots of every book.
InBook(lot, custody) == custody[1] = Unassigned \/ lot.custody = custody

\* The sum of a function over a set of its arguments.
Total(f, K) == MapThenSumSet(LAMBDA k : f[k], K)

QtyOf(lots, K) == Total([k \in DOMAIN lots |-> lots[k].qty], K)

BookLots(lots, custody) == {k \in DOMAIN lots : InBook(lots[k], custody)}

Held(lots, custody) == QtyOf(lots, BookLots(lots, custody))

\* The FIFO order of lots: acquisition date, then the event that opened them.
FifoBefore(a, b) ==
    \/ a.acquired < b.acquired
    \/ a.acquired = b.acquired /\ a.source < b.source

NewLot(e, cost) ==
    [acquired |-> e.date, source |-> e.id, qty |-> e.qty, cost |-> cost,
     custody |-> e.custody]

AddLot(p, e, cost) ==
    [shares |-> p.shares + e.qty, cost |-> p.cost + cost,
     lots |-> Append(p.lots, NewLot(e, cost))]

\* How many shares of lot k a SELL of qty shares out of a custody book takes:
\* what is left of qty once the earlier lots of the book are used up.
Taken(lots, custody, qty, k) ==
    LET earlier == {j \in BookLots(lots, custody) : FifoBefore(lots[j], lots[k])}
        wanted  == qty - QtyOf(lots, earlier)
    IN  IF k \notin BookLots(lots, custody) \/ wanted <= 0 THEN 0
        ELSE IF wanted < lots[k].qty THEN wanted ELSE lots[k].qty

CostOfShares(lot, n) == (n * lot.cost) \div lot.qty

DisposedCost(lots, custody, qty) ==
    Total([k \in DOMAIN lots |-> CostOfShares(lots[k], Taken(lots, custody, qty, k))],
          DOMAIN lots)

\* The lots with shares left, in their order.
OpenLots(lots) ==
    LET open[n \in 0 .. Len(lots)] ==
            IF n = 0 THEN <<>>
            ELSE IF lots[n].qty > 0 THEN Append(open[n - 1], lots[n]) ELSE open[n - 1]
    IN  open[Len(lots)]

ConsumeFifo_LotsKeepCost(p, qty, custody) ==
    LET left == [k \in DOMAIN p.lots |->
                    [p.lots[k] EXCEPT !.qty = @ - Taken(p.lots, custody, qty, k)]]
    IN  IF p.shares = qty THEN EmptyPosition
        ELSE [shares |-> p.shares - qty,
              cost   |-> p.cost - DisposedCost(p.lots, custody, qty),
              lots   |-> OpenLots(left)]

ConsumeFifo(p, qty, custody) ==
    LET left == [k \in DOMAIN p.lots |->
                    LET n == Taken(p.lots, custody, qty, k)
                    IN  [p.lots[k] EXCEPT !.qty  = @ - n,
                                          !.cost = @ - CostOfShares(p.lots[k], n)]]
    IN  IF p.shares = qty THEN EmptyPosition
        ELSE [shares |-> p.shares - qty,
              cost   |-> p.cost - DisposedCost(p.lots, custody, qty),
              lots   |-> OpenLots(left)]

\* A stock dividend is spread over the open lots of the book pro rata, the last
\* of them taking the remainder; costs do not move.
StockBonus(lots, qty, custody) ==
    LET book     == BookLots(lots, custody)
        final    == Max(book)
        share(k) == (qty * lots[k].qty) \div Held(lots, custody)
        added    == Total([k \in book |-> share(k)], book \ {final})
    IN  [k \in DOMAIN lots |-> IF k \notin book THEN 0
                               ELSE IF k = final THEN qty - added ELSE share(k)]

AllocateStock(p, qty, custody) ==
    LET bonus == StockBonus(p.lots, qty, custody)
    IN  [p EXCEPT !.shares = @ + qty,
                  !.lots = [k \in DOMAIN p.lots |-> [p.lots[k] EXCEPT !.qty = @ + bonus[k]]]]

SplitLots(p, ratio, custody) ==
    LET book     == BookLots(p.lots, custody)
        grown(k) == IF k \in book THEN (p.lots[k].qty * ratio[1]) \div ratio[2]
                    ELSE p.lots[k].qty
    IN  [p EXCEPT !.shares = @ + Total([k \in book |-> grown(k) - p.lots[k].qty], book),
                  !.lots = [k \in DOMAIN p.lots |-> [p.lots[k] EXCEPT !.qty = grown(k)]]]

-------------------------------------------------------------------------------
\* apply_event: which events a state accepts, and the state they lead to.

CanSell(p, e) == e.qty <= p.shares /\ e.qty <= Held(p.lots, e.custody)

Accepts(s, e) ==
    CASE e.type \in AcquisitionTypes -> e.qty > 0 /\ e.price > 0
      [] e.type = "SELL" ->
            e.qty > 0 /\ e.price > 0 /\ CanSell(s.pos[e.sym], e)
      [] e.type \in {"CASH_DEPOSIT", "CASH_WITHDRAW", "FEE"} -> e.amount > 0
      [] e.type = "CASH_DIVIDEND" -> e.amount > 0 /\ e.tax \in 0 .. e.amount
      [] e.type = "STOCK_DIVIDEND" ->
            e.qty > 0 /\ BookLots(s.pos[e.sym].lots, e.custody) # {}
      [] e.type = "SPLIT" ->
            e.ratio[1] > 0 /\ BookLots(s.pos[e.sym].lots, e.custody) # {}
      [] OTHER -> FALSE

ApplyImport(s, e) ==
    [s EXCEPT !.pos[e.sym] = AddLot(@, e, e.qty * e.price),
              !.contributions = @ + e.qty * e.price]

ApplyBuy(s, e) ==
    [s EXCEPT !.pos[e.sym] = AddLot(@, e, e.qty * e.price + e.fee),
              !.cash  = @ - (e.qty * e.price + e.fee + e.tax),
              !.costs = @ + e.fee + e.tax]

ApplySell(s, e) ==
    LET disposed == DisposedCost(s.pos[e.sym].lots, e.custody, e.qty)
        net      == e.qty * e.price - e.fee - e.tax
    IN  [s EXCEPT !.pos[e.sym] = ConsumeFifo(@, e.qty, e.custody),
                  !.realized = @ + net - disposed,
                  !.cash     = @ + net,
                  !.costs    = @ + e.fee + e.tax]

ApplyCashDividend(s, e) ==
    [s EXCEPT !.cash = @ + e.amount - e.tax,
              !.dividends = @ + e.amount,
              !.costs = @ + e.tax]

ApplyEvent(s, e) ==
    CASE e.type = "POSITION_IMPORT"         -> ApplyImport(s, e)
      [] e.type \in {"BUY", "RIGHTS_ISSUE"} -> ApplyBuy(s, e)
      [] e.type = "SELL"                    -> ApplySell(s, e)
      [] e.type = "CASH_DEPOSIT"   -> [s EXCEPT !.cash = @ + e.amount,
                                                !.contributions = @ + e.amount]
      [] e.type = "CASH_WITHDRAW"  -> [s EXCEPT !.cash = @ - e.amount,
                                                !.withdrawals = @ + e.amount]
      [] e.type = "CASH_DIVIDEND"  -> ApplyCashDividend(s, e)
      [] e.type = "FEE"            -> [s EXCEPT !.cash = @ - e.amount,
                                                !.costs = @ + e.amount]
      [] e.type = "STOCK_DIVIDEND" ->
            [s EXCEPT !.pos[e.sym] = AllocateStock(@, e.qty, e.custody)]
      [] e.type = "SPLIT" ->
            [s EXCEPT !.pos[e.sym] = SplitLots(@, e.ratio, e.custody)]

-------------------------------------------------------------------------------
\* CorrectablePortfolioService._validate_ledger: one step of the replay, and the
\* replay of a whole ledger, given as a set of events that carry an id.

Admits(s, e) ==
    /\ Accepts(s, e)
    /\ e.type \in CashCheckedTypes => ApplyEvent(s, e).cash >= 0

LedgerOrder(a, b) == a.date < b.date \/ (a.date = b.date /\ a.id < b.id)

LastEvent(events) ==
    CHOOSE e \in events : \A d \in events \ {e} : LedgerOrder(d, e)

\* A replay is [ok, state]: it stops at the first event that is refused, a strict
\* one also at the first that overdraws the cash.
Replay(events, strict) ==
    LET R[S \in SUBSET events] ==
            IF S = {} THEN [ok |-> TRUE, state |-> EmptyState]
            ELSE LET e == LastEvent(S)
                     r == R[S \ {e}]
                     fits == IF strict THEN Admits(r.state, e) ELSE Accepts(r.state, e)
                 IN  IF r.ok /\ fits
                     THEN [ok |-> TRUE, state |-> ApplyEvent(r.state, e)]
                     ELSE [r EXCEPT !.ok = FALSE]
    IN  R[events]

\* derive_state raises when ~ok; _validate_ledger also checks the cash balance.
DeriveState(events) == Replay(events, FALSE)
ValidLedger(events) == Replay(events, TRUE).ok
===============================================================================
