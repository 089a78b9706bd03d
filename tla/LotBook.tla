------------------------------- MODULE LotBook --------------------------------
(***************************************************************************)
(* The replay of a ledger as a state machine: each step posts one more     *)
(* event, in ledger order, to the accounting state.  Its properties relate *)
(* the tax lots to the position totals, the running totals to each other,  *)
(* and every sale to a share-by-share reading of first in, first out.      *)
(***************************************************************************)
EXTENDS Accounting

CONSTANTS
    Postings,       \* the events that may be posted, with id 0
    MaxPosted       \* bound: length of the ledger

\* The events are those normalize_event_payload lets through: a sale brings in its
\* fee and tax, an event of a holding names its symbol, a ratio is positive.
ASSUME PostingsAssumption ==
    /\ IsFiniteSet(Symbols)
    /\ MaxPosted \in Nat
    /\ Postings \subseteq Events
    /\ \A e \in Postings :
         /\ e.type \in HoldingTypes => e.sym \in Symbols
         /\ e.type = "SELL" => e.fee + e.tax <= e.qty * e.price
         /\ e.type = "SPLIT" => e.ratio[2] > 0

VARIABLES
    posted,         \* the events replayed so far, in ledger order
    book            \* the accounting state they lead to

replay == <<posted, book>>

-------------------------------------------------------------------------------
Lot == [acquired : Nat, source : Nat, qty : Nat, cost : Nat, custody : Brokers \X Accounts]

Position == [shares : Nat, cost : Nat, lots : Seq(Lot)]

State ==
    [cash : Nat, contributions : Nat, withdrawals : Nat, dividends : Nat,
     realized : Int, costs : Nat, pos : [Symbols -> Position]]

\* Cash is a natural number at every prefix of a valid ledger (INV-06 of
\* BUY_AND_HOLD_SYSTEM_SPEC.md): the cash check after BUY, RIGHTS_ISSUE,
\* CASH_WITHDRAW and FEE is enough, no other event type can make it negative.
BookTypeOK ==
    /\ posted \in Seq(Events) /\ Len(posted) <= MaxPosted
    /\ book \in State

BookInit ==
    /\ posted = <<>>
    /\ book = EmptyState

\* Bound: only states whose unit costs and unit gains are whole numbers.
WholeLots(s) ==
    \A y \in Symbols : \A k \in DOMAIN s.pos[y].lots :
        s.pos[y].lots[k].cost % s.pos[y].lots[k].qty = 0

\* Bound: a SPLIT or a stock dividend must divide exactly over the lots.
WholeShares(s, e) ==
    LET lots == s.pos[e.sym].lots
        K    == BookLots(lots, e.custody)
    IN  /\ e.type = "SPLIT" => \A k \in K : (lots[k].qty * e.ratio[1]) % e.ratio[2] = 0
        /\ e.type = "STOCK_DIVIDEND" =>
              \A k \in K : (e.qty * lots[k].qty) % Held(lots, e.custody) = 0

Post(t) ==
    LET e == [t EXCEPT !.id = Len(posted) + 1]
    IN  /\ Len(posted) < MaxPosted
        /\ posted # <<>> => Last(posted).date <= e.date
        /\ Admits(book, e)
        /\ WholeShares(book, e)
        /\ WholeLots(ApplyEvent(book, e))
        /\ posted' = Append(posted, e)
        /\ book' = ApplyEvent(book, e)

BookNext == \E t \in Postings : Post(t)

BookSpec == BookInit /\ [][BookNext]_replay

-------------------------------------------------------------------------------
CostOf(lots, K) == Total([k \in DOMAIN lots |-> lots[k].cost], K)

\* The lot book adds up: the open lots of a symbol carry exactly its shares and
\* its cost basis, whatever sequence of purchases, partial sales, dividends and
\* splits built them (accounting.py keeps the two by separate assignments).
LotsBalance ==
    \A s \in Symbols :
        LET p == book.pos[s] IN
        /\ p.shares = QtyOf(p.lots, DOMAIN p.lots)
        /\ p.cost = CostOf(p.lots, DOMAIN p.lots)
        /\ \A k \in DOMAIN p.lots : p.lots[k].qty > 0

\* The lots of a symbol stay in first in, first out order.
FifoSorted(lots) == \A i, j \in DOMAIN lots : i < j => FifoBefore(lots[i], lots[j])
LotsInOrder == \A s \in Symbols : FifoSorted(book.pos[s].lots)

\* Costs that reduce wealth without being part of a lot or of a realized gain.
Expense(e) ==
    CASE e.type \in {"BUY", "RIGHTS_ISSUE", "CASH_DIVIDEND"} -> e.tax
      [] e.type = "FEE" -> e.amount
      [] OTHER -> 0

Expensed == Total([i \in DOMAIN posted |-> Expense(posted[i])], DOMAIN posted)

\* Double entry: cash plus the cost basis of all holdings is what was put in,
\* plus realized gains and dividends, less the expensed costs.  A missing or
\* doubled leg in any branch of apply_event breaks it.
BooksBalance ==
    book.cash + Total([s \in Symbols |-> book.pos[s].cost], Symbols)
      = book.contributions - book.withdrawals + book.realized + book.dividends - Expensed

\* A custody book share by share, oldest first: how many of its shares are in older
\* lots than the k-th, and what its u-th share has cost.
Older(lots, custody, k) == QtyOf(lots, BookLots(lots, custody) \cap 1 .. k - 1)

IsShareOf(lots, custody, u, k) ==
    /\ k \in BookLots(lots, custody)
    /\ Older(lots, custody, k) < u
    /\ u <= Older(lots, custody, k) + lots[k].qty

UnitCost(lots, custody, u) ==
    LET k == CHOOSE j \in DOMAIN lots : IsShareOf(lots, custody, u, j)
    IN  lots[k].cost \div lots[k].qty

\* A sale disposes of the oldest shares of its own custody book, one by one, at
\* their own unit cost, and leaves the younger shares and their costs alone.
SellsOldest(s, e, t) ==
    LET before == s.pos[e.sym].lots
        after  == t.pos[e.sym].lots
        cost   == [u \in 1 .. e.qty |-> UnitCost(before, e.custody, u)]
    IN  /\ Held(after, e.custody) = Held(before, e.custody) - e.qty
        /\ \A u \in 1 .. Held(after, e.custody) :
              UnitCost(after, e.custody, u) = UnitCost(before, e.custody, u + e.qty)
        /\ t.realized - s.realized
              = e.qty * e.price - e.fee - e.tax - Total(cost, 1 .. e.qty)

\* An event assigned to one broker's book never changes the lots held in another
\* (AI_WORKING_CONTEXT.md: a broker-assigned SELL may only consume lots from that
\* same broker/account).
OtherLots(lots, custody) == {lots[k] : k \in {j \in DOMAIN lots : lots[j].custody # custody}}

CustodyIsolated(s, e, t) ==
    e.custody[1] # Unassigned =>
        \A y \in Symbols :
            OtherLots(t.pos[y].lots, e.custody) = OtherLots(s.pos[y].lots, e.custody)

\* The lots carry the shares and the cost of their symbol, oldest first, and the
\* books balance in double entry, after any events apply_event accepts.
BookInv == BookTypeOK /\ LotsBalance /\ LotsInOrder /\ BooksBalance

\* A sale takes the oldest shares of its own broker's book, at their own cost, and
\* no event of one broker touches the lots of another (_consume_fifo).
FifoDisposal ==
    [][posted' # posted =>
        LET e == Last(posted')
        IN  /\ e.type = "SELL" => SellsOldest(book, e, book')
            /\ CustodyIsolated(book, e, book')]_replay
===============================================================================
