------------------------------ MODULE TaxPool ------------------------------
(***************************************************************************)
(* The deferred tax on stock-dividend shares (tax_policy.py) and the       *)
(* ledger operations that store its result: automated_service.py taxes a   *)
(* transaction once, when it is appended or edited, against the ledger of  *)
(* that moment, and keeps the taxed quantity in the event's metadata.      *)
(*                                                                         *)
(* One symbol, on an opening position.  Prices are in units of the par     *)
(* value and taxes in units of 5% of it.  The cash-dividend withholding is *)
(* left out: it depends on its own event alone.                            *)
(***************************************************************************)
EXTENDS Integers, Sequences, FiniteSets

CONSTANTS
  Opening,        \* shares of the opening POSITION_IMPORT
  Day, Quantity,  \* dates and quantities a transaction may have
  Price,          \* sale prices; Par is the par value, VIETNAM_PAR_VALUE_VND
  Par,
  UserTax,        \* tax a user enters for a SELL
  MaxEvents, MaxCorrections     \* bounds of the instance

TaxConstants ==
  /\ Day \subseteq Nat /\ Quantity \subseteq Nat \ {0} /\ Price \subseteq Nat \ {0}
  /\ Opening \in Nat /\ Par \in Nat /\ UserTax \subseteq Nat
  /\ MaxEvents \in Nat /\ MaxCorrections \in Nat

Types == {"SELL", "BUY", "STOCK_DIVIDEND"}
Editable == {"SELL", "BUY"}             \* _EDITABLE_STOCK_TYPES, of these types

VARIABLES
  ledger,         \* the effective events by id, with a deleted flag
  corrections,    \* edits and deletes so far
  chronological   \* ghost: transactions have been entered, corrected and
                  \* deleted in date order so far

vars == <<ledger, corrections, chronological>>

(* taxable is stock_dividend_taxable_quantity and auto stock_dividend_sale_tax *)
Event == [type : Types, day : Day, quantity : Quantity, price : Price,
          tax : Nat, taxable : Nat, auto : Nat, deleted : BOOLEAN]

(* The effective events in replay order: by date, then id *)
LiveIn(events) == {i \in DOMAIN events : ~events[i].deleted}
Before(events, i, j) ==
  events[i].day < events[j].day \/ (events[i].day = events[j].day /\ i <= j)

Live == LiveIn(ledger)
UpTo(events, i) == {j \in LiveIn(events) : Before(events, j, i)}
Last(events, S) == CHOOSE i \in S : \A j \in S : Before(events, j, i)

Lesser(a, b) == IF a < b THEN a ELSE b
Greater(a, b) == IF a > b THEN a ELSE b

(* _stock_dividend_taxable_pool: what the dividends up to a day leave after *)
(* the taxed quantities of the sales up to it                               *)
PoolStep_NoSales(pool, e) ==
  IF e.type = "STOCK_DIVIDEND" THEN pool + e.quantity ELSE pool

PoolStep(pool, e) ==
  CASE e.type = "STOCK_DIVIDEND"      -> pool + e.quantity
    [] e.type = "SELL" /\ pool > 0    -> Greater(0, pool - e.taxable)
    [] OTHER                          -> pool

PoolAfter(events, S) ==
  LET pool[T \in SUBSET S] ==
        IF T = {} THEN 0
        ELSE PoolStep(pool[T \ {Last(events, T)}], events[Last(events, T)])
  IN  pool[S]

TaxablePool(events, day) == PoolAfter(events, {i \in LiveIn(events) : events[i].day <= day})

(* apply_dividend_tax_policy: what was charged automatically before is      *)
(* taken off the tax of the event and the policy is applied again           *)
ManualTax(e) == Greater(0, e.tax - e.auto)

TaxPolicy(e, prior) ==
  LET taxable == IF e.type = "SELL"
                 THEN Lesser(e.quantity, TaxablePool(prior, e.day)) ELSE 0
      auto    == taxable * Lesser(Par, e.price)
  IN  [e EXCEPT !.tax = ManualTax(e) + auto, !.taxable = taxable, !.auto = auto]

(* _validate_ledger: the position never goes below zero *)
Shares(f, S) == UNION {{i} \X (1 .. f[i]) : i \in S}
Moved(events, S) == Cardinality(Shares([i \in S |-> events[i].quantity], S))

ValidLedger(events) ==
  LET Sold(i) == {j \in UpTo(events, i) : events[j].type = "SELL"}
  IN  \A i \in LiveIn(events) :
        Moved(events, Sold(i)) <= Opening + Moved(events, UpTo(events, i) \ Sold(i))

Latest(i) == UpTo(ledger, i) = Live

Init ==
  /\ ledger = <<>>
  /\ corrections = 0
  /\ chronological = TRUE

(* append_event *)
AppendEvent(type, day, quantity, price, tax) ==
  LET draft == [type |-> type, day |-> day, quantity |-> quantity, price |-> price,
                tax |-> tax, taxable |-> 0, auto |-> 0, deleted |-> FALSE]
      event == TaxPolicy(draft, ledger)
  IN  /\ Len(ledger) < MaxEvents
      /\ type = "STOCK_DIVIDEND" => tax = 0 /\ price = Par
      /\ event.tax <= 20 * quantity * price
      /\ ledger' = Append(ledger, event)
      /\ ValidLedger(ledger')
      /\ chronological' = (chronological /\ \A i \in Live : ledger[i].day <= day)
      /\ UNCHANGED corrections

(* update_event, _replacement_event: the form sends the visible tax back;   *)
(* the automatic part is restored from the current event before the policy  *)
(* is applied to the ledger without it.                                     *)
Replacement(current, type, quantity, price) ==
  [current EXCEPT !.type = type, !.quantity = quantity, !.price = price]

Without(i) == [ledger EXCEPT ![i].deleted = TRUE]

Edit(i, type, quantity, price) ==
  /\ i \in Live
  /\ corrections < MaxCorrections
  /\ ledger[i].type \in Editable /\ type \in Editable
  /\ ledger[i].tax <= 20 * quantity * price
  /\ ledger' = [ledger EXCEPT ![i] =
       TaxPolicy(Replacement(ledger[i], type, quantity, price), Without(i))]
  /\ ValidLedger(ledger')
  /\ corrections' = corrections + 1
  /\ chronological' = (chronological /\ Latest(i))

(* delete_event: the remaining ledger must replay; nothing else is taxed again *)
Delete(i) ==
  /\ i \in Live
  /\ corrections < MaxCorrections
  /\ ledger' = Without(i)
  /\ ValidLedger(ledger')
  /\ corrections' = corrections + 1
  /\ chronological' = (chronological /\ Latest(i))

Next ==
  \/ \E type \in Types, day \in Day, quantity \in Quantity, price \in Price, tax \in UserTax :
       AppendEvent(type, day, quantity, price, tax)
  \/ \E i \in DOMAIN ledger, type \in Editable, quantity \in Quantity, price \in Price :
       Edit(i, type, quantity, price)
  \/ \E i \in DOMAIN ledger : Delete(i)

Spec == Init /\ [][Next]_vars
-----------------------------------------------------------------------------
TypeOK ==
  /\ ledger \in Seq(Event)
  /\ Len(ledger) <= MaxEvents
  /\ corrections \in 0 .. MaxCorrections
  /\ chronological \in BOOLEAN

(* The shares that the dividends of S brought, and those that its sales were *)
(* taxed on                                                                  *)
Received(events, S) == Moved(events, {i \in S : events[i].type = "STOCK_DIVIDEND"})
Taxed(events, S) ==
  Cardinality(Shares([i \in S |-> events[i].taxable], {i \in S : events[i].type = "SELL"}))

Sales == {i \in Live : ledger[i].type = "SELL"}

(* No dividend share is taxed twice: at every sale, the sales so far have    *)
(* been taxed on no more shares than the dividends so far have brought.      *)
TaxedOnce ==
  \A i \in Sales : Taxed(ledger, UpTo(ledger, i)) <= Received(ledger, UpTo(ledger, i))

(* No dividend share escapes: a sale leaves some of its shares untaxed only  *)
(* when the pool is exhausted.                                               *)
PoolUsedFirst ==
  \A i \in Sales : ledger[i].taxable < ledger[i].quantity =>
    Taxed(ledger, UpTo(ledger, i)) = Received(ledger, UpTo(ledger, i))

(* The ledger is well typed and, while transactions come in date order,      *)
(* every dividend share is taxed exactly once, by the first sales after it.  *)
PoolInv == TypeOK /\ (chronological => TaxedOnce /\ PoolUsedFirst)

(* What the user entered as tax survives every edit, in which the form      *)
(* sends back the total it shows: the automatic part is never taken for it. *)
UserTaxKept ==
  \A i \in Live \intersect DOMAIN ledger' :
    ledger'[i].tax - ledger'[i].auto = ledger[i].tax - ledger[i].auto
=============================================================================
