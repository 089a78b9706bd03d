------------------------------- MODULE MCLedger -------------------------------
(***************************************************************************)
(* The ledger in two parts, one per behaviour: requests that write events  *)
(* whose validity depends on each other (the purchase needs the deposit,   *)
(* the sale and the withdrawal compete with other uses of the shares and   *)
(* of the cash), and the replay of events into lots.                       *)
(***************************************************************************)
EXTENDS LedgerClients, LotBook

CONSTANTS Parts, FPT, SSI, TCBS, PRIMARY

VARIABLE part       \* the part that works

ssi        == <<SSI, PRIMARY>>
tcbs       == <<TCBS, PRIMARY>>
unassigned == <<Unassigned, PRIMARY>>

Blank(type, date) ==
    [id |-> 0, type |-> type, date |-> date, sym |-> NoSymbol, qty |-> 0,
     price |-> 0, fee |-> 0, tax |-> 0, amount |-> 0, ratio |-> <<0, 1>>,
     custody |-> unassigned, generated |-> FALSE]

Trade(type, custody, qty, price, date) ==
    [Blank(type, date) EXCEPT !.sym = FPT, !.custody = custody, !.qty = qty, !.price = price]

MCTemplates ==
    { [Blank("CASH_DEPOSIT", 1) EXCEPT !.amount = 1],
      [Blank("CASH_WITHDRAW", 2) EXCEPT !.amount = 1],
      [Blank("CASH_DIVIDEND", 2) EXCEPT !.amount = 1, !.sym = FPT, !.generated = TRUE],
      Trade("BUY", ssi, 1, 1, 1),
      Trade("POSITION_IMPORT", tcbs, 1, 1, 2),
      Trade("SELL", ssi, 1, 1, 2) }

\* Two brokers and the legacy unassigned one, two days.  Prices are multiples of 12,
\* so that partial sales, dividends and splits keep whole unit costs often enough.
MCPostings ==
    { [Blank("CASH_DEPOSIT", 1) EXCEPT !.amount = 60],
      [Blank("CASH_WITHDRAW", 2) EXCEPT !.amount = 30],
      [Blank("FEE", 2) EXCEPT !.amount = 1],
      [Blank("CASH_DIVIDEND", 2) EXCEPT !.sym = FPT, !.amount = 20, !.tax = 1],
      Trade("POSITION_IMPORT", tcbs, 2, 24, 1),
      Trade("POSITION_IMPORT", unassigned, 1, 12, 2),
      [Trade("BUY", ssi, 2, 12, 1) EXCEPT !.fee = 2, !.tax = 1],
      [Trade("BUY", tcbs, 1, 12, 2) EXCEPT !.fee = 2],
      Trade("RIGHTS_ISSUE", ssi, 1, 6, 2),
      [Trade("SELL", ssi, 1, 36, 2) EXCEPT !.fee = 1, !.tax = 1],
      Trade("SELL", tcbs, 2, 12, 2),
      Trade("SELL", unassigned, 3, 12, 2),
      Trade("STOCK_DIVIDEND", unassigned, 2, 0, 2),
      Trade("STOCK_DIVIDEND", tcbs, 1, 0, 2),
      [Blank("SPLIT", 2) EXCEPT !.sym = FPT, !.ratio = <<2, 1>>],
      [Blank("SPLIT", 2) EXCEPT !.sym = FPT, !.ratio = <<1, 2>>, !.custody = ssi] }

-------------------------------------------------------------------------------
everything == <<part, vars, clients, replay>>

MCInit == part \in Parts /\ ClientInit /\ BookInit

\* Overlapping requests get one row and one correction less than a single client.
Serve ==
    /\ part = "requests"
    /\ ClientNext
    /\ Alone \/ (Len(rows') < MaxRows /\ Len(corrections') < MaxCorrections)
    /\ UNCHANGED <<part, replay>>

PostEvent == part = "replay" /\ BookNext /\ UNCHANGED <<part, vars, clients>>

MCNext == Serve \/ PostEvent
MCSpec == MCInit /\ [][MCNext]_everything
===============================================================================
