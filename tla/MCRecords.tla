------------------------------ MODULE MCRecords ------------------------------
(***************************************************************************)
(* The records of a portfolio, one component per behaviour: they share no  *)
(* variable, so nothing is lost by leaving the others where they start.    *)
(***************************************************************************)
EXTENDS Records, FiniteSets, TLC

VARIABLE part           \* the component that works

everything == <<part, records>>

OneClient  == {{r} : r \in Requests}
TwoClients == {S \in SUBSET Requests : Cardinality(S) = 2}

Symmetry == Permutations(Requests)

\* Imported rows come with or without cash; a client may have chosen a key itself.
TwoPayloads  == {[name |-> "fpt", size |-> 1], [name |-> "fpt+cash", size |-> 2]}
OneKey       == {<<"key-0001", 0>>}
TwoProviders == <<"vndirect", "vnstock">>
TwoSources   == <<"vps", "cafef">>

-------------------------------------------------------------------------------
\* Bound: from the fourth write on the ledger is chronological, at the par value and
\* without a tax of the user's own; there are five writes.
Writes == Len(taxLedger) + corrections
Plain ==
    /\ chronological
    /\ \A i \in DOMAIN taxLedger :
         taxLedger[i].price = 2 /\ taxLedger[i].tax = taxLedger[i].auto
Prices(n) == IF n < 4 THEN {1, 2} ELSE {2}
UserTax(n) == IF n < 4 THEN {0, 1} ELSE {0}

\* Four days, one after another or two apart; a ratio given as a percentage, one that
\* is missing and one that is refused.
Offer(provider, native, day, ratio) == [provider |-> provider, native |-> native, day |-> day, ratio |-> ratio]
SixOffers ==
    { Offer("tcbs", TRUE, 1, 10), Offer("tcbs", TRUE, 3, 1000), Offer("cafef", FALSE, 2, 10),
      Offer("cafef", FALSE, 4, 15), Offer("vps", TRUE, 2, -1), Offer("cafef", FALSE, 3, 25000) }

ProviderPriority == [p \in {"tcbs", "cafef", "vps"} |-> CASE p = "tcbs" -> 0 [] p = "cafef" -> 1 [] OTHER -> 2]
Missing == -1

-------------------------------------------------------------------------------
MCInit ==
    /\ \/ part = "log" /\ clients \in OneClient \cup {Requests}
       \/ part \in {"import", "registry"} /\ clients \in OneClient \cup TwoClients
       \/ part \in {"tax", "sessions", "bars", "history", "evidence"} /\ clients = Requests
    /\ RecordsInit

\* Bounds: overlapping requests insert two portfolios at most, and one of the threads
\* asks for one symbol.
Bounds ==
    /\ Alone \/ (nextId <= 3 /\ \A r \in clients : request[r].id <= 2)
    /\ thread["t2"].query # "VNM"

OneRecord ==
    /\ \/ part = "log" /\ WriteLog
       \/ part = "import" /\ ImportOpening
       \/ part = "registry" /\ Administer
       \/ part = "sessions" /\ Connect
       \/ part = "bars" /\ SyncMarket
       \/ part = "history" /\ ShowDividends
       \/ part = "evidence" /\ Reconcile
    /\ UNCHANGED <<part, clients>>
    /\ Bounds'

TaxSales ==
    /\ part = "tax"
    /\ Writes < 5
    /\ \/ \E type \in Tax!Types, day \in TradeDays, quantity \in Quantities, price \in Prices(Writes + 1),
             tax \in UserTax(Writes + 1) : Tax!AppendEvent(type, day, quantity, price, tax)
       \/ \E i \in DOMAIN taxLedger, type \in Tax!Editable, quantity \in Quantities,
             price \in Prices(Writes + 1) : Tax!Edit(i, type, quantity, price)
       \/ \E i \in DOMAIN taxLedger : Tax!Delete(i)
    /\ Writes' >= 4 => Plain'
    /\ UNCHANGED <<part, clients, vars, imports, registry, sessions, bars, history, evidence>>

MCNext == OneRecord \/ TaxSales
MCSpec == MCInit /\ [][MCNext]_everything

===============================================================================
