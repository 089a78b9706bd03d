---------------------------- MODULE DividendPosting -----------------------------
(***************************************************************************)
(* Corporate actions of one symbol: discovery through the provider chain,  *)
(* the tracking boundary, and the two ways a dividend reaches the ledger   *)
(* (automated_service.py auto_post_due_dividends, run by every daily sync, *)
(* and correctable_service.py post_corporate_action_receipt).              *)
(*                                                                         *)
(* A posting is two transactions: the ledger event, then the row of        *)
(* corporate_action_postings that keeps it from being posted again.        *)
(*                                                                         *)
(* Left out: withholding tax, the split of a dividend over brokers, and    *)
(* amendments of a dividend's terms.                                       *)
(***************************************************************************)
EXTENDS Integers, Sequences, FiniteSets

CONSTANTS
    Requests,       \* the requests that can be in flight together
    Providers,      \* the dividend providers, tried in turn
    Dividends,      \* the dividends the issuer declares: records of Terms
    Receipts,       \* what a broker statement may report: records of Receipt
    Trades,         \* the <<kind, date>> of the trades a user may record
    LastDay,        \* dates are 1 .. LastDay
    MaxEvents,      \* bound: rows of the ledger
    MaxActions,     \* bound: rows of corporate_actions
    MaxCrashes      \* bound: requests that die in the middle

PostingTypes == {"CASH", "STOCK"}
Days == 1 .. LastDay
Terms == [type : PostingTypes, ex : Days, record : Days, pay : Days, rate : Nat]
\* Cash and shares received, and the day they were.
Receipt == [CASH : Nat, STOCK : Nat, date : Days]

ASSUME DividendAssumption ==
    /\ Dividends \subseteq Terms /\ Receipts \subseteq Receipt
    /\ Trades \subseteq {"BUY", "SELL"} \X Days
    /\ LastDay \in Nat \ {0} /\ {MaxEvents, MaxActions, MaxCrashes} \subseteq Nat

VARIABLES
    today,
    ledger,         \* ledger_events; the id of a row is its position
    discarded,      \* the ids soft-deleted
    start,          \* tracking_start_date of a CURRENT portfolio, 0 without one
    actions,        \* corporate_actions: [provider, terms]
    verified,       \* the actions checked against VSDC, HOSE or HNX
    receipts,       \* corporate_action_receipts by action
    postings,       \* corporate_action_postings: ledger id by action and type
    req,            \* what each request is doing
    crashes

tables == <<ledger, discarded, start, actions, verified, receipts, postings>>
vars == <<today, tables, req, crashes>>

Ids == 1 .. MaxActions
NoReceipt == [CASH |-> 0, STOCK |-> 0, date |-> 0]
EventKinds == PostingTypes \cup {"BUY", "SELL"}
Event == [id : 1 .. MaxEvents, kind : EventKinds, date : Days, qty : Nat, action : 0 .. MaxActions, auto : BOOLEAN]

Steps == {"idle", "fetch", "open", "auto", "autorow", "manual", "manualrow"}
At(pc, view, todo) ==
    [pc |-> pc, view |-> view, todo |-> todo, posted |-> {}, action |-> 0, event |-> 0, receipt |-> NoReceipt]
Idle == At("idle", {}, {})

TypeOK ==
    /\ today \in Days /\ start \in 0 .. LastDay
    /\ ledger \in Seq(Event) /\ discarded \subseteq DOMAIN ledger
    /\ actions \in Seq([provider : Providers, terms : Dividends])
    /\ verified \subseteq DOMAIN actions
    /\ receipts \in [Ids -> Receipt \cup {NoReceipt}]
    /\ postings \in [Ids \X PostingTypes -> 0 .. Len(ledger)]
    /\ \A r \in Requests : req[r].pc \in Steps /\ req[r].view \subseteq Event
    /\ crashes \in 0 .. MaxCrashes

-------------------------------------------------------------------------------
\* What the ledger says about the shares of the symbol.

Effective == {ledger[i] : i \in DOMAIN ledger \ discarded}

\* One element for each share that events of these kinds have moved.
Moved(events, kinds) == UNION {{e} \X (1 .. e.qty) : e \in {f \in events : f.kind \in kinds}}

SharesOf(events) ==
    Cardinality(Moved(events, {"BUY", "STOCK"})) - Cardinality(Moved(events, {"SELL"}))
SharesOn(events, day) == SharesOf({e \in events : e.date <= day})

Before(events, e) == {f \in events : f.date < e.date \/ (f.date = e.date /\ f.id < e.id)}

\* _validate_ledger: a SELL never exceeds the shares, a stock dividend needs some.
Valid(events) ==
    \A e \in events :
        /\ e.kind = "SELL" => e.qty <= SharesOf(Before(events, e))
        /\ e.kind = "STOCK" => SharesOf(Before(events, e)) > 0

NewEvent(kind, date, qty, a, auto) ==
    [id |-> Len(ledger) + 1, kind |-> kind, date |-> date, qty |-> qty, action |-> a, auto |-> auto]

\* append_event: validated on the request's view, then inserted.
CanAppend(view, e) == Len(ledger) < MaxEvents /\ Valid(view \cup {e})

Init ==
    /\ today = 1 /\ start = 0
    /\ ledger = <<>> /\ discarded = {}
    /\ actions = <<>> /\ verified = {}
    /\ receipts = [a \in Ids |-> NoReceipt]
    /\ postings = [p \in Ids \X PostingTypes |-> 0]
    /\ req = [r \in Requests |-> Idle]
    /\ crashes = 0

Goto(r, state) == req' = [req EXCEPT ![r] = state]

-------------------------------------------------------------------------------
\* User transactions and the opening import (one atomic step each: their own
\* interleavings are the subject of Ledger and ImportBatch).

Trade(kind, d) ==
    /\ d <= today
    /\ LET e == NewEvent(kind, d, 1, 0, FALSE)
       IN  CanAppend(Effective, e) /\ ledger' = Append(ledger, e)
    /\ UNCHANGED <<today, discarded, start, actions, verified, receipts, postings, req, crashes>>

\* import_events in CURRENT mode fixes the day tracking starts.
ImportOpening ==
    /\ LET e == NewEvent("BUY", today, 1, 0, FALSE)
       IN  CanAppend(Effective, e) /\ ledger' = Append(ledger, e)
    /\ start' = IF start = 0 THEN today ELSE start
    /\ UNCHANGED <<today, discarded, actions, verified, receipts, postings, req, crashes>>

Discard(i) ==
    /\ i \notin discarded /\ ~ledger[i].auto
    /\ Valid(Effective \ {ledger[i]})
    /\ discarded' = discarded \cup {i}
    /\ UNCHANGED <<today, ledger, start, actions, verified, receipts, postings, req, crashes>>

-------------------------------------------------------------------------------
\* Discovery.

\* The external key of an action holds the provider's name.
Known(p, t) == \E a \in DOMAIN actions : actions[a] = [provider |-> p, terms |-> t]

\* The first provider of the chain that has rows for the symbol answers; a row with
\* a new key is inserted, a known one keeps its id and its verification.
Fetch(r) ==
    /\ req[r].pc = "fetch"
    /\ \/ \E p \in Providers, t \in Dividends :
            /\ ~Known(p, t) /\ Len(actions) < MaxActions
            /\ actions' = Append(actions, [provider |-> p, terms |-> t])
       \/ UNCHANGED actions
    /\ Goto(r, At("open", req[r].view, {}))
    /\ UNCHANGED <<today, ledger, discarded, start, verified, receipts, postings, crashes>>

Entitlement_PaymentDay(t) == t.pay

\* _corporate_action_entitlement_date: the ex-date when there is one.
Entitlement(t) == t.ex

\* A CURRENT portfolio already holds what was decided before it started.
BeforeTracking(t) == start # 0 /\ Entitlement(t) < start

-------------------------------------------------------------------------------
\* Automatic posting, the end of every daily sync.

\* sync_daily reads the effective ledger into the request memo.
BeginSync(r) ==
    /\ req[r].pc = "idle"
    /\ Goto(r, At("fetch", Effective, {}))
    /\ UNCHANGED <<today, tables, crashes>>

Due_Later(t) == t.pay < today
Due(t) == t.pay <= today

Posted == {p \in Ids \X PostingTypes : postings[p] # 0}

OpenPosting_Unposted(r) ==
    /\ req[r].pc = "open"
    /\ LET todo == {a \in DOMAIN actions : Due(actions[a].terms)}
       IN  Goto(r, IF todo = {} THEN Idle ELSE At("auto", req[r].view, todo))
    /\ UNCHANGED <<today, tables, crashes>>

\* The actions that are due and the postings already made are read once.
OpenPosting(r) ==
    /\ req[r].pc = "open"
    /\ LET todo == {a \in DOMAIN actions : Due(actions[a].terms)}
       IN  Goto(r, IF todo = {} THEN Idle
                   ELSE [At("auto", req[r].view, todo) EXCEPT !.posted = Posted])
    /\ UNCHANGED <<today, tables, crashes>>

\* corporate_actions orders them by record date, latest first.
Latest(a, todo) ==
    \A b \in todo :
        LET x == actions[a].terms.record
            y == actions[b].terms.record
        IN  x > y \/ (x = y /\ a >= b)

\* _entitlement_state: the shares held the day before the ex-date.
Entitled(view, t) == SharesOn(view, t.ex - 1)

AutoEvent(view, a) ==
    LET t == actions[a].terms
    IN  NewEvent(t.type, t.pay, Entitled(view, t) * t.rate, a, TRUE)

Drop(r, a) ==
    Goto(r, IF req[r].todo = {a} THEN Idle ELSE [req[r] EXCEPT !.todo = @ \ {a}])

Postable(r, a) ==
    LET t == actions[a].terms
    IN  /\ ~BeforeTracking(t)
        /\ <<a, t.type>> \notin req[r].posted
        /\ Entitled(req[r].view, t) > 0
        /\ t.rate > 0
        /\ CanAppend(req[r].view, AutoEvent(req[r].view, a))

\* One action: skipped, or its event appended.  The memo starts afresh after it.
AutoAppendOf(r, a) ==
    /\ req[r].pc = "auto"
    /\ Latest(a, req[r].todo)
    /\ LET e == AutoEvent(req[r].view, a)
       IN  IF Postable(r, a)
           THEN /\ ledger' = Append(ledger, e)
                /\ Goto(r, [req[r] EXCEPT !.pc = "autorow", !.action = a, !.event = e.id,
                                          !.view = Effective \cup {e}])
           ELSE Drop(r, a) /\ UNCHANGED ledger
    /\ UNCHANGED <<today, discarded, start, actions, verified, receipts, postings, crashes>>

AutoAppend(r) == \E a \in req[r].todo : AutoAppendOf(r, a)

RowEvent_Newest(r) == Len(ledger)
RowEvent(r) == req[r].event

\* The posting row and the receipt, INSERT OR IGNORE both.
AutoRow(r) ==
    /\ req[r].pc = "autorow"
    /\ LET a == req[r].action
           t == actions[a].terms
           q == ledger[req[r].event].qty
           paid == [CASH |-> IF t.type = "CASH" THEN q ELSE 0,
                    STOCK |-> IF t.type = "STOCK" THEN q ELSE 0, date |-> t.pay]
       IN  /\ postings' = [postings EXCEPT ![<<a, t.type>>] = IF @ = 0 THEN RowEvent(r) ELSE @]
           /\ receipts' = [receipts EXCEPT ![a] = IF @ = NoReceipt THEN paid ELSE @]
           /\ LET rest == req[r].todo \ {a}
              IN  Goto(r, IF rest = {} THEN Idle
                          ELSE [req[r] EXCEPT !.pc = "auto", !.todo = rest,
                                              !.posted = @ \cup {<<a, t.type>>}])
    /\ UNCHANGED <<today, ledger, discarded, start, actions, verified, crashes>>

-------------------------------------------------------------------------------
\* The manual workflow: verify, record the broker's receipt, post it.

Verify(a) ==
    /\ verified' = verified \cup {a}
    /\ UNCHANGED <<today, ledger, discarded, start, actions, receipts, postings, req, crashes>>

RecordReceipt(a, rcpt) ==
    /\ ~BeforeTracking(actions[a].terms)
    /\ receipts' = [receipts EXCEPT ![a] = rcpt]
    /\ UNCHANGED <<today, ledger, discarded, start, actions, verified, postings, req, crashes>>

\* Status RECONCILED: the receipt pays what the shares of the record date earn.
Reconciled(view, a) ==
    LET t == actions[a].terms
    IN  receipts[a] # NoReceipt /\ receipts[a][t.type] = SharesOn(view, t.record) * t.rate

Unposted(a) ==
    {k \in PostingTypes : receipts[a][k] > 0 /\ postings[<<a, k>>] = 0}

\* The action, its receipt and the postings made are read once.
BeginPost(r, a) ==
    /\ req[r].pc = "idle"
    /\ a \in verified
    /\ Reconciled(Effective, a)
    /\ ~BeforeTracking(actions[a].terms)
    /\ Unposted(a) # {}
    /\ Goto(r, [At("manual", Effective, Unposted(a)) EXCEPT !.action = a, !.receipt = receipts[a]])
    /\ UNCHANGED <<today, tables, crashes>>

\* Cash first, dated the day it was received; an event of the future, or one the
\* ledger refuses, ends the request.
ManualAppend(r) ==
    /\ req[r].pc = "manual"
    /\ LET a == req[r].action
           k == IF "CASH" \in req[r].todo THEN "CASH" ELSE "STOCK"
           e == NewEvent(k, req[r].receipt.date, req[r].receipt[k], a, FALSE)
       IN  IF e.date <= today /\ CanAppend(req[r].view, e)
           THEN /\ ledger' = Append(ledger, e)
                /\ Goto(r, [req[r] EXCEPT !.pc = "manualrow", !.event = e.id,
                                          !.view = Effective \cup {e}])
           ELSE Goto(r, Idle) /\ UNCHANGED ledger
    /\ UNCHANGED <<today, discarded, start, actions, verified, receipts, postings, crashes>>

\* A plain INSERT: a posting row made meanwhile ends the request with an error.
ManualRow(r) ==
    /\ req[r].pc = "manualrow"
    /\ LET key  == <<req[r].action, ledger[req[r].event].kind>>
           rest == req[r].todo \ {key[2]}
       IN  IF postings[key] # 0
           THEN Goto(r, Idle) /\ UNCHANGED postings
           ELSE /\ postings' = [postings EXCEPT ![key] = RowEvent(r)]
                /\ Goto(r, IF rest = {} THEN Idle
                           ELSE [req[r] EXCEPT !.pc = "manual", !.todo = rest])
    /\ UNCHANGED <<today, ledger, discarded, start, actions, verified, receipts, crashes>>

-------------------------------------------------------------------------------
NextDay ==
    /\ today < LastDay
    /\ today' = today + 1
    /\ UNCHANGED <<tables, req, crashes>>

Crash(r) ==
    /\ req[r].pc # "idle"
    /\ crashes < MaxCrashes
    /\ crashes' = crashes + 1
    /\ Goto(r, Idle)
    /\ UNCHANGED <<today, tables>>

UserStep ==
    \/ \E t \in Trades : Trade(t[1], t[2])
    \/ ImportOpening
    \/ \E i \in DOMAIN ledger : Discard(i)
    \/ \E a \in DOMAIN actions : Verify(a)
    \/ \E a \in DOMAIN actions, rcpt \in Receipts : RecordReceipt(a, rcpt)

Begin(r) == BeginSync(r) \/ \E a \in DOMAIN actions : BeginPost(r, a)

Continue(r) ==
    \/ Fetch(r) \/ OpenPosting(r) \/ AutoAppend(r) \/ AutoRow(r)
    \/ ManualAppend(r) \/ ManualRow(r)

Next ==
    \/ UserStep \/ NextDay
    \/ \E r \in Requests : Begin(r) \/ Continue(r) \/ Crash(r)

Spec == Init /\ [][Next]_vars

\* No request is in flight.
Quiet == \A r \in Requests : req[r] = Idle

-------------------------------------------------------------------------------
Postings(a, k) == {i \in DOMAIN ledger : ledger[i].action = a /\ ledger[i].kind = k}

\* README.md: "Dividend/corporate-action posting remains idempotent": an action is
\* posted to the ledger at most once per type, through whichever workflow, even
\* when its event has been discarded since.
PostedOnce == \A a \in DOMAIN actions, k \in PostingTypes : Cardinality(Postings(a, k)) <= 1

\* "... and auditable": a posting row points at an event of its own action and
\* type, and there is a receipt to go with it, whatever overlaps or dies.
PostingsAuditable ==
    \A a \in Ids, k \in PostingTypes : postings[<<a, k>>] # 0 =>
        /\ postings[<<a, k>>] \in Postings(a, k)
        /\ receipts[a] # NoReceipt

\* The tables are well typed and their postings auditable.
PostingInv == TypeOK /\ PostingsAuditable

\* What was decided before a CURRENT portfolio started is part of its opening
\* balance and never enters the ledger as income.
OpeningLeftOut ==
    \A e \in Effective' \ Effective :
        e.action # 0 /\ start # 0 => start <= actions[e.action].terms.ex

\* A dividend that is payable, to shares still in the book on the payment date, does
\* not stay unposted, even when the process that should have posted it died.
Payable(a) ==
    LET t == actions[a].terms
    IN  /\ t.pay <= today /\ t.rate > 0
        /\ start = 0 \/ start <= t.ex
        /\ SharesOn(Effective, t.ex - 1) > 0
        /\ SharesOn(Effective, t.pay) > 0
        /\ Len(ledger) < MaxEvents

Arrived == \A a \in DOMAIN actions : Payable(a) => postings[<<a, actions[a].terms.type>>] # 0
===============================================================================
