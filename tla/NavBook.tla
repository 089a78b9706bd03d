------------------------------- MODULE NavBook --------------------------------
(***************************************************************************)
(* NAV history (service.py _rebuild_snapshot_history, the mutating         *)
(* operations of correctable_service.py and automated_service.py, and the  *)
(* NAV controls of institutional.py).  Snapshots are derived: every        *)
(* mutation of the ledger and every market sync deletes and rebuilds all   *)
(* of them, one transaction per date.  Mutations of a date that already    *)
(* has a snapshot open a restatement.                                      *)
(*                                                                         *)
(* An event is abstracted to its identity, date, symbol and revision: a    *)
(* snapshot is what it was computed from, so two NAVs are equal here when  *)
(* they stand for the same events.  A holding, once opened, stays open;    *)
(* cash moves by one amount.  A bar is its symbol and date: that a later   *)
(* answer restates its close (storage.py upsert_market_prices), and a NAV  *)
(* with it, is not modelled.                                               *)
(***************************************************************************)
EXTENDS Integers, Sequences, FiniteSets

CONSTANTS
    Requests,           \* the requests that can be in flight together
    Symbols,
    Deposit, Withdrawal,    \* in place of the symbol: the event moves cash
    LastDate,           \* dates are 1 .. LastDate
    HistoryLimit,       \* bars one rebuild reads, of all symbols together (10000)
    MaxEvents,          \* bound: events ever recorded
    MaxRevisions,       \* bound: edits of one event
    MaxCrashes          \* bound: requests that die in the middle

ASSUME NavAssumption ==
    /\ IsFiniteSet(Symbols) /\ Deposit # Withdrawal /\ {Deposit, Withdrawal} \cap Symbols = {}
    /\ LastDate \in Nat \ {0} /\ HistoryLimit \in Nat \ {0}
    /\ MaxEvents \in Nat /\ MaxRevisions \in Nat /\ MaxCrashes \in Nat

VARIABLES
    ledger,         \* the effective ledger
    recorded,       \* how many events were ever recorded
    market,         \* market_prices: the <<symbol, date>> pairs with a bar
    snaps,          \* portfolio_snapshots
    control,        \* nav_controls: status by date
    restatements,   \* nav_restatements: [from, open]
    req,            \* what each request is doing
    crashes,
    shown           \* ghost: the last official snapshot each date has shown

tables == <<ledger, recorded, market, snaps, control, restatements>>
vars == <<tables, req, crashes, shown>>

Dates == 1 .. LastDate
NoSnap == [events |-> {}, official |-> FALSE]
CashMoves == {Deposit, Withdrawal}
Event == [id : 1 .. MaxEvents, date : Dates, sym : Symbols \cup CashMoves, rev : Nat]
Snapshot == [events : SUBSET Event, official : BOOLEAN]
Statuses == {"none", "LOCKED", "RESTATEMENT_REQUIRED", "OFFICIAL", "RESTATED"}
Steps == {"idle", "write", "check", "mark", "clear", "fetch", "read", "wipe", "save",
          "restate"}
Request == [pc : Steps, from : Dates, ledger : SUBSET Event, late : BOOLEAN,
            todo : SUBSET Dates, bars : SUBSET (Symbols \X Dates)]
At(pc, from, late, events) == [pc |-> pc, from |-> from, ledger |-> events,
                               late |-> late, todo |-> {}, bars |-> {}]
Idle == At("idle", 1, FALSE, {})

TypeOK ==
    /\ ledger \subseteq Event /\ recorded \in 0 .. MaxEvents
    /\ market \subseteq Symbols \X Dates
    /\ snaps \in [Dates -> Snapshot] /\ shown \in [Dates -> Snapshot]
    /\ control \in [Dates -> Statuses]
    /\ restatements \in Seq([from : Dates, open : BOOLEAN])
    /\ req \in [Requests -> Request]
    /\ crashes \in 0 .. MaxCrashes

-------------------------------------------------------------------------------
\* The ledger, and _rebuild_snapshot_history as a function of the events and bars it
\* has read.

Until(events, d) == {e \in events : e.date <= d}
SymbolsOf(events) == {e.sym : e \in events} \ CashMoves

Moves(events, kind) == Cardinality({e \in events : e.sym = kind})
Cash(events) == Moves(events, Deposit) - Moves(events, Withdrawal)

\* _validate_ledger replays the ledger in order: no withdrawal of cash that is not there.
Funded(events) ==
    \A e \in events : e.sym = Withdrawal =>
        Cash({f \in events : f.date < e.date \/ (f.date = e.date /\ f.id <= e.id)}) >= 0

\* The bars price_histories may answer with: the newest HistoryLimit of the ledger's
\* symbols together, in no order within a date.
Windows(events, bars) ==
    LET rows == {b \in bars : b[1] \in SymbolsOf(events)}
    IN  {w \in SUBSET rows : /\ w = rows \/ Cardinality(w) = HistoryLimit
                             /\ Cardinality(w) <= HistoryLimit
                             /\ \A b \in w, c \in rows \ w : c[2] <= b[2]}

\* The dates on which a symbol of the ledger has a bar, from the first event on.
MarketDates(events, bars) ==
    {d \in Dates : /\ \E s \in SymbolsOf(events) : <<s, d>> \in bars
                   /\ Until(events, d) # {}}

\* Every holding has been seen on a date of the history, this one or an earlier one.
Priced(events, bars, d) ==
    \A s \in SymbolsOf(Until(events, d)) :
        \E c \in MarketDates(events, bars) : c <= d /\ <<s, c>> \in bars

\* No holdings and no cash to show.
Penniless(events) == SymbolsOf(events) = {} /\ Cash(events) <= 0

\* The dates that are not skipped.
Valued(events, bars, d) == Priced(events, bars, d) /\ ~Penniless(Until(events, d))

Exact(events, bars, d) == \A s \in SymbolsOf(Until(events, d)) : <<s, d>> \in bars

SnapshotOf(events, bars, d) ==
    [events |-> Until(events, d), official |-> Exact(events, bars, d)]

Derived(events, bars) ==
    [d \in Dates |-> IF d \in MarketDates(events, bars) /\ Valued(events, bars, d)
                     THEN SnapshotOf(events, bars, d) ELSE NoSnap]

HasSnap(d) == snaps[d] # NoSnap

Published_Before(d) == \E c \in Dates : c > d /\ HasSnap(c)

\* A change dated d is late: latest_snapshot, if there is one, is of that date or later.
Published(d) == \E c \in Dates : c >= d /\ HasSnap(c)

Init ==
    /\ ledger = {} /\ recorded = 0 /\ market = {}
    /\ snaps = [d \in Dates |-> NoSnap] /\ shown = [d \in Dates |-> NoSnap]
    /\ control = [d \in Dates |-> "none"]
    /\ restatements = <<>>
    /\ req = [r \in Requests |-> Idle]
    /\ crashes = 0

Goto(r, state) == req' = [req EXCEPT ![r] = state]
Step(r, pc) == req' = [req EXCEPT ![r].pc = pc]

-------------------------------------------------------------------------------
\* Ledger mutations.

\* append_event validates the ledger with the event, and reads the latest snapshot for
\* the comparison below, before it inserts the event.
BeginAppend(r, d, s) ==
    /\ req[r].pc = "idle"
    /\ recorded < MaxEvents
    /\ LET e == [id |-> recorded + 1, date |-> d, sym |-> s, rev |-> 0]
       IN  /\ Funded(ledger \cup {e})
           /\ Goto(r, At("write", d, Published(d), {e}))
    /\ UNCHANGED <<tables, crashes, shown>>

\* An event dated on or before the snapshot read above requires a restatement.
InsertEvent(r) ==
    /\ req[r].pc = "write"
    /\ recorded < MaxEvents
    /\ ledger' = ledger \cup {[e EXCEPT !.id = recorded + 1] : e \in req[r].ledger}
    /\ recorded' = recorded + 1
    /\ Step(r, IF req[r].late THEN "mark" ELSE "clear")
    /\ UNCHANGED <<market, snaps, control, restatements, crashes, shown>>

\* update_event and delete_event: the correction row, which keeps the date; a deletion
\* must leave the rest of the ledger funded.
Correct(r, e) ==
    /\ req[r].pc = "idle"
    /\ \/ e.rev < MaxRevisions /\ ledger' = (ledger \ {e}) \cup {[e EXCEPT !.rev = @ + 1]}
       \/ Funded(ledger \ {e}) /\ ledger' = ledger \ {e}
    /\ Goto(r, At("check", e.date, FALSE, {}))
    /\ UNCHANGED <<recorded, market, snaps, control, restatements, crashes, shown>>

\* _mark_restatement_if_needed reads the latest snapshot after the correction.
Check(r) ==
    /\ req[r].pc = "check"
    /\ Step(r, IF Published(req[r].from) THEN "mark" ELSE "clear")
    /\ UNCHANGED <<tables, crashes, shown>>

\* mark_restatement: one transaction.
Mark(r) ==
    /\ req[r].pc = "mark"
    /\ restatements' = Append(restatements, [from |-> req[r].from, open |-> TRUE])
    /\ control' = [d \in Dates |-> IF d >= req[r].from /\ HasSnap(d)
                                   THEN "RESTATEMENT_REQUIRED" ELSE control[d]]
    /\ Step(r, "clear")
    /\ UNCHANGED <<ledger, recorded, market, snaps, crashes, shown>>

Clear_HistoryKept(r) ==
    /\ req[r].pc = "clear"
    /\ req' = [req EXCEPT ![r].pc = "read", ![r].ledger = ledger]
    /\ UNCHANGED <<tables, crashes, shown>>

\* _refresh_derived_history empties the history before it rebuilds it.
Clear(r) ==
    /\ req[r].pc = "clear"
    /\ snaps' = [d \in Dates |-> NoSnap]
    /\ req' = [req EXCEPT ![r].pc = "read", ![r].ledger = ledger]
    /\ UNCHANGED <<ledger, recorded, market, control, restatements, crashes, shown>>

-------------------------------------------------------------------------------
\* The daily sync, and the rebuild it shares with every mutation.

\* The ledger is read, and memoised for the request, before the network calls.
BeginSync(r) ==
    /\ req[r].pc = "idle"
    /\ Goto(r, At("fetch", 1, FALSE, ledger))
    /\ UNCHANGED <<tables, crashes, shown>>

\* Each symbol of the ledger gets the bars its provider answered with, if any.
Fetch(r) ==
    /\ req[r].pc = "fetch"
    /\ \E bars \in SUBSET (SymbolsOf(req[r].ledger) \X Dates) : market' = market \cup bars
    /\ Step(r, "read")
    /\ UNCHANGED <<ledger, recorded, snaps, control, restatements, crashes, shown>>

ReadHistories_OnlyOnce(r) ==
    /\ req[r].pc = "read"
    /\ \E bars \in Windows(req[r].ledger, market) :
         LET dates == MarketDates(req[r].ledger, bars)
         IN  Goto(r, IF dates = {} \/ \A d \in dates : Published(d) THEN Idle
                     ELSE [req[r] EXCEPT !.pc = "wipe", !.todo = dates, !.bars = bars])
    /\ UNCHANGED <<tables, crashes, shown>>

\* The bars are read; without events or bars the history is left as it is.
ReadHistories(r) ==
    /\ req[r].pc = "read"
    /\ \E bars \in Windows(req[r].ledger, market) :
         LET dates == MarketDates(req[r].ledger, bars)
         IN  Goto(r, IF dates = {} THEN Idle
                     ELSE [req[r] EXCEPT !.pc = "wipe", !.todo = dates, !.bars = bars])
    /\ UNCHANGED <<tables, crashes, shown>>

Wipe(r) ==
    /\ req[r].pc = "wipe"
    /\ snaps' = [d \in Dates |-> NoSnap]
    /\ Step(r, "save")
    /\ UNCHANGED <<ledger, recorded, market, control, restatements, crashes, shown>>

\* One date of the rebuild, the next one: save_snapshot, or skip the date.
SaveDate(r, d) ==
    /\ req[r].pc = "save"
    /\ \A c \in req[r].todo : d <= c
    /\ LET snap == SnapshotOf(req[r].ledger, req[r].bars, d)
           rest == req[r].todo \ {d}
       IN  /\ IF Valued(req[r].ledger, req[r].bars, d)
              THEN /\ snaps' = [snaps EXCEPT ![d] = snap]
                   /\ shown' = IF snap.official THEN [shown EXCEPT ![d] = snap] ELSE shown
              ELSE UNCHANGED <<snaps, shown>>
           /\ Goto(r, IF rest = {} THEN Idle ELSE [req[r] EXCEPT !.todo = rest])
    /\ UNCHANGED <<ledger, recorded, market, control, restatements, crashes>>

Save(r) == \E d \in req[r].todo : SaveDate(r, d)

-------------------------------------------------------------------------------
\* NAV controls.

Lock(r, d) ==
    /\ req[r].pc = "idle"
    /\ snaps[d].official
    /\ control' = [control EXCEPT ![d] = "LOCKED"]
    /\ UNCHANGED <<ledger, recorded, market, snaps, restatements, req, crashes, shown>>

Recontrol(from, old, new) ==
    control' = [d \in Dates |-> IF d >= from /\ control[d] = old THEN new ELSE control[d]]

Resolve_RowOnly(r, k) ==
    /\ req[r].pc = "idle"
    /\ restatements' = [restatements EXCEPT ![k].open = FALSE]
    /\ Goto(r, At("restate", restatements[k].from, FALSE, {}))
    /\ UNCHANGED <<ledger, recorded, market, snaps, control, crashes, shown>>

\* resolve_restatement, first transaction.
Resolve(r, k) ==
    /\ req[r].pc = "idle"
    /\ restatements' = [restatements EXCEPT ![k].open = FALSE]
    /\ Recontrol(restatements[k].from, "RESTATEMENT_REQUIRED", "OFFICIAL")
    /\ Goto(r, At("restate", restatements[k].from, FALSE, {}))
    /\ UNCHANGED <<ledger, recorded, market, snaps, crashes, shown>>

\* The second, in the service: what is OFFICIAL becomes RESTATED.
Restate(r) ==
    /\ req[r].pc = "restate"
    /\ Recontrol(req[r].from, "OFFICIAL", "RESTATED")
    /\ Goto(r, Idle)
    /\ UNCHANGED <<ledger, recorded, market, snaps, restatements, crashes, shown>>

\* The process serving the request dies between two transactions.
Crash(r) ==
    /\ req[r].pc # "idle"
    /\ crashes < MaxCrashes
    /\ crashes' = crashes + 1
    /\ Goto(r, Idle)
    /\ UNCHANGED <<tables, shown>>

Begin(r) ==
    \/ \E d \in Dates, s \in Symbols \cup CashMoves : BeginAppend(r, d, s)
    \/ \E e \in ledger : Correct(r, e)
    \/ BeginSync(r)
    \/ \E d \in Dates : Lock(r, d)
    \/ \E k \in DOMAIN restatements : Resolve(r, k)

Continue(r) ==
    \/ InsertEvent(r) \/ Check(r) \/ Mark(r) \/ Clear(r)
    \/ Fetch(r) \/ ReadHistories(r) \/ Wipe(r) \/ Save(r)
    \/ Restate(r)

Next == \E r \in Requests : Begin(r) \/ Continue(r) \/ Crash(r)

Spec == Init /\ [][Next]_vars

\* No request is in flight.
Quiet == \A r \in Requests : req[r] = Idle

-------------------------------------------------------------------------------
\* The history is what the ledger and the bars one rebuild reads give.
Follows == \E bars \in Windows(ledger, market) : snaps = Derived(ledger, bars)

\* Between requests the whole history is what the current ledger and the stored
\* bars give (automated_service.py: "Holdings, Performance and Transaction history
\* all derive from the same effective ledger").
SnapshotsFollowLedger == Quiet => Follows

\* As long as all bars stored fit in one rebuild's read, no date drops out of it.
Fits == Cardinality(market) <= HistoryLimit

\* An official NAV that has been shown for a date with holdings is never replaced by
\* another one behind the reader's back: the date has been marked for restatement
\* first.  A LOCKED date, in particular, never changes while it says LOCKED.
\* A date without holdings has a snapshot only as long as a later event brings in a
\* symbol with a bar of that date: when that event is deleted the snapshot goes, and
\* a change of its date is then no change of anything published.
HistoricalFlags ==
    \A d \in Dates : SymbolsOf(shown[d].events) # {} /\ shown'[d] # shown[d] =>
        control[d] \in {"RESTATEMENT_REQUIRED", "RESTATED"}

\* INV-08: whatever rebuilds overlap, an OFFICIAL snapshot has a bar of its own
\* date for every symbol held on it.
OfficialIsExact ==
    \A d \in Dates : snaps[d].official =>
        \A e \in snaps[d].events : e.sym \in CashMoves \/ <<e.sym, d>> \in market

\* A date asks for a restatement review only while some restatement that covers it
\* is open: nobody is left with a review that no open item explains.
NoOrphanReview ==
    \A d \in Dates : control[d] = "RESTATEMENT_REQUIRED" =>
        \E k \in DOMAIN restatements : restatements[k].open /\ restatements[k].from <= d

\* What overlapping rebuilds cannot break.
HistorySound == TypeOK /\ OfficialIsExact /\ NoOrphanReview

\* A crash may leave the history empty, partial or older than the ledger; the
\* daily sync repairs it, as long as the ledger still has a priced symbol (without
\* one the rebuild returns before it deletes anything).
Healed == MarketDates(ledger, market) = {} \/ Follows
===============================================================================
