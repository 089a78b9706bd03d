-------------------------------- MODULE Ledger --------------------------------
(***************************************************************************)
(* The correctable ledger (python/portfolio/corrections.py and the ledger  *)
(* operations of correctable_service.py and automated_service.py) under    *)
(* concurrent requests.                                                    *)
(*                                                                         *)
(* Two tables, ledger_events and ledger_corrections, are only appended to. *)
(* What the portfolio holds derives from the effective ledger: every row   *)
(* at its current version, soft-deleted rows left out.  A request reads    *)
(* the effective ledger once (request_memo serves every later read of the  *)
(* same request), validates on that view, and writes in a transaction of   *)
(* its own.  The web server runs requests on several threads and           *)
(* instances, and no lock spans a request.                                 *)
(*                                                                         *)
(* Left out: the wording of reasons, and the amount the dividend tax       *)
(* policy adds to an event (a template is an event after that policy).     *)
(***************************************************************************)
EXTENDS Accounting, FiniteSets

CONSTANTS
    Requests,           \* the requests that can be in flight together
    Templates,          \* the events users may ask for, with id 0
    MaxRows,            \* bound: rows of ledger_events
    MaxCorrections      \* bound: rows of ledger_corrections

ASSUME LedgerAssumption ==
    /\ Templates \subseteq Events
    /\ MaxRows \in Nat /\ MaxCorrections \in Nat

VARIABLES
    rows,           \* ledger_events; the id of a row is its position
    corrections,    \* ledger_corrections, in id order
    req             \* the write each request has validated and not yet made

vars == <<rows, corrections, req>>

NoEvent == [none |-> TRUE]

Correction ==
    [event : Nat, action : {"EDIT"}, replacement : Events]
      \cup [event : Nat, action : {"DELETE"}, replacement : {NoEvent}]

Idle == [op |-> "idle", target |-> 0, event |-> NoEvent]

Request ==
    [op : {"idle", "delete"}, target : Nat, event : {NoEvent}]
      \cup [op : {"append", "edit"}, target : Nat, event : Events]

TypeOK ==
    /\ rows \in Seq(Events)
    /\ corrections \in Seq(Correction)
    /\ req \in [Requests -> Request]

-------------------------------------------------------------------------------
\* corrections.py: the current version and status of every row.

IsDelete(k, i) == corrections[k].event = i /\ corrections[k].action = "DELETE"

IsEdit(k, i) == corrections[k].event = i /\ corrections[k].action = "EDIT"

Deleted(i) == \E k \in DOMAIN corrections : IsDelete(k, i)

LiveEdits_DeletedToo(i) == {k \in DOMAIN corrections : IsEdit(k, i)}

\* Edits count while the row is still ACTIVE: those before its first DELETE.
LiveEdits(i) ==
    {k \in DOMAIN corrections : IsEdit(k, i) /\ \A j \in 1 .. k : ~IsDelete(j, i)}

LatestEdit(i) == CHOOSE k \in LiveEdits(i) : \A j \in LiveEdits(i) : j <= k

Version(i) ==
    [(IF LiveEdits(i) = {} THEN rows[i] ELSE corrections[LatestEdit(i)].replacement)
        EXCEPT !.id = i]

Active == {i \in DOMAIN rows : ~Deleted(i)}

EffectiveEvents == {Version(i) : i \in Active}

Others(events, i) == {e \in events : e.id # i}

-------------------------------------------------------------------------------
\* What a request may write, judged on the view it has read.

EditableTypes == {"POSITION_IMPORT", "BUY", "RIGHTS_ISSUE", "SELL"}

\* normalize_event_payload, for what the templates do not already fix.
Normalized(e) ==
    /\ e.type = "SELL" => e.custody[1] # Unassigned
    /\ e.type \in {"BUY", "SELL"} => e.fee + e.tax <= e.qty * e.price
    /\ e.type = "CASH_DIVIDEND" => e.tax <= e.amount
    /\ e.type \in HoldingTypes => e.sym \in Symbols

EditAllowed_AnyDate(current, e) ==
    /\ current.type = e.type \/ {current.type, e.type} \subseteq EditableTypes
    /\ current.sym = e.sym
    /\ current.amount = e.amount /\ current.ratio = e.ratio

\* _enforce_edit_policy: only type (among stock types), quantity, price, tax and
\* broker may change; the fee may follow a change of type.
EditAllowed(current, e) ==
    /\ current.type = e.type \/ {current.type, e.type} \subseteq EditableTypes
    /\ current.date = e.date /\ current.sym = e.sym
    /\ current.amount = e.amount /\ current.ratio = e.ratio
    /\ current.custody[2] = e.custody[2]
    /\ current.type = e.type => current.fee = e.fee
    /\ current.generated = e.generated

Init ==
    /\ rows = <<>>
    /\ corrections = <<>>
    /\ req = [r \in Requests |-> Idle]

\* append_event up to its INSERT: read, number the event max(id) + 1, validate.
BeginAppend(r, t) ==
    /\ req[r] = Idle
    /\ Len(rows) < MaxRows
    /\ Normalized(t)
    /\ ValidLedger(EffectiveEvents \cup {[t EXCEPT !.id = Len(rows) + 1]})
    /\ req' = [req EXCEPT ![r] =
                 [op |-> "append", target |-> 0, event |-> t]]
    /\ UNCHANGED <<rows, corrections>>

CommitAppend(r) ==
    /\ req[r].op = "append"
    /\ Len(rows) < MaxRows
    /\ rows' = Append(rows, [req[r].event EXCEPT !.id = Len(rows) + 1])
    /\ req' = [req EXCEPT ![r] = Idle]
    /\ UNCHANGED corrections

\* update_event up to the INSERT of its EDIT row.
BeginEdit(r, i, t) ==
    /\ req[r] = Idle
    /\ i \in Active
    /\ Normalized(t)
    /\ EditAllowed(Version(i), t)
    /\ ValidLedger(Others(EffectiveEvents, i) \cup {[t EXCEPT !.id = i]})
    /\ req' = [req EXCEPT ![r] =
                 [op |-> "edit", target |-> i, event |-> t]]
    /\ UNCHANGED <<rows, corrections>>

CommitEdit(r) ==
    /\ req[r].op = "edit"
    /\ Len(corrections) < MaxCorrections
    /\ corrections' = Append(corrections,
           [event |-> req[r].target, action |-> "EDIT",
            replacement |-> [req[r].event EXCEPT !.id = req[r].target]])
    /\ req' = [req EXCEPT ![r] = Idle]
    /\ UNCHANGED rows

BeginDelete_Unchecked(r, i) ==
    /\ req[r] = Idle
    /\ i \in Active
    /\ ~Version(i).generated
    /\ req' = [req EXCEPT ![r] =
                 [op |-> "delete", target |-> i, event |-> NoEvent]]
    /\ UNCHANGED <<rows, corrections>>

\* delete_event up to the INSERT of its DELETE row.
BeginDelete(r, i) ==
    /\ req[r] = Idle
    /\ i \in Active
    /\ ~Version(i).generated
    /\ ValidLedger(Others(EffectiveEvents, i))
    /\ req' = [req EXCEPT ![r] =
                 [op |-> "delete", target |-> i, event |-> NoEvent]]
    /\ UNCHANGED <<rows, corrections>>

CommitDelete(r) ==
    /\ req[r].op = "delete"
    /\ Len(corrections) < MaxCorrections
    /\ corrections' = Append(corrections,
           [event |-> req[r].target, action |-> "DELETE", replacement |-> NoEvent])
    /\ req' = [req EXCEPT ![r] = Idle]
    /\ UNCHANGED rows

\* The process serving the request dies, or the INSERT fails.
Abandon(r) ==
    /\ req[r].op # "idle"
    /\ req' = [req EXCEPT ![r] = Idle]
    /\ UNCHANGED <<rows, corrections>>

Begin(r) ==
    \/ \E t \in Templates : BeginAppend(r, t)
    \/ \E i \in DOMAIN rows, t \in Templates : BeginEdit(r, i, t)
    \/ \E i \in DOMAIN rows : BeginDelete(r, i)

Finish(r) == CommitAppend(r) \/ CommitEdit(r) \/ CommitDelete(r) \/ Abandon(r)

Next == \E r \in Requests : Begin(r) \/ Finish(r)

Spec == Init /\ [][Next]_vars

\* The same program when a client waits for each answer before its next request.
Quiet == \A r \in Requests : req[r] = Idle

SerialNext == \E r \in Requests : (Quiet /\ Begin(r)) \/ Finish(r)

SerialSpec == Init /\ [][SerialNext]_vars

-------------------------------------------------------------------------------
\* Nothing is ever updated or removed in the two tables: at every step each is a
\* prefix of what it becomes (INV-04; the spec's "no ledger-event update/delete").
TablesOnlyGrow ==
    /\ Len(rows) <= Len(rows') /\ \A i \in DOMAIN rows : rows'[i] = rows[i]
    /\ Len(corrections) <= Len(corrections')
    /\ \A k \in DOMAIN corrections : corrections'[k] = corrections[k]

HistoryImmutable == [][TablesOnlyGrow]_vars

\* A soft delete is final even when an edit or a second delete of the same
\* transaction, prepared before it, is written after it: the row stays deleted
\* and the version the audit trail shows for it no longer changes.
DeletedRowsFrozen ==
    \A i \in DOMAIN rows : Deleted(i) => Deleted(i)' /\ Version(i)' = Version(i)

SoftDeleteFinal == [][DeletedRowsFrozen]_vars

\* However many edits of one row race each other, each checked against the
\* version its own request saw, the fields the policy protects keep the value of
\* the immutable source row.
EditsKeepIdentity ==
    \A i \in DOMAIN rows :
        /\ Version(i).date = rows[i].date /\ Version(i).sym = rows[i].sym
        /\ Version(i).amount = rows[i].amount /\ Version(i).ratio = rows[i].ratio
        /\ Version(i).custody[2] = rows[i].custody[2]
        /\ Version(i).generated = rows[i].generated
        /\ rows[i].type \notin EditableTypes => Version(i).type = rows[i].type

\* INV-04: one write changes the effective ledger by at most one transaction,
\* and reading, validating or failing changes nothing.
AtMostOneChanges ==
    \E i \in 0 .. MaxRows : Others(EffectiveEvents, i)' = Others(EffectiveEvents, i)

OneTransactionPerWrite == [][AtMostOneChanges]_vars

\* INV-05 and INV-06: the effective ledger always replays; no SELL takes more
\* than is owned and no purchase, withdrawal or fee makes cash negative.
LedgerReplays == ValidLedger(EffectiveEvents)

\* INV-05 alone: derive_state accepts the effective ledger, so that no SELL
\* exceeds the shares owned when it is replayed.
EverySaleOwned == DeriveState(EffectiveEvents).ok

\* An automatically generated transaction is never soft-deleted, nor can an edit,
\* at whatever moment, turn one into a transaction that can be.
GeneratedKept == \A i \in DOMAIN rows : rows[i].generated => ~Deleted(i)

\* What no interleaving of validated requests can break.
LedgerInv == TypeOK /\ EditsKeepIdentity /\ GeneratedKept

\* The ledger of versions and correction rows implements the promised ledger, as
\* long as requests do not overlap.
Promised == INSTANCE EffectiveLedger WITH ledger <- EffectiveEvents, Valid <- ValidLedger
ImplementsEffectiveLedger == Promised!Spec
===============================================================================
