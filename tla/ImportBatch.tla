------------------------------ MODULE ImportBatch -------------------------------
(***************************************************************************)
(* Quick import of an opening balance (correctable_service.py              *)
(* import_events): the batch is prepared on what the request reads, then   *)
(* written with the tracking boundary in one transaction.  Clients retry,  *)
(* overlap, reuse keys, and may do so across midnight.                     *)
(*                                                                         *)
(* Left out: the rows' validation, and the NAV restatement after the       *)
(* commit (see NavBook).                                                   *)
(***************************************************************************)
EXTENDS Integers, Sequences, FiniteSets

CONSTANTS
    Requests,       \* the requests that can be in flight together
    Payloads,       \* the business content of an import, [name, size]
    ClientKeys,     \* the idempotency keys clients choose themselves
    LastDay,        \* bound: dates are 1 .. LastDay
    MaxRows,        \* bound: rows of the ledger
    MaxCrashes      \* bound: requests that die in the middle

VARIABLES
    today,
    ledger,         \* ledger_events: the batch key, payload and date of each row
    batches,        \* import_batches: [key, hash, ids]
    start,          \* tracking_start_date of app_meta, 0 before it is set
    req,            \* what each request is doing
    answer,         \* the ids the last answer of each request reported
    crashes

vars == <<today, ledger, batches, start, req, answer, crashes>>

Idle == [pc |-> "idle"]
NoAnswer == [key |-> <<>>, hash |-> "", ids |-> {}]

\* The payload hash leaves the date out, and is the key when the client gives none.
HashOf(p, day) == p.name
KeyOf(p, day) == <<p.name, 0>>

BatchKeys == ClientKeys \cup {KeyOf(p, d) : p \in Payloads, d \in 1 .. LastDay}

TypeOK ==
    /\ today \in 1 .. LastDay /\ start \in 0 .. LastDay
    /\ ledger \in Seq([key : BatchKeys, hash : {p.name : p \in Payloads}, date : 1 .. LastDay])
    /\ \A b \in batches : b.key \in BatchKeys /\ b.ids # {} /\ b.ids \subseteq DOMAIN ledger
    /\ \A r \in Requests : /\ req[r].pc \in {"idle", "boundary", "known", "ready", "open"}
                           /\ answer[r].ids \subseteq DOMAIN ledger

Stored(k) == {b \in batches : b.key = k}

Init ==
    /\ today = 1 /\ start = 0
    /\ ledger = <<>> /\ batches = {}
    /\ req = [r \in Requests |-> Idle]
    /\ answer = [r \in Requests |-> NoAnswer]
    /\ crashes = 0

Goto(r, state) == req' = [req EXCEPT ![r] = state]
Answer(r, b) == answer' = [answer EXCEPT ![r] = b]

\* _prepare_import: one date for the batch; a stored key answers at once, and is an
\* error with other data.
Prepare(r, p, k) ==
    /\ req[r] = Idle
    /\ Len(ledger) + p.size <= MaxRows
    /\ LET work == [payload |-> p, key |-> k, date |-> today, hash |-> HashOf(p, today)]
       IN  \/ /\ Stored(k) = {}
              /\ Goto(r, [work |-> work, pc |-> "ready"])
           \/ /\ \E b \in Stored(k) : b.hash = work.hash
              /\ Goto(r, [work |-> work, pc |-> "known"])
    /\ UNCHANGED <<today, ledger, batches, start, answer, crashes>>

FirstStart_Always(seen) == TRUE
FirstStart(seen) == seen = 0

\* _ensure_tracking_boundary decides on the start it has read.
Boundary(seen) == start' = IF FirstStart(seen) THEN today ELSE start

\* A known batch still makes sure of the boundary, in a transaction of its own.
ReadBoundary(r) ==
    /\ req[r].pc = "known"
    /\ Goto(r, [work |-> req[r].work, pc |-> "boundary", start |-> start])
    /\ UNCHANGED <<today, ledger, batches, start, answer, crashes>>

Deduplicate(r) ==
    /\ req[r].pc = "boundary"
    /\ Boundary(req[r].start)
    /\ \E b \in Stored(req[r].work.key) : Answer(r, b)
    /\ Goto(r, Idle)
    /\ UNCHANGED <<today, ledger, batches, crashes>>

\* The transaction of a new batch reads the boundary and the key again ...
Open(r) ==
    /\ req[r].pc = "ready"
    /\ Goto(r, [work |-> req[r].work, pc |-> "open",
                start |-> start, stored |-> Stored(req[r].work.key)])
    /\ UNCHANGED <<today, ledger, batches, start, answer, crashes>>

PrimaryKeyFree_Unchecked(k) == TRUE
PrimaryKeyFree(k) == Stored(k) = {}

NewIds(n) == Len(ledger) + 1 .. Len(ledger) + n

\* ... and commits boundary, rows and batch together, or nothing when another
\* request has inserted the key.
Commit(r) ==
    /\ req[r].pc = "open" /\ req[r].stored = {}
    /\ LET w == req[r].work
           b == [key |-> w.key, hash |-> w.hash, ids |-> NewIds(w.payload.size)]
       IN  IF PrimaryKeyFree(w.key)
           THEN /\ ledger' = ledger \o [i \in 1 .. w.payload.size |->
                                          [key |-> w.key, hash |-> w.hash, date |-> w.date]]
                /\ batches' = batches \cup {b}
                /\ Answer(r, b) /\ Boundary(req[r].start)
           ELSE UNCHANGED <<ledger, batches, answer, start>>
    /\ Goto(r, Idle)
    /\ UNCHANGED <<today, crashes>>

\* The key was stored since the preparation: the same data is answered with what is
\* stored, other data rolls the transaction back.
Retry(r) ==
    /\ req[r].pc = "open" /\ req[r].stored # {}
    /\ \E b \in req[r].stored :
            IF b.hash = req[r].work.hash
            THEN Boundary(req[r].start) /\ Answer(r, b)
            ELSE UNCHANGED <<start, answer>>
    /\ Goto(r, Idle)
    /\ UNCHANGED <<today, ledger, batches, crashes>>

Midnight ==
    /\ today < LastDay
    /\ today' = today + 1
    /\ UNCHANGED <<ledger, batches, start, req, answer, crashes>>

Crash(r) ==
    /\ req[r] # Idle
    /\ crashes < MaxCrashes
    /\ crashes' = crashes + 1
    /\ Goto(r, Idle)
    /\ UNCHANGED <<today, ledger, batches, start, answer>>

Begin(r) == \E p \in Payloads : \E k \in ClientKeys \cup {KeyOf(p, today)} : Prepare(r, p, k)

Continue(r) == ReadBoundary(r) \/ Deduplicate(r) \/ Open(r) \/ Commit(r) \/ Retry(r)

Next == Midnight \/ \E r \in Requests : Begin(r) \/ Continue(r) \/ Crash(r)

Spec == Init /\ [][Next]_vars

-------------------------------------------------------------------------------
\* A batch is all or nothing and counted once: the rows with its key are exactly
\* the rows its record names, as many as were sent, all of one date.
BatchesWhole ==
    \A k \in BatchKeys :
        LET imported == {i \in DOMAIN ledger : ledger[i].key = k}
        IN  IF Stored(k) = {} THEN imported = {}
            ELSE /\ \A b \in Stored(k) : b.ids = imported
                 /\ \A i, j \in imported : ledger[i].date = ledger[j].date
                 /\ \E p \in Payloads : Cardinality(imported) = p.size

\* An answer that reports ids is true: they are rows of the data that was sent,
\* under the key it was sent with, whoever stored them first.
AnswersHonest ==
    \A r \in Requests : \A i \in answer[r].ids :
        ledger[i].key = answer[r].key /\ ledger[i].hash = answer[r].hash

\* Data sent without a client key is imported once however often it is retried,
\* midnight or not: its rows are no more than the data has.
RetriesImportOnce ==
    \A p \in Payloads :
        Cardinality({i \in DOMAIN ledger : /\ ledger[i].key \notin ClientKeys
                                           /\ ledger[i].hash = p.name}) <= p.size

\* A batch is stored whole and counted once, an answer names true rows, and data sent
\* without a key of the client's is imported once.
BatchInv == TypeOK /\ BatchesWhole /\ AnswersHonest /\ RetriesImportOnce

\* The start of a CURRENT portfolio is decided once.
StartKept == start # 0 => start' = start

\* What a portfolio is sent: data has rows and is told apart by its hash, and the
\* keys clients choose are not hashes.
ImportConstants ==
    /\ \A p \in Payloads : p = [name |-> p.name, size |-> p.size] /\ p.size \in Nat \ {0}
    /\ \A p, q \in Payloads : p.name = q.name => p = q
    /\ \A p \in Payloads : KeyOf(p, 0) \notin ClientKeys
    /\ LastDay \in Nat \ {0}
===============================================================================
