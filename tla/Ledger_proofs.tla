---------------------------- MODULE Ledger_proofs -----------------------------
(***************************************************************************)
(* Theorems about the correctable ledger, for every set of requests and    *)
(* templates and every bound, and about the replay of a ledger, for every  *)
(* sequence of events.  The first part uses ValidLedger as a predicate on  *)
(* sets of events; of the replay behind it only the empty ledger is        *)
(* unfolded.  The second proves what the accounting does to the lots, the  *)
(* totals and the double entry, event type by event type; its facts about  *)
(* sums and prefixes are inductions on a least counterexample.             *)
(***************************************************************************)
EXTENDS LedgerClients, LotBook, SequenceTheorems, WellFoundedInduction, FiniteSetTheorems, TLAPS

-------------------------------------------------------------------------------
\* Facts about numbers and about the data.

\* A non-empty set of natural numbers has a least element.
LEMMA LeastElement ==
    ASSUME NEW K \in SUBSET Nat, K # {}
    PROVE  \E k \in K : \A j \in K : k <= j
<1>1. \E x \in K : \A y \in K : ~(<<y, x>> \in OpToRel(<, Nat))
  BY WFMin, NatLessThanWellFounded, Zenon
<1>2. PICK x \in K : \A y \in K : ~(y < x)
  <2>1. PICK x \in K : \A y \in K : ~(<<y, x>> \in OpToRel(<, Nat))
    BY <1>1
  <2>2. \A y \in K : ~(y < x)
    BY <2>1 DEF OpToRel
  <2> QED BY <2>2
<1> QED BY <1>2

\* A non-empty set of natural numbers up to n has a greatest element.
LEMMA GreatestElement ==
    ASSUME NEW n \in Nat, NEW K \in SUBSET (0 .. n), K # {}
    PROVE  \E k \in K : \A j \in K : j <= k
<1> DEFINE T == {n - k : k \in K}
<1>0. \A k \in K : k \in Nat /\ k <= n /\ n - k \in Nat
  OBVIOUS
<1>1. T \in SUBSET Nat /\ T # {}
  BY <1>0
<1>2. PICK x \in T : \A y \in T : x <= y
  <2> HIDE DEF T
  <2> QED BY <1>1, LeastElement
<1>3. PICK k \in K : x = n - k
  BY <1>2
<1>4. \A j \in K : j <= k
  <2> SUFFICES ASSUME NEW j \in K PROVE j <= k
    OBVIOUS
  <2>1. x <= n - j
    BY <1>2
  <2> QED BY <2>1, <1>3, <1>0
<1> QED BY <1>4

\* Renumbering an event keeps it an event.
LEMMA Renumbered ==
    ASSUME NEW e \in Events, NEW n \in Nat
    PROVE  [e EXCEPT !.id = n] \in Events /\ [e EXCEPT !.id = n].id = n
BY DEF Events

\* The empty ledger replays.
LEMMA EmptyLedgerValid == ValidLedger({})
<1> DEFINE Start == [ok |-> TRUE, state |-> EmptyState]
           Step(R, S) == IF S = {} THEN Start
                         ELSE LET e == LastEvent(S)
                                  r == R[S \ {e}]
                                  fits == IF TRUE THEN Admits(r.state, e)
                                          ELSE Accepts(r.state, e)
                              IN  IF r.ok /\ fits
                                  THEN [ok |-> TRUE, state |-> ApplyEvent(r.state, e)]
                                  ELSE [r EXCEPT !.ok = FALSE]
           R0 == [S \in SUBSET {} |-> Start]
           R == CHOOSE f : f = [S \in SUBSET {} |-> Step(f, S)]
<1>1. \A S \in SUBSET {} : S = {}
  OBVIOUS
<1>2. R0 = [S \in SUBSET {} |-> Step(R0, S)]
  BY <1>1
<1>3. R = [S \in SUBSET {} |-> Step(R, S)]
  <2> HIDE DEF R0, Step
  <2> QED BY <1>2
<1>4. R[{}] = Start
  <2>1. R[{}] = Step(R, {})
    <3> HIDE DEF R, Step
    <3> QED BY <1>3
  <2> QED BY <2>1
<1>5. ValidLedger({}) = R[{}].ok
  BY DEF ValidLedger, Replay
<1> QED BY <1>4, <1>5

-------------------------------------------------------------------------------
\* Facts about versions.

\* If a row has live edits, the latest of them exists and is one of them.
LEMMA LatestEditExists ==
    ASSUME TypeOK, NEW i \in Nat, LiveEdits(i) # {}
    PROVE  /\ LatestEdit(i) \in LiveEdits(i)
           /\ \A j \in LiveEdits(i) : j <= LatestEdit(i)
<1>1. Len(corrections) \in Nat /\ DOMAIN corrections = 1 .. Len(corrections)
  BY DEF TypeOK
<1>2. LiveEdits(i) \in SUBSET (1 .. Len(corrections))
  BY <1>1 DEF LiveEdits
<1>3. \E k \in LiveEdits(i) : \A j \in LiveEdits(i) : j <= k
  <2>1. LiveEdits(i) \in SUBSET (0 .. Len(corrections))
    BY <1>1, <1>2
  <2> QED BY <1>1, <2>1, GreatestElement
<1> QED BY <1>3 DEF LatestEdit

\* The replacement of an EDIT row is an event.
LEMMA EditReplacement ==
    ASSUME TypeOK, NEW k \in DOMAIN corrections, corrections[k].action = "EDIT"
    PROVE  corrections[k].replacement \in Events
<1>1. corrections[k] \in Correction
  BY DEF TypeOK
<1> QED BY <1>1 DEF Correction

\* The version of a row is an event that carries the number of the row.
LEMMA VersionType ==
    ASSUME TypeOK, NEW i \in DOMAIN rows
    PROVE  Version(i) \in Events /\ Version(i).id = i
<1>1. i \in Nat /\ rows[i] \in Events
  BY DEF TypeOK
<1>2. CASE LiveEdits(i) = {}
  BY <1>1, <1>2, Renumbered DEF Version
<1>3. CASE LiveEdits(i) # {}
  <2>1. LatestEdit(i) \in LiveEdits(i)
    BY <1>1, <1>3, LatestEditExists
  <2>2. corrections[LatestEdit(i)].replacement \in Events
    BY <2>1, EditReplacement DEF LiveEdits, IsEdit
  <2> QED BY <1>1, <1>3, <2>2, Renumbered DEF Version
<1> QED BY <1>2, <1>3

LEMMA EffectiveType ==
    ASSUME TypeOK
    PROVE  EffectiveEvents \subseteq Events
BY VersionType DEF EffectiveEvents, Active

\* What appending a correction row c does to the reading of row i.
ReadingAfter(c, n, i) ==
    /\ DOMAIN corrections = 1 .. n /\ DOMAIN corrections' = 1 .. n + 1
    /\ corrections'[n + 1] = c
    /\ \A k \in 1 .. n : corrections'[k] = corrections[k]
    /\ Deleted(i)' <=> Deleted(i) \/ (c.event = i /\ c.action = "DELETE")
    /\ LiveEdits(i)' = LiveEdits(i)
          \cup (IF c.event = i /\ c.action = "EDIT" /\ ~Deleted(i) THEN {n + 1} ELSE {})

LEMMA CorrectionAppended ==
    ASSUME TypeOK, NEW c \in Correction, corrections' = Append(corrections, c),
           NEW n \in Nat, n = Len(corrections), NEW i
    PROVE  ReadingAfter(c, n, i)
<1>1. /\ DOMAIN corrections = 1 .. n /\ DOMAIN corrections' = 1 .. n + 1
      /\ corrections'[n + 1] = c
      /\ \A k \in 1 .. n : corrections'[k] = corrections[k]
  BY DEF TypeOK
<1>2. \A k \in 1 .. n :
         (IsDelete(k, i)' <=> IsDelete(k, i)) /\ (IsEdit(k, i)' <=> IsEdit(k, i))
  BY <1>1 DEF IsDelete, IsEdit
<1>3. IsDelete(n + 1, i)' <=> c.event = i /\ c.action = "DELETE"
  BY <1>1 DEF IsDelete
<1>4. IsEdit(n + 1, i)' <=> c.event = i /\ c.action = "EDIT"
  BY <1>1 DEF IsEdit
<1>5. Deleted(i) <=> \E k \in 1 .. n : IsDelete(k, i)
  BY <1>1 DEF Deleted
<1>6. Deleted(i)' <=> Deleted(i) \/ (c.event = i /\ c.action = "DELETE")
  <2>1. Deleted(i)' <=> \E k \in 1 .. n + 1 : IsDelete(k, i)'
    BY <1>1 DEF Deleted
  <2>2. \A k \in 1 .. n + 1 : k \in 1 .. n \/ k = n + 1
    OBVIOUS
  <2>3. n + 1 \in 1 .. n + 1 /\ \A k \in 1 .. n : k \in 1 .. n + 1
    OBVIOUS
  <2> QED BY <1>2, <1>3, <1>5, <2>1, <2>2, <2>3, Zenon
<1>7. \A k \in 1 .. n : k \in LiveEdits(i)' <=> k \in LiveEdits(i)
  <2> SUFFICES ASSUME NEW k \in 1 .. n
               PROVE  k \in LiveEdits(i)' <=> k \in LiveEdits(i)
    OBVIOUS
  <2>1. \A j \in 1 .. k : j \in 1 .. n
    OBVIOUS
  <2>2. k \in DOMAIN corrections /\ k \in DOMAIN corrections'
    BY <1>1
  <2> QED BY <1>2, <2>1, <2>2 DEF LiveEdits
<1>8. n + 1 \in LiveEdits(i)' <=> c.event = i /\ c.action = "EDIT" /\ ~Deleted(i)
  <2>1. \A j \in 1 .. n + 1 : j \in 1 .. n \/ j = n + 1
    OBVIOUS
  <2>2. n + 1 \in 1 .. n + 1 /\ \A j \in 1 .. n : j \in 1 .. n + 1
    OBVIOUS
  <2>3. n + 1 \in LiveEdits(i)'
          <=> IsEdit(n + 1, i)' /\ \A j \in 1 .. n + 1 : ~IsDelete(j, i)'
    BY <1>1, <2>2 DEF LiveEdits
  <2> QED BY <1>2, <1>3, <1>4, <1>5, <2>1, <2>2, <2>3
<1>9. LiveEdits(i) \subseteq 1 .. n /\ LiveEdits(i)' \subseteq 1 .. n + 1
  BY <1>1 DEF LiveEdits
<1>10. LiveEdits(i)' = LiveEdits(i)
          \cup (IF c.event = i /\ c.action = "EDIT" /\ ~Deleted(i) THEN {n + 1} ELSE {})
  <2> DEFINE L == LiveEdits(i) 
             M == LiveEdits(i)'
             E == c.event = i /\ c.action = "EDIT" /\ ~Deleted(i)
  <2>1. \A k \in 1 .. n + 1 : k \in 1 .. n \/ k = n + 1
    OBVIOUS
  <2>2. n + 1 \notin L
    BY <1>9
  <2>3. M = L \cup (IF E THEN {n + 1} ELSE {})
    <3> HIDE DEF L, M, E
    <3>1. /\ \A k \in 1 .. n : k \in M <=> k \in L
          /\ n + 1 \in M <=> E
          /\ L \subseteq 1 .. n /\ M \subseteq 1 .. n + 1
      BY <1>7, <1>8, <1>9 DEF L, M, E
    <3> QED BY <2>1, <2>2, <3>1
  <2> QED BY <2>3
<1> QED BY <1>1, <1>6, <1>10 DEF ReadingAfter

\* A row whose live edits stay the same keeps its version.
LEMMA SameVersion ==
    ASSUME TypeOK, NEW c \in Correction, corrections' = Append(corrections, c),
           NEW i \in DOMAIN rows, rows'[i] = rows[i], LiveEdits(i)' = LiveEdits(i)
    PROVE  Version(i)' = Version(i)
<1>1. LatestEdit(i)' = LatestEdit(i)
  BY DEF LatestEdit
<1>2. i \in Nat
  BY DEF TypeOK
<1>3. CASE LiveEdits(i) = {}
  BY <1>3 DEF Version
<1>4. CASE LiveEdits(i) # {}
  <2>1. LatestEdit(i) \in DOMAIN corrections
    BY <1>2, <1>4, LatestEditExists DEF LiveEdits
  <2>2. corrections'[LatestEdit(i)] = corrections[LatestEdit(i)]
    BY <2>1, CorrectionAppended DEF TypeOK
  <2> QED BY <1>1, <1>4, <2>2 DEF Version
<1> QED BY <1>3, <1>4

\* A correction row says nothing about the other transactions.
LEMMA OtherRowsUntouched ==
    ASSUME TypeOK, NEW c \in Correction, corrections' = Append(corrections, c),
           rows' = rows, NEW i \in DOMAIN rows, c.event # i
    PROVE  (Deleted(i)' <=> Deleted(i)) /\ Version(i)' = Version(i)
<1>0. PICK n \in Nat : n = Len(corrections)
  BY DEF TypeOK
<1>1. ReadingAfter(c, n, i)
  BY <1>0, CorrectionAppended
<1>2. (Deleted(i)' <=> Deleted(i)) /\ LiveEdits(i)' = LiveEdits(i)
  BY <1>1 DEF ReadingAfter
<1> QED BY <1>2, SameVersion

\* Nothing written after a soft delete changes the deleted transaction.
LEMMA DeletedRowFrozen ==
    ASSUME TypeOK, NEW c \in Correction, corrections' = Append(corrections, c),
           rows' = rows, NEW i \in DOMAIN rows, Deleted(i)
    PROVE  Deleted(i)' /\ Version(i)' = Version(i)
<1>0. PICK n \in Nat : n = Len(corrections)
  BY DEF TypeOK
<1>1. ReadingAfter(c, n, i)
  BY <1>0, CorrectionAppended
<1>2. Deleted(i)' /\ LiveEdits(i)' = LiveEdits(i)
  BY <1>1 DEF ReadingAfter
<1> QED BY <1>2, SameVersion

\* An EDIT row of an active transaction gives it its new version.
LEMMA EditTakesEffect ==
    ASSUME TypeOK, NEW i \in DOMAIN rows, NEW e \in Events, ~Deleted(i), rows' = rows,
           NEW c, c = [event |-> i, action |-> "EDIT", replacement |-> e],
           corrections' = Append(corrections, c)
    PROVE  c \in Correction /\ ~Deleted(i)' /\ Version(i)' = [e EXCEPT !.id = i]
<1>0. PICK n \in Nat : n = Len(corrections)
  BY DEF TypeOK
<1>1. c \in Correction
  BY DEF Correction, TypeOK
<1>2. ReadingAfter(c, n, i)
  BY <1>0, <1>1, CorrectionAppended
<1>3. /\ LiveEdits(i)' = LiveEdits(i) \cup {n + 1}
      /\ LiveEdits(i) \subseteq 1 .. n /\ ~Deleted(i)' /\ corrections'[n + 1] = c
  <2>1. c.event = i /\ c.action = "EDIT"
    OBVIOUS
  <2>2. LiveEdits(i) \subseteq 1 .. n
    BY <1>2 DEF ReadingAfter, LiveEdits
  <2> QED BY <1>2, <2>1, <2>2 DEF ReadingAfter
<1>4. LatestEdit(i)' = n + 1
  <2>1. /\ n + 1 \in LiveEdits(i)'
        /\ \A j \in LiveEdits(i)' : j \in Nat /\ j <= n + 1
    BY <1>3
  <2> QED BY <2>1 DEF LatestEdit
<1>5. Version(i)' = [c.replacement EXCEPT !.id = i]
  BY <1>3, <1>4 DEF Version
<1> QED BY <1>1, <1>3, <1>5

\* A new row is active, at its own version, and leaves the others as they were.
LEMMA RowAppended ==
    ASSUME TypeOK, NEW e \in Events, NEW n \in Nat, n = Len(rows),
           rows' = Append(rows, e), corrections' = corrections,
           \A k \in DOMAIN corrections : corrections[k].event \in DOMAIN rows
    PROVE  /\ DOMAIN rows = 1 .. n /\ DOMAIN rows' = 1 .. n + 1
           /\ \A i \in 1 .. n : (Deleted(i)' <=> Deleted(i)) /\ Version(i)' = Version(i)
           /\ ~Deleted(n + 1)' /\ Version(n + 1)' = [e EXCEPT !.id = n + 1]
<1>1. /\ DOMAIN rows = 1 .. n /\ DOMAIN rows' = 1 .. n + 1
      /\ rows'[n + 1] = e /\ \A i \in 1 .. n : rows'[i] = rows[i]
  BY DEF TypeOK
<1>2. \A i, k : (IsDelete(k, i)' <=> IsDelete(k, i)) /\ (IsEdit(k, i)' <=> IsEdit(k, i))
  BY DEF IsDelete, IsEdit
<1>3. \A i : (Deleted(i)' <=> Deleted(i)) /\ LiveEdits(i)' = LiveEdits(i)
  BY <1>2 DEF Deleted, LiveEdits
<1>4. \A i \in 1 .. n : Version(i)' = Version(i)
  <2>1. \A i : LatestEdit(i)' = LatestEdit(i)
    BY <1>3 DEF LatestEdit
  <2> QED BY <1>1, <1>3, <2>1 DEF Version
<1>5. \A k \in DOMAIN corrections : corrections[k].event # n + 1
  BY <1>1
<1>6. ~Deleted(n + 1) /\ LiveEdits(n + 1) = {}
  BY <1>5 DEF Deleted, LiveEdits, IsDelete, IsEdit
<1>7. Version(n + 1)' = [e EXCEPT !.id = n + 1]
  BY <1>1, <1>3, <1>6 DEF Version
<1> QED BY <1>1, <1>3, <1>4, <1>6, <1>7

-------------------------------------------------------------------------------
\* The inductive invariant of overlapping requests.

\* What the edit policy lets nobody change: the fields of e and of f that have to
\* agree for e to be a version of f.
SameIdentity(e, f) ==
    /\ e.date = f.date /\ e.sym = f.sym
    /\ e.amount = f.amount /\ e.ratio = f.ratio
    /\ e.custody[2] = f.custody[2]
    /\ e.generated = f.generated
    /\ f.type \notin EditableTypes => e.type = f.type

\* A correction c of a table of rows may be written whatever was written before it.
Harmless(c, table) ==
    /\ c.event \in DOMAIN table
    /\ c.action = "EDIT" => SameIdentity(c.replacement, table[c.event])
    /\ c.action = "DELETE" => ~table[c.event].generated

CorrectionsHarmless == \A k \in DOMAIN corrections : Harmless(corrections[k], rows)

\* So are the corrections that requests have validated and not yet written.
PendingHarmless ==
    \A r \in Requests :
        /\ req[r].op \in {"edit", "delete"} => req[r].target \in DOMAIN rows
        /\ req[r].op = "edit" => SameIdentity(req[r].event, rows[req[r].target])
        /\ req[r].op = "delete" => ~rows[req[r].target].generated

RaceInv ==
    /\ TypeOK
    /\ Len(rows) <= MaxRows
    /\ CorrectionsHarmless
    /\ PendingHarmless

\* Under the invariant every version of a row keeps the identity of the row.
LEMMA VersionIdentity ==
    ASSUME RaceInv, NEW i \in DOMAIN rows
    PROVE  SameIdentity(Version(i), rows[i])
<1>1. i \in Nat /\ rows[i] \in Events
  BY DEF RaceInv, TypeOK
<1>2. \A e \in Events : SameIdentity([e EXCEPT !.id = i], e)
  BY DEF Events, SameIdentity
<1>3. CASE LiveEdits(i) = {}
  BY <1>1, <1>2, <1>3 DEF Version
<1>4. CASE LiveEdits(i) # {}
  <2> DEFINE k == LatestEdit(i)
  <2>1. k \in LiveEdits(i)
    BY <1>1, <1>4, LatestEditExists DEF RaceInv
  <2>2. /\ k \in DOMAIN corrections
        /\ corrections[k].event = i /\ corrections[k].action = "EDIT"
    BY <2>1 DEF LiveEdits, IsEdit
  <2>3. corrections[k].replacement \in Events
    BY <2>2, EditReplacement DEF RaceInv
  <2>4. SameIdentity(corrections[k].replacement, rows[i])
    BY <2>2 DEF RaceInv, CorrectionsHarmless, Harmless
  <2>5. SameIdentity([corrections[k].replacement EXCEPT !.id = i], rows[i])
    <3> HIDE DEF k
    <3> QED BY <2>3, <2>4, <1>1 DEF Events, SameIdentity
  <2> QED BY <1>4, <2>5 DEF Version
<1> QED BY <1>3, <1>4

LEMMA RaceInvInit ==
    ASSUME LedgerAssumption, Init
    PROVE  RaceInv
BY DEF Init, RaceInv, TypeOK, Idle, Request, CorrectionsHarmless, PendingHarmless,
       LedgerAssumption

\* What a request holds once its write is made or given up.
LEMMA IdleRequest == Idle \in Request /\ Idle.op = "idle"
BY DEF Idle, Request

\* A request that begins leaves both tables alone and is harmless itself.
LEMMA BeginStep ==
    ASSUME LedgerAssumption, RaceInv, NEW r \in Requests, Begin(r)
    PROVE  RaceInv' /\ UNCHANGED <<rows, corrections>>
<1> USE DEF RaceInv
<1>1. ASSUME NEW q \in Request, req' = [req EXCEPT ![r] = q],
             UNCHANGED <<rows, corrections>>,
             q.op \in {"edit", "delete"} => q.target \in DOMAIN rows,
             q.op = "edit" => SameIdentity(q.event, rows[q.target]),
             q.op = "delete" => ~rows[q.target].generated
      PROVE  RaceInv'
  <2>1. TypeOK' /\ (Len(rows) <= MaxRows)'
    BY <1>1 DEF TypeOK
  <2>2. CorrectionsHarmless'
    BY <1>1 DEF CorrectionsHarmless, Harmless, SameIdentity
  <2>3. \A p \in Requests : req'[p] = IF p = r THEN q ELSE req[p]
    BY <1>1 DEF TypeOK
  <2>4. PendingHarmless'
    BY <1>1, <2>3 DEF PendingHarmless, SameIdentity
  <2> QED BY <2>1, <2>2, <2>4
<1>2. ASSUME NEW t \in Templates, BeginAppend(r, t)
      PROVE  RaceInv' /\ UNCHANGED <<rows, corrections>>
  <2> DEFINE q == [op |-> "append", target |-> 0, event |-> t]
  <2>1. /\ req' = [req EXCEPT ![r] = q] /\ UNCHANGED <<rows, corrections>>
        /\ q \in Request /\ q.op = "append"
    BY <1>2 DEF BeginAppend, LedgerAssumption, Request
  <2> QED BY <1>1, <2>1
<1>3. ASSUME NEW i \in DOMAIN rows, NEW t \in Templates, BeginEdit(r, i, t)
      PROVE  RaceInv' /\ UNCHANGED <<rows, corrections>>
  <2> DEFINE q == [op |-> "edit", target |-> i, event |-> t]
  <2>1. i \in Nat /\ t \in Events /\ rows[i] \in Events /\ Version(i) \in Events
    BY VersionType DEF TypeOK, LedgerAssumption
  <2>2. /\ req' = [req EXCEPT ![r] = q] /\ UNCHANGED <<rows, corrections>>
        /\ q \in Request /\ q.op = "edit" /\ q.target = i /\ q.event = t
    BY <1>3, <2>1 DEF BeginEdit, Request
  <2>3. SameIdentity(Version(i), rows[i])
    BY VersionIdentity
  <2>4. EditAllowed(Version(i), t)
    BY <1>3 DEF BeginEdit
  <2>5. SameIdentity(t, rows[i])
    BY <2>1, <2>3, <2>4 DEF EditAllowed, SameIdentity, EditableTypes
  <2> QED BY <1>1, <2>2, <2>5
<1>4. ASSUME NEW i \in DOMAIN rows, BeginDelete(r, i)
      PROVE  RaceInv' /\ UNCHANGED <<rows, corrections>>
  <2> DEFINE q == [op |-> "delete", target |-> i, event |-> NoEvent]
  <2>1. i \in Nat
    BY DEF TypeOK
  <2>2. /\ req' = [req EXCEPT ![r] = q] /\ UNCHANGED <<rows, corrections>>
        /\ q \in Request /\ q.op = "delete" /\ q.target = i
    BY <1>4, <2>1 DEF BeginDelete, Request
  <2>3. ~rows[i].generated
    BY <1>4, VersionIdentity DEF BeginDelete, SameIdentity
  <2> QED BY <1>1, <2>2, <2>3
<1> QED BY <1>2, <1>3, <1>4 DEF Begin

\* A request that ends frees its place, and what the others hold stays harmless
\* as long as no row changes.
LEMMA RequestEnds ==
    ASSUME LedgerAssumption, RaceInv, NEW r \in Requests, req' = [req EXCEPT ![r] = Idle],
           \A i \in DOMAIN rows : i \in DOMAIN rows' /\ rows'[i] = rows[i]
    PROVE  PendingHarmless' /\ req' \in [Requests -> Request]
<1>1. req' \in [Requests -> Request]
  BY IdleRequest DEF RaceInv, TypeOK
<1>2. \A p \in Requests : req'[p] = IF p = r THEN Idle ELSE req[p]
  BY DEF RaceInv, TypeOK
<1>3. PendingHarmless'
  BY <1>2, IdleRequest DEF RaceInv, PendingHarmless, SameIdentity
<1> QED BY <1>1, <1>3

LEMMA CommitAppendStep ==
    ASSUME LedgerAssumption, RaceInv, NEW r \in Requests, CommitAppend(r)
    PROVE  RaceInv'
<1> DEFINE n == Len(rows)
           e == [req[r].event EXCEPT !.id = n + 1]
<1>1. n \in Nat /\ n < MaxRows /\ rows' = Append(rows, e) /\ corrections' = corrections
  BY DEF CommitAppend, RaceInv, TypeOK
<1>2. e \in Events
  <2>1. req[r].event \in Events
    BY DEF RaceInv, TypeOK, Request, CommitAppend
  <2>2. n + 1 \in Nat
    BY <1>1
  <2>3. \A d \in Events, k \in Nat : [d EXCEPT !.id = k] \in Events
    BY Renumbered
  <2> QED BY <2>1, <2>2, <2>3, Zenon
<1>3. /\ rows' \in Seq(Events) /\ Len(rows') = n + 1
      /\ \A i \in DOMAIN rows : i \in DOMAIN rows' /\ rows'[i] = rows[i]
  <2> HIDE DEF e
  <2> QED BY <1>1, <1>2 DEF RaceInv, TypeOK
<1>4. PendingHarmless' /\ req' \in [Requests -> Request]
  <2>1. req' = [req EXCEPT ![r] = Idle]
    BY DEF CommitAppend
  <2> QED BY <1>3, <2>1, RequestEnds
<1>5. CorrectionsHarmless'
  BY <1>1, <1>3 DEF RaceInv, CorrectionsHarmless, Harmless, SameIdentity
<1>6. TypeOK' /\ (Len(rows) <= MaxRows)'
  BY <1>1, <1>3, <1>4 DEF RaceInv, TypeOK, LedgerAssumption
<1> QED BY <1>4, <1>5, <1>6 DEF RaceInv

\* The correction row that request r is about to write.
PendingCorrection(r) ==
    IF req[r].op = "edit"
    THEN [event |-> req[r].target, action |-> "EDIT",
          replacement |-> [req[r].event EXCEPT !.id = req[r].target]]
    ELSE [event |-> req[r].target, action |-> "DELETE", replacement |-> NoEvent]

LEMMA PendingCorrectionHarmless ==
    ASSUME RaceInv, NEW r \in Requests, req[r].op \in {"edit", "delete"}
    PROVE  PendingCorrection(r) \in Correction /\ Harmless(PendingCorrection(r), rows)
<1>1. req[r].target \in DOMAIN rows /\ req[r].target \in Nat
  BY DEF RaceInv, PendingHarmless, TypeOK, Request
<1>2. CASE req[r].op = "edit"
  <2> DEFINE e == req[r].event
             i == req[r].target
  <2>1. e \in Events /\ SameIdentity(e, rows[i])
    BY <1>2 DEF RaceInv, PendingHarmless, TypeOK, Request
  <2>2. [e EXCEPT !.id = i] \in Events
    BY <1>1, <2>1, Renumbered
  <2>3. SameIdentity([e EXCEPT !.id = i], rows[i])
    <3> HIDE DEF e, i
    <3> QED BY <2>1, <1>1 DEF Events, SameIdentity
  <2>4. PendingCorrection(r)
          = [event |-> i, action |-> "EDIT", replacement |-> [e EXCEPT !.id = i]]
    BY <1>2 DEF PendingCorrection
  <2>5. PendingCorrection(r) \in Correction
    BY <1>1, <2>2, <2>4 DEF Correction
  <2>6. Harmless(PendingCorrection(r), rows)
    BY <1>1, <2>3, <2>4 DEF Harmless
  <2> QED BY <2>5, <2>6
<1>3. CASE req[r].op = "delete"
  <2>1. PendingCorrection(r)
          = [event |-> req[r].target, action |-> "DELETE", replacement |-> NoEvent]
    BY <1>3 DEF PendingCorrection
  <2>2. ~rows[req[r].target].generated
    BY <1>3 DEF RaceInv, PendingHarmless
  <2> QED BY <1>1, <2>1, <2>2 DEF Correction, Harmless
<1> QED BY <1>2, <1>3

\* CommitEdit and CommitDelete both append the pending correction.
LEMMA CommitCorrection ==
    ASSUME NEW r \in Requests, CommitEdit(r) \/ CommitDelete(r)
    PROVE  /\ req[r].op \in {"edit", "delete"}
           /\ corrections' = Append(corrections, PendingCorrection(r))
           /\ rows' = rows /\ req' = [req EXCEPT ![r] = Idle]
BY DEF CommitEdit, CommitDelete, PendingCorrection

LEMMA CommitCorrectionStep ==
    ASSUME LedgerAssumption, RaceInv, NEW r \in Requests, CommitEdit(r) \/ CommitDelete(r)
    PROVE  RaceInv'
<1>1. PICK c \in Correction : c = PendingCorrection(r) /\ Harmless(c, rows)
  BY CommitCorrection, PendingCorrectionHarmless
<1>2. /\ corrections' = Append(corrections, c) /\ rows' = rows
      /\ req' = [req EXCEPT ![r] = Idle]
  BY <1>1, CommitCorrection
<1>3. PendingHarmless' /\ req' \in [Requests -> Request]
  BY <1>2, RequestEnds
<1>4. TypeOK' /\ (Len(rows) <= MaxRows)'
  BY <1>2, <1>3 DEF RaceInv, TypeOK
<1>5. CorrectionsHarmless'
  <2>1. \A k \in DOMAIN corrections' :
           corrections'[k] = c \/ \E j \in DOMAIN corrections : corrections'[k] = corrections[j]
    BY <1>2 DEF RaceInv, TypeOK
  <2>2. \A j \in DOMAIN corrections : Harmless(corrections[j], rows')
    BY <1>2 DEF RaceInv, CorrectionsHarmless
  <2>3. Harmless(c, rows')
    BY <1>1, <1>2
  <2>4. \A k \in DOMAIN corrections' : Harmless(corrections'[k], rows')
    BY <2>1, <2>2, <2>3
  <2> QED BY <2>4 DEF CorrectionsHarmless
<1> QED BY <1>3, <1>4, <1>5 DEF RaceInv

LEMMA AbandonStep ==
    ASSUME LedgerAssumption, RaceInv, NEW r \in Requests, Abandon(r)
    PROVE  RaceInv' /\ UNCHANGED <<rows, corrections>>
<1>1. req' = [req EXCEPT ![r] = Idle] /\ UNCHANGED <<rows, corrections>>
  BY DEF Abandon
<1>2. PendingHarmless' /\ req' \in [Requests -> Request]
  BY <1>1, RequestEnds
<1> QED BY <1>1, <1>2 DEF RaceInv, TypeOK, CorrectionsHarmless, Harmless, SameIdentity

LEMMA RaceInvStep ==
    ASSUME LedgerAssumption, RaceInv, [Next]_vars
    PROVE  RaceInv'
<1>1. CASE UNCHANGED vars
  BY <1>1 DEF vars, RaceInv, TypeOK, CorrectionsHarmless, PendingHarmless, Harmless,
              SameIdentity
<1>2. ASSUME NEW r \in Requests, Begin(r)
      PROVE  RaceInv'
  BY <1>2, BeginStep
<1>3. ASSUME NEW r \in Requests, Finish(r)
      PROVE  RaceInv'
  BY <1>3, CommitAppendStep, CommitCorrectionStep, AbandonStep DEF Finish
<1> QED BY <1>1, <1>2, <1>3 DEF Next

-------------------------------------------------------------------------------
\* What overlapping requests cannot break.

\* The inductive invariant holds whatever the interleaving.
THEOREM RaceInvariant == Spec => []RaceInv
<1>1. Init => RaceInv
  BY RaceInvInit, LedgerAssumption
<1>2. RaceInv /\ [Next]_vars => RaceInv'
  BY RaceInvStep, LedgerAssumption
<1> QED BY <1>1, <1>2, PTL DEF Spec

\* Rows, correction rows and requests keep their types: a DELETE row carries no
\* replacement, an EDIT row always an event.
THEOREM TypeCorrect == Spec => []TypeOK
<1>1. RaceInv => TypeOK
  BY DEF RaceInv
<1> QED BY <1>1, RaceInvariant, PTL

\* The protected fields of a transaction keep the values of its immutable row
\* (_enforce_edit_policy), however many edits race.
THEOREM IdentityKept == Spec => []EditsKeepIdentity
<1>1. RaceInv => EditsKeepIdentity
  BY VersionIdentity DEF EditsKeepIdentity, SameIdentity
<1> QED BY <1>1, RaceInvariant, PTL

\* No interleaving soft-deletes a generated transaction (delete_event).
THEOREM GeneratedNeverDeleted == Spec => []GeneratedKept
<1>1. RaceInv => GeneratedKept
  BY DEF RaceInv, CorrectionsHarmless, Harmless, GeneratedKept, Deleted, IsDelete
<1> QED BY <1>1, RaceInvariant, PTL

\* Types, protected fields and generated transactions outlast every interleaving of
\* appends, edits and deletes whose validations overlap.
THEOREM RacesHarmless == Spec => []LedgerInv
<1> QED BY TypeCorrect, IdentityKept, GeneratedNeverDeleted, PTL DEF LedgerInv

\* What one step of the program may do to the two tables.
LEMMA StepShape ==
    ASSUME LedgerAssumption, RaceInv, [Next]_vars
    PROVE  \/ UNCHANGED <<rows, corrections>>
           \/ \E r \in Requests : CommitAppend(r)
           \/ \E r \in Requests : CommitEdit(r) \/ CommitDelete(r)
<1>1. CASE UNCHANGED vars
  BY <1>1 DEF vars
<1>2. CASE Next
  BY <1>2, BeginStep DEF Next, Finish, Abandon
<1> QED BY <1>1, <1>2

\* A row that CommitAppend writes.
LEMMA AppendedRow ==
    ASSUME RaceInv, NEW r \in Requests, CommitAppend(r), NEW n \in Nat, n = Len(rows)
    PROVE  \E e \in Events : /\ e.id = n + 1 /\ e = [req[r].event EXCEPT !.id = n + 1]
                             /\ rows' = Append(rows, e) /\ corrections' = corrections
<1> DEFINE e == [req[r].event EXCEPT !.id = n + 1]
<1>1. req[r].event \in Events
  BY DEF RaceInv, TypeOK, Request, CommitAppend
<1>2. n + 1 \in Nat
  OBVIOUS
<1>3. e \in Events /\ e.id = n + 1
  <2>1. \A d \in Events, k \in Nat : [d EXCEPT !.id = k] \in Events /\ [d EXCEPT !.id = k].id = k
    BY Renumbered
  <2> QED BY <1>1, <1>2, <2>1, Zenon
<1>4. rows' = Append(rows, e) /\ corrections' = corrections
  BY DEF CommitAppend
<1> QED BY <1>3, <1>4

LEMMA CorrectionsRefer ==
    ASSUME RaceInv
    PROVE  \A k \in DOMAIN corrections : corrections[k].event \in DOMAIN rows
BY DEF RaceInv, CorrectionsHarmless, Harmless

\* The ledger is append-only (corrections.py writes nothing but INSERT): every row
\* and every correction row ever written stays as it was.
THEOREM AppendOnly == Spec => HistoryImmutable
<1>1. ASSUME RaceInv, [Next]_vars
      PROVE  TablesOnlyGrow
  <2> USE <1>1
  <2>1. CASE UNCHANGED <<rows, corrections>>
    BY <2>1 DEF TablesOnlyGrow, RaceInv, TypeOK
  <2>2. ASSUME NEW r \in Requests, CommitAppend(r)
        PROVE  TablesOnlyGrow
    <3>1. PICK n \in Nat : n = Len(rows)
      BY DEF RaceInv, TypeOK
    <3>2. PICK e \in Events : rows' = Append(rows, e) /\ corrections' = corrections
      BY <2>2, <3>1, AppendedRow
    <3> QED BY <3>2 DEF TablesOnlyGrow, RaceInv, TypeOK
  <2>3. ASSUME NEW r \in Requests, CommitEdit(r) \/ CommitDelete(r)
        PROVE  TablesOnlyGrow
    <3>1. PICK c \in Correction : corrections' = Append(corrections, c) /\ rows' = rows
      BY <2>3, CommitCorrection, PendingCorrectionHarmless
    <3> QED BY <3>1 DEF TablesOnlyGrow, RaceInv, TypeOK
  <2> QED BY <2>1, <2>2, <2>3, StepShape, LedgerAssumption
<1> QED BY <1>1, RaceInvariant, PTL DEF Spec, HistoryImmutable

\* A soft-deleted transaction stays deleted, at the version the audit trail shows,
\* whatever stale edits and deletes are written after it.
THEOREM DeleteIsFinal == Spec => SoftDeleteFinal
<1>1. ASSUME RaceInv, [Next]_vars
      PROVE  DeletedRowsFrozen
  <2> USE <1>1
  <2> SUFFICES ASSUME NEW i \in DOMAIN rows, Deleted(i)
               PROVE  Deleted(i)' /\ Version(i)' = Version(i)
    BY DEF DeletedRowsFrozen
  <2>1. CASE UNCHANGED <<rows, corrections>>
    BY <2>1 DEF Deleted, IsDelete, Version, LatestEdit, LiveEdits, IsEdit
  <2>2. ASSUME NEW r \in Requests, CommitAppend(r)
        PROVE  Deleted(i)' /\ Version(i)' = Version(i)
    <3>1. PICK n \in Nat : n = Len(rows)
      BY DEF RaceInv, TypeOK
    <3>2. PICK e \in Events : rows' = Append(rows, e) /\ corrections' = corrections
      BY <2>2, <3>1, AppendedRow
    <3>3. /\ DOMAIN rows = 1 .. n
          /\ \A j \in 1 .. n : (Deleted(j)' <=> Deleted(j)) /\ Version(j)' = Version(j)
      BY <3>1, <3>2, CorrectionsRefer, RowAppended DEF RaceInv
    <3> QED BY <3>3
  <2>3. ASSUME NEW r \in Requests, CommitEdit(r) \/ CommitDelete(r)
        PROVE  Deleted(i)' /\ Version(i)' = Version(i)
    <3>1. PICK c \in Correction : corrections' = Append(corrections, c) /\ rows' = rows
      BY <2>3, CommitCorrection, PendingCorrectionHarmless
    <3> QED BY <3>1, DeletedRowFrozen DEF RaceInv
  <2> QED BY <2>1, <2>2, <2>3, StepShape, LedgerAssumption
<1> QED BY <1>1, RaceInvariant, PTL DEF Spec, SoftDeleteFinal

-------------------------------------------------------------------------------
\* What each write does to the effective ledger.

\* The other transactions of the effective ledger are those of the other rows.
LEMMA OthersAre ==
    ASSUME TypeOK, NEW i
    PROVE  Others(EffectiveEvents, i) = {Version(j) : j \in Active \ {i}}
<1>1. \A j \in Active : Version(j).id = j
  BY VersionType DEF Active
<1> QED BY <1>1 DEF Others, EffectiveEvents

\* A new row adds one transaction, greater in id than every other.
LEMMA EffectOfAppend ==
    ASSUME RaceInv, NEW n \in Nat, n = Len(rows), NEW e \in Events, e.id = n + 1,
           rows' = Append(rows, e), corrections' = corrections
    PROVE  /\ EffectiveEvents' = EffectiveEvents \cup {e}
           /\ \A d \in EffectiveEvents : d.id \in 1 .. n
<1>1. /\ DOMAIN rows = 1 .. n /\ DOMAIN rows' = 1 .. n + 1
      /\ \A i \in 1 .. n : (Deleted(i)' <=> Deleted(i)) /\ Version(i)' = Version(i)
      /\ ~Deleted(n + 1)' /\ Version(n + 1)' = [e EXCEPT !.id = n + 1]
  BY CorrectionsRefer, RowAppended DEF RaceInv
<1>2. [e EXCEPT !.id = n + 1] = e
  BY DEF Events
<1>3. 1 .. n + 1 = (1 .. n) \cup {n + 1}
  OBVIOUS
<1>4. Active' = Active \cup {n + 1} /\ Active \subseteq 1 .. n
  BY <1>1, <1>3 DEF Active
<1>5. EffectiveEvents' = {Version(i)' : i \in Active'}
  BY DEF EffectiveEvents
<1>6. \A i \in Active' : i = n + 1 \/ (i \in Active /\ Version(i)' = Version(i))
  BY <1>1, <1>4
<1>7. \A i \in Active : Version(i)' = Version(i)
  BY <1>1, <1>4
<1>8. EffectiveEvents' = EffectiveEvents \cup {e}
  BY <1>1, <1>2, <1>4, <1>5, <1>6, <1>7 DEF EffectiveEvents
<1>9. \A i \in Active : Version(i).id = i
  BY VersionType DEF Active, RaceInv
<1> QED BY <1>4, <1>8, <1>9 DEF EffectiveEvents

\* A correction row changes only the transaction it names: an edit of an active
\* one puts its replacement in its place, a delete of an active one removes it.
EffectOf(c, i) ==
    /\ Others(EffectiveEvents, i)' = Others(EffectiveEvents, i)
    /\ c.action = "EDIT" /\ i \in Active
          => EffectiveEvents' = Others(EffectiveEvents, i)
                                   \cup {[c.replacement EXCEPT !.id = i]}
    /\ c.action = "DELETE" /\ i \in Active
          => EffectiveEvents' = Others(EffectiveEvents, i)

LEMMA EffectOfCorrection ==
    ASSUME TypeOK, TypeOK', NEW c \in Correction, corrections' = Append(corrections, c),
           rows' = rows, NEW i \in DOMAIN rows, c.event = i
    PROVE  EffectOf(c, i)
<1>1. \A j \in DOMAIN rows \ {i} : (Deleted(j)' <=> Deleted(j)) /\ Version(j)' = Version(j)
  BY OtherRowsUntouched
<1>2. Active' \ {i} = Active \ {i}
  BY <1>1 DEF Active
<1>3. {Version(j)' : j \in Active' \ {i}} = {Version(j) : j \in Active \ {i}}
  <2>1. \A j \in Active \ {i} : Version(j)' = Version(j)
    BY <1>1 DEF Active
  <2> QED BY <1>2, <2>1
<1>4. Others(EffectiveEvents, i) = {Version(j) : j \in Active \ {i}}
  BY OthersAre
<1>5. EffectiveEvents' = {Version(j)' : j \in Active' \ {i}}
                            \cup (IF Deleted(i)' THEN {} ELSE {Version(i)'})
  <2>1. i \in Active' <=> ~Deleted(i)'
    BY DEF Active
  <2> QED BY <2>1 DEF EffectiveEvents
<1>6. \A e \in Others(EffectiveEvents, i) : e.id # i
  BY DEF Others
<1>7. ASSUME c.action = "EDIT", i \in Active
      PROVE  ~Deleted(i)' /\ Version(i)' = [c.replacement EXCEPT !.id = i]
  <2>1. ~Deleted(i)
    BY <1>7 DEF Active
  <2>2. c.replacement \in Events
    BY <1>7 DEF Correction
  <2>3. c = [event |-> i, action |-> "EDIT", replacement |-> c.replacement]
    BY <1>7 DEF Correction
  <2> QED BY <2>1, <2>2, <2>3, EditTakesEffect
<1>8. ASSUME c.action = "DELETE"
      PROVE  Deleted(i)'
  <2>1. PICK n \in Nat : n = Len(corrections)
    BY DEF TypeOK
  <2>2. ReadingAfter(c, n, i)
    BY <2>1, CorrectionAppended
  <2> QED BY <1>8, <2>2 DEF ReadingAfter
<1>9. ASSUME i \notin Active
      PROVE  Deleted(i)'
  <2>1. Deleted(i)
    BY <1>9 DEF Active
  <2> QED BY <2>1, DeletedRowFrozen
<1>10. Deleted(i)' \/ Version(i)'.id = i
  <2>1. CASE c.action = "EDIT" /\ i \in Active
    <3>1. c.replacement \in Events /\ i \in Nat
      BY <2>1 DEF Correction, TypeOK
    <3> QED BY <1>7, <2>1, <3>1, Renumbered
  <2>2. c.action \in {"EDIT", "DELETE"}
    BY DEF Correction
  <2> QED BY <1>8, <1>9, <2>1, <2>2
<1>11. Others(EffectiveEvents, i)' = {e \in EffectiveEvents' : e.id # i}
  BY DEF Others
<1>12. Others(EffectiveEvents, i)' = Others(EffectiveEvents, i)
  BY <1>3, <1>4, <1>5, <1>6, <1>10, <1>11
<1> QED BY <1>3, <1>4, <1>5, <1>7, <1>8, <1>12 DEF EffectOf

\* INV-04: whatever the interleaving, one write changes at most one transaction of
\* the effective ledger.
THEOREM OneTransactionChanges == Spec => OneTransactionPerWrite
<1>1. ASSUME RaceInv, RaceInv', [Next]_vars
      PROVE  AtMostOneChanges
  <2> USE <1>1
  <2>1. CASE UNCHANGED <<rows, corrections>>
    <3>1. EffectiveEvents' = EffectiveEvents
      BY <2>1 DEF EffectiveEvents, Active, Deleted, IsDelete, Version, LatestEdit,
                  LiveEdits, IsEdit
    <3>2. 0 \in 0 .. MaxRows
      BY LedgerAssumption DEF LedgerAssumption
    <3> QED BY <3>1, <3>2 DEF AtMostOneChanges, Others
  <2>2. ASSUME NEW r \in Requests, CommitAppend(r)
        PROVE  AtMostOneChanges
    <3>1. PICK n \in Nat : n = Len(rows)
      BY DEF RaceInv, TypeOK
    <3>2. PICK e \in Events : /\ e.id = n + 1 /\ rows' = Append(rows, e)
                              /\ corrections' = corrections
      BY <2>2, <3>1, AppendedRow
    <3>3. /\ EffectiveEvents' = EffectiveEvents \cup {e}
          /\ \A d \in EffectiveEvents : d.id \in 1 .. n
      BY <3>1, <3>2, EffectOfAppend
    <3>4. Others(EffectiveEvents, n + 1)' = Others(EffectiveEvents, n + 1)
      BY <3>2, <3>3 DEF Others
    <3>5. n + 1 \in 0 .. MaxRows
      BY <2>2, <3>1, LedgerAssumption DEF CommitAppend, LedgerAssumption
    <3> QED BY <3>4, <3>5 DEF AtMostOneChanges
  <2>3. ASSUME NEW r \in Requests, CommitEdit(r) \/ CommitDelete(r)
        PROVE  AtMostOneChanges
    <3>1. PICK c \in Correction : /\ corrections' = Append(corrections, c) /\ rows' = rows
                                  /\ Harmless(c, rows)
      BY <2>3, CommitCorrection, PendingCorrectionHarmless
    <3>2. PICK i \in DOMAIN rows : i = c.event
      BY <3>1 DEF Harmless
    <3>3. EffectOf(c, i)
      BY <3>1, <3>2, EffectOfCorrection DEF RaceInv
    <3>4. i \in 0 .. MaxRows
      BY LedgerAssumption DEF RaceInv, TypeOK, LedgerAssumption
    <3> QED BY <3>3, <3>4 DEF EffectOf, AtMostOneChanges
  <2> QED BY <2>1, <2>2, <2>3, StepShape, LedgerAssumption
<1> QED BY <1>1, RaceInvariant, PTL DEF Spec, OneTransactionPerWrite

-------------------------------------------------------------------------------
\* Requests one at a time.

\* At most one request has validated a write, and the effective ledger still is
\* the one it validated the write on.
AtMostOnePending ==
    \A p, q \in Requests : req[p].op # "idle" /\ req[q].op # "idle" => p = q

StillValid(q) ==
    /\ q.op = "append"
          => ValidLedger(EffectiveEvents \cup {[q.event EXCEPT !.id = Len(rows) + 1]})
    /\ q.op \in {"edit", "delete"} => q.target \in Active
    /\ q.op = "edit"
          => ValidLedger(Others(EffectiveEvents, q.target)
                            \cup {[q.event EXCEPT !.id = q.target]})
    /\ q.op = "delete" => ValidLedger(Others(EffectiveEvents, q.target))

PendingValid == \A r \in Requests : StillValid(req[r])

SerialInv ==
    /\ RaceInv
    /\ LedgerReplays
    /\ AtMostOnePending
    /\ PendingValid

\* The effective ledger is a function of the two tables.
LEMMA SameTables ==
    ASSUME UNCHANGED <<rows, corrections>>
    PROVE  /\ EffectiveEvents' = EffectiveEvents /\ Active' = Active
           /\ \A i : Others(EffectiveEvents, i)' = Others(EffectiveEvents, i)
BY DEF EffectiveEvents, Active, Deleted, IsDelete, Version, LatestEdit, LiveEdits,
       IsEdit, Others

LEMMA SerialInvInit ==
    ASSUME LedgerAssumption, Init
    PROVE  SerialInv
<1>1. RaceInv
  BY RaceInvInit
<1>2. Active = {} /\ EffectiveEvents = {}
  BY DEF Init, Active, EffectiveEvents
<1>3. LedgerReplays
  BY <1>2, EmptyLedgerValid DEF LedgerReplays
<1>4. \A r \in Requests : req[r] = Idle /\ req[r].op = "idle"
  BY IdleRequest DEF Init
<1> QED BY <1>1, <1>3, <1>4 DEF SerialInv, AtMostOnePending, PendingValid, StillValid

\* What Begin leaves in the request it starts.
LEMMA BeginPending ==
    ASSUME LedgerAssumption, SerialInv, NEW r \in Requests, Quiet, Begin(r)
    PROVE  SerialInv'
<1>1. RaceInv' /\ UNCHANGED <<rows, corrections>>
  BY BeginStep DEF SerialInv
<1>2. /\ EffectiveEvents' = EffectiveEvents /\ Active' = Active
      /\ \A i : Others(EffectiveEvents, i)' = Others(EffectiveEvents, i)
  BY <1>1, SameTables
<1>3. LedgerReplays'
  BY <1>2 DEF LedgerReplays, SerialInv
<1>4. PICK q : req' = [req EXCEPT ![r] = q]
  BY DEF Begin, BeginAppend, BeginEdit, BeginDelete
<1>5. \A p \in Requests : req'[p] = IF p = r THEN q ELSE req[p]
  BY <1>4 DEF SerialInv, RaceInv, TypeOK
<1>6. \A p \in Requests \ {r} : req'[p].op = "idle"
  BY <1>5, IdleRequest DEF Quiet
<1>7. AtMostOnePending'
  BY <1>6 DEF AtMostOnePending
<1>8. StillValid(q)
  <2>1. q = req'[r]
    BY <1>5
  <2>2. ASSUME NEW t \in Templates, BeginAppend(r, t)
        PROVE  /\ q.op = "append" /\ q.event = t
               /\ ValidLedger(EffectiveEvents \cup {[t EXCEPT !.id = Len(rows) + 1]})
    <3>1. req' = [req EXCEPT ![r] = [op |-> "append", target |-> 0, event |-> t]]
      BY <2>2 DEF BeginAppend
    <3> QED BY <2>1, <2>2, <3>1 DEF BeginAppend, SerialInv, RaceInv, TypeOK
  <2>3. ASSUME NEW i \in DOMAIN rows, NEW t \in Templates, BeginEdit(r, i, t)
        PROVE  /\ q.op = "edit" /\ q.target = i /\ q.event = t /\ i \in Active
               /\ ValidLedger(Others(EffectiveEvents, i) \cup {[t EXCEPT !.id = i]})
    <3>1. req' = [req EXCEPT ![r] = [op |-> "edit", target |-> i, event |-> t]]
      BY <2>3 DEF BeginEdit
    <3> QED BY <2>1, <2>3, <3>1 DEF BeginEdit, SerialInv, RaceInv, TypeOK
  <2>4. ASSUME NEW i \in DOMAIN rows, BeginDelete(r, i)
        PROVE  /\ q.op = "delete" /\ q.target = i /\ i \in Active
               /\ ValidLedger(Others(EffectiveEvents, i))
    <3>1. req' = [req EXCEPT ![r] = [op |-> "delete", target |-> i, event |-> NoEvent]]
      BY <2>4 DEF BeginDelete
    <3> QED BY <2>1, <2>4, <3>1 DEF BeginDelete, SerialInv, RaceInv, TypeOK
  <2>5. ASSUME NEW t \in Templates, BeginAppend(r, t)
        PROVE  StillValid(q)
    BY <2>2, <2>5 DEF StillValid
  <2>6. ASSUME NEW i \in DOMAIN rows, NEW t \in Templates, BeginEdit(r, i, t)
        PROVE  StillValid(q)
    BY <2>3, <2>6 DEF StillValid
  <2>7. ASSUME NEW i \in DOMAIN rows, BeginDelete(r, i)
        PROVE  StillValid(q)
    BY <2>4, <2>7 DEF StillValid
  <2> QED BY <2>5, <2>6, <2>7 DEF Begin
<1>9. PendingValid'
  BY <1>1, <1>2, <1>5, <1>6, <1>8 DEF PendingValid, StillValid
<1> QED BY <1>1, <1>3, <1>7, <1>9 DEF SerialInv

\* Once the only pending request has ended nothing is pending.
LEMMA NothingPending ==
    ASSUME LedgerAssumption, SerialInv, NEW r \in Requests, req[r].op # "idle",
           req' = [req EXCEPT ![r] = Idle]
    PROVE  AtMostOnePending' /\ PendingValid'
<1>1. \A p \in Requests : req'[p] = IF p = r THEN Idle ELSE req[p]
  BY DEF SerialInv, RaceInv, TypeOK
<1>2. \A p \in Requests : req'[p].op = "idle"
  BY <1>1, IdleRequest DEF SerialInv, AtMostOnePending
<1> QED BY <1>2 DEF AtMostOnePending, PendingValid, StillValid

\* What a step of the serial program does to the effective ledger.
SerialEffect ==
    /\ UNCHANGED EffectiveEvents \/ Promised!Record \/ Promised!Correct \/ Promised!Discard
    /\ ValidLedger(EffectiveEvents')

LEMMA SerialAppend ==
    ASSUME LedgerAssumption, SerialInv, NEW r \in Requests, CommitAppend(r)
    PROVE  SerialInv' /\ SerialEffect
<1>1. PICK n \in Nat : n = Len(rows)
  BY DEF SerialInv, RaceInv, TypeOK
<1>2. PICK e \in Events :
         /\ e.id = n + 1 /\ e = [req[r].event EXCEPT !.id = n + 1]
         /\ rows' = Append(rows, e) /\ corrections' = corrections
  BY <1>1, AppendedRow DEF SerialInv
<1>3. /\ EffectiveEvents' = EffectiveEvents \cup {e}
      /\ \A d \in EffectiveEvents : d.id \in 1 .. n
  BY <1>1, <1>2, EffectOfAppend DEF SerialInv
<1>4. ValidLedger(EffectiveEvents')
  <2>1. StillValid(req[r]) /\ req[r].op = "append"
    BY DEF SerialInv, PendingValid, CommitAppend
  <2> QED BY <1>1, <1>2, <1>3, <2>1 DEF StillValid
<1>5. RaceInv'
  BY CommitAppendStep DEF SerialInv
<1>6. AtMostOnePending' /\ PendingValid'
  BY NothingPending DEF CommitAppend
<1>7. Promised!Record
  <2>1. e \in EffectiveEvents'
    BY <1>3
  <2>2. \A d \in EffectiveEvents : d.id < e.id
    BY <1>2, <1>3
  <2> QED BY <1>3, <2>1, <2>2, Zenon DEF Promised!Record
<1> QED BY <1>4, <1>5, <1>6, <1>7 DEF SerialInv, SerialEffect, LedgerReplays

LEMMA SerialCorrection ==
    ASSUME LedgerAssumption, SerialInv, NEW r \in Requests,
           CommitEdit(r) \/ CommitDelete(r)
    PROVE  SerialInv' /\ SerialEffect
<1>1. RaceInv /\ RaceInv'
  BY CommitCorrectionStep DEF SerialInv
<1>2. PICK c \in Correction :
         /\ corrections' = Append(corrections, c) /\ rows' = rows
         /\ c = PendingCorrection(r)
  BY <1>1, CommitCorrection, PendingCorrectionHarmless
<1>3. /\ req[r].op \in {"edit", "delete"} /\ StillValid(req[r])
      /\ req' = [req EXCEPT ![r] = Idle]
  BY CommitCorrection DEF SerialInv, PendingValid
<1>4. PICK i \in DOMAIN rows : i = req[r].target /\ i \in Active
  BY <1>3 DEF StillValid, Active
<1>5. c.event = i /\ i \in Nat /\ Version(i) \in Events /\ Version(i).id = i
  BY <1>1, <1>2, <1>4, VersionType DEF PendingCorrection, RaceInv, TypeOK
<1>6. EffectOf(c, i)
  BY <1>1, <1>2, <1>5, EffectOfCorrection DEF RaceInv
<1>7. /\ Version(i) \in EffectiveEvents
      /\ Others(EffectiveEvents, i) = EffectiveEvents \ {Version(i)}
  <2>1. \A j \in Active : Version(j).id = j
    BY <1>1, VersionType DEF Active, RaceInv
  <2> QED BY <1>4, <2>1 DEF EffectiveEvents, Others
<1>8. AtMostOnePending' /\ PendingValid'
  BY <1>3, NothingPending
<1>9. CASE req[r].op = "edit"
  <2> DEFINE e == [req[r].event EXCEPT !.id = i]
  <2>1. c = [event |-> i, action |-> "EDIT", replacement |-> e]
    BY <1>2, <1>4, <1>9 DEF PendingCorrection
  <2>2. req[r].event \in Events /\ SameIdentity(req[r].event, rows[i])
    BY <1>1, <1>4, <1>9 DEF RaceInv, TypeOK, Request, PendingHarmless
  <2>3. e \in Events /\ e.id = i /\ [e EXCEPT !.id = i] = e
        /\ e.date = req[r].event.date /\ e.sym = req[r].event.sym
    <3>1. \A d \in Events, k \in Nat :
             /\ [d EXCEPT !.id = k] \in Events /\ [d EXCEPT !.id = k].id = k
             /\ [d EXCEPT !.id = k].date = d.date /\ [d EXCEPT !.id = k].sym = d.sym
             /\ [[d EXCEPT !.id = k] EXCEPT !.id = k] = [d EXCEPT !.id = k]
      BY DEF Events
    <3> QED BY <2>2, <1>5, <3>1, Zenon
  <2> HIDE DEF e
  <2>4. EffectiveEvents' = Others(EffectiveEvents, i) \cup {e}
    BY <1>4, <1>6, <2>1, <2>3 DEF EffectOf
  <2>5. ValidLedger(EffectiveEvents')
    BY <1>3, <1>4, <1>9, <2>4 DEF StillValid, e
  <2>6. e.date = Version(i).date /\ e.sym = Version(i).sym
    BY <1>1, <2>2, <2>3, VersionIdentity DEF SameIdentity
  <2>7. Promised!Correct
    BY <1>5, <1>7, <2>3, <2>4, <2>6 DEF Promised!Correct
  <2> QED BY <1>1, <1>8, <2>5, <2>7 DEF SerialInv, SerialEffect, LedgerReplays
<1>10. CASE req[r].op = "delete"
  <2>1. c.action = "DELETE"
    BY <1>2, <1>10 DEF PendingCorrection
  <2>2. EffectiveEvents' = Others(EffectiveEvents, i)
    BY <1>4, <1>6, <2>1 DEF EffectOf
  <2>3. ValidLedger(EffectiveEvents')
    BY <1>3, <1>4, <1>10, <2>2 DEF StillValid
  <2>4. ~Version(i).generated
    BY <1>1, <1>4, <1>10, VersionIdentity DEF RaceInv, PendingHarmless, SameIdentity
  <2>5. Promised!Discard
    BY <1>7, <2>2, <2>4 DEF Promised!Discard
  <2> QED BY <1>1, <1>8, <2>3, <2>5 DEF SerialInv, SerialEffect, LedgerReplays
<1> QED BY <1>3, <1>9, <1>10

LEMMA SerialStep ==
    ASSUME LedgerAssumption, SerialInv, [SerialNext]_vars
    PROVE  SerialInv' /\ SerialEffect
<1>1. ASSUME SerialInv', UNCHANGED <<rows, corrections>>
      PROVE  SerialInv' /\ SerialEffect
  BY <1>1, SameTables DEF SerialEffect, SerialInv, LedgerReplays
<1>2. CASE UNCHANGED vars
  <2>1. [Next]_vars
    BY <1>2
  <2>2. RaceInv'
    BY <2>1, RaceInvStep DEF SerialInv
  <2>3. UNCHANGED <<rows, corrections>> /\ req' = req
    BY <1>2 DEF vars
  <2>4. SerialInv'
    BY <2>2, <2>3, SameTables
       DEF SerialInv, LedgerReplays, AtMostOnePending, PendingValid, StillValid
  <2> QED BY <1>1, <2>3, <2>4
<1>3. ASSUME NEW r \in Requests, Quiet, Begin(r)
      PROVE  SerialInv' /\ SerialEffect
  BY <1>1, <1>3, BeginPending, BeginStep DEF SerialInv
<1>4. ASSUME NEW r \in Requests, Abandon(r)
      PROVE  SerialInv' /\ SerialEffect
  <2>1. RaceInv' /\ UNCHANGED <<rows, corrections>>
    BY <1>4, AbandonStep DEF SerialInv
  <2>2. AtMostOnePending' /\ PendingValid'
    BY <1>4, NothingPending DEF Abandon
  <2> QED BY <1>1, <2>1, <2>2, SameTables DEF SerialInv, LedgerReplays
<1> QED BY <1>2, <1>3, <1>4, SerialAppend, SerialCorrection DEF SerialNext, Finish

THEOREM SerialInvariant == SerialSpec => []SerialInv
<1>1. Init => SerialInv
  BY SerialInvInit, LedgerAssumption
<1>2. SerialInv /\ [SerialNext]_vars => SerialInv'
  BY SerialStep, LedgerAssumption
<1> QED BY <1>1, <1>2, PTL DEF SerialSpec

\* INV-05 and INV-06: as long as a client waits for each answer, the effective
\* ledger replays after every append, edit and delete: no sale exceeds what is
\* owned and cash is never negative.
THEOREM SerialLedgerReplays == SerialSpec => []LedgerReplays
<1>1. SerialInv => LedgerReplays
  BY DEF SerialInv
<1> QED BY <1>1, SerialInvariant, PTL

\* The serial program implements the promised ledger: a commit is one Record, one
\* Correct or one Discard, every other step leaves the effective ledger as it is.
THEOREM SerialImplements == SerialSpec => ImplementsEffectiveLedger
<1>1. Init => Promised!Init
  BY DEF Init, Promised!Init, EffectiveEvents, Active
<1>2. SerialInv /\ [SerialNext]_vars => [Promised!Next]_EffectiveEvents
  BY SerialStep, LedgerAssumption DEF SerialEffect, Promised!Next
<1> QED BY <1>1, <1>2, SerialInvariant, PTL
        DEF SerialSpec, ImplementsEffectiveLedger, Promised!Spec

-------------------------------------------------------------------------------
\* One client among the possible requests is a serial program: nobody else has
\* anything pending when it begins.
ClientInv ==
    /\ clients \in {OneClient, Requests}
    /\ Alone => SerialInv /\ \A r \in Requests : r \in clients \/ req[r] = Idle

LEMMA ClientStep ==
    ASSUME ClientInv, [ClientNext]_<<vars, clients>>
    PROVE  /\ ClientInv' /\ clients' = clients
           /\ Alone => SerialEffect
<1>1. clients' = clients
  BY DEF ClientNext
<1>2. ASSUME Alone
      PROVE  /\ [SerialNext]_vars
             /\ \A r \in Requests : r \in clients \/ req'[r] = Idle
  <2>1. PICK c \in Requests : clients = {c}
    BY <1>2, SomeRequest DEF Alone, OneClient
  <2>2. CASE UNCHANGED vars
    BY <1>2, <2>2 DEF ClientInv, vars
  <2>3. CASE Begin(c) \/ Finish(c)
    <3>1. Begin(c) => Quiet
      BY <1>2, <2>1 DEF Begin, BeginAppend, BeginEdit, BeginDelete, Quiet, ClientInv
    <3>2. \A r \in Requests \ {c} : req'[r] = req[r]
      BY <1>2, <2>3 DEF ClientInv, SerialInv, RaceInv, TypeOK, Begin, BeginAppend, BeginEdit,
         BeginDelete, Finish, CommitAppend, CommitEdit, CommitDelete, Abandon
    <3> QED BY <1>2, <2>1, <2>3, <3>1, <3>2 DEF SerialNext, ClientInv
  <2> QED BY <2>1, <2>2, <2>3 DEF ClientNext, vars
<1>3. ASSUME Alone
      PROVE  SerialInv' /\ SerialEffect
  BY <1>2, <1>3, LedgerAssumption, SerialStep DEF ClientInv
<1> QED BY <1>1, <1>2, <1>3 DEF ClientInv, Alone, OneClient

\* The ledger of versions and correction rows, used by one client, implements the
\* promised ledger: one list of transactions, changed one at a time, that replays.
THEOREM ClientImplements == ClientSpec => ImplementsForOneClient
<1> DEFINE seen == IF Alone THEN EffectiveEvents ELSE {}
<1>1. ClientInit => ClientInv
  BY SerialInvInit, LedgerAssumption DEF ClientInit, ClientInv, Init
<1>2. ClientInv /\ [ClientNext]_<<vars, clients>> => ClientInv'
  BY ClientStep
<1>3. ClientInit => ForOneClient!Init
  BY DEF ClientInit, Init, ForOneClient!Init, EffectiveEvents, Active
<1>4. ClientInv /\ [ClientNext]_<<vars, clients>> => [ForOneClient!Next]_seen
  <2> SUFFICES ASSUME ClientInv, [ClientNext]_<<vars, clients>>
               PROVE  [ForOneClient!Next]_seen
    OBVIOUS
  <2>1. clients' = clients /\ (Alone' <=> Alone)
    BY ClientStep DEF Alone, OneClient
  <2>2. CASE ~Alone
    BY <2>1, <2>2
  <2>3. CASE Alone
    <3>1. seen = EffectiveEvents /\ seen' = EffectiveEvents'
      BY <2>1, <2>3
    <3>2. SerialEffect
      BY <2>3, ClientStep
    <3>3. /\ Promised!Record => ForOneClient!Record
          /\ Promised!Correct => ForOneClient!Correct
          /\ Promised!Discard => ForOneClient!Discard
      BY <2>1, <2>3, Zenon DEF Promised!Record, ForOneClient!Record, Promised!Correct,
         ForOneClient!Correct, Promised!Discard, ForOneClient!Discard
    <3> QED BY <2>1, <2>3, <3>1, <3>2, <3>3 DEF SerialEffect, ForOneClient!Next
  <2> QED BY <2>2, <2>3
<1> QED BY <1>1, <1>2, <1>3, <1>4, PTL DEF ClientSpec, ImplementsForOneClient, ForOneClient!Spec

-------------------------------------------------------------------------------
\* Sums over sets.

\* A family of sets that has every subset of K all of whose smaller subsets it has,
\* has all subsets of K.
LEMMA SubsetInduction ==
    ASSUME NEW K, IsFiniteSet(K), NEW G,
           \A T \in SUBSET K : (\A U \in SUBSET T : U # T => U \in G) => T \in G
    PROVE  \A T \in SUBSET K : T \in G
<1> DEFINE Missing == {T \in SUBSET K : T \notin G}
           Sizes == {Cardinality(T) : T \in Missing}
<1>1. \A T \in SUBSET K : IsFiniteSet(T) /\ Cardinality(T) \in Nat
  BY FS_Subset, FS_CardinalityType
<1> SUFFICES ASSUME Missing # {} PROVE FALSE
  OBVIOUS
<1>2. Sizes \in SUBSET Nat /\ Sizes # {}
  BY <1>1
<1>3. PICK n \in Sizes : \A m \in Sizes : n <= m
  <2> HIDE DEF Sizes
  <2> QED BY <1>2, LeastElement
<1>4. PICK T \in Missing : Cardinality(T) = n
  OBVIOUS
<1>5. \A U \in SUBSET T : U # T => U \in G
  <2> SUFFICES ASSUME NEW U \in SUBSET T, U # T, U \notin G PROVE FALSE
    OBVIOUS
  <2>1. Cardinality(U) <= Cardinality(T) /\ Cardinality(U) # Cardinality(T)
    BY <1>1, FS_Subset
  <2>2. U \in Missing
    OBVIOUS
  <2>3. n <= Cardinality(U)
    BY <2>2, <1>3
  <2> QED BY <2>1, <2>3, <1>1, <1>4
<1> QED BY <1>5

OneOf(S) == CHOOSE x \in S : TRUE

\* The running totals of f over the subsets of K.
RunsOf(f, K, g) == [S \in SUBSET K |-> IF S = {} THEN 0 ELSE f[OneOf(S)] + g[S \ {OneOf(S)}]]

\* The running totals of a function exist.
LEMMA RunsExist ==
    ASSUME NEW f, NEW K, IsFiniteSet(K)
    PROVE  \E g : g = RunsOf(f, K, g)
<1> DEFINE Upto(n) == {S \in SUBSET K : Cardinality(S) <= n}
           Good(n) == \E g : \A S \in Upto(n) : g[S] = RunsOf(f, K, g)[S]
           Missing == {n \in Nat : ~Good(n)}
<1>1. \A S \in SUBSET K : IsFiniteSet(S) /\ Cardinality(S) \in Nat
  BY FS_Subset, FS_CardinalityType
<1>2. \A S \in SUBSET K : S # {} => /\ OneOf(S) \in S
                                    /\ S \ {OneOf(S)} \in SUBSET K
                                    /\ Cardinality(S \ {OneOf(S)}) = Cardinality(S) - 1
  BY <1>1, FS_RemoveElement DEF OneOf
<1>3. Missing = {}
  <2> SUFFICES ASSUME Missing # {} PROVE FALSE
    OBVIOUS
  <2>1. PICK n \in Missing : \A m \in Missing : n <= m
    <3>1. Missing \in SUBSET Nat
      OBVIOUS
    <3> HIDE DEF Missing
    <3> QED BY <3>1, LeastElement
  <2>2. CASE n = 0
    <3>1. \A S \in Upto(0) : S = {}
      BY <1>1, FS_EmptySet
    <3>2. \A S \in Upto(0) : [T \in SUBSET K |-> 0][S] = RunsOf(f, K, [T \in SUBSET K |-> 0])[S]
      BY <3>1 DEF RunsOf
    <3> QED BY <3>2, <2>2
  <2>3. CASE n # 0
    <3>1. Good(n - 1)
      <4>1. n - 1 \in Nat /\ ~(n <= n - 1)
        BY <2>3
      <4> HIDE DEF Good
      <4> QED BY <4>1, <2>1
    <3>2. PICK g : \A S \in Upto(n - 1) : g[S] = RunsOf(f, K, g)[S]
      BY <3>1
    <3> DEFINE h == RunsOf(f, K, g)
    <3>3. \A S \in Upto(n) : h[S] = RunsOf(f, K, h)[S]
      <4> SUFFICES ASSUME NEW S \in Upto(n) PROVE h[S] = RunsOf(f, K, h)[S]
        OBVIOUS
      <4>1. CASE S = {}
        BY <4>1 DEF RunsOf
      <4>2. CASE S # {}
        <5> DEFINE less == S \ {OneOf(S)}
        <5>1. less \in Upto(n - 1)
          BY <4>2, <1>1, <1>2
        <5>2. h[less] = g[less]
          BY <5>1, <3>2
        <5>3. h[S] = f[OneOf(S)] + g[less]
          BY <4>2 DEF RunsOf
        <5>4. RunsOf(f, K, h)[S] = f[OneOf(S)] + h[less]
          <6> HIDE DEF h
          <6> QED BY <4>2 DEF RunsOf
        <5> QED BY <5>2, <5>3, <5>4
      <4> QED BY <4>1, <4>2
    <3> QED BY <3>3
  <2> QED BY <2>2, <2>3
<1>4. PICK g : \A S \in Upto(Cardinality(K)) : g[S] = RunsOf(f, K, g)[S]
  BY <1>3, <1>1
<1>5. \A S \in SUBSET K : g[S] = RunsOf(f, K, g)[S]
  BY <1>4, FS_Subset
<1> DEFINE h == RunsOf(f, K, g)
<1>6. \A S \in SUBSET K : h[S] = g[S]
  BY <1>5
<1>7. h = RunsOf(f, K, h)
  <2>1. \A S \in SUBSET K : S # {} => h[S \ {OneOf(S)}] = g[S \ {OneOf(S)}]
    BY <1>2, <1>6
  <2>2. RunsOf(f, K, h) = [S \in SUBSET K |-> IF S = {} THEN 0 ELSE f[OneOf(S)] + h[S \ {OneOf(S)}]]
    BY DEF RunsOf
  <2>3. h = [S \in SUBSET K |-> IF S = {} THEN 0 ELSE f[OneOf(S)] + g[S \ {OneOf(S)}]]
    BY DEF RunsOf
  <2> HIDE DEF h
  <2> QED BY <2>1, <2>2, <2>3
<1> QED BY <1>7

\* Total is the last of them.
LEMMA TotalIsRun ==
    ASSUME NEW f, NEW K, IsFiniteSet(K)
    PROVE  \E g : g = RunsOf(f, K, g) /\ Total(f, K) = g[K]
<1> DEFINE g == CHOOSE h : h = RunsOf(f, K, h)
<1>1. g = RunsOf(f, K, g)
  BY RunsExist
<1>2. Total(f, K) = g[K]
  BY DEF Total, MapThenSumSet, MapThenFoldSet, RunsOf, OneOf
<1> QED BY <1>1, <1>2

\* Running totals agree wherever they are defined.
LEMMA RunsUnique ==
    ASSUME NEW f, NEW K, IsFiniteSet(K), NEW L \in SUBSET K,
           NEW g, g = RunsOf(f, K, g), NEW h, h = RunsOf(f, L, h)
    PROVE  g[L] = h[L]
<1> DEFINE G == {T \in SUBSET L : g[T] = h[T]}
<1>1. \A T \in SUBSET L : (\A U \in SUBSET T : U # T => U \in G) => T \in G
  <2> SUFFICES ASSUME NEW T \in SUBSET L, \A U \in SUBSET T : U # T => U \in G
               PROVE  g[T] = h[T]
    OBVIOUS
  <2>1. g[T] = (IF T = {} THEN 0 ELSE f[OneOf(T)] + g[T \ {OneOf(T)}])
    BY DEF RunsOf
  <2>2. h[T] = (IF T = {} THEN 0 ELSE f[OneOf(T)] + h[T \ {OneOf(T)}])
    BY DEF RunsOf
  <2>3. T # {} => T \ {OneOf(T)} \in G
    BY DEF OneOf
  <2> QED BY <2>1, <2>2, <2>3
<1>2. IsFiniteSet(L)
  BY FS_Subset
<1>3. L \in G
  <2> HIDE DEF G
  <2> QED BY <1>1, <1>2, SubsetInduction
<1> QED BY <1>3

\* Nothing adds up to zero.
LEMMA TotalEmpty == \A f : Total(f, {}) = 0
<1> SUFFICES ASSUME NEW f PROVE Total(f, {}) = 0
  OBVIOUS
<1>1. PICK g : g = RunsOf(f, {}, g) /\ Total(f, {}) = g[{}]
  BY TotalIsRun, FS_EmptySet
<1> QED BY <1>1 DEF RunsOf

\* A total is one term and the total of the rest.
LEMMA TotalOneOf ==
    ASSUME NEW f, NEW K, IsFiniteSet(K), K # {}
    PROVE  OneOf(K) \in K /\ Total(f, K) = f[OneOf(K)] + Total(f, K \ {OneOf(K)})
<1> DEFINE less == K \ {OneOf(K)}
<1>1. OneOf(K) \in K
  BY DEF OneOf
<1>2. IsFiniteSet(less)
  BY FS_RemoveElement
<1>3. PICK g : g = RunsOf(f, K, g) /\ Total(f, K) = g[K]
  BY TotalIsRun
<1>4. PICK h : h = RunsOf(f, less, h) /\ Total(f, less) = h[less]
  BY <1>2, TotalIsRun
<1>5. g[less] = h[less]
  BY <1>3, <1>4, RunsUnique
<1>6. g[K] = f[OneOf(K)] + g[less]
  BY <1>3 DEF RunsOf
<1> QED BY <1>1, <1>3, <1>4, <1>5, <1>6

\* The total of integers is an integer.
LEMMA TotalInt ==
    ASSUME NEW K, IsFiniteSet(K), NEW f, \A x \in K : f[x] \in Int
    PROVE  \A T \in SUBSET K : Total(f, T) \in Int
<1> DEFINE G == {T \in SUBSET K : Total(f, T) \in Int}
<1>1. \A T \in SUBSET K : (\A U \in SUBSET T : U # T => U \in G) => T \in G
  <2> SUFFICES ASSUME NEW T \in SUBSET K, \A U \in SUBSET T : U # T => U \in G
               PROVE  Total(f, T) \in Int
    OBVIOUS
  <2>1. CASE T = {}
    BY <2>1, TotalEmpty
  <2>2. CASE T # {}
    <3>1. IsFiniteSet(T)
      BY FS_Subset
    <3>2. OneOf(T) \in T /\ Total(f, T) = f[OneOf(T)] + Total(f, T \ {OneOf(T)})
      BY <2>2, <3>1, TotalOneOf
    <3>3. T \ {OneOf(T)} \in G
      BY <3>2
    <3> QED BY <3>2, <3>3
  <2> QED BY <2>1, <2>2
<1>3. \A T \in SUBSET K : T \in G
  <2> HIDE DEF G
  <2> QED BY <1>1, SubsetInduction
<1> QED BY <1>3

\* Any argument may be taken out of a sum.
LEMMA TotalRemove ==
    ASSUME NEW K, IsFiniteSet(K), NEW f, \A x \in K : f[x] \in Int
    PROVE  \A T \in SUBSET K : \A x \in T : Total(f, T) = f[x] + Total(f, T \ {x})
<1> DEFINE G == {T \in SUBSET K : \A x \in T : Total(f, T) = f[x] + Total(f, T \ {x})}
<1>0. \A T \in SUBSET K : Total(f, T) \in Int
  BY TotalInt
<1>1. \A T \in SUBSET K : (\A U \in SUBSET T : U # T => U \in G) => T \in G
  <2> SUFFICES ASSUME NEW T \in SUBSET K, \A U \in SUBSET T : U # T => U \in G, NEW x \in T
               PROVE  Total(f, T) = f[x] + Total(f, T \ {x})
    OBVIOUS
  <2> DEFINE y == OneOf(T)
  <2>1. IsFiniteSet(T)
    BY FS_Subset
  <2>2. y \in T /\ Total(f, T) = f[y] + Total(f, T \ {y})
    BY <2>1, TotalOneOf
  <2>3. CASE x = y
    <3> HIDE DEF y
    <3>1. T \ {x} = T \ {y}
      BY <2>3
    <3>2. f[x] = f[y] /\ Total(f, T \ {x}) = Total(f, T \ {y})
      BY <3>1, <2>3, Zenon
    <3> QED BY <2>2, <3>2, Zenon
  <2>4. CASE x # y
    <3> HIDE DEF y
    <3>1. T \ {y} \in G /\ T \ {x} \in G
      BY <2>2
    <3>2. Total(f, T \ {y}) = f[x] + Total(f, (T \ {y}) \ {x})
      BY <3>1, <2>4
    <3>3. Total(f, T \ {x}) = f[y] + Total(f, (T \ {x}) \ {y})
      BY <3>1, <2>4, <2>2
    <3>4. (T \ {x}) \ {y} = (T \ {y}) \ {x} /\ (T \ {x}) \ {y} \in SUBSET K
      OBVIOUS
    <3>5. Total(f, (T \ {x}) \ {y}) \in Int
      BY <3>4, <1>0
    <3>6. f[x] \in Int /\ f[y] \in Int
      BY <2>2
    <3>7. Total(f, (T \ {y}) \ {x}) = Total(f, (T \ {x}) \ {y})
      BY <3>4
    <3> DEFINE rest == Total(f, (T \ {x}) \ {y})
    <3>8. Total(f, T) = f[y] + (f[x] + rest)
      BY <2>2, <3>2, <3>7
    <3> HIDE DEF rest
    <3>9. Total(f, T) = f[x] + (f[y] + rest)
      BY <3>5, <3>6, <3>8 DEF rest
    <3> QED BY <3>3, <3>9 DEF rest
  <2> QED BY <2>3, <2>4
<1>3. \A T \in SUBSET K : T \in G
  <2> HIDE DEF G
  <2> QED BY <1>1, SubsetInduction
<1> QED BY <1>3

\* What a sum is of depends on the values of its arguments alone.
LEMMA TotalSame ==
    ASSUME NEW K, IsFiniteSet(K), NEW f, NEW g, \A x \in K : f[x] = g[x]
    PROVE  Total(f, K) = Total(g, K)
<1> DEFINE G == {T \in SUBSET K : Total(f, T) = Total(g, T)}
<1>1. \A T \in SUBSET K : (\A U \in SUBSET T : U # T => U \in G) => T \in G
  <2> SUFFICES ASSUME NEW T \in SUBSET K, \A U \in SUBSET T : U # T => U \in G
               PROVE  Total(f, T) = Total(g, T)
    OBVIOUS
  <2>1. CASE T = {}
    BY <2>1, TotalEmpty
  <2>2. CASE T # {}
    <3>1. IsFiniteSet(T)
      BY FS_Subset
    <3>2. OneOf(T) \in T /\ Total(f, T) = f[OneOf(T)] + Total(f, T \ {OneOf(T)})
      BY <2>2, <3>1, TotalOneOf
    <3>3. Total(g, T) = g[OneOf(T)] + Total(g, T \ {OneOf(T)})
      BY <2>2, <3>1, TotalOneOf
    <3>4. T \ {OneOf(T)} \in G
      BY <3>2
    <3> QED BY <3>2, <3>3, <3>4
  <2> QED BY <2>1, <2>2
<1>3. \A T \in SUBSET K : T \in G
  <2> HIDE DEF G
  <2> QED BY <1>1, SubsetInduction
<1> QED BY <1>3

\* The sum of two functions.
LEMMA TotalPlus ==
    ASSUME NEW K, IsFiniteSet(K), NEW f, NEW g, NEW h,
           \A x \in K : f[x] \in Int /\ g[x] \in Int /\ h[x] = f[x] + g[x]
    PROVE  Total(h, K) = Total(f, K) + Total(g, K)
<1> DEFINE G == {T \in SUBSET K : Total(h, T) = Total(f, T) + Total(g, T)}
<1>0. \A T \in SUBSET K : Total(f, T) \in Int /\ Total(g, T) \in Int
  BY TotalInt
<1>1. \A T \in SUBSET K : (\A U \in SUBSET T : U # T => U \in G) => T \in G
  <2> SUFFICES ASSUME NEW T \in SUBSET K, \A U \in SUBSET T : U # T => U \in G
               PROVE  Total(h, T) = Total(f, T) + Total(g, T)
    OBVIOUS
  <2>1. CASE T = {}
    BY <2>1, TotalEmpty
  <2>2. CASE T # {}
    <3> DEFINE y == OneOf(T)
               less == T \ {y}
    <3>1. IsFiniteSet(T)
      BY FS_Subset
    <3>2. y \in T /\ Total(f, T) = f[y] + Total(f, less)
      BY <2>2, <3>1, TotalOneOf
    <3>3. Total(g, T) = g[y] + Total(g, less) /\ Total(h, T) = h[y] + Total(h, less)
      BY <2>2, <3>1, TotalOneOf
    <3> HIDE DEF y
    <3>4. less \in G /\ Total(f, less) \in Int /\ Total(g, less) \in Int
      BY <3>2, <1>0
    <3>5. f[y] \in Int /\ g[y] \in Int /\ h[y] = f[y] + g[y]
      BY <3>2
    <3>6. Total(h, less) = Total(f, less) + Total(g, less)
      BY <3>4
    <3> HIDE DEF less, G
    <3> QED BY <3>2, <3>3, <3>4, <3>5, <3>6
  <2> QED BY <2>1, <2>2
<1>3. \A T \in SUBSET K : T \in G
  <2> HIDE DEF G
  <2> QED BY <1>1, SubsetInduction
<1> QED BY <1>3

\* Sums are as large as their terms, scaled or not.
LEMMA TotalScaled ==
    ASSUME NEW K, IsFiniteSet(K), NEW f, NEW g, NEW c \in Int, NEW d \in Int,
           \A x \in K : f[x] \in Int /\ g[x] \in Int /\ c * f[x] <= d * g[x]
    PROVE  \A T \in SUBSET K : c * Total(f, T) <= d * Total(g, T)
<1> DEFINE G == {T \in SUBSET K : c * Total(f, T) <= d * Total(g, T)}
<1>0. \A T \in SUBSET K : Total(f, T) \in Int /\ Total(g, T) \in Int
  BY TotalInt
<1>1. \A T \in SUBSET K : (\A U \in SUBSET T : U # T => U \in G) => T \in G
  <2> SUFFICES ASSUME NEW T \in SUBSET K, \A U \in SUBSET T : U # T => U \in G
               PROVE  c * Total(f, T) <= d * Total(g, T)
    OBVIOUS
  <2>1. CASE T = {}
    <3>1. c * 0 = 0 /\ d * 0 = 0
      OBVIOUS
    <3> QED BY <2>1, <3>1, TotalEmpty
  <2>2. CASE T # {}
    <3> DEFINE y == OneOf(T)
               less == T \ {y}
    <3>1. IsFiniteSet(T)
      BY FS_Subset
    <3>2. y \in T /\ Total(f, T) = f[y] + Total(f, less)
      BY <2>2, <3>1, TotalOneOf
    <3>3. Total(g, T) = g[y] + Total(g, less)
      BY <2>2, <3>1, TotalOneOf
    <3> HIDE DEF y
    <3>4. less \in G /\ Total(f, less) \in Int /\ Total(g, less) \in Int
      BY <3>2, <1>0
    <3>5. f[y] \in Int /\ g[y] \in Int /\ c * f[y] <= d * g[y]
      BY <3>2
    <3>6. c * Total(f, less) <= d * Total(g, less)
      BY <3>4
    <3> HIDE DEF less, G
    <3>7. c * (f[y] + Total(f, less)) = c * f[y] + c * Total(f, less)
      BY <3>4, <3>5
    <3>8. d * (g[y] + Total(g, less)) = d * g[y] + d * Total(g, less)
      BY <3>4, <3>5
    <3>9. c * f[y] \in Int /\ d * g[y] \in Int /\ c * Total(f, less) \in Int /\ d * Total(g, less) \in Int
      BY <3>4, <3>5
    <3> QED BY <3>2, <3>3, <3>5, <3>6, <3>7, <3>8, <3>9
  <2> QED BY <2>1, <2>2
<1>3. \A T \in SUBSET K : T \in G
  <2> HIDE DEF G
  <2> QED BY <1>1, SubsetInduction
<1> QED BY <1>3

\* Zero everywhere else, or left out.
LEMMA TotalRestrict ==
    ASSUME NEW K, IsFiniteSet(K), NEW f, \A x \in K : f[x] \in Int, NEW S, NEW g,
           \A x \in K : g[x] = IF x \in S THEN f[x] ELSE 0
    PROVE  Total(f, K \cap S) = Total(g, K)
<1> DEFINE G == {T \in SUBSET K : Total(f, T \cap S) = Total(g, T)}
<1>0. \A T \in SUBSET K : Total(f, T) \in Int /\ Total(g, T) \in Int
  <2>1. \A x \in K : g[x] \in Int
    OBVIOUS
  <2> QED BY <2>1, TotalInt
<1>1. \A T \in SUBSET K : (\A U \in SUBSET T : U # T => U \in G) => T \in G
  <2> SUFFICES ASSUME NEW T \in SUBSET K, \A U \in SUBSET T : U # T => U \in G
               PROVE  Total(f, T \cap S) = Total(g, T)
    OBVIOUS
  <2>1. CASE T = {}
    <3>1. T \cap S = {}
      BY <2>1
    <3> QED BY <2>1, <3>1, TotalEmpty
  <2>2. CASE T # {}
    <3> DEFINE y == OneOf(T)
               less == T \ {y}
    <3>1. IsFiniteSet(T)
      BY FS_Subset
    <3>2. y \in T /\ Total(g, T) = g[y] + Total(g, less)
      BY <2>2, <3>1, TotalOneOf
    <3> HIDE DEF y
    <3>3. less \in G
      BY <3>2
    <3>4. CASE y \in S
      <4>1. \A x \in T \cap S : Total(f, T \cap S) = f[x] + Total(f, (T \cap S) \ {x})
        <5>1. T \cap S \in SUBSET K
          OBVIOUS
        <5> QED BY <5>1, TotalRemove
      <4>2. (T \cap S) \ {y} = less \cap S
        OBVIOUS
      <4>3. g[y] = f[y]
        BY <3>2, <3>4
      <4> HIDE DEF less
      <4> QED BY <3>2, <3>3, <3>4, <4>1, <4>2, <4>3
    <3>5. CASE y \notin S
      <4>1. T \cap S = less \cap S
        BY <3>5
      <4>2. g[y] = 0 /\ Total(g, less) \in Int
        BY <3>2, <3>5, <1>0
      <4>3. Total(f, less \cap S) = Total(g, less)
        BY <3>3
      <4> HIDE DEF less, G
      <4>4. Total(f, T \cap S) = Total(f, less \cap S)
        BY <4>1
      <4> QED BY <3>2, <4>2, <4>3, <4>4
    <3> QED BY <3>4, <3>5
  <2> QED BY <2>1, <2>2
<1>3. \A T \in SUBSET K : T \in G
  <2> HIDE DEF G
  <2> QED BY <1>1, SubsetInduction
<1> QED BY <1>3

\* A sum over two parts.
LEMMA TotalParts ==
    ASSUME NEW K, IsFiniteSet(K), NEW f, \A x \in K : f[x] \in Int, NEW S
    PROVE  Total(f, K) = Total(f, K \cap S) + Total(f, K \ S)
<1> DEFINE g == [x \in K |-> IF x \in S THEN f[x] ELSE 0]
           h == [x \in K |-> IF x \in K \ S THEN f[x] ELSE 0]
<1>0. \A R, e : (\A x \in K : e[x] = IF x \in R THEN f[x] ELSE 0) => Total(f, K \cap R) = Total(e, K)
  BY TotalRestrict
<1>1. Total(f, K \cap S) = Total(g, K)
  <2>1. \A x \in K : g[x] = IF x \in S THEN f[x] ELSE 0
    OBVIOUS
  <2> HIDE DEF g
  <2> QED BY <2>1, TotalRestrict
<1>2. Total(f, K \ S) = Total(h, K)
  <2>1. \A x \in K : h[x] = IF x \in K \ S THEN f[x] ELSE 0
    OBVIOUS
  <2>2. K \cap (K \ S) = K \ S
    OBVIOUS
  <2> DEFINE rest == K \ S
  <2> HIDE DEF h, rest
  <2>3. Total(f, K \cap rest) = Total(h, K)
    <3>1. \A x \in K : h[x] = IF x \in rest THEN f[x] ELSE 0
      BY <2>1 DEF rest
    <3> QED BY <3>1, <1>0
  <2>4. K \cap rest = rest
    BY DEF rest
  <2>5. Total(f, rest) = Total(h, K)
    BY <2>3, <2>4
  <2> QED BY <2>5 DEF rest
<1>3. \A x \in K : g[x] \in Int /\ h[x] \in Int /\ f[x] = g[x] + h[x]
  OBVIOUS
<1> HIDE DEF g, h
<1>4. Total(f, K) = Total(g, K) + Total(h, K)
  BY <1>3, TotalPlus
<1> QED BY <1>1, <1>2, <1>4

\* One more argument.
LEMMA TotalAdd ==
    ASSUME NEW K, IsFiniteSet(K), NEW x, x \notin K, NEW f, f[x] \in Int, \A y \in K : f[y] \in Int
    PROVE  Total(f, K \cup {x}) = Total(f, K) + f[x]
<1> DEFINE more == K \cup {x}
<1>1. IsFiniteSet(more) /\ more \ {x} = K /\ x \in more /\ \A y \in more : f[y] \in Int
  BY FS_AddElement
<1>2. Total(f, more) = f[x] + Total(f, more \ {x})
  <2> HIDE DEF more
  <2> QED BY <1>1, TotalRemove
<1>3. Total(f, K) \in Int
  BY TotalInt
<1>4. Total(f, more) = f[x] + Total(f, K)
  <2> HIDE DEF more
  <2>1. Total(f, more \ {x}) = Total(f, K)
    BY <1>1
  <2> QED BY <1>2, <2>1
<1> QED BY <1>3, <1>4

\* A total of smaller terms is smaller.
LEMMA TotalBelow ==
    ASSUME NEW K, IsFiniteSet(K), NEW f, NEW g, \A x \in K : f[x] \in Int /\ g[x] \in Int /\ f[x] <= g[x]
    PROVE  \A T \in SUBSET K : Total(f, T) <= Total(g, T)
<1> DEFINE one == 1
<1>1. one \in Int /\ \A n \in Int : one * n = n
  OBVIOUS
<1> HIDE DEF one
<1>2. \A x \in K : f[x] \in Int /\ g[x] \in Int /\ one * f[x] <= one * g[x]
  BY <1>1
<1>3. \A T \in SUBSET K : one * Total(f, T) <= one * Total(g, T)
  BY <1>1, <1>2, TotalScaled
<1>4. \A T \in SUBSET K : Total(g, T) \in Int /\ Total(f, T) \in Int
  BY TotalInt
<1> QED BY <1>1, <1>3, <1>4

\* The total of natural numbers is one.
LEMMA TotalNat ==
    ASSUME NEW K, IsFiniteSet(K), NEW f, \A x \in K : f[x] \in Nat
    PROVE  \A T \in SUBSET K : Total(f, T) \in Nat
<1> DEFINE G == {T \in SUBSET K : Total(f, T) \in Nat}
<1>1. \A T \in SUBSET K : (\A U \in SUBSET T : U # T => U \in G) => T \in G
  <2> SUFFICES ASSUME NEW T \in SUBSET K, \A U \in SUBSET T : U # T => U \in G
               PROVE  Total(f, T) \in Nat
    OBVIOUS
  <2>1. CASE T = {}
    BY <2>1, TotalEmpty
  <2>2. CASE T # {}
    <3>1. IsFiniteSet(T)
      BY FS_Subset
    <3>2. OneOf(T) \in T /\ Total(f, T) = f[OneOf(T)] + Total(f, T \ {OneOf(T)})
      BY <2>2, <3>1, TotalOneOf
    <3>3. T \ {OneOf(T)} \in G
      BY <3>2
    <3> QED BY <3>2, <3>3
  <2> QED BY <2>1, <2>2
<1>3. \A T \in SUBSET K : T \in G
  <2> HIDE DEF G
  <2> QED BY <1>1, SubsetInduction
<1> QED BY <1>3

\* A part of a sum of natural numbers.
LEMMA TotalPart ==
    ASSUME NEW K, IsFiniteSet(K), NEW f, \A x \in K : f[x] \in Nat, NEW T \in SUBSET K
    PROVE  /\ Total(f, T) <= Total(f, K)
           /\ (\A x \in K : f[x] > 0) => (Total(f, T) = Total(f, K) => T = K)
<1>1. Total(f, T) \in Nat /\ Total(f, K \ T) \in Nat
  BY TotalNat
<1>2. Total(f, K) = Total(f, T) + Total(f, K \ T)
  <2>1. K \cap T = T
    OBVIOUS
  <2>2. Total(f, K) = Total(f, K \cap T) + Total(f, K \ T)
    BY TotalParts
  <2> QED BY <2>1, <2>2
<1>3. ASSUME \A x \in K : f[x] > 0, T # K PROVE Total(f, K \ T) > 0
  <2>1. PICK x \in K : x \notin T
    BY <1>3
  <2>2. IsFiniteSet(K \ T) /\ x \in K \ T
    BY <2>1, FS_Subset
  <2>3. Total(f, K \ T) = f[x] + Total(f, (K \ T) \ {x})
    BY <2>2, TotalRemove
  <2>4. Total(f, (K \ T) \ {x}) \in Nat
    <3>1. (K \ T) \ {x} \in SUBSET K
      OBVIOUS
    <3> QED BY <3>1, TotalNat
  <2>5. f[x] \in Nat /\ f[x] > 0
    BY <2>1, <1>3
  <2> QED BY <2>3, <2>4, <2>5
<1> QED BY <1>1, <1>2, <1>3

-------------------------------------------------------------------------------
\* Lots and their sums.

\* A sum in which one term changes.
LEMMA TotalChanged ==
    ASSUME NEW K, IsFiniteSet(K), NEW x \in K, NEW f, NEW g,
           \A y \in K : f[y] \in Int /\ g[y] \in Int,
           \A y \in K : y # x => g[y] = f[y]
    PROVE  Total(g, K) = Total(f, K) - f[x] + g[x]
<1> DEFINE rest == K \ {x}
<1>1. IsFiniteSet(rest)
  BY FS_RemoveElement
<1>2. Total(f, K) = f[x] + Total(f, rest) /\ Total(g, K) = g[x] + Total(g, rest)
  BY TotalRemove
<1>3. Total(f, rest) = Total(g, rest)
  <2>1. \A y \in rest : f[y] = g[y]
    OBVIOUS
  <2> HIDE DEF rest
  <2> QED BY <1>1, <2>1, TotalSame
<1>4. Total(f, rest) \in Int
  BY TotalInt
<1> QED BY <1>2, <1>3, <1>4

\* The indexes of a sequence.
LEMMA FiniteDomain == \A S : \A s \in Seq(S) : IsFiniteSet(DOMAIN s) /\ DOMAIN s = 1 .. Len(s) /\ Len(s) \in Nat
BY FS_Interval

\* The shares and costs of lots add up to natural numbers.
LEMMA QtyTotals ==
    ASSUME NEW lots \in Seq(Lot)
    PROVE  \A K \in SUBSET DOMAIN lots :
             /\ IsFiniteSet(K)
             /\ QtyOf(lots, K) \in Nat /\ CostOf(lots, K) \in Nat
<1>1. IsFiniteSet(DOMAIN lots)
  BY FiniteDomain
<1> DEFINE q == [k \in DOMAIN lots |-> lots[k].qty]
           c == [k \in DOMAIN lots |-> lots[k].cost]
<1>0. \A k \in DOMAIN lots : lots[k] \in Lot
  OBVIOUS
<1>2. \A k \in DOMAIN lots : q[k] \in Nat /\ c[k] \in Nat
  BY <1>0 DEF Lot
<1>3. \A K \in SUBSET DOMAIN lots : Total(q, K) \in Nat /\ Total(c, K) \in Nat
  <2> HIDE DEF q, c
  <2> QED BY <1>1, <1>2, TotalNat
<1>4. \A K \in SUBSET DOMAIN lots : IsFiniteSet(K)
  BY <1>1, FS_Subset
<1> QED BY <1>3, <1>4 DEF QtyOf, CostOf

-------------------------------------------------------------------------------
\* Opening a lot.

\* One more lot adds its shares and its cost.
LEMMA LotAppended ==
    ASSUME NEW lots \in Seq(Lot), NEW lot \in Lot
    PROVE  LET more == Append(lots, lot)
           IN  /\ more \in Seq(Lot)
               /\ QtyOf(more, DOMAIN more) = QtyOf(lots, DOMAIN lots) + lot.qty
               /\ CostOf(more, DOMAIN more) = CostOf(lots, DOMAIN lots) + lot.cost
<1> DEFINE more == Append(lots, lot)
           n == Len(lots) + 1
           K == DOMAIN lots
           q == [k \in DOMAIN more |-> more[k].qty]
           c == [k \in DOMAIN more |-> more[k].cost]
           q0 == [k \in K |-> lots[k].qty]
           c0 == [k \in K |-> lots[k].cost]
<1>1. more \in Seq(Lot) /\ n \in Nat /\ DOMAIN more = K \cup {n} /\ n \notin K
  OBVIOUS
<1>2. IsFiniteSet(K)
  BY FiniteDomain
<1>3. \A k \in K : q[k] = q0[k] /\ c[k] = c0[k] /\ q[k] \in Int /\ c[k] \in Int
  <2>1. \A k \in K : lots[k] \in Lot /\ more[k] = lots[k] /\ k \in DOMAIN more
    OBVIOUS
  <2>2. \A k \in K : q[k] = lots[k].qty /\ c[k] = lots[k].cost /\ q0[k] = lots[k].qty /\ c0[k] = lots[k].cost
    BY <2>1
  <2>3. \A k \in K : lots[k].qty \in Int /\ lots[k].cost \in Int
    BY <2>1, SMTT(30) DEF Lot
  <2> HIDE DEF q, c, q0, c0, K
  <2> QED BY <2>2, <2>3
<1>4. q[n] = lot.qty /\ c[n] = lot.cost /\ q[n] \in Int /\ c[n] \in Int
  BY DEF Lot
<1>5. Total(q, K \cup {n}) = Total(q, K) + q[n] /\ Total(c, K \cup {n}) = Total(c, K) + c[n]
  <2> HIDE DEF q, c, n, K
  <2>1. \A k \in K : q[k] \in Int /\ c[k] \in Int
    BY <1>3
  <2>2. n \notin K
    BY <1>1
  <2>3. Total(q, K \cup {n}) = Total(q, K) + q[n]
    BY <1>2, <1>4, <2>1, <2>2, TotalAdd
  <2>4. Total(c, K \cup {n}) = Total(c, K) + c[n]
    BY <1>2, <1>4, <2>1, <2>2, TotalAdd
  <2> QED BY <2>3, <2>4
<1>6. Total(q, K) = Total(q0, K) /\ Total(c, K) = Total(c0, K)
  <2> HIDE DEF q, c, K, q0, c0
  <2> QED BY <1>2, <1>3, TotalSame
<1>7. QtyOf(more, DOMAIN more) = Total(q, K \cup {n}) /\ CostOf(more, DOMAIN more) = Total(c, K \cup {n})
  BY <1>1 DEF QtyOf, CostOf
<1>8. QtyOf(lots, K) = Total(q0, K) /\ CostOf(lots, K) = Total(c0, K)
  BY DEF QtyOf, CostOf
<1> HIDE DEF more, n, K, q, c, q0, c0
<1>9. QtyOf(more, DOMAIN more) = QtyOf(lots, K) + lot.qty /\ CostOf(more, DOMAIN more) = CostOf(lots, K) + lot.cost
  BY <1>4, <1>5, <1>6, <1>7, <1>8
<1> QED BY <1>1, <1>9 DEF more, K

\* The prefixes that OpenLots is computed over.
OpenUpto(lots, o) ==
    [n \in 0 .. Len(lots) |->
        IF n = 0 THEN <<>> ELSE IF lots[n].qty > 0 THEN Append(o[n - 1], lots[n]) ELSE o[n - 1]]

\* The open lots of every prefix exist.
LEMMA OpenExists ==
    ASSUME NEW lots \in Seq(Lot)
    PROVE  \E o : o = OpenUpto(lots, o)
<1> DEFINE Good(n) == \E o : \A m \in 0 .. n : o[m] = OpenUpto(lots, o)[m]
           Missing == {n \in 0 .. Len(lots) : ~Good(n)}
<1>0. Len(lots) \in Nat
  OBVIOUS
<1>1. Missing = {}
  <2> SUFFICES ASSUME Missing # {} PROVE FALSE
    OBVIOUS
  <2>1. PICK n \in Missing : \A m \in Missing : n <= m
    <3>1. Missing \in SUBSET Nat
      BY <1>0
    <3> HIDE DEF Missing
    <3> QED BY <3>1, LeastElement
  <2>2. CASE n = 0
    <3>1. \A m \in 0 .. 0 : [k \in {0} |-> <<>>][m] = OpenUpto(lots, [k \in {0} |-> <<>>])[m]
      BY DEF OpenUpto
    <3> QED BY <3>1, <2>2
  <2>3. CASE n # 0
    <3>1. Good(n - 1)
      <4>1. n - 1 \in 0 .. Len(lots) /\ ~(n <= n - 1)
        BY <2>3, <1>0
      <4> HIDE DEF Good
      <4> QED BY <4>1, <2>1
    <3>2. PICK o : \A m \in 0 .. n - 1 : o[m] = OpenUpto(lots, o)[m]
      BY <3>1
    <3> DEFINE p == OpenUpto(lots, o)
    <3>3. \A m \in 0 .. n : p[m] = OpenUpto(lots, p)[m]
      <4> SUFFICES ASSUME NEW m \in 0 .. n PROVE p[m] = OpenUpto(lots, p)[m]
        OBVIOUS
      <4>0. m \in 0 .. Len(lots)
        BY <1>0
      <4>1. CASE m = 0
        BY <4>0, <4>1 DEF OpenUpto
      <4>2. CASE m # 0
        <5>1. m - 1 \in 0 .. n - 1
          BY <4>2
        <5>2. p[m - 1] = o[m - 1]
          BY <5>1, <3>2
        <5>3. p[m] = IF lots[m].qty > 0 THEN Append(o[m - 1], lots[m]) ELSE o[m - 1]
          BY <4>0, <4>2 DEF OpenUpto
        <5>4. OpenUpto(lots, p)[m] = IF lots[m].qty > 0 THEN Append(p[m - 1], lots[m]) ELSE p[m - 1]
          <6> HIDE DEF p
          <6> QED BY <4>0, <4>2 DEF OpenUpto
        <5> QED BY <5>2, <5>3, <5>4
      <4> QED BY <4>1, <4>2
    <3> QED BY <3>3
  <2> QED BY <2>2, <2>3
<1>2. Good(Len(lots))
  BY <1>0, <1>1
<1>3. PICK o : \A m \in 0 .. Len(lots) : o[m] = OpenUpto(lots, o)[m]
  BY <1>2
<1> DEFINE p == OpenUpto(lots, o)
<1>4. \A m \in 0 .. Len(lots) : p[m] = o[m]
  BY <1>3
<1>5. p = OpenUpto(lots, p)
  <2>1. \A m \in 0 .. Len(lots) : m # 0 => p[m - 1] = o[m - 1]
    BY <1>0, <1>4
  <2>2. p = [n \in 0 .. Len(lots) |->
               IF n = 0 THEN <<>> ELSE IF lots[n].qty > 0 THEN Append(o[n - 1], lots[n]) ELSE o[n - 1]]
    BY DEF OpenUpto
  <2>3. OpenUpto(lots, p) = [n \in 0 .. Len(lots) |->
               IF n = 0 THEN <<>> ELSE IF lots[n].qty > 0 THEN Append(p[n - 1], lots[n]) ELSE p[n - 1]]
    BY DEF OpenUpto
  <2> HIDE DEF p
  <2> QED BY <2>1, <2>2, <2>3
<1> QED BY <1>5

\* OpenLots is the last of them.
LEMMA OpenIsLast ==
    ASSUME NEW lots \in Seq(Lot)
    PROVE  \E o : o = OpenUpto(lots, o) /\ OpenLots(lots) = o[Len(lots)]
<1> DEFINE o == CHOOSE p : p = OpenUpto(lots, p)
<1>1. o = OpenUpto(lots, o)
  BY OpenExists
<1>2. OpenLots(lots) = o[Len(lots)]
  BY DEF OpenLots, OpenUpto
<1> QED BY <1>1, <1>2

-------------------------------------------------------------------------------
\* Closing empty lots.

\* What is left when the empty lots, which carry no cost, are dropped: the same
\* shares and cost, in the same order.
LEMMA OpenLotsKeep ==
    ASSUME NEW lots \in Seq(Lot), \A k \in DOMAIN lots : lots[k].qty = 0 => lots[k].cost = 0
    PROVE  LET open == OpenLots(lots)
           IN  /\ open \in Seq(Lot)
               /\ \A k \in DOMAIN open : open[k].qty > 0
               /\ \A k \in DOMAIN open : \E j \in DOMAIN lots : open[k] = lots[j]
               /\ QtyOf(open, DOMAIN open) = QtyOf(lots, DOMAIN lots)
               /\ CostOf(open, DOMAIN open) = CostOf(lots, DOMAIN lots)
               /\ FifoSorted(lots) => FifoSorted(open)
<1>1. PICK o : o = OpenUpto(lots, o) /\ OpenLots(lots) = o[Len(lots)]
  BY OpenIsLast
<1> DEFINE Kept(n) ==
             /\ o[n] \in Seq(Lot)
             /\ \A k \in DOMAIN o[n] : o[n][k].qty > 0
             /\ \A k \in DOMAIN o[n] : \E j \in 1 .. n : o[n][k] = lots[j]
             /\ QtyOf(o[n], DOMAIN o[n]) = QtyOf(lots, 1 .. n)
             /\ CostOf(o[n], DOMAIN o[n]) = CostOf(lots, 1 .. n)
             /\ FifoSorted(lots) => FifoSorted(o[n])
           Missing == {n \in 0 .. Len(lots) : ~Kept(n)}
<1>0. Len(lots) \in Nat /\ DOMAIN lots = 1 .. Len(lots) /\ \A k \in DOMAIN lots : lots[k] \in Lot
  OBVIOUS
<1>2. Kept(0)
  <2>1. o[0] = <<>>
    BY <1>0, <1>1 DEF OpenUpto
  <2>2. QtyOf(o[0], DOMAIN o[0]) = 0 /\ CostOf(o[0], DOMAIN o[0]) = 0
    BY <2>1, TotalEmpty DEF QtyOf, CostOf
  <2>3. QtyOf(lots, 1 .. 0) = 0 /\ CostOf(lots, 1 .. 0) = 0
    <3>1. 1 .. 0 = {}
      OBVIOUS
    <3> QED BY <3>1, TotalEmpty DEF QtyOf, CostOf
  <2> QED BY <2>1, <2>2, <2>3 DEF FifoSorted
<1>3. ASSUME NEW n \in 1 .. Len(lots), Kept(n - 1) PROVE Kept(n)
  <2> DEFINE before == o[n - 1]
             more == Append(before, lots[n])
  <2>0. n \in DOMAIN lots /\ n - 1 \in Nat /\ n \in 0 .. Len(lots)
    BY <1>0
  <2>1. before \in Seq(Lot) /\ lots[n] \in Lot
    BY <1>0, <1>3
  <2>2. QtyOf(lots, 1 .. n) = QtyOf(lots, 1 .. n - 1) + lots[n].qty
        /\ CostOf(lots, 1 .. n) = CostOf(lots, 1 .. n - 1) + lots[n].cost
    <3> DEFINE q == [k \in DOMAIN lots |-> lots[k].qty]
               c == [k \in DOMAIN lots |-> lots[k].cost]
               K == 1 .. n - 1
    <3>1. 1 .. n = K \cup {n} /\ n \notin K /\ IsFiniteSet(K) /\ K \subseteq DOMAIN lots
      <4>1. IsFiniteSet(K)
        BY <2>0, FS_Interval
      <4>2. 1 .. n = K \cup {n} /\ n \notin K
        BY <2>0
      <4>3. K \subseteq DOMAIN lots
        BY <2>0, <1>0
      <4> QED BY <4>1, <4>2, <4>3
    <3>2. \A k \in DOMAIN lots : q[k] \in Int /\ c[k] \in Int
      <4>1. \A k \in DOMAIN lots : lots[k].qty \in Int /\ lots[k].cost \in Int
        BY <1>0, SMTT(30) DEF Lot
      <4> QED BY <4>1
    <3>3. q[n] = lots[n].qty /\ c[n] = lots[n].cost
      BY <2>0
    <3> HIDE DEF q, c, K
    <3>4. \A k \in K : q[k] \in Int /\ c[k] \in Int
      BY <3>1, <3>2
    <3>5. q[n] \in Int /\ c[n] \in Int
      BY <2>0, <3>2
    <3>6. Total(q, K \cup {n}) = Total(q, K) + q[n]
      BY <3>1, <3>4, <3>5, TotalAdd
    <3>7. Total(c, K \cup {n}) = Total(c, K) + c[n]
      BY <3>1, <3>4, <3>5, TotalAdd
    <3>8. QtyOf(lots, 1 .. n) = Total(q, K \cup {n}) /\ CostOf(lots, 1 .. n) = Total(c, K \cup {n})
      BY <3>1 DEF QtyOf, CostOf, q, c
    <3>9. QtyOf(lots, 1 .. n - 1) = Total(q, K) /\ CostOf(lots, 1 .. n - 1) = Total(c, K)
      BY DEF QtyOf, CostOf, q, c, K
    <3> QED BY <3>3, <3>6, <3>7, <3>8, <3>9
  <2>3. CASE lots[n].qty > 0
    <3>1. o[n] = more
      BY <1>0, <1>1, <2>0, <2>3, SMTT(30) DEF OpenUpto
    <3>2. /\ more \in Seq(Lot)
          /\ QtyOf(more, DOMAIN more) = QtyOf(before, DOMAIN before) + lots[n].qty
          /\ CostOf(more, DOMAIN more) = CostOf(before, DOMAIN before) + lots[n].cost
      <4> HIDE DEF before
      <4> QED BY <2>1, LotAppended
    <3>3. \A k \in DOMAIN more : \/ k \in DOMAIN before /\ more[k] = before[k]
                                 \/ k = Len(before) + 1 /\ more[k] = lots[n]
      <4> HIDE DEF before
      <4> QED BY <2>1
    <3>4. \A k \in DOMAIN more : more[k].qty > 0
      BY <1>3, <2>3, <3>3
    <3>5. \A k \in DOMAIN more : \E j \in 1 .. n : more[k] = lots[j]
      <4>1. \A k \in DOMAIN before : \E j \in 1 .. n : before[k] = lots[j]
        BY <1>3
      <4>2. n \in 1 .. n
        OBVIOUS
      <4> HIDE DEF before, more
      <4> QED BY <3>3, <4>1, <4>2
    <3>6. ASSUME FifoSorted(lots) PROVE FifoSorted(more)
      <4> SUFFICES ASSUME NEW i \in DOMAIN more, NEW j \in DOMAIN more, i < j
                   PROVE  FifoBefore(more[i], more[j])
        BY DEF FifoSorted
      <4>1. i \in DOMAIN before /\ more[i] = before[i]
        <5> HIDE DEF before
        <5> QED BY <2>1
      <4>2. CASE j \in DOMAIN before
        <5>1. more[j] = before[j]
          <6> HIDE DEF before
          <6> QED BY <2>1, <4>2
        <5>2. FifoSorted(before)
          BY <1>3, <3>6
        <5> HIDE DEF before, more
        <5> QED BY <4>1, <4>2, <5>1, <5>2 DEF FifoSorted
      <4>3. CASE j \notin DOMAIN before
        <5>1. more[j] = lots[n]
          BY <3>3, <4>3
        <5>2. PICK m \in 1 .. n - 1 : before[i] = lots[m]
          BY <4>1, <1>3
        <5>3. m \in DOMAIN lots /\ m < n
          BY <2>0, <1>0
        <5>4. FifoBefore(lots[m], lots[n])
          BY <5>3, <2>0, <3>6 DEF FifoSorted
        <5> HIDE DEF before, more
        <5> QED BY <4>1, <5>1, <5>2, <5>4
      <4> QED BY <4>2, <4>3
    <3>7. QtyOf(before, DOMAIN before) = QtyOf(lots, 1 .. n - 1)
          /\ CostOf(before, DOMAIN before) = CostOf(lots, 1 .. n - 1)
      BY <1>3
    <3> HIDE DEF before, more
    <3> QED BY <2>2, <3>1, <3>2, <3>4, <3>5, <3>6, <3>7
  <2>4. CASE ~(lots[n].qty > 0)
    <3>0. lots[n].qty \in Nat
      BY <2>0, <1>0 DEF Lot
    <3>1. o[n] = before
      <4>1. OpenUpto(lots, o)[n] = before
        BY <2>0, <2>4 DEF OpenUpto
      <4> QED BY <1>1, <4>1
    <3>2. lots[n].qty = 0 /\ lots[n].cost = 0
      <4> HIDE DEF before
      <4> QED BY <2>0, <2>4, <3>0
    <3>3. QtyOf(lots, 1 .. n - 1) \in Nat /\ CostOf(lots, 1 .. n - 1) \in Nat
      <4>1. 1 .. n - 1 \in SUBSET DOMAIN lots
        BY <1>0, <2>0
      <4> QED BY <4>1, QtyTotals
    <3>4. \A k \in DOMAIN before : \E j \in 1 .. n : before[k] = lots[j]
      BY <1>3
    <3>5. /\ QtyOf(lots, 1 .. n) = QtyOf(lots, 1 .. n - 1)
          /\ CostOf(lots, 1 .. n) = CostOf(lots, 1 .. n - 1)
      BY <2>2, <3>2, <3>3
    <3>6. /\ \A k \in DOMAIN before : before[k].qty > 0
          /\ QtyOf(before, DOMAIN before) = QtyOf(lots, 1 .. n - 1)
          /\ CostOf(before, DOMAIN before) = CostOf(lots, 1 .. n - 1)
          /\ FifoSorted(lots) => FifoSorted(before)
      BY <1>3
    <3> HIDE DEF before
    <3> QED BY <2>1, <3>1, <3>4, <3>5, <3>6
  <2> QED BY <2>3, <2>4
<1>4. Missing = {}
  <2> SUFFICES ASSUME Missing # {} PROVE FALSE
    OBVIOUS
  <2> HIDE DEF Kept
  <2>1. PICK n \in Missing : \A m \in Missing : n <= m
    <3>1. Missing \in SUBSET Nat
      BY <1>0
    <3> HIDE DEF Missing
    <3> QED BY <3>1, LeastElement
  <2>2. n # 0
    BY <1>2
  <2>3. n - 1 \in 0 .. Len(lots) /\ ~(n <= n - 1) /\ n \in 1 .. Len(lots)
    BY <2>2, <1>0
  <2>4. Kept(n - 1)
    BY <2>1, <2>3
  <2> QED BY <1>3, <2>3, <2>4
<1>5. Kept(Len(lots))
  <2> HIDE DEF Kept
  <2> QED BY <1>0, <1>4
<1> QED BY <1>0, <1>1, <1>5

-------------------------------------------------------------------------------
\* Dividing.

\* Division rounds down.
LEMMA Divided ==
    ASSUME NEW a \in Nat, NEW b \in Nat, b > 0
    PROVE  a \div b \in Nat /\ b * (a \div b) <= a /\ a < b * (a \div b) + b
OBVIOUS

\* A part of the shares of a lot costs a part of its cost, all of them all of it.
LEMMA CostOfPart ==
    ASSUME NEW lot \in Lot, lot.qty > 0, NEW n \in 0 .. lot.qty
    PROVE  /\ CostOfShares(lot, n) \in 0 .. lot.cost
           /\ n = 0 => CostOfShares(lot, n) = 0
           /\ n = lot.qty => CostOfShares(lot, n) = lot.cost
<1> DEFINE q == lot.qty
           c == lot.cost
           d == (n * c) \div q
<1>1. q \in Nat /\ q > 0 /\ c \in Nat /\ n \in Nat /\ n <= q
  BY DEF Lot
<1>2. CostOfShares(lot, n) = d
  BY DEF CostOfShares
<1> HIDE DEF q, c
<1>3. n * c \in Nat /\ n * c <= q * c
  BY <1>1
<1>4. d \in Nat /\ q * d <= n * c /\ n * c < q * d + q
  <2> DEFINE a == n * c
  <2> HIDE DEF a
  <2>1. a \in Nat
    BY <1>3 DEF a
  <2>2. a \div q \in Nat /\ q * (a \div q) <= a /\ a < q * (a \div q) + q
    BY <1>1, <2>1, Divided
  <2> QED BY <2>2 DEF a
<1> HIDE DEF d
<1>5. d <= c
  <2> SUFFICES ASSUME d >= c + 1 PROVE FALSE
    BY <1>1, <1>4
  <2>1. q * d >= q * (c + 1) /\ q * (c + 1) = q * c + q
    BY <1>1, <1>4
  <2> QED BY <1>1, <1>3, <1>4, <2>1
<1>6. n = q => d = c
  <2> SUFFICES ASSUME n = q, d <= c - 1 PROVE FALSE
    BY <1>1, <1>4, <1>5
  <2>1. q * d <= q * (c - 1) /\ q * (c - 1) = q * c - q
    BY <1>1, <1>4
  <2> QED BY <1>1, <1>3, <1>4, <2>1
<1>7. n = 0 => d = 0
  <2> SUFFICES ASSUME n = 0, d >= 1 PROVE FALSE
    BY <1>4
  <2>1. n * c = 0 /\ q * d >= q
    BY <1>1, <1>4
  <2> QED BY <1>1, <1>4, <2>1
<1> QED BY <1>1, <1>2, <1>4, <1>5, <1>6, <1>7 DEF q, c

-------------------------------------------------------------------------------
\* Selling first in, first out.

\* A book is a part of the lots.
LEMMA BookInDomain == \A lots, custody : BookLots(lots, custody) \in SUBSET DOMAIN lots
BY DEF BookLots

\* In a sorted book the earlier lots are those before.
LEMMA TakenInOrder ==
    ASSUME NEW lots \in Seq(Lot), FifoSorted(lots), NEW custody, NEW qty \in Nat,
           NEW k \in BookLots(lots, custody)
    PROVE  LET earlier == QtyOf(lots, BookLots(lots, custody) \cap 1 .. k - 1)
           IN  /\ earlier \in Nat
               /\ Taken(lots, custody, qty, k) =
                    IF qty <= earlier THEN 0
                    ELSE IF qty - earlier < lots[k].qty THEN qty - earlier ELSE lots[k].qty
<1> DEFINE B == BookLots(lots, custody)
           E == {j \in B : FifoBefore(lots[j], lots[k])}
           F == B \cap 1 .. k - 1
<1>0. B \subseteq DOMAIN lots /\ DOMAIN lots = 1 .. Len(lots) /\ Len(lots) \in Nat /\ k \in DOMAIN lots
      /\ \A j \in DOMAIN lots : lots[j] \in Lot
  BY BookInDomain
<1>1. E = F
  <2>1. ASSUME NEW j \in B, j < k PROVE FifoBefore(lots[j], lots[k])
    BY <1>0, <2>1 DEF FifoSorted
  <2>2. ASSUME NEW j \in B, ~(j < k) PROVE ~FifoBefore(lots[j], lots[k])
    <3>1. lots[j].acquired \in Nat /\ lots[j].source \in Nat /\ lots[k].acquired \in Nat /\ lots[k].source \in Nat
      BY <1>0 DEF Lot
    <3>2. CASE j = k
      BY <3>1, <3>2 DEF FifoBefore
    <3>3. CASE j # k
      <4>1. k < j
        BY <1>0, <2>2, <3>3
      <4>2. FifoBefore(lots[k], lots[j])
        BY <1>0, <4>1 DEF FifoSorted
      <4> QED BY <3>1, <4>2 DEF FifoBefore
    <3> QED BY <3>2, <3>3
  <2>3. \A j \in B : j < k <=> j \in 1 .. k - 1
    BY <1>0
  <2> HIDE DEF B
  <2> QED BY <2>1, <2>2, <2>3
<1>2. QtyOf(lots, F) \in Nat
  <2>1. F \in SUBSET DOMAIN lots
    BY <1>0
  <2> QED BY <2>1, QtyTotals
<1>3. Taken(lots, custody, qty, k) =
        IF qty - QtyOf(lots, E) <= 0 THEN 0
        ELSE IF qty - QtyOf(lots, E) < lots[k].qty THEN qty - QtyOf(lots, E) ELSE lots[k].qty
  BY DEF Taken
<1>4. QtyOf(lots, E) = QtyOf(lots, F)
  BY <1>1
<1> HIDE DEF E, F
<1>5. Taken(lots, custody, qty, k) =
        IF qty <= QtyOf(lots, F) THEN 0
        ELSE IF qty - QtyOf(lots, F) < lots[k].qty THEN qty - QtyOf(lots, F) ELSE lots[k].qty
  BY <1>2, <1>3, <1>4
<1> QED BY <1>2, <1>5 DEF F, B

\* A sale takes from a lot at most what it holds, from its own book only.
LEMMA TakenRange ==
    ASSUME NEW lots \in Seq(Lot), FifoSorted(lots), NEW custody, NEW qty \in Nat, NEW k \in DOMAIN lots
    PROVE  /\ Taken(lots, custody, qty, k) \in 0 .. lots[k].qty
           /\ k \notin BookLots(lots, custody) => Taken(lots, custody, qty, k) = 0
<1>1. lots[k].qty \in Nat
  <2>1. lots[k] \in Lot
    OBVIOUS
  <2> QED BY <2>1 DEF Lot
<1>2. CASE k \in BookLots(lots, custody)
  <2> DEFINE earlier == QtyOf(lots, BookLots(lots, custody) \cap 1 .. k - 1)
  <2>1. /\ earlier \in Nat
        /\ Taken(lots, custody, qty, k) =
             IF qty <= earlier THEN 0
             ELSE IF qty - earlier < lots[k].qty THEN qty - earlier ELSE lots[k].qty
    BY <1>2, TakenInOrder
  <2> HIDE DEF earlier
  <2> QED BY <1>1, <1>2, <2>1
<1>3. CASE k \notin BookLots(lots, custody)
  BY <1>1, <1>3 DEF Taken
<1> QED BY <1>2, <1>3

\* As many shares are taken as are sold, if the book has them.
LEMMA TakesAll ==
    ASSUME NEW lots \in Seq(Lot), FifoSorted(lots), NEW custody, NEW qty \in Nat,
           qty <= Held(lots, custody)
    PROVE  Total([k \in DOMAIN lots |-> Taken(lots, custody, qty, k)], DOMAIN lots) = qty
<1> DEFINE B == BookLots(lots, custody)
           t == [k \in DOMAIN lots |-> Taken(lots, custody, qty, k)]
           q == [k \in DOMAIN lots |-> lots[k].qty]
           Part(n) == B \cap 1 .. n
           Least(n) == IF qty <= Total(q, Part(n)) THEN qty ELSE Total(q, Part(n))
           Right(n) == Total(t, Part(n)) = Least(n)
           Missing == {n \in 0 .. Len(lots) : ~Right(n)}
<1>0. B \subseteq DOMAIN lots /\ DOMAIN lots = 1 .. Len(lots) /\ Len(lots) \in Nat
      /\ IsFiniteSet(DOMAIN lots) /\ \A j \in DOMAIN lots : lots[j] \in Lot
  BY BookInDomain, FiniteDomain
<1>1. \A k \in DOMAIN lots : q[k] = lots[k].qty /\ q[k] \in Nat /\ t[k] \in 0 .. q[k]
  <2>1. \A k \in DOMAIN lots : Taken(lots, custody, qty, k) \in 0 .. lots[k].qty
    BY TakenRange
  <2>2. \A k \in DOMAIN lots : lots[k].qty \in Nat
    BY <1>0 DEF Lot
  <2> QED BY <2>1, <2>2
<1>2. \A n \in Int : Part(n) \in SUBSET DOMAIN lots /\ IsFiniteSet(Part(n))
                     /\ Total(q, Part(n)) \in Nat /\ Total(t, Part(n)) \in Int
  <2> SUFFICES ASSUME NEW n \in Int
               PROVE  Part(n) \in SUBSET DOMAIN lots /\ IsFiniteSet(Part(n))
                      /\ Total(q, Part(n)) \in Nat /\ Total(t, Part(n)) \in Int
    OBVIOUS
  <2>1. Part(n) \in SUBSET DOMAIN lots
    BY <1>0
  <2>2. IsFiniteSet(Part(n))
    BY <1>0, <2>1, FS_Subset
  <2>3. \A k \in DOMAIN lots : q[k] \in Nat /\ t[k] \in Int
    BY <1>1
  <2> HIDE DEF q, t, Part
  <2>4. Total(q, Part(n)) \in Nat
    BY <1>0, <2>1, <2>3, TotalNat
  <2>5. Total(t, Part(n)) \in Int
    BY <1>0, <2>1, <2>3, TotalInt
  <2> QED BY <2>1, <2>2, <2>4, <2>5
<1>3. Right(0)
  <2>1. Part(0) = {}
    OBVIOUS
  <2>2. Total(q, Part(0)) = 0 /\ Total(t, Part(0)) = 0
    <3> HIDE DEF Part, q, t
    <3> QED BY <2>1, TotalEmpty
  <2> HIDE DEF Part, q, t
  <2> QED BY <2>2
<1>4. ASSUME NEW n \in 1 .. Len(lots), Right(n - 1) PROVE Right(n)
  <2>0. n \in DOMAIN lots /\ n \in Int /\ n - 1 \in Int
    BY <1>0
  <2>1. CASE n \in B
    <3>1. Part(n) = Part(n - 1) \cup {n} /\ n \notin Part(n - 1)
      BY <2>0, <2>1, <1>0
    <3>2. IsFiniteSet(Part(n - 1)) /\ Part(n - 1) \in SUBSET DOMAIN lots
      BY <1>2, <2>0
    <3>3. q[n] \in Int /\ t[n] \in Int /\ \A k \in Part(n - 1) : q[k] \in Int /\ t[k] \in Int
      BY <1>1, <2>0, <3>2
    <3>4. t[n] = IF qty <= Total(q, Part(n - 1)) THEN 0
                 ELSE IF qty - Total(q, Part(n - 1)) < q[n] THEN qty - Total(q, Part(n - 1)) ELSE q[n]
      <4>1. QtyOf(lots, B \cap 1 .. n - 1) = Total(q, Part(n - 1))
        BY DEF QtyOf
      <4>2. Taken(lots, custody, qty, n) =
              IF qty <= QtyOf(lots, B \cap 1 .. n - 1) THEN 0
              ELSE IF qty - QtyOf(lots, B \cap 1 .. n - 1) < lots[n].qty
                   THEN qty - QtyOf(lots, B \cap 1 .. n - 1) ELSE lots[n].qty
        BY <2>1, TakenInOrder
      <4>3. t[n] = Taken(lots, custody, qty, n) /\ q[n] = lots[n].qty
        BY <2>0
      <4> HIDE DEF t, q, Part
      <4> QED BY <4>1, <4>2, <4>3
    <3>5. Total(q, Part(n - 1)) \in Nat /\ Total(t, Part(n - 1)) \in Int
      BY <1>2, <2>0
    <3>6. Total(t, Part(n - 1)) = Least(n - 1)
      BY <1>4
    <3>7. q[n] \in Nat
      BY <1>1, <2>0
    <3> HIDE DEF t, q, Part
    <3>8. Total(q, Part(n)) = Total(q, Part(n - 1)) + q[n]
      <4>1. Total(q, Part(n - 1) \cup {n}) = Total(q, Part(n - 1)) + q[n]
        BY <3>1, <3>2, <3>3, TotalAdd
      <4> QED BY <3>1, <4>1
    <3>9. Total(t, Part(n)) = Total(t, Part(n - 1)) + t[n]
      <4>1. Total(t, Part(n - 1) \cup {n}) = Total(t, Part(n - 1)) + t[n]
        BY <3>1, <3>2, <3>3, TotalAdd
      <4> QED BY <3>1, <4>1
    <3> QED BY <3>4, <3>5, <3>6, <3>7, <3>8, <3>9
  <2>2. CASE n \notin B
    <3>1. Part(n) = Part(n - 1)
      BY <2>0, <2>2, <1>0
    <3> HIDE DEF Part, t, q
    <3> QED BY <3>1, <1>4
  <2> QED BY <2>1, <2>2
<1>5. Missing = {}
  <2> SUFFICES ASSUME Missing # {} PROVE FALSE
    OBVIOUS
  <2> HIDE DEF Right
  <2>1. PICK n \in Missing : \A m \in Missing : n <= m
    <3>1. Missing \in SUBSET Nat
      BY <1>0
    <3> HIDE DEF Missing
    <3> QED BY <3>1, LeastElement
  <2>2. n # 0
    BY <1>3
  <2>3. n - 1 \in 0 .. Len(lots) /\ ~(n <= n - 1) /\ n \in 1 .. Len(lots)
    BY <2>2, <1>0
  <2>4. Right(n - 1)
    BY <2>1, <2>3
  <2> QED BY <1>4, <2>3, <2>4
<1>6. Right(Len(lots))
  <2> HIDE DEF Right
  <2> QED BY <1>0, <1>5
<1>7. Part(Len(lots)) = B /\ DOMAIN lots \cap B = B
  BY <1>0
<1>8. Total(q, B) = Held(lots, custody)
  BY DEF Held, QtyOf
<1>9. Total(t, B) = qty
  <2>1. Total(q, B) \in Nat
    <3>0. Len(lots) \in Int
      BY <1>0
    <3>1. Total(q, Part(Len(lots))) \in Nat
      <4> HIDE DEF Part, q, t
      <4> QED BY <1>2, <3>0
    <3> HIDE DEF Part, q, B
    <3> QED BY <3>1, <1>7
  <2> HIDE DEF Part, t, q, B
  <2> QED BY <1>6, <1>7, <1>8, <2>1
<1>10. Total(t, DOMAIN lots \cap B) = Total(t, DOMAIN lots)
  <2>1. \A k \in DOMAIN lots : t[k] \in Int /\ t[k] = IF k \in B THEN t[k] ELSE 0
    <3>1. \A k \in DOMAIN lots : k \notin B => Taken(lots, custody, qty, k) = 0
      BY TakenRange
    <3> QED BY <1>1, <3>1
  <2> DEFINE D == DOMAIN lots
  <2>2. IsFiniteSet(D) /\ \A k \in D : t[k] \in Int /\ t[k] = IF k \in B THEN t[k] ELSE 0
    BY <1>0, <2>1
  <2> HIDE DEF t, B, D
  <2>3. Total(t, D \cap B) = Total(t, D)
    BY <2>2, TotalRestrict
  <2> QED BY <2>3 DEF D
<1> HIDE DEF B
<1> QED BY <1>7, <1>9, <1>10

-------------------------------------------------------------------------------
\* Positions.

\* The lots add up, in the order in which events up to the n-th, of day d, opened them.
Sound(p, d, n) ==
    /\ p \in Position
    /\ p.shares = QtyOf(p.lots, DOMAIN p.lots)
    /\ p.cost = CostOf(p.lots, DOMAIN p.lots)
    /\ \A k \in DOMAIN p.lots : p.lots[k].qty > 0
    /\ FifoSorted(p.lots)
    /\ \A k \in DOMAIN p.lots : p.lots[k].acquired <= d /\ p.lots[k].source <= n

\* The position with nothing in it.
LEMMA EmptySound == \A d, n : Sound(EmptyPosition, d, n)
<1>1. EmptyPosition \in Position
  BY DEF EmptyPosition, Position
<1>2. EmptyPosition.lots = <<>> /\ EmptyPosition.shares = 0 /\ EmptyPosition.cost = 0
  BY DEF EmptyPosition
<1>3. DOMAIN EmptyPosition.lots = {}
  BY <1>2
<1>4. QtyOf(EmptyPosition.lots, {}) = 0 /\ CostOf(EmptyPosition.lots, {}) = 0
  BY TotalEmpty DEF QtyOf, CostOf
<1> QED BY <1>1, <1>2, <1>3, <1>4 DEF Sound, FifoSorted

\* A purchase opens a lot behind the others.
LEMMA LotAdded ==
    ASSUME NEW d \in Nat, NEW n \in Nat, NEW p, Sound(p, d, n), NEW cost \in Nat,
           NEW e \in Events, e.date >= d, e.id = n + 1, e.qty > 0
    PROVE  Sound(AddLot(p, e, cost), e.date, n + 1) /\ AddLot(p, e, cost).cost = p.cost + cost
<1> DEFINE lot == NewLot(e, cost)
           q == AddLot(p, e, cost)
           more == Append(p.lots, lot)
<1>0. p.lots \in Seq(Lot) /\ p.shares \in Nat /\ p.cost \in Nat
  BY DEF Sound, Position
<1>1. lot \in Lot /\ lot.qty = e.qty /\ lot.cost = cost /\ lot.acquired = e.date /\ lot.source = n + 1
      /\ e.qty \in Nat /\ e.date \in Nat
  BY DEF NewLot, Lot, Events
<1>2. q = [shares |-> p.shares + e.qty, cost |-> p.cost + cost, lots |-> more]
  BY DEF AddLot
<1> HIDE DEF lot, q
<1>3. /\ more \in Seq(Lot)
      /\ QtyOf(more, DOMAIN more) = QtyOf(p.lots, DOMAIN p.lots) + e.qty
      /\ CostOf(more, DOMAIN more) = CostOf(p.lots, DOMAIN p.lots) + cost
  BY <1>0, <1>1, LotAppended
<1>4. \A k \in DOMAIN more : \/ k \in DOMAIN p.lots /\ more[k] = p.lots[k]
                             \/ k = Len(p.lots) + 1 /\ more[k] = lot
  BY <1>0
<1>5. \A k \in DOMAIN p.lots : /\ p.lots[k].qty > 0
                              /\ p.lots[k].acquired <= d /\ p.lots[k].source <= n
                              /\ p.lots[k].acquired \in Nat /\ p.lots[k].source \in Nat
  <2>1. \A k \in DOMAIN p.lots : p.lots[k] \in Lot
    BY <1>0
  <2> QED BY <2>1 DEF Sound, Lot
<1>6. \A k \in DOMAIN more : more[k].qty > 0 /\ more[k].acquired <= e.date /\ more[k].source <= n + 1
  BY <1>1, <1>4, <1>5
<1>7. FifoSorted(more)
  <2> SUFFICES ASSUME NEW i \in DOMAIN more, NEW j \in DOMAIN more, i < j
               PROVE  FifoBefore(more[i], more[j])
    BY DEF FifoSorted
  <2>1. i \in DOMAIN p.lots /\ more[i] = p.lots[i]
    BY <1>0
  <2>2. CASE j \in DOMAIN p.lots
    <3>1. more[j] = p.lots[j] /\ FifoSorted(p.lots)
      BY <1>0, <2>2 DEF Sound
    <3> QED BY <2>1, <2>2, <3>1 DEF FifoSorted
  <2>3. CASE j \notin DOMAIN p.lots
    <3>1. more[j] = lot
      BY <1>4, <2>3
    <3> QED BY <1>1, <1>5, <2>1, <3>1 DEF FifoBefore
  <2> QED BY <2>2, <2>3
<1>8. p.shares = QtyOf(p.lots, DOMAIN p.lots) /\ p.cost = CostOf(p.lots, DOMAIN p.lots)
  BY DEF Sound
<1> HIDE DEF more
<1>9. q \in Position /\ q.lots = more /\ q.shares = p.shares + e.qty /\ q.cost = p.cost + cost
  BY <1>0, <1>1, <1>2, <1>3 DEF Position
<1>10. Sound(q, e.date, n + 1)
  BY <1>3, <1>6, <1>7, <1>8, <1>9 DEF Sound
<1> QED BY <1>9, <1>10 DEF q

Without(lot, m, b) == [lot EXCEPT !.qty = @ - m, !.cost = @ - b]

\* A lot that gives up shares and cost.
LEMMA LotReduced ==
    ASSUME NEW lot \in Lot, NEW m \in 0 .. lot.qty, NEW b \in 0 .. lot.cost
    PROVE  /\ Without(lot, m, b) \in Lot
           /\ Without(lot, m, b).qty = lot.qty - m /\ Without(lot, m, b).cost = lot.cost - b
           /\ Without(lot, m, b).acquired = lot.acquired /\ Without(lot, m, b).source = lot.source
<1>1. lot.qty \in Nat /\ lot.cost \in Nat
  BY DEF Lot
<1>2. lot.qty - m \in Nat /\ lot.cost - b \in Nat
  BY <1>1
<1> QED BY <1>2 DEF Lot, Without

\* Natural numbers that add up to zero are all zero.
LEMMA NothingLeft ==
    ASSUME NEW K, IsFiniteSet(K), NEW f, \A y \in K : f[y] \in Nat, NEW x \in K
    PROVE  Total(f, K) = 0 => f[x] = 0
<1>1. \A y \in K : f[y] \in Int
  OBVIOUS
<1>2. K \in SUBSET K /\ K \ {x} \in SUBSET K
  OBVIOUS
<1>3. Total(f, K) = f[x] + Total(f, K \ {x})
  BY <1>1, <1>2, TotalRemove
<1>4. Total(f, K \ {x}) \in Nat
  BY <1>2, TotalNat
<1> DEFINE sum == Total(f, K)
           rest == Total(f, K \ {x})
<1>5. sum = f[x] + rest /\ rest \in Nat /\ f[x] \in Nat
  BY <1>3, <1>4
<1> HIDE DEF sum, rest
<1>6. sum = 0 => f[x] = 0
  BY <1>5
<1> QED BY <1>6 DEF sum

\* A sale takes its shares and their cost out of the lots and out of the totals.
LEMMA LotsConsumed ==
    ASSUME NEW d \in Nat, NEW n \in Nat, NEW p, Sound(p, d, n), NEW custody, NEW qty \in Nat,
           qty <= p.shares, qty <= Held(p.lots, custody)
    PROVE  LET disposed == DisposedCost(p.lots, custody, qty)
           IN  /\ disposed \in 0 .. p.cost
               /\ Sound(ConsumeFifo(p, qty, custody), d, n)
               /\ ConsumeFifo(p, qty, custody).cost = p.cost - disposed
<1> DEFINE lots == p.lots
           D == DOMAIN lots
           t == [k \in D |-> Taken(lots, custody, qty, k)]
           c == [k \in D |-> CostOfShares(lots[k], Taken(lots, custody, qty, k))]
           disposed == Total(c, D)
           left == [k \in D |-> LET m == Taken(lots, custody, qty, k)
                                IN  [lots[k] EXCEPT !.qty = @ - m, !.cost = @ - CostOfShares(lots[k], m)]]
           open == OpenLots(left)
           q0 == [k \in D |-> lots[k].qty]
           c0 == [k \in D |-> lots[k].cost]
           q1 == [k \in D |-> left[k].qty]
           c1 == [k \in D |-> left[k].cost]
<1>0. /\ lots \in Seq(Lot) /\ p.shares \in Nat /\ p.cost \in Nat /\ FifoSorted(lots)
      /\ p.shares = QtyOf(lots, D) /\ p.cost = CostOf(lots, D)
      /\ \A k \in D : lots[k].qty > 0 /\ lots[k].acquired <= d /\ lots[k].source <= n
  BY DEF Sound, Position
<1>1. IsFiniteSet(D) /\ D = 1 .. Len(lots) /\ Len(lots) \in Nat
  BY <1>0, FiniteDomain
<1>2. \A k \in D : lots[k] \in Lot /\ lots[k].qty \in Nat /\ lots[k].cost \in Nat
  <2>1. \A k \in D : lots[k] \in Lot
    BY <1>0
  <2> QED BY <2>1 DEF Lot
<1>3. \A k \in D : Taken(lots, custody, qty, k) \in 0 .. lots[k].qty
  <2> HIDE DEF lots
  <2> QED BY <1>0, TakenRange
<1>4. \A k \in D : LET m == Taken(lots, custody, qty, k)
                   IN  /\ CostOfShares(lots[k], m) \in 0 .. lots[k].cost
                       /\ m = lots[k].qty => CostOfShares(lots[k], m) = lots[k].cost
  <2> SUFFICES ASSUME NEW k \in D
               PROVE  LET m == Taken(lots, custody, qty, k)
                      IN  /\ CostOfShares(lots[k], m) \in 0 .. lots[k].cost
                          /\ m = lots[k].qty => CostOfShares(lots[k], m) = lots[k].cost
    OBVIOUS
  <2> DEFINE m == Taken(lots, custody, qty, k)
  <2>1. lots[k] \in Lot /\ lots[k].qty > 0 /\ m \in 0 .. lots[k].qty
    BY <1>0, <1>2, <1>3
  <2> HIDE DEF m, lots, D
  <2>2. /\ CostOfShares(lots[k], m) \in 0 .. lots[k].cost
        /\ m = lots[k].qty => CostOfShares(lots[k], m) = lots[k].cost
    BY <2>1, CostOfPart
  <2> QED BY <2>2 DEF m
<1>5. \A k \in D :
        /\ left[k] \in Lot
        /\ left[k].qty = q0[k] - t[k] /\ left[k].cost = c0[k] - c[k]
        /\ left[k].acquired = lots[k].acquired /\ left[k].source = lots[k].source
        /\ t[k] \in 0 .. q0[k] /\ c[k] \in 0 .. c0[k] /\ q0[k] \in Nat /\ c0[k] \in Nat
        /\ t[k] = q0[k] => c[k] = c0[k]
  <2> SUFFICES ASSUME NEW k \in D
               PROVE  /\ left[k] \in Lot
                      /\ left[k].qty = q0[k] - t[k] /\ left[k].cost = c0[k] - c[k]
                      /\ left[k].acquired = lots[k].acquired /\ left[k].source = lots[k].source
                      /\ t[k] \in 0 .. q0[k] /\ c[k] \in 0 .. c0[k] /\ q0[k] \in Nat /\ c0[k] \in Nat
                      /\ t[k] = q0[k] => c[k] = c0[k]
    OBVIOUS
  <2> DEFINE m == Taken(lots, custody, qty, k)
             b == CostOfShares(lots[k], m)
             rest == Without(lots[k], m, b)
  <2>1. /\ lots[k] \in Lot /\ m \in 0 .. lots[k].qty /\ b \in 0 .. lots[k].cost
        /\ m = lots[k].qty => b = lots[k].cost
        /\ lots[k].qty \in Nat /\ lots[k].cost \in Nat
    BY <1>2, <1>3, <1>4
  <2>2. left[k] = rest /\ t[k] = m /\ c[k] = b /\ q0[k] = lots[k].qty /\ c0[k] = lots[k].cost
    BY DEF Without
  <2> HIDE DEF m, b, left, t, c, q0, c0, lots, D
  <2>3. /\ rest \in Lot
        /\ rest.qty = lots[k].qty - m /\ rest.cost = lots[k].cost - b
        /\ rest.acquired = lots[k].acquired /\ rest.source = lots[k].source
    BY <2>1, LotReduced
  <2> QED BY <2>1, <2>2, <2>3
<1>6. left \in Seq(Lot) /\ DOMAIN left = D
  <2>1. \A k \in D : left[k] \in Lot
    BY <1>5
  <2>2. DOMAIN left = D /\ left = [k \in D |-> left[k]]
    OBVIOUS
  <2> HIDE DEF left, D
  <2>3. left \in [1 .. Len(lots) -> Lot]
    BY <1>1, <2>1, <2>2
  <2> QED BY <1>1, <2>2, <2>3
<1>7. FifoSorted(left)
  <2>1. \A i, j \in D : i < j => FifoBefore(lots[i], lots[j])
    BY <1>0 DEF FifoSorted
  <2>2. \A k \in D : left[k].acquired = lots[k].acquired /\ left[k].source = lots[k].source
    BY <1>5
  <2> HIDE DEF left, lots, D
  <2> QED BY <1>6, <2>1, <2>2 DEF FifoSorted, FifoBefore
<1>8. /\ open \in Seq(Lot)
      /\ \A k \in DOMAIN open : open[k].qty > 0
      /\ \A k \in DOMAIN open : \E j \in DOMAIN left : open[k] = left[j]
      /\ QtyOf(open, DOMAIN open) = QtyOf(left, DOMAIN left)
      /\ CostOf(open, DOMAIN open) = CostOf(left, DOMAIN left)
      /\ FifoSorted(open)
  <2>1. \A k \in DOMAIN left : left[k].qty = 0 => left[k].cost = 0
    <3> HIDE DEF left, t, c, q0, c0, D
    <3>1. \A k \in D : left[k].qty = q0[k] - t[k] /\ left[k].cost = c0[k] - c[k]
                       /\ t[k] \in Int /\ c[k] \in Int /\ q0[k] \in Nat /\ c0[k] \in Nat
                       /\ (t[k] = q0[k] => c[k] = c0[k])
      BY <1>5
    <3> QED BY <1>6, <3>1
  <2> HIDE DEF left
  <2> QED BY <1>6, <1>7, <2>1, OpenLotsKeep
<1>9. Total(t, D) = qty
  <2>1. p.lots \in Seq(Lot) /\ FifoSorted(p.lots)
    BY <1>0
  <2> QED BY <2>1, TakesAll
<1>10. /\ QtyOf(left, DOMAIN left) = p.shares - qty
       /\ CostOf(left, DOMAIN left) = p.cost - disposed
       /\ disposed \in 0 .. p.cost
  <2>1. \A k \in D : q1[k] \in Int /\ c1[k] \in Int /\ t[k] \in Int /\ c[k] \in Int /\ c0[k] \in Int
                     /\ q0[k] = q1[k] + t[k] /\ c0[k] = c1[k] + c[k] /\ c[k] \in Nat /\ c[k] <= c0[k]
    <3>0. \A k \in D : q1[k] = left[k].qty /\ c1[k] = left[k].cost
      <4> HIDE DEF left
      <4> QED OBVIOUS
    <3> HIDE DEF left, q1, c1, q0, c0, t, c, D
    <3>1. \A k \in D : q1[k] = q0[k] - t[k] /\ c1[k] = c0[k] - c[k]
      BY <1>5, <3>0
    <3>2. \A k \in D : t[k] \in Nat /\ c[k] \in Nat /\ q0[k] \in Nat /\ c0[k] \in Nat /\ c[k] <= c0[k]
      BY <1>5
    <3> QED BY <3>1, <3>2
  <2>2. /\ QtyOf(left, DOMAIN left) = Total(q1, D) /\ CostOf(left, DOMAIN left) = Total(c1, D)
        /\ QtyOf(lots, D) = Total(q0, D) /\ CostOf(lots, D) = Total(c0, D)
    BY <1>6 DEF QtyOf, CostOf
  <2> HIDE DEF q1, c1, q0, c0, t, c, D, left
  <2>3. Total(q0, D) = Total(q1, D) + Total(t, D)
    BY <1>1, <2>1, TotalPlus
  <2>4. Total(c0, D) = Total(c1, D) + Total(c, D)
    BY <1>1, <2>1, TotalPlus
  <2>5. D \in SUBSET D
    OBVIOUS
  <2>6. Total(c, D) \in Nat
    BY <1>1, <2>1, <2>5, TotalNat
  <2>7. Total(c, D) <= Total(c0, D)
    BY <1>1, <2>1, <2>5, TotalBelow
  <2>8. Total(q1, D) \in Int /\ Total(c1, D) \in Int
    BY <1>1, <2>1, <2>5, TotalInt
  <2> QED BY <1>0, <1>9, <2>2, <2>3, <2>4, <2>6, <2>7, <2>8
<1>11. DisposedCost(p.lots, custody, qty) = disposed
  BY DEF DisposedCost
<1>12. CASE p.shares = qty
  <2>1. ConsumeFifo(p, qty, custody) = EmptyPosition
    BY <1>12 DEF ConsumeFifo
  <2>2. disposed = p.cost
    <3>1. QtyOf(left, DOMAIN left) = 0
      <4> HIDE DEF left
      <4> QED BY <1>0, <1>10, <1>12
    <3>2. \A k \in D : left[k].qty = 0
      <4>1. \A k \in D : q1[k] \in Nat
        <5>1. \A k \in D : left[k] \in Lot
          BY <1>5
        <5>2. \A k \in D : left[k].qty \in Nat
          BY <5>1 DEF Lot
        <5> QED BY <5>2
      <4>2. Total(q1, D) = 0
        BY <1>6, <3>1 DEF QtyOf
      <4>3. \A k \in D : left[k].qty = q1[k]
        <5> HIDE DEF left
        <5> QED OBVIOUS
      <4> HIDE DEF q1, D, left
      <4>4. \A k \in D : q1[k] = 0
        BY <1>1, <4>1, <4>2, NothingLeft
      <4> QED BY <4>3, <4>4
    <3>3. \A k \in D : c[k] = c0[k]
      <4> HIDE DEF left, t, c, q0, c0, D
      <4>1. \A k \in D : left[k].qty = q0[k] - t[k] /\ t[k] \in Nat /\ q0[k] \in Nat
                         /\ (t[k] = q0[k] => c[k] = c0[k])
        BY <1>5
      <4> QED BY <3>2, <4>1
    <3>4. Total(c, D) = Total(c0, D)
      <4> HIDE DEF c, c0, D
      <4> QED BY <1>1, <3>3, TotalSame
    <3>5. Total(c0, D) = p.cost
      BY <1>0 DEF CostOf
    <3> QED BY <3>4, <3>5
  <2>3. EmptyPosition.cost = 0
    BY DEF EmptyPosition
  <2>4. Sound(EmptyPosition, d, n)
    BY EmptySound
  <2>5. disposed \in 0 .. p.cost
    BY <1>10
  <2>6. p.cost \in Nat
    BY DEF Sound, Position
  <2> HIDE DEF disposed
  <2>7. Sound(ConsumeFifo(p, qty, custody), d, n)
    BY <2>1, <2>4
  <2>8. ConsumeFifo(p, qty, custody).cost = p.cost - disposed
    BY <2>1, <2>2, <2>3, <2>6
  <2> QED BY <1>11, <2>5, <2>7, <2>8
<1>13. CASE p.shares # qty
  <2> DEFINE r == [shares |-> p.shares - qty, cost |-> p.cost - disposed, lots |-> open]
  <2>1. ConsumeFifo(p, qty, custody) = r
    BY <1>11, <1>13 DEF ConsumeFifo
  <2>2. \A k \in DOMAIN open : open[k].acquired <= d /\ open[k].source <= n
    <3>1. \A k \in D : left[k].acquired <= d /\ left[k].source <= n
      BY <1>0, <1>5
    <3> HIDE DEF left, open
    <3> QED BY <1>6, <1>8, <3>1
  <2> HIDE DEF left, open, disposed, lots, D
  <2>3. r \in Position /\ r.lots = open /\ r.shares = p.shares - qty /\ r.cost = p.cost - disposed
    BY <1>0, <1>8, <1>10 DEF Position
  <2>4. Sound(r, d, n)
    BY <1>8, <1>10, <2>2, <2>3 DEF Sound
  <2>5. disposed \in 0 .. p.cost
    BY <1>10
  <2> HIDE DEF r
  <2>6. Sound(ConsumeFifo(p, qty, custody), d, n)
    BY <2>1, <2>4
  <2>7. ConsumeFifo(p, qty, custody).cost = p.cost - disposed
    BY <2>1, <2>3
  <2> QED BY <1>11, <2>5, <2>6, <2>7
<1> QED BY <1>12, <1>13

\* A position whose lots change their number of shares and nothing else.
Resized(p, q, shares) ==
    [shares |-> shares, cost |-> p.cost,
     lots |-> [k \in DOMAIN p.lots |-> [p.lots[k] EXCEPT !.qty = q[k]]]]

\* A lot whose number of shares changes.
LEMMA LotResized ==
    ASSUME NEW lot \in Lot, NEW m \in Nat
    PROVE  LET sized == [lot EXCEPT !.qty = m]
           IN  /\ sized \in Lot /\ sized.qty = m /\ sized.cost = lot.cost
               /\ sized.acquired = lot.acquired /\ sized.source = lot.source
BY DEF Lot

\* A position stays sound when its total follows its lots.
LEMMA ResizedSound ==
    ASSUME NEW d \in Nat, NEW n \in Nat, NEW p, Sound(p, d, n), NEW q, NEW shares,
           \A k \in DOMAIN p.lots : q[k] \in Nat /\ q[k] > 0,
           shares = Total(q, DOMAIN p.lots)
    PROVE  Sound(Resized(p, q, shares), d, n)
<1> DEFINE lots == p.lots
           D == DOMAIN lots
           new == [k \in D |-> [lots[k] EXCEPT !.qty = q[k]]]
           q1 == [k \in D |-> new[k].qty]
           c1 == [k \in D |-> new[k].cost]
           c0 == [k \in D |-> lots[k].cost]
           r == [shares |-> shares, cost |-> p.cost, lots |-> new]
<1>0. /\ lots \in Seq(Lot) /\ p.shares \in Nat /\ p.cost \in Nat /\ FifoSorted(lots)
      /\ p.cost = CostOf(lots, D)
      /\ \A k \in D : lots[k].acquired <= d /\ lots[k].source <= n
  BY DEF Sound, Position
<1>1. IsFiniteSet(D) /\ D = 1 .. Len(lots) /\ Len(lots) \in Nat
  BY <1>0, FiniteDomain
<1>2. \A k \in D : lots[k] \in Lot
  BY <1>0
<1>3. \A k \in D : /\ new[k] \in Lot /\ new[k].qty = q[k] /\ new[k].cost = lots[k].cost
                   /\ new[k].acquired = lots[k].acquired /\ new[k].source = lots[k].source
  BY <1>2, LotResized
<1>4. DOMAIN new = D
  OBVIOUS
<1>5. /\ QtyOf(new, DOMAIN new) = Total(q1, D) /\ CostOf(new, DOMAIN new) = Total(c1, D)
      /\ CostOf(lots, D) = Total(c0, D)
  BY <1>4 DEF QtyOf, CostOf
<1>6. Resized(p, q, shares) = r
  BY DEF Resized
<1>7. \A k \in D : q1[k] = new[k].qty /\ c1[k] = new[k].cost /\ c0[k] = lots[k].cost
  OBVIOUS
<1> HIDE DEF new, q1, c1, c0, lots, D
<1>8. new \in Seq(Lot)
  <2>1. \A k \in 1 .. Len(lots) : new[k] \in Lot
    BY <1>1, <1>3
  <2>2. new = [k \in 1 .. Len(lots) |-> new[k]]
    BY <1>1, <1>4 DEF new
  <2> QED BY <1>1, <2>1, <2>2
<1>9. Total(q1, D) = Total(q, D)
  <2>1. \A k \in D : q1[k] = q[k]
    BY <1>3, <1>7
  <2> QED BY <1>1, <2>1, TotalSame
<1>10. Total(c1, D) = Total(c0, D)
  <2>1. \A k \in D : c1[k] = c0[k]
    BY <1>3, <1>7
  <2> QED BY <1>1, <2>1, TotalSame
<1>11. \A k \in D : new[k].qty \in Nat /\ new[k].qty > 0
  BY <1>3 DEF D, lots
<1>12. QtyOf(new, DOMAIN new) = shares
  BY <1>5, <1>9 DEF D, lots
<1>13. CostOf(new, DOMAIN new) = p.cost
  BY <1>0, <1>5, <1>10
<1>14. shares \in Nat
  BY <1>8, <1>12, QtyTotals
<1>15. FifoSorted(new)
  <2>1. \A i, j \in D : i < j => FifoBefore(lots[i], lots[j])
    BY <1>0 DEF FifoSorted, D
  <2> QED BY <1>3, <1>4, <2>1 DEF FifoSorted, FifoBefore
<1>16. r \in Position /\ r.lots = new /\ r.shares = shares /\ r.cost = p.cost
  BY <1>0, <1>8, <1>14 DEF Position
<1>17. \A k \in DOMAIN new : new[k].qty > 0 /\ new[k].acquired <= d /\ new[k].source <= n
  BY <1>0, <1>3, <1>4, <1>11
<1> HIDE DEF r
<1> QED BY <1>6, <1>12, <1>13, <1>15, <1>16, <1>17 DEF Sound

\* A change of the lots of one book changes the sum of all lots by as much.
LEMMA BookGrows ==
    ASSUME NEW D, IsFiniteSet(D), NEW B \in SUBSET D, NEW q0, NEW q1, NEW g,
           \A k \in D : q0[k] \in Int /\ q1[k] \in Int,
           \A k \in B : g[k] = q1[k] - q0[k],
           \A k \in D \ B : q1[k] = q0[k]
    PROVE  Total(q1, D) = Total(q0, D) + Total(g, B)
<1> DEFINE h == [k \in D |-> q1[k] - q0[k]]
           z == [k \in D |-> IF k \in B THEN h[k] ELSE 0]
<1>1. \A k \in D : h[k] = q1[k] - q0[k]
  OBVIOUS
<1>2. \A k \in D : z[k] = IF k \in B THEN h[k] ELSE 0
  OBVIOUS
<1>3. IsFiniteSet(B) /\ D \cap B = B
  BY FS_Subset
<1> HIDE DEF h, z
<1>4. \A k \in D : h[k] \in Int /\ q1[k] = q0[k] + h[k] /\ (k \notin B => h[k] = 0)
  BY <1>1
<1>5. Total(q1, D) = Total(q0, D) + Total(h, D)
  BY <1>4, TotalPlus
<1>6. \A k \in D : z[k] = h[k]
  BY <1>2, <1>4
<1>7. Total(z, D) = Total(h, D)
  BY <1>6, TotalSame
<1>8. Total(h, D \cap B) = Total(z, D)
  <2>1. \A k \in D : h[k] \in Int
    BY <1>1
  <2>2. \A S, e : (\A k \in D : e[k] = IF k \in S THEN h[k] ELSE 0) => Total(h, D \cap S) = Total(e, D)
    BY <2>1, TotalRestrict
  <2> QED BY <1>2, <2>2
<1>9. Total(g, B) = Total(h, B)
  <2>1. \A k \in B : g[k] = h[k]
    BY <1>1
  <2> QED BY <1>3, <2>1, TotalSame
<1> QED BY <1>3, <1>5, <1>7, <1>8, <1>9

\* A finite set of natural numbers has a maximum.
LEMMA MaxIn ==
    ASSUME NEW T \in SUBSET Nat, IsFiniteSet(T), T # {}
    PROVE  Max(T) \in T
<1> DEFINE Bounded(S) == \E x \in S : \A y \in S : x >= y
           G == {S \in SUBSET T : S # {} => Bounded(S)}
<1>1. ASSUME NEW S \in SUBSET T, \A R \in SUBSET S : R # S => R \in G
      PROVE  S \in G
  <2> SUFFICES ASSUME NEW z \in S PROVE Bounded(S)
    OBVIOUS
  <2>1. S \ {z} \in G
    BY <1>1
  <2>2. CASE S \ {z} = {}
    <3>1. \A y \in S : z >= y
      BY <2>2
    <3> QED BY <3>1
  <2>3. CASE S \ {z} # {}
    <3>1. PICK x \in S \ {z} : \A y \in S \ {z} : x >= y
      BY <2>1, <2>3
    <3>2. x \in Nat /\ z \in Nat /\ S \in SUBSET Nat
      OBVIOUS
    <3>3. CASE x >= z
      <4>1. \A y \in S : x >= y
        BY <3>1, <3>3
      <4> QED BY <3>1, <4>1
    <3>4. CASE ~(x >= z)
      <4>1. \A y \in S : z >= y
        BY <3>1, <3>2, <3>4
      <4> QED BY <4>1
    <3> QED BY <3>3, <3>4
  <2> QED BY <2>2, <2>3
<1>2. T \in G
  <2> HIDE DEF G
  <2>1. \A S \in SUBSET T : S \in G
    BY <1>1, SubsetInduction
  <2> QED BY <2>1
<1>3. \E x \in T : \A y \in T : x >= y
  BY <1>2
<1> QED BY <1>3 DEF Max

\* Exact division.
LEMMA Exact ==
    ASSUME NEW a \in Nat, NEW b \in Nat, b > 0, a % b = 0
    PROVE  a \div b \in Nat /\ b * (a \div b) = a
OBVIOUS

\* A split keeps the position sound and its cost.
LEMMA LotsSplit ==
    ASSUME NEW d \in Nat, NEW n \in Nat, NEW p, Sound(p, d, n), NEW custody,
           NEW ratio \in Nat \X Nat, ratio[1] > 0, ratio[2] > 0,
           \A k \in BookLots(p.lots, custody) : (p.lots[k].qty * ratio[1]) % ratio[2] = 0
    PROVE  /\ Sound(SplitLots(p, ratio, custody), d, n)
           /\ SplitLots(p, ratio, custody).cost = p.cost
<1> DEFINE lots == p.lots
           D == DOMAIN lots
           B == BookLots(lots, custody)
           grown(k) == IF k \in B THEN (lots[k].qty * ratio[1]) \div ratio[2] ELSE lots[k].qty
           q0 == [k \in D |-> lots[k].qty]
           q1 == [k \in D |-> grown(k)]
           g == [k \in B |-> grown(k) - lots[k].qty]
           new == [k \in D |-> [lots[k] EXCEPT !.qty = grown(k)]]
           shares == p.shares + Total(g, B)
<1>0. /\ lots \in Seq(Lot) /\ p.shares \in Nat /\ p.cost \in Nat
      /\ p.shares = QtyOf(lots, D) /\ \A k \in D : lots[k].qty > 0
      /\ p = [shares |-> p.shares, cost |-> p.cost, lots |-> lots]
  BY DEF Sound, Position
<1>1. IsFiniteSet(D) /\ B \in SUBSET D
  BY <1>0, FiniteDomain, BookInDomain
<1>2. \A k \in D : lots[k].qty \in Nat
  <2>1. \A k \in D : lots[k] \in Lot
    BY <1>0
  <2> QED BY <2>1 DEF Lot
<1>3. \A k \in D : grown(k) \in Nat /\ grown(k) > 0
  <2> SUFFICES ASSUME NEW k \in D PROVE grown(k) \in Nat /\ grown(k) > 0
    OBVIOUS
  <2> DEFINE a == lots[k].qty
             u == ratio[1]
             v == ratio[2]
             w == (a * u) \div v
  <2>1. a \in Nat /\ a > 0 /\ u \in Nat /\ v \in Nat /\ u > 0 /\ v > 0
    BY <1>0, <1>2
  <2>2. k \in B => (a * u) % v = 0
    OBVIOUS
  <2>3. grown(k) = IF k \in B THEN w ELSE a
    OBVIOUS
  <2> HIDE DEF a, u, v, B, lots, grown
  <2>4. a * u \in Nat /\ a * u > 0
    BY <2>1
  <2>5. ASSUME k \in B PROVE w \in Nat /\ v * w = a * u
    <3> DEFINE b == a * u
    <3>1. b \in Nat /\ b % v = 0
      BY <2>2, <2>4, <2>5
    <3> HIDE DEF b
    <3>2. b \div v \in Nat /\ v * (b \div v) = b
      BY <2>1, <3>1, Exact
    <3> QED BY <3>2 DEF b
  <2>6. ASSUME k \in B PROVE w > 0
    <3> HIDE DEF w
    <3>1. w # 0
      <4>1. w = 0 => v * w = 0
        BY <2>1
      <4> QED BY <2>4, <2>5, <2>6, <4>1
    <3> QED BY <2>5, <2>6, <3>1
  <2> HIDE DEF w
  <2> QED BY <2>1, <2>3, <2>5, <2>6
<1>4. SplitLots(p, ratio, custody) = [shares |-> shares, cost |-> p.cost, lots |-> new]
  <2>1. SplitLots(p, ratio, custody) = [p EXCEPT !.shares = shares, !.lots = new]
    BY DEF SplitLots
  <2> HIDE DEF shares, new
  <2> QED BY <1>0, <2>1
<1>5. [k \in D |-> [lots[k] EXCEPT !.qty = q1[k]]] = new
  OBVIOUS
<1>6. Resized(p, q1, shares) = [shares |-> shares, cost |-> p.cost, lots |-> new]
  BY <1>5 DEF Resized
<1>7. /\ \A k \in D : q0[k] = lots[k].qty /\ q1[k] = grown(k)
      /\ \A k \in B : g[k] = grown(k) - lots[k].qty
      /\ \A k \in D \ B : grown(k) = lots[k].qty
      /\ QtyOf(lots, D) = Total(q0, D)
  BY <1>1 DEF QtyOf
<1> HIDE DEF lots, D, B, grown, q0, q1, g, new
<1>8. Total(q1, D) = shares
  <2>1. \A k \in D : q0[k] \in Int /\ q1[k] \in Int
    BY <1>2, <1>3, <1>7
  <2>2. \A k \in B : g[k] = q1[k] - q0[k]
    BY <1>1, <1>7
  <2>3. \A k \in D \ B : q1[k] = q0[k]
    BY <1>7
  <2>4. Total(q1, D) = Total(q0, D) + Total(g, B)
    BY <1>1, <2>1, <2>2, <2>3, BookGrows
  <2> QED BY <1>0, <1>7, <2>4
<1>9. Sound(Resized(p, q1, shares), d, n)
  <2>1. \A k \in DOMAIN p.lots : q1[k] \in Nat /\ q1[k] > 0
    BY <1>3, <1>7 DEF D, lots
  <2>2. shares = Total(q1, DOMAIN p.lots)
    BY <1>8 DEF D, lots
  <2> HIDE DEF shares
  <2> QED BY <2>1, <2>2, ResizedSound
<1> HIDE DEF shares
<1> QED BY <1>4, <1>6, <1>9

\* The bonus shares of a book add up to the dividend: the last lot, which takes the
\* remainder, never loses shares to the rounding of the others.
LEMMA BonusShared ==
    ASSUME NEW lots \in Seq(Lot), \A k \in DOMAIN lots : lots[k].qty > 0, NEW custody,
           NEW qty \in Nat, qty > 0, BookLots(lots, custody) # {}
    PROVE  LET bonus == StockBonus(lots, qty, custody)
           IN  /\ \A k \in DOMAIN lots : bonus[k] \in Nat
               /\ \A k \in DOMAIN lots : k \notin BookLots(lots, custody) => bonus[k] = 0
               /\ Total(bonus, BookLots(lots, custody)) = qty
<1> DEFINE D == DOMAIN lots
           B == BookLots(lots, custody)
           final == Max(B)
           before == Held(lots, custody)
           share(k) == (qty * lots[k].qty) \div before
           s == [k \in B |-> share(k)]
           others == B \ {final}
           added == Total(s, others)
           bonus == StockBonus(lots, qty, custody)
           q0 == [k \in D |-> lots[k].qty]
<1>1. IsFiniteSet(D) /\ B \in SUBSET D /\ D \in SUBSET Nat /\ B # {}
  BY FiniteDomain, BookInDomain
<1>2. \A k \in D : lots[k].qty \in Nat /\ lots[k].qty > 0
  <2>1. \A k \in D : lots[k] \in Lot
    OBVIOUS
  <2> QED BY <2>1 DEF Lot
<1>3. /\ \A k \in D : q0[k] = lots[k].qty
      /\ \A k \in B : s[k] = (qty * lots[k].qty) \div before
      /\ \A k \in D : bonus[k] = IF k \notin B THEN 0 ELSE IF k = final THEN qty - added ELSE s[k]
      /\ before = Total(q0, B)
  BY DEF StockBonus, QtyOf, Held
<1>4. IsFiniteSet(B)
  BY <1>1, FS_Subset
<1> HIDE DEF D, B, s, q0, bonus, before
<1>5. final \in B
  BY <1>1, <1>4, MaxIn
<1> HIDE DEF final
<1>6. \A k \in D : q0[k] \in Nat /\ q0[k] > 0
  BY <1>2, <1>3
<1>7. before \in Nat /\ before > 0
  <2>1. \A k \in B : q0[k] \in Nat /\ q0[k] > 0
    BY <1>1, <1>6
  <2>2. Total(q0, B) \in Nat
    <3>1. B \in SUBSET B
      OBVIOUS
    <3>2. \A k \in B : q0[k] \in Nat
      BY <2>1
    <3> QED BY <1>4, <3>1, <3>2, TotalNat
  <2>3. Total(q0, B) # 0
    <3>1. q0[final] \in Nat /\ q0[final] > 0
      BY <1>5, <2>1
    <3>2. \A k \in B : q0[k] \in Nat
      BY <2>1
    <3>3. Total(q0, B) = 0 => q0[final] = 0
      BY <1>4, <1>5, <3>2, NothingLeft
    <3> QED BY <3>1, <3>3
  <2> QED BY <1>3, <2>2, <2>3
<1>8. \A k \in B : s[k] \in Nat /\ before * s[k] <= qty * q0[k]
  <2> SUFFICES ASSUME NEW k \in B PROVE s[k] \in Nat /\ before * s[k] <= qty * q0[k]
    OBVIOUS
  <2> DEFINE a == qty * q0[k]
  <2>1. a \in Nat
    BY <1>1, <1>6
  <2>2. s[k] = a \div before
    BY <1>1, <1>3
  <2> HIDE DEF a
  <2>3. a \div before \in Nat /\ before * (a \div before) <= a
    BY <1>7, <2>1, Divided
  <2> QED BY <2>2, <2>3 DEF a
<1>9. others \in SUBSET B /\ B \in SUBSET B /\ IsFiniteSet(others) /\ final \notin others
  BY <1>4, FS_Subset
<1> HIDE DEF others
<1>10. added \in Nat
  <2>1. \A k \in B : s[k] \in Nat
    BY <1>8
  <2> QED BY <1>4, <1>9, <2>1, TotalNat
<1>11. before * added <= qty * Total(q0, others)
  <2> DEFINE Scaled(k) == before * s[k] <= qty * q0[k]
  <2>1. \A k \in B : s[k] \in Int /\ q0[k] \in Int /\ Scaled(k)
    <3>1. \A k \in B : Scaled(k)
      BY <1>8
    <3> HIDE DEF Scaled
    <3>2. \A k \in B : s[k] \in Int /\ q0[k] \in Int
      BY <1>1, <1>6, <1>8
    <3> QED BY <3>1, <3>2
  <2>2. before \in Int /\ qty \in Int
    BY <1>7
  <2>3. \A T \in SUBSET B : before * Total(s, T) <= qty * Total(q0, T)
    BY <1>4, <2>1, <2>2, TotalScaled
  <2> QED BY <1>9, <2>3
<1>12. Total(q0, others) \in Nat /\ Total(q0, others) <= before
  <2>1. \A k \in B : q0[k] \in Nat
    BY <1>1, <1>6
  <2>2. Total(q0, others) \in Nat
    BY <1>4, <1>9, <2>1, TotalNat
  <2>3. Total(q0, others) <= Total(q0, B)
    BY <1>4, <1>9, <2>1, TotalPart
  <2> QED BY <1>3, <2>2, <2>3
<1> DEFINE rest == Total(q0, others)
<1> HIDE DEF added
<1>13. added <= qty
  <2>1. rest \in Nat /\ rest <= before /\ before * added <= qty * rest
    BY <1>11, <1>12
  <2> HIDE DEF rest
  <2>2. qty * rest <= qty * before
    BY <1>7, <2>1
  <2>3. before * added <= before * qty
    BY <1>7, <1>10, <2>1, <2>2
  <2> QED BY <1>7, <1>10, <2>3
<1>14. \A k \in D : bonus[k] \in Nat /\ (k \notin B => bonus[k] = 0)
  BY <1>3, <1>8, <1>10, <1>13
<1>15. Total(bonus, B) = qty
  <2>1. \A k \in B : bonus[k] \in Int
    BY <1>1, <1>14
  <2>2. Total(bonus, B) = bonus[final] + Total(bonus, B \ {final})
    BY <1>4, <1>5, <1>9, <2>1, TotalRemove
  <2>3. Total(bonus, others) = Total(s, others)
    <3>1. \A k \in others : bonus[k] = s[k]
      BY <1>1, <1>3, <1>9
    <3> QED BY <1>9, <3>1, TotalSame
  <2>4. bonus[final] = qty - added
    BY <1>1, <1>3, <1>5
  <2> QED BY <1>10, <2>2, <2>3, <2>4 DEF others, added
<1> QED BY <1>14, <1>15 DEF D, B, bonus

\* A stock dividend keeps the position sound and its cost.
LEMMA StockAllocated ==
    ASSUME NEW d \in Nat, NEW n \in Nat, NEW p, Sound(p, d, n), NEW custody,
           NEW qty \in Nat, qty > 0, BookLots(p.lots, custody) # {}
    PROVE  /\ Sound(AllocateStock(p, qty, custody), d, n)
           /\ AllocateStock(p, qty, custody).cost = p.cost
<1> DEFINE lots == p.lots
           D == DOMAIN lots
           B == BookLots(lots, custody)
           bonus == StockBonus(lots, qty, custody)
           q0 == [k \in D |-> lots[k].qty]
           q1 == [k \in D |-> lots[k].qty + bonus[k]]
           new == [k \in D |-> [lots[k] EXCEPT !.qty = @ + bonus[k]]]
           shares == p.shares + qty
<1>0. /\ lots \in Seq(Lot) /\ p.shares \in Nat /\ p.cost \in Nat
      /\ p.shares = QtyOf(lots, D) /\ \A k \in D : lots[k].qty > 0
      /\ p = [shares |-> p.shares, cost |-> p.cost, lots |-> lots]
  BY DEF Sound, Position
<1>1. IsFiniteSet(D) /\ B \in SUBSET D
  BY <1>0, FiniteDomain, BookInDomain
<1>2. \A k \in D : lots[k].qty \in Nat /\ lots[k].qty > 0
  <2>1. \A k \in D : lots[k] \in Lot
    BY <1>0
  <2> QED BY <1>0, <2>1 DEF Lot
<1>3. AllocateStock(p, qty, custody) = [shares |-> shares, cost |-> p.cost, lots |-> new]
  <2>1. AllocateStock(p, qty, custody) = [p EXCEPT !.shares = shares, !.lots = new]
    BY DEF AllocateStock
  <2> HIDE DEF shares, new
  <2> QED BY <1>0, <2>1
<1>4. Resized(p, q1, shares) = [shares |-> shares, cost |-> p.cost, lots |-> new]
  <2>1. [k \in D |-> [lots[k] EXCEPT !.qty = q1[k]]] = new
    OBVIOUS
  <2> QED BY <2>1 DEF Resized
<1>5. /\ \A k \in D : q0[k] = lots[k].qty /\ q1[k] = lots[k].qty + bonus[k]
      /\ QtyOf(lots, D) = Total(q0, D)
  BY DEF QtyOf
<1>6. /\ \A k \in D : bonus[k] \in Nat
      /\ \A k \in D : k \notin B => bonus[k] = 0
      /\ Total(bonus, B) = qty
  BY <1>0, BonusShared
<1> HIDE DEF lots, D, B, bonus, q0, q1, new
<1>7. Total(q1, D) = shares
  <2>1. \A k \in D : q0[k] \in Int /\ q1[k] \in Int
    BY <1>2, <1>5, <1>6
  <2>2. \A k \in B : bonus[k] = q1[k] - q0[k]
    BY <1>1, <1>2, <1>5, <1>6
  <2>3. \A k \in D \ B : q1[k] = q0[k]
    BY <1>2, <1>5, <1>6
  <2>4. Total(q1, D) = Total(q0, D) + Total(bonus, B)
    BY <1>1, <2>1, <2>2, <2>3, BookGrows
  <2> QED BY <1>0, <1>5, <1>6, <2>4
<1>8. Sound(Resized(p, q1, shares), d, n)
  <2>1. \A k \in DOMAIN p.lots : q1[k] \in Nat /\ q1[k] > 0
    BY <1>2, <1>5, <1>6 DEF D, lots
  <2>2. shares = Total(q1, DOMAIN p.lots)
    BY <1>7 DEF D, lots
  <2> HIDE DEF shares
  <2> QED BY <2>1, <2>2, ResizedSound
<1> HIDE DEF shares
<1> QED BY <1>3, <1>4, <1>8

-------------------------------------------------------------------------------
\* The state of the books.

AllSound(s, d, n) == s \in State /\ \A y \in Symbols : Sound(s.pos[y], d, n)

Costs(s) == [y \in Symbols |-> s.pos[y].cost]

Invested(s) == Total(Costs(s), Symbols)

\* What double entry leaves unexplained: the costs that were expensed.
Gap(s) == s.contributions - s.withdrawals + s.realized + s.dividends - s.cash - Invested(s)

\* The state with every part named.
Account(cash, contributions, withdrawals, dividends, realized, costs, pos) ==
    [cash |-> cash, contributions |-> contributions, withdrawals |-> withdrawals,
     dividends |-> dividends, realized |-> realized, costs |-> costs, pos |-> pos]

\* A position stays sound as the ledger goes on.
LEMMA SoundLater ==
    ASSUME NEW p, NEW d \in Nat, NEW n \in Nat, Sound(p, d, n),
           NEW d2 \in Nat, NEW n2 \in Nat, d <= d2, n <= n2
    PROVE  Sound(p, d2, n2)
<1>1. p.lots \in Seq(Lot)
  BY DEF Sound, Position
<1>2. \A k \in DOMAIN p.lots : p.lots[k] \in Lot
  BY <1>1
<1>3. \A k \in DOMAIN p.lots : p.lots[k].acquired \in Nat /\ p.lots[k].source \in Nat
  BY <1>2 DEF Lot
<1>4. \A k \in DOMAIN p.lots : p.lots[k].acquired <= d /\ p.lots[k].source <= n
  BY DEF Sound
<1>5. \A k \in DOMAIN p.lots : p.lots[k].acquired <= d2 /\ p.lots[k].source <= n2
  BY <1>3, <1>4
<1> QED BY <1>5 DEF Sound

\* The cost of all holdings is an integer.
LEMMA InvestedInt ==
    ASSUME NEW s \in State
    PROVE  /\ Invested(s) \in Int
           /\ \A y \in Symbols : s.pos[y] \in Position /\ Costs(s)[y] = s.pos[y].cost /\ Costs(s)[y] \in Nat
<1>1. \A y \in Symbols : s.pos[y] \in Position /\ s.pos[y].cost \in Nat
  BY DEF State, Position
<1>2. \A y \in Symbols : Costs(s)[y] = s.pos[y].cost
  BY DEF Costs
<1>3. \A y \in Symbols : Costs(s)[y] \in Int
  BY <1>1, <1>2
<1>4. Symbols \in SUBSET Symbols /\ IsFiniteSet(Symbols)
  BY PostingsAssumption
<1>5. Total(Costs(s), Symbols) \in Int
  BY <1>3, <1>4, TotalInt
<1> QED BY <1>1, <1>2, <1>5 DEF Invested

Moved(s, t, d, n, y, q, cash, contributions, realized) ==
    /\ AllSound(t, d, n)
    /\ Gap(t) = Gap(s) + (contributions - s.contributions) + (realized - s.realized)
                  - (cash - s.cash) - (q.cost - s.pos[y].cost)

\* An event of a holding replaces one position.
LEMMA HoldingPosted ==
    ASSUME NEW s, NEW d \in Nat, NEW n \in Nat, AllSound(s, d, n),
           NEW d2 \in Nat, NEW n2 \in Nat, d <= d2, n <= n2,
           NEW y \in Symbols, NEW q, Sound(q, d2, n2),
           NEW cash \in Nat, NEW contributions \in Nat, NEW realized \in Int, NEW costs \in Nat,
           NEW t, t = Account(cash, contributions, s.withdrawals, s.dividends, realized, costs,
                              [s.pos EXCEPT ![y] = q])
    PROVE  Moved(s, t, d2, n2, y, q, cash, contributions, realized)
<1> DEFINE pos2 == [s.pos EXCEPT ![y] = q]
<1>1. s \in State /\ q \in Position /\ s.pos \in [Symbols -> Position]
  BY DEF AllSound, State, Sound
<1>2. /\ pos2 \in [Symbols -> Position] /\ pos2[y] = q
      /\ \A z \in Symbols \ {y} : pos2[z] = s.pos[z]
  BY <1>1
<1> HIDE DEF pos2
<1>3. /\ t.pos = pos2 /\ t.cash = cash /\ t.contributions = contributions
      /\ t.withdrawals = s.withdrawals /\ t.dividends = s.dividends
      /\ t.realized = realized /\ t.costs = costs
  BY DEF Account, pos2
<1>4. t \in State
  BY <1>1, <1>2 DEF Account, State, pos2
<1>5. \A z \in Symbols : Sound(t.pos[z], d2, n2)
  <2>1. \A z \in Symbols : Sound(s.pos[z], d2, n2)
    BY SoundLater DEF AllSound
  <2> QED BY <1>2, <1>3, <2>1
<1> DEFINE f == Costs(s)
           g == Costs(t)
<1>6. \A z \in Symbols : /\ f[z] = s.pos[z].cost /\ f[z] \in Nat
                         /\ g[z] = t.pos[z].cost /\ g[z] \in Nat
  BY <1>1, <1>4, InvestedInt
<1>7. Invested(s) = Total(f, Symbols) /\ Invested(t) = Total(g, Symbols)
  BY DEF Invested
<1>8. Invested(s) \in Int /\ Invested(t) \in Int
  BY <1>1, <1>4, InvestedInt
<1> HIDE DEF f, g
<1>9. Total(g, Symbols) = Total(f, Symbols) - f[y] + g[y]
  <2>1. IsFiniteSet(Symbols)
    BY PostingsAssumption
  <2>2. \A z \in Symbols : f[z] \in Int /\ g[z] \in Int
    BY <1>6
  <2>3. \A z \in Symbols : z # y => g[z] = f[z]
    BY <1>2, <1>3, <1>6
  <2> QED BY <2>1, <2>2, <2>3, TotalChanged
<1>10. f[y] = s.pos[y].cost /\ g[y] = q.cost /\ f[y] \in Nat /\ g[y] \in Nat
  BY <1>2, <1>3, <1>6
<1>11. /\ s.contributions \in Nat /\ s.withdrawals \in Nat /\ s.realized \in Int
       /\ s.dividends \in Nat /\ s.cash \in Nat
  BY <1>1 DEF State
<1>12. Invested(t) = Invested(s) - s.pos[y].cost + q.cost
  BY <1>7, <1>9, <1>10
<1>13. Gap(t) = Gap(s) + (contributions - s.contributions) + (realized - s.realized)
                  - (cash - s.cash) - (q.cost - s.pos[y].cost)
  <2>1. s.pos[y].cost \in Nat /\ q.cost \in Nat
    BY <1>10
  <2> QED BY <1>3, <1>8, <1>11, <1>12, <2>1 DEF Gap
<1> QED BY <1>4, <1>5, <1>13 DEF AllSound, Moved

Paid(s, t, d, n, cash, contributions, withdrawals, dividends) ==
    /\ AllSound(t, d, n)
    /\ Gap(t) = Gap(s) + (contributions - s.contributions) - (withdrawals - s.withdrawals)
                  + (dividends - s.dividends) - (cash - s.cash)

\* An event of money leaves the positions alone.
LEMMA MoneyPosted ==
    ASSUME NEW s, NEW d \in Nat, NEW n \in Nat, AllSound(s, d, n),
           NEW d2 \in Nat, NEW n2 \in Nat, d <= d2, n <= n2,
           NEW cash \in Nat, NEW contributions \in Nat, NEW withdrawals \in Nat,
           NEW dividends \in Nat, NEW costs \in Nat,
           NEW t, t = Account(cash, contributions, withdrawals, dividends, s.realized, costs, s.pos)
    PROVE  Paid(s, t, d2, n2, cash, contributions, withdrawals, dividends)
<1>1. s \in State
  BY DEF AllSound
<1>2. /\ t.pos = s.pos /\ t.cash = cash /\ t.contributions = contributions
      /\ t.withdrawals = withdrawals /\ t.dividends = dividends
      /\ t.realized = s.realized /\ t.costs = costs
  BY DEF Account
<1>3. t \in State
  BY <1>1 DEF Account, State
<1>4. \A z \in Symbols : Sound(t.pos[z], d2, n2)
  <2>1. \A z \in Symbols : Sound(s.pos[z], d2, n2)
    BY SoundLater DEF AllSound
  <2> QED BY <1>2, <2>1
<1>5. Invested(t) = Invested(s)
  BY <1>2 DEF Invested, Costs
<1>6. Invested(s) \in Int
  BY <1>1, InvestedInt
<1>7. /\ s.contributions \in Nat /\ s.withdrawals \in Nat /\ s.realized \in Int
      /\ s.dividends \in Nat /\ s.cash \in Nat
  BY <1>1 DEF State
<1> QED BY <1>2, <1>3, <1>4, <1>5, <1>6, <1>7 DEF AllSound, Gap, Paid

-------------------------------------------------------------------------------
\* The events, one type at a time.

\* An event that may be posted n-th, on day d at the earliest.
Postable(e, d, n) ==
    /\ e \in Events /\ e.id = n /\ d <= e.date
    /\ e.type \in HoldingTypes => e.sym \in Symbols
    /\ e.type = "SELL" => e.fee + e.tax <= e.qty * e.price
    /\ e.type = "SPLIT" => e.ratio[2] > 0

\* The parts of a state.
LEMMA StateFields ==
    \A s \in State :
        /\ s = Account(s.cash, s.contributions, s.withdrawals, s.dividends, s.realized, s.costs, s.pos)
        /\ s.cash \in Nat /\ s.contributions \in Nat /\ s.withdrawals \in Nat
        /\ s.dividends \in Nat /\ s.realized \in Int /\ s.costs \in Nat
        /\ \A y \in Symbols : s.pos[y] \in Position
BY DEF State, Account

\* The parts of an event.
LEMMA EventFields ==
    \A e \in Events : /\ e.qty \in Nat /\ e.price \in Nat /\ e.fee \in Nat /\ e.tax \in Nat
                      /\ e.amount \in Nat /\ e.date \in Nat /\ e.qty * e.price \in Nat
                      /\ e.ratio \in Nat \X Nat
BY DEF Events

\* A position import puts in what it costs.
LEMMA ImportPosted ==
    ASSUME NEW s, NEW d \in Nat, NEW n \in Nat, AllSound(s, d, n),
           NEW e, Postable(e, d, n + 1), e.type = "POSITION_IMPORT", Admits(s, e)
    PROVE  AllSound(ApplyEvent(s, e), e.date, n + 1) /\ Gap(ApplyEvent(s, e)) = Gap(s) + Expense(e)
<1> DEFINE m == e.qty * e.price
           y == e.sym
           q == AddLot(s.pos[y], e, m)
           t == ApplyEvent(s, e)
<1>1. /\ e \in Events /\ y \in Symbols /\ e.id = n + 1 /\ d <= e.date
      /\ m \in Nat /\ e.date \in Nat /\ n + 1 \in Nat /\ n <= n + 1
  BY EventFields DEF Postable, HoldingTypes, AcquisitionTypes
<1>2. e.qty > 0
  BY DEF Admits, Accepts, AcquisitionTypes
<1>3. s \in State /\ Sound(s.pos[y], d, n)
  BY <1>1 DEF AllSound
<1>4. t = Account(s.cash, s.contributions + m, s.withdrawals, s.dividends, s.realized, s.costs,
                  [s.pos EXCEPT ![y] = q])
  <2>1. t = [s EXCEPT !.pos[e.sym] = q, !.contributions = @ + m]
    BY DEF ApplyEvent, ApplyImport
  <2> HIDE DEF t, m, q
  <2> QED BY <1>3, <2>1 DEF State, Account
<1>5. Sound(q, e.date, n + 1) /\ q.cost = s.pos[y].cost + m
  <2> DEFINE p == s.pos[y]
  <2> HIDE DEF m, y, p
  <2>1. Sound(AddLot(p, e, m), e.date, n + 1) /\ AddLot(p, e, m).cost = p.cost + m
    BY <1>1, <1>2, <1>3, LotAdded DEF p
  <2> QED BY <2>1 DEF p
<1>6. Expense(e) = 0
  BY DEF Expense
<1> HIDE DEF m, q, y, t
<1>7. /\ s.cash \in Nat /\ s.contributions \in Nat /\ s.costs \in Nat /\ s.realized \in Int
      /\ s.pos[y].cost \in Nat
  BY <1>1, <1>3, StateFields DEF Position
<1>8. s.contributions + m \in Nat
  BY <1>1, <1>7
<1> DEFINE contributions == s.contributions + m
<1>9. Moved(s, t, e.date, n + 1, y, q, s.cash, contributions, s.realized)
  <2>1. contributions \in Nat
    BY <1>8
  <2>2. t = Account(s.cash, contributions, s.withdrawals, s.dividends, s.realized, s.costs,
                    [s.pos EXCEPT ![y] = q])
    BY <1>4
  <2> HIDE DEF contributions
  <2> QED BY <1>1, <1>5, <1>7, <2>1, <2>2, HoldingPosted
<1>10. Gap(s) \in Int
  BY <1>3, InvestedInt, StateFields DEF Gap
<1>11. Gap(t) = Gap(s) + Expense(e)
  BY <1>1, <1>5, <1>6, <1>7, <1>9, <1>10 DEF Moved
<1> HIDE DEF contributions
<1> QED BY <1>9, <1>11 DEF t, Moved

\* A purchase turns cash into cost, and its tax into an expense.
LEMMA BuyPosted ==
    ASSUME NEW s, NEW d \in Nat, NEW n \in Nat, AllSound(s, d, n),
           NEW e, Postable(e, d, n + 1), e.type \in {"BUY", "RIGHTS_ISSUE"}, Admits(s, e)
    PROVE  AllSound(ApplyEvent(s, e), e.date, n + 1) /\ Gap(ApplyEvent(s, e)) = Gap(s) + Expense(e)
<1> DEFINE m == e.qty * e.price
           c == m + e.fee
           cash == s.cash - (m + e.fee + e.tax)
           costs == s.costs + e.fee + e.tax
           y == e.sym
           q == AddLot(s.pos[y], e, c)
           t == ApplyEvent(s, e)
<1>1. /\ e \in Events /\ y \in Symbols /\ e.id = n + 1 /\ d <= e.date
      /\ m \in Nat /\ c \in Nat /\ e.fee \in Nat /\ e.tax \in Nat
      /\ e.date \in Nat /\ n + 1 \in Nat /\ n <= n + 1
  <2>1. e \in Events /\ y \in Symbols /\ e.id = n + 1 /\ d <= e.date
    BY DEF Postable, HoldingTypes, AcquisitionTypes
  <2>2. m \in Nat /\ e.fee \in Nat /\ e.tax \in Nat /\ e.date \in Nat
    BY <2>1, EventFields
  <2> HIDE DEF m
  <2> QED BY <2>1, <2>2
<1>2. e.qty > 0
  BY DEF Admits, Accepts, AcquisitionTypes
<1>3. s \in State /\ Sound(s.pos[y], d, n)
  BY <1>1 DEF AllSound
<1>4. t = Account(cash, s.contributions, s.withdrawals, s.dividends, s.realized, costs,
                  [s.pos EXCEPT ![y] = q])
  <2>1. t = [s EXCEPT !.pos[e.sym] = q, !.cash = cash, !.costs = costs]
    BY DEF ApplyEvent, ApplyBuy
  <2> HIDE DEF t, q, cash, costs
  <2> QED BY <1>3, <2>1 DEF State, Account
<1>5. Sound(q, e.date, n + 1) /\ q.cost = s.pos[y].cost + c
  <2> DEFINE p == s.pos[y]
  <2> HIDE DEF c, y, p
  <2>1. Sound(AddLot(p, e, c), e.date, n + 1) /\ AddLot(p, e, c).cost = p.cost + c
    BY <1>1, <1>2, <1>3, LotAdded DEF p
  <2> QED BY <2>1 DEF p
<1>6. Expense(e) = e.tax
  BY DEF Expense
<1> HIDE DEF m, q, y, t
<1>7. /\ s.cash \in Nat /\ s.contributions \in Nat /\ s.costs \in Nat /\ s.realized \in Int
      /\ s.pos[y].cost \in Nat
  BY <1>1, <1>3, StateFields DEF Position
<1>8. cash \in Nat /\ costs \in Nat
  <2>1. t.cash >= 0
    BY DEF Admits, CashCheckedTypes, t
  <2>2. t.cash = cash
    BY <1>4 DEF Account
  <2>3. cash \in Int /\ costs \in Nat
    BY <1>1, <1>7
  <2> HIDE DEF cash, costs
  <2> QED BY <2>1, <2>2, <2>3
<1>9. /\ AllSound(t, e.date, n + 1)
      /\ Gap(t) = Gap(s) + (s.contributions - s.contributions) + (s.realized - s.realized)
                    - (cash - s.cash) - (q.cost - s.pos[y].cost)
  <2> HIDE DEF cash, costs
  <2>1. Moved(s, t, e.date, n + 1, y, q, cash, s.contributions, s.realized)
    BY <1>1, <1>4, <1>5, <1>7, <1>8, HoldingPosted
  <2> QED BY <2>1 DEF Moved
<1>10. Gap(s) \in Int
  BY <1>3, InvestedInt, StateFields DEF Gap
<1>11. Gap(t) = Gap(s) + Expense(e)
  BY <1>1, <1>5, <1>6, <1>7, <1>9, <1>10
<1> QED BY <1>9, <1>11 DEF t

\* A sale turns cost into cash and realized gain.
LEMMA SellPosted ==
    ASSUME NEW s, NEW d \in Nat, NEW n \in Nat, AllSound(s, d, n),
           NEW e, Postable(e, d, n + 1), e.type = "SELL", Admits(s, e)
    PROVE  AllSound(ApplyEvent(s, e), e.date, n + 1) /\ Gap(ApplyEvent(s, e)) = Gap(s) + Expense(e)
<1> DEFINE net == e.qty * e.price - e.fee - e.tax
           y == e.sym
           p == s.pos[y]
           disposed == DisposedCost(p.lots, e.custody, e.qty)
           realized == s.realized + net - disposed
           cash == s.cash + net
           costs == s.costs + e.fee + e.tax
           q == ConsumeFifo(p, e.qty, e.custody)
           t == ApplyEvent(s, e)
<1>1. /\ e \in Events /\ y \in Symbols /\ d <= e.date /\ net \in Nat
      /\ e.fee \in Nat /\ e.tax \in Nat /\ e.qty \in Nat
      /\ e.date \in Nat /\ n + 1 \in Nat /\ n <= n + 1
  <2>1. e \in Events /\ y \in Symbols /\ d <= e.date /\ e.fee + e.tax <= e.qty * e.price
    BY DEF Postable, HoldingTypes
  <2> DEFINE m == e.qty * e.price
  <2>2. m \in Nat /\ e.fee \in Nat /\ e.tax \in Nat /\ e.qty \in Nat /\ e.date \in Nat
    BY <2>1, EventFields
  <2>3. net = m - e.fee - e.tax /\ e.fee + e.tax <= m
    BY <2>1
  <2> HIDE DEF m, net
  <2> QED BY <2>1, <2>2, <2>3
<1>2. e.qty <= p.shares /\ e.qty <= Held(p.lots, e.custody)
  BY DEF Admits, Accepts, AcquisitionTypes, CanSell
<1>3. s \in State /\ Sound(p, d, n)
  BY <1>1 DEF AllSound
<1>4. t = Account(cash, s.contributions, s.withdrawals, s.dividends, realized, costs,
                  [s.pos EXCEPT ![y] = q])
  <2>1. t = [s EXCEPT !.pos[e.sym] = q, !.realized = realized, !.cash = cash, !.costs = costs]
    BY DEF ApplyEvent, ApplySell
  <2> HIDE DEF t, q, cash, costs, realized
  <2> QED BY <1>3, <2>1 DEF State, Account
<1>5. Sound(q, d, n) /\ q.cost = p.cost - disposed /\ disposed \in 0 .. p.cost
  <2> HIDE DEF p
  <2>1. /\ disposed \in 0 .. p.cost
        /\ Sound(ConsumeFifo(p, e.qty, e.custody), d, n)
        /\ ConsumeFifo(p, e.qty, e.custody).cost = p.cost - disposed
    BY <1>1, <1>2, <1>3, LotsConsumed
  <2> QED BY <2>1
<1>6. Expense(e) = 0
  BY DEF Expense
<1> HIDE DEF q, p, t, disposed, net
<1>7. /\ s.cash \in Nat /\ s.contributions \in Nat /\ s.costs \in Nat /\ s.realized \in Int
      /\ p.cost \in Nat
  BY <1>1, <1>3, StateFields DEF Position, Sound
<1>8. cash \in Nat /\ costs \in Nat /\ realized \in Int
  BY <1>1, <1>5, <1>7
<1>9. Sound(q, e.date, n + 1)
  BY <1>1, <1>5, SoundLater
<1>10. /\ AllSound(t, e.date, n + 1)
       /\ Gap(t) = Gap(s) + (s.contributions - s.contributions) + (realized - s.realized)
                     - (cash - s.cash) - (q.cost - s.pos[y].cost)
  <2> HIDE DEF cash, costs, realized, y
  <2>1. Moved(s, t, e.date, n + 1, y, q, cash, s.contributions, realized)
    BY <1>1, <1>4, <1>7, <1>8, <1>9, HoldingPosted
  <2> QED BY <2>1 DEF Moved
<1>11. Gap(s) \in Int
  BY <1>3, InvestedInt, StateFields DEF Gap
<1>12. Gap(t) = Gap(s) + Expense(e)
  <2>1. s.pos[y].cost = p.cost
    BY DEF p
  <2> QED BY <1>1, <1>5, <1>6, <1>7, <1>10, <1>11, <2>1
<1> QED BY <1>10, <1>12 DEF t

\* A stock dividend moves no money.
LEMMA StockPosted ==
    ASSUME NEW s, NEW d \in Nat, NEW n \in Nat, AllSound(s, d, n),
           NEW e, Postable(e, d, n + 1), e.type = "STOCK_DIVIDEND", Admits(s, e)
    PROVE  AllSound(ApplyEvent(s, e), e.date, n + 1) /\ Gap(ApplyEvent(s, e)) = Gap(s) + Expense(e)
<1> DEFINE y == e.sym
           p == s.pos[y]
           q == AllocateStock(p, e.qty, e.custody)
           t == ApplyEvent(s, e)
<1>1. /\ e \in Events /\ y \in Symbols /\ d <= e.date
      /\ e.qty \in Nat /\ e.ratio \in Nat \X Nat
      /\ e.date \in Nat /\ n + 1 \in Nat /\ n <= n + 1
  <2>1. e \in Events /\ y \in Symbols /\ d <= e.date
    BY DEF Postable, HoldingTypes
  <2> QED BY <2>1, EventFields
<1>2. s \in State /\ Sound(p, d, n)
  BY <1>1 DEF AllSound
<1>3. t = Account(s.cash, s.contributions, s.withdrawals, s.dividends, s.realized, s.costs,
                  [s.pos EXCEPT ![y] = q])
  <2>1. t = [s EXCEPT !.pos[e.sym] = q]
    BY DEF ApplyEvent
  <2> HIDE DEF t, q
  <2> QED BY <1>2, <2>1 DEF State, Account
<1>4. Sound(q, d, n) /\ q.cost = p.cost
  <2>1. e.qty > 0 /\ BookLots(p.lots, e.custody) # {}
    BY DEF Admits, Accepts, AcquisitionTypes
  <2> DEFINE qty == e.qty
  <2>2. qty \in Nat /\ qty > 0
    BY <1>1, <2>1
  <2> HIDE DEF p, qty
  <2>3. /\ Sound(AllocateStock(p, qty, e.custody), d, n)
        /\ AllocateStock(p, qty, e.custody).cost = p.cost
    BY <1>2, <2>1, <2>2, StockAllocated
  <2> QED BY <2>3 DEF qty
<1>5. Expense(e) = 0
  BY DEF Expense
<1> HIDE DEF q, p, t
<1>6. /\ s.cash \in Nat /\ s.contributions \in Nat /\ s.costs \in Nat /\ s.realized \in Int
      /\ p.cost \in Nat
  BY <1>1, <1>2, StateFields DEF Position, Sound
<1>7. Sound(q, e.date, n + 1)
  BY <1>1, <1>4, SoundLater
<1> HIDE DEF y
<1>8. Moved(s, t, e.date, n + 1, y, q, s.cash, s.contributions, s.realized)
  BY <1>1, <1>3, <1>6, <1>7, HoldingPosted
<1>9. Gap(s) \in Int
  BY <1>2, InvestedInt, StateFields DEF Gap
<1>10. s.pos[y].cost = p.cost
  BY DEF p
<1>11. Gap(t) = Gap(s) + Expense(e)
  BY <1>4, <1>5, <1>6, <1>8, <1>9, <1>10 DEF Moved
<1> QED BY <1>8, <1>11 DEF t, Moved

\* A split moves no money.
LEMMA SplitPosted ==
    ASSUME NEW s, NEW d \in Nat, NEW n \in Nat, AllSound(s, d, n),
           NEW e, Postable(e, d, n + 1), e.type = "SPLIT", Admits(s, e), WholeShares(s, e)
    PROVE  AllSound(ApplyEvent(s, e), e.date, n + 1) /\ Gap(ApplyEvent(s, e)) = Gap(s) + Expense(e)
<1> DEFINE y == e.sym
           p == s.pos[y]
           q == SplitLots(p, e.ratio, e.custody)
           t == ApplyEvent(s, e)
<1>1. /\ e \in Events /\ y \in Symbols /\ d <= e.date
      /\ e.qty \in Nat /\ e.ratio \in Nat \X Nat
      /\ e.date \in Nat /\ n + 1 \in Nat /\ n <= n + 1
  <2>1. e \in Events /\ y \in Symbols /\ d <= e.date
    BY DEF Postable, HoldingTypes
  <2> QED BY <2>1, EventFields
<1>2. s \in State /\ Sound(p, d, n)
  BY <1>1 DEF AllSound
<1>3. t = Account(s.cash, s.contributions, s.withdrawals, s.dividends, s.realized, s.costs,
                  [s.pos EXCEPT ![y] = q])
  <2>1. t = [s EXCEPT !.pos[e.sym] = q]
    BY DEF ApplyEvent
  <2> HIDE DEF t, q
  <2> QED BY <1>2, <2>1 DEF State, Account
<1>4. Sound(q, d, n) /\ q.cost = p.cost
  <2> DEFINE ratio == e.ratio
  <2>1. ratio[1] > 0 /\ ratio[2] > 0
    BY DEF Admits, Accepts, AcquisitionTypes, Postable
  <2>2. \A k \in BookLots(p.lots, e.custody) : (p.lots[k].qty * ratio[1]) % ratio[2] = 0
    BY DEF WholeShares
  <2>3. ratio \in Nat \X Nat
    BY <1>1
  <2> HIDE DEF p, ratio
  <2>4. Sound(SplitLots(p, ratio, e.custody), d, n) /\ SplitLots(p, ratio, e.custody).cost = p.cost
    BY <1>2, <2>1, <2>2, <2>3, LotsSplit
  <2> QED BY <2>4 DEF ratio
<1>5. Expense(e) = 0
  BY DEF Expense
<1> HIDE DEF q, p, t
<1>6. /\ s.cash \in Nat /\ s.contributions \in Nat /\ s.costs \in Nat /\ s.realized \in Int
      /\ p.cost \in Nat
  BY <1>1, <1>2, StateFields DEF Position, Sound
<1>7. Sound(q, e.date, n + 1)
  BY <1>1, <1>4, SoundLater
<1> HIDE DEF y
<1>8. Moved(s, t, e.date, n + 1, y, q, s.cash, s.contributions, s.realized)
  BY <1>1, <1>3, <1>6, <1>7, HoldingPosted
<1>9. Gap(s) \in Int
  BY <1>2, InvestedInt, StateFields DEF Gap
<1>10. s.pos[y].cost = p.cost
  BY DEF p
<1>11. Gap(t) = Gap(s) + Expense(e)
  BY <1>4, <1>5, <1>6, <1>8, <1>9, <1>10 DEF Moved
<1> QED BY <1>8, <1>11 DEF t, Moved

\* Deposits, withdrawals, cash dividends and fees.
LEMMA MoneyApplied ==
    ASSUME NEW s, NEW d \in Nat, NEW n \in Nat, AllSound(s, d, n),
           NEW e, Postable(e, d, n + 1), e.type \in MoneyTypes, Admits(s, e)
    PROVE  AllSound(ApplyEvent(s, e), e.date, n + 1) /\ Gap(ApplyEvent(s, e)) = Gap(s) + Expense(e)
<1> DEFINE t == ApplyEvent(s, e)
           a == e.amount
<1>1. /\ e \in Events /\ d <= e.date /\ a \in Nat /\ e.tax \in Nat
      /\ e.date \in Nat /\ n + 1 \in Nat /\ n <= n + 1
  <2>1. e \in Events /\ d <= e.date
    BY DEF Postable
  <2> QED BY <2>1, EventFields
<1>2. s \in State
  BY DEF AllSound
<1>3. /\ s.cash \in Nat /\ s.contributions \in Nat /\ s.withdrawals \in Nat
      /\ s.dividends \in Nat /\ s.realized \in Int /\ s.costs \in Nat
  BY <1>2, StateFields
<1>4. Gap(s) \in Int
  BY <1>2, <1>3, InvestedInt DEF Gap
<1>5. CASE e.type = "CASH_DEPOSIT"
  <2> DEFINE cash == s.cash + a
             contributions == s.contributions + a
  <2>1. t = Account(cash, contributions, s.withdrawals, s.dividends, s.realized, s.costs, s.pos)
    <3>1. t = [s EXCEPT !.cash = cash, !.contributions = contributions]
      BY <1>5 DEF ApplyEvent
    <3> HIDE DEF t, cash, contributions
    <3> QED BY <1>2, <3>1 DEF State, Account
  <2>2. cash \in Nat /\ contributions \in Nat
    BY <1>1, <1>3
  <2>3. Expense(e) = 0
    BY <1>5 DEF Expense
  <2> HIDE DEF t, cash, contributions
  <2>4. Paid(s, t, e.date, n + 1, cash, contributions, s.withdrawals, s.dividends)
    BY <1>1, <1>3, <2>1, <2>2, MoneyPosted
  <2>5. Gap(t) = Gap(s) + Expense(e)
    BY <1>1, <1>3, <1>4, <2>3, <2>4 DEF Paid, cash, contributions
  <2> QED BY <2>4, <2>5 DEF Paid, t
<1>6. CASE e.type = "CASH_WITHDRAW"
  <2> DEFINE cash == s.cash - a
             withdrawals == s.withdrawals + a
  <2>1. t = Account(cash, s.contributions, withdrawals, s.dividends, s.realized, s.costs, s.pos)
    <3>1. t = [s EXCEPT !.cash = cash, !.withdrawals = withdrawals]
      BY <1>6 DEF ApplyEvent
    <3> HIDE DEF t, cash, withdrawals
    <3> QED BY <1>2, <3>1 DEF State, Account
  <2>2. t.cash >= 0
    BY <1>6 DEF Admits, CashCheckedTypes
  <2>3. Expense(e) = 0
    BY <1>6 DEF Expense
  <2> HIDE DEF t
  <2>4. t.cash = cash
    BY <2>1 DEF Account
  <2>5. cash \in Nat /\ withdrawals \in Nat
    BY <1>1, <1>3, <2>2, <2>4
  <2> HIDE DEF cash, withdrawals
  <2>6. Paid(s, t, e.date, n + 1, cash, s.contributions, withdrawals, s.dividends)
    BY <1>1, <1>3, <2>1, <2>5, MoneyPosted
  <2>7. Gap(t) = Gap(s) + Expense(e)
    BY <1>1, <1>3, <1>4, <2>3, <2>6 DEF Paid, cash, withdrawals
  <2> QED BY <2>6, <2>7 DEF Paid, t
<1>7. CASE e.type = "CASH_DIVIDEND"
  <2> DEFINE cash == s.cash + a - e.tax
             dividends == s.dividends + a
             costs == s.costs + e.tax
  <2>1. t = Account(cash, s.contributions, s.withdrawals, dividends, s.realized, costs, s.pos)
    <3>1. t = [s EXCEPT !.cash = cash, !.dividends = dividends, !.costs = costs]
      BY <1>7 DEF ApplyEvent, ApplyCashDividend
    <3> HIDE DEF t, cash, dividends, costs
    <3> QED BY <1>2, <3>1 DEF State, Account
  <2>2. e.tax <= a
    BY <1>7 DEF Admits, Accepts, AcquisitionTypes
  <2>3. cash \in Nat /\ dividends \in Nat /\ costs \in Nat
    BY <1>1, <1>3, <2>2
  <2>4. Expense(e) = e.tax
    BY <1>7 DEF Expense
  <2> HIDE DEF t, cash, dividends, costs
  <2>5. Paid(s, t, e.date, n + 1, cash, s.contributions, s.withdrawals, dividends)
    BY <1>1, <1>3, <2>1, <2>3, MoneyPosted
  <2>6. Gap(t) = Gap(s) + Expense(e)
    BY <1>1, <1>3, <1>4, <2>4, <2>5 DEF Paid, cash, dividends
  <2> QED BY <2>5, <2>6 DEF Paid, t
<1>8. CASE e.type = "FEE"
  <2> DEFINE cash == s.cash - a
             costs == s.costs + a
  <2>1. t = Account(cash, s.contributions, s.withdrawals, s.dividends, s.realized, costs, s.pos)
    <3>1. t = [s EXCEPT !.cash = cash, !.costs = costs]
      BY <1>8 DEF ApplyEvent
    <3> HIDE DEF t, cash, costs
    <3> QED BY <1>2, <3>1 DEF State, Account
  <2>2. t.cash >= 0
    BY <1>8 DEF Admits, CashCheckedTypes
  <2>3. Expense(e) = a
    BY <1>8 DEF Expense
  <2> HIDE DEF t
  <2>4. t.cash = cash
    BY <2>1 DEF Account
  <2>5. cash \in Nat /\ costs \in Nat
    BY <1>1, <1>3, <2>2, <2>4
  <2> HIDE DEF cash, costs
  <2>6. Paid(s, t, e.date, n + 1, cash, s.contributions, s.withdrawals, s.dividends)
    BY <1>1, <1>3, <2>1, <2>5, MoneyPosted
  <2>7. Gap(t) = Gap(s) + Expense(e)
    BY <1>1, <1>3, <1>4, <2>3, <2>6 DEF Paid, cash
  <2> QED BY <2>6, <2>7 DEF Paid, t
<1> QED BY <1>5, <1>6, <1>7, <1>8 DEF MoneyTypes

-------------------------------------------------------------------------------
\* The replay.

\* One event, whichever its type.
LEMMA EventPosted ==
    ASSUME NEW s, NEW d \in Nat, NEW n \in Nat, AllSound(s, d, n),
           NEW e, Postable(e, d, n + 1), Admits(s, e), WholeShares(s, e)
    PROVE  AllSound(ApplyEvent(s, e), e.date, n + 1) /\ Gap(ApplyEvent(s, e)) = Gap(s) + Expense(e)
<1>1. e.type \in EventTypes
  BY DEF Postable, Events
<1>2. \/ e.type = "POSITION_IMPORT" \/ e.type \in {"BUY", "RIGHTS_ISSUE"} \/ e.type = "SELL"
      \/ e.type = "STOCK_DIVIDEND" \/ e.type = "SPLIT" \/ e.type \in MoneyTypes
  BY <1>1 DEF EventTypes, HoldingTypes, AcquisitionTypes
<1> QED BY <1>2, ImportPosted, BuyPosted, SellPosted, StockPosted, SplitPosted, MoneyApplied

\* The day of the last event posted.
LastDay == IF posted = <<>> THEN 0 ELSE Last(posted).date

\* The inductive invariant of the replay: every position is sound, in the order of the
\* events replayed, and double entry leaves exactly the expensed costs unexplained.
ReplayInv ==
    /\ posted \in Seq(Events) /\ Len(posted) <= MaxPosted
    /\ AllSound(book, LastDay, Len(posted))
    /\ Gap(book) = Expensed

\* The empty book is balanced.
LEMMA ReplayInvInit == BookInit => ReplayInv
<1> SUFFICES ASSUME BookInit PROVE ReplayInv
  OBVIOUS
<1>1. posted = <<>> /\ book = EmptyState /\ Len(posted) = 0 /\ LastDay = 0
  BY DEF BookInit, LastDay
<1>2. /\ EmptyState.cash = 0 /\ EmptyState.contributions = 0 /\ EmptyState.withdrawals = 0
      /\ EmptyState.dividends = 0 /\ EmptyState.realized = 0 /\ EmptyState.costs = 0
      /\ \A y \in Symbols : EmptyState.pos[y] = EmptyPosition
  BY DEF EmptyState
<1>3. EmptyPosition \in Position
  BY EmptySound DEF Sound
<1>4. EmptyState \in State
  <2> HIDE DEF EmptyPosition
  <2> QED BY <1>3 DEF EmptyState, State
<1>5. AllSound(book, LastDay, Len(posted))
  BY <1>1, <1>2, <1>4, EmptySound DEF AllSound
<1>6. Invested(book) = 0
  <2> DEFINE zero == [y \in Symbols |-> 0]
  <2>1. \A y \in Symbols : Costs(EmptyState)[y] = 0
    BY <1>2 DEF Costs, EmptyPosition
  <2>2. Costs(EmptyState) = zero
    BY <2>1 DEF Costs
  <2>3. \A y \in Symbols : zero[y] \in Int /\ zero[y] = zero[y] + zero[y]
    OBVIOUS
  <2> HIDE DEF zero
  <2>4. IsFiniteSet(Symbols) /\ Symbols \in SUBSET Symbols
    BY PostingsAssumption
  <2>5. Total(zero, Symbols) = Total(zero, Symbols) + Total(zero, Symbols)
    BY <2>3, <2>4, TotalPlus
  <2>6. Total(zero, Symbols) \in Int
    BY <2>3, <2>4, TotalInt
  <2> DEFINE sum == Total(zero, Symbols)
  <2>7. sum = sum + sum /\ sum \in Int
    BY <2>5, <2>6
  <2> HIDE DEF sum
  <2>8. sum = 0
    BY <2>7
  <2> QED BY <1>1, <2>2, <2>8 DEF Invested, sum
<1>7. Expensed = 0
  <2>1. DOMAIN posted = {}
    BY <1>1
  <2> QED BY <2>1, TotalEmpty DEF Expensed
<1>8. Gap(book) = 0
  BY <1>1, <1>2, <1>6 DEF Gap
<1> QED BY <1>1, <1>5, <1>7, <1>8, PostingsAssumption DEF ReplayInv

\* What an event expenses.
LEMMA ExpenseNat == \A e \in Events : Expense(e) \in Nat
BY DEF Expense, Events

\* One more event expenses its own costs.
LEMMA ExpensedMore ==
    ASSUME NEW h \in Seq(Events), NEW e \in Events
    PROVE  LET more == Append(h, e)
           IN  Total([i \in DOMAIN more |-> Expense(more[i])], DOMAIN more)
                 = Total([i \in DOMAIN h |-> Expense(h[i])], DOMAIN h) + Expense(e)
<1> DEFINE more == Append(h, e)
           D == DOMAIN h
           x == Len(h) + 1
           f == [i \in DOMAIN more |-> Expense(more[i])]
           g == [i \in D |-> Expense(h[i])]
<1>1. IsFiniteSet(D) /\ D = 1 .. Len(h) /\ Len(h) \in Nat
  BY FiniteDomain
<1>2. DOMAIN more = D \cup {x} /\ x \notin D
  BY <1>1
<1>3. \A i \in D : more[i] = h[i] /\ h[i] \in Events
  BY <1>1
<1>4. more[x] = e
  BY <1>1
<1> HIDE DEF more, D, x
<1>5. /\ \A i \in D : f[i] = Expense(h[i]) /\ g[i] = Expense(h[i]) /\ Expense(h[i]) \in Nat
      /\ f[x] = Expense(e) /\ Expense(e) \in Nat
  BY <1>2, <1>3, <1>4, ExpenseNat
<1> HIDE DEF f, g
<1>6. Total(f, D \cup {x}) = Total(f, D) + f[x]
  <2>1. f[x] \in Int /\ \A i \in D : f[i] \in Int
    BY <1>5
  <2> QED BY <1>1, <1>2, <2>1, TotalAdd
<1>7. Total(f, D) = Total(g, D)
  <2>1. \A i \in D : f[i] = g[i]
    BY <1>5
  <2> QED BY <1>1, <2>1, TotalSame
<1>8. Total(f, DOMAIN more) = Total(g, D) + Expense(e)
  BY <1>2, <1>5, <1>6, <1>7
<1> QED BY <1>8 DEF f, g, more, D

\* The event that is posted, from the state a replay is in.
LEMMA PostedEvent ==
    ASSUME ReplayInv, NEW t \in Postings, Post(t)
    PROVE  /\ LET e == Last(posted')
              IN  /\ Postable(e, LastDay, Len(posted) + 1) /\ Admits(book, e) /\ WholeShares(book, e)
                  /\ posted' = Append(posted, e) /\ book' = ApplyEvent(book, e)
           /\ LastDay \in Nat /\ AllSound(book, LastDay, Len(posted))
<1> DEFINE e == [t EXCEPT !.id = Len(posted) + 1]
           n == Len(posted)
<1>1. posted \in Seq(Events) /\ n \in Nat /\ AllSound(book, LastDay, n)
  BY DEF ReplayInv
<1>2. /\ posted # <<>> => Last(posted).date <= e.date
      /\ Admits(book, e) /\ WholeShares(book, e) /\ posted' = Append(posted, e) /\ book' = ApplyEvent(book, e)
  BY DEF Post
<1>3. t \in Events /\ (t.type \in HoldingTypes => t.sym \in Symbols)
      /\ (t.type = "SELL" => t.fee + t.tax <= t.qty * t.price)
      /\ (t.type = "SPLIT" => t.ratio[2] > 0)
  BY PostingsAssumption
<1>4. /\ e \in Events /\ e.id = n + 1 /\ e.type = t.type /\ e.sym = t.sym /\ e.fee = t.fee
      /\ e.tax = t.tax /\ e.qty = t.qty /\ e.price = t.price /\ e.ratio = t.ratio
      /\ e.date \in Nat
  <2> DEFINE m == Len(posted) + 1
  <2>1. m \in Nat /\ m = n + 1 /\ e = [t EXCEPT !.id = m]
    BY <1>1
  <2> HIDE DEF m, n, e
  <2> QED BY <1>3, <2>1 DEF Events
<1> HIDE DEF e
<1>5. LastDay \in Nat /\ LastDay <= e.date
  <2>1. CASE posted = <<>>
    BY <1>4, <2>1 DEF LastDay
  <2>2. CASE posted # <<>>
    <3>1. Last(posted) \in Events
      BY <1>1, <2>2 DEF Last
    <3>2. Last(posted).date \in Nat
      BY <3>1 DEF Events
    <3> QED BY <1>2, <2>2, <3>2 DEF LastDay
  <2> QED BY <2>1, <2>2
<1>6. Postable(e, LastDay, n + 1)
  BY <1>3, <1>4, <1>5 DEF Postable
<1>7. Last(posted') = e
  BY <1>1, <1>2, <1>4 DEF Last
<1> QED BY <1>1, <1>2, <1>5, <1>6, <1>7

\* Every event posted keeps the book balanced.
LEMMA ReplayInvStep == ReplayInv /\ [BookNext]_replay => ReplayInv'
<1> SUFFICES ASSUME ReplayInv, [BookNext]_replay PROVE ReplayInv'
  OBVIOUS
<1>1. CASE UNCHANGED replay
  BY <1>1 DEF replay, ReplayInv, Expensed, LastDay
<1>2. ASSUME NEW t \in Postings, Post(t) PROVE ReplayInv'
  <2> DEFINE e == Last(posted')
             n == Len(posted)
             d == LastDay
  <2>1. /\ Postable(e, d, n + 1) /\ Admits(book, e) /\ WholeShares(book, e)
        /\ posted' = Append(posted, e) /\ book' = ApplyEvent(book, e)
        /\ d \in Nat /\ AllSound(book, d, n)
    BY <1>2, PostedEvent
  <2>2. posted \in Seq(Events) /\ n \in Nat /\ Gap(book) = Expensed /\ n < MaxPosted
    BY <1>2 DEF ReplayInv, Post
  <2>3. e \in Events
    BY <2>1 DEF Postable
  <2> HIDE DEF d, n
  <2>4. AllSound(ApplyEvent(book, e), e.date, n + 1) /\ Gap(ApplyEvent(book, e)) = Gap(book) + Expense(e)
    <3> HIDE DEF e
    <3> QED BY <2>1, <2>2, EventPosted
  <2>5. posted' \in Seq(Events) /\ Len(posted') = n + 1 /\ posted' # <<>>
    <3> HIDE DEF e
    <3> QED BY <2>1, <2>2, <2>3 DEF n
  <2>6. LastDay' = e.date
    BY <2>5 DEF LastDay
  <2> HIDE DEF e
  <2>7. Expensed' = Expensed + Expense(e)
    BY <2>1, <2>2, <2>3, ExpensedMore DEF Expensed
  <2>8. n + 1 <= MaxPosted
    BY <2>2, PostingsAssumption
  <2> QED BY <2>1, <2>2, <2>4, <2>5, <2>6, <2>7, <2>8 DEF ReplayInv
<1> QED BY <1>1, <1>2 DEF BookNext

\* The inductive invariant gives the properties.
LEMMA ReplayInvGives == ReplayInv => BookInv
<1> SUFFICES ASSUME ReplayInv PROVE BookInv
  OBVIOUS
<1>1. AllSound(book, LastDay, Len(posted)) /\ Gap(book) = Expensed
  BY DEF ReplayInv
<1>2. BookTypeOK
  BY DEF ReplayInv, BookTypeOK, AllSound
<1>3. LotsBalance
  BY <1>1 DEF LotsBalance, AllSound, Sound
<1>5. LotsInOrder
  BY <1>1 DEF LotsInOrder, AllSound, Sound
<1>4. BooksBalance
  <2>1. book \in State
    BY <1>1 DEF AllSound
  <2>2. /\ Invested(book) \in Int /\ book.cash \in Nat /\ book.contributions \in Nat
        /\ book.withdrawals \in Nat /\ book.dividends \in Nat /\ book.realized \in Int
    BY <2>1, InvestedInt, StateFields
  <2>3. Invested(book) = Total([s \in Symbols |-> book.pos[s].cost], Symbols)
    BY DEF Invested, Costs
  <2>4. book.cash + Invested(book)
          = book.contributions - book.withdrawals + book.realized + book.dividends - Expensed
    BY <1>1, <2>2 DEF Gap
  <2> QED BY <2>3, <2>4 DEF BooksBalance
<1> QED BY <1>2, <1>3, <1>4, <1>5 DEF BookInv

\* Whatever events apply_event accepts, in ledger order and in any number: the lots of
\* every symbol carry exactly its shares and its cost, oldest first; the cash is never
\* negative; and the cash plus the cost of the holdings is what was put in, plus gains
\* and dividends, less what was taken out or expensed.
THEOREM BooksAlwaysBalance == BookSpec => []BookInv
BY ReplayInvInit, ReplayInvStep, ReplayInvGives, PTL DEF BookSpec

-------------------------------------------------------------------------------
\* A custody book, share by share.

\* The shares of a book in the first n lots: Older counts those before a lot.
Upto(lots, custody, n) == QtyOf(lots, BookLots(lots, custody) \cap 1 .. n)

\* Lot by lot, the shares of a book add up to what it holds.
LEMMA UptoGrows ==
    ASSUME NEW lots \in Seq(Lot), NEW custody
    PROVE  /\ \A n \in 0 .. Len(lots) : Upto(lots, custody, n) \in Nat
           /\ Upto(lots, custody, 0) = 0
           /\ \A n \in DOMAIN lots :
                Upto(lots, custody, n) = Upto(lots, custody, n - 1)
                                         + (IF n \in BookLots(lots, custody) THEN lots[n].qty ELSE 0)
           /\ Held(lots, custody) = Upto(lots, custody, Len(lots))
<1> DEFINE D == DOMAIN lots
           B == BookLots(lots, custody)
           q == [k \in DOMAIN lots |-> lots[k].qty]
           Part(n) == B \cap 1 .. n
<1>0. /\ IsFiniteSet(D) /\ D = 1 .. Len(lots) /\ Len(lots) \in Nat /\ B \in SUBSET D
  BY FiniteDomain, BookInDomain
<1>1. \A k \in D : q[k] = lots[k].qty /\ q[k] \in Nat
  <2>1. \A k \in D : lots[k] \in Lot
    OBVIOUS
  <2> QED BY <2>1 DEF Lot
<1>2. \A n : Upto(lots, custody, n) = Total(q, Part(n))
  BY DEF Upto, QtyOf
<1>3. Held(lots, custody) = Total(q, B)
  BY DEF Held, QtyOf
<1> HIDE DEF q, B, D
<1>4. \A n : Part(n) \in SUBSET D
  BY <1>0
<1>5. \A n : Total(q, Part(n)) \in Nat
  <2> HIDE DEF Part
  <2> QED BY <1>0, <1>1, <1>4, TotalNat
<1>6. Total(q, Part(0)) = 0
  <2>1. Part(0) = {}
    OBVIOUS
  <2> QED BY <2>1, TotalEmpty
<1>7. ASSUME NEW n \in D
      PROVE  Total(q, Part(n)) = Total(q, Part(n - 1)) + (IF n \in B THEN lots[n].qty ELSE 0)
  <2>1. CASE n \in B
    <3>1. Part(n) = Part(n - 1) \cup {n} /\ n \notin Part(n - 1)
      BY <1>0, <2>1
    <3>2. IsFiniteSet(Part(n - 1)) /\ \A k \in Part(n - 1) : q[k] \in Int
      BY <1>0, <1>1, <1>4, FS_Subset
    <3> HIDE DEF Part
    <3>3. q[n] \in Int
      BY <1>1
    <3>4. Total(q, Part(n - 1) \cup {n}) = Total(q, Part(n - 1)) + q[n]
      BY <3>1, <3>2, <3>3, TotalAdd
    <3> QED BY <1>1, <2>1, <3>1, <3>4
  <2>2. CASE n \notin B
    <3>1. Part(n) = Part(n - 1)
      BY <1>0, <2>2
    <3> HIDE DEF Part
    <3> QED BY <1>5, <2>2, <3>1
  <2> QED BY <2>1, <2>2
<1>8. Part(Len(lots)) = B
  BY <1>0
<1> HIDE DEF Part
<1> QED BY <1>2, <1>3, <1>5, <1>6, <1>7, <1>8 DEF D, B

\* The shares of fewer lots are not more.
LEMMA UptoMonotone ==
    ASSUME NEW lots \in Seq(Lot), NEW custody, NEW m \in 0 .. Len(lots), NEW n \in m .. Len(lots)
    PROVE  Upto(lots, custody, m) <= Upto(lots, custody, n)
<1> DEFINE D == DOMAIN lots
           B == BookLots(lots, custody)
           q == [k \in DOMAIN lots |-> lots[k].qty]
           S == B \cap 1 .. m
           T == B \cap 1 .. n
<1>0. /\ IsFiniteSet(D) /\ B \in SUBSET D /\ Len(lots) \in Nat
  BY FiniteDomain, BookInDomain
<1>1. \A k \in D : q[k] \in Nat
  <2>1. \A k \in D : lots[k] \in Lot
    OBVIOUS
  <2> QED BY <2>1 DEF Lot
<1>2. S \in SUBSET T /\ T \in SUBSET D
  BY <1>0
<1>3. Upto(lots, custody, m) = Total(q, S) /\ Upto(lots, custody, n) = Total(q, T)
  BY DEF Upto, QtyOf
<1> HIDE DEF S, T, q, D
<1>4. IsFiniteSet(T) /\ \A k \in T : q[k] \in Nat
  BY <1>0, <1>1, <1>2, FS_Subset
<1>5. Total(q, S) <= Total(q, T)
  BY <1>2, <1>4, TotalPart
<1> QED BY <1>3, <1>5

\* The first lots of two sequences that begin alike hold the same shares.
LEMMA UptoSame ==
    ASSUME NEW lots \in Seq(Lot), NEW more \in Seq(Lot), NEW custody,
           NEW m \in Nat, m <= Len(lots), m <= Len(more), \A k \in 1 .. m : more[k] = lots[k]
    PROVE  Upto(more, custody, m) = Upto(lots, custody, m)
<1> DEFINE B == BookLots(lots, custody)
           q == [k \in DOMAIN lots |-> lots[k].qty]
           r == [k \in DOMAIN more |-> more[k].qty]
           S == B \cap 1 .. m
<1>1. IsFiniteSet(S)
  <2>1. IsFiniteSet(1 .. m) /\ S \in SUBSET (1 .. m)
    BY FS_Interval
  <2> QED BY <2>1, FS_Subset
<1>2. BookLots(more, custody) \cap 1 .. m = S
  BY DEF BookLots
<1>3. \A k \in S : q[k] = r[k]
  OBVIOUS
<1>4. Upto(lots, custody, m) = Total(q, S) /\ Upto(more, custody, m) = Total(r, S)
  BY <1>2 DEF Upto, QtyOf
<1> HIDE DEF S, q, r
<1>5. Total(q, S) = Total(r, S)
  BY <1>1, <1>3, TotalSame
<1> QED BY <1>4, <1>5

\* What IsShareOf says, in the shares up to a lot.
LEMMA ShareOf ==
    \A lots, custody, u, k :
        IsShareOf(lots, custody, u, k)
          <=> /\ k \in BookLots(lots, custody)
              /\ Upto(lots, custody, k - 1) < u
              /\ u <= Upto(lots, custody, k - 1) + lots[k].qty
BY DEF IsShareOf, Older, Upto

\* A share belongs to one lot: its cost is that of a share of the lot.
LEMMA ShareCost ==
    ASSUME NEW lots \in Seq(Lot), NEW custody, NEW u \in Int, NEW k, IsShareOf(lots, custody, u, k)
    PROVE  UnitCost(lots, custody, u) = lots[k].cost \div lots[k].qty
<1> DEFINE D == DOMAIN lots
           B == BookLots(lots, custody)
           O(n) == Upto(lots, custody, n)
<1>0. B \in SUBSET D /\ D = 1 .. Len(lots) /\ Len(lots) \in Nat
  BY BookInDomain
<1>1. \A j \in B : O(j) = O(j - 1) + lots[j].qty
  BY <1>0, UptoGrows
<1>2. \A m \in 0 .. Len(lots) : \A n \in m .. Len(lots) : O(m) <= O(n)
  BY UptoMonotone
<1>3. \A n \in 0 .. Len(lots) : O(n) \in Nat
  BY UptoGrows
<1>4. \A j : IsShareOf(lots, custody, u, j) => j \in B /\ O(j - 1) < u /\ u <= O(j - 1) + lots[j].qty
  BY ShareOf
<1> HIDE DEF O, B
<1>5. \A i, j \in B : O(i - 1) < u /\ u <= O(i) /\ O(j - 1) < u /\ u <= O(j) => ~(i < j)
  <2> SUFFICES ASSUME NEW i \in B, NEW j \in B, i < j, u <= O(i), O(j - 1) < u PROVE FALSE
    OBVIOUS
  <2>1. i \in 0 .. Len(lots) /\ j - 1 \in i .. Len(lots)
    BY <1>0
  <2>2. O(i) <= O(j - 1) /\ O(i) \in Nat /\ O(j - 1) \in Nat
    BY <1>0, <1>2, <1>3, <2>1
  <2> QED BY <2>2
<1>6. ASSUME NEW j, IsShareOf(lots, custody, u, j) PROVE j = k
  <2>1. j \in B /\ k \in B /\ O(j - 1) < u /\ u <= O(j) /\ O(k - 1) < u /\ u <= O(k)
    BY <1>1, <1>4, <1>6
  <2>2. ~(j < k) /\ ~(k < j)
    BY <1>5, <2>1
  <2>3. j \in Int /\ k \in Int
    BY <1>0, <2>1
  <2> QED BY <2>2, <2>3
<1>7. k \in DOMAIN lots
  BY <1>0, <1>4
<1>8. (CHOOSE j \in DOMAIN lots : IsShareOf(lots, custody, u, j)) = k
  BY <1>6, <1>7
<1> QED BY <1>8 DEF UnitCost

\* Every share of a book belongs to a lot.
LEMMA ShareExists ==
    ASSUME NEW lots \in Seq(Lot), NEW custody, NEW u \in 1 .. Held(lots, custody)
    PROVE  \E k \in DOMAIN lots : IsShareOf(lots, custody, u, k)
<1> DEFINE O(n) == Upto(lots, custody, n)
           Enough == {n \in 0 .. Len(lots) : u <= O(n)}
<1>0. Len(lots) \in Nat /\ DOMAIN lots = 1 .. Len(lots)
  OBVIOUS
<1>1. /\ \A n \in 0 .. Len(lots) : O(n) \in Nat
      /\ O(0) = 0
      /\ \A n \in DOMAIN lots :
           O(n) = O(n - 1) + (IF n \in BookLots(lots, custody) THEN lots[n].qty ELSE 0)
      /\ Held(lots, custody) = O(Len(lots))
  BY UptoGrows
<1>2. u \in Nat /\ u >= 1 /\ u <= O(Len(lots))
  BY <1>0, <1>1
<1> HIDE DEF O
<1>3. PICK k \in Enough : \A m \in Enough : k <= m
  <2>1. Enough \in SUBSET Nat /\ Len(lots) \in Enough
    BY <1>0, <1>2
  <2> HIDE DEF Enough
  <2> QED BY <2>1, LeastElement
<1>4. k # 0
  BY <1>1, <1>2, <1>3
<1>5. k \in DOMAIN lots /\ k - 1 \in 0 .. Len(lots)
  BY <1>0, <1>3, <1>4
<1>6. O(k - 1) < u /\ O(k - 1) \in Nat
  BY <1>0, <1>1, <1>2, <1>3, <1>5
<1>7. k \in BookLots(lots, custody) /\ u <= O(k - 1) + lots[k].qty
  <2>1. u <= O(k)
    BY <1>3
  <2>2. CASE k \notin BookLots(lots, custody)
    <3>1. O(k) = O(k - 1) + 0
      BY <1>1, <1>5, <2>2
    <3> QED BY <1>2, <1>6, <2>1, <3>1
  <2>3. CASE k \in BookLots(lots, custody)
    BY <1>1, <1>5, <2>1, <2>3
  <2> QED BY <2>2, <2>3
<1>8. IsShareOf(lots, custody, u, k)
  BY <1>6, <1>7, ShareOf DEF O
<1> QED BY <1>5, <1>8

-------------------------------------------------------------------------------
\* The shares a sale takes.

Least(a, b) == IF a <= b THEN a ELSE b

\* Of the first lots of a book a sale takes all shares, or as many as are sold.
LEMMA TakenUpto ==
    ASSUME NEW lots \in Seq(Lot), FifoSorted(lots), NEW custody, NEW qty \in Nat,
           NEW n \in DOMAIN lots
    PROVE  /\ Taken(lots, custody, qty, n) \in 0 .. lots[n].qty
           /\ Taken(lots, custody, qty, n)
                = Least(qty, Upto(lots, custody, n)) - Least(qty, Upto(lots, custody, n - 1))
<1> DEFINE t == Taken(lots, custody, qty, n)
           before == Upto(lots, custody, n - 1)
           upto == Upto(lots, custody, n)
           q == lots[n].qty
           B == BookLots(lots, custody)
<1>1. t \in 0 .. q /\ (n \notin B => t = 0)
  BY TakenRange
<1>2. n \in B => t = IF qty <= before THEN 0 ELSE IF qty - before < q THEN qty - before ELSE q
  BY TakenInOrder DEF Upto
<1>3. upto = before + (IF n \in B THEN q ELSE 0)
  BY UptoGrows
<1>4. before \in Nat /\ upto \in Nat
  <2>1. n - 1 \in 0 .. Len(lots) /\ n \in 0 .. Len(lots)
    OBVIOUS
  <2> QED BY <2>1, UptoGrows
<1>5. q \in Nat
  <2>1. lots[n] \in Lot
    OBVIOUS
  <2> QED BY <2>1 DEF Lot
<1> HIDE DEF t, before, upto, q, B
<1>6. t = Least(qty, upto) - Least(qty, before)
  BY <1>1, <1>2, <1>3, <1>4, <1>5 DEF Least
<1> QED BY <1>1, <1>6 DEF t, before, upto, q

\* The lots after a sale of qty shares.
Remaining(lots, custody, qty) ==
    [k \in DOMAIN lots |->
        LET m == Taken(lots, custody, qty, k)
        IN  [lots[k] EXCEPT !.qty = @ - m, !.cost = @ - CostOfShares(lots[k], m)]]

\* The lots of one unit cost each.
WholeUnits(lots) == \A k \in DOMAIN lots : lots[k].qty > 0 /\ lots[k].cost % lots[k].qty = 0

Unit(lot) == lot.cost \div lot.qty

\* Shares of a lot with a whole unit cost.
LEMMA WholeCost ==
    ASSUME NEW lot \in Lot, lot.qty > 0, lot.cost % lot.qty = 0, NEW m \in 0 .. lot.qty
    PROVE  /\ Unit(lot) \in Nat
           /\ CostOfShares(lot, m) = m * Unit(lot)
           /\ lot.cost - CostOfShares(lot, m) = (lot.qty - m) * Unit(lot)
<1> DEFINE q == lot.qty
           c == lot.cost
           w == c \div q
<1>1. q \in Nat /\ q > 0 /\ c \in Nat /\ m \in Nat /\ m <= q /\ c % q = 0
  BY DEF Lot
<1>2. CostOfShares(lot, m) = (m * c) \div q /\ Unit(lot) = w
  BY DEF CostOfShares, Unit
<1> HIDE DEF q, c
<1>3. w \in Nat /\ c = q * w
  BY <1>1
<1> HIDE DEF w
<1>4. m * c = q * (m * w) /\ m * w \in Nat
  BY <1>1, <1>3
<1>5. (m * c) \div q = m * w
  <2> DEFINE x == m * w
             y == m * c
  <2>1. y = q * x /\ x \in Nat
    BY <1>4
  <2> HIDE DEF x, y
  <2>2. y \div q = x
    BY <1>1, <2>1
  <2> QED BY <2>2 DEF x, y
<1>6. c - m * w = (q - m) * w
  BY <1>1, <1>3
<1> QED BY <1>2, <1>3, <1>5, <1>6 DEF q, c

\* What a sale leaves of a lot: its own shares and unit cost.
LEMMA RemainingLot ==
    ASSUME NEW lots \in Seq(Lot), FifoSorted(lots), WholeUnits(lots), NEW custody,
           NEW qty \in Nat
    PROVE  LET left == Remaining(lots, custody, qty)
           IN  /\ left \in Seq(Lot) /\ DOMAIN left = DOMAIN lots
               /\ \A k \in DOMAIN lots :
                    /\ left[k].custody = lots[k].custody
                    /\ left[k].qty = lots[k].qty - Taken(lots, custody, qty, k)
                    /\ left[k].qty > 0 => Unit(left[k]) = Unit(lots[k])
                    /\ Taken(lots, custody, qty, k) = 0 => left[k] = lots[k]
<1> DEFINE left == Remaining(lots, custody, qty)
<1>1. ASSUME NEW k \in DOMAIN lots
      PROVE  /\ left[k] \in Lot
             /\ left[k].custody = lots[k].custody
             /\ left[k].qty = lots[k].qty - Taken(lots, custody, qty, k)
             /\ left[k].qty > 0 => Unit(left[k]) = Unit(lots[k])
             /\ Taken(lots, custody, qty, k) = 0 => left[k] = lots[k]
  <2> DEFINE m == Taken(lots, custody, qty, k)
             lot == lots[k]
             b == CostOfShares(lot, m)
             rest == Without(lot, m, b)
  <2>1. lot \in Lot /\ lot.qty > 0 /\ lot.cost % lot.qty = 0 /\ m \in 0 .. lot.qty
    <3>1. m \in 0 .. lots[k].qty
      BY TakenRange
    <3>2. lots[k] \in Lot
      OBVIOUS
    <3> QED BY <3>1, <3>2 DEF WholeUnits
  <2>2. left[k] = rest
    BY DEF Remaining, Without
  <2> HIDE DEF m, left
  <2>3. b \in 0 .. lot.cost /\ (m = 0 => b = 0)
    BY <2>1, CostOfPart
  <2>4. Unit(lot) \in Nat /\ lot.cost - b = (lot.qty - m) * Unit(lot)
    BY <2>1, WholeCost
  <2> HIDE DEF b, lot
  <2>5. rest \in Lot /\ rest.qty = lot.qty - m /\ rest.cost = lot.cost - b
    BY <2>1, <2>3, LotReduced
  <2>6. rest.custody = lot.custody
    BY <2>1 DEF Without, Lot
  <2>7. m = 0 => rest = lot
    <3> SUFFICES ASSUME m = 0 PROVE rest = lot
      OBVIOUS
    <3>1. b = 0 /\ lot.qty - m = lot.qty /\ lot.cost - b = lot.cost
      BY <2>1, <2>3, SMTT(30) DEF Lot
    <3> QED BY <2>1, <3>1 DEF Without, Lot
  <2>8. rest.qty > 0 => Unit(rest) = Unit(lot)
    <3> DEFINE x == rest.qty
               w == Unit(lot)
    <3>1. x \in Nat /\ w \in Nat /\ rest.cost = x * w
      BY <2>4, <2>5 DEF Lot
    <3>2. Unit(rest) = (x * w) \div x
      BY <3>1 DEF Unit
    <3> HIDE DEF x, w
    <3>3. x > 0 => (x * w) \div x = w
      BY <3>1
    <3> QED BY <3>2, <3>3 DEF x, w
  <2> QED BY <2>2, <2>5, <2>6, <2>7, <2>8 DEF lot, m
<1>2. DOMAIN left = DOMAIN lots /\ left = [k \in DOMAIN lots |-> left[k]]
  BY DEF Remaining
<1> HIDE DEF left
<1>3. left \in Seq(Lot)
  <2>1. DOMAIN lots = 1 .. Len(lots) /\ Len(lots) \in Nat
    OBVIOUS
  <2>2. left \in [1 .. Len(lots) -> Lot]
    BY <1>1, <1>2, <2>1
  <2> QED BY <2>1, <2>2
<1>4. /\ left \in Seq(Lot) /\ DOMAIN left = DOMAIN lots
      /\ \A k \in DOMAIN lots :
           /\ left[k].custody = lots[k].custody
           /\ left[k].qty = lots[k].qty - Taken(lots, custody, qty, k)
           /\ left[k].qty > 0 => Unit(left[k]) = Unit(lots[k])
           /\ Taken(lots, custody, qty, k) = 0 => left[k] = lots[k]
  BY <1>1, <1>2, <1>3
<1> QED BY <1>4 DEF left

\* Sequences with the same indexes are equally long.
LEMMA SameLength ==
    ASSUME NEW s \in Seq(Lot), NEW t \in Seq(Lot), DOMAIN s = DOMAIN t
    PROVE  Len(s) = Len(t)
<1> DEFINE a == Len(s)
           b == Len(t)
<1>1. 1 .. a = 1 .. b /\ a \in Nat /\ b \in Nat
  OBVIOUS
<1> HIDE DEF a, b
<1>2. (a > b => a \in 1 .. a /\ a \notin 1 .. b) /\ (b > a => b \in 1 .. b /\ b \notin 1 .. a)
  BY <1>1
<1>3. a = b
  BY <1>1, <1>2
<1> QED BY <1>3 DEF a, b

\* A sale takes the first shares of the book: of the first lots it leaves what exceeds it.
LEMMA RemainingUpto ==
    ASSUME NEW lots \in Seq(Lot), FifoSorted(lots), WholeUnits(lots), NEW custody,
           NEW qty \in Nat, NEW n \in 0 .. Len(lots)
    PROVE  Upto(Remaining(lots, custody, qty), custody, n)
             = Upto(lots, custody, n) - Least(qty, Upto(lots, custody, n))
<1> DEFINE left == Remaining(lots, custody, qty)
           O(m) == Upto(lots, custody, m)
           P(m) == Upto(left, custody, m)
           B == BookLots(lots, custody)
           Right(m) == P(m) = O(m) - Least(qty, O(m))
           Wrong == {m \in 0 .. Len(lots) : ~Right(m)}
<1>0. /\ left \in Seq(Lot) /\ DOMAIN left = DOMAIN lots
      /\ \A k \in DOMAIN lots : /\ left[k].custody = lots[k].custody
                                /\ left[k].qty = lots[k].qty - Taken(lots, custody, qty, k)
  BY RemainingLot
<1>1. BookLots(left, custody) = B
  <2> HIDE DEF left
  <2> QED BY <1>0 DEF BookLots, InBook
<1>2. Len(left) = Len(lots) /\ Len(lots) \in Nat /\ DOMAIN lots = 1 .. Len(lots)
  <2> HIDE DEF left
  <2>1. DOMAIN left = 1 .. Len(left) /\ Len(left) \in Nat
    BY <1>0
  <2>2. DOMAIN lots = 1 .. Len(lots) /\ Len(lots) \in Nat
    OBVIOUS
  <2>3. Len(left) = Len(lots)
    BY <1>0, SameLength
  <2> QED BY <2>2, <2>3
<1>3. /\ \A m \in 0 .. Len(lots) : O(m) \in Nat
      /\ O(0) = 0
      /\ \A m \in DOMAIN lots : O(m) = O(m - 1) + (IF m \in B THEN lots[m].qty ELSE 0)
  BY UptoGrows
<1>4. /\ \A m \in 0 .. Len(lots) : P(m) \in Nat
      /\ P(0) = 0
      /\ \A m \in DOMAIN lots : P(m) = P(m - 1) + (IF m \in B THEN left[m].qty ELSE 0)
  <2> HIDE DEF left
  <2>1. /\ \A m \in 0 .. Len(left) : Upto(left, custody, m) \in Nat
        /\ Upto(left, custody, 0) = 0
        /\ \A m \in DOMAIN left :
             Upto(left, custody, m) = Upto(left, custody, m - 1)
                                      + (IF m \in BookLots(left, custody) THEN left[m].qty ELSE 0)
    BY <1>0, UptoGrows
  <2> QED BY <1>0, <1>1, <1>2, <2>1
<1>5. \A m \in DOMAIN lots : Taken(lots, custody, qty, m) = Least(qty, O(m)) - Least(qty, O(m - 1))
  BY TakenUpto
<1>6. \A m \in DOMAIN lots : lots[m].qty \in Nat
  <2>1. \A m \in DOMAIN lots : lots[m] \in Lot
    OBVIOUS
  <2> QED BY <2>1 DEF Lot
<1> HIDE DEF left, O, P, B
<1>7. Right(0)
  BY <1>3, <1>4 DEF Least
<1>8. ASSUME NEW m \in DOMAIN lots, Right(m - 1) PROVE Right(m)
  <2>1. m - 1 \in 0 .. Len(lots) /\ m \in 0 .. Len(lots)
    BY <1>2
  <2>2. O(m) \in Nat /\ O(m - 1) \in Nat /\ P(m) \in Nat /\ P(m - 1) \in Nat /\ lots[m].qty \in Nat
    BY <1>3, <1>4, <1>6, <2>1
  <2>3. left[m].qty = lots[m].qty - (Least(qty, O(m)) - Least(qty, O(m - 1)))
    BY <1>0, <1>5
  <2>4. P(m - 1) = O(m - 1) - Least(qty, O(m - 1))
    BY <1>8
  <2>5. CASE m \in B
    <3>1. P(m) = P(m - 1) + left[m].qty /\ O(m) = O(m - 1) + lots[m].qty
      BY <1>3, <1>4, <2>5
    <3>2. Least(qty, O(m)) \in Nat /\ Least(qty, O(m - 1)) \in Nat
      BY <2>2 DEF Least
    <3> QED BY <2>2, <2>3, <2>4, <3>1, <3>2
  <2>6. CASE m \notin B
    <3>1. P(m) = P(m - 1) + 0 /\ O(m) = O(m - 1) + 0
      BY <1>3, <1>4, <2>6
    <3>2. P(m) = P(m - 1) /\ O(m) = O(m - 1)
      BY <2>2, <3>1
    <3> QED BY <2>4, <3>2
  <2> QED BY <2>5, <2>6
<1>9. Wrong = {}
  <2> SUFFICES ASSUME Wrong # {} PROVE FALSE
    OBVIOUS
  <2> HIDE DEF Right
  <2>1. PICK m \in Wrong : \A j \in Wrong : m <= j
    <3>1. Wrong \in SUBSET Nat
      BY <1>2
    <3> HIDE DEF Wrong
    <3> QED BY <3>1, LeastElement
  <2>2. m # 0
    BY <1>7
  <2>3. m - 1 \in 0 .. Len(lots) /\ ~(m <= m - 1) /\ m \in DOMAIN lots
    BY <2>2, <1>2
  <2>4. Right(m - 1)
    BY <2>1, <2>3
  <2> QED BY <1>8, <2>3, <2>4
<1>10. Right(n)
  <2> HIDE DEF Right
  <2> QED BY <1>9
<1> QED BY <1>10 DEF O, P, left

\* What is known of the first n lots once the empty ones are dropped: each lot that is
\* left has as many older shares of the book before it as it had, and none is missing.
KeptShares(lots, open, custody, n) ==
    /\ open \in Seq(Lot)
    /\ \A i \in DOMAIN open :
         \E j \in 1 .. n : /\ open[i] = lots[j] /\ lots[j].qty > 0
                           /\ Upto(open, custody, i - 1) = Upto(lots, custody, j - 1)
    /\ \A j \in 1 .. n : lots[j].qty > 0 => \E i \in DOMAIN open : open[i] = lots[j]
    /\ Held(open, custody) = Upto(lots, custody, n)

\* A lot that is not empty is kept, behind as many shares.
LEMMA LotKept ==
    ASSUME NEW lots \in Seq(Lot), NEW custody, NEW n \in DOMAIN lots, NEW open,
           KeptShares(lots, open, custody, n - 1), lots[n].qty > 0
    PROVE  KeptShares(lots, Append(open, lots[n]), custody, n)
<1> DEFINE more == Append(open, lots[n])
           x == Len(open) + 1
           O(j) == Upto(lots, custody, j)
           P(i) == Upto(open, custody, i)
           Q(i) == Upto(more, custody, i)
<1>0. /\ open \in Seq(Lot)
      /\ \A i \in DOMAIN open : \E j \in 1 .. n - 1 : /\ open[i] = lots[j] /\ lots[j].qty > 0
                                                      /\ P(i - 1) = O(j - 1)
      /\ \A j \in 1 .. n - 1 : lots[j].qty > 0 => \E i \in DOMAIN open : open[i] = lots[j]
      /\ Held(open, custody) = O(n - 1)
  BY DEF KeptShares
<1>1. /\ lots[n] \in Lot /\ more \in Seq(Lot) /\ Len(open) \in Nat /\ x \in Nat
      /\ DOMAIN open = 1 .. Len(open) /\ DOMAIN more = 1 .. x /\ Len(more) = x
      /\ more[x] = lots[n] /\ \A i \in DOMAIN open : more[i] = open[i]
      /\ n \in Int /\ x >= 1
  BY <1>0
<1>2. \A i \in 0 .. Len(open) : Q(i) = P(i)
  <2> SUFFICES ASSUME NEW i \in 0 .. Len(open) PROVE Q(i) = P(i)
    OBVIOUS
  <2>1. i \in Nat /\ i <= Len(open) /\ i <= Len(more) /\ \A k \in 1 .. i : more[k] = open[k]
    BY <1>1
  <2> HIDE DEF more
  <2>2. more \in Seq(Lot) /\ open \in Seq(Lot)
    BY <1>0, <1>1
  <2>3. Upto(more, custody, i) = Upto(open, custody, i)
    BY <2>1, <2>2, UptoSame
  <2> QED BY <2>3
<1>3. Held(open, custody) = P(Len(open))
  BY <1>0, UptoGrows
<1>4. /\ Held(more, custody) = Q(x)
      /\ Q(x) = Q(x - 1) + (IF x \in BookLots(more, custody) THEN lots[n].qty ELSE 0)
  <2>1. x \in DOMAIN more
    <3> HIDE DEF more, x
    <3> QED BY <1>1
  <2> HIDE DEF more
  <2>2. /\ \A k \in DOMAIN more :
             Upto(more, custody, k) = Upto(more, custody, k - 1)
                                      + (IF k \in BookLots(more, custody) THEN more[k].qty ELSE 0)
        /\ Held(more, custody) = Upto(more, custody, Len(more))
    BY <1>1, UptoGrows
  <2> QED BY <1>1, <2>1, <2>2
<1>5. x \in BookLots(more, custody) <=> n \in BookLots(lots, custody)
  BY <1>1 DEF BookLots
<1>6. O(n) = O(n - 1) + (IF n \in BookLots(lots, custody) THEN lots[n].qty ELSE 0)
  BY UptoGrows
<1>7. x - 1 = Len(open) /\ Q(x - 1) = O(n - 1)
  <2>1. x - 1 = Len(open) /\ Len(open) \in 0 .. Len(open)
    BY <1>1
  <2> QED BY <1>0, <1>2, <1>3, <2>1
<1> HIDE DEF more, O, P, Q, x
<1>8. Held(more, custody) = O(n)
  BY <1>4, <1>5, <1>6, <1>7
<1>9. ASSUME NEW i \in DOMAIN more
      PROVE  \E j \in 1 .. n : more[i] = lots[j] /\ lots[j].qty > 0 /\ Q(i - 1) = O(j - 1)
  <2>1. CASE i = x
    <3>1. n \in 1 .. n
      BY <1>1
    <3> QED BY <1>1, <1>7, <2>1, <3>1
  <2>2. CASE i # x
    <3>1. i \in DOMAIN open /\ i - 1 \in 0 .. Len(open)
      BY <1>1, <1>7, <2>2
    <3>2. PICK j \in 1 .. n - 1 : open[i] = lots[j] /\ lots[j].qty > 0 /\ P(i - 1) = O(j - 1)
      BY <1>0, <3>1
    <3>3. j \in 1 .. n
      BY <1>1
    <3> QED BY <1>1, <1>2, <3>1, <3>2, <3>3
  <2> QED BY <2>1, <2>2
<1>10. ASSUME NEW j \in 1 .. n, lots[j].qty > 0 PROVE \E i \in DOMAIN more : more[i] = lots[j]
  <2>1. CASE j = n
    <3>1. x \in DOMAIN more
      BY <1>1
    <3> QED BY <1>1, <2>1, <3>1
  <2>2. CASE j # n
    <3>1. j \in 1 .. n - 1
      BY <1>1, <2>2
    <3>2. PICK i \in DOMAIN open : open[i] = lots[j]
      BY <1>0, <1>10, <3>1
    <3>3. i \in DOMAIN more
      BY <1>1, <1>7
    <3> QED BY <1>1, <3>2, <3>3
  <2> QED BY <2>1, <2>2
<1>11. KeptShares(lots, more, custody, n)
  BY <1>1, <1>8, <1>9, <1>10 DEF KeptShares, O, Q
<1> QED BY <1>11 DEF more

\* Dropping the empty lots drops no share and no lot with shares.
LEMMA OpenShares ==
    ASSUME NEW lots \in Seq(Lot), NEW custody
    PROVE  KeptShares(lots, OpenLots(lots), custody, Len(lots))
<1>1. PICK o : o = OpenUpto(lots, o) /\ OpenLots(lots) = o[Len(lots)]
  BY OpenIsLast
<1> DEFINE Right(n) == KeptShares(lots, o[n], custody, n)
           Wrong == {n \in 0 .. Len(lots) : ~Right(n)}
<1>0. Len(lots) \in Nat /\ DOMAIN lots = 1 .. Len(lots)
  OBVIOUS
<1>2. Right(0)
  <2>1. o[0] = <<>>
    BY <1>0, <1>1 DEF OpenUpto
  <2>2. Upto(lots, custody, 0) = 0
    BY UptoGrows
  <2>3. Held(<<>>, custody) = 0
    <3>1. BookLots(<<>>, custody) = {}
      BY DEF BookLots
    <3> QED BY <3>1, TotalEmpty DEF Held, QtyOf
  <2>4. KeptShares(lots, <<>>, custody, 0)
    BY <2>2, <2>3 DEF KeptShares
  <2> QED BY <2>1, <2>4
<1>3. ASSUME NEW n \in DOMAIN lots, Right(n - 1) PROVE Right(n)
  <2>1. o[n] = IF lots[n].qty > 0 THEN Append(o[n - 1], lots[n]) ELSE o[n - 1]
    <3>1. n \in 0 .. Len(lots) /\ n # 0
      BY <1>0
    <3> QED BY <1>1, <3>1 DEF OpenUpto
  <2>2. CASE lots[n].qty > 0
    <3>1. KeptShares(lots, Append(o[n - 1], lots[n]), custody, n)
      BY <1>3, <2>2, LotKept
    <3> QED BY <2>1, <2>2, <3>1
  <2>3. CASE ~(lots[n].qty > 0)
    <3>1. o[n] = o[n - 1]
      BY <2>1, <2>3
    <3>2. lots[n].qty = 0
      <4>1. lots[n] \in Lot
        OBVIOUS
      <4> QED BY <2>3, <4>1 DEF Lot
    <3>3. Upto(lots, custody, n) = Upto(lots, custody, n - 1)
      <4>1. Upto(lots, custody, n)
              = Upto(lots, custody, n - 1) + (IF n \in BookLots(lots, custody) THEN lots[n].qty ELSE 0)
        BY UptoGrows
      <4>2. n - 1 \in 0 .. Len(lots)
        BY <1>0
      <4>3. Upto(lots, custody, n - 1) \in Nat
        BY <4>2, UptoGrows
      <4> QED BY <3>2, <4>1, <4>3
    <3>4. \A j \in 1 .. n - 1 : j \in 1 .. n
      BY <1>0
    <3>5. \A j \in 1 .. n : lots[j].qty > 0 => j \in 1 .. n - 1
      BY <1>0, <2>3
    <3> QED BY <1>3, <3>1, <3>3, <3>4, <3>5 DEF KeptShares
  <2> QED BY <2>2, <2>3
<1>4. Wrong = {}
  <2> SUFFICES ASSUME Wrong # {} PROVE FALSE
    OBVIOUS
  <2> HIDE DEF Right
  <2>1. PICK n \in Wrong : \A j \in Wrong : n <= j
    <3>1. Wrong \in SUBSET Nat
      BY <1>0
    <3> HIDE DEF Wrong
    <3> QED BY <3>1, LeastElement
  <2>2. n # 0
    BY <1>2
  <2>3. n - 1 \in 0 .. Len(lots) /\ ~(n <= n - 1) /\ n \in DOMAIN lots
    BY <2>2, <1>0
  <2>4. Right(n - 1)
    BY <2>1, <2>3
  <2> QED BY <1>3, <2>3, <2>4
<1>5. Right(Len(lots))
  <2> HIDE DEF Right
  <2> QED BY <1>0, <1>4
<1> QED BY <1>1, <1>5

\* After a sale the book holds its youngest shares, at their own unit cost.
LEMMA YoungestLeft ==
    ASSUME NEW lots \in Seq(Lot), FifoSorted(lots), WholeUnits(lots), NEW custody,
           NEW qty \in Nat, qty <= Held(lots, custody)
    PROVE  LET open == OpenLots(Remaining(lots, custody, qty))
           IN  /\ Held(open, custody) = Held(lots, custody) - qty
               /\ \A u \in 1 .. Held(open, custody) :
                    UnitCost(open, custody, u) = UnitCost(lots, custody, u + qty)
<1> DEFINE left == Remaining(lots, custody, qty)
           open == OpenLots(left)
           O(n) == Upto(lots, custody, n)
           P(n) == Upto(left, custody, n)
           Q(n) == Upto(open, custody, n)
<1>0. /\ left \in Seq(Lot) /\ DOMAIN left = DOMAIN lots
      /\ \A k \in DOMAIN lots : /\ left[k].custody = lots[k].custody
                                /\ left[k].qty > 0 => Unit(left[k]) = Unit(lots[k])
  BY RemainingLot
<1>1. KeptShares(left, open, custody, Len(left))
  <2> HIDE DEF left
  <2> QED BY <1>0, OpenShares
<1>2. \A n \in 0 .. Len(lots) : P(n) = O(n) - Least(qty, O(n))
  BY RemainingUpto
<1>3. /\ \A n \in 0 .. Len(lots) : O(n) \in Nat
      /\ \A n \in DOMAIN lots :
           O(n) = O(n - 1) + (IF n \in BookLots(lots, custody) THEN lots[n].qty ELSE 0)
      /\ Held(lots, custody) = O(Len(lots))
  BY UptoGrows
<1>4. \A n \in DOMAIN left :
        P(n) = P(n - 1) + (IF n \in BookLots(left, custody) THEN left[n].qty ELSE 0)
  <2> HIDE DEF left
  <2> QED BY <1>0, UptoGrows
<1>5. Held(left, custody) = P(Len(left)) /\ Len(left) = Len(lots)
      /\ DOMAIN lots = 1 .. Len(lots) /\ Len(lots) \in Nat
  <2>1. Held(left, custody) = P(Len(left))
    <3> HIDE DEF left
    <3> QED BY <1>0, UptoGrows
  <2>2. /\ DOMAIN left = 1 .. Len(left) /\ Len(left) \in Nat
        /\ DOMAIN lots = 1 .. Len(lots) /\ Len(lots) \in Nat
    <3> HIDE DEF left
    <3> QED BY <1>0
  <2>3. Len(left) = Len(lots)
    <3> HIDE DEF left
    <3> QED BY <1>0, SameLength
  <2> QED BY <2>1, <2>2, <2>3
<1>6. BookLots(left, custody) = BookLots(lots, custody)
  <2> HIDE DEF left
  <2> QED BY <1>0 DEF BookLots, InBook
<1>7. \A k \in DOMAIN lots : lots[k].qty \in Nat /\ left[k].qty \in Nat
  <2>1. \A k \in DOMAIN lots : lots[k] \in Lot /\ left[k] \in Lot
    <3> HIDE DEF left
    <3> QED BY <1>0
  <2> HIDE DEF left
  <2> QED BY <2>1 DEF Lot
<1> HIDE DEF left, open
<1>8. /\ open \in Seq(Lot) /\ Held(open, custody) = P(Len(left))
      /\ \A i \in DOMAIN open : \E j \in 1 .. Len(left) :
           open[i] = left[j] /\ left[j].qty > 0 /\ Q(i - 1) = P(j - 1)
  BY <1>1 DEF KeptShares
<1> HIDE DEF O, P, Q
<1>9. Held(open, custody) = Held(lots, custody) - qty
  <2>1. Len(lots) \in 0 .. Len(lots)
    BY <1>5
  <2>2. O(Len(lots)) \in Nat /\ P(Len(lots)) = O(Len(lots)) - Least(qty, O(Len(lots)))
    BY <1>2, <1>3, <2>1
  <2> QED BY <1>3, <1>5, <1>8, <2>2 DEF Least
<1>10. ASSUME NEW u \in 1 .. Held(open, custody)
       PROVE  UnitCost(open, custody, u) = UnitCost(lots, custody, u + qty)
  <2>1. PICK i \in DOMAIN open : IsShareOf(open, custody, u, i)
    BY <1>8, ShareExists
  <2>2. i \in BookLots(open, custody) /\ Q(i - 1) < u /\ u <= Q(i - 1) + open[i].qty
    BY <2>1, ShareOf DEF Q
  <2>3. PICK j \in 1 .. Len(left) : open[i] = left[j] /\ left[j].qty > 0 /\ Q(i - 1) = P(j - 1)
    BY <1>8
  <2>4. j \in DOMAIN lots /\ j \in 0 .. Len(lots) /\ j - 1 \in 0 .. Len(lots)
    BY <1>5
  <2>5. j \in BookLots(lots, custody)
    BY <1>0, <2>2, <2>3, <2>4 DEF BookLots, InBook
  <2>6. /\ u \in Nat /\ u >= 1 /\ P(j - 1) < u /\ u <= P(j - 1) + left[j].qty
        /\ P(j) = P(j - 1) + left[j].qty
    <3>1. Held(lots, custody) \in Int
      <4>1. Len(lots) \in 0 .. Len(lots)
        BY <1>5
      <4> QED BY <1>3, <4>1
    <3>2. u \in Nat /\ u >= 1
      BY <1>9, <3>1
    <3>3. P(j) = P(j - 1) + left[j].qty
      BY <1>0, <1>4, <1>6, <2>4, <2>5
    <3> QED BY <2>2, <2>3, <3>2, <3>3
  <2>7. /\ P(j - 1) = O(j - 1) - Least(qty, O(j - 1)) /\ P(j) = O(j) - Least(qty, O(j))
        /\ O(j) = O(j - 1) + lots[j].qty
        /\ O(j - 1) \in Nat /\ O(j) \in Nat /\ lots[j].qty \in Nat /\ left[j].qty \in Nat
    BY <1>2, <1>3, <1>7, <2>4, <2>5
  <2>8. O(j - 1) < u + qty /\ u + qty <= O(j)
    BY <2>6, <2>7 DEF Least
  <2>9. IsShareOf(lots, custody, u + qty, j)
    BY <2>5, <2>7, <2>8, ShareOf DEF O
  <2>10. UnitCost(lots, custody, u + qty) = Unit(lots[j])
    <3>1. u + qty \in Int
      BY <2>6
    <3> QED BY <2>9, <3>1, ShareCost DEF Unit
  <2>11. UnitCost(open, custody, u) = Unit(open[i])
    <3>1. u \in Int
      BY <2>6
    <3> QED BY <1>8, <2>1, <3>1, ShareCost DEF Unit
  <2> QED BY <1>0, <2>3, <2>4, <2>10, <2>11
<1> QED BY <1>9, <1>10 DEF open, left

\* A run of equal terms.
LEMMA TotalRun ==
    ASSUME NEW f, NEW a \in Nat, NEW w \in Int, NEW m \in Nat,
           \A u \in 1 .. a + m : f[u] \in Int, \A u \in a + 1 .. a + m : f[u] = w
    PROVE  Total(f, 1 .. a + m) = Total(f, 1 .. a) + m * w
<1> DEFINE Right(n) == Total(f, 1 .. a + n) = Total(f, 1 .. a) + n * w
           Wrong == {n \in 0 .. m : ~Right(n)}
<1>1. \A n \in 0 .. m : Total(f, 1 .. a + n) \in Int
  <2>1. IsFiniteSet(1 .. a + m)
    BY FS_Interval
  <2>2. \A n \in 0 .. m : 1 .. a + n \in SUBSET (1 .. a + m)
    OBVIOUS
  <2> QED BY <2>1, <2>2, TotalInt
<1>2. Right(0)
  <2> DEFINE sum == Total(f, 1 .. a)
  <2>1. sum \in Int
    <3>1. 0 \in 0 .. m /\ a + 0 = a
      OBVIOUS
    <3> QED BY <1>1, <3>1
  <2>2. Total(f, 1 .. a + 0) = sum
    <3>1. a + 0 = a
      OBVIOUS
    <3> QED BY <3>1
  <2> HIDE DEF sum
  <2>3. sum = sum + 0 * w
    BY <2>1
  <2> QED BY <2>2, <2>3 DEF sum
<1>3. ASSUME NEW n \in 1 .. m, Right(n - 1) PROVE Right(n)
  <2> DEFINE K == 1 .. a + (n - 1)
             x == a + n
  <2>1. 1 .. a + n = K \cup {x} /\ x \notin K
    OBVIOUS
  <2>2. IsFiniteSet(K)
    BY FS_Interval
  <2>3. f[x] = w /\ \A u \in K : f[u] \in Int
    OBVIOUS
  <2> HIDE DEF K, x
  <2>4. Total(f, K \cup {x}) = Total(f, K) + f[x]
    BY <2>1, <2>2, <2>3, TotalAdd
  <2>5. Total(f, K) = Total(f, 1 .. a) + (n - 1) * w
    BY <1>3 DEF K
  <2> DEFINE v == (n - 1) * w
  <2>6. v \in Int /\ n * w = v + w
    OBVIOUS
  <2>7. Total(f, 1 .. a) \in Int
    <3>1. 0 \in 0 .. m /\ a + 0 = a
      OBVIOUS
    <3> QED BY <1>1, <3>1
  <2> HIDE DEF v
  <2>8. Total(f, 1 .. a + n) = (Total(f, 1 .. a) + v) + w
    BY <2>1, <2>3, <2>4, <2>5 DEF v
  <2> QED BY <2>6, <2>7, <2>8
<1>4. Wrong = {}
  <2> SUFFICES ASSUME Wrong # {} PROVE FALSE
    OBVIOUS
  <2> HIDE DEF Right
  <2>1. PICK n \in Wrong : \A j \in Wrong : n <= j
    <3>1. Wrong \in SUBSET Nat
      OBVIOUS
    <3> HIDE DEF Wrong
    <3> QED BY <3>1, LeastElement
  <2>2. n # 0
    BY <1>2
  <2>3. n - 1 \in 0 .. m /\ ~(n <= n - 1) /\ n \in 1 .. m
    BY <2>2
  <2>4. Right(n - 1)
    BY <2>1, <2>3
  <2> QED BY <1>3, <2>3, <2>4
<1>5. Right(m)
  <2> HIDE DEF Right
  <2> QED BY <1>4
<1> QED BY <1>5

\* What a sale disposes of costs what its oldest shares cost, one by one.
LEMMA DisposedByShare ==
    ASSUME NEW lots \in Seq(Lot), FifoSorted(lots), WholeUnits(lots), NEW custody,
           NEW qty \in Nat, qty <= Held(lots, custody)
    PROVE  DisposedCost(lots, custody, qty)
             = Total([u \in 1 .. qty |-> UnitCost(lots, custody, u)], 1 .. qty)
<1> DEFINE D == DOMAIN lots
           c == [k \in DOMAIN lots |-> CostOfShares(lots[k], Taken(lots, custody, qty, k))]
           U == [u \in 1 .. qty |-> UnitCost(lots, custody, u)]
           O(n) == Upto(lots, custody, n)
           S(n) == Least(qty, O(n))
           Right(n) == Total(U, 1 .. S(n)) = Total(c, 1 .. n)
           Wrong == {n \in 0 .. Len(lots) : ~Right(n)}
<1>0. D = 1 .. Len(lots) /\ Len(lots) \in Nat /\ IsFiniteSet(D)
  BY FiniteDomain
<1>1. /\ \A n \in 0 .. Len(lots) : O(n) \in Nat
      /\ O(0) = 0
      /\ \A n \in DOMAIN lots :
           O(n) = O(n - 1) + (IF n \in BookLots(lots, custody) THEN lots[n].qty ELSE 0)
      /\ Held(lots, custody) = O(Len(lots))
  BY UptoGrows
<1>2. \A k \in D : /\ lots[k] \in Lot /\ lots[k].qty \in Nat /\ lots[k].qty > 0
                   /\ lots[k].cost % lots[k].qty = 0
  <2>1. \A k \in D : lots[k] \in Lot
    OBVIOUS
  <2> QED BY <2>1 DEF Lot, WholeUnits
<1>3. \A k \in D : /\ Unit(lots[k]) \in Nat
                   /\ Taken(lots, custody, qty, k) \in 0 .. lots[k].qty
                   /\ c[k] = Taken(lots, custody, qty, k) * Unit(lots[k])
                   /\ Taken(lots, custody, qty, k) = S(k) - S(k - 1)
  <2> SUFFICES ASSUME NEW k \in D
               PROVE  /\ Unit(lots[k]) \in Nat
                      /\ Taken(lots, custody, qty, k) \in 0 .. lots[k].qty
                      /\ c[k] = Taken(lots, custody, qty, k) * Unit(lots[k])
                      /\ Taken(lots, custody, qty, k) = S(k) - S(k - 1)
    OBVIOUS
  <2> DEFINE m == Taken(lots, custody, qty, k)
             lot == lots[k]
  <2>1. m \in 0 .. lot.qty /\ m = S(k) - S(k - 1)
    BY TakenUpto
  <2>2. lot \in Lot /\ lot.qty > 0 /\ lot.cost % lot.qty = 0
    BY <1>2
  <2>3. c[k] = CostOfShares(lot, m)
    OBVIOUS
  <2> HIDE DEF m, lot, c, S
  <2>4. Unit(lot) \in Nat /\ CostOfShares(lot, m) = m * Unit(lot)
    BY <2>1, <2>2, WholeCost
  <2> QED BY <2>1, <2>3, <2>4 DEF m, lot
<1>4. ASSUME NEW u \in 1 .. qty, NEW k \in D, IsShareOf(lots, custody, u, k)
      PROVE  U[u] = Unit(lots[k])
  <2>1. u \in Int
    OBVIOUS
  <2>2. UnitCost(lots, custody, u) = Unit(lots[k])
    BY <1>4, <2>1, ShareCost DEF Unit
  <2> QED BY <2>2
<1>5. \A u \in 1 .. qty : U[u] \in Int
  <2> SUFFICES ASSUME NEW u \in 1 .. qty PROVE U[u] \in Int
    OBVIOUS
  <2>1. u \in 1 .. Held(lots, custody)
    <3>1. Len(lots) \in 0 .. Len(lots)
      BY <1>0
    <3>2. Held(lots, custody) \in Nat
      BY <1>1, <3>1
    <3> QED BY <3>2
  <2>2. PICK k \in DOMAIN lots : IsShareOf(lots, custody, u, k)
    BY <2>1, ShareExists
  <2> HIDE DEF U
  <2> QED BY <1>3, <1>4, <2>2
<1>6. \A n \in 0 .. Len(lots) : S(n) \in 0 .. qty
  <2> HIDE DEF O
  <2> QED BY <1>1 DEF Least
<1>7. Right(0)
  <2>1. S(0) = 0
    <3> HIDE DEF O
    <3> QED BY <1>1 DEF Least
  <2> HIDE DEF S, U, c
  <2>2. 1 .. 0 = {} /\ 1 .. S(0) = {}
    BY <2>1
  <2>3. Total(U, 1 .. S(0)) = Total(U, {}) /\ Total(c, 1 .. 0) = Total(c, {})
    BY <2>2
  <2>4. Total(U, {}) = Total(c, {})
    BY TotalEmpty
  <2> QED BY <2>3, <2>4
<1>8. ASSUME NEW n \in D, Right(n - 1) PROVE Right(n)
  <2> DEFINE a == S(n - 1)
             m == Taken(lots, custody, qty, n)
             w == Unit(lots[n])
  <2>1. /\ n \in 0 .. Len(lots) /\ n - 1 \in 0 .. Len(lots)
        /\ S(n) \in 0 .. qty /\ a \in 0 .. qty /\ m \in Nat /\ w \in Nat
        /\ S(n) = a + m /\ c[n] = m * w
    <3>1. n \in 0 .. Len(lots) /\ n - 1 \in 0 .. Len(lots)
      BY <1>0
    <3>2. S(n) \in 0 .. qty /\ S(n - 1) \in 0 .. qty
      BY <1>6, <3>1
    <3>3. m \in 0 .. lots[n].qty /\ m = S(n) - S(n - 1) /\ w \in Nat /\ c[n] = m * w
      BY <1>3
    <3>4. lots[n].qty \in Nat
      BY <1>2
    <3> HIDE DEF S, m, w, c
    <3> QED BY <3>1, <3>2, <3>3, <3>4
  <2>2. \A u \in a + 1 .. a + m : U[u] = w
    <3> SUFFICES ASSUME NEW u \in a + 1 .. a + m PROVE U[u] = w
      OBVIOUS
    <3>1. O(n) \in Nat /\ O(n - 1) \in Nat /\ lots[n].qty \in Nat
      BY <1>1, <1>2, <2>1
    <3>2. /\ u \in Int /\ a < u /\ u <= S(n) /\ u \in 1 .. qty
      <4> HIDE DEF S, m
      <4> QED BY <2>1
    <3>3. /\ a = Least(qty, O(n - 1)) /\ S(n) = Least(qty, O(n))
      OBVIOUS
    <3>4. O(n) = O(n - 1) + (IF n \in BookLots(lots, custody) THEN lots[n].qty ELSE 0)
      BY <1>1
    <3> HIDE DEF a, S, O
    <3>5. n \in BookLots(lots, custody) /\ O(n - 1) < u /\ u <= O(n - 1) + lots[n].qty
      <4>1. CASE n \notin BookLots(lots, custody)
        <5>1. O(n) = O(n - 1)
          BY <3>1, <3>4, <4>1
        <5>2. S(n) = a
          BY <3>3, <5>1
        <5> QED BY <3>2, <5>2, <2>1
      <4>2. CASE n \in BookLots(lots, custody)
        <5>1. O(n) = O(n - 1) + lots[n].qty
          BY <3>4, <4>2
        <5> QED BY <3>1, <3>2, <3>3, <4>2, <5>1 DEF Least
      <4> QED BY <4>1, <4>2
    <3>6. IsShareOf(lots, custody, u, n)
      BY <3>5, ShareOf DEF O
    <3> HIDE DEF U
    <3> QED BY <1>4, <3>2, <3>6
  <2>3. \A u \in 1 .. a + m : U[u] \in Int
    <3> HIDE DEF U, S, m
    <3> QED BY <1>5, <2>1
  <2>4. Total(U, 1 .. a) = Total(c, 1 .. n - 1)
    BY <1>8
  <2> HIDE DEF a, m, w, U, S
  <2>5. Total(U, 1 .. a + m) = Total(U, 1 .. a) + m * w
    <3>1. a \in Nat /\ w \in Int /\ m \in Nat
      BY <2>1
    <3> QED BY <2>2, <2>3, <3>1, TotalRun
  <2>6. Total(c, 1 .. n) = Total(c, 1 .. n - 1) + c[n]
    <3> DEFINE K == 1 .. n - 1
    <3>1. 1 .. n = K \cup {n} /\ n \notin K /\ K \in SUBSET D
      BY <1>0
    <3>2. IsFiniteSet(K)
      BY FS_Interval, <1>0
    <3>3. \A k \in D : c[k] \in Int
      <4> HIDE DEF c
      <4>1. \A k \in D : Unit(lots[k]) \in Nat /\ Taken(lots, custody, qty, k) \in Nat
                         /\ c[k] = Taken(lots, custody, qty, k) * Unit(lots[k])
        BY <1>2, <1>3
      <4> QED BY <4>1
    <3> HIDE DEF c, K
    <3>4. Total(c, K \cup {n}) = Total(c, K) + c[n]
      BY <3>1, <3>2, <3>3, TotalAdd
    <3> QED BY <3>1, <3>4 DEF K
  <2> HIDE DEF c
  <2> QED BY <2>1, <2>4, <2>5, <2>6
<1>9. Wrong = {}
  <2> SUFFICES ASSUME Wrong # {} PROVE FALSE
    OBVIOUS
  <2> HIDE DEF Right
  <2>1. PICK n \in Wrong : \A j \in Wrong : n <= j
    <3>1. Wrong \in SUBSET Nat
      BY <1>0
    <3> HIDE DEF Wrong
    <3> QED BY <3>1, LeastElement
  <2>2. n # 0
    BY <1>7
  <2>3. n - 1 \in 0 .. Len(lots) /\ ~(n <= n - 1) /\ n \in D
    BY <2>2, <1>0
  <2>4. Right(n - 1)
    BY <2>1, <2>3
  <2> QED BY <1>8, <2>3, <2>4
<1>10. Right(Len(lots))
  <2> HIDE DEF Right
  <2> QED BY <1>0, <1>9
<1>11. S(Len(lots)) = qty
  <2>1. Len(lots) \in 0 .. Len(lots)
    BY <1>0
  <2>2. qty <= O(Len(lots)) /\ O(Len(lots)) \in Nat
    BY <1>1, <2>1
  <2> HIDE DEF O
  <2> QED BY <2>2 DEF Least
<1>12. DisposedCost(lots, custody, qty) = Total(c, D)
  BY DEF DisposedCost
<1> HIDE DEF S, c, U
<1>13. Total(U, 1 .. qty) = Total(c, D)
  BY <1>0, <1>10, <1>11
<1> QED BY <1>12, <1>13 DEF U

-------------------------------------------------------------------------------
\* One broker's events and another broker's lots.

\* The lots of the other books.
LEMMA OtherLot ==
    \A lots, custody, x :
        x \in OtherLots(lots, custody)
          <=> \E k \in DOMAIN lots : lots[k].custody # custody /\ x = lots[k]
BY DEF OtherLots

\* A lot opened in a book leaves the lots of the others.
LEMMA OthersAfterBuy ==
    ASSUME NEW lots \in Seq(Lot), NEW lot \in Lot
    PROVE  OtherLots(Append(lots, lot), lot.custody) = OtherLots(lots, lot.custody)
<1> DEFINE more == Append(lots, lot)
           x == Len(lots) + 1
           C == lot.custody
<1>1. /\ DOMAIN more = DOMAIN lots \cup {x} /\ more[x] = lot
      /\ \A k \in DOMAIN lots : more[k] = lots[k]
  OBVIOUS
<1> HIDE DEF more, x
<1>2. \A z : (\E k \in DOMAIN more : more[k].custody # C /\ z = more[k])
               <=> (\E k \in DOMAIN lots : lots[k].custody # C /\ z = lots[k])
  BY <1>1
<1>3. \A z : z \in OtherLots(more, C) <=> z \in OtherLots(lots, C)
  <2> HIDE DEF C
  <2> QED BY <1>2, OtherLot, SMTT(30)
<1>4. OtherLots(more, C) = OtherLots(lots, C)
  <2> HIDE DEF C
  <2>1. OtherLots(more, C) \subseteq OtherLots(lots, C) /\ OtherLots(lots, C) \subseteq OtherLots(more, C)
    BY <1>3
  <2> QED BY <2>1
<1> QED BY <1>4 DEF more

\* Lots that change in one book only.
LEMMA OthersAlike ==
    ASSUME NEW lots, NEW new, NEW custody, DOMAIN new = DOMAIN lots,
           \A k \in DOMAIN lots : new[k].custody = lots[k].custody,
           \A k \in DOMAIN lots : lots[k].custody # custody => new[k] = lots[k]
    PROVE  OtherLots(new, custody) = OtherLots(lots, custody)
<1>1. \A z : (\E k \in DOMAIN new : new[k].custody # custody /\ z = new[k])
               <=> (\E k \in DOMAIN lots : lots[k].custody # custody /\ z = lots[k])
  OBVIOUS
<1>2. \A z : z \in OtherLots(new, custody) <=> z \in OtherLots(lots, custody)
  BY <1>1, OtherLot
<1>3. OtherLots(new, custody) \subseteq OtherLots(lots, custody)
      /\ OtherLots(lots, custody) \subseteq OtherLots(new, custody)
  BY <1>2
<1> QED BY <1>3

\* A sale from one book leaves the lots of the others.
LEMMA OthersAfterSale ==
    ASSUME NEW lots \in Seq(Lot), FifoSorted(lots), WholeUnits(lots), NEW custody,
           custody[1] # Unassigned, NEW qty \in Nat
    PROVE  OtherLots(OpenLots(Remaining(lots, custody, qty)), custody) = OtherLots(lots, custody)
<1> DEFINE left == Remaining(lots, custody, qty)
           open == OpenLots(left)
<1>1. /\ left \in Seq(Lot) /\ DOMAIN left = DOMAIN lots
      /\ \A k \in DOMAIN lots : /\ left[k].custody = lots[k].custody
                                /\ Taken(lots, custody, qty, k) = 0 => left[k] = lots[k]
  BY RemainingLot
<1>2. \A k \in DOMAIN lots : lots[k].custody # custody => left[k] = lots[k]
  <2>1. \A k \in DOMAIN lots : k \notin BookLots(lots, custody) => Taken(lots, custody, qty, k) = 0
    BY TakenRange
  <2>2. \A k \in DOMAIN lots : lots[k].custody # custody => k \notin BookLots(lots, custody)
    BY DEF BookLots, InBook
  <2> HIDE DEF left
  <2> QED BY <1>1, <2>1, <2>2
<1>3. KeptShares(left, open, custody, Len(left))
  <2> HIDE DEF left
  <2> QED BY <1>1, OpenShares
<1>4. DOMAIN left = 1 .. Len(left)
  <2> HIDE DEF left
  <2> QED BY <1>1
<1>5. OtherLots(left, custody) = OtherLots(lots, custody)
  <2> HIDE DEF left
  <2> QED BY <1>1, <1>2, OthersAlike
<1>6. \A k \in DOMAIN left : left[k].custody # custody => left[k].qty > 0
  <2> HIDE DEF left
  <2> QED BY <1>1, <1>2 DEF WholeUnits
<1> HIDE DEF left, open
<1>7. /\ \A i \in DOMAIN open : \E j \in DOMAIN left : open[i] = left[j]
      /\ \A j \in DOMAIN left : left[j].qty > 0 => \E i \in DOMAIN open : open[i] = left[j]
  BY <1>3, <1>4 DEF KeptShares
<1>8. \A z : (\E i \in DOMAIN open : open[i].custody # custody /\ z = open[i])
               <=> (\E k \in DOMAIN left : left[k].custody # custody /\ z = left[k])
  BY <1>6, <1>7
<1>9. \A z : z \in OtherLots(open, custody) <=> z \in OtherLots(left, custody)
  BY <1>8, OtherLot, SMTT(30)
<1>10. OtherLots(open, custody) \subseteq OtherLots(left, custody)
       /\ OtherLots(left, custody) \subseteq OtherLots(open, custody)
  BY <1>9
<1>11. OtherLots(open, custody) = OtherLots(lots, custody)
  BY <1>5, <1>10
<1> QED BY <1>11 DEF open, left

\* A book that has all shares of a position has all its lots.
LEMMA WholePosition ==
    ASSUME NEW d, NEW n, NEW p, Sound(p, d, n), NEW custody, p.shares <= Held(p.lots, custody)
    PROVE  Held(p.lots, custody) = p.shares /\ BookLots(p.lots, custody) = DOMAIN p.lots
<1> DEFINE lots == p.lots
           D == DOMAIN lots
           B == BookLots(lots, custody)
           q == [k \in DOMAIN lots |-> lots[k].qty]
<1>1. lots \in Seq(Lot) /\ p.shares = Total(q, D) /\ \A k \in D : lots[k].qty > 0
  BY DEF Sound, Position, QtyOf
<1>2. IsFiniteSet(D) /\ B \in SUBSET D
  BY <1>1, FiniteDomain, BookInDomain
<1>3. \A k \in D : q[k] \in Nat /\ q[k] > 0
  <2>1. \A k \in D : lots[k] \in Lot
    BY <1>1
  <2> QED BY <1>1, <2>1 DEF Lot
<1>4. Held(lots, custody) = Total(q, B)
  BY DEF Held, QtyOf
<1>5. p.shares <= Held(lots, custody)
  OBVIOUS
<1> HIDE DEF q, D, B, lots
<1>6. Total(q, B) <= Total(q, D) /\ (Total(q, B) = Total(q, D) => B = D)
  BY <1>2, <1>3, TotalPart
<1>7. Total(q, B) \in Nat /\ Total(q, D) \in Nat
  <2>1. D \in SUBSET D
    OBVIOUS
  <2>2. \A T \in SUBSET D : Total(q, T) \in Nat
    BY <1>2, <1>3, TotalNat
  <2> QED BY <1>2, <2>1, <2>2
<1>8. Held(lots, custody) = p.shares /\ B = D
  BY <1>1, <1>4, <1>5, <1>6, <1>7
<1> QED BY <1>8 DEF B, D, lots

-------------------------------------------------------------------------------
\* First in, first out, for every event.

\* The lots of every symbol are sorted and have whole unit costs.
LEMMA PositionUnits ==
    ASSUME NEW s, NEW d, NEW n, AllSound(s, d, n), WholeLots(s), NEW y \in Symbols
    PROVE  /\ s.pos[y].lots \in Seq(Lot) /\ s.pos[y].shares \in Nat
           /\ FifoSorted(s.pos[y].lots) /\ WholeUnits(s.pos[y].lots) /\ Sound(s.pos[y], d, n)
BY DEF AllSound, Sound, Position, WholeLots, WholeUnits

\* The lots after a sale.
LEMMA LotsAfterSale ==
    \A p, qty, custody :
        ConsumeFifo(p, qty, custody).lots
          = IF p.shares = qty THEN <<>> ELSE OpenLots(Remaining(p.lots, custody, qty))
BY DEF ConsumeFifo, Remaining, EmptyPosition

\* The position a sale leaves.
LEMMA SaleApplied ==
    ASSUME NEW s \in State, NEW e \in Events, e.type = "SELL", e.sym \in Symbols
    PROVE  /\ ApplyEvent(s, e).pos = [s.pos EXCEPT ![e.sym] = ConsumeFifo(s.pos[e.sym], e.qty, e.custody)]
           /\ ApplyEvent(s, e).realized
                = s.realized + (e.qty * e.price - e.fee - e.tax)
                    - DisposedCost(s.pos[e.sym].lots, e.custody, e.qty)
<1> DEFINE q == ConsumeFifo(s.pos[e.sym], e.qty, e.custody)
           disposed == DisposedCost(s.pos[e.sym].lots, e.custody, e.qty)
           net == e.qty * e.price - e.fee - e.tax
           realized == s.realized + net - disposed
           cash == s.cash + net
           costs == s.costs + e.fee + e.tax
           t == ApplyEvent(s, e)
<1>1. t = [s EXCEPT !.pos[e.sym] = q, !.realized = realized, !.cash = cash, !.costs = costs]
  BY DEF ApplyEvent, ApplySell
<1> HIDE DEF t, q, cash, costs, realized
<1>2. t.pos = [s.pos EXCEPT ![e.sym] = q] /\ t.realized = realized
  BY <1>1 DEF State
<1> QED BY <1>2 DEF t, q, realized

\* A sale disposes of the oldest shares of its book.
LEMMA SaleIsFifo ==
    ASSUME NEW s, NEW d \in Nat, NEW n \in Nat, AllSound(s, d, n), WholeLots(s),
           NEW e, Postable(e, d, n + 1), e.type = "SELL", Admits(s, e)
    PROVE  /\ SellsOldest(s, e, ApplyEvent(s, e))
           /\ CustodyIsolated(s, e, ApplyEvent(s, e))
<1> DEFINE t == ApplyEvent(s, e)
           y == e.sym
           p == s.pos[y]
           C == e.custody
           qty == e.qty
           open == OpenLots(Remaining(p.lots, C, qty))
           q == ConsumeFifo(p, qty, C)
           disposed == DisposedCost(p.lots, C, qty)
           net == e.qty * e.price - e.fee - e.tax
           cost == [u \in 1 .. qty |-> UnitCost(p.lots, C, u)]
<1>1. e \in Events /\ y \in Symbols /\ s \in State /\ qty \in Nat /\ net \in Int /\ s.realized \in Int
  <2>1. e \in Events /\ y \in Symbols /\ s \in State
    BY DEF Postable, HoldingTypes, AllSound
  <2>2. qty \in Nat /\ e.fee \in Nat /\ e.tax \in Nat /\ e.qty * e.price \in Nat
    BY <2>1, EventFields
  <2>3. s.realized \in Int
    BY <2>1, StateFields
  <2>4. net \in Int
    <3> DEFINE m == e.qty * e.price
    <3>1. m \in Nat /\ net = m - e.fee - e.tax
      BY <2>2
    <3> HIDE DEF m, net
    <3> QED BY <2>2, <3>1
  <2> QED BY <2>1, <2>2, <2>3, <2>4
<1>2. qty <= p.shares /\ qty <= Held(p.lots, C)
  BY DEF Admits, Accepts, AcquisitionTypes, CanSell
<1>3. /\ p.lots \in Seq(Lot) /\ p.shares \in Nat
      /\ FifoSorted(p.lots) /\ WholeUnits(p.lots) /\ Sound(p, d, n)
  BY <1>1, PositionUnits
<1>4. t.pos = [s.pos EXCEPT ![y] = q] /\ t.realized = s.realized + net - disposed
  <2>1. t.pos = [s.pos EXCEPT ![y] = q]
        /\ t.realized = s.realized + (e.qty * e.price - e.fee - e.tax) - disposed
    BY <1>1, SaleApplied
  <2> QED BY <2>1
<1>5. q.lots = IF p.shares = qty THEN <<>> ELSE open
  BY LotsAfterSale
<1>6. s.pos \in [Symbols -> Position]
  BY <1>1 DEF State
<1>7. t.pos[y] = q /\ \A z \in Symbols : z # y => t.pos[z] = s.pos[z]
  BY <1>1, <1>4, <1>6
<1>8. p.shares = qty => Held(p.lots, C) = qty /\ BookLots(p.lots, C) = DOMAIN p.lots
  <2> HIDE DEF p
  <2> QED BY <1>2, <1>3, WholePosition
<1> HIDE DEF t, q, p, net, y
<1>9. /\ Held(q.lots, C) = Held(p.lots, C) - qty
      /\ \A u \in 1 .. Held(q.lots, C) : UnitCost(q.lots, C, u) = UnitCost(p.lots, C, u + qty)
  <2>1. CASE p.shares = qty
    <3>1. Held(<<>>, C) = 0
      <4>1. BookLots(<<>>, C) = {}
        BY DEF BookLots
      <4> QED BY <4>1, TotalEmpty DEF Held, QtyOf
    <3>2. Held(q.lots, C) = 0
      BY <1>5, <2>1, <3>1
    <3>3. 1 .. 0 = {}
      OBVIOUS
    <3> QED BY <1>1, <1>8, <2>1, <3>2, <3>3
  <2>2. CASE p.shares # qty
    <3> DEFINE lots == p.lots
    <3>1. lots \in Seq(Lot) /\ FifoSorted(lots) /\ WholeUnits(lots) /\ qty \in Nat /\ qty <= Held(lots, C)
      BY <1>1, <1>2, <1>3
    <3> HIDE DEF lots, C, qty
    <3>2. /\ Held(OpenLots(Remaining(lots, C, qty)), C) = Held(lots, C) - qty
          /\ \A u \in 1 .. Held(OpenLots(Remaining(lots, C, qty)), C) :
               UnitCost(OpenLots(Remaining(lots, C, qty)), C, u) = UnitCost(lots, C, u + qty)
      BY <3>1, YoungestLeft
    <3> QED BY <1>5, <2>2, <3>2 DEF lots
  <2> QED BY <2>1, <2>2
<1>10. disposed = Total(cost, 1 .. qty)
  <2> DEFINE lots == p.lots
  <2>1. lots \in Seq(Lot) /\ FifoSorted(lots) /\ WholeUnits(lots) /\ qty \in Nat /\ qty <= Held(lots, C)
    BY <1>1, <1>2, <1>3
  <2> HIDE DEF lots, C, qty
  <2>2. DisposedCost(lots, C, qty) = Total([u \in 1 .. qty |-> UnitCost(lots, C, u)], 1 .. qty)
    BY <2>1, DisposedByShare
  <2> QED BY <2>2 DEF lots
<1>11. disposed \in Int
  <2>1. disposed \in 0 .. p.cost
    BY <1>1, <1>2, <1>3, LotsConsumed
  <2>2. p.cost \in Nat
    BY <1>3 DEF Sound, Position
  <2> HIDE DEF disposed
  <2> QED BY <2>1, <2>2
<1>12. t.realized - s.realized = net - Total(cost, 1 .. qty)
  <2> HIDE DEF disposed, cost
  <2> QED BY <1>1, <1>4, <1>10, <1>11
<1>13. SellsOldest(s, e, t)
  <2>1. s.pos[e.sym].lots = p.lots /\ t.pos[e.sym].lots = q.lots
    BY <1>7 DEF p, y
  <2> QED BY <1>9, <1>12, <2>1 DEF SellsOldest, net
<1>14. CustodyIsolated(s, e, t)
  <2> SUFFICES ASSUME C[1] # Unassigned, NEW z \in Symbols
               PROVE  OtherLots(t.pos[z].lots, C) = OtherLots(s.pos[z].lots, C)
    BY DEF CustodyIsolated
  <2>1. CASE z # y
    <3>1. t.pos[z] = s.pos[z]
      BY <1>7, <2>1
    <3> QED BY <3>1
  <2>2. CASE z = y /\ p.shares = qty
    <3>1. \A k \in DOMAIN p.lots : p.lots[k].custody = C
      BY <1>8, <2>2 DEF BookLots, InBook
    <3>2. \A x : x \notin OtherLots(p.lots, C) /\ x \notin OtherLots(<<>>, C)
      BY <3>1, OtherLot
    <3>3. OtherLots(p.lots, C) \subseteq OtherLots(<<>>, C) /\ OtherLots(<<>>, C) \subseteq OtherLots(p.lots, C)
      BY <3>2
    <3>4. t.pos[z].lots = <<>> /\ s.pos[z].lots = p.lots
      BY <1>5, <1>7, <2>2 DEF p
    <3>5. OtherLots(p.lots, C) = OtherLots(<<>>, C)
      BY <3>3
    <3> QED BY <3>4, <3>5
  <2>3. CASE z = y /\ p.shares # qty
    <3> DEFINE lots == p.lots
    <3>1. lots \in Seq(Lot) /\ FifoSorted(lots) /\ WholeUnits(lots) /\ qty \in Nat /\ C[1] # Unassigned
      BY <1>1, <1>3
    <3> HIDE DEF lots, C, qty
    <3>2. OtherLots(OpenLots(Remaining(lots, C, qty)), C) = OtherLots(lots, C)
      BY <3>1, OthersAfterSale
    <3> QED BY <1>5, <1>7, <2>3, <3>2 DEF lots, p
  <2> QED BY <2>1, <2>2, <2>3
<1> QED BY <1>13, <1>14 DEF t

\* An event that is not a sale changes the lots of one symbol at most, and of its own
\* book only.
LEMMA OthersIsolated ==
    ASSUME NEW s \in State, NEW t, NEW e, NEW y \in Symbols, NEW q,
           t.pos = [s.pos EXCEPT ![y] = q],
           OtherLots(q.lots, e.custody) = OtherLots(s.pos[y].lots, e.custody)
    PROVE  CustodyIsolated(s, e, t)
<1>1. s.pos \in [Symbols -> Position]
  BY DEF State
<1>2. t.pos[y] = q /\ \A z \in Symbols : z # y => t.pos[z] = s.pos[z]
  BY <1>1
<1>3. ASSUME NEW z \in Symbols
      PROVE  OtherLots(t.pos[z].lots, e.custody) = OtherLots(s.pos[z].lots, e.custody)
  <2>1. CASE z = y
    BY <1>2, <2>1
  <2>2. CASE z # y
    <3>1. t.pos[z] = s.pos[z]
      BY <1>2, <2>2
    <3> QED BY <3>1
  <2> QED BY <2>1, <2>2
<1> QED BY <1>3 DEF CustodyIsolated

\* A purchase or an import opens a lot in its own book.
LEMMA PurchaseIsolated ==
    ASSUME NEW s, NEW d \in Nat, NEW n \in Nat, AllSound(s, d, n), WholeLots(s),
           NEW e, Postable(e, d, n + 1), e.type \in AcquisitionTypes
    PROVE  CustodyIsolated(s, e, ApplyEvent(s, e))
<1> DEFINE t == ApplyEvent(s, e)
           y == e.sym
           p == s.pos[y]
           spent == e.qty * e.price
           price == IF e.type = "POSITION_IMPORT" THEN spent ELSE spent + e.fee
           lot == NewLot(e, price)
           q == AddLot(p, e, price)
           contributions == s.contributions + spent
           cash == s.cash - (spent + e.fee + e.tax)
           costs == s.costs + e.fee + e.tax
<1>1. e \in Events /\ y \in Symbols /\ s \in State
  BY DEF Postable, HoldingTypes, AllSound
<1>2. p.lots \in Seq(Lot)
  BY <1>1, PositionUnits
<1>3. t.pos = [s.pos EXCEPT ![y] = q]
  <2>1. CASE e.type = "POSITION_IMPORT"
    <3>1. t = [s EXCEPT !.pos[e.sym] = q, !.contributions = contributions]
      BY <2>1 DEF ApplyEvent, ApplyImport
    <3> HIDE DEF t, q, contributions
    <3> QED BY <1>1, <3>1 DEF State
  <2>2. CASE e.type \in {"BUY", "RIGHTS_ISSUE"}
    <3>1. t = [s EXCEPT !.pos[e.sym] = q, !.cash = cash, !.costs = costs]
      BY <2>2 DEF ApplyEvent, ApplyBuy
    <3> HIDE DEF t, q, cash, costs
    <3> QED BY <1>1, <3>1 DEF State
  <2> QED BY <2>1, <2>2 DEF AcquisitionTypes
<1>4. lot \in Lot /\ lot.custody = e.custody
  <2>1. price \in Nat
    <3>1. spent \in Nat /\ e.fee \in Nat
      BY <1>1, EventFields
    <3> HIDE DEF spent
    <3> QED BY <3>1
  <2> HIDE DEF price
  <2> QED BY <1>1, <2>1 DEF NewLot, Lot, Events
<1>5. q.lots = Append(p.lots, lot)
  BY DEF AddLot
<1> HIDE DEF t, q, p, lot, y
<1>6. OtherLots(Append(p.lots, lot), lot.custody) = OtherLots(p.lots, lot.custody)
  BY <1>2, <1>4, OthersAfterBuy
<1>7. OtherLots(q.lots, e.custody) = OtherLots(s.pos[y].lots, e.custody)
  BY <1>4, <1>5, <1>6 DEF p
<1>8. CustodyIsolated(s, e, t)
  BY <1>1, <1>3, <1>7, OthersIsolated
<1> QED BY <1>8 DEF t

\* Lots that only change their number of shares, and in one book.
LEMMA ResizedOthers ==
    ASSUME NEW lots \in Seq(Lot), NEW new, NEW custody, custody[1] # Unassigned, NEW size,
           new = [k \in DOMAIN lots |-> [lots[k] EXCEPT !.qty = size[k]]],
           \A k \in DOMAIN lots : k \notin BookLots(lots, custody) => size[k] = lots[k].qty
    PROVE  OtherLots(new, custody) = OtherLots(lots, custody)
<1>1. DOMAIN new = DOMAIN lots
  OBVIOUS
<1>2. \A k \in DOMAIN lots : lots[k] \in Lot
  OBVIOUS
<1>3. \A k \in DOMAIN lots : new[k].custody = lots[k].custody
  BY <1>2 DEF Lot
<1>4. ASSUME NEW k \in DOMAIN lots, lots[k].custody # custody PROVE new[k] = lots[k]
  <2>1. k \notin BookLots(lots, custody)
    BY <1>4 DEF BookLots, InBook
  <2>2. new[k] = [lots[k] EXCEPT !.qty = lots[k].qty]
    BY <2>1
  <2> QED BY <1>2, <2>2 DEF Lot
<1> QED BY <1>1, <1>3, <1>4, OthersAlike

\* A stock dividend or a split changes the lots of its own book.
LEMMA SharesIsolated ==
    ASSUME NEW s, NEW d \in Nat, NEW n \in Nat, AllSound(s, d, n), WholeLots(s),
           NEW e, Postable(e, d, n + 1), Admits(s, e), e.custody[1] # Unassigned,
           e.type \in {"STOCK_DIVIDEND", "SPLIT"}
    PROVE  CustodyIsolated(s, e, ApplyEvent(s, e))
<1> DEFINE t == ApplyEvent(s, e)
           y == e.sym
           p == s.pos[y]
           C == e.custody
           B == BookLots(p.lots, C)
           bonus == StockBonus(p.lots, e.qty, C)
           grown(k) == IF k \in B THEN (p.lots[k].qty * e.ratio[1]) \div e.ratio[2] ELSE p.lots[k].qty
           size == IF e.type = "SPLIT" THEN [k \in DOMAIN p.lots |-> grown(k)]
                   ELSE [k \in DOMAIN p.lots |-> p.lots[k].qty + bonus[k]]
           new == [k \in DOMAIN p.lots |-> [p.lots[k] EXCEPT !.qty = size[k]]]
           q == IF e.type = "SPLIT" THEN SplitLots(p, e.ratio, C) ELSE AllocateStock(p, e.qty, C)
<1>1. e \in Events /\ y \in Symbols /\ s \in State
  BY DEF Postable, HoldingTypes, AllSound
<1>2. /\ p.lots \in Seq(Lot) /\ p \in Position /\ WholeUnits(p.lots)
  BY <1>1, PositionUnits DEF Sound
<1>3. t.pos = [s.pos EXCEPT ![y] = q]
  <2>1. t = [s EXCEPT !.pos[e.sym] = q]
    BY DEF ApplyEvent
  <2> HIDE DEF t, q
  <2> QED BY <1>1, <2>1 DEF State
<1>4. q.lots = new
  <2>1. CASE e.type = "SPLIT"
    <3> DEFINE shares == p.shares + Total([k \in B |-> grown(k) - p.lots[k].qty], B)
    <3>1. size = [k \in DOMAIN p.lots |-> grown(k)] /\ q = SplitLots(p, e.ratio, C)
      BY <2>1
    <3>2. new = [k \in DOMAIN p.lots |-> [p.lots[k] EXCEPT !.qty = grown(k)]]
      <4> HIDE DEF size
      <4> QED BY <3>1
    <3>3. q = [p EXCEPT !.shares = shares, !.lots = [k \in DOMAIN p.lots |-> [p.lots[k] EXCEPT !.qty = grown(k)]]]
      BY <3>1 DEF SplitLots
    <3> HIDE DEF q, new, shares, p
    <3> QED BY <1>2, <3>2, <3>3 DEF Position
  <2>2. CASE e.type = "STOCK_DIVIDEND"
    <3> DEFINE shares == p.shares + e.qty
    <3>1. size = [k \in DOMAIN p.lots |-> p.lots[k].qty + bonus[k]] /\ q = AllocateStock(p, e.qty, C)
      BY <2>2
    <3>2. new = [k \in DOMAIN p.lots |-> [p.lots[k] EXCEPT !.qty = @ + bonus[k]]]
      <4> HIDE DEF size, bonus
      <4> QED BY <3>1
    <3>3. q = [p EXCEPT !.shares = shares, !.lots = [k \in DOMAIN p.lots |-> [p.lots[k] EXCEPT !.qty = @ + bonus[k]]]]
      BY <3>1 DEF AllocateStock
    <3> HIDE DEF q, new, shares, p, bonus
    <3> QED BY <1>2, <3>2, <3>3 DEF Position
  <2> QED BY <2>1, <2>2
<1>5. \A k \in DOMAIN p.lots : k \notin B => size[k] = p.lots[k].qty
  <2>1. CASE e.type = "SPLIT"
    BY <2>1
  <2>2. CASE e.type = "STOCK_DIVIDEND"
    <3>1. size = [k \in DOMAIN p.lots |-> p.lots[k].qty + bonus[k]]
      BY <2>2
    <3> DEFINE lots == p.lots
    <3>2. \A k \in DOMAIN lots : k \notin BookLots(lots, C) => bonus[k] = 0
      BY DEF StockBonus
    <3>3. \A k \in DOMAIN lots : lots[k].qty \in Nat
      <4>1. \A k \in DOMAIN lots : lots[k] \in Lot
        BY <1>2
      <4> QED BY <4>1 DEF Lot
    <3> HIDE DEF bonus, size
    <3> QED BY <3>1, <3>2, <3>3
  <2> QED BY <2>1, <2>2
<1>6. C[1] # Unassigned
  OBVIOUS
<1> HIDE DEF size
<1>7. OtherLots(new, C) = OtherLots(p.lots, C)
  <2>1. new = [k \in DOMAIN p.lots |-> [p.lots[k] EXCEPT !.qty = size[k]]]
    OBVIOUS
  <2> DEFINE lots == p.lots
  <2>2. /\ lots \in Seq(Lot) /\ new = [k \in DOMAIN lots |-> [lots[k] EXCEPT !.qty = size[k]]]
        /\ \A k \in DOMAIN lots : k \notin BookLots(lots, C) => size[k] = lots[k].qty
    BY <1>2, <1>5, <2>1
  <2> HIDE DEF new, C, lots
  <2>3. OtherLots(new, C) = OtherLots(lots, C)
    BY <1>6, <2>2, ResizedOthers, SMTT(30)
  <2> QED BY <2>3 DEF lots
<1> HIDE DEF t, q, y, new
<1>8. OtherLots(q.lots, e.custody) = OtherLots(s.pos[y].lots, e.custody)
  BY <1>4, <1>7
<1>9. CustodyIsolated(s, e, t)
  BY <1>1, <1>3, <1>8, OthersIsolated
<1> QED BY <1>9 DEF t

\* Events of money change no lots.
LEMMA MoneyIsolated ==
    ASSUME NEW s \in State, NEW e, e.type \in MoneyTypes
    PROVE  CustodyIsolated(s, e, ApplyEvent(s, e))
<1> DEFINE t == ApplyEvent(s, e)
<1>1. t.pos = s.pos
  BY DEF ApplyEvent, ApplyCashDividend, State, MoneyTypes
<1> HIDE DEF t
<1>2. CustodyIsolated(s, e, t)
  BY <1>1 DEF CustodyIsolated
<1> QED BY <1>2 DEF t

\* Whichever event is posted: a sale takes the oldest shares, and no event of one broker
\* touches the lots of another.
LEMMA EventIsFifo ==
    ASSUME NEW s, NEW d \in Nat, NEW n \in Nat, AllSound(s, d, n), WholeLots(s),
           NEW e, Postable(e, d, n + 1), Admits(s, e)
    PROVE  /\ e.type = "SELL" => SellsOldest(s, e, ApplyEvent(s, e))
           /\ CustodyIsolated(s, e, ApplyEvent(s, e))
<1>1. e.type \in EventTypes /\ s \in State
  BY DEF Postable, Events, AllSound
<1>2. \/ e.type \in AcquisitionTypes \/ e.type = "SELL"
      \/ e.type \in {"STOCK_DIVIDEND", "SPLIT"} \/ e.type \in MoneyTypes
  BY <1>1 DEF EventTypes, HoldingTypes
<1>3. CASE e.custody[1] = Unassigned
  BY <1>3, SaleIsFifo DEF CustodyIsolated
<1>4. CASE e.custody[1] # Unassigned
  <2>1. e.type = "SELL" => /\ SellsOldest(s, e, ApplyEvent(s, e))
                           /\ CustodyIsolated(s, e, ApplyEvent(s, e))
    BY SaleIsFifo
  <2>2. e.type \in AcquisitionTypes => CustodyIsolated(s, e, ApplyEvent(s, e))
    BY PurchaseIsolated
  <2>3. e.type \in {"STOCK_DIVIDEND", "SPLIT"} => CustodyIsolated(s, e, ApplyEvent(s, e))
    BY <1>4, SharesIsolated
  <2>4. e.type \in MoneyTypes => CustodyIsolated(s, e, ApplyEvent(s, e))
    BY <1>1, MoneyIsolated
  <2> QED BY <1>2, <2>1, <2>2, <2>3, <2>4
<1> QED BY <1>3, <1>4

\* The lots of a replay have whole unit costs: the bound of the model, which its
\* guard keeps.
LEMMA WholeLotsKept == WholeLots(book) /\ [BookNext]_replay => WholeLots(book)'
<1> SUFFICES ASSUME WholeLots(book), [BookNext]_replay PROVE WholeLots(book)'
  OBVIOUS
<1>1. CASE UNCHANGED replay
  BY <1>1 DEF replay, WholeLots
<1>2. ASSUME NEW t \in Postings, Post(t) PROVE WholeLots(book)'
  BY <1>2 DEF Post, WholeLots
<1> QED BY <1>1, <1>2 DEF BookNext

\* The empty book has no lots.
LEMMA WholeLotsInit == BookInit => WholeLots(book)
<1> SUFFICES ASSUME BookInit PROVE WholeLots(book)
  OBVIOUS
<1>1. \A y \in Symbols : book.pos[y].lots = <<>>
  BY DEF BookInit, EmptyState, EmptyPosition
<1> QED BY <1>1 DEF WholeLots

\* First in, first out, as a step of the replay.
LEMMA FifoStep ==
    ReplayInv /\ WholeLots(book) /\ [BookNext]_replay
      => [posted' # posted =>
            LET e == Last(posted')
            IN  /\ e.type = "SELL" => SellsOldest(book, e, book')
                /\ CustodyIsolated(book, e, book')]_replay
<1> SUFFICES ASSUME ReplayInv, WholeLots(book), NEW t \in Postings, Post(t)
             PROVE  LET e == Last(posted')
                    IN  /\ e.type = "SELL" => SellsOldest(book, e, book')
                        /\ CustodyIsolated(book, e, book')
  BY DEF BookNext
<1> DEFINE e == Last(posted')
<1>1. /\ Postable(e, LastDay, Len(posted) + 1) /\ Admits(book, e) /\ book' = ApplyEvent(book, e)
      /\ LastDay \in Nat /\ AllSound(book, LastDay, Len(posted))
  BY PostedEvent
<1>2. Len(posted) \in Nat
  BY DEF ReplayInv
<1> HIDE DEF e
<1>3. /\ e.type = "SELL" => SellsOldest(book, e, ApplyEvent(book, e))
      /\ CustodyIsolated(book, e, ApplyEvent(book, e))
  BY <1>1, <1>2, EventIsFifo
<1> QED BY <1>1, <1>3 DEF e

\* Every sale takes the oldest shares of its own broker's book, one by one, at their own
\* unit cost, whatever purchases, dividends and splits built the lots; and no event that
\* names a broker changes a lot in the book of another.
THEOREM SalesTakeTheOldest == BookSpec => FifoDisposal
<1>1. BookSpec => [](ReplayInv /\ WholeLots(book))
  <2>1. BookInit => ReplayInv /\ WholeLots(book)
    BY ReplayInvInit, WholeLotsInit
  <2>2. ReplayInv /\ WholeLots(book) /\ [BookNext]_replay => (ReplayInv /\ WholeLots(book))'
    BY ReplayInvStep, WholeLotsKept
  <2> QED BY <2>1, <2>2, PTL DEF BookSpec
<1> QED BY <1>1, FifoStep, PTL DEF BookSpec, FifoDisposal
===============================================================================
