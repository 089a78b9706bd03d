-------------------------- MODULE DividendEvidence --------------------------
(***************************************************************************)
(* The reconciliation of what several providers say of one symbol's stock  *)
(* dividends (dividend_reconciliation.py): observations are kept for ever, *)
(* those within two days of each other are one event, and each event gets  *)
(* a canonical row that consumers trust unless it is marked CONFLICT.      *)
(* Rows are upserted by date and never deleted, so a row survives the      *)
(* regrouping that gave its event another date.                            *)
(*                                                                         *)
(* Days are the effective dates of _effective, ratios are per cent.  Cash  *)
(* dividends are grouped the same way, apart from these.                   *)
(***************************************************************************)
EXTENDS Integers, Sequences, FiniteSets, FiniteSetsExt

CONSTANTS
    Requests,           \* crawls and clears
    Offers,             \* what a provider may publish, [provider, native, day, ratio]
    Priority,           \* PROVIDER_PRIORITY of each provider
    Unknown,            \* a ratio the payload does not give
    MaxObservations, MaxCrashes     \* bounds

\* Ratios are percentages; a payload without one is told apart from every value.
EvidenceConstants ==
    /\ Offers \subseteq [provider : DOMAIN Priority, native : BOOLEAN, day : Nat, ratio : Int]
    /\ \A p \in DOMAIN Priority : Priority[p] \in Int
    /\ Unknown \in Int \ (1 .. 200)
    /\ MaxObservations \in Nat /\ MaxCrashes \in Nat

VARIABLES
    observations,       \* dividend_observations by id, with its deleted rows
    canonical,          \* dividend_canonical
    conflicts,          \* dividend_conflicts, [day, ids], all of them OPEN
    request,
    crashes,
    ordered             \* ghost: no event has been given an earlier date

vars == <<observations, canonical, conflicts, request, crashes, ordered>>

Tolerance == 2
Close(a, b) == (IF a > b THEN a - b ELSE b - a) <= Tolerance

\* A ratio over 200 % is taken for a percentage sent as a ratio, and what stays
\* implausible is quarantined.
Normal(ratio) ==
    IF ratio = Unknown THEN Unknown
    ELSE IF ratio > 200 /\ ratio <= 10000 THEN ratio \div 100 ELSE ratio
Rejected(ratio) == ratio # Unknown /\ (Normal(ratio) > 200 \/ Normal(ratio) <= 0)

Observation(o) ==
    [provider |-> o.provider, native |-> o.native, day |-> o.day, sent |-> o.ratio,
     ratio |-> IF Rejected(o.ratio) THEN Unknown ELSE Normal(o.ratio),
     rejected |-> Rejected(o.ratio), deleted |-> FALSE]

\* The unique key of the table: a NULL provider_event_id never collides.
Known(o) == \E i \in DOMAIN observations :
    /\ ~observations[i].deleted
    /\ o.native /\ observations[i].native
    /\ <<observations[i].provider, observations[i].day, observations[i].sent>>
         = <<o.provider, o.day, o.ratio>>

Normalized == {i \in DOMAIN observations : ~observations[i].rejected /\ ~observations[i].deleted}
Day(i) == observations[i].day
Providers == DOMAIN Priority

-------------------------------------------------------------------------------
Members(group) == {group[k] : k \in DOMAIN group}

\* First fit: an observation joins the first group whose first member is close.
Join(groups, i) ==
    LET fit == {g \in DOMAIN groups : Close(Day(groups[g][1]), Day(i))}
    IN IF fit = {} THEN Append(groups, <<i>>)
       ELSE [groups EXCEPT ![Min(fit)] = Append(@, i)]

\* In the order of the ids.
Groups(ids) ==
    LET grouped[n \in 0 .. Len(observations)] ==
          IF n = 0 THEN <<>>
          ELSE IF n \in ids THEN Join(grouped[n - 1], n) ELSE grouped[n - 1]
    IN  grouped[Len(observations)]

Effective(group) == Min({Day(i) : i \in Members(group)})
Ratios(ids) == {observations[i].ratio : i \in ids} \ {Unknown}

Family_GroupOnly(group, ids) == {group[1]}
\* The rows close to the date of the group, of this group or not.
Family(group, ids) == {i \in ids : Close(Day(i), Effective(group))}

\* sorted() is stable: the lowest id among the best priority.
Chosen(group) ==
    LET rank(i) == Priority[observations[i].provider]
        best == Min({rank(i) : i \in Members(group)})
    IN Min({i \in Members(group) : rank(i) = best})

Sources(group) == {observations[i].provider : i \in Members(group)}

Canonical(group, ids) ==
    [day |-> Effective(group), ratio |-> observations[Chosen(group)].ratio,
     chosen |-> Chosen(group), evidence |-> Members(group),
     quality |-> IF Cardinality(Ratios(Family(group, ids))) > 1 THEN "CONFLICT"
                 ELSE IF Cardinality(Sources(group)) > 1 THEN "VERIFIED" ELSE "SINGLE_SOURCE"]

Upsert(rows, new) ==
    new \cup {row \in rows : \A other \in new : other.day # row.day}

-------------------------------------------------------------------------------
Idle == [at |-> "idle", seen |-> {}]
TypeOK ==
    /\ \A i \in DOMAIN observations :
         /\ observations[i].provider \in Providers
         /\ observations[i].ratio \in 1 .. 200 \cup {Unknown}
    /\ \A row \in canonical : row.quality \in {"VERIFIED", "SINGLE_SOURCE", "CONFLICT"}
    /\ \A row, other \in canonical : row.day = other.day => row = other
    /\ \A r \in Requests : /\ request[r].at \in {"idle", "persisted", "read"}
                           /\ request[r].seen \subseteq DOMAIN observations
    /\ crashes \in 0 .. MaxCrashes
    /\ ordered \in BOOLEAN

Init ==
    /\ observations = <<>> /\ canonical = {} /\ conflicts = {}
    /\ request = [r \in Requests |-> Idle]
    /\ crashes = 0 /\ ordered = TRUE

At(r, step) == request[r].at = step
Go(r, step, seen) == request' = [request EXCEPT ![r] = [at |-> step, seen |-> seen]]

\* A crawled document of one event.
Persist(r, o) ==
    /\ At(r, "idle")
    /\ IF Known(o) THEN UNCHANGED observations
       ELSE /\ Len(observations) < MaxObservations
            /\ observations' = Append(observations, Observation(o))
    /\ ordered' = (ordered /\ (Rejected(o.ratio)
                     \/ \A i \in Normalized : Close(Day(i), o.day) => Day(i) <= o.day))
    /\ Go(r, "persisted", {})
    /\ UNCHANGED <<canonical, conflicts, crashes>>

\* reconcile_symbol is one transaction; what it read may be old when it writes.
ReadObservations(r) ==
    /\ At(r, "persisted")
    /\ Go(r, "read", Normalized)
    /\ UNCHANGED <<observations, canonical, conflicts, crashes, ordered>>

WriteCanonical(r) ==
    LET seen   == request[r].seen
        groups == Members(Groups(seen))
        rows   == {Canonical(g, seen) : g \in groups}
        open   == {[day |-> Effective(g), ids |-> Family(g, seen)] :
                     g \in {h \in groups : Canonical(h, seen).quality = "CONFLICT"}}
    IN /\ At(r, "read")
       /\ canonical' = Upsert(canonical, rows)
       /\ conflicts' = Upsert(conflicts, open)
       /\ Go(r, "idle", {})
       /\ UNCHANGED <<observations, crashes, ordered>>

\* clear_provider_data: the deletes are a transaction, the reconciliation another.
ClearProvider(r, p) ==
    /\ At(r, "idle")
    /\ \E i \in DOMAIN observations : observations[i].provider = p /\ ~observations[i].deleted
    /\ observations' = [i \in DOMAIN observations |->
                          IF observations[i].provider = p
                            THEN [observations[i] EXCEPT !.deleted = TRUE] ELSE observations[i]]
    /\ canonical' = {} /\ conflicts' = {}
    /\ Go(r, "persisted", {})
    /\ UNCHANGED <<crashes, ordered>>

\* The process dies, or an exception that the crawl swallows.
Die(r) ==
    /\ ~At(r, "idle") /\ crashes < MaxCrashes
    /\ crashes' = crashes + 1
    /\ Go(r, "idle", {})
    /\ UNCHANGED <<observations, canonical, conflicts, ordered>>

Work(r) ==
    \/ \E o \in Offers : Persist(r, o)
    \/ ReadObservations(r) \/ WriteCanonical(r) \/ Die(r)
    \/ \E p \in Providers : ClearProvider(r, p)
Next == \E r \in Requests : Work(r)
Spec == Init /\ [][Next]_vars

-------------------------------------------------------------------------------
\* The dates fall into events: being close is transitive among them.
Tight == \A i, j, k \in Normalized :
    Close(Day(i), Day(j)) /\ Close(Day(j), Day(k)) => Close(Day(i), Day(k))

Event(i) == {j \in Normalized : Close(Day(i), Day(j))}
FirstDay(ids) == Min({Day(i) : i \in ids})

\* "Materially different values are never silently merged: they remain CONFLICT and
\* create an OPEN row" (docs/dividend-cache-reconciliation.md:27): once every crawl
\* has been reconciled, the row of an event is in conflict exactly when its
\* observations disagree, with every disagreeing observation in the open row, and it
\* is verified only by two providers.
DisagreementsShown ==
    \A i \in Normalized : \E row \in canonical :
      /\ row.day = FirstDay(Event(i))
      /\ row.quality = "CONFLICT" <=> Cardinality(Ratios(Event(i))) > 1
      /\ row.quality = "CONFLICT" => [day |-> row.day, ids |-> Event(i)] \in conflicts
      /\ row.quality = "VERIFIED" =>
           \E j, k \in Event(i) : observations[j].provider # observations[k].provider

\* An event has one canonical row, so that a consumer that adds up the ratios counts
\* it once (the share factor of the valuation).
OneRowPerEvent ==
    \A row \in canonical : \E i \in Normalized :
      row.day = FirstDay(Event(i)) /\ row.evidence = Event(i)

Settled == crashes = 0 /\ \A r \in Requests : At(r, "idle")
===============================================================================
