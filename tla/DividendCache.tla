---------------------------- MODULE DividendCache ----------------------------
(***************************************************************************)
(* The dividend history of one symbol, kept in the portfolio's database    *)
(* and refreshed from a chain of providers (SqliteDividendService of       *)
(* dividend_store.py, with the default providers).  A refresh is three     *)
(* transactions after the network calls: delete the old rows, insert the   *)
(* new ones, write the fetch state that makes the next request a hit.      *)
(*                                                                         *)
(* A row is an event and the provider it came from.  The merge of rows     *)
(* that name one event differently, done whenever rows are read, is left   *)
(* out.                                                                    *)
(***************************************************************************)
EXTENDS Integers, Sequences, SequencesExt

CONSTANTS
    Requests,
    Events,         \* dividends a provider may know
    Chain,          \* the providers in order, a sequence
    MaxCrashes      \* bound

VARIABLES
    rows,           \* dividend_events of the symbol
    fetched,        \* whether dividend_fetch_state has a row of the symbol
    request,
    crashes,
    lastGood        \* ghost: what the last provider with data said

vars == <<rows, fetched, request, crashes, lastGood>>

Row == [event : Events, source : ToSet(Chain)]
Idle == [at |-> "idle", origin |-> "none", next |-> 1, found |-> {}, answer |-> {}]

At(r, step) == request[r].at = step
Go(r, step) == request' = [request EXCEPT ![r].at = step]

TypeOK ==
    /\ rows \subseteq Row /\ lastGood \subseteq Row
    /\ fetched \in BOOLEAN
    /\ \A r \in Requests :
         /\ request[r].at \in {"idle", "fetching", "found", "deleted", "persisted",
                               "reading", "answered"}
         /\ request[r].origin \in {"none", "SQLITE_CACHE", "DATABASE_MISS", "PROVIDER_REFRESH"}
         /\ request[r].found \cup request[r].answer \subseteq Row
    /\ crashes \in 0 .. MaxCrashes

Init ==
    /\ rows = {} /\ fetched = FALSE
    /\ request = [r \in Requests |-> Idle]
    /\ crashes = 0 /\ lastGood = {}

-------------------------------------------------------------------------------
\* history: a fetch state, whatever it found, makes the request database-only, and
\* so does QPORT_DIVIDEND_PROVIDER_FETCH (mayFetch).
Begin(r, force, mayFetch) ==
    /\ request[r].at \in {"idle", "answered"}
    /\ request' = [request EXCEPT ![r] =
         IF fetched /\ ~force THEN [Idle EXCEPT !.at = "reading", !.origin = "SQLITE_CACHE"]
         ELSE IF ~mayFetch THEN [Idle EXCEPT !.at = "reading", !.origin = "DATABASE_MISS"]
         ELSE [Idle EXCEPT !.at = "fetching", !.origin = "PROVIDER_REFRESH"]]
    /\ UNCHANGED <<rows, fetched, crashes, lastGood>>

\* A provider fails or knows nothing, and the next is asked.
NothingFrom(r) ==
    /\ At(r, "fetching")
    /\ IF request[r].next = Len(Chain) THEN Go(r, "found")
       ELSE request' = [request EXCEPT ![r].next = @ + 1]
    /\ UNCHANGED <<rows, fetched, crashes, lastGood>>

\* The first one with data ends the chain.
DataFrom(r, events) ==
    LET found == [event : events, source : {Chain[request[r].next]}] IN
    /\ At(r, "fetching") /\ events # {}
    /\ request' = [request EXCEPT ![r] = [@ EXCEPT !.at = "found", !.found = found]]
    /\ lastGood' = found
    /\ UNCHANGED <<rows, fetched, crashes>>

DeleteOld_Always(r) ==
    /\ At(r, "found")
    /\ rows' = {}
    /\ Go(r, "deleted")
    /\ UNCHANGED <<fetched, crashes, lastGood>>

\* "Provider failures never destroy the last good cache."
DeleteOld(r) ==
    /\ At(r, "found")
    /\ rows' = IF request[r].found = {} THEN rows ELSE {}
    /\ Go(r, "deleted")
    /\ UNCHANGED <<fetched, crashes, lastGood>>

\* An upsert: the row of an event takes the source of the last one to insert it.
Persist(r) ==
    LET found == request[r].found IN
    /\ At(r, "deleted")
    /\ rows' = {row \in rows : \A new \in found : new.event # row.event} \cup found
    /\ Go(r, "persisted")
    /\ UNCHANGED <<fetched, crashes, lastGood>>

WriteState(r) ==
    /\ At(r, "persisted")
    /\ fetched' = TRUE
    /\ Go(r, "reading")
    /\ UNCHANGED <<rows, crashes, lastGood>>

Respond(r) ==
    /\ At(r, "reading")
    /\ request' = [request EXCEPT ![r] = [@ EXCEPT !.at = "answered", !.answer = rows]]
    /\ UNCHANGED <<rows, fetched, crashes, lastGood>>

Die(r) ==
    /\ request[r].at \notin {"idle", "answered"} /\ crashes < MaxCrashes
    /\ crashes' = crashes + 1
    /\ request' = [request EXCEPT ![r] = Idle]
    /\ UNCHANGED <<rows, fetched, lastGood>>

Work(r) ==
    \/ \E force, mayFetch \in BOOLEAN : Begin(r, force, mayFetch)
    \/ NothingFrom(r) \/ (\E events \in SUBSET Events : DataFrom(r, events))
    \/ DeleteOld(r) \/ Persist(r) \/ WriteState(r) \/ Respond(r) \/ Die(r)
Next == \E r \in Requests : Work(r)
Spec == Init /\ [][Next]_vars

-------------------------------------------------------------------------------
\* "Provider failures never destroy the last good cache" (dividend_store.py:501): an
\* answer holds what the last provider with data said, however many refreshes have
\* found nothing since.  A process that dies between the delete and the insert leaves
\* the symbol without a row; the next refresh that finds data makes it whole.
LastGoodKept ==
    \A r \in Requests :
      At(r, "answered") /\ (crashes = 0 \/ request[r].found # {}) => request[r].answer = lastGood

\* There is a provider to ask.
CacheConstants == Chain \in Seq(ToSet(Chain)) /\ Chain # <<>> /\ MaxCrashes \in Nat
===============================================================================
