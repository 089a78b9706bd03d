------------------------------ MODULE BarCache ------------------------------
(***************************************************************************)
(* Price histories from a chain of providers (AutoMarketData of            *)
(* market_data.py) through the process-local cache of external calls       *)
(* (external_cache.py), asked for by the threads of a market sync.  The    *)
(* cache is a dict in insertion order; a loader runs outside its lock.     *)
(*                                                                         *)
(* The content of an answer is the time at which the provider gave it and  *)
(* whether it has rows: an empty answer is cached too.  bypass and         *)
(* clear_external_cache have no caller outside the tests and are left out, *)
(* and so are the copies in and out of the cache: values are not aliased.  *)
(***************************************************************************)
EXTENDS Integers, Sequences, FiniteSets, SequencesExt, FiniteSetsExt

CONSTANTS
    Threads, Queries,   \* a query is a symbol and its dates
    Chain,              \* the providers in order of preference, a sequence
    TTL,                \* MARKET_CACHE_TTL_SECONDS, in ticks; 0 turns the cache off
    MaxEntries,         \* _MAX_ENTRIES
    LastTick            \* bound: the clock stops there

VARIABLES now, entries, thread

vars == <<now, entries, thread>>

\* QPORT_EXTERNAL_CACHE_MAX is taken as it is; a limit of 0 would hold the entry that
\* was stored last.
CacheConstants ==
    /\ Chain \in Seq(ToSet(Chain)) /\ Chain # <<>>
    /\ TTL \in Nat /\ MaxEntries \in Nat \ {0} /\ LastTick \in Nat

NoAnswer == [at |-> 0, rows |-> FALSE]
Fresh == [step |-> "idle", query |-> "none", next |-> 1, started |-> 0, value |-> NoAnswer]

Key(t) == <<Chain[thread[t].next], thread[t].query>>
Position(k) == {i \in DOMAIN entries : entries[i].key = k}
At(t, step) == thread[t].step = step

\* The entries at the places of K, in their order.
Kept(K) ==
    LET upTo[n \in 0 .. Len(entries)] ==
          IF n = 0 THEN <<>>
          ELSE IF n \in K THEN Append(upTo[n - 1], entries[n]) ELSE upTo[n - 1]
    IN upTo[Len(entries)]

TypeOK ==
    /\ now \in 0 .. LastTick
    /\ \A i \in DOMAIN entries :
         /\ entries[i].key \in ToSet(Chain) \X Queries
         /\ entries[i].value \in [at : 0 .. now, rows : BOOLEAN]
    /\ \A t \in Threads :
         /\ thread[t].step \in {"idle", "lookup", "loading", "storing", "answered"}
         /\ thread[t].next \in DOMAIN Chain

Init ==
    /\ now = 0 /\ entries = <<>>
    /\ thread = [t \in Threads |-> Fresh]

-------------------------------------------------------------------------------
Ask(t, q) ==
    /\ thread[t].step \in {"idle", "answered"}
    /\ thread' = [thread EXCEPT ![t] = [Fresh EXCEPT !.step = "lookup", !.query = q]]
    /\ UNCHANGED <<now, entries>>

\* Rows are the answer; without any, the next provider is asked, and after the last
\* one the thread gets an exception.
Decided(t, value, started) ==
    IF value.rows THEN [Fresh EXCEPT !.step = "answered", !.value = value, !.started = started]
    ELSE IF thread[t].next = Len(Chain) THEN Fresh
    ELSE [Fresh EXCEPT !.step = "lookup", !.query = thread[t].query, !.next = thread[t].next + 1]

Hit(t) == {i \in Position(Key(t)) : entries[i].expires > now}

Lookup(t) ==
    /\ At(t, "lookup")
    /\ IF TTL > 0 /\ Hit(t) # {}
         THEN /\ thread' = [thread EXCEPT ![t] = Decided(t, entries[Max(Hit(t))].value, now)]
              /\ UNCHANGED entries
         ELSE /\ entries' = IF TTL = 0 THEN entries ELSE Kept(DOMAIN entries \ Position(Key(t)))
              /\ thread' = [thread EXCEPT ![t] = [@ EXCEPT !.step = "loading", !.started = now]]
    /\ UNCHANGED now

\* The provider answers, after any time; an exception stores nothing.
Load(t) ==
    /\ At(t, "loading")
    /\ \/ \E rows \in BOOLEAN :
            thread' = [thread EXCEPT ![t] = [@ EXCEPT !.step = "storing",
                                               !.value = [at |-> now, rows |-> rows]]]
       \/ thread' = [thread EXCEPT ![t] = Decided(t, NoAnswer, now)]
    /\ UNCHANGED <<now, entries>>

\* _evict_if_needed: the expired ones, then the oldest inserted.
Evicted ==
    IF Len(entries) < MaxEntries THEN entries
    ELSE LET live == Kept({i \in DOMAIN entries : entries[i].expires > now})
             over == Len(live) - (MaxEntries - 1)
         IN IF over > 0 THEN SubSeq(live, over + 1, Len(live)) ELSE live

Expiry_AfterLoad(t) == now + TTL
\* A slow load shortens the life of its entry.
Expiry(t) == thread[t].started + TTL

\* Assigning to a key that is there keeps its place in the dict.
Store(t) ==
    LET entry == [key |-> Key(t), expires |-> Expiry(t), value |-> thread[t].value]
        there == {i \in DOMAIN Evicted : Evicted[i].key = Key(t)}
    IN /\ At(t, "storing")
       /\ entries' = IF TTL = 0 THEN entries
                     ELSE IF there = {} THEN Append(Evicted, entry)
                     ELSE [Evicted EXCEPT ![Max(there)] = entry]
       /\ thread' = [thread EXCEPT ![t] = Decided(t, thread[t].value, thread[t].started)]
       /\ UNCHANGED now

Tick == now < LastTick /\ now' = now + 1 /\ UNCHANGED <<entries, thread>>

Next == Tick \/ \E t \in Threads :
          Lookup(t) \/ Load(t) \/ Store(t) \/ (\E q \in Queries : Ask(t, q))
Spec == Init /\ [][Next]_vars

-------------------------------------------------------------------------------
\* What a thread is answered was given by the provider after it looked, or less than
\* a TTL before, however long another thread took to load and store it
\* (cached_external_call).
AnswersRecent ==
    \A t \in Threads : At(t, "answered") =>
      /\ thread[t].value.rows
      /\ thread[t].value.at >= thread[t].started \/ thread[t].value.at + TTL > thread[t].started

\* "Bound the process-local cache to prevent unbounded RAM growth": whatever loads
\* finish together, the cache keeps to its limit, with one entry of a key.
Bounded ==
    /\ Len(entries) <= MaxEntries
    /\ \A i, j \in DOMAIN entries : entries[i].key = entries[j].key => i = j

\* An answer that is still good makes room for another only when every one that was
\* there before and stays is good too.
GoodOnesStay ==
    \A e \in ToSet(entries) :
      /\ e.expires > now
      /\ e.key \notin {f.key : f \in ToSet(entries')}
      => \A f \in ToSet(entries) \cap ToSet(entries') : f.expires > now

CacheInv == TypeOK /\ AnswersRecent /\ Bounded
===============================================================================
