------------------------ MODULE DividendPosting_proofs ------------------------
(***************************************************************************)
(* Theorems about corporate actions and dividend posting, for any number   *)
(* of requests, providers, dividends, days, rows and crashes.              *)
(***************************************************************************)
EXTENDS DividendClients, FiniteSetTheorems, SequenceTheorems, TLAPS

Action == [provider : Providers, terms : Dividends]

Request == [pc : Steps, view : SUBSET Event, todo : SUBSET (Ids \cup PostingTypes),
            posted : SUBSET (Ids \X PostingTypes), action : 0 .. MaxActions, event : 0 .. MaxEvents,
            receipt : Receipt \cup {NoReceipt}]

(* What a request that is under way relies on: its view is finite; it has     *)
(* actions, or types of one action and its receipt, to post; and the event     *)
(* that waits for its row is in the ledger, of an action and type it posts.   *)
Sound(q, L, A, R) ==
  /\ IsFiniteSet(q.view)
  /\ q.pc \in {"auto", "autorow"} => q.todo # {} /\ q.todo \subseteq DOMAIN A
  /\ q.pc \in {"manual", "manualrow"} =>
       /\ q.todo # {} /\ q.todo \subseteq PostingTypes
       /\ R[q.action] # NoReceipt /\ q.receipt # NoReceipt
  /\ q.pc \in {"autorow", "manual", "manualrow"} => q.action \in DOMAIN A
  /\ q.pc \in {"autorow", "manualrow"} =>
       /\ q.event \in DOMAIN L
       /\ L[q.event].action = q.action
       /\ L[q.event].kind \in (IF q.pc = "autorow" THEN {A[q.action].terms.type} ELSE q.todo)

RowsSound ==
  /\ Len(ledger) <= MaxEvents /\ Len(actions) <= MaxActions
  /\ \A i \in DOMAIN ledger : ledger[i].id = i

RequestsSound ==
  /\ req \in [Requests -> Request]
  /\ \A r \in Requests : Sound(req[r], ledger, actions, receipts)

DInv == PostingInv /\ RowsSound /\ RequestsSound

-----------------------------------------------------------------------------
(* Sets of events and the shares they hold. *)

LEMMA ImageFinite ==
  ASSUME NEW D, IsFiniteSet(D), NEW f, f = [x \in D |-> f[x]]
  PROVE  IsFiniteSet({f[x] : x \in D})
<1> DEFINE T == {f[x] : x \in D}
<1>1. f \in Surjection(D, T)
  BY DEF Surjection
<1> HIDE DEF T
<1>2. IsFiniteSet(T)
  BY <1>1, FS_Surjection
<1> QED BY <1>2 DEF T

(* The effective ledger is a finite set of events. *)
LEMMA EffectiveEvents ==
  ASSUME ledger \in Seq(Event)
  PROVE  Effective \subseteq Event /\ IsFiniteSet(Effective)
<1> DEFINE D == DOMAIN ledger \ discarded
           f == [i \in D |-> ledger[i]]
<1>1. Len(ledger) \in Nat /\ DOMAIN ledger = 1 .. Len(ledger) /\ \A i \in DOMAIN ledger : ledger[i] \in Event
  BY LenProperties, ElementOfSeq
<1>2. IsFiniteSet(1 .. Len(ledger))
  BY <1>1, FS_Interval
<1>3. IsFiniteSet(D)
  BY <1>1, <1>2, FS_Subset
<1>4. Effective = {f[i] : i \in D}
  BY DEF Effective
<1>5. f = [i \in D |-> f[i]]
  OBVIOUS
<1>6. IsFiniteSet({f[i] : i \in D})
  <2> HIDE DEF D, f
  <2> QED BY <1>3, <1>5, ImageFinite
<1> QED BY <1>1, <1>4, <1>6 DEF Effective

LEMMA MovedFinite ==
  ASSUME NEW E \in SUBSET Event, IsFiniteSet(E), NEW K
  PROVE  IsFiniteSet(Moved(E, K))
<1> DEFINE D == {f \in E : f.kind \in K}
           g == [e \in D |-> {e} \X (1 .. e.qty)]
           S == {g[e] : e \in D}
<1>1. IsFiniteSet(D)
  BY FS_Subset
<1>2. \A e \in D : e.qty \in Nat
  BY DEF Event
<1>3. \A e \in D : IsFiniteSet({e} \X (1 .. e.qty))
  <2> SUFFICES ASSUME NEW e \in D PROVE IsFiniteSet({e} \X (1 .. e.qty))
    OBVIOUS
  <2>1. IsFiniteSet({e})
    BY FS_Singleton
  <2>2. e.qty \in Int
    BY <1>2
  <2>3. IsFiniteSet(1 .. e.qty)
    BY <2>2, FS_Interval
  <2> QED BY <2>1, <2>3, FS_Product
<1>4. g = [e \in D |-> g[e]] /\ \A e \in D : g[e] = {e} \X (1 .. e.qty)
  OBVIOUS
<1>5. Moved(E, K) = UNION S
  BY <1>4 DEF Moved
<1>6. IsFiniteSet(S)
  <2> HIDE DEF D, g
  <2> QED BY <1>1, <1>4, ImageFinite
<1>7. \A T \in S : IsFiniteSet(T)
  BY <1>3, <1>4
<1>8. IsFiniteSet(UNION S)
  <2> HIDE DEF S
  <2> QED BY <1>6, <1>7, FS_UNION
<1> QED BY <1>5, <1>8

(* The shares of a finite set of events are a number. *)
LEMMA SharesNumber ==
  ASSUME NEW E \in SUBSET Event, IsFiniteSet(E)
  PROVE  /\ SharesOf(E) \in Int
         /\ \A d : SharesOn(E, d) \in Int
<1>1. ASSUME NEW F \in SUBSET Event, IsFiniteSet(F)
      PROVE  SharesOf(F) \in Int
  <2>1. IsFiniteSet(Moved(F, {"BUY", "STOCK"})) /\ IsFiniteSet(Moved(F, {"SELL"}))
    BY <1>1, MovedFinite
  <2>2. Cardinality(Moved(F, {"BUY", "STOCK"})) \in Nat /\ Cardinality(Moved(F, {"SELL"})) \in Nat
    BY <2>1, FS_CardinalityType
  <2> QED BY <2>2 DEF SharesOf
<1>2. \A d : SharesOn(E, d) \in Int
  <2> SUFFICES ASSUME NEW d PROVE SharesOn(E, d) \in Int
    OBVIOUS
  <2>1. {e \in E : e.date <= d} \in SUBSET Event /\ IsFiniteSet({e \in E : e.date <= d})
    BY FS_Subset
  <2> QED BY <1>1, <2>1 DEF SharesOn
<1> QED BY <1>1, <1>2

-----------------------------------------------------------------------------
(* What every step keeps. *)

LEMMA Typing ==
  ASSUME DInv
  PROVE  /\ Len(ledger) \in 0 .. MaxEvents /\ DOMAIN ledger = 1 .. Len(ledger)
         /\ \A i \in DOMAIN ledger : ledger[i] \in Event
         /\ Len(actions) \in 0 .. MaxActions /\ DOMAIN actions = 1 .. Len(actions)
         /\ DOMAIN actions \subseteq Ids
         /\ \A a \in DOMAIN actions : actions[a] \in Action /\ actions[a].terms \in Terms
<1>1. Len(ledger) \in Nat /\ DOMAIN ledger = 1 .. Len(ledger) /\ \A i \in DOMAIN ledger : ledger[i] \in Event
  BY LenProperties, ElementOfSeq DEF DInv, PostingInv, TypeOK
<1>2. actions \in Seq(Action)
  BY DEF DInv, PostingInv, TypeOK, Action
<1>3. Len(actions) \in Nat /\ DOMAIN actions = 1 .. Len(actions) /\ \A a \in DOMAIN actions : actions[a] \in Action
  BY <1>2, LenProperties, ElementOfSeq
<1>4. MaxEvents \in Nat /\ MaxActions \in Nat /\ Dividends \subseteq Terms
  BY DividendAssumption
<1> QED BY <1>1, <1>3, <1>4 DEF DInv, RowsSound, Ids, Action

(* Rows are only added, and a receipt is never taken back. *)
Grown ==
  /\ DOMAIN ledger \subseteq DOMAIN ledger' /\ \A i \in DOMAIN ledger : ledger'[i] = ledger[i]
  /\ DOMAIN actions \subseteq DOMAIN actions' /\ \A a \in DOMAIN actions : actions'[a] = actions[a]
  /\ \A a \in Ids : receipts[a] # NoReceipt => receipts'[a] # NoReceipt

LEMMA StaysSound ==
  ASSUME DInv, Grown, NEW q \in Request, Sound(q, ledger, actions, receipts)
  PROVE  Sound(q, ledger', actions', receipts')
BY Typing DEF Sound, Grown, Steps

(* The requests after a step of one of them. *)
LEMMA OneRequest ==
  ASSUME DInv, Grown, NEW r \in Requests, NEW q \in Request, Sound(q, ledger', actions', receipts'),
         req' = [req EXCEPT ![r] = q]
  PROVE  RequestsSound'
<1>1. req \in [Requests -> Request] /\ \A x \in Requests : Sound(req[x], ledger, actions, receipts)
  BY DEF DInv, RequestsSound
<1>2. req' \in [Requests -> Request] /\ \A x \in Requests : req'[x] = IF x = r THEN q ELSE req[x]
  BY <1>1
<1>3. \A x \in Requests : Sound(req'[x], ledger', actions', receipts')
  <2> SUFFICES ASSUME NEW x \in Requests PROVE Sound(req'[x], ledger', actions', receipts')
    OBVIOUS
  <2>1. CASE x = r
    BY <1>2, <2>1
  <2>2. CASE x # r
    <3>1. req[x] \in Request /\ req'[x] = req[x]
      BY <1>1, <1>2, <2>2
    <3> QED BY <1>1, <3>1, StaysSound
  <2> QED BY <2>1, <2>2
<1> QED BY <1>2, <1>3 DEF RequestsSound

LEMMA SameRequests ==
  ASSUME DInv, Grown, UNCHANGED req
  PROVE  RequestsSound'
<1>1. \A r \in Requests : req[r] \in Request /\ Sound(req[r], ledger, actions, receipts) /\ req'[r] = req[r]
  BY DEF DInv, RequestsSound
<1>2. \A r \in Requests : Sound(req'[r], ledger', actions', receipts')
  BY <1>1, StaysSound
<1> QED BY <1>2 DEF DInv, RequestsSound

LEMMA NothingGrown ==
  ASSUME UNCHANGED <<ledger, actions, receipts>>
  PROVE  Grown
BY DEF Grown

(* TypeOK but for the requests. *)
TablesTyped ==
  /\ today \in Days /\ start \in 0 .. LastDay
  /\ ledger \in Seq(Event) /\ discarded \subseteq DOMAIN ledger
  /\ actions \in Seq(Action)
  /\ verified \subseteq DOMAIN actions
  /\ receipts \in [Ids -> Receipt \cup {NoReceipt}]
  /\ postings \in [Ids \X PostingTypes -> 0 .. Len(ledger)]
  /\ crashes \in 0 .. MaxCrashes

LEMMA TablesOf ==
  ASSUME DInv
  PROVE  TablesTyped
BY DEF DInv, PostingInv, TypeOK, TablesTyped, Action

LEMMA Assembled ==
  ASSUME TablesTyped', RowsSound', PostingsAuditable', RequestsSound'
  PROVE  DInv'
<1>1. TypeOK'
  BY DEF TablesTyped, RequestsSound, Request, TypeOK, Action
<1> QED BY <1>1 DEF DInv, PostingInv

LEMMA NewEventTyped ==
  ASSUME DInv, Len(ledger) < MaxEvents, NEW kind \in EventKinds, NEW date \in Days, NEW qty \in Nat,
         NEW a \in 0 .. MaxActions
  PROVE  \A auto \in BOOLEAN :
           /\ NewEvent(kind, date, qty, a, auto) \in Event
           /\ NewEvent(kind, date, qty, a, auto).id = Len(ledger) + 1
<1>1. Len(ledger) + 1 \in 1 .. MaxEvents
  BY Typing, DividendAssumption
<1> QED BY <1>1 DEF NewEvent, Event

LEMMA LedgerGrows ==
  ASSUME DInv, NEW e \in Event, e.id = Len(ledger) + 1, Len(ledger) < MaxEvents,
         ledger' = Append(ledger, e), UNCHANGED <<discarded, actions, receipts, postings>>
  PROVE  /\ Grown /\ RowsSound' /\ PostingsAuditable'
         /\ ledger' \in Seq(Event) /\ discarded' \subseteq DOMAIN ledger'
         /\ postings' \in [Ids \X PostingTypes -> 0 .. Len(ledger')]
         /\ Len(ledger') = Len(ledger) + 1 /\ DOMAIN ledger' = 1 .. Len(ledger) + 1
         /\ ledger'[Len(ledger) + 1] = e
         /\ \A i \in DOMAIN ledger : ledger'[i] = ledger[i]
<1>1. ledger \in Seq(Event) /\ Len(ledger) \in Nat /\ DOMAIN ledger = 1 .. Len(ledger)
  BY Typing, TablesOf DEF TablesTyped
<1>2. /\ ledger' \in Seq(Event) /\ Len(ledger') = Len(ledger) + 1
      /\ \A i \in 1 .. Len(ledger) : ledger'[i] = ledger[i]
      /\ ledger'[Len(ledger) + 1] = e
  BY <1>1, AppendProperties
<1>3. DOMAIN ledger' = 1 .. Len(ledger) + 1
  BY <1>2, LenProperties
<1>4. Grown
  BY <1>1, <1>2, <1>3 DEF Grown
<1>5. RowsSound'
  BY <1>1, <1>2, <1>3, DividendAssumption DEF RowsSound, DInv
<1>6. PostingsAuditable'
  <2> SUFFICES ASSUME NEW a \in Ids, NEW k \in PostingTypes, postings[<<a, k>>] # 0
               PROVE  /\ postings[<<a, k>>] \in DOMAIN ledger'
                      /\ ledger'[postings[<<a, k>>]].action = a
                      /\ ledger'[postings[<<a, k>>]].kind = k
                      /\ receipts[a] # NoReceipt
    BY DEF PostingsAuditable, Postings
  <2>1. postings[<<a, k>>] \in DOMAIN ledger /\ ledger[postings[<<a, k>>]].action = a
        /\ ledger[postings[<<a, k>>]].kind = k /\ receipts[a] # NoReceipt
    BY DEF DInv, PostingInv, PostingsAuditable, Postings
  <2> QED BY <1>1, <1>2, <1>3, <2>1
<1>7. postings' \in [Ids \X PostingTypes -> 0 .. Len(ledger')] /\ discarded' \subseteq DOMAIN ledger'
  BY <1>1, <1>2, <1>3, TablesOf DEF TablesTyped
<1> QED BY <1>1, <1>2, <1>3, <1>4, <1>5, <1>6, <1>7

(* What does not touch ledger, actions, receipts and postings keeps their part. *)
LEMMA RowsKept ==
  ASSUME DInv, UNCHANGED <<ledger, actions, receipts, postings>>
  PROVE  RowsSound' /\ PostingsAuditable' /\ Grown
<1>1. RowsSound'
  BY DEF DInv, RowsSound
<1>2. PostingsAuditable'
  BY DEF DInv, PostingInv, PostingsAuditable, Postings
<1> QED BY <1>1, <1>2, NothingGrown

-----------------------------------------------------------------------------
(* Every step keeps DInv. *)

LEMMA DInvInit == Init => DInv
<1> SUFFICES ASSUME Init PROVE DInv
  OBVIOUS
<1>1. ledger = <<>> /\ actions = <<>> /\ Len(ledger) = 0 /\ Len(actions) = 0
  BY DEF Init
<1>2. ledger \in Seq(Event) /\ DOMAIN ledger = {} /\ actions \in Seq(Action) /\ DOMAIN actions = {}
  BY <1>1
<1>3. {LastDay, MaxEvents, MaxActions, MaxCrashes} \subseteq Nat /\ today \in Days /\ start \in 0 .. LastDay
  BY DividendAssumption DEF Init, Days
<1>4. TablesTyped
  BY <1>1, <1>2, <1>3 DEF Init, TablesTyped
<1>5. RowsSound
  BY <1>1, <1>2, <1>3 DEF RowsSound
<1>6. PostingsAuditable
  BY DEF Init, PostingsAuditable
<1>7. Idle \in Request
  BY <1>3 DEF Idle, At, Request, Steps
<1>8. IsFiniteSet({})
  BY FS_EmptySet
<1>9. Sound(Idle, ledger, actions, receipts)
  BY <1>8 DEF Idle, At, Sound
<1>10. RequestsSound
  BY <1>7, <1>9 DEF Init, RequestsSound
<1>11. TypeOK
  BY <1>4, <1>10 DEF TablesTyped, RequestsSound, Request, TypeOK, Action
<1> QED BY <1>5, <1>6, <1>10, <1>11 DEF DInv, PostingInv

(* A request that ends. *)
LEMMA IdleSound ==
  \A L, A, R : Idle \in Request /\ Sound(Idle, L, A, R)
<1>1. IsFiniteSet({}) /\ {MaxEvents, MaxActions} \subseteq Nat
  BY FS_EmptySet, DividendAssumption
<1> QED BY <1>1 DEF Idle, At, Request, Steps, Sound

LEMMA AppendStep ==
  ASSUME DInv, NEW e \in Event, e.id = Len(ledger) + 1, Len(ledger) < MaxEvents,
         ledger' = Append(ledger, e), start' \in 0 .. LastDay,
         UNCHANGED <<today, discarded, actions, verified, receipts, postings, crashes>>,
         RequestsSound'
  PROVE  DInv'
<1>1. TablesTyped
  BY TablesOf
<1>2. RowsSound' /\ PostingsAuditable' /\ ledger' \in Seq(Event) /\ discarded' \subseteq DOMAIN ledger'
      /\ postings' \in [Ids \X PostingTypes -> 0 .. Len(ledger')]
  BY LedgerGrows
<1>3. TablesTyped'
  BY <1>1, <1>2 DEF TablesTyped
<1> QED BY <1>2, <1>3, Assembled

LEMMA UserAppend ==
  ASSUME DInv, NEW kind \in {"BUY", "SELL"}, NEW d \in Days,
         LET e == NewEvent(kind, d, 1, 0, FALSE) IN CanAppend(Effective, e) /\ ledger' = Append(ledger, e),
         start' \in 0 .. LastDay,
         UNCHANGED <<today, discarded, actions, verified, receipts, postings, req, crashes>>
  PROVE  DInv'
<1> DEFINE e == NewEvent(kind, d, 1, 0, FALSE)
<1>1. Len(ledger) < MaxEvents /\ ledger' = Append(ledger, e)
  BY DEF CanAppend
<1>2. kind \in EventKinds /\ 0 \in 0 .. MaxActions /\ 1 \in Nat
  BY DividendAssumption DEF EventKinds
<1>3. \A auto \in BOOLEAN :
        /\ NewEvent(kind, d, 1, 0, auto) \in Event
        /\ NewEvent(kind, d, 1, 0, auto).id = Len(ledger) + 1
  BY <1>1, <1>2, NewEventTyped
<1>4. e \in Event /\ e.id = Len(ledger) + 1
  BY <1>3
<1> HIDE DEF e
<1>5. Grown
  BY <1>1, <1>4, LedgerGrows
<1>6. RequestsSound'
  BY <1>5, SameRequests
<1> QED BY <1>1, <1>4, <1>6, AppendStep

LEMMA UserKeeps ==
  ASSUME DInv, UserStep
  PROVE  DInv'
<1>1. TablesTyped
  BY TablesOf
<1>2. ASSUME NEW t \in Trades, Trade(t[1], t[2])
      PROVE  DInv'
  <2>1. t[1] \in {"BUY", "SELL"} /\ t[2] \in Days
    BY DividendAssumption
  <2>2. start' \in 0 .. LastDay
    BY <1>1, <1>2 DEF TablesTyped, Trade
  <2> QED BY <1>2, <2>1, <2>2, UserAppend DEF Trade
<1>3. CASE ImportOpening
  <2>1. today \in Days /\ start \in 0 .. LastDay
    BY <1>1 DEF TablesTyped
  <2>2. start' \in 0 .. LastDay
    BY <1>3, <2>1, DividendAssumption DEF ImportOpening, Days
  <2> QED BY <1>3, <2>1, <2>2, UserAppend DEF ImportOpening
<1>4. ASSUME NEW i \in DOMAIN ledger, Discard(i)
      PROVE  DInv'
  <2>1. RowsSound' /\ PostingsAuditable' /\ Grown
    BY <1>4, RowsKept DEF Discard
  <2>2. TablesTyped'
    BY <1>1, <1>4 DEF TablesTyped, Discard
  <2>3. RequestsSound'
    BY <1>4, <2>1, SameRequests DEF Discard
  <2> QED BY <2>1, <2>2, <2>3, Assembled
<1>5. ASSUME NEW a \in DOMAIN actions, Verify(a)
      PROVE  DInv'
  <2>1. RowsSound' /\ PostingsAuditable' /\ Grown
    BY <1>5, RowsKept DEF Verify
  <2>2. TablesTyped'
    BY <1>1, <1>5 DEF TablesTyped, Verify
  <2>3. RequestsSound'
    BY <1>5, <2>1, SameRequests DEF Verify
  <2> QED BY <2>1, <2>2, <2>3, Assembled
<1>6. ASSUME NEW a \in DOMAIN actions, NEW rcpt \in Receipts, RecordReceipt(a, rcpt)
      PROVE  DInv'
  <2>1. receipts' = [receipts EXCEPT ![a] = rcpt] /\ a \in Ids
        /\ UNCHANGED <<today, ledger, discarded, start, actions, verified, postings, req, crashes>>
    BY <1>6, Typing DEF RecordReceipt
  <2>2. rcpt # NoReceipt
    BY DividendAssumption DEF NoReceipt, Receipt, Days
  <2>3. \A b \in Ids : receipts'[b] = IF b = a THEN rcpt ELSE receipts[b]
    BY <1>1, <2>1 DEF TablesTyped
  <2>9. Receipts \subseteq Receipt
    BY DividendAssumption
  <2>4. TablesTyped'
    BY <1>1, <2>1, <2>9 DEF TablesTyped
  <2>5. Grown
    BY <2>1, <2>2, <2>3 DEF Grown
  <2>6. RowsSound'
    BY <2>1 DEF DInv, RowsSound
  <2>7. PostingsAuditable'
    BY <2>1, <2>2, <2>3 DEF DInv, PostingInv, PostingsAuditable, Postings
  <2>8. RequestsSound'
    BY <2>1, <2>5, SameRequests
  <2> QED BY <2>4, <2>6, <2>7, <2>8, Assembled
<1> QED BY <1>2, <1>3, <1>4, <1>5, <1>6 DEF UserStep

(* A request reads, and the tables stay as they are. *)
LEMMA ReadingStep ==
  ASSUME DInv, NEW r \in Requests, NEW q \in Request, Sound(q, ledger, actions, receipts),
         req' = [req EXCEPT ![r] = q], crashes' \in 0 .. MaxCrashes, UNCHANGED <<today, tables>>
  PROVE  DInv'
<1>1. UNCHANGED <<ledger, discarded, start, actions, verified, receipts, postings>>
  BY DEF tables
<1>2. RowsSound' /\ PostingsAuditable' /\ Grown
  BY <1>1, RowsKept
<1>3. Sound(q, ledger', actions', receipts')
  BY <1>1
<1>4. RequestsSound'
  BY <1>2, <1>3, OneRequest
<1>5. TablesTyped'
  BY <1>1, TablesOf DEF TablesTyped
<1> QED BY <1>2, <1>4, <1>5, Assembled

LEMMA BeginKeeps ==
  ASSUME DInv, NEW r \in Requests, Begin(r)
  PROVE  DInv'
<1>1. Effective \subseteq Event /\ IsFiniteSet(Effective)
  BY EffectiveEvents, TablesOf DEF TablesTyped
<1>2. crashes \in 0 .. MaxCrashes /\ {MaxEvents, MaxActions} \subseteq Nat
  BY TablesOf, DividendAssumption DEF TablesTyped
<1>3. CASE BeginSync(r)
  <2> DEFINE q == At("fetch", Effective, {})
  <2>1. q \in Request /\ Sound(q, ledger, actions, receipts)
    BY <1>1, <1>2 DEF At, Request, Steps, Sound
  <2>2. req' = [req EXCEPT ![r] = q] /\ UNCHANGED <<today, tables, crashes>>
    BY <1>3 DEF BeginSync, Goto
  <2> HIDE DEF q
  <2> QED BY <1>2, <2>1, <2>2, ReadingStep
<1>4. ASSUME NEW a \in DOMAIN actions, BeginPost(r, a)
      PROVE  DInv'
  <2> DEFINE q == [At("manual", Effective, Unposted(a)) EXCEPT !.action = a, !.receipt = receipts[a]]
  <2>1. req' = [req EXCEPT ![r] = q] /\ UNCHANGED <<today, tables, crashes>>
        /\ receipts[a] # NoReceipt /\ Unposted(a) # {}
    BY <1>4 DEF BeginPost, Reconciled, Goto
  <2>2. Unposted(a) \subseteq PostingTypes /\ a \in 0 .. MaxActions /\ receipts[a] \in Receipt \cup {NoReceipt}
    BY Typing, TablesOf DEF Unposted, Ids, TablesTyped
  <2>3. q = [pc |-> "manual", view |-> Effective, todo |-> Unposted(a), posted |-> {},
             action |-> a, event |-> 0, receipt |-> receipts[a]]
    <3> DEFINE w == At("manual", Effective, Unposted(a))
    <3>1. w = [pc |-> "manual", view |-> Effective, todo |-> Unposted(a), posted |-> {},
               action |-> 0, event |-> 0, receipt |-> NoReceipt]
      BY DEF At
    <3>2. q = [w EXCEPT !.action = a, !.receipt = receipts[a]]
      OBVIOUS
    <3> HIDE DEF w, q
    <3> QED BY <3>1, <3>2
  <2>4. q \in Request
    <3> HIDE DEF q
    <3>1. Unposted(a) \in SUBSET (Ids \cup PostingTypes) /\ Effective \in SUBSET Event
          /\ {} \in SUBSET (Ids \X PostingTypes) /\ 0 \in 0 .. MaxEvents /\ "manual" \in Steps
      BY <1>1, <1>2, <2>2 DEF Steps
    <3> HIDE DEF Unposted, Effective
    <3> QED BY <2>2, <2>3, <3>1 DEF Request
  <2>5. Sound(q, ledger, actions, receipts)
    BY <1>1, <2>1, <2>2, <2>3 DEF Sound
  <2> HIDE DEF q
  <2> QED BY <1>2, <2>1, <2>4, <2>5, ReadingStep
<1> QED BY <1>3, <1>4 DEF Begin

LEMMA CrashKeeps ==
  ASSUME DInv, NEW r \in Requests, Crash(r)
  PROVE  DInv'
<1>1. crashes' \in 0 .. MaxCrashes
  BY TablesOf, DividendAssumption DEF TablesTyped, Crash
<1>2. Idle \in Request /\ Sound(Idle, ledger, actions, receipts)
  BY IdleSound
<1> QED BY <1>1, <1>2, ReadingStep DEF Crash, Goto

LEMMA FetchKeeps ==
  ASSUME DInv, NEW r \in Requests, Fetch(r)
  PROVE  DInv'
<1> DEFINE q == At("open", req[r].view, {})
<1>1. req' = [req EXCEPT ![r] = q]
      /\ UNCHANGED <<today, ledger, discarded, start, verified, receipts, postings, crashes>>
  BY DEF Fetch, Goto
<1>2. req[r] \in Request /\ Sound(req[r], ledger, actions, receipts)
  BY DEF DInv, RequestsSound
<1>3. q \in Request /\ Sound(q, ledger, actions', receipts)
  BY <1>2, DividendAssumption DEF At, Request, Steps, Sound
<1> HIDE DEF q
<1>4. /\ actions' \in Seq(Action) /\ DOMAIN actions \subseteq DOMAIN actions' /\ Len(actions') <= MaxActions
      /\ \A a \in DOMAIN actions : actions'[a] = actions[a]
  <2>1. CASE UNCHANGED actions
    BY <2>1, TablesOf DEF TablesTyped, DInv, RowsSound
  <2>2. ASSUME NEW p \in Providers, NEW t \in Dividends, Len(actions) < MaxActions,
               actions' = Append(actions, [provider |-> p, terms |-> t])
        PROVE  /\ actions' \in Seq(Action) /\ DOMAIN actions \subseteq DOMAIN actions'
               /\ Len(actions') <= MaxActions /\ \A a \in DOMAIN actions : actions'[a] = actions[a]
    <3> DEFINE x == [provider |-> p, terms |-> t]
    <3>1. x \in Action /\ actions \in Seq(Action) /\ Len(actions) \in Nat /\ DOMAIN actions = 1 .. Len(actions)
      BY TablesOf, Typing DEF TablesTyped, Action
    <3> HIDE DEF x
    <3>2. /\ actions' \in Seq(Action) /\ Len(actions') = Len(actions) + 1
          /\ \A i \in 1 .. Len(actions) : actions'[i] = actions[i]
      BY <2>2, <3>1, AppendProperties DEF x
    <3>3. DOMAIN actions' = 1 .. Len(actions) + 1
      BY <3>2, LenProperties
    <3> QED BY <2>2, <3>1, <3>2, <3>3, DividendAssumption
  <2> QED BY <2>1, <2>2 DEF Fetch
<1>5. Grown
  BY <1>1, <1>4 DEF Grown
<1>6. TablesTyped'
  BY <1>1, <1>4, TablesOf DEF TablesTyped
<1>7. RowsSound'
  BY <1>1, <1>4 DEF DInv, RowsSound
<1>8. PostingsAuditable'
  BY <1>1 DEF DInv, PostingInv, PostingsAuditable, Postings
<1>9. Sound(q, ledger', actions', receipts')
  BY <1>1, <1>3
<1>10. RequestsSound'
  BY <1>1, <1>3, <1>5, <1>9, OneRequest
<1> QED BY <1>6, <1>7, <1>8, <1>10, Assembled

LEMMA OpenKeeps ==
  ASSUME DInv, NEW r \in Requests, OpenPosting(r)
  PROVE  DInv'
<1> DEFINE todo == {a \in DOMAIN actions : Due(actions[a].terms)}
           q == [At("auto", req[r].view, todo) EXCEPT !.posted = Posted]
           n == IF todo = {} THEN Idle ELSE q
<1>1. req' = [req EXCEPT ![r] = n] /\ UNCHANGED <<today, tables, crashes>>
  BY DEF OpenPosting, Goto
<1>2. req[r] \in Request /\ Sound(req[r], ledger, actions, receipts)
  BY DEF DInv, RequestsSound
<1>3. q = [pc |-> "auto", view |-> req[r].view, todo |-> todo, posted |-> Posted,
           action |-> 0, event |-> 0, receipt |-> NoReceipt]
  <2> HIDE DEF todo
  <2> QED BY DEF At
<1>4. todo \subseteq Ids /\ todo \subseteq DOMAIN actions /\ Posted \subseteq Ids \X PostingTypes
  BY Typing DEF Posted
<1>5. todo # {} => q \in Request /\ Sound(q, ledger, actions, receipts)
  <2> HIDE DEF todo, q
  <2>1. q \in Request
    BY <1>2, <1>3, <1>4, DividendAssumption DEF Request, Steps
  <2> QED BY <1>2, <1>3, <1>4, <2>1 DEF Sound
<1>6. n \in Request /\ Sound(n, ledger, actions, receipts)
  <2> HIDE DEF q, todo
  <2> QED BY <1>5, IdleSound
<1> HIDE DEF n
<1>7. crashes' \in 0 .. MaxCrashes
  BY <1>1, TablesOf DEF TablesTyped
<1> QED BY <1>1, <1>6, <1>7, ReadingStep

(* The automatic posting of an action skips it, or appends its event and goes on *)
(* to the posting row.                                                           *)
LEMMA AutoShape ==
  ASSUME DInv, NEW r \in Requests, NEW a \in req[r].todo, AutoAppendOf(r, a)
  PROVE  /\ req[r].pc = "auto" /\ req[r].todo \subseteq DOMAIN actions /\ a \in DOMAIN actions
         /\ UNCHANGED <<today, discarded, start, actions, verified, receipts, postings, crashes>>
         /\ \/ /\ UNCHANGED ledger
               /\ req' = [req EXCEPT ![r] = IF req[r].todo = {a} THEN Idle
                                            ELSE [req[r] EXCEPT !.todo = @ \ {a}]]
            \/ \E e \in Event :
                 /\ Postable(r, a)
                 /\ Len(ledger) < MaxEvents /\ ledger' = Append(ledger, e)
                 /\ e.id = Len(ledger) + 1 /\ e.action = a /\ e.kind = actions[a].terms.type
                 /\ req' = [req EXCEPT ![r] = [req[r] EXCEPT !.pc = "autorow", !.action = a,
                                                             !.event = e.id, !.view = Effective \cup {e}]]
<1> DEFINE t == actions[a].terms
           x == Entitled(req[r].view, t)
           e == AutoEvent(req[r].view, a)
<1>1. req[r] \in Request /\ Sound(req[r], ledger, actions, receipts) /\ req[r].pc = "auto"
  BY DEF DInv, RequestsSound, AutoAppendOf
<1>2. req[r].todo \subseteq DOMAIN actions /\ a \in DOMAIN actions /\ a \in 0 .. MaxActions
  BY <1>1, Typing DEF Sound, Ids
<1>3. UNCHANGED <<today, discarded, start, actions, verified, receipts, postings, crashes>>
  BY DEF AutoAppendOf
<1>4. CASE Postable(r, a)
  <2>1. Len(ledger) < MaxEvents /\ x > 0
    BY <1>4 DEF Postable, CanAppend
  <2>2. x \in Int
    BY <1>1, SharesNumber DEF Sound, Request, Entitled
  <2>3. t.type \in PostingTypes /\ t.pay \in Days /\ t.rate \in Nat
    BY <1>2, Typing DEF Terms
  <2>4. x * t.rate \in Nat
    <3>1. \A m, n \in Nat : m * n \in Nat
      OBVIOUS
    <3>2. x \in Nat
      BY <2>1, <2>2
    <3> HIDE DEF x, t
    <3> QED BY <2>3, <3>1, <3>2
  <2>5. t.type \in EventKinds
    BY <2>3 DEF EventKinds
  <2>6. \A auto \in BOOLEAN :
          /\ NewEvent(t.type, t.pay, x * t.rate, a, auto) \in Event
          /\ NewEvent(t.type, t.pay, x * t.rate, a, auto).id = Len(ledger) + 1
    <3> HIDE DEF x, t
    <3> QED BY <1>2, <2>1, <2>3, <2>4, <2>5, NewEventTyped
  <2>7. e \in Event /\ e.id = Len(ledger) + 1
    BY <2>6 DEF AutoEvent
  <2>8. e.action = a /\ e.kind = t.type
    BY DEF AutoEvent, NewEvent
  <2>9. ledger' = Append(ledger, e)
        /\ req' = [req EXCEPT ![r] = [req[r] EXCEPT !.pc = "autorow", !.action = a,
                                                    !.event = e.id, !.view = Effective \cup {e}]]
    BY <1>4 DEF AutoAppendOf, Goto
  <2> HIDE DEF e
  <2> QED BY <1>1, <1>2, <1>3, <1>4, <2>1, <2>7, <2>8, <2>9
<1>5. CASE ~Postable(r, a)
  BY <1>1, <1>2, <1>3, <1>5 DEF AutoAppendOf, Drop, Goto
<1> QED BY <1>4, <1>5

LEMMA AutoAppendKeeps ==
  ASSUME DInv, NEW r \in Requests, AutoAppend(r)
  PROVE  DInv'
<1> PICK a \in req[r].todo : AutoAppendOf(r, a)
  BY DEF AutoAppend
<1>1. /\ req[r].pc = "auto" /\ req[r].todo \subseteq DOMAIN actions /\ a \in DOMAIN actions
      /\ UNCHANGED <<today, discarded, start, actions, verified, receipts, postings, crashes>>
  BY AutoShape
<1>2. req[r] \in Request /\ Sound(req[r], ledger, actions, receipts)
  BY DEF DInv, RequestsSound
<1>3. CASE /\ UNCHANGED ledger
           /\ req' = [req EXCEPT ![r] = IF req[r].todo = {a} THEN Idle
                                        ELSE [req[r] EXCEPT !.todo = @ \ {a}]]
  <2> DEFINE q == [req[r] EXCEPT !.todo = @ \ {a}]
             n == IF req[r].todo = {a} THEN Idle ELSE q
  <2>1. req[r].todo # {a} => q \in Request /\ Sound(q, ledger, actions, receipts)
    BY <1>1, <1>2 DEF Request, Sound
  <2>2. n \in Request /\ Sound(n, ledger, actions, receipts)
    <3> HIDE DEF q
    <3> QED BY <2>1, IdleSound
  <2>3. req' = [req EXCEPT ![r] = n] /\ UNCHANGED <<today, tables>> /\ crashes' \in 0 .. MaxCrashes
    BY <1>1, <1>3, TablesOf DEF tables, TablesTyped
  <2> HIDE DEF n
  <2> QED BY <2>2, <2>3, ReadingStep
<1>4. ASSUME NEW e \in Event,
             Len(ledger) < MaxEvents, ledger' = Append(ledger, e),
             e.id = Len(ledger) + 1, e.action = a, e.kind = actions[a].terms.type,
             req' = [req EXCEPT ![r] = [req[r] EXCEPT !.pc = "autorow", !.action = a,
                                                      !.event = e.id, !.view = Effective \cup {e}]]
      PROVE  DInv'
  <2> DEFINE q == [req[r] EXCEPT !.pc = "autorow", !.action = a,
                                 !.event = e.id, !.view = Effective \cup {e}]
  <2>1. Effective \subseteq Event /\ IsFiniteSet(Effective)
    BY EffectiveEvents, TablesOf DEF TablesTyped
  <2>2. IsFiniteSet(Effective \cup {e})
    BY <2>1, FS_AddElement
  <2>3. Grown /\ DOMAIN ledger' = 1 .. Len(ledger) + 1 /\ ledger'[Len(ledger) + 1] = e
    BY <1>1, <1>4, LedgerGrows
  <2>4. q \in Request
    <3>1. Effective \cup {e} \subseteq Event /\ a \in 0 .. MaxActions /\ e.id \in 0 .. MaxEvents
      BY <1>1, <1>4, <2>1, Typing, DividendAssumption DEF Ids
    <3> QED BY <1>2, <3>1 DEF Request, Steps
  <2>5. Len(ledger) + 1 \in DOMAIN ledger'
    BY <2>3, Typing
  <2>6. Sound(q, ledger', actions', receipts')
    BY <1>1, <1>2, <1>4, <2>2, <2>3, <2>5 DEF Request, Sound
  <2>7. start' \in 0 .. LastDay
    BY <1>1, TablesOf DEF TablesTyped
  <2> HIDE DEF q
  <2>8. RequestsSound'
    BY <1>4, <2>3, <2>4, <2>6, OneRequest DEF q
  <2> QED BY <1>1, <1>4, <2>7, <2>8, AppendStep
<1> QED BY <1>3, <1>4, AutoShape, ZenonT(40)

(* A posting row is made for an event of the ledger, unless there is one. *)
LEMMA PostingStep ==
  ASSUME DInv, NEW r \in Requests, NEW a \in Ids, NEW k \in PostingTypes, NEW i \in Postings(a, k),
         NEW v \in {i, postings[<<a, k>>]}, v # 0, postings' = [postings EXCEPT ![<<a, k>>] = v],
         receipts' \in [Ids -> Receipt \cup {NoReceipt}],
         \A b \in Ids : receipts[b] # NoReceipt => receipts'[b] # NoReceipt,
         receipts'[a] # NoReceipt,
         UNCHANGED <<today, ledger, discarded, start, actions, verified, crashes>>,
         NEW q \in Request, Sound(q, ledger, actions, receipts'), req' = [req EXCEPT ![r] = q]
  PROVE  DInv'
<1>1. TablesTyped /\ i \in 1 .. Len(ledger) /\ Len(ledger) \in Nat
  BY TablesOf, Typing DEF Postings
<1>2. postings' \in [Ids \X PostingTypes -> 0 .. Len(ledger)]
      /\ \A p \in Ids \X PostingTypes : postings'[p] = IF p = <<a, k>> THEN v ELSE postings[p]
  BY <1>1 DEF TablesTyped
<1>3. TablesTyped' /\ RowsSound' /\ Grown
  BY <1>1, <1>2 DEF TablesTyped, DInv, RowsSound, Grown
<1>4. PostingsAuditable'
  <2> SUFFICES ASSUME NEW b \in Ids, NEW m \in PostingTypes, postings'[<<b, m>>] # 0
               PROVE  /\ postings'[<<b, m>>] \in Postings(b, m)
                      /\ receipts'[b] # NoReceipt
    BY DEF PostingsAuditable, Postings
  <2>1. postings[<<b, m>>] # 0 => postings[<<b, m>>] \in Postings(b, m) /\ receipts[b] # NoReceipt
    BY DEF DInv, PostingInv, PostingsAuditable
  <2>2. <<b, m>> \in Ids \X PostingTypes /\ (<<b, m>> = <<a, k>> => b = a /\ m = k)
    OBVIOUS
  <2>3. postings'[<<b, m>>] = IF <<b, m>> = <<a, k>> THEN v ELSE postings[<<b, m>>]
    BY <1>2, <2>2
  <2> QED BY <2>1, <2>2, <2>3
<1>5. Sound(q, ledger', actions', receipts')
  OBVIOUS
<1>6. RequestsSound'
  BY <1>3, <1>5, OneRequest
<1> QED BY <1>3, <1>4, <1>6, Assembled

LEMMA AutoRowShape ==
  ASSUME DInv, NEW r \in Requests, AutoRow(r)
  PROVE  LET a    == req[r].action
             k    == actions[a].terms.type
             rest == req[r].todo \ {a}
         IN  /\ a \in Ids /\ a \in DOMAIN actions /\ k \in PostingTypes
             /\ req[r].event \in Postings(a, k)
             /\ postings' = [postings EXCEPT ![<<a, k>>] = IF @ = 0 THEN req[r].event ELSE @]
             /\ req' = [req EXCEPT ![r] = IF rest = {} THEN Idle
                                          ELSE [req[r] EXCEPT !.pc = "auto", !.todo = rest,
                                                              !.posted = @ \cup {<<a, k>>}]]
             /\ UNCHANGED <<today, ledger, discarded, start, actions, verified, crashes>>
<1>1. req[r] \in Request /\ Sound(req[r], ledger, actions, receipts) /\ req[r].pc = "autorow"
  BY DEF DInv, RequestsSound, AutoRow
<1>2. req[r].action \in Ids /\ req[r].action \in DOMAIN actions
      /\ actions[req[r].action].terms.type \in PostingTypes
  BY <1>1, Typing DEF Sound, Terms
<1>3. req[r].event \in Postings(req[r].action, actions[req[r].action].terms.type)
  BY <1>1 DEF Sound, Postings
<1> QED BY <1>2, <1>3 DEF AutoRow, RowEvent, Goto

LEMMA AutoRowKeeps ==
  ASSUME DInv, NEW r \in Requests, AutoRow(r)
  PROVE  DInv'
<1> DEFINE a    == req[r].action
           k    == actions[a].terms.type
           rest == req[r].todo \ {a}
           i    == req[r].event
           x    == ledger[i].qty
           paid == [CASH |-> IF k = "CASH" THEN x ELSE 0,
                    STOCK |-> IF k = "STOCK" THEN x ELSE 0, date |-> actions[a].terms.pay]
           v    == IF postings[<<a, k>>] = 0 THEN i ELSE postings[<<a, k>>]
           q    == [req[r] EXCEPT !.pc = "auto", !.todo = rest, !.posted = @ \cup {<<a, k>>}]
           n    == IF rest = {} THEN Idle ELSE q
<1>1. /\ a \in Ids /\ a \in DOMAIN actions /\ k \in PostingTypes /\ i \in Postings(a, k)
      /\ postings' = [postings EXCEPT ![<<a, k>>] = v]
      /\ req' = [req EXCEPT ![r] = n]
      /\ UNCHANGED <<today, ledger, discarded, start, actions, verified, crashes>>
  BY AutoRowShape
<1>2. receipts' = [receipts EXCEPT ![a] = IF @ = NoReceipt THEN paid ELSE @]
  BY DEF AutoRow
<1>3. req[r] \in Request /\ Sound(req[r], ledger, actions, receipts) /\ req[r].pc = "autorow"
  BY DEF DInv, RequestsSound, AutoRow
<1>4. i \in DOMAIN ledger /\ ledger[i] \in Event
  BY <1>1, Typing DEF Postings
<1>5. paid \in Receipt /\ paid # NoReceipt
  <2>1. x \in Nat /\ actions[a].terms.pay \in Days
    BY <1>1, <1>4, Typing DEF Event, Terms
  <2> HIDE DEF k, x, a
  <2>2. 0 \notin Days
    BY DEF Days
  <2> QED BY <2>1, <2>2 DEF Receipt, NoReceipt
<1>6. receipts \in [Ids -> Receipt \cup {NoReceipt}]
  BY TablesOf DEF TablesTyped
<1>7. /\ receipts' \in [Ids -> Receipt \cup {NoReceipt}]
      /\ \A b \in Ids : receipts[b] # NoReceipt => receipts'[b] # NoReceipt
      /\ receipts'[a] # NoReceipt
  <2> HIDE DEF paid, a
  <2> QED BY <1>1, <1>2, <1>5, <1>6
<1>8. v # 0 /\ v \in {i, postings[<<a, k>>]}
  BY <1>4, Typing
<1>9. rest # {} => q \in Request /\ Sound(q, ledger, actions, receipts')
  <2>1. <<a, k>> \in Ids \X PostingTypes /\ q.view = req[r].view /\ q.todo = rest /\ q.pc = "auto"
    BY <1>1, <1>3 DEF Request
  <2>2. q \in Request
    <3> HIDE DEF a, k
    <3> QED BY <1>3, <2>1 DEF Request, Steps
  <2> QED BY <1>3, <2>1, <2>2 DEF Sound
<1>10. n \in Request /\ Sound(n, ledger, actions, receipts')
  <2> HIDE DEF q, rest
  <2> QED BY <1>9, IdleSound
<1> HIDE DEF a, k, n, i, v
<1> QED BY <1>1, <1>7, <1>8, <1>10, PostingStep

LEMMA ManualShape ==
  ASSUME DInv, NEW r \in Requests, ManualAppend(r)
  PROVE  /\ req[r].pc = "manual" /\ req[r].action \in DOMAIN actions
         /\ UNCHANGED <<today, discarded, start, actions, verified, receipts, postings, crashes>>
         /\ \/ /\ UNCHANGED ledger
               /\ req' = [req EXCEPT ![r] = Idle]
            \/ \E e \in Event :
                 /\ Len(ledger) < MaxEvents /\ ledger' = Append(ledger, e)
                 /\ e.id = Len(ledger) + 1 /\ e.action = req[r].action /\ e.kind \in req[r].todo
                 /\ req' = [req EXCEPT ![r] = [req[r] EXCEPT !.pc = "manualrow", !.event = e.id,
                                                             !.view = Effective \cup {e}]]
<1> DEFINE a == req[r].action
           k == IF "CASH" \in req[r].todo THEN "CASH" ELSE "STOCK"
           x == req[r].receipt[k]
           d == req[r].receipt.date
           e == NewEvent(k, d, x, a, FALSE)
<1>1. req[r] \in Request /\ Sound(req[r], ledger, actions, receipts) /\ req[r].pc = "manual"
  BY DEF DInv, RequestsSound, ManualAppend
<1>2. a \in DOMAIN actions /\ a \in Ids /\ a \in 0 .. MaxActions /\ receipts[a] # NoReceipt
      /\ k \in req[r].todo /\ k \in EventKinds /\ (k = "CASH" \/ k = "STOCK")
  BY <1>1, Typing DEF Sound, PostingTypes, EventKinds, Ids
<1>3. req[r].receipt \in Receipt
  BY <1>1 DEF Sound, Request
<1>4. x \in Nat /\ d \in Days
  <2>1. req[r].receipt.CASH \in Nat /\ req[r].receipt.STOCK \in Nat /\ d \in Days
    BY <1>3 DEF Receipt
  <2> HIDE DEF k
  <2> QED BY <1>2, <2>1
<1>5. UNCHANGED <<today, discarded, start, actions, verified, receipts, postings, crashes>>
  BY DEF ManualAppend
<1>6. CASE e.date <= today /\ CanAppend(req[r].view, e)
  <2>1. Len(ledger) < MaxEvents
    BY <1>6 DEF CanAppend
  <2>2. \A auto \in BOOLEAN :
          /\ NewEvent(k, d, x, a, auto) \in Event
          /\ NewEvent(k, d, x, a, auto).id = Len(ledger) + 1
    <3> HIDE DEF k, x, a, d
    <3> QED BY <1>2, <1>4, <2>1, NewEventTyped
  <2>3. e \in Event /\ e.id = Len(ledger) + 1
    BY <2>2
  <2>4. e.action = a /\ e.kind = k
    BY DEF NewEvent
  <2>5. ledger' = Append(ledger, e)
        /\ req' = [req EXCEPT ![r] = [req[r] EXCEPT !.pc = "manualrow", !.event = e.id,
                                                    !.view = Effective \cup {e}]]
    BY <1>6 DEF ManualAppend, Goto
  <2> HIDE DEF e
  <2> QED BY <1>1, <1>2, <1>5, <2>1, <2>3, <2>4, <2>5
<1>7. CASE ~(e.date <= today /\ CanAppend(req[r].view, e))
  BY <1>1, <1>2, <1>5, <1>7 DEF ManualAppend, Goto
<1> QED BY <1>6, <1>7

LEMMA ManualAppendKeeps ==
  ASSUME DInv, NEW r \in Requests, ManualAppend(r)
  PROVE  DInv'
<1>1. /\ req[r].pc = "manual" /\ req[r].action \in DOMAIN actions
      /\ UNCHANGED <<today, discarded, start, actions, verified, receipts, postings, crashes>>
  BY ManualShape
<1>2. req[r] \in Request /\ Sound(req[r], ledger, actions, receipts)
  BY DEF DInv, RequestsSound
<1>3. CASE UNCHANGED ledger /\ req' = [req EXCEPT ![r] = Idle]
  <2>1. UNCHANGED <<today, tables>> /\ crashes' \in 0 .. MaxCrashes
    BY <1>1, <1>3, TablesOf DEF tables, TablesTyped
  <2>2. Idle \in Request /\ Sound(Idle, ledger, actions, receipts)
    BY IdleSound
  <2> QED BY <1>3, <2>1, <2>2, ReadingStep
<1>4. ASSUME NEW e \in Event,
             Len(ledger) < MaxEvents, ledger' = Append(ledger, e),
             e.id = Len(ledger) + 1, e.action = req[r].action, e.kind \in req[r].todo,
             req' = [req EXCEPT ![r] = [req[r] EXCEPT !.pc = "manualrow", !.event = e.id,
                                                      !.view = Effective \cup {e}]]
      PROVE  DInv'
  <2> DEFINE q == [req[r] EXCEPT !.pc = "manualrow", !.event = e.id, !.view = Effective \cup {e}]
  <2>1. Effective \subseteq Event /\ IsFiniteSet(Effective)
    BY EffectiveEvents, TablesOf DEF TablesTyped
  <2>2. IsFiniteSet(Effective \cup {e})
    BY <2>1, FS_AddElement
  <2>3. Grown /\ DOMAIN ledger' = 1 .. Len(ledger) + 1 /\ ledger'[Len(ledger) + 1] = e
    BY <1>1, <1>4, LedgerGrows
  <2>4. q \in Request
    <3>1. Effective \cup {e} \subseteq Event /\ e.id \in 0 .. MaxEvents
      BY <1>4, <2>1, Typing, DividendAssumption
    <3> QED BY <1>2, <3>1 DEF Request, Steps
  <2>5. Len(ledger) + 1 \in DOMAIN ledger'
    BY <2>3, Typing
  <2>6. Sound(q, ledger', actions', receipts')
    BY <1>1, <1>2, <1>4, <2>2, <2>3, <2>5 DEF Request, Sound
  <2>7. start' \in 0 .. LastDay
    BY <1>1, TablesOf DEF TablesTyped
  <2> HIDE DEF q
  <2>8. RequestsSound'
    BY <1>4, <2>3, <2>4, <2>6, OneRequest DEF q
  <2> QED BY <1>1, <1>4, <2>7, <2>8, AppendStep
<1> QED BY <1>3, <1>4, ManualShape

LEMMA ManualRowShape ==
  ASSUME DInv, NEW r \in Requests, ManualRow(r)
  PROVE  LET a    == req[r].action
             k    == ledger[req[r].event].kind
             rest == req[r].todo \ {k}
         IN  /\ a \in Ids /\ a \in DOMAIN actions /\ k \in PostingTypes /\ k \in req[r].todo
             /\ req[r].event \in Postings(a, k) /\ receipts[a] # NoReceipt
             /\ \/ /\ postings[<<a, k>>] # 0 /\ UNCHANGED postings
                   /\ req' = [req EXCEPT ![r] = Idle]
                \/ /\ postings[<<a, k>>] = 0
                   /\ postings' = [postings EXCEPT ![<<a, k>>] = req[r].event]
                   /\ req' = [req EXCEPT ![r] = IF rest = {} THEN Idle
                                                ELSE [req[r] EXCEPT !.pc = "manual", !.todo = rest]]
             /\ UNCHANGED <<today, ledger, discarded, start, actions, verified, receipts, crashes>>
<1>1. req[r] \in Request /\ Sound(req[r], ledger, actions, receipts) /\ req[r].pc = "manualrow"
  BY DEF DInv, RequestsSound, ManualRow
<1>2. req[r].action \in Ids /\ req[r].action \in DOMAIN actions /\ receipts[req[r].action] # NoReceipt
      /\ ledger[req[r].event].kind \in PostingTypes /\ ledger[req[r].event].kind \in req[r].todo
  BY <1>1, Typing DEF Sound
<1>3. req[r].event \in Postings(req[r].action, ledger[req[r].event].kind)
  BY <1>1 DEF Sound, Postings
<1> QED BY <1>2, <1>3 DEF ManualRow, RowEvent, Goto

LEMMA ManualRowKeeps ==
  ASSUME DInv, NEW r \in Requests, ManualRow(r)
  PROVE  DInv'
<1> DEFINE a    == req[r].action
           i    == req[r].event
           k    == ledger[i].kind
           rest == req[r].todo \ {k}
           q    == [req[r] EXCEPT !.pc = "manual", !.todo = rest]
           n    == IF rest = {} THEN Idle ELSE q
<1>1. /\ a \in Ids /\ a \in DOMAIN actions /\ k \in PostingTypes /\ k \in req[r].todo
      /\ i \in Postings(a, k) /\ receipts[a] # NoReceipt
      /\ UNCHANGED <<today, ledger, discarded, start, actions, verified, receipts, crashes>>
  BY ManualRowShape
<1>2. req[r] \in Request /\ Sound(req[r], ledger, actions, receipts) /\ req[r].pc = "manualrow"
  BY DEF DInv, RequestsSound, ManualRow
<1>3. CASE UNCHANGED postings /\ req' = [req EXCEPT ![r] = Idle]
  <2>1. UNCHANGED <<today, tables>> /\ crashes' \in 0 .. MaxCrashes
    BY <1>1, <1>3, TablesOf DEF tables, TablesTyped
  <2>2. Idle \in Request /\ Sound(Idle, ledger, actions, receipts)
    BY IdleSound
  <2> QED BY <1>3, <2>1, <2>2, ReadingStep
<1>4. CASE postings' = [postings EXCEPT ![<<a, k>>] = i] /\ req' = [req EXCEPT ![r] = n]
  <2>1. rest # {} => q \in Request /\ Sound(q, ledger, actions, receipts')
    <3>1. q \in Request /\ q.view = req[r].view /\ q.todo = rest /\ q.pc = "manual" /\ q.action = a
      BY <1>2 DEF Request, Steps
    <3> QED BY <1>1, <1>2, <3>1 DEF Sound
  <2>2. n \in Request /\ Sound(n, ledger, actions, receipts')
    <3> HIDE DEF q, rest
    <3> QED BY <2>1, IdleSound
  <2>3. i # 0
    BY <1>1, Typing DEF Postings
  <2>4. /\ receipts' \in [Ids -> Receipt \cup {NoReceipt}]
        /\ \A b \in Ids : receipts[b] # NoReceipt => receipts'[b] # NoReceipt
        /\ receipts'[a] # NoReceipt
    BY <1>1, TablesOf DEF TablesTyped
  <2>5. i \in {i, postings[<<a, k>>]}
    OBVIOUS
  <2> HIDE DEF a, i, k, n
  <2> QED BY <1>1, <1>4, <2>2, <2>3, <2>4, <2>5, PostingStep
<1> QED BY <1>3, <1>4, ManualRowShape

LEMMA DInvStep ==
  ASSUME DInv, [Next]_vars
  PROVE  DInv'
<1>1. CASE UserStep
  BY <1>1, UserKeeps
<1>2. CASE NextDay
  <2>1. UNCHANGED <<ledger, discarded, start, actions, verified, receipts, postings, req, crashes>>
    BY <1>2 DEF NextDay, tables
  <2>2. RowsSound' /\ PostingsAuditable' /\ Grown
    BY <2>1, RowsKept
  <2>3. RequestsSound'
    BY <2>1, <2>2, SameRequests
  <2>4. TablesTyped'
    BY <1>2, <2>1, TablesOf, DividendAssumption DEF TablesTyped, NextDay, Days
  <2> QED BY <2>2, <2>3, <2>4, Assembled
<1>3. ASSUME NEW r \in Requests, Begin(r) PROVE DInv'
  BY <1>3, BeginKeeps
<1>4. ASSUME NEW r \in Requests, Continue(r) PROVE DInv'
  BY <1>4, FetchKeeps, OpenKeeps, AutoAppendKeeps, AutoRowKeeps, ManualAppendKeeps, ManualRowKeeps
  DEF Continue
<1>5. ASSUME NEW r \in Requests, Crash(r) PROVE DInv'
  BY <1>5, CrashKeeps
<1>6. CASE UNCHANGED vars
  <2>1. UNCHANGED <<today, ledger, discarded, start, actions, verified, receipts, postings, req, crashes>>
    BY <1>6 DEF vars, tables
  <2>2. RowsSound' /\ PostingsAuditable' /\ Grown
    BY <2>1, RowsKept
  <2>3. RequestsSound'
    BY <2>1, <2>2, SameRequests
  <2>4. TablesTyped'
    BY <2>1, TablesOf DEF TablesTyped
  <2> QED BY <2>2, <2>3, <2>4, Assembled
<1> QED BY <1>1, <1>2, <1>3, <1>4, <1>5, <1>6 DEF Next

THEOREM DividendInvariant == Spec => []DInv
<1>1. Init => DInv
  BY DInvInit
<1>2. DInv /\ [Next]_vars => DInv'
  BY DInvStep
<1> QED BY <1>1, <1>2, PTL DEF Spec

(* auto_post_due_dividends and post_corporate_action_receipt: whatever overlaps or *)
(* dies, a posting row points at an event of its own action and type and has a     *)
(* receipt to go with it.                                                          *)
THEOREM PostingsStayAuditable == Spec => []PostingInv
<1>1. DInv => PostingInv
  BY DEF DInv
<1> QED BY <1>1, DividendInvariant, PTL

-----------------------------------------------------------------------------
(* One client that no crash has interrupted. *)

Client == CHOOSE r \in Requests : TRUE

IsPosting(e) == e.action # 0 /\ e.kind \in PostingTypes

(* The event whose posting row is still to be made. *)
Awaiting(i) == req[Client].pc \in {"autorow", "manualrow"} /\ req[Client].event = i

(* Every dividend of the ledger has its posting row or waits for it, no two are of *)
(* one action and type, the automatic workflow knows all the postings there are,   *)
(* and the manual one posts what is not posted yet, of an action after the opening. *)
RowFollows ==
  \A i \in DOMAIN ledger : IsPosting(ledger[i]) =>
    postings[<<ledger[i].action, ledger[i].kind>>] # 0 \/ Awaiting(i)

NoTwo ==
  \A i, j \in DOMAIN ledger :
    IsPosting(ledger[i]) /\ ledger[i].action = ledger[j].action /\ ledger[i].kind = ledger[j].kind => i = j

KnowsPosted == req[Client].pc \in {"auto", "autorow"} => req[Client].posted = Posted

ManualFirst ==
  req[Client].pc \in {"manual", "manualrow"} =>
    /\ ~BeforeTracking(actions[req[Client].action].terms)
    /\ \A k \in req[Client].todo : postings[<<req[Client].action, k>>] = 0

OnlyOnce == RowFollows /\ NoTwo /\ KnowsPosted /\ ManualFirst

CInv ==
  /\ DInv /\ clients \in {OneClient, Requests}
  /\ Undisturbed => OnlyOnce

LEMMA ClientIs == Client \in Requests /\ OneClient = {Client}
BY SomeRequest DEF Client, OneClient

LEMMA ClientOf ==
  ASSUME DInv
  PROVE  /\ req[Client] \in Request /\ Sound(req[Client], ledger, actions, receipts)
         /\ \A q : req' = [req EXCEPT ![Client] = q] => req'[Client] = q
BY ClientIs DEF DInv, RequestsSound

(* Neither ledger nor postings change, and the request waits for no row. *)
LEMMA OnceKept ==
  ASSUME DInv, OnlyOnce, UNCHANGED <<ledger, postings>>,
         req[Client].pc \notin {"autorow", "manualrow"},
         KnowsPosted', ManualFirst'
  PROVE  OnlyOnce'
<1>1. RowFollows'
  BY DEF OnlyOnce, RowFollows, Awaiting, IsPosting
<1>2. NoTwo'
  BY DEF OnlyOnce, NoTwo, IsPosting
<1> QED BY <1>1, <1>2 DEF OnlyOnce

(* An event that is no dividend, appended while the client waits for nothing. *)
LEMMA OnceWithTrade ==
  ASSUME DInv, OnlyOnce, NEW e \in Event, e.id = Len(ledger) + 1, Len(ledger) < MaxEvents,
         ledger' = Append(ledger, e), e.action = 0,
         UNCHANGED <<discarded, actions, receipts, postings, req>>, req[Client] = Idle
  PROVE  OnlyOnce'
<1>1. /\ DOMAIN ledger' = 1 .. Len(ledger) + 1 /\ ledger'[Len(ledger) + 1] = e
      /\ \A i \in DOMAIN ledger : ledger'[i] = ledger[i]
      /\ DOMAIN ledger = 1 .. Len(ledger) /\ Len(ledger) \in Nat
  BY LedgerGrows, Typing
<1>2. \A i \in DOMAIN ledger' : IsPosting(ledger'[i]) => i \in DOMAIN ledger /\ ledger'[i] = ledger[i]
  BY <1>1 DEF IsPosting
<1>3. req'[Client].pc = "idle" /\ req[Client].pc = "idle"
  BY DEF Idle, At
<1>4. RowFollows'
  BY <1>2, <1>3 DEF OnlyOnce, RowFollows, Awaiting
<1>5. NoTwo'
  <2> SUFFICES ASSUME NEW i \in DOMAIN ledger', NEW j \in DOMAIN ledger', IsPosting(ledger'[i]),
                      ledger'[i].action = ledger'[j].action, ledger'[i].kind = ledger'[j].kind
               PROVE  i = j
    BY DEF NoTwo, IsPosting
  <2>1. IsPosting(ledger'[j])
    BY DEF IsPosting
  <2> QED BY <1>2, <2>1 DEF OnlyOnce, NoTwo
<1> QED BY <1>3, <1>4, <1>5 DEF OnlyOnce, KnowsPosted, ManualFirst

(* The event of a dividend that has no posting row, appended by the client. *)
LEMMA OnceWithDividend ==
  ASSUME DInv, OnlyOnce, NEW e \in Event, e.id = Len(ledger) + 1, Len(ledger) < MaxEvents,
         ledger' = Append(ledger, e), UNCHANGED <<discarded, actions, receipts, postings>>,
         req[Client].pc \notin {"autorow", "manualrow"},
         postings[<<e.action, e.kind>>] = 0,
         req'[Client].pc \in {"autorow", "manualrow"}, req'[Client].event = e.id,
         KnowsPosted', ManualFirst'
  PROVE  OnlyOnce'
<1>1. /\ DOMAIN ledger' = 1 .. Len(ledger) + 1 /\ ledger'[Len(ledger) + 1] = e
      /\ \A i \in DOMAIN ledger : ledger'[i] = ledger[i]
      /\ DOMAIN ledger = 1 .. Len(ledger) /\ Len(ledger) \in Nat
  BY LedgerGrows, Typing
<1>2. \A i \in DOMAIN ledger : IsPosting(ledger[i]) => postings[<<ledger[i].action, ledger[i].kind>>] # 0
  BY DEF OnlyOnce, RowFollows, Awaiting
<1>3. RowFollows'
  <2> SUFFICES ASSUME NEW i \in DOMAIN ledger', IsPosting(ledger'[i])
               PROVE  postings'[<<ledger'[i].action, ledger'[i].kind>>] # 0 \/ Awaiting(i)'
    BY DEF RowFollows, IsPosting
  <2>1. CASE i = Len(ledger) + 1
    BY <2>1 DEF Awaiting
  <2>2. CASE i # Len(ledger) + 1
    BY <1>1, <1>2, <2>2
  <2> QED BY <2>1, <2>2
<1>4. NoTwo'
  <2> SUFFICES ASSUME NEW i \in DOMAIN ledger', NEW j \in DOMAIN ledger', IsPosting(ledger'[i]),
                      ledger'[i].action = ledger'[j].action, ledger'[i].kind = ledger'[j].kind
               PROVE  i = j
    BY DEF NoTwo, IsPosting
  <2>1. IsPosting(ledger'[j])
    BY DEF IsPosting
  <2>2. CASE i \in DOMAIN ledger /\ j \in DOMAIN ledger
    BY <1>1, <2>2 DEF OnlyOnce, NoTwo
  <2>3. CASE i \notin DOMAIN ledger /\ j \in DOMAIN ledger
    BY <1>1, <1>2, <2>1, <2>3
  <2>4. CASE i \in DOMAIN ledger /\ j \notin DOMAIN ledger
    BY <1>1, <1>2, <2>4
  <2>5. CASE i \notin DOMAIN ledger /\ j \notin DOMAIN ledger
    BY <1>1, <2>5
  <2> QED BY <2>2, <2>3, <2>4, <2>5
<1> QED BY <1>3, <1>4 DEF OnlyOnce

(* The posting row of the event that waited for it. *)
LEMMA OnceWithRow ==
  ASSUME DInv, OnlyOnce, UNCHANGED ledger,
         NEW a \in Ids, NEW k \in PostingTypes, req[Client].event \in Postings(a, k),
         \A p \in Ids \X PostingTypes : postings[p] # 0 \/ p = <<a, k>> => postings'[p] # 0,
         KnowsPosted', ManualFirst'
  PROVE  OnlyOnce'
<1>1. NoTwo'
  BY DEF OnlyOnce, NoTwo, IsPosting
<1>2. RowFollows'
  <2> SUFFICES ASSUME NEW i \in DOMAIN ledger, IsPosting(ledger[i])
               PROVE  postings'[<<ledger[i].action, ledger[i].kind>>] # 0
    BY DEF RowFollows, IsPosting
  <2>1. <<ledger[i].action, ledger[i].kind>> \in Ids \X PostingTypes
    <3>1. ledger[i] \in Event /\ MaxActions \in Nat
      BY Typing, DividendAssumption
    <3> QED BY <3>1 DEF IsPosting, Event, Ids
  <2>2. postings[<<ledger[i].action, ledger[i].kind>>] # 0 \/ req[Client].event = i
    BY DEF OnlyOnce, RowFollows, Awaiting
  <2>3. req[Client].event = i => <<ledger[i].action, ledger[i].kind>> = <<a, k>>
    BY DEF Postings
  <2> QED BY <2>1, <2>2, <2>3
<1> QED BY <1>1, <1>2 DEF OnlyOnce

(* What an append adds to the effective ledger. *)
LEMMA EffectOfAppend ==
  ASSUME DInv, NEW e \in Event, e.id = Len(ledger) + 1, Len(ledger) < MaxEvents,
         ledger' = Append(ledger, e), UNCHANGED <<discarded, actions, receipts, postings>>
  PROVE  Effective' \subseteq Effective \cup {e}
<1>1. /\ DOMAIN ledger' = 1 .. Len(ledger) + 1 /\ ledger'[Len(ledger) + 1] = e
      /\ \A i \in DOMAIN ledger : ledger'[i] = ledger[i]
      /\ DOMAIN ledger = 1 .. Len(ledger) /\ Len(ledger) \in Nat
  BY LedgerGrows, Typing
<1> QED BY <1>1 DEF Effective

LEMMA OnceUser ==
  ASSUME DInv, OnlyOnce, UserStep, req[Client] = Idle
  PROVE  /\ OnlyOnce'
         /\ \A e \in Effective' \ Effective : e.action = 0
<1>1. req[Client].pc = "idle"
  BY DEF Idle, At
<1>2. ASSUME NEW kind \in {"BUY", "SELL"}, NEW d \in Days,
             LET e == NewEvent(kind, d, 1, 0, FALSE) IN CanAppend(Effective, e) /\ ledger' = Append(ledger, e),
             UNCHANGED <<discarded, actions, receipts, postings, req>>
      PROVE  OnlyOnce' /\ \A e \in Effective' \ Effective : e.action = 0
  <2> PICK n : n = NewEvent(kind, d, 1, 0, FALSE)
    OBVIOUS
  <2>1. Len(ledger) < MaxEvents /\ ledger' = Append(ledger, n) /\ n.action = 0
    BY <1>2 DEF CanAppend, NewEvent
  <2>2. kind \in EventKinds /\ 0 \in 0 .. MaxActions /\ 1 \in Nat
    BY DividendAssumption DEF EventKinds
  <2>3. \A auto \in BOOLEAN :
          /\ NewEvent(kind, d, 1, 0, auto) \in Event
          /\ NewEvent(kind, d, 1, 0, auto).id = Len(ledger) + 1
    BY <2>1, <2>2, NewEventTyped
  <2>4. n \in Event /\ n.id = Len(ledger) + 1
    BY <2>3
  <2>5. OnlyOnce'
    BY <1>2, <2>1, <2>4, OnceWithTrade
  <2>6. UNCHANGED <<discarded, actions, receipts, postings>>
    BY <1>2
  <2>7. Effective' \subseteq Effective \cup {n}
    BY <2>1, <2>4, <2>6, EffectOfAppend
  <2> QED BY <2>1, <2>5, <2>7
<1>3. ASSUME UNCHANGED <<ledger, actions, postings, req>>, discarded \subseteq discarded'
      PROVE  OnlyOnce' /\ \A e \in Effective' \ Effective : e.action = 0
  <2>1. Effective' \subseteq Effective
    BY <1>3 DEF Effective
  <2>2. KnowsPosted' /\ ManualFirst'
    BY <1>1, <1>3 DEF KnowsPosted, ManualFirst
  <2>3. OnlyOnce'
    BY <1>1, <1>3, <2>2, OnceKept
  <2> QED BY <2>1, <2>3
<1>4. ASSUME NEW t \in Trades, Trade(t[1], t[2])
      PROVE  OnlyOnce' /\ \A e \in Effective' \ Effective : e.action = 0
  <2>1. t[1] \in {"BUY", "SELL"} /\ t[2] \in Days
    BY DividendAssumption
  <2> QED BY <1>2, <1>4, <2>1 DEF Trade
<1>5. CASE ImportOpening
  <2>1. today \in Days
    BY TablesOf DEF TablesTyped
  <2> QED BY <1>2, <1>5, <2>1 DEF ImportOpening
<1>6. ASSUME NEW i \in DOMAIN ledger, Discard(i)
      PROVE  OnlyOnce' /\ \A e \in Effective' \ Effective : e.action = 0
  BY <1>3, <1>6 DEF Discard
<1>7. ASSUME NEW a \in DOMAIN actions, Verify(a)
      PROVE  OnlyOnce' /\ \A e \in Effective' \ Effective : e.action = 0
  BY <1>3, <1>7 DEF Verify
<1>8. ASSUME NEW a \in DOMAIN actions, NEW rcpt \in Receipts, RecordReceipt(a, rcpt)
      PROVE  OnlyOnce' /\ \A e \in Effective' \ Effective : e.action = 0
  BY <1>3, <1>8 DEF RecordReceipt
<1> QED BY <1>4, <1>5, <1>6, <1>7, <1>8 DEF UserStep

(* A step that leaves the effective ledger and the postings alone. *)
LEMMA OnceReading ==
  ASSUME DInv, OnlyOnce, UNCHANGED <<ledger, discarded, postings>>,
         req[Client].pc \notin {"autorow", "manualrow"}, KnowsPosted', ManualFirst'
  PROVE  OnlyOnce' /\ OpeningLeftOut
<1>1. OnlyOnce'
  BY OnceKept
<1>2. Effective' = Effective
  BY DEF Effective
<1> QED BY <1>1, <1>2 DEF OpeningLeftOut

(* A dividend is appended: it is the one event that is new. *)
LEMMA OnceAppending ==
  ASSUME DInv, OnlyOnce, NEW e \in Event, e.id = Len(ledger) + 1, Len(ledger) < MaxEvents,
         ledger' = Append(ledger, e), UNCHANGED <<discarded, actions, receipts, postings>>,
         req[Client].pc \notin {"autorow", "manualrow"},
         postings[<<e.action, e.kind>>] = 0, ~BeforeTracking(actions[e.action].terms),
         e.action \in DOMAIN actions,
         req'[Client].pc \in {"autorow", "manualrow"}, req'[Client].event = e.id,
         KnowsPosted', ManualFirst'
  PROVE  OnlyOnce' /\ OpeningLeftOut
<1>1. OnlyOnce'
  BY OnceWithDividend
<1>2. Effective' \subseteq Effective \cup {e}
  BY EffectOfAppend
<1>3. start # 0 => start <= actions[e.action].terms.ex
  BY TablesOf, Typing DEF TablesTyped, BeforeTracking, Entitlement, Terms, Days
<1> QED BY <1>1, <1>2, <1>3 DEF OpeningLeftOut

LEMMA OnceBegin ==
  ASSUME DInv, OnlyOnce, Begin(Client)
  PROVE  OnlyOnce' /\ OpeningLeftOut
<1>1. CASE BeginSync(Client)
  <2>1. req'[Client] = At("fetch", Effective, {}) /\ req[Client].pc = "idle"
        /\ UNCHANGED <<ledger, discarded, postings>>
    BY <1>1, ClientOf DEF BeginSync, Goto, tables
  <2>2. KnowsPosted' /\ ManualFirst'
    BY <2>1 DEF KnowsPosted, ManualFirst, At
  <2> QED BY <2>1, <2>2, OnceReading
<1>2. ASSUME NEW a \in DOMAIN actions, BeginPost(Client, a)
      PROVE  OnlyOnce' /\ OpeningLeftOut
  <2>1. req'[Client] = [At("manual", Effective, Unposted(a)) EXCEPT !.action = a, !.receipt = receipts[a]]
        /\ req[Client].pc = "idle" /\ ~BeforeTracking(actions[a].terms)
        /\ UNCHANGED <<ledger, discarded, start, actions, postings>>
    BY <1>2, ClientOf DEF BeginPost, Goto, tables
  <2>2. req'[Client].pc = "manual" /\ req'[Client].todo = Unposted(a) /\ req'[Client].action = a
    <3> HIDE DEF Unposted
    <3> QED BY <2>1 DEF At
  <2>3. KnowsPosted' /\ ManualFirst'
    BY <2>1, <2>2 DEF KnowsPosted, ManualFirst, Unposted, BeforeTracking
  <2> QED BY <2>1, <2>3, OnceReading
<1> QED BY <1>1, <1>2 DEF Begin

LEMMA OnceContinue ==
  ASSUME DInv, OnlyOnce, Continue(Client)
  PROVE  OnlyOnce' /\ OpeningLeftOut
<1> DEFINE q == req[Client]
<1>1. q \in Request /\ Sound(q, ledger, actions, receipts) /\ Client \in Requests
  BY ClientOf, ClientIs
<1>2. CASE Fetch(Client)
  <2>1. req'[Client] = At("open", q.view, {}) /\ q.pc = "fetch"
        /\ UNCHANGED <<ledger, discarded, postings>>
    BY <1>2, ClientOf DEF Fetch, Goto
  <2>2. KnowsPosted' /\ ManualFirst'
    BY <2>1 DEF KnowsPosted, ManualFirst, At
  <2> QED BY <2>1, <2>2, OnceReading
<1>3. CASE OpenPosting(Client)
  <2> DEFINE todo == {a \in DOMAIN actions : Due(actions[a].terms)}
  <2>1. req'[Client] = (IF todo = {} THEN Idle ELSE [At("auto", q.view, todo) EXCEPT !.posted = Posted])
        /\ q.pc = "open" /\ UNCHANGED <<ledger, discarded, postings>>
    BY <1>3, ClientOf DEF OpenPosting, Goto, tables
  <2> HIDE DEF todo
  <2>2. req'[Client].pc \in {"idle", "auto"} /\ (req'[Client].pc = "auto" => req'[Client].posted = Posted)
    BY <2>1 DEF Idle, At
  <2>3. Posted' = Posted
    BY <2>1 DEF Posted
  <2>4. KnowsPosted' /\ ManualFirst'
    BY <2>2, <2>3 DEF KnowsPosted, ManualFirst
  <2> QED BY <2>1, <2>4, OnceReading
<1>4. CASE AutoAppend(Client)
  <2> PICK a \in q.todo : AutoAppendOf(Client, a)
    BY <1>4 DEF AutoAppend
  <2>1. /\ q.pc = "auto" /\ q.todo \subseteq DOMAIN actions /\ a \in DOMAIN actions
        /\ UNCHANGED <<discarded, actions, receipts, postings>>
    BY <1>1, AutoShape
  <2>2. Posted' = Posted /\ q.posted = Posted
    BY <2>1 DEF Posted, OnlyOnce, KnowsPosted
  <2>3. CASE /\ UNCHANGED ledger
             /\ req' = [req EXCEPT ![Client] = IF req[Client].todo = {a} THEN Idle
                                               ELSE [req[Client] EXCEPT !.todo = @ \ {a}]]
    <3>1. req'[Client] = IF q.todo = {a} THEN Idle ELSE [q EXCEPT !.todo = @ \ {a}]
      BY <2>3, ClientOf
    <3>2. req'[Client].pc \in {"idle", "auto"} /\ (req'[Client].pc = "auto" => req'[Client].posted = Posted)
      BY <1>1, <2>1, <2>2, <3>1 DEF Idle, At, Request
    <3>3. KnowsPosted' /\ ManualFirst'
      BY <2>2, <3>2 DEF KnowsPosted, ManualFirst
    <3> QED BY <2>1, <2>3, <3>3, OnceReading
  <2>4. ASSUME NEW e \in Event, Postable(Client, a),
               Len(ledger) < MaxEvents, ledger' = Append(ledger, e),
               e.id = Len(ledger) + 1, e.action = a, e.kind = actions[a].terms.type,
               req' = [req EXCEPT ![Client] = [req[Client] EXCEPT !.pc = "autorow", !.action = a,
                                                                  !.event = e.id, !.view = Effective \cup {e}]]
        PROVE  OnlyOnce' /\ OpeningLeftOut
    <3>1. req'[Client] = [q EXCEPT !.pc = "autorow", !.action = a, !.event = e.id,
                                   !.view = Effective \cup {e}]
      BY <2>4, ClientOf
    <3>2. req'[Client].pc = "autorow" /\ req'[Client].event = e.id /\ req'[Client].posted = q.posted
      BY <1>1, <3>1 DEF Request
    <3>3. <<e.action, e.kind>> \in Ids \X PostingTypes /\ <<e.action, e.kind>> \notin Posted
          /\ ~BeforeTracking(actions[e.action].terms)
      BY <2>1, <2>2, <2>4, Typing DEF Postable, Terms
    <3>4. postings[<<e.action, e.kind>>] = 0
      BY <3>3 DEF Posted
    <3>5. KnowsPosted' /\ ManualFirst'
      BY <2>2, <3>2 DEF KnowsPosted, ManualFirst
    <3> QED BY <2>1, <2>4, <3>2, <3>3, <3>4, <3>5, OnceAppending
  <2> QED BY <1>1, <2>3, <2>4, AutoShape, ZenonT(40)
<1>5. CASE AutoRow(Client)
  <2> DEFINE a    == q.action
             k    == actions[a].terms.type
             rest == q.todo \ {a}
  <2>1. /\ a \in Ids /\ k \in PostingTypes /\ q.event \in Postings(a, k)
        /\ postings' = [postings EXCEPT ![<<a, k>>] = IF @ = 0 THEN q.event ELSE @]
        /\ req'[Client] = IF rest = {} THEN Idle
                          ELSE [q EXCEPT !.pc = "auto", !.todo = rest, !.posted = @ \cup {<<a, k>>}]
        /\ UNCHANGED <<ledger, discarded>>
    BY <1>1, <1>5, ClientOf, AutoRowShape
  <2>2. q.pc = "autorow" /\ q.posted = Posted
    BY <1>5 DEF AutoRow, OnlyOnce, KnowsPosted
  <2>3. q.event # 0
    BY <2>1, Typing DEF Postings
  <2> HIDE DEF a, k, rest
  <2>4. \A p \in Ids \X PostingTypes : postings'[p] # 0 <=> postings[p] # 0 \/ p = <<a, k>>
    <3>1. postings \in [Ids \X PostingTypes -> 0 .. Len(ledger)] /\ <<a, k>> \in Ids \X PostingTypes
      BY <2>1, TablesOf DEF TablesTyped
    <3> QED BY <2>1, <2>3, <3>1
  <2>5. Posted' = Posted \cup {<<a, k>>}
    BY <2>1, <2>4 DEF Posted
  <2>6. req'[Client].pc \in {"idle", "auto"}
        /\ (req'[Client].pc = "auto" => req'[Client].posted = Posted \cup {<<a, k>>})
    BY <1>1, <2>1, <2>2 DEF Idle, At, Request
  <2>7. KnowsPosted' /\ ManualFirst'
    BY <2>5, <2>6 DEF KnowsPosted, ManualFirst
  <2>8. OnlyOnce'
    BY <2>1, <2>4, <2>7, OnceWithRow
  <2>9. Effective' = Effective
    BY <2>1 DEF Effective
  <2> QED BY <2>8, <2>9 DEF OpeningLeftOut
<1>6. CASE ManualAppend(Client)
  <2>1. /\ q.pc = "manual" /\ q.action \in DOMAIN actions
        /\ UNCHANGED <<discarded, start, actions, receipts, postings>>
    BY <1>1, <1>6, ManualShape
  <2>2. ~BeforeTracking(actions[q.action].terms) /\ \A k \in q.todo : postings[<<q.action, k>>] = 0
    BY <2>1 DEF OnlyOnce, ManualFirst
  <2>3. CASE UNCHANGED ledger /\ req' = [req EXCEPT ![Client] = Idle]
    <3>1. req'[Client].pc = "idle"
      BY <2>3, ClientOf DEF Idle, At
    <3>2. KnowsPosted' /\ ManualFirst'
      BY <3>1 DEF KnowsPosted, ManualFirst
    <3> QED BY <2>1, <2>3, <3>2, OnceReading
  <2>4. ASSUME NEW e \in Event,
               Len(ledger) < MaxEvents, ledger' = Append(ledger, e),
               e.id = Len(ledger) + 1, e.action = req[Client].action, e.kind \in req[Client].todo,
               req' = [req EXCEPT ![Client] = [req[Client] EXCEPT !.pc = "manualrow", !.event = e.id,
                                                                  !.view = Effective \cup {e}]]
        PROVE  OnlyOnce' /\ OpeningLeftOut
    <3>1. req'[Client] = [q EXCEPT !.pc = "manualrow", !.event = e.id, !.view = Effective \cup {e}]
      BY <2>4, ClientOf
    <3>2. /\ req'[Client].pc = "manualrow" /\ req'[Client].event = e.id
          /\ req'[Client].action = q.action /\ req'[Client].todo = q.todo
      BY <1>1, <3>1 DEF Request
    <3>3. KnowsPosted' /\ ManualFirst'
      BY <2>1, <2>2, <3>2 DEF KnowsPosted, ManualFirst, BeforeTracking
    <3> QED BY <2>1, <2>2, <2>4, <3>2, <3>3, OnceAppending
  <2> QED BY <1>1, <1>6, <2>3, <2>4, ManualShape
<1>7. CASE ManualRow(Client)
  <2> DEFINE a    == q.action
             k    == ledger[q.event].kind
             rest == q.todo \ {k}
  <2>1. /\ a \in Ids /\ k \in PostingTypes /\ k \in q.todo /\ q.event \in Postings(a, k)
        /\ UNCHANGED <<ledger, discarded, start, actions>>
    BY <1>1, <1>7, ManualRowShape
  <2>2. q.pc = "manualrow" /\ ~BeforeTracking(actions[a].terms) /\ \A m \in q.todo : postings[<<a, m>>] = 0
    BY <1>7 DEF ManualRow, OnlyOnce, ManualFirst
  <2>3. postings' = [postings EXCEPT ![<<a, k>>] = q.event]
        /\ req'[Client] = IF rest = {} THEN Idle ELSE [q EXCEPT !.pc = "manual", !.todo = rest]
    BY <1>1, <1>7, <2>1, <2>2, ClientOf, ManualRowShape
  <2>4. q.event # 0
    BY <2>1, Typing DEF Postings
  <2>5. q.todo \subseteq PostingTypes
    BY <1>1, <2>2 DEF Sound
  <2> HIDE DEF a, k
  <2>6. \A p \in Ids \X PostingTypes : postings'[p] = IF p = <<a, k>> THEN q.event ELSE postings[p]
    <3>1. postings \in [Ids \X PostingTypes -> 0 .. Len(ledger)] /\ <<a, k>> \in Ids \X PostingTypes
      BY <2>1, TablesOf DEF TablesTyped
    <3> QED BY <2>3, <3>1
  <2>7. /\ req'[Client].pc \in {"idle", "manual"}
        /\ req'[Client].pc = "manual" => req'[Client].todo = rest /\ req'[Client].action = a
    BY <1>1, <2>3 DEF Idle, At, Request, a
  <2>8. \A m \in rest : postings'[<<a, m>>] = 0
    BY <2>1, <2>2, <2>5, <2>6
  <2>9. KnowsPosted' /\ ManualFirst'
    <3> HIDE DEF rest
    <3> QED BY <2>1, <2>2, <2>7, <2>8 DEF KnowsPosted, ManualFirst, BeforeTracking
  <2>10. OnlyOnce'
    BY <2>1, <2>4, <2>6, <2>9, OnceWithRow
  <2>11. Effective' = Effective
    BY <2>1 DEF Effective
  <2> QED BY <2>10, <2>11 DEF OpeningLeftOut
<1> QED BY <1>2, <1>3, <1>4, <1>5, <1>6, <1>7 DEF Continue

LEMMA CInvStep ==
  ASSUME CInv, [ClientNext]_<<vars, clients>>
  PROVE  CInv' /\ (Undisturbed' => OpeningLeftOut)
<1>1. clients' = clients
  BY DEF ClientNext
<1>2. [Next]_vars
  BY ClientIs DEF ClientNext, Next, CInv
<1>3. DInv'
  BY <1>2, DInvStep DEF CInv
<1>4. ASSUME Undisturbed'
      PROVE  OnlyOnce' /\ OpeningLeftOut
  <2>1. Alone /\ crashes' = 0 /\ clients = {Client} /\ DInv
    BY <1>1, <1>4, ClientIs DEF Undisturbed, Alone, CInv
  <2>2. crashes \in Nat
    BY <2>1, TablesOf, DividendAssumption DEF TablesTyped
  <2>3. CASE UNCHANGED vars
    <3>1. UNCHANGED <<ledger, discarded, start, actions, postings, req, crashes>>
      BY <2>3 DEF vars, tables
    <3>2. OnlyOnce
      BY <2>1, <3>1 DEF CInv, Undisturbed
    <3>3. OnlyOnce'
      BY <3>1, <3>2 DEF OnlyOnce, RowFollows, NoTwo, IsPosting, Awaiting, KnowsPosted, Posted,
                        ManualFirst, BeforeTracking
    <3>4. Effective' = Effective
      BY <3>1 DEF Effective
    <3> QED BY <3>3, <3>4 DEF OpeningLeftOut
  <2>4. CASE UserStep /\ Quiet
    <3>1. UNCHANGED crashes /\ req[Client] = Idle
      BY <2>4, ClientIs DEF Quiet, UserStep, Trade, ImportOpening, Discard, Verify, RecordReceipt
    <3>2. OnlyOnce
      BY <2>1, <3>1 DEF CInv, Undisturbed
    <3> QED BY <2>1, <2>4, <3>1, <3>2, OnceUser DEF OpeningLeftOut
  <2>5. CASE NextDay
    <3>1. UNCHANGED <<ledger, discarded, start, actions, postings, req, crashes>>
      BY <2>5 DEF NextDay, tables
    <3>2. OnlyOnce
      BY <2>1, <3>1 DEF CInv, Undisturbed
    <3>3. OnlyOnce'
      BY <3>1, <3>2 DEF OnlyOnce, RowFollows, NoTwo, IsPosting, Awaiting, KnowsPosted, Posted,
                        ManualFirst, BeforeTracking
    <3>4. Effective' = Effective
      BY <3>1 DEF Effective
    <3> QED BY <3>3, <3>4 DEF OpeningLeftOut
  <2>6. CASE Begin(Client)
    <3>1. UNCHANGED crashes
      BY <2>6 DEF Begin, BeginSync, BeginPost
    <3> QED BY <2>1, <2>6, <3>1, OnceBegin DEF CInv, Undisturbed
  <2>7. CASE Continue(Client)
    <3>1. UNCHANGED crashes
      BY <2>7 DEF Continue, Fetch, OpenPosting, AutoAppend, AutoAppendOf, AutoRow, ManualAppend, ManualRow
    <3> QED BY <2>1, <2>7, <3>1, OnceContinue DEF CInv, Undisturbed
  <2>8. CASE Crash(Client)
    BY <2>1, <2>2, <2>8 DEF Crash
  <2> QED BY <2>1, <2>3, <2>4, <2>5, <2>6, <2>7, <2>8 DEF ClientNext
<1> QED BY <1>1, <1>3, <1>4 DEF CInv

LEMMA CInvInit == ClientInit => CInv
<1> SUFFICES ASSUME ClientInit PROVE CInv
  OBVIOUS
<1>1. DInv
  BY DInvInit DEF ClientInit
<1>2. DOMAIN ledger = {} /\ req[Client].pc = "idle"
  BY ClientIs DEF ClientInit, Init, Idle, At
<1>3. OnlyOnce
  BY <1>2 DEF OnlyOnce, RowFollows, NoTwo, KnowsPosted, ManualFirst
<1> QED BY <1>1, <1>3 DEF CInv, ClientInit

THEOREM ClientInvariant == ClientSpec => []CInv
<1>1. CInv /\ [ClientNext]_<<vars, clients>> => CInv'
  BY CInvStep
<1> QED BY <1>1, CInvInit, PTL DEF ClientSpec

(* Dividends whose postings are all different are posted once. *)
LEMMA OnceFollows ==
  ASSUME DInv, NoTwo
  PROVE  PostedOnce
<1> SUFFICES ASSUME NEW a \in DOMAIN actions, NEW k \in PostingTypes
             PROVE  Cardinality(Postings(a, k)) <= 1
  BY DEF PostedOnce
<1>1. \A i, j \in Postings(a, k) : i = j
  BY Typing DEF NoTwo, IsPosting, Postings, Ids
<1>2. CASE Postings(a, k) = {}
  BY <1>2, FS_EmptySet
<1>3. ASSUME NEW i \in Postings(a, k)
      PROVE  Cardinality(Postings(a, k)) <= 1
  <2>1. Postings(a, k) = {i}
    BY <1>1, <1>3
  <2>2. Cardinality({i}) = 1
    BY FS_Singleton
  <2> QED BY <2>1, <2>2
<1> QED BY <1>2, <1>3

(* One client that no crash has interrupted posts a dividend of one type once, *)
(* through auto_post_due_dividends or post_corporate_action_receipt.           *)
THEOREM OneClientPostsOnce == ClientSpec => []PostedOnceForOneClient
<1>1. CInv => PostedOnceForOneClient
  BY OnceFollows DEF CInv, OnlyOnce, PostedOnceForOneClient
<1> QED BY <1>1, ClientInvariant, PTL

(* ... and no dividend that its opening balance already holds. *)
THEOREM OpeningStaysOut == ClientSpec => OpeningNotPaidAgain
<1>1. CInv /\ [ClientNext]_<<vars, clients>> => [Undisturbed' => OpeningLeftOut]_<<vars, clients>>
  BY CInvStep
<1> QED BY <1>1, ClientInvariant, PTL DEF ClientSpec, OpeningNotPaidAgain
=============================================================================
