---------------------------- MODULE NavBook_proofs -----------------------------
(***************************************************************************)
(* Theorems about the NAV history, for every set of requests, symbols and  *)
(* dates, every interleaving and any number of crashes.                    *)
(***************************************************************************)
EXTENDS NavBookClients, SequenceTheorems, FiniteSetTheorems, TLAPS

\* The rebuilds in flight have read bars that exist, and have dates left to save.
RebuildsSound ==
    \A r \in Requests :
        /\ req[r].bars \subseteq market
        /\ req[r].pc \in {"wipe", "save"} => req[r].todo # {}

NavInv == TypeOK /\ RebuildsSound /\ OfficialIsExact /\ NoOrphanReview

LEMMA IdleTyped == NavAssumption => Idle \in Request /\ NoSnap \in Snapshot
BY DEF NavAssumption, Idle, At, Request, Steps, Dates, NoSnap, Snapshot

\* A snapshot computed from bars that exist is typed and exact when official.
LEMMA SnapshotSound ==
    ASSUME NEW events \in SUBSET Event, NEW bars \in SUBSET market, NEW d \in Dates
    PROVE  LET s == SnapshotOf(events, bars, d)
           IN  /\ s \in Snapshot
               /\ s.official => \A e \in s.events : e.sym \in CashMoves \/ <<e.sym, d>> \in market
BY DEF SnapshotOf, Snapshot, Until, Exact, SymbolsOf

\* Replacing the state of one request by a sound one keeps all of them sound.
LEMMA RequestReplaced ==
    ASSUME TypeOK, RebuildsSound, NEW r \in Requests, NEW q \in Request,
           req' = [req EXCEPT ![r] = q], market \subseteq market',
           q.bars \subseteq market', q.pc \in {"wipe", "save"} => q.todo # {}
    PROVE  req' \in [Requests -> Request] /\ RebuildsSound'
<1>1. \A p \in Requests : req'[p] = IF p = r THEN q ELSE req[p]
  BY DEF TypeOK
<1> QED BY <1>1 DEF TypeOK, RebuildsSound

\* The steps of a request that only move to another place of the handler.
LEMMA StepTaken ==
    ASSUME TypeOK, RebuildsSound, NEW r \in Requests, NEW pc \in Steps,
           Step(r, pc), market \subseteq market',
           pc \in {"wipe", "save"} => req[r].todo # {}
    PROVE  req' \in [Requests -> Request] /\ RebuildsSound'
<1> DEFINE q == [req[r] EXCEPT !.pc = pc]
<1>1. req[r] \in Request
  BY DEF TypeOK
<1>2. /\ q \in Request /\ q.bars = req[r].bars /\ q.todo = req[r].todo /\ q.pc = pc
      /\ req' = [req EXCEPT ![r] = q]
  BY <1>1 DEF Request, Step
<1>3. q.bars \subseteq market' /\ (q.pc \in {"wipe", "save"} => q.todo # {})
  BY <1>2 DEF RebuildsSound
<1> HIDE DEF q
<1> QED BY <1>2, <1>3, RequestReplaced

\* A request that ends.
LEMMA RequestEnded ==
    ASSUME NavAssumption, TypeOK, RebuildsSound, NEW r \in Requests, Goto(r, Idle),
           market \subseteq market'
    PROVE  req' \in [Requests -> Request] /\ RebuildsSound'
<1>1. Idle \in Request /\ Idle.bars = {} /\ Idle.pc = "idle"
  BY IdleTyped DEF Idle, At
<1> QED BY <1>1, RequestReplaced DEF Goto

\* A request that begins, from where its handler first writes or waits.
LEMMA RequestBegins ==
    ASSUME NavAssumption, TypeOK, RebuildsSound, NEW r \in Requests,
           NEW pc \in Steps \ {"wipe", "save"}, NEW from \in Dates,
           NEW late \in BOOLEAN, NEW events \in SUBSET Event,
           Goto(r, At(pc, from, late, events)), market \subseteq market'
    PROVE  req' \in [Requests -> Request] /\ RebuildsSound'
<1> DEFINE q == At(pc, from, late, events)
<1>1. q \in Request /\ q.bars = {} /\ q.pc = pc
  BY DEF At, Request
<1>2. req' = [req EXCEPT ![r] = q]
  BY DEF Goto
<1> HIDE DEF q
<1> QED BY <1>1, <1>2, RequestReplaced

LEMMA InitNav ==
    ASSUME NavAssumption, Init
    PROVE  NavInv
<1>1. TypeOK
  BY IdleTyped DEF Init, TypeOK, Statuses, NavAssumption
<1>2. RebuildsSound /\ OfficialIsExact /\ NoOrphanReview
  BY DEF Init, RebuildsSound, Idle, At, OfficialIsExact, NoSnap, NoOrphanReview
<1> QED BY <1>1, <1>2 DEF NavInv

\* Ledger mutations leave the snapshots alone or empty them.
LEMMA MutationSteps ==
    ASSUME NavAssumption, NavInv, NEW r \in Requests
    PROVE  /\ \A d \in Dates, s \in Symbols \cup CashMoves : BeginAppend(r, d, s) => NavInv'
           /\ InsertEvent(r) => NavInv'
           /\ \A e \in ledger : Correct(r, e) => NavInv'
           /\ Check(r) => NavInv'
           /\ Clear(r) => NavInv'
<1> USE DEF NavInv
<1>1. ASSUME NEW d \in Dates, NEW s \in Symbols \cup CashMoves, BeginAppend(r, d, s)
      PROVE  NavInv'
  <2> DEFINE e == [id |-> recorded + 1, date |-> d, sym |-> s, rev |-> 0]
  <2>1. e \in Event
    BY <1>1 DEF BeginAppend, TypeOK, Event, NavAssumption
  <2>2. Goto(r, At("write", d, Published(d), {e})) /\ UNCHANGED <<tables, crashes, shown>>
    BY <1>1 DEF BeginAppend
  <2>2a. Published(d) \in BOOLEAN
    BY DEF Published
  <2> HIDE DEF e
  <2>3. req' \in [Requests -> Request] /\ RebuildsSound'
    BY <2>1, <2>2, <2>2a, RequestBegins DEF tables, Steps
  <2> QED BY <2>2, <2>3 DEF tables, TypeOK, OfficialIsExact, NoOrphanReview
<1>2. ASSUME InsertEvent(r)
      PROVE  NavInv'
  <2>1. /\ recorded' \in 0 .. MaxEvents
        /\ ledger' \subseteq Event
    <3>1. recorded \in Nat /\ recorded < MaxEvents /\ recorded + 1 \in 1 .. MaxEvents
      BY <1>2 DEF InsertEvent, TypeOK, NavAssumption
    <3>2. req[r].ledger \subseteq Event
      BY DEF TypeOK, Request
    <3>3. \A e \in req[r].ledger : [e EXCEPT !.id = recorded + 1] \in Event
      BY <3>1, <3>2 DEF Event
    <3>4. ledger \subseteq Event
      BY DEF TypeOK
    <3> QED BY <1>2, <3>1, <3>3, <3>4 DEF InsertEvent, NavAssumption
  <2>2. PICK pc \in {"mark", "clear"} : Step(r, pc)
    BY <1>2 DEF InsertEvent
  <2>3. UNCHANGED <<market, snaps, control, restatements, crashes, shown>>
    BY <1>2 DEF InsertEvent
  <2>4. req' \in [Requests -> Request] /\ RebuildsSound'
    BY <2>2, <2>3, StepTaken DEF Steps
  <2> QED BY <2>1, <2>3, <2>4 DEF TypeOK, OfficialIsExact, NoOrphanReview
<1>3. ASSUME NEW e \in ledger, Correct(r, e)
      PROVE  NavInv'
  <2>1. e \in Event /\ ledger \subseteq Event
    BY DEF TypeOK
  <2>2. ledger' \subseteq Event
    <3>1. [e EXCEPT !.rev = @ + 1] \in Event
      BY <2>1 DEF Event
    <3> QED BY <1>3, <2>1, <3>1 DEF Correct
  <2>3. /\ Goto(r, At("check", e.date, FALSE, {}))
        /\ UNCHANGED <<recorded, market, snaps, control, restatements, crashes, shown>>
    BY <1>3 DEF Correct
  <2>4. e.date \in Dates /\ "check" \in Steps
    BY <2>1 DEF Event, Steps
  <2> DEFINE q == At("check", e.date, FALSE, {})
  <2>5. q \in Request /\ q.bars = {} /\ q.pc = "check" /\ req' = [req EXCEPT ![r] = q]
    BY <2>3, <2>4 DEF At, Request, Goto
  <2> HIDE DEF q
  <2>6. req' \in [Requests -> Request] /\ RebuildsSound'
    BY <2>3, <2>5, RequestReplaced
  <2> QED BY <2>2, <2>3, <2>6 DEF TypeOK, OfficialIsExact, NoOrphanReview
<1>4. ASSUME Check(r)
      PROVE  NavInv'
  <2>1. PICK pc \in {"mark", "clear"} : Step(r, pc)
    BY <1>4 DEF Check
  <2>2. UNCHANGED <<tables, crashes, shown>>
    BY <1>4 DEF Check
  <2>3. req' \in [Requests -> Request] /\ RebuildsSound'
    BY <2>1, <2>2, StepTaken DEF Steps, tables
  <2> QED BY <2>2, <2>3 DEF tables, TypeOK, OfficialIsExact, NoOrphanReview
<1>5. ASSUME Clear(r)
      PROVE  NavInv'
  <2> DEFINE q == [req[r] EXCEPT !.pc = "read", !.ledger = ledger]
  <2>1. req[r] \in Request /\ ledger \in SUBSET Event
    BY DEF TypeOK
  <2>2. q \in Request /\ q.bars = req[r].bars /\ q.pc = "read"
    BY <2>1 DEF Request, Steps
  <2>3. q.bars \subseteq market
    BY <2>2 DEF RebuildsSound
  <2>4. /\ req' = [req EXCEPT ![r] = q] /\ snaps' = [d \in Dates |-> NoSnap]
        /\ UNCHANGED <<ledger, recorded, market, control, restatements, crashes, shown>>
    <3>1. req' = [req EXCEPT ![r].pc = "read", ![r].ledger = ledger]
      BY <1>5 DEF Clear
    <3>2. req' = [req EXCEPT ![r] = q]
      BY <3>1, <2>1 DEF TypeOK
    <3> QED BY <1>5, <3>2 DEF Clear
  <2> HIDE DEF q
  <2>5. req' \in [Requests -> Request] /\ RebuildsSound'
    BY <2>2, <2>3, <2>4, RequestReplaced
  <2>6. TypeOK'
    BY <2>4, <2>5, IdleTyped DEF TypeOK
  <2>7. OfficialIsExact' /\ NoOrphanReview'
    BY <2>4 DEF OfficialIsExact, NoOrphanReview, NoSnap
  <2> QED BY <2>5, <2>6, <2>7
<1> QED BY <1>1, <1>2, <1>3, <1>4, <1>5

\* mark_restatement flags the dates from the one it writes in its own open row.
LEMMA MarkStep ==
    ASSUME NavAssumption, NavInv, NEW r \in Requests, Mark(r)
    PROVE  NavInv'
<1> USE DEF NavInv
<1>1. /\ restatements' = Append(restatements, [from |-> req[r].from, open |-> TRUE])
      /\ control' = [d \in Dates |-> IF d >= req[r].from /\ HasSnap(d)
                                     THEN "RESTATEMENT_REQUIRED" ELSE control[d]]
      /\ Step(r, "clear") /\ UNCHANGED <<ledger, recorded, market, snaps, crashes, shown>>
  BY DEF Mark
<1>2. req' \in [Requests -> Request] /\ RebuildsSound'
  BY <1>1, StepTaken DEF Steps
<1>3. req[r].from \in Dates /\ restatements \in Seq([from : Dates, open : BOOLEAN])
  BY DEF TypeOK, Request
<1>4. PICK n \in Nat : n = Len(restatements)
  BY <1>3
<1>5. /\ restatements' \in Seq([from : Dates, open : BOOLEAN])
      /\ DOMAIN restatements = 1 .. n /\ n + 1 \in DOMAIN restatements'
      /\ restatements'[n + 1] = [from |-> req[r].from, open |-> TRUE]
      /\ \A k \in 1 .. n : k \in DOMAIN restatements' /\ restatements'[k] = restatements[k]
  BY <1>1, <1>3, <1>4
<1>6. TypeOK'
  BY <1>1, <1>2, <1>5 DEF TypeOK, Statuses
<1>7. NoOrphanReview'
  <2> SUFFICES ASSUME NEW d \in Dates, control'[d] = "RESTATEMENT_REQUIRED"
               PROVE  \E k \in DOMAIN restatements' :
                         restatements'[k].open /\ restatements'[k].from <= d
    BY DEF NoOrphanReview
  <2>1. CASE d >= req[r].from /\ HasSnap(d)
    <3>1. restatements'[n + 1].open /\ restatements'[n + 1].from <= d
      BY <1>3, <1>5, <2>1 DEF Dates, NavAssumption
    <3> QED BY <1>5, <3>1
  <2>2. CASE ~(d >= req[r].from /\ HasSnap(d))
    <3>1. control[d] = "RESTATEMENT_REQUIRED"
      BY <1>1, <2>2
    <3>2. PICK k \in DOMAIN restatements : restatements[k].open /\ restatements[k].from <= d
      BY <3>1 DEF NoOrphanReview
    <3> QED BY <1>5, <3>2
  <2> QED BY <2>1, <2>2
<1>8. OfficialIsExact'
  BY <1>1 DEF OfficialIsExact
<1> QED BY <1>2, <1>6, <1>7, <1>8

\* The sync and the rebuild: bars are only added, and a date is saved from bars
\* that are still there.
LEMMA RebuildSteps ==
    ASSUME NavAssumption, NavInv, NEW r \in Requests
    PROVE  /\ BeginSync(r) => NavInv'
           /\ Fetch(r) => NavInv'
           /\ ReadHistories(r) => NavInv'
           /\ Wipe(r) => NavInv'
           /\ Save(r) => NavInv'
<1> USE DEF NavInv
<1>1. ASSUME BeginSync(r)
      PROVE  NavInv'
  <2>1. Goto(r, At("fetch", 1, FALSE, ledger)) /\ UNCHANGED <<tables, crashes, shown>>
    BY <1>1 DEF BeginSync
  <2>2. 1 \in Dates /\ ledger \in SUBSET Event
    BY DEF Dates, NavAssumption, TypeOK
  <2>3. req' \in [Requests -> Request] /\ RebuildsSound'
    BY <2>1, <2>2, RequestBegins DEF tables, Steps
  <2> QED BY <2>1, <2>3 DEF tables, TypeOK, OfficialIsExact, NoOrphanReview
<1>2. ASSUME Fetch(r)
      PROVE  NavInv'
  <2>1. PICK bars \in SUBSET (SymbolsOf(req[r].ledger) \X Dates) : market' = market \cup bars
    BY <1>2 DEF Fetch
  <2>2. bars \subseteq Symbols \X Dates
    BY DEF SymbolsOf, TypeOK, Request, Event
  <2>3. /\ Step(r, "read")
        /\ UNCHANGED <<ledger, recorded, snaps, control, restatements, crashes, shown>>
    BY <1>2 DEF Fetch
  <2>4. req' \in [Requests -> Request] /\ RebuildsSound'
    BY <2>1, <2>3, StepTaken DEF Steps
  <2>5. TypeOK'
    BY <2>1, <2>2, <2>3, <2>4 DEF TypeOK
  <2> QED BY <2>1, <2>3, <2>4, <2>5 DEF OfficialIsExact, NoOrphanReview
<1>3. ASSUME ReadHistories(r)
      PROVE  NavInv'
  <2>0. PICK bars \in Windows(req[r].ledger, market) :
           LET dates == MarketDates(req[r].ledger, bars)
           IN  Goto(r, IF dates = {} THEN Idle
                       ELSE [req[r] EXCEPT !.pc = "wipe", !.todo = dates, !.bars = bars])
    BY <1>3 DEF ReadHistories
  <2> DEFINE dates == MarketDates(req[r].ledger, bars)
             q == [req[r] EXCEPT !.pc = "wipe", !.todo = dates, !.bars = bars]
  <2>1. dates \subseteq Dates /\ bars \subseteq market /\ bars \in SUBSET (Symbols \X Dates)
        /\ req[r] \in Request
    BY DEF MarketDates, TypeOK, Windows
  <2> HIDE DEF dates
  <2>2. q \in Request /\ q.bars = bars /\ q.todo = dates
    BY <2>1 DEF Request, Steps
  <2>3. /\ \/ Goto(r, Idle)
           \/ dates # {} /\ req' = [req EXCEPT ![r] = q]
        /\ UNCHANGED <<tables, crashes, shown>>
    BY <1>3, <2>0 DEF ReadHistories, dates, Goto
  <2> HIDE DEF q
  <2>4. req' \in [Requests -> Request] /\ RebuildsSound'
    BY <2>1, <2>2, <2>3, RequestReplaced, RequestEnded DEF tables
  <2> QED BY <2>3, <2>4 DEF tables, TypeOK, OfficialIsExact, NoOrphanReview
<1>4. ASSUME Wipe(r)
      PROVE  NavInv'
  <2>1. /\ Step(r, "save") /\ snaps' = [d \in Dates |-> NoSnap] /\ req[r].pc = "wipe"
        /\ UNCHANGED <<ledger, recorded, market, control, restatements, crashes, shown>>
    BY <1>4 DEF Wipe
  <2>2. req[r].todo # {}
    BY <2>1 DEF RebuildsSound
  <2>3. req' \in [Requests -> Request] /\ RebuildsSound'
    BY <2>1, <2>2, StepTaken DEF Steps
  <2>4. TypeOK'
    BY <2>1, <2>3, IdleTyped DEF TypeOK
  <2>5. OfficialIsExact' /\ NoOrphanReview'
    BY <2>1 DEF OfficialIsExact, NoOrphanReview, NoSnap
  <2> QED BY <2>3, <2>4, <2>5
<1>5. ASSUME Save(r)
      PROVE  NavInv'
  <2>0. PICK d \in req[r].todo : SaveDate(r, d)
    BY <1>5 DEF Save
  <2> DEFINE snap == SnapshotOf(req[r].ledger, req[r].bars, d)
             rest == req[r].todo \ {d}
             q    == [req[r] EXCEPT !.todo = rest]
  <2>1. req[r] \in Request /\ req[r].todo # {} /\ req[r].bars \subseteq market
    BY <2>0 DEF SaveDate, TypeOK, RebuildsSound
  <2>2. d \in Dates
    BY <2>1 DEF Request
  <2>3. snap \in Snapshot
        /\ (snap.official => \A e \in snap.events : e.sym \in CashMoves \/ <<e.sym, d>> \in market)
    <3>1. req[r].ledger \in SUBSET Event
      BY <2>1 DEF Request
    <3> QED BY <2>1, <2>2, <3>1, SnapshotSound
  <2>4. q \in Request /\ q.bars = req[r].bars /\ q.todo = rest
    BY <2>1 DEF Request
  <2>5. /\ \/ /\ snaps' = [snaps EXCEPT ![d] = snap]
              /\ shown' = (IF snap.official THEN [shown EXCEPT ![d] = snap] ELSE shown)
           \/ UNCHANGED <<snaps, shown>>
        /\ \/ Goto(r, Idle)
           \/ rest # {} /\ req' = [req EXCEPT ![r] = q]
        /\ UNCHANGED <<ledger, recorded, market, control, restatements, crashes>>
    BY <2>0 DEF SaveDate, Goto
  <2> HIDE DEF snap, rest, q
  <2>6. req' \in [Requests -> Request] /\ RebuildsSound'
    BY <2>1, <2>4, <2>5, RequestReplaced, RequestEnded
  <2>7. TypeOK'
    BY <2>2, <2>3, <2>5, <2>6 DEF TypeOK
  <2>8. OfficialIsExact'
    <3>1. \A c \in Dates : snaps'[c] = snaps[c] \/ (c = d /\ snaps'[c] = snap)
      BY <2>5 DEF TypeOK
    <3> QED BY <2>3, <2>5, <3>1 DEF OfficialIsExact
  <2>9. NoOrphanReview'
    BY <2>5 DEF NoOrphanReview
  <2> QED BY <2>6, <2>7, <2>8, <2>9
<1> QED BY <1>1, <1>2, <1>3, <1>4, <1>5

\* The NAV controls: resolving a restatement takes its flags away with it.
LEMMA ControlSteps ==
    ASSUME NavAssumption, NavInv, NEW r \in Requests
    PROVE  /\ \A d \in Dates : Lock(r, d) => NavInv'
           /\ \A k \in DOMAIN restatements : Resolve(r, k) => NavInv'
           /\ Restate(r) => NavInv'
           /\ Crash(r) => NavInv'
<1> USE DEF NavInv
<1>1. ASSUME NEW d \in Dates, Lock(r, d)
      PROVE  NavInv'
  BY <1>1 DEF Lock, TypeOK, Statuses, RebuildsSound, OfficialIsExact, NoOrphanReview
<1>2. ASSUME NEW k \in DOMAIN restatements, Resolve(r, k)
      PROVE  NavInv'
  <2> DEFINE from == restatements[k].from
  <2> DEFINE Row == [from : Dates, open : BOOLEAN]
  <2>1. restatements \in Seq(Row) /\ restatements[k] \in Row /\ from \in Dates
    <3>1. restatements \in Seq(Row)
      BY DEF TypeOK
    <3>2. restatements[k] \in Row
      <4> HIDE DEF Row
      <4> QED BY <3>1
    <3> QED BY <3>1, <3>2
  <2>2. /\ restatements' = [restatements EXCEPT ![k].open = FALSE]
        /\ control' = [d \in Dates |->
               IF d >= from /\ control[d] = "RESTATEMENT_REQUIRED" THEN "OFFICIAL"
               ELSE control[d]]
        /\ Goto(r, At("restate", from, FALSE, {}))
        /\ UNCHANGED <<ledger, recorded, market, snaps, crashes, shown>>
    BY <1>2 DEF Resolve, Recontrol
  <2> DEFINE q == At("restate", from, FALSE, {})
  <2>3. q \in Request /\ q.bars = {} /\ q.pc = "restate" /\ req' = [req EXCEPT ![r] = q]
    BY <2>1, <2>2 DEF At, Request, Goto, Steps
  <2> HIDE DEF q
  <2>4. req' \in [Requests -> Request] /\ RebuildsSound'
    BY <2>2, <2>3, RequestReplaced
  <2>5. /\ restatements' \in Seq([from : Dates, open : BOOLEAN])
        /\ DOMAIN restatements' = DOMAIN restatements
        /\ \A j \in DOMAIN restatements : j # k => restatements'[j] = restatements[j]
    <3> DEFINE row == [restatements[k] EXCEPT !.open = FALSE]
    <3>1. row \in Row
      BY <2>1
    <3>2. restatements' = [restatements EXCEPT ![k] = row]
      BY <2>1, <2>2
    <3> HIDE DEF row, Row
    <3>3. restatements' \in Seq(Row)
      BY <2>1, <3>1, <3>2
    <3> QED BY <2>1, <3>2, <3>3 DEF Row
  <2>6. TypeOK'
    BY <2>2, <2>4, <2>5 DEF TypeOK, Statuses
  <2>7. NoOrphanReview'
    <3> SUFFICES ASSUME NEW d \in Dates, control'[d] = "RESTATEMENT_REQUIRED"
                 PROVE  \E j \in DOMAIN restatements' :
                           restatements'[j].open /\ restatements'[j].from <= d
      BY DEF NoOrphanReview
    <3>1. control[d] = "RESTATEMENT_REQUIRED" /\ ~(d >= from)
      BY <2>2
    <3>2. PICK j \in DOMAIN restatements : restatements[j].open /\ restatements[j].from <= d
      BY <3>1 DEF NoOrphanReview
    <3>3. j # k
      BY <3>1, <3>2, <2>1 DEF Dates, NavAssumption
    <3> QED BY <2>5, <3>2, <3>3
  <2>8. OfficialIsExact'
    BY <2>2 DEF OfficialIsExact
  <2> QED BY <2>4, <2>6, <2>7, <2>8
<1>3. ASSUME Restate(r)
      PROVE  NavInv'
  <2>1. /\ control' = [d \in Dates |->
               IF d >= req[r].from /\ control[d] = "OFFICIAL" THEN "RESTATED"
               ELSE control[d]]
        /\ Goto(r, Idle)
        /\ UNCHANGED <<ledger, recorded, market, snaps, restatements, crashes, shown>>
    BY <1>3 DEF Restate, Recontrol
  <2>2. req' \in [Requests -> Request] /\ RebuildsSound'
    BY <2>1, RequestEnded
  <2>3. TypeOK'
    BY <2>1, <2>2 DEF TypeOK, Statuses
  <2> QED BY <2>1, <2>2, <2>3 DEF OfficialIsExact, NoOrphanReview
<1>4. ASSUME Crash(r)
      PROVE  NavInv'
  <2>1. /\ crashes' = crashes + 1 /\ crashes < MaxCrashes
        /\ Goto(r, Idle) /\ UNCHANGED <<tables, shown>>
    BY <1>4 DEF Crash
  <2>2. req' \in [Requests -> Request] /\ RebuildsSound'
    BY <2>1, RequestEnded DEF tables
  <2>3. TypeOK'
    BY <2>1, <2>2 DEF TypeOK, tables, NavAssumption
  <2> QED BY <2>1, <2>2, <2>3 DEF tables, OfficialIsExact, NoOrphanReview
<1> QED BY <1>1, <1>2, <1>3, <1>4

LEMMA NavStep ==
    ASSUME NavInv, [Next]_vars
    PROVE  NavInv'
<1>1. CASE UNCHANGED vars
  BY <1>1 DEF vars, tables, NavInv, TypeOK, RebuildsSound, OfficialIsExact, NoOrphanReview
<1>2. ASSUME NEW r \in Requests, Begin(r)
      PROVE  NavInv'
  BY <1>2, NavAssumption, MutationSteps, RebuildSteps, ControlSteps DEF Begin
<1>3. ASSUME NEW r \in Requests, Continue(r)
      PROVE  NavInv'
  BY <1>3, NavAssumption, MutationSteps, MarkStep, RebuildSteps, ControlSteps DEF Continue
<1>4. ASSUME NEW r \in Requests, Crash(r)
      PROVE  NavInv'
  BY <1>4, NavAssumption, ControlSteps
<1> QED BY <1>1, <1>2, <1>3, <1>4 DEF Next

\* The inductive invariant of the NAV history.
THEOREM NavInvariant == Spec => []NavInv
<1>1. Init => NavInv
  BY InitNav, NavAssumption
<1>2. NavInv /\ [Next]_vars => NavInv'
  BY NavStep
<1> QED BY <1>1, <1>2, PTL DEF Spec

\* Tables, requests and snapshots stay well typed.
THEOREM NavTypes == Spec => []TypeOK
<1>1. NavInv => TypeOK
  BY DEF NavInv
<1> QED BY <1>1, NavInvariant, PTL

\* INV-08 for every interleaving of overlapping syncs and mutations: an OFFICIAL
\* snapshot has a same-date bar for every symbol it holds.
THEOREM OfficialAlwaysExact == Spec => []OfficialIsExact
<1>1. NavInv => OfficialIsExact
  BY DEF NavInv
<1> QED BY <1>1, NavInvariant, PTL

\* A date asks for a restatement review only while an open restatement covers it.
THEOREM ReviewsExplained == Spec => []NoOrphanReview
<1>1. NavInv => NoOrphanReview
  BY DEF NavInv
<1> QED BY <1>1, NavInvariant, PTL

\* Types, INV-08 and the explained reviews outlast every interleaving of mutations,
\* syncs, controls and crashes.
THEOREM HistoryAlwaysSound == Spec => []HistorySound
<1> QED BY NavTypes, OfficialAlwaysExact, ReviewsExplained, PTL DEF HistorySound

-------------------------------------------------------------------------------
\* One client.  What it knows of the history at each place of a handler, and what the
\* published NAVs stand for.

DerivesFor(r) ==
    LET q == req[r] IN
    /\ q.pc = "idle" => q = Idle
    /\ q.pc \in {"idle", "write", "fetch", "restate"} => Follows
    /\ q.pc = "write" => (q.late <=> Published(q.from)) /\ \A e \in q.ledger : e.date = q.from
    /\ q.pc \in {"fetch", "read", "wipe", "save"} => q.ledger = ledger
    /\ q.pc = "read" => \A d \in Dates : HasSnap(d) => d \in MarketDates(ledger, market)
    /\ q.pc \in {"wipe", "save"} => q.bars \in Windows(ledger, market)
                                   /\ q.todo \subseteq MarketDates(ledger, q.bars)
    /\ q.pc = "wipe" => q.todo = MarketDates(ledger, q.bars)
    /\ q.pc = "save" =>
         snaps = [d \in Dates |-> IF d \in q.todo THEN NoSnap ELSE Derived(ledger, q.bars)[d]]

\* What a date has shown is not, or will not be, true, and the date says so.
Flagged(q, d) ==
    \/ control[d] \in {"RESTATEMENT_REQUIRED", "RESTATED"}
    \/ q.pc = "restate" /\ control[d] = "OFFICIAL" /\ q.from <= d

\* Or it stands for the transactions of the ledger, but for a correction whose date is
\* about to be compared with the latest snapshot.
Stands(q, d) ==
    /\ \A s \in SymbolsOf(shown[d].events) : <<s, d>> \in market
    /\ q.pc \in {"check", "mark"} => HasSnap(d)
    /\ (q.pc \in {"check", "mark"} /\ q.from <= d) \/ shown[d].events = Until(ledger, d)

ShownFor(r) ==
    Fits => \A d \in Dates : \/ SymbolsOf(shown[d].events) = {}
                             \/ Flagged(req[r], d)
                             \/ Stands(req[r], d)

\* Whoever works, an official snapshot is the last one shown.
ShownLast ==
    \A d \in Dates : /\ shown[d] = NoSnap \/ shown[d].official
                     /\ snaps[d].official => shown[d] = snaps[d]

ClientInv ==
    /\ NavInv /\ ShownLast
    /\ clients \in {OneClient, Requests}
    /\ Undisturbed => \A r \in clients : DerivesFor(r) /\ ShownFor(r)

\* A date on which every symbol held has a bar of that date has an official snapshot.
LEMMA ExactDerived ==
    ASSUME NEW events, NEW bars, NEW d \in Dates,
           NavAssumption, SymbolsOf(Until(events, d)) # {},
           \A s \in SymbolsOf(Until(events, d)) : <<s, d>> \in bars
    PROVE  /\ d \in MarketDates(events, bars)
           /\ Derived(events, bars)[d].events = Until(events, d)
           /\ Derived(events, bars)[d].official
           /\ Derived(events, bars)[d] # NoSnap
<1>1. d \in MarketDates(events, bars)
  BY DEF MarketDates, SymbolsOf, Until
<1>2. Priced(events, bars, d) /\ ~Penniless(Until(events, d))
  BY <1>1 DEF Priced, Penniless, Dates, NavAssumption
<1>3. Exact(events, bars, d)
  BY DEF Exact
<1> QED BY <1>1, <1>2, <1>3 DEF Derived, Valued, SnapshotOf, NoSnap

\* And conversely.
LEMMA OfficialDerived ==
    ASSUME NEW events, NEW bars, NEW d \in Dates, Derived(events, bars)[d].official
    PROVE  /\ Derived(events, bars)[d].events = Until(events, d)
           /\ \A s \in SymbolsOf(Until(events, d)) : <<s, d>> \in bars
BY DEF Derived, SnapshotOf, NoSnap, Exact

\* More bars give more dates; a date without bars has no snapshot.
LEMMA DerivedDates ==
    ASSUME NEW events, NEW bars, NEW more, bars \subseteq more
    PROVE  /\ MarketDates(events, bars) \subseteq MarketDates(events, more)
           /\ \A d \in Dates : d \notin MarketDates(events, bars) => Derived(events, bars)[d] = NoSnap
           /\ Derived(events, bars) = [d \in Dates |-> Derived(events, bars)[d]]
BY DEF MarketDates, Derived

\* A read that all stored bars fit in leaves out none of the ledger's symbols.
LEMMA WindowFits ==
    ASSUME NavAssumption, market \subseteq Symbols \X Dates, Fits,
           NEW events, NEW w \in Windows(events, market)
    PROVE  w = {b \in market : b[1] \in SymbolsOf(events)}
<1> DEFINE rows == {b \in market : b[1] \in SymbolsOf(events)}
<1>1. IsFiniteSet(market)
  <2>1. IsFiniteSet(Symbols) /\ IsFiniteSet(Dates)
    BY FS_Interval DEF NavAssumption, Dates
  <2> QED BY <2>1, FS_Product, FS_Subset
<1>2. w \subseteq rows /\ rows \subseteq market /\ (w = rows \/ Cardinality(w) = HistoryLimit)
  BY DEF Windows
<1> HIDE DEF rows
<1>3. IsFiniteSet(rows) /\ Cardinality(rows) <= Cardinality(market)
      /\ Cardinality(rows) \in Nat /\ Cardinality(market) \in Nat
  BY <1>1, <1>2, FS_Subset, FS_CardinalityType
<1>4. CASE w # rows
  <2>1. Cardinality(w) < Cardinality(rows) /\ Cardinality(w) \in Nat
    BY <1>2, <1>3, <1>4, FS_Subset, FS_CardinalityType
  <2> QED BY <1>2, <1>3, <1>4, <2>1 DEF Fits, NavAssumption
<1> QED BY <1>4 DEF rows

\* A read is empty of dates only when the store is: the newest bars come first.
LEMMA WindowDates ==
    ASSUME NavAssumption, market \subseteq Symbols \X Dates, NEW events \in SUBSET Event,
           NEW w \in Windows(events, market), MarketDates(events, w) = {}
    PROVE  MarketDates(events, market) = {}
<1> SUFFICES ASSUME NEW d \in MarketDates(events, market)
             PROVE  FALSE
  OBVIOUS
<1> DEFINE rows == {b \in market : b[1] \in SymbolsOf(events)}
<1>1. d \in Dates /\ Until(events, d) # {}
  BY DEF MarketDates
<1>2. PICK s \in SymbolsOf(events) : <<s, d>> \in market
  BY DEF MarketDates
<1>3. <<s, d>> \in rows /\ <<s, d>> \notin w
  BY <1>1, <1>2 DEF MarketDates
<1>4. /\ w \subseteq rows /\ Cardinality(w) = HistoryLimit
      /\ \A b \in w, c \in rows \ w : c[2] <= b[2]
  BY <1>3 DEF Windows
<1>5. PICK b \in w : TRUE
  BY <1>4, FS_EmptySet DEF NavAssumption
<1>6. /\ b = <<b[1], b[2]>> /\ b[2] \in Dates /\ b[1] \in SymbolsOf(events) /\ d <= b[2]
  <2>1. b \in market /\ b[1] \in SymbolsOf(events)
    BY <1>4, <1>5
  <2>2. <<s, d>>[2] <= b[2]
    BY <1>3, <1>4, <1>5
  <2> QED BY <2>1, <2>2
<1>7. Until(events, b[2]) # {}
  <2>1. PICK e \in events : e.date <= d
    BY <1>1 DEF Until
  <2>2. e.date \in Int /\ d \in Int /\ b[2] \in Int
    BY <1>1, <1>6 DEF Event, Dates, NavAssumption
  <2>3. e.date <= b[2]
    BY <1>6, <2>1, <2>2
  <2> QED BY <2>3 DEF Until
<1> QED BY <1>5, <1>6, <1>7 DEF MarketDates

\* Transactions of later dates do not show.
LEMMA LaterUnseen ==
    ASSUME NEW events \in SUBSET Event, NEW more \in SUBSET Event, NEW d \in Dates,
           \A e \in Event : e \in events /\ e \notin more => ~(e.date <= d),
           \A e \in Event : e \in more /\ e \notin events => ~(e.date <= d)
    PROVE  Until(events, d) = Until(more, d)
BY DEF Until

\* Where the history follows the ledger, what stands is what the snapshot says.
LEMMA StandingSnap ==
    ASSUME NavAssumption, TypeOK, Fits,
           NEW r \in Requests, NEW d \in Dates, DerivesFor(r), Stands(req[r], d),
           SymbolsOf(shown[d].events) # {},
           req[r].pc \in {"idle", "write", "fetch", "restate"}
    PROVE  HasSnap(d)
<1>1. shown[d].events = Until(ledger, d) /\ \A s \in SymbolsOf(Until(ledger, d)) : <<s, d>> \in market
  BY DEF Stands
<1>2. PICK w \in Windows(ledger, market) : snaps = Derived(ledger, w)
  BY DEF DerivesFor, Follows
<1>3. \A s \in SymbolsOf(Until(ledger, d)) : <<s, d>> \in w
  <2>1. w = {b \in market : b[1] \in SymbolsOf(ledger)}
    BY WindowFits DEF TypeOK
  <2>2. SymbolsOf(Until(ledger, d)) \subseteq SymbolsOf(ledger)
    BY DEF SymbolsOf, Until
  <2> QED BY <1>1, <2>1, <2>2
<1> QED BY <1>1, <1>2, <1>3, ExactDerived DEF HasSnap

\* The store only grows.
LEMMA FittedBefore ==
    ASSUME NavAssumption, TypeOK, TypeOK', market \subseteq market', Fits'
    PROVE  Fits
<1>1. IsFiniteSet(market')
  <2>1. IsFiniteSet(Symbols) /\ IsFiniteSet(Dates)
    BY FS_Interval DEF NavAssumption, Dates
  <2> QED BY <2>1, FS_Product, FS_Subset DEF TypeOK
<1>2. /\ Cardinality(market) <= Cardinality(market')
      /\ Cardinality(market) \in Nat /\ Cardinality(market') \in Nat
  BY <1>1, FS_Subset, FS_CardinalityType
<1> QED BY <1>2 DEF Fits, NavAssumption

\* The steps that change neither the ledger nor what is published.
LEMMA ShownKept ==
    ASSUME NEW r \in Requests, ShownFor(r), Fits' => Fits, UNCHANGED <<ledger, control, shown>>,
           market \subseteq market',
           req[r].pc \notin {"check", "mark", "restate"},
           req'[r].pc \notin {"check", "mark", "restate"}
    PROVE  ShownFor(r)'
<1> SUFFICES ASSUME Fits, NEW d \in Dates, SymbolsOf(shown[d].events) # {}
             PROVE  Flagged(req[r], d)' \/ Stands(req[r], d)'
  BY DEF ShownFor
<1>1. CASE Flagged(req[r], d)
  BY <1>1 DEF Flagged
<1>2. CASE Stands(req[r], d)
  BY <1>2 DEF Stands
<1> QED BY <1>1, <1>2 DEF ShownFor

\* What a step does to the state of its own request.
LEMMA OwnStep ==
    ASSUME TypeOK, NEW r \in Requests, NEW pc \in Steps, Step(r, pc)
    PROVE  LET q == req[r] IN
           /\ req'[r].pc = pc /\ req'[r].from = q.from /\ req'[r].ledger = q.ledger
           /\ (req'[r].late <=> q.late) /\ req'[r].todo = q.todo /\ req'[r].bars = q.bars
BY DEF TypeOK, Request, Step

LEMMA OwnGoto ==
    ASSUME TypeOK, NEW r \in Requests, NEW pc, NEW from, NEW late, NEW events,
           Goto(r, At(pc, from, late, events))
    PROVE  /\ req'[r] = At(pc, from, late, events)
           /\ req'[r].pc = pc /\ req'[r].from = from /\ req'[r].ledger = events
           /\ req'[r].late = late
<1>1. req'[r] = At(pc, from, late, events)
  BY DEF TypeOK, Goto
<1> QED BY <1>1 DEF At

LEMMA OwnEnd ==
    ASSUME TypeOK, NEW r \in Requests, Goto(r, Idle)
    PROVE  req'[r] = Idle /\ req'[r].pc = "idle"
<1>1. req'[r] = Idle
  BY DEF TypeOK, Goto
<1> QED BY <1>1 DEF Idle, At

\* append_event: either the latest snapshot is before the event, and nothing published
\* changes, or its date will be marked.
LEMMA AppendFollows ==
    ASSUME NavAssumption, NavInv, NEW r \in Requests, DerivesFor(r), ShownFor(r)
    PROVE  /\ \A d \in Dates, s \in Symbols \cup CashMoves :
                BeginAppend(r, d, s) => DerivesFor(r)' /\ ShownFor(r)'
           /\ InsertEvent(r) => DerivesFor(r)' /\ ShownFor(r)'
<1> USE DEF NavInv
<1>1. ASSUME NEW d \in Dates, NEW s \in Symbols \cup CashMoves, BeginAppend(r, d, s)
      PROVE  DerivesFor(r)' /\ ShownFor(r)'
  <2> DEFINE e == [id |-> recorded + 1, date |-> d, sym |-> s, rev |-> 0]
  <2>1. /\ req[r].pc = "idle" /\ Goto(r, At("write", d, Published(d), {e}))
        /\ UNCHANGED <<tables, crashes, shown>>
    BY <1>1 DEF BeginAppend
  <2>2. e.date = d
    OBVIOUS
  <2> HIDE DEF e
  <2>3. /\ req'[r].pc = "write" /\ req'[r].from = d /\ req'[r].ledger = {e}
        /\ req'[r].late <=> Published(d)
    BY <2>1, OwnGoto
  <2>4. UNCHANGED <<ledger, market, snaps, control, shown>>
    BY <2>1 DEF tables
  <2>5. Published(d)' <=> Published(d)
    BY <2>4 DEF Published, HasSnap
  <2>6. Follows
    BY <2>1 DEF DerivesFor
  <2>7. DerivesFor(r)'
    BY <2>2, <2>3, <2>4, <2>5, <2>6 DEF DerivesFor, Follows
  <2>8. ShownFor(r)'
    BY <2>1, <2>3, <2>4, ShownKept DEF Fits
  <2> QED BY <2>7, <2>8
<1>2. ASSUME InsertEvent(r)
      PROVE  DerivesFor(r)' /\ ShownFor(r)'
  <2> DEFINE new == {[e EXCEPT !.id = recorded + 1] : e \in req[r].ledger}
             pc == IF req[r].late THEN "mark" ELSE "clear"
  <2>1. /\ req[r].pc = "write" /\ ledger' = ledger \cup new /\ Step(r, pc)
        /\ UNCHANGED <<market, snaps, control, restatements, crashes, shown>>
    BY <1>2 DEF InsertEvent
  <2>2. req'[r].pc = pc /\ req'[r].from = req[r].from /\ pc \in {"mark", "clear"}
    BY <2>1, OwnStep DEF Steps
  <2>3. new \subseteq Event /\ \A e \in new : e.date = req[r].from
    <3>1. req[r].ledger \subseteq Event /\ recorded + 1 \in 1 .. MaxEvents
      BY <1>2 DEF TypeOK, Request, InsertEvent, NavAssumption
    <3>2. \A e \in req[r].ledger : e.date = req[r].from
      BY <2>1 DEF DerivesFor
    <3> QED BY <3>1, <3>2 DEF Event
  <2>4. DerivesFor(r)'
    BY <2>2 DEF DerivesFor
  <2>5. ledger \subseteq Event /\ req[r].from \in Dates /\ (req[r].late <=> Published(req[r].from))
    BY <2>1 DEF TypeOK, Request, DerivesFor
  <2> HIDE DEF new
  <2>6. ASSUME Fits, NEW d \in Dates, SymbolsOf(shown[d].events) # {}
        PROVE  Flagged(req[r], d)' \/ Stands(req[r], d)'
    <3>1. CASE Flagged(req[r], d)
      BY <2>1, <3>1 DEF Flagged
    <3>2. CASE Stands(req[r], d)
      <4>1. HasSnap(d) /\ HasSnap(d)'
        BY <2>1, <2>6, <3>2, StandingSnap DEF HasSnap
      <4>2. ASSUME ~(req[r].from <= d)
            PROVE  Until(ledger', d) = Until(ledger, d)
        BY <2>1, <2>3, <2>5, <4>2, LaterUnseen
      <4>3. pc = "clear" => ~(req[r].from <= d)
        BY <2>5, <4>1 DEF Published, Dates, NavAssumption
      <4> QED BY <2>1, <2>2, <3>2, <4>1, <4>2, <4>3 DEF Stands
    <3> QED BY <2>6, <3>1, <3>2 DEF ShownFor, Fits
  <2>7. ShownFor(r)'
    BY <2>1, <2>6 DEF ShownFor, Fits
  <2> QED BY <2>4, <2>7
<1> QED BY <1>1, <1>2

\* A correction leaves open what its date has published until it is compared with the
\* latest snapshot, and marked.
LEMMA CorrectionFollows ==
    ASSUME NavAssumption, NavInv, NEW r \in Requests, DerivesFor(r), ShownFor(r)
    PROVE  /\ \A e \in ledger : Correct(r, e) => DerivesFor(r)' /\ ShownFor(r)'
           /\ Check(r) => DerivesFor(r)' /\ ShownFor(r)'
           /\ Mark(r) => DerivesFor(r)' /\ ShownFor(r)'
<1> USE DEF NavInv
<1>1. ASSUME NEW e \in ledger, Correct(r, e)
      PROVE  DerivesFor(r)' /\ ShownFor(r)'
  <2>1. /\ req[r].pc = "idle" /\ Goto(r, At("check", e.date, FALSE, {}))
        /\ UNCHANGED <<recorded, market, snaps, control, restatements, crashes, shown>>
    BY <1>1 DEF Correct
  <2>2. req'[r].pc = "check" /\ req'[r].from = e.date
    <3> DEFINE d == e.date
    <3>1. Goto(r, At("check", d, FALSE, {}))
      BY <2>1
    <3> HIDE DEF d
    <3>2. req'[r].pc = "check" /\ req'[r].from = d
      BY <3>1, OwnGoto
    <3> QED BY <3>2 DEF d
  <2>3. e \in Event /\ ledger \subseteq Event
    BY DEF TypeOK
  <2>4. /\ ledger' \subseteq Event
        /\ \A x \in Event : x \in ledger /\ x \notin ledger' => x.date = e.date
        /\ \A x \in Event : x \in ledger' /\ x \notin ledger => x.date = e.date
    <3> DEFINE new == [e EXCEPT !.rev = @ + 1]
    <3>1. new \in Event /\ new.date = e.date
      BY <2>3 DEF Event
    <3>2. ledger' = (ledger \ {e}) \cup {new} \/ ledger' = ledger \ {e}
      BY <1>1 DEF Correct
    <3> HIDE DEF new
    <3> QED BY <2>3, <3>1, <3>2
  <2>5. DerivesFor(r)'
    BY <2>2 DEF DerivesFor
  <2>6. ASSUME Fits, NEW d \in Dates, SymbolsOf(shown[d].events) # {}
        PROVE  Flagged(req[r], d)' \/ Stands(req[r], d)'
    <3>1. CASE Flagged(req[r], d)
      BY <2>1, <3>1 DEF Flagged
    <3>2. CASE Stands(req[r], d)
      <4>1. HasSnap(d) /\ HasSnap(d)'
        BY <2>1, <2>6, <3>2, StandingSnap DEF HasSnap
      <4>2. ASSUME ~(e.date <= d)
            PROVE  Until(ledger', d) = Until(ledger, d)
        BY <2>3, <2>4, <4>2, LaterUnseen
      <4> QED BY <2>1, <2>2, <3>2, <4>1, <4>2 DEF Stands
    <3> QED BY <2>6, <3>1, <3>2 DEF ShownFor, Fits
  <2>7. ShownFor(r)'
    BY <2>1, <2>6 DEF ShownFor, Fits
  <2> QED BY <2>5, <2>7
<1>2. ASSUME Check(r)
      PROVE  DerivesFor(r)' /\ ShownFor(r)'
  <2> DEFINE pc == IF Published(req[r].from) THEN "mark" ELSE "clear"
  <2>1. req[r].pc = "check" /\ Step(r, pc) /\ UNCHANGED <<tables, crashes, shown>>
    BY <1>2 DEF Check
  <2>2. req'[r].pc = pc /\ req'[r].from = req[r].from /\ pc \in {"mark", "clear"}
    BY <2>1, OwnStep DEF Steps
  <2>3. UNCHANGED <<ledger, market, snaps, control, shown>> /\ req[r].from \in Dates
    BY <2>1 DEF tables, TypeOK, Request
  <2>4. DerivesFor(r)'
    BY <2>2 DEF DerivesFor
  <2>5. ASSUME Fits, NEW d \in Dates, SymbolsOf(shown[d].events) # {}
        PROVE  Flagged(req[r], d)' \/ Stands(req[r], d)'
    <3>1. CASE Flagged(req[r], d)
      BY <2>1, <2>3, <3>1 DEF Flagged
    <3>2. CASE Stands(req[r], d)
      <4>1. HasSnap(d) /\ HasSnap(d)'
        BY <2>1, <2>3, <3>2 DEF Stands, HasSnap
      <4>2. pc = "clear" => ~(req[r].from <= d)
        BY <2>3, <4>1 DEF Published, Dates, NavAssumption
      <4> QED BY <2>1, <2>2, <2>3, <3>2, <4>1, <4>2 DEF Stands
    <3> QED BY <2>5, <3>1, <3>2 DEF ShownFor, Fits
  <2>6. ShownFor(r)'
    BY <2>3, <2>5 DEF ShownFor, Fits
  <2> QED BY <2>4, <2>6
<1>3. ASSUME Mark(r)
      PROVE  DerivesFor(r)' /\ ShownFor(r)'
  <2>1. /\ req[r].pc = "mark" /\ Step(r, "clear")
        /\ control' = [d \in Dates |-> IF d >= req[r].from /\ HasSnap(d)
                                       THEN "RESTATEMENT_REQUIRED" ELSE control[d]]
        /\ UNCHANGED <<ledger, recorded, market, snaps, crashes, shown>>
    BY <1>3 DEF Mark
  <2>2. req'[r].pc = "clear" /\ req[r].from \in Dates
    BY <2>1, OwnStep DEF Steps, TypeOK, Request
  <2>3. DerivesFor(r)'
    BY <2>2 DEF DerivesFor
  <2>4. ASSUME Fits, NEW d \in Dates, SymbolsOf(shown[d].events) # {}
        PROVE  Flagged(req[r], d)' \/ Stands(req[r], d)'
    <3>1. CASE Flagged(req[r], d)
      BY <2>1, <3>1 DEF Flagged
    <3>2. CASE Stands(req[r], d) /\ req[r].from <= d
      BY <2>1, <2>2, <3>2 DEF Stands, Flagged, Dates, NavAssumption
    <3>3. CASE Stands(req[r], d) /\ ~(req[r].from <= d)
      BY <2>1, <2>2, <3>3 DEF Stands
    <3> QED BY <2>4, <3>1, <3>2, <3>3 DEF ShownFor, Fits
  <2>5. ShownFor(r)'
    BY <2>1, <2>4 DEF ShownFor, Fits
  <2> QED BY <2>3, <2>5
<1> QED BY <1>1, <1>2, <1>3

\* The rebuild: what it empties it derives again from the same ledger and bars.
LEMMA RebuildFollows ==
    ASSUME NavAssumption, NavInv, NEW r \in Requests, DerivesFor(r), ShownFor(r)
    PROVE  /\ Clear(r) => DerivesFor(r)' /\ ShownFor(r)'
           /\ BeginSync(r) => DerivesFor(r)' /\ ShownFor(r)'
           /\ Fetch(r) => DerivesFor(r)' /\ ShownFor(r)'
           /\ ReadHistories(r) => DerivesFor(r)' /\ ShownFor(r)'
           /\ Wipe(r) => DerivesFor(r)' /\ ShownFor(r)'
<1> USE DEF NavInv
<1>1. ASSUME Clear(r)
      PROVE  DerivesFor(r)' /\ ShownFor(r)'
  <2>1. /\ req[r].pc = "clear" /\ snaps' = [d \in Dates |-> NoSnap]
        /\ req' = [req EXCEPT ![r].pc = "read", ![r].ledger = ledger]
        /\ UNCHANGED <<ledger, recorded, market, control, restatements, crashes, shown>>
    BY <1>1 DEF Clear
  <2>2. req'[r].pc = "read" /\ req'[r].ledger = ledger
    BY <2>1 DEF TypeOK, Request
  <2>3. DerivesFor(r)'
    BY <2>1, <2>2 DEF DerivesFor, HasSnap
  <2>4. ShownFor(r)'
    BY <2>1, <2>2, ShownKept DEF Fits
  <2> QED BY <2>3, <2>4
<1>2. ASSUME BeginSync(r)
      PROVE  DerivesFor(r)' /\ ShownFor(r)'
  <2>1. /\ req[r].pc = "idle" /\ Goto(r, At("fetch", 1, FALSE, ledger))
        /\ UNCHANGED <<tables, crashes, shown>>
    BY <1>2 DEF BeginSync
  <2>2. req'[r].pc = "fetch" /\ req'[r].ledger = ledger
    BY <2>1, OwnGoto
  <2>3. UNCHANGED <<ledger, market, snaps, control, shown>>
    BY <2>1 DEF tables
  <2>4. DerivesFor(r)'
    BY <2>1, <2>2, <2>3 DEF DerivesFor, Follows
  <2>5. ShownFor(r)'
    BY <2>1, <2>2, <2>3, ShownKept DEF Fits
  <2> QED BY <2>4, <2>5
<1>3. ASSUME Fetch(r)
      PROVE  DerivesFor(r)' /\ ShownFor(r)'
  <2>1. /\ req[r].pc = "fetch" /\ market \subseteq market' /\ Step(r, "read")
        /\ UNCHANGED <<ledger, recorded, snaps, control, restatements, crashes, shown>>
    BY <1>3 DEF Fetch
  <2>2. req'[r].pc = "read" /\ req'[r].ledger = ledger
    BY <2>1, OwnStep DEF Steps, DerivesFor
  <2>3. \A d \in Dates : HasSnap(d) => d \in MarketDates(ledger, market')
    <3>1. PICK w \in Windows(ledger, market) : snaps = Derived(ledger, w)
      BY <2>1 DEF DerivesFor, Follows
    <3>2. w \subseteq market'
      BY <2>1 DEF Windows
    <3> QED BY <3>1, <3>2, DerivedDates DEF HasSnap
  <2>4. DerivesFor(r)'
    BY <2>1, <2>2, <2>3 DEF DerivesFor, HasSnap
  <2>5. Fits' => Fits
    <3>1. TypeOK'
      BY <1>3, RebuildSteps
    <3> QED BY <2>1, <3>1, FittedBefore
  <2>6. ShownFor(r)'
    BY <2>1, <2>2, <2>5, ShownKept
  <2> QED BY <2>4, <2>6
<1>4. ASSUME ReadHistories(r)
      PROVE  DerivesFor(r)' /\ ShownFor(r)'
  <2>1. req[r].pc = "read" /\ req[r].ledger = ledger /\ UNCHANGED <<tables, crashes, shown>>
    BY <1>4 DEF ReadHistories, DerivesFor
  <2>0. PICK bars \in Windows(ledger, market) :
           LET dates == MarketDates(ledger, bars)
           IN  Goto(r, IF dates = {} THEN Idle
                       ELSE [req[r] EXCEPT !.pc = "wipe", !.todo = dates, !.bars = bars])
    BY <1>4, <2>1 DEF ReadHistories
  <2> DEFINE dates == MarketDates(ledger, bars)
             q == [req[r] EXCEPT !.pc = "wipe", !.todo = dates, !.bars = bars]
  <2>2. UNCHANGED <<ledger, market, snaps, control, shown>>
    BY <2>1 DEF tables
  <2> HIDE DEF dates
  <2>3. /\ q.pc = "wipe" /\ q.todo = dates /\ q.bars = bars /\ q.ledger = ledger
    BY <2>1 DEF TypeOK, Request
  <2>4. \/ dates = {} /\ Goto(r, Idle)
        \/ req' = [req EXCEPT ![r] = q]
    BY <2>0 DEF Goto, dates
  <2> HIDE DEF q
  <2>5. CASE dates = {} /\ Goto(r, Idle)
    <3>1. req'[r] = Idle /\ req'[r].pc = "idle"
      BY <2>5, OwnEnd
    <3>0. MarketDates(ledger, market) = {}
      BY <2>5, WindowDates DEF TypeOK, dates
    <3>2. \A d \in Dates : snaps[d] = NoSnap /\ Derived(ledger, bars)[d] = NoSnap
      BY <2>1, <2>5, <3>0, DerivedDates DEF DerivesFor, HasSnap, dates
    <3>3. snaps = [d \in Dates |-> NoSnap]
      BY <3>2 DEF TypeOK
    <3>4. snaps = Derived(ledger, bars)
      <4>1. Derived(ledger, bars) = [d \in Dates |-> Derived(ledger, bars)[d]]
        BY DerivedDates
      <4>2. Derived(ledger, bars) = [d \in Dates |-> NoSnap]
        BY <3>2, <4>1
      <4> QED BY <3>3, <4>2
    <3>5. DerivesFor(r)'
      BY <2>0, <2>2, <3>1, <3>4 DEF DerivesFor, Follows
    <3> QED BY <2>1, <2>2, <3>1, <3>5, ShownKept DEF Fits
  <2>6. CASE req' = [req EXCEPT ![r] = q]
    <3>1. req'[r] = q
      BY <2>6 DEF TypeOK
    <3>2. DerivesFor(r)'
      BY <2>0, <2>2, <2>3, <3>1 DEF DerivesFor, dates
    <3> QED BY <2>1, <2>2, <2>3, <3>1, <3>2, ShownKept DEF Fits
  <2> QED BY <2>4, <2>5, <2>6
<1>5. ASSUME Wipe(r)
      PROVE  DerivesFor(r)' /\ ShownFor(r)'
  <2>1. /\ req[r].pc = "wipe" /\ snaps' = [d \in Dates |-> NoSnap] /\ Step(r, "save")
        /\ UNCHANGED <<ledger, recorded, market, control, restatements, crashes, shown>>
    BY <1>5 DEF Wipe
  <2> DEFINE bars == req[r].bars
  <2>2. req'[r].pc = "save" /\ req'[r].ledger = ledger /\ req'[r].bars = bars
        /\ req'[r].todo = MarketDates(ledger, bars) /\ bars \in Windows(ledger, market)
    BY <2>1, OwnStep DEF Steps, DerivesFor
  <2> HIDE DEF bars
  <2>3. snaps' = [d \in Dates |-> IF d \in MarketDates(ledger, bars) THEN NoSnap
                                  ELSE Derived(ledger, bars)[d]]
    BY <2>1, DerivedDates
  <2>4. DerivesFor(r)'
    BY <2>1, <2>2, <2>3 DEF DerivesFor
  <2> QED BY <2>1, <2>2, <2>4, ShownKept DEF Fits
<1> QED BY <1>1, <1>2, <1>3, <1>4, <1>5

\* One date of the rebuild: what it shows is what the date has shown, or stands from now.
LEMMA SaveFollows ==
    ASSUME NavAssumption, NavInv, NEW r \in Requests, DerivesFor(r), ShownFor(r), Save(r)
    PROVE  DerivesFor(r)' /\ ShownFor(r)'
<1> USE DEF NavInv
<1>0. PICK c \in req[r].todo : SaveDate(r, c)
  BY DEF Save
<1> DEFINE snap == SnapshotOf(ledger, req[r].bars, c)
           rest == req[r].todo \ {c}
           q    == [req[r] EXCEPT !.todo = rest]
<1>1. /\ req[r].pc = "save" /\ req[r].ledger = ledger /\ req[r].bars \in Windows(ledger, market)
      /\ req[r].todo # {} /\ req[r].todo \subseteq MarketDates(ledger, req[r].bars)
      /\ snaps = [d \in Dates |-> IF d \in req[r].todo THEN NoSnap ELSE Derived(ledger, req[r].bars)[d]]
  BY <1>0 DEF SaveDate, DerivesFor, RebuildsSound
<1>2. c \in req[r].todo /\ c \in Dates
  BY DEF TypeOK, Request
<1>3. /\ \/ /\ Valued(ledger, req[r].bars, c) /\ snaps' = [snaps EXCEPT ![c] = snap]
            /\ shown' = (IF snap.official THEN [shown EXCEPT ![c] = snap] ELSE shown)
         \/ ~Valued(ledger, req[r].bars, c) /\ UNCHANGED <<snaps, shown>>
      /\ \/ rest = {} /\ Goto(r, Idle)
         \/ req' = [req EXCEPT ![r] = q]
      /\ UNCHANGED <<ledger, recorded, market, control, restatements, crashes>>
  BY <1>0, <1>1 DEF SaveDate, Goto
<1>4. q.pc = "save" /\ q.ledger = ledger /\ q.bars = req[r].bars /\ q.todo = rest
  BY <1>1 DEF TypeOK, Request
<1>5. snap.events = Until(ledger, c) /\ (snap.official => \A s \in SymbolsOf(Until(ledger, c)) : <<s, c>> \in market)
  BY <1>1 DEF SnapshotOf, Exact, Windows
<1>6. Derived(ledger, req[r].bars)[c] = (IF Valued(ledger, req[r].bars, c) THEN snap ELSE NoSnap)
  BY <1>1, <1>2 DEF Derived
<1> HIDE DEF snap, q
<1>7. snaps' = [d \in Dates |-> IF d \in rest THEN NoSnap ELSE Derived(ledger, req[r].bars)[d]]
  BY <1>1, <1>2, <1>3, <1>6
<1>8. \A d \in Dates : shown'[d] = shown[d] \/ (d = c /\ snap.official /\ shown'[d] = snap)
  BY <1>3 DEF TypeOK
<1>9. CASE rest = {} /\ Goto(r, Idle)
  <2>1. req'[r] = Idle /\ req'[r].pc = "idle"
    BY <1>9, OwnEnd
  <2>2. snaps' = Derived(ledger, req[r].bars)
    BY <1>7, <1>9, DerivedDates
  <2>3. DerivesFor(r)'
    BY <1>1, <1>3, <2>1, <2>2 DEF DerivesFor, Follows
  <2>4. ASSUME Fits, NEW d \in Dates, SymbolsOf(shown'[d].events) # {}
        PROVE  Flagged(req[r], d)' \/ Stands(req[r], d)'
    BY <1>1, <1>3, <1>5, <1>8, <2>1, <2>4 DEF ShownFor, Flagged, Stands
  <2> QED BY <1>3, <2>3, <2>4 DEF ShownFor, Fits
<1>10. CASE req' = [req EXCEPT ![r] = q]
  <2>1. req'[r] = q
    BY <1>10 DEF TypeOK
  <2>2. DerivesFor(r)'
    BY <1>1, <1>3, <1>4, <1>7, <2>1 DEF DerivesFor
  <2>4. ASSUME Fits, NEW d \in Dates, SymbolsOf(shown'[d].events) # {}
        PROVE  Flagged(req[r], d)' \/ Stands(req[r], d)'
    BY <1>1, <1>3, <1>4, <1>5, <1>8, <2>1, <2>4 DEF ShownFor, Flagged, Stands
  <2> QED BY <1>3, <2>2, <2>4 DEF ShownFor, Fits
<1> QED BY <1>3, <1>9, <1>10

\* Locking publishes what stands; resolving moves flags, but never drops one.
LEMMA ControlFollows ==
    ASSUME NavAssumption, NavInv, ShownLast, NEW r \in Requests, DerivesFor(r), ShownFor(r)
    PROVE  /\ \A d \in Dates : Lock(r, d) => DerivesFor(r)' /\ ShownFor(r)'
           /\ \A k \in DOMAIN restatements : Resolve(r, k) => DerivesFor(r)' /\ ShownFor(r)'
           /\ Restate(r) => DerivesFor(r)' /\ ShownFor(r)'
<1> USE DEF NavInv
<1>1. ASSUME NEW c \in Dates, Lock(r, c)
      PROVE  DerivesFor(r)' /\ ShownFor(r)'
  <2>1. /\ req[r].pc = "idle" /\ snaps[c].official
        /\ control' = [control EXCEPT ![c] = "LOCKED"]
        /\ UNCHANGED <<ledger, recorded, market, snaps, restatements, req, crashes, shown>>
    BY <1>1 DEF Lock
  <2>2. DerivesFor(r)'
    BY <2>1 DEF DerivesFor, Follows, Published, HasSnap
  <2>3. PICK w \in Windows(ledger, market) : snaps = Derived(ledger, w)
    BY <2>1 DEF DerivesFor, Follows
  <2>3a. w \subseteq market /\ shown[c] = snaps[c]
    BY <2>1 DEF ShownLast, Windows
  <2>4. /\ shown[c].events = Until(ledger, c)
        /\ \A s \in SymbolsOf(shown[c].events) : <<s, c>> \in market
    BY <2>1, <2>3, <2>3a, OfficialDerived
  <2>5. ASSUME Fits, NEW d \in Dates, SymbolsOf(shown[d].events) # {}
        PROVE  Flagged(req[r], d)' \/ Stands(req[r], d)'
    <3>1. CASE d = c
      BY <2>1, <2>4, <3>1 DEF Stands
    <3>2. CASE d # c
      <4>1. control'[d] = control[d]
        BY <2>1, <3>2 DEF TypeOK
      <4> QED BY <2>1, <2>5, <4>1 DEF ShownFor, Flagged, Stands
    <3> QED BY <3>1, <3>2
  <2>6. ShownFor(r)'
    BY <2>1, <2>5 DEF ShownFor, Fits
  <2> QED BY <2>2, <2>6
<1>2. ASSUME NEW k \in DOMAIN restatements, Resolve(r, k)
      PROVE  DerivesFor(r)' /\ ShownFor(r)'
  <2> DEFINE from == restatements[k].from
  <2>1. /\ req[r].pc = "idle" /\ Goto(r, At("restate", from, FALSE, {}))
        /\ control' = [d \in Dates |->
               IF d >= from /\ control[d] = "RESTATEMENT_REQUIRED" THEN "OFFICIAL"
               ELSE control[d]]
        /\ UNCHANGED <<ledger, recorded, market, snaps, crashes, shown>>
    BY <1>2 DEF Resolve, Recontrol
  <2> HIDE DEF from
  <2>2. req'[r].pc = "restate" /\ req'[r].from = from
    BY <2>1, OwnGoto
  <2>3. DerivesFor(r)'
    BY <2>1, <2>2 DEF DerivesFor, Follows
  <2>4. from \in Dates
    <3> DEFINE Row == [from : Dates, open : BOOLEAN]
    <3>1. restatements \in Seq(Row)
      BY DEF TypeOK
    <3> HIDE DEF Row
    <3>2. restatements[k] \in Row
      BY <3>1
    <3> QED BY <3>2 DEF Row, from
  <2>5. ASSUME Fits, NEW d \in Dates, SymbolsOf(shown[d].events) # {}
        PROVE  Flagged(req[r], d)' \/ Stands(req[r], d)'
    <3>1. CASE Flagged(req[r], d)
      <4>1. d >= from <=> from <= d
        BY <2>4 DEF Dates, NavAssumption
      <4> QED BY <2>1, <2>2, <3>1, <4>1 DEF Flagged
    <3>2. CASE Stands(req[r], d)
      BY <2>1, <2>2, <3>2 DEF Stands
    <3> QED BY <2>5, <3>1, <3>2 DEF ShownFor, Fits
  <2>6. ShownFor(r)'
    BY <2>1, <2>5 DEF ShownFor, Fits
  <2> QED BY <2>3, <2>6
<1>3. ASSUME Restate(r)
      PROVE  DerivesFor(r)' /\ ShownFor(r)'
  <2>1. /\ req[r].pc = "restate" /\ Goto(r, Idle)
        /\ control' = [d \in Dates |->
               IF d >= req[r].from /\ control[d] = "OFFICIAL" THEN "RESTATED"
               ELSE control[d]]
        /\ UNCHANGED <<ledger, recorded, market, snaps, restatements, crashes, shown>>
    BY <1>3 DEF Restate, Recontrol
  <2>2. req'[r] = Idle /\ req'[r].pc = "idle"
    BY <2>1, OwnEnd
  <2>3. DerivesFor(r)'
    BY <2>1, <2>2 DEF DerivesFor, Follows
  <2>4. req[r].from \in Dates
    BY DEF TypeOK, Request
  <2>5. ASSUME Fits, NEW d \in Dates, SymbolsOf(shown[d].events) # {}
        PROVE  Flagged(req[r], d)' \/ Stands(req[r], d)'
    <3>1. CASE Flagged(req[r], d)
      <4>1. d >= req[r].from <=> req[r].from <= d
        BY <2>4 DEF Dates, NavAssumption
      <4> QED BY <2>1, <3>1, <4>1 DEF Flagged
    <3>2. CASE Stands(req[r], d)
      BY <2>1, <2>2, <3>2 DEF Stands
    <3> QED BY <2>5, <3>1, <3>2 DEF ShownFor, Fits
  <2>6. ShownFor(r)'
    BY <2>1, <2>5 DEF ShownFor, Fits
  <2> QED BY <2>3, <2>6
<1> QED BY <1>1, <1>2, <1>3

\* What any step, of any client, shows.
LEMMA ShownLastKept ==
    ASSUME NavAssumption, NavInv, ShownLast, [Next]_vars
    PROVE  ShownLast'
<1> USE DEF NavInv
<1>1. CASE UNCHANGED <<snaps, shown>>
  BY <1>1 DEF ShownLast
<1>2. CASE snaps' = [d \in Dates |-> NoSnap] /\ UNCHANGED shown
  BY <1>2 DEF ShownLast, NoSnap
<1>3. ASSUME NEW r \in Requests, Save(r)
      PROVE  ShownLast'
  <2>0. PICK c \in req[r].todo : SaveDate(r, c)
    BY <1>3 DEF Save
  <2> DEFINE snap == SnapshotOf(req[r].ledger, req[r].bars, c)
  <2>1. \/ /\ snaps' = [snaps EXCEPT ![c] = snap]
           /\ shown' = (IF snap.official THEN [shown EXCEPT ![c] = snap] ELSE shown)
        \/ UNCHANGED <<snaps, shown>>
    BY <2>0 DEF SaveDate
  <2> HIDE DEF snap
  <2> QED BY <2>1 DEF ShownLast, TypeOK
<1>4. CASE UNCHANGED vars
  BY <1>1, <1>4 DEF vars, tables
<1>5. ASSUME NEW r \in Requests, Begin(r) \/ Continue(r) \/ Crash(r), ~Save(r)
      PROVE  \/ UNCHANGED <<snaps, shown>>
             \/ snaps' = [d \in Dates |-> NoSnap] /\ UNCHANGED shown
  BY <1>5 DEF Begin, BeginAppend, Correct, BeginSync, Lock, Resolve, Continue, InsertEvent,
              Check, Mark, Clear, Fetch, ReadHistories, Wipe, Restate, Crash, tables
<1> QED BY <1>1, <1>2, <1>3, <1>4, <1>5 DEF Next

LEMMA ClientsAreRequests == OneClient \subseteq Requests
BY SomeRequest DEF OneClient

LEMMA ClientInitial ==
    ASSUME ClientInit
    PROVE  ClientInv
<1>1. NavInv
  BY InitNav, NavAssumption DEF ClientInit
<1>2. ShownLast
  BY DEF ClientInit, Init, ShownLast, NoSnap
<1>3. ASSUME NEW r \in Requests
      PROVE  DerivesFor(r) /\ ShownFor(r)
  <2>1. req[r] = Idle /\ req[r].pc = "idle"
    BY DEF ClientInit, Init, Idle, At
  <2>2. Follows
    <3>1. {} \in Windows(ledger, market)
      <4>1. Cardinality({}) = 0
        BY FS_EmptySet
      <4>2. market = {} /\ HistoryLimit \in Nat
        BY NavAssumption DEF ClientInit, Init, NavAssumption
      <4> QED BY <4>1, <4>2 DEF Windows
    <3>2. snaps = Derived(ledger, {})
      BY DEF ClientInit, Init, Derived, MarketDates
    <3> QED BY <3>1, <3>2 DEF Follows
  <2>3. DerivesFor(r)
    BY <2>1, <2>2 DEF DerivesFor
  <2>4. ShownFor(r)
    BY DEF ClientInit, Init, ShownFor, SymbolsOf, NoSnap
  <2> QED BY <2>3, <2>4
<1> QED BY <1>1, <1>2, <1>3, ClientsAreRequests DEF ClientInv, ClientInit

\* A step of the clients is a step of NavBook; without a crash it is one of the only
\* client there is.
LEMMA ClientStep ==
    ASSUME ClientInv, [ClientNext]_<<vars, clients>>
    PROVE  ClientInv'
<1> USE DEF ClientInv
<1>1. [Next]_vars /\ clients' = clients
  BY ClientsAreRequests DEF ClientNext, Next
<1>2. NavInv'
  BY <1>1, NavStep
<1>3. ShownLast'
  BY <1>1, NavAssumption, ShownLastKept
<1>4. ASSUME Undisturbed', NEW r \in clients
      PROVE  DerivesFor(r)' /\ ShownFor(r)'
  <2>1. clients = {r} /\ r \in Requests
    BY <1>1, <1>4, ClientsAreRequests DEF Undisturbed, Alone, OneClient
  <2>2. ASSUME Crash(r)
        PROVE  FALSE
    BY <1>4, <2>2 DEF Crash, Undisturbed, NavInv, TypeOK, NavAssumption
  <2>3. crashes = 0 \/ Crash(r)
    <3>1. Begin(r) => crashes' = crashes
      BY DEF Begin, BeginAppend, Correct, BeginSync, Lock, Resolve
    <3>2. Continue(r) => crashes' = crashes
      BY DEF Continue, InsertEvent, Check, Mark, Clear, Fetch, ReadHistories, Wipe, Save, SaveDate, Restate
    <3> QED BY <1>4, <2>1, <3>1, <3>2 DEF ClientNext, vars, Undisturbed
  <2>4. DerivesFor(r) /\ ShownFor(r)
    BY <1>1, <1>4, <2>2, <2>3 DEF Undisturbed, Alone
  <2>5. CASE Begin(r)
    BY <2>1, <2>4, <2>5, NavAssumption, AppendFollows, CorrectionFollows, RebuildFollows,
       ControlFollows DEF Begin
  <2>6. CASE Continue(r)
    BY <2>1, <2>4, <2>6, NavAssumption, AppendFollows, CorrectionFollows, RebuildFollows,
       SaveFollows, ControlFollows DEF Continue
  <2>7. CASE UNCHANGED <<vars, clients>>
    BY <2>4, <2>7 DEF vars, tables, DerivesFor, Follows, ShownFor, Fits, Flagged, Stands, HasSnap, Published
  <2> QED BY <2>1, <2>2, <2>5, <2>6, <2>7 DEF ClientNext
<1>5. clients' \in {OneClient', Requests}
  BY <1>1 DEF OneClient
<1> QED BY <1>1, <1>2, <1>3, <1>4, <1>5

THEOREM ClientInvariant == ClientSpec => []ClientInv
<1>1. ClientInit => ClientInv
  BY ClientInitial
<1>2. ClientInv /\ [ClientNext]_<<vars, clients>> => ClientInv'
  BY ClientStep
<1> QED BY <1>1, <1>2, PTL DEF ClientSpec

\* Between the requests of one client the whole history is what its ledger and the
\* newest bars a rebuild may read give, whatever it recorded, corrected, synced and locked before.
THEOREM HistoryFollows == ClientSpec => []FollowsForOneClient
<1>1. ClientInv => FollowsForOneClient
  <2> SUFFICES ASSUME ClientInv, Undisturbed, Quiet
               PROVE  Follows
    BY DEF FollowsForOneClient, SnapshotsFollowLedger
  <2>1. PICK r \in Requests : r \in clients
    BY SomeRequest DEF Undisturbed, Alone, OneClient
  <2>2. DerivesFor(r) /\ req[r].pc = "idle"
    BY <2>1 DEF ClientInv, Quiet, Idle, At
  <2> QED BY <2>2 DEF DerivesFor
<1> QED BY <1>1, ClientInvariant, PTL

\* A rebuild that one client runs shows another NAV than before only for dates marked
\* for restatement.
LEMMA SaveFlagged ==
    ASSUME ClientInv, Fits, NEW r \in Requests, DerivesFor(r), ShownFor(r), Save(r)
    PROVE  HistoricalFlags
<1>0. PICK c \in req[r].todo : SaveDate(r, c)
  BY DEF Save
<1> DEFINE snap == SnapshotOf(ledger, req[r].bars, c)
<1>1. /\ req[r].pc = "save" /\ req[r].ledger = ledger
      /\ req[r].todo # {}
  BY <1>0 DEF SaveDate, DerivesFor, ClientInv, NavInv, RebuildsSound
<1>2. \/ shown' = [shown EXCEPT ![c] = snap] /\ snap.official
      \/ UNCHANGED shown
  BY <1>0, <1>1 DEF SaveDate
<1>3. snap = [events |-> Until(ledger, c), official |-> snap.official] /\ snap.official \in BOOLEAN
  BY DEF SnapshotOf, Exact
<1> HIDE DEF snap
<1> SUFFICES ASSUME NEW d \in Dates, SymbolsOf(shown[d].events) # {}, shown'[d] # shown[d]
             PROVE  control[d] \in {"RESTATEMENT_REQUIRED", "RESTATED"}
  BY DEF HistoricalFlags
<1>4. shown \in [Dates -> Snapshot]
  BY DEF ClientInv, NavInv, TypeOK
<1>5. d = c /\ shown'[d] = snap /\ snap.official
  BY <1>2, <1>4
<1>6. shown[d].official /\ shown[d] \in Snapshot
  BY <1>4 DEF ClientInv, ShownLast, NoSnap, SymbolsOf
<1>7. ~Stands(req[r], d)
  <2> SUFFICES ASSUME shown[d].events = Until(ledger, d)
               PROVE  FALSE
    BY <1>1 DEF Stands
  <2> QED BY <1>3, <1>5, <1>6 DEF Snapshot
<1> QED BY <1>1, <1>7 DEF ShownFor, Flagged

\* No published NAV of a date with holdings changes, while the stored bars fit in one
\* rebuild's read, unless the date has been marked for restatement, whatever sequence of recordings, corrections and syncs led there.
THEOREM PublishedChangesFlagged == ClientSpec => FlaggedForOneClient
<1>1. ClientInv /\ ClientInv' /\ [ClientNext]_<<vars, clients>>
        => [(Undisturbed /\ Fits)' => HistoricalFlags]_<<vars, clients>>
  <2> SUFFICES ASSUME ClientInv, ClientNext, Undisturbed', Fits'
               PROVE  HistoricalFlags
    OBVIOUS
  <2>1. PICK r \in clients : Begin(r) \/ Continue(r) \/ Crash(r)
    BY DEF ClientNext
  <2>2. CASE Save(r)
    <3>1. Undisturbed /\ r \in Requests
      BY <2>2, ClientsAreRequests DEF Undisturbed, Alone, OneClient, ClientNext, Save, SaveDate, ClientInv
    <3>2. Fits
      BY <2>2 DEF Save, SaveDate, Fits
    <3> QED BY <2>2, <3>1, <3>2, SaveFlagged DEF ClientInv
  <2>3. CASE ~Save(r)
    <3>1. UNCHANGED shown
      BY <2>1, <2>3 DEF Begin, BeginAppend, Correct, BeginSync, Lock, Resolve, Continue,
         InsertEvent, Check, Mark, Clear, Fetch, ReadHistories, Wipe, Restate, Crash
    <3> QED BY <3>1 DEF HistoricalFlags
  <2> QED BY <2>2, <2>3
<1> QED BY <1>1, ClientInvariant, PTL DEF ClientSpec, FlaggedForOneClient
===============================================================================
