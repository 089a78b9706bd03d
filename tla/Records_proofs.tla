--------------------------- MODULE Records_proofs ---------------------------
(***************************************************************************)
(* The records together.  No component reads a variable of another, so     *)
(* what is proved of one alone holds of it here: every behaviour of        *)
(* RecordsSpec is one of the component's specification.                    *)
(***************************************************************************)
EXTENDS Records, FiniteSetTheorems, SequenceTheorems, WellFoundedInduction, TLAPS

\* A non-empty set of natural numbers has a least element.
LEMMA LeastElement ==
    ASSUME NEW K \in SUBSET Nat, K # {}
    PROVE  \E k \in K : \A j \in K : k <= j
<1>1. \E x \in K : \A y \in K : ~(<<y, x>> \in OpToRel(<, Nat))
  BY WFMin, NatLessThanWellFounded, Zenon
<1>2. PICK x \in K : \A y \in K : ~(y < x)
  <2>1. PICK x \in K : \A y \in K : ~(<<y, x>> \in OpToRel(<, Nat))
    BY <1>1
  <2>2. \A y \in K : ~(y < x)
    BY <2>1 DEF OpToRel
  <2> QED BY <2>2
<1> QED BY <1>2

LEMMA ClientsFixed == RecordsSpec => [](clients \subseteq Requests)
<1>1. RecordsInit => clients \subseteq Requests
  BY DEF RecordsInit
<1>2. clients \subseteq Requests /\ [RecordsNext]_records => (clients \subseteq Requests)'
  BY DEF RecordsNext, records
<1> QED BY <1>1, <1>2, PTL DEF RecordsSpec

\* A session serves one block at a time whatever else is going on.
THEOREM SessionsStayApart == RecordsSpec => []SessionsApart
<1>1. Sessions!Spec => []Sessions!SessionsApart
  BY PoolFits, Sessions!SessionsStayApart
<1>2. RecordsInit => Sessions!Init
  BY DEF RecordsInit
<1>3. [RecordsNext]_records => [Sessions!Next]_Sessions!vars
  BY DEF RecordsNext, records, sessions, Sessions!vars, WriteLog, ImportOpening, Administer, Connect, SyncMarket, ShowDividends, Trade, Reconcile
<1>4. Sessions!SessionsApart => SessionsApart
  BY DEF SessionsApart
<1> QED BY <1>1, <1>2, <1>3, <1>4, PTL DEF RecordsSpec, Sessions!Spec

\* A listed portfolio has its tables, and first requests that race agree on one
\* default portfolio.
THEOREM RegistrySafe == RecordsSpec => []RegistryInv
<1>1. Registry!Spec => []Registry!RegistryInv
  BY RegistryFits, Registry!RegistrySafe
<1>2. RecordsInit => Registry!Init
  BY DEF RecordsInit
<1>3. clients \subseteq Requests /\ [RecordsNext]_records => [Registry!Next]_Registry!vars
  BY DEF RecordsNext, records, registry, Registry!vars, Registry!Next, WriteLog, ImportOpening, Administer, Connect, SyncMarket, ShowDividends, Trade, Reconcile
<1>4. Registry!RegistryInv => RegistryInv
  BY DEF RegistryInv
<1> QED BY <1>1, <1>2, <1>3, <1>4, ClientsFixed, PTL DEF RecordsSpec, Registry!Spec
-------------------------------------------------------------------------------
(* The log.  The lock makes the tail a writer has read the tail it chains to; *)
(* a repair reads a log nobody else is writing.                              *)

States == {Idle} \cup Inserting \cup Repairing \cup Anchoring

\* A row was hashed over the content it was written with, or vouched for with, and
\* only the anchor has the anchor's key.
Hashed(log, texts, i) ==
    /\ log[i].digest = Hash(log[i].prev, texts[i])
    /\ log[i].anchor <=> log[i].key = AnchorKey

\* It is hashed over the row before it, unless it is the first row or an anchor.
Linked(log, i) == log[i].prev = IF i = 1 \/ log[i].anchor THEN <<>> ELSE log[i - 1].digest

OneAnchor == \A i, j \in DOMAIN rows : rows[i].anchor /\ rows[j].anchor => i = j

\* Only the holder of the lock is inserting, and it has read the present tail.
Writers ==
    \A r \in Requests : req[r].pc = "insert" => lock = r /\ req[r].prev = TailHash(rows)

\* Only a client that is alone repairs, and it has read all the rows.
Repairers ==
    \A r \in Requests : req[r].pc = "repair" =>
      /\ clients = {r}
      /\ req[r].upto = Len(rows) /\ req[r].from \in 1 .. Len(rows)

\* Nobody has edited the log, so nobody anchors it.
Untouched ==
    /\ \A i \in DOMAIN rows : rows[i].content = written[i] /\ ~rows[i].anchor
    /\ \A r \in Requests : req[r].pc # "anchor"

\* A repair of an edited log links an anchor to the row before it.
ChainInv ==
    /\ TypeOK /\ clients \subseteq Requests
    /\ Writers /\ Repairers /\ OneAnchor
    /\ \A i \in DOMAIN rows : Hashed(rows, written, i)
    /\ edits = 0 \/ ~Alone => \A i \in DOMAIN rows : Linked(rows, i)
    /\ edits = 0 => Untouched

LEMMA TailHashType == \A log \in Seq(Row) : TailHash(log) \in Seq(AllContents)
<1> SUFFICES ASSUME NEW log \in Seq(Row) PROVE TailHash(log) \in Seq(AllContents)
  OBVIOUS
<1>1. CASE log = <<>>
  BY <1>1 DEF TailHash
<1>2. CASE log # <<>>
  <2>1. Len(log) \in 1 .. Len(log)
    BY <1>2
  <2>2. log[Len(log)] \in Row
    BY <2>1
  <2> QED BY <1>2, <2>2 DEF TailHash, Row
<1> QED BY <1>1, <1>2

\* A hash tells the content it was made from.
LEMMA HashInjective ==
    ASSUME NEW p \in Seq(AllContents), NEW c \in AllContents, NEW d \in AllContents,
           Hash(p, c) = Hash(p, d)
    PROVE  c = d
<1>1. Append(p, c)[Len(p) + 1] = c  OBVIOUS
<1>2. Append(p, d)[Len(p) + 1] = d  OBVIOUS
<1> QED BY <1>1, <1>2 DEF Hash

\* Rehashing computes one hash from the one before it.
LEMMA HashUpTo ==
    ASSUME NEW base \in Seq(AllContents), NEW said \in Seq(AllContents),
           NEW from \in 1 .. Len(said), NEW i \in from .. Len(said)
    PROVE  /\ base \o SubSeq(said, from, i) \in Seq(AllContents)
           /\ base \o SubSeq(said, from, i - 1) \in Seq(AllContents)
           /\ base \o SubSeq(said, from, i) = Append(base \o SubSeq(said, from, i - 1), said[i])
           /\ base \o SubSeq(said, from, from - 1) = base
<1>1. Len(said) \in Nat /\ \A k \in 1 .. Len(said) : said[k] \in AllContents
  OBVIOUS
<1>2. /\ SubSeq(said, from, i) \in Seq(AllContents) /\ SubSeq(said, from, i - 1) \in Seq(AllContents)
      /\ <<said[i]>> \in Seq(AllContents)
  BY <1>1, SubSeqProperties
<1>3. SubSeq(said, from, i) = SubSeq(said, from, i - 1) \o <<said[i]>>
  BY SubSeqRecursiveSecond
<1>4. base \o SubSeq(said, from, i - 1) \in Seq(AllContents) /\ base \o SubSeq(said, from, i) \in Seq(AllContents)
  BY <1>2, ConcatProperties
<1>5. base \o SubSeq(said, from, i) = (base \o SubSeq(said, from, i - 1)) \o <<said[i]>>
  BY <1>2, <1>3, ConcatAssociative
<1>6. Append(base \o SubSeq(said, from, i - 1), said[i]) = (base \o SubSeq(said, from, i - 1)) \o <<said[i]>>
  BY <1>1, <1>4, AppendIsConcat
<1>7. SubSeq(said, from, from - 1) = <<>>
  BY <1>1, SubSeqEmpty
<1>8. base \o <<>> = base
  BY ConcatEmptySeq
<1> QED BY <1>4, <1>5, <1>6, <1>7, <1>8

\* A repair leaves the rows before it, rehashes the others over their content and
\* over the row before, and changes nothing else of them.
LEMMA RehashedRows ==
    ASSUME rows \in Seq(Row), NEW from \in 1 .. Len(rows), NEW log, log = Rehashed(from, Len(rows))
    PROVE  /\ log \in Seq(Row) /\ Len(log) = Len(rows)
           /\ \A i \in 1 .. Len(rows) :
                /\ log[i].content = rows[i].content /\ log[i].key = rows[i].key
                /\ log[i].anchor = rows[i].anchor
                /\ i < from => log[i] = rows[i]
                /\ i >= from => /\ log[i].prev = IF i = 1 THEN <<>> ELSE log[i - 1].digest
                                /\ log[i].digest = Hash(log[i].prev, rows[i].content)
<1> DEFINE said == [i \in DOMAIN rows |-> rows[i].content]
           base == IF from = 1 THEN <<>> ELSE rows[from - 1].digest
           hash(i) == base \o SubSeq(said, from, i)
<1>1. /\ Len(rows) \in Nat /\ DOMAIN rows = 1 .. Len(rows)
      /\ \A i \in 1 .. Len(rows) : rows[i] \in Row
  OBVIOUS
<1>2. said \in Seq(AllContents) /\ Len(said) = Len(rows) /\ \A i \in 1 .. Len(rows) : said[i] = rows[i].content
  BY <1>1 DEF Row
<1>3. base \in Seq(AllContents)
  <2>1. from # 1 => from - 1 \in 1 .. Len(rows)
    BY <1>1
  <2>2. from # 1 => rows[from - 1].digest \in Seq(AllContents)
    BY <1>1, <2>1 DEF Row
  <2> QED BY <2>2
<1>4. log = [i \in 1 .. Len(rows) |-> IF i \in from .. Len(rows)
                                      THEN [rows[i] EXCEPT !.prev = hash(i - 1), !.digest = hash(i)]
                                      ELSE rows[i]]
  BY <1>1 DEF Rehashed, RehashedOver
<1> HIDE DEF said, base
<1>5. ASSUME NEW i \in from .. Len(rows)
      PROVE  /\ hash(i - 1) \in Seq(AllContents) /\ hash(i) \in Seq(AllContents)
             /\ hash(i) = Hash(hash(i - 1), rows[i].content)
             /\ hash(from - 1) = base
  <2>1. i \in from .. Len(said) /\ from \in 1 .. Len(said) /\ i \in 1 .. Len(rows)
    BY <1>1, <1>2
  <2>2. hash(i) = Append(hash(i - 1), said[i]) /\ hash(i - 1) \in Seq(AllContents)
        /\ hash(i) \in Seq(AllContents) /\ hash(from - 1) = base
    BY <2>1, <1>2, <1>3, HashUpTo
  <2> HIDE DEF hash
  <2> QED BY <2>1, <2>2, <1>2 DEF Hash
<1> HIDE DEF hash
<1>6. ASSUME NEW i \in 1 .. Len(rows)
      PROVE  /\ log[i] \in Row
             /\ log[i].content = rows[i].content /\ log[i].key = rows[i].key
             /\ log[i].anchor = rows[i].anchor
             /\ i < from => log[i] = rows[i]
             /\ i >= from => log[i].prev = hash(i - 1) /\ log[i].digest = hash(i)
  <2>1. CASE i < from
    <3>1. i \notin from .. Len(rows)
      BY <2>1
    <3>2. log[i] = rows[i]
      BY <1>4, <3>1
    <3> QED BY <1>1, <2>1, <3>2
  <2>2. CASE i >= from
    <3>1. i \in from .. Len(rows) /\ rows[i] \in Row
      BY <1>1, <2>2
    <3>2. hash(i - 1) \in Seq(AllContents) /\ hash(i) \in Seq(AllContents)
      BY <1>5, <3>1
    <3>3. log[i] = [rows[i] EXCEPT !.prev = hash(i - 1), !.digest = hash(i)]
      BY <1>4, <3>1
    <3>4. ~(i < from)
      BY <3>1
    <3> QED BY <3>1, <3>2, <3>3, <3>4 DEF Row
  <2> QED BY <2>1, <2>2
<1>7. log \in [1 .. Len(rows) -> Row]
  BY <1>4, <1>6
<1>8. log \in Seq(Row) /\ Len(log) = Len(rows)
  BY <1>1, <1>7
<1>9. ASSUME NEW i \in 1 .. Len(rows), i >= from
      PROVE  /\ log[i].prev = IF i = 1 THEN <<>> ELSE log[i - 1].digest
             /\ log[i].digest = Hash(log[i].prev, rows[i].content)
  <2>1. log[i].prev = hash(i - 1) /\ log[i].digest = hash(i) /\ hash(i) = Hash(hash(i - 1), rows[i].content)
    BY <1>5, <1>6, <1>9
  <2>2. CASE i = from
    <3>1. hash(i - 1) = base
      BY <1>5, <2>2
    <3>2. i # 1 => i - 1 \in 1 .. Len(rows) /\ i - 1 < from
      BY <1>1, <2>2
    <3>3. i # 1 => log[i - 1] = rows[i - 1]
      BY <1>6, <3>2
    <3> QED BY <2>1, <2>2, <3>1, <3>3 DEF base
  <2>3. CASE i > from
    <3>1. i # 1 /\ i - 1 \in 1 .. Len(rows) /\ i - 1 >= from
      BY <1>1, <2>3
    <3> QED BY <2>1, <3>1, <1>6
  <2> QED BY <1>9, <2>2, <2>3
<1> QED BY <1>6, <1>8, <1>9

\* A request that stops, or starts something that touches no row, disturbs nothing.
LEMMA RequestOnly ==
    ASSUME ChainInv, NEW r \in clients, NEW state \in States, Goto(r, state),
           UNCHANGED <<clients, rows, written, edits>>,
           lock' \in Requests \cup {Nobody}, answer' \in {"none", "VERIFIED", "VERIFIED_FROM_ANCHOR", "BROKEN"},
           crashes' \in 0 .. MaxCrashes,
           lock' = lock \/ lock = r \/ lock = Nobody,
           state.pc = "insert" => lock' = r /\ state.prev = TailHash(rows),
           \A q \in Requests \ {r} : lock = q => lock' = q,
           state.pc = "repair" => clients = {r} /\ state.upto = Len(rows) /\ state.from \in 1 .. Len(rows),
           state.pc = "anchor" => edits # 0
    PROVE  ChainInv'
<1>1. /\ r \in Requests /\ req \in [Requests -> States] /\ req' = [req EXCEPT ![r] = state]
      /\ rows' = rows /\ written' = written /\ edits' = edits /\ clients' = clients
  BY DEF ChainInv, TypeOK, States, Goto
<1>2. req' \in [Requests -> States] /\ req'[r] = state /\ \A q \in Requests \ {r} : req'[q] = req[q]
  BY <1>1
<1>3. TypeOK'
  BY <1>1, <1>2 DEF ChainInv, TypeOK, States
<1>4. Writers'
  BY <1>1, <1>2 DEF ChainInv, Writers, TailHash
<1>5. Repairers'
  BY <1>1, <1>2 DEF ChainInv, Repairers
<1>6. edits' = 0 => Untouched'
  BY <1>1, <1>2 DEF ChainInv, Untouched
<1>7. OneAnchor' /\ (\A i \in DOMAIN rows' : Hashed(rows', written', i))
  BY <1>1 DEF ChainInv, OneAnchor
<1>8. edits' = 0 \/ ~Alone' => \A i \in DOMAIN rows' : Linked(rows', i)
  BY <1>1 DEF ChainInv, Alone
<1>9. clients' \subseteq Requests
  BY <1>1 DEF ChainInv
<1> QED BY <1>3, <1>4, <1>5, <1>6, <1>7, <1>8, <1>9 DEF ChainInv

\* What the two inserting steps share: a row that chains to the tail keeps the log
\* linked.
LEMMA AppendRow ==
    ASSUME ChainInv, NEW r \in clients, req[r].pc \in {"insert", "anchor"}, Goto(r, Idle),
           NEW row \in Row, NEW c \in AllContents,
           rows' = Append(rows, row), written' = Append(written, c),
           UNCHANGED <<clients, edits, crashes>>,
           lock \in {r, Nobody}, lock' = Nobody,
           answer' \in {"none", "VERIFIED", "VERIFIED_FROM_ANCHOR", "BROKEN"},
           row.digest = Hash(row.prev, c),
           row.prev = IF row.anchor THEN <<>> ELSE TailHash(rows),
           row.anchor <=> row.key = AnchorKey,
           row.anchor => ~HasKey(AnchorKey),
           edits = 0 => row.content = c /\ ~row.anchor
    PROVE  ChainInv'
<1>1. /\ rows \in Seq(Row) /\ written \in Seq(AllContents) /\ Len(written) = Len(rows)
      /\ r \in Requests /\ req \in [Requests -> States]
      /\ OneAnchor /\ \A i \in DOMAIN rows : Hashed(rows, written, i)
  BY DEF ChainInv, TypeOK, States
<1>2. /\ rows' \in Seq(Row) /\ written' \in Seq(AllContents) /\ Len(written') = Len(rows')
      /\ Len(rows') = Len(rows) + 1
  BY <1>1
<1>3. /\ \A i \in DOMAIN rows : rows'[i] = rows[i] /\ written'[i] = written[i]
      /\ rows'[Len(rows) + 1] = row /\ written'[Len(rows) + 1] = c
  BY <1>1
<1>4. DOMAIN rows' = DOMAIN rows \cup {Len(rows) + 1} /\ DOMAIN rows = 1 .. Len(rows)
  BY <1>1, <1>2
<1>5. /\ req' \in [Requests -> States] /\ req'[r] = Idle
      /\ \A q \in Requests \ {r} : req'[q] = req[q]
  BY <1>1 DEF Goto, States
<1>6. TypeOK'
  BY <1>1, <1>2, <1>5 DEF ChainInv, TypeOK, States
<1>7. Writers'
  <2>1. \A q \in Requests : req'[q].pc # "insert"
    <3>1. \A q \in Requests \ {r} : req[q].pc # "insert"
      BY ChainAssumption DEF ChainAssumption, ChainInv, Writers
    <3> QED BY <3>1, <1>5 DEF Idle
  <2> QED BY <2>1 DEF Writers
<1>8. Repairers'
  <2>1. \A q \in Requests : req'[q].pc # "repair"
    <3>1. \A q \in Requests \ {r} : req[q].pc # "repair"
      BY DEF ChainInv, Repairers
    <3> QED BY <3>1, <1>5 DEF Idle
  <2> QED BY <2>1 DEF Repairers
<1>9. OneAnchor'
  <2>1. \A i \in DOMAIN rows : row.anchor => ~rows[i].anchor
    BY <1>1 DEF Hashed, HasKey
  <2> QED BY <2>1, <1>1, <1>3, <1>4 DEF OneAnchor
<1>10. \A i \in DOMAIN rows' : Hashed(rows', written', i)
  BY <1>1, <1>3, <1>4 DEF Hashed
<1>11. ASSUME \A i \in DOMAIN rows : Linked(rows, i), NEW i \in DOMAIN rows' PROVE Linked(rows', i)
  <2>1. CASE i \in DOMAIN rows
    <3>1. i = 1 \/ i - 1 \in DOMAIN rows  BY <1>4, <2>1
    <3> QED BY <2>1, <3>1, <1>11, <1>3 DEF Linked
  <2>2. CASE i = Len(rows) + 1
    <3>1. i # 1 => i - 1 \in DOMAIN rows /\ TailHash(rows) = rows[i - 1].digest
      BY <2>2, <1>1, <1>4 DEF TailHash
    <3>2. i = 1 => TailHash(rows) = <<>>
      BY <2>2, <1>1, <1>4 DEF TailHash
    <3> QED BY <2>2, <3>1, <3>2, <1>3 DEF Linked
  <2> QED BY <2>1, <2>2, <1>4
<1>12. edits' = 0 \/ ~Alone' => \A i \in DOMAIN rows' : Linked(rows', i)
  BY <1>11 DEF ChainInv, Alone
<1>13. edits' = 0 => Untouched'
  <2> SUFFICES ASSUME edits = 0 PROVE Untouched'
    OBVIOUS
  <2>1. \A i \in DOMAIN rows' : rows'[i].content = written'[i] /\ ~rows'[i].anchor
    BY <1>3, <1>4 DEF ChainInv, Untouched
  <2>2. \A q \in Requests : req'[q].pc # "anchor"
    BY <1>5 DEF ChainInv, Untouched, Idle
  <2> QED BY <2>1, <2>2 DEF Untouched
<1>14. clients' \subseteq Requests
  BY DEF ChainInv
<1> QED BY <1>6, <1>7, <1>8, <1>9, <1>10, <1>12, <1>13, <1>14 DEF ChainInv

LEMMA StatusType == \A log : Status(log) \in {"none", "VERIFIED", "VERIFIED_FROM_ANCHOR", "BROKEN"}
  BY DEF Status

\* A row the links are good of is where verification expects it to be.
LEMMA LinkedIsPrev ==
    ASSUME ChainInv, \A i \in DOMAIN rows : Linked(rows, i), NEW i \in Verified(rows)
    PROVE  rows[i].prev = PrevOf(rows, i)
<1>1. /\ rows \in Seq(Row) /\ i \in DOMAIN rows /\ DOMAIN rows = 1 .. Len(rows) /\ Linked(rows, i)
      /\ OneAnchor
  BY DEF ChainInv, TypeOK, Verified
<1>2. CASE IsFirst(rows, i)
  BY <1>1, <1>2 DEF IsFirst, PrevOf, Linked, Anchors
<1>3. CASE ~IsFirst(rows, i)
  <2>1. i # 1
    BY <1>1, <1>3 DEF IsFirst, Verified, Anchors, OneAnchor
  <2>2. ~rows[i].anchor
    BY <1>1, <1>3 DEF IsFirst, Anchors, OneAnchor
  <2> QED BY <2>1, <2>2, <1>3, <1>1 DEF PrevOf, Linked
<1> QED BY <1>2, <1>3

LEMMA UneditedIsVerified == ASSUME ChainInv, edits = 0 PROVE Status(rows) = "VERIFIED"
<1>1. ASSUME NEW i \in Verified(rows) PROVE Chained(rows, i)
  <2>1. i \in DOMAIN rows /\ rows[i].prev = PrevOf(rows, i)
    BY LinkedIsPrev DEF ChainInv, Verified
  <2>2. rows[i].digest = Hash(rows[i].prev, rows[i].content)
    BY <2>1 DEF ChainInv, Hashed, Untouched
  <2> QED BY <2>1, <2>2 DEF Chained
<1>2. Anchors(rows) = {}
  BY DEF Anchors, Untouched, ChainInv
<1> QED BY <1>1, <1>2 DEF Status, Intact

LEMMA WorkKeeps == ASSUME ChainInv, NEW r \in clients, Work(r), clients' = clients PROVE ChainInv'
<1>1. /\ r \in Requests /\ req \in [Requests -> States] /\ rows \in Seq(Row)
      /\ lock \in Requests \cup {Nobody} /\ crashes \in 0 .. MaxCrashes
      /\ answer \in {"none", "VERIFIED", "VERIFIED_FROM_ANCHOR", "BROKEN"}
  BY DEF ChainInv, TypeOK, States
<1>2. ASSUME NEW c \in Contents, NEW k \in ExportKeys \cup {NoKey}, BeginAppend(r, c, k)
      PROVE  ChainInv'
  <2> DEFINE state == [pc |-> "insert", content |-> c, key |-> k, prev |-> TailHash(rows)]
  <2>1. TailHash(rows) \in Seq(AllContents)
    BY <1>1, TailHashType
  <2>2. state \in States /\ state.pc = "insert" /\ state.prev = TailHash(rows)
    BY <2>1 DEF States, Inserting
  <2> HIDE DEF state
  <2>3. Goto(r, state) /\ lock = Nobody /\ lock' = r /\ UNCHANGED <<rows, written, edits, answer, crashes>>
    BY <1>2 DEF BeginAppend, state
  <2> QED BY <1>1, <2>2, <2>3, RequestOnly, ChainAssumption DEF ChainAssumption
<1>3. CASE CommitAppend(r)
  <2> DEFINE row == [content |-> req[r].content, key |-> req[r].key, prev |-> req[r].prev,
                     digest |-> Hash(req[r].prev, req[r].content), anchor |-> FALSE]
  <2>1. req[r] \in Inserting
    BY <1>1, <1>3 DEF CommitAppend, States, Idle, Anchoring, Repairing, Inserting
  <2>2. /\ row \in Row /\ req[r].content \in AllContents /\ req[r].content = row.content
        /\ row.prev = TailHash(rows) /\ row.key # AnchorKey
        /\ row.digest = Hash(row.prev, row.content) /\ row.anchor = FALSE
        /\ lock = r
    BY <1>1, <1>3, <2>1, ChainAssumption
       DEF CommitAppend, Row, Inserting, Hash, ChainInv, Writers, ChainAssumption, AllContents
  <2>3. rows' = Append(rows, row) /\ written' = Append(written, row.content)
    BY <1>3, <2>2 DEF CommitAppend
  <2> HIDE DEF row
  <2>4. /\ req[r].pc \in {"insert", "anchor"} /\ Goto(r, Idle) /\ lock' = Nobody
        /\ UNCHANGED <<answer, edits, crashes>>
    BY <1>3 DEF CommitAppend
  <2> QED BY <1>1, <2>2, <2>3, <2>4, AppendRow
<1>4. CASE BeginReanchor(r)
  <2>1. answer' = Status(rows) /\ UNCHANGED <<rows, lock, written, edits, crashes>>
    BY <1>4 DEF BeginReanchor
  <2>2. CASE Status(rows) = "BROKEN"
    <3> DEFINE state == [pc |-> "anchor"]
    <3>1. Goto(r, state) /\ state \in States /\ state.pc = "anchor"
      BY <1>4, <2>2 DEF BeginReanchor, States, Anchoring
    <3> HIDE DEF state
    <3>2. edits # 0
      BY <2>2, UneditedIsVerified
    <3> QED BY <1>1, <2>1, <3>1, <3>2, RequestOnly, StatusType
  <2>3. CASE Status(rows) # "BROKEN"
    <3>1. req' = req
      BY <1>4, <2>3 DEF BeginReanchor
    <3>2. TypeOK'
      BY <2>1, <3>1, StatusType DEF ChainInv, TypeOK
    <3> QED BY <2>1, <3>1, <3>2
            DEF ChainInv, Writers, Repairers, OneAnchor, Untouched, Alone, TailHash
  <2> QED BY <2>2, <2>3
<1>5. CASE CommitReanchor(r)
  <2>1. /\ req[r].pc = "anchor" /\ lock = Nobody /\ lock' = Nobody /\ Goto(r, Idle)
        /\ answer' \in {"none", "VERIFIED", "VERIFIED_FROM_ANCHOR", "BROKEN"}
        /\ UNCHANGED <<edits, crashes>>
    BY <1>5, StatusType DEF CommitReanchor
  <2>2. edits # 0
    BY <1>1, <2>1 DEF ChainInv, Untouched
  <2>3. CASE HasKey(AnchorKey)
    <3>1. UNCHANGED <<rows, written>>
      BY <1>5, <2>3 DEF CommitReanchor
    <3>2. Idle \in States /\ Idle.pc = "idle"
      BY DEF States, Idle
    <3> QED BY <1>1, <2>1, <3>1, <3>2, RequestOnly
  <2>4. CASE ~HasKey(AnchorKey)
    <3>1. /\ AnchorRow \in Row /\ AnchorRow.anchor = TRUE /\ AnchorRow.key = AnchorKey
          /\ AnchorRow.prev = <<>> /\ AnchorRow.digest = Hash(AnchorRow.prev, AnchorContent)
          /\ AnchorContent \in AllContents
      BY DEF AnchorRow, Row, Hash, AllContents
    <3>2. rows' = Append(rows, AnchorRow) /\ written' = Append(written, AnchorContent)
      BY <1>5, <2>4 DEF CommitReanchor
    <3> QED BY <1>1, <2>1, <2>2, <2>4, <3>1, <3>2, AppendRow
  <2> QED BY <2>3, <2>4
<1>6. CASE Crash(r)
  <2>1. /\ Goto(r, Idle) /\ UNCHANGED <<rows, answer, written, edits>>
        /\ lock' = IF lock = r THEN Nobody ELSE lock
        /\ crashes < MaxCrashes /\ crashes' = crashes + 1
    BY <1>6 DEF Crash
  <2>2. crashes' \in 0 .. MaxCrashes
    BY <1>1, <2>1, ChainAssumption DEF ChainAssumption
  <2>3. Idle \in States /\ Idle.pc = "idle"
    BY DEF States, Idle
  <2> QED BY <1>1, <2>1, <2>2, <2>3, RequestOnly
<1> QED BY <1>2, <1>3, <1>4, <1>5, <1>6 DEF Work

LEMMA RepairKeeps ==
    ASSUME ChainInv, NEW r \in clients, Alone, Repair(r), clients' = clients
    PROVE  ChainInv'
<1>1. /\ r \in Requests /\ req \in [Requests -> States] /\ rows \in Seq(Row)
      /\ written \in Seq(AllContents) /\ Len(written) = Len(rows)
      /\ Len(rows) \in Nat /\ DOMAIN rows = 1 .. Len(rows) /\ DOMAIN written = 1 .. Len(rows)
      /\ lock \in Requests \cup {Nobody} /\ crashes \in 0 .. MaxCrashes
      /\ answer \in {"none", "VERIFIED", "VERIFIED_FROM_ANCHOR", "BROKEN"}
      /\ clients = {r}
  BY DEF ChainInv, TypeOK, States, Alone
<1>2. ASSUME NEW from \in DOMAIN rows, BeginRepair(r, from)
      PROVE  ChainInv'
  <2> DEFINE state == [pc |-> "repair", from |-> from, upto |-> Len(rows)]
  <2>1. /\ state \in States /\ state.pc = "repair"
        /\ state.upto = Len(rows) /\ state.from \in 1 .. Len(rows)
    BY <1>1 DEF States, Repairing
  <2> HIDE DEF state
  <2>2. Goto(r, state) /\ UNCHANGED <<rows, lock, answer, written, edits, crashes>>
    BY <1>2 DEF BeginRepair, state
  <2> QED BY <1>1, <2>1, <2>2, RequestOnly
<1>3. CASE CommitRepair(r)
  <2> DEFINE from == req[r].from
  <2>1. /\ req[r].pc = "repair" /\ req[r].upto = Len(rows) /\ from \in 1 .. Len(rows)
        /\ lock = Nobody /\ UNCHANGED <<lock, edits, crashes>> /\ Goto(r, Idle)
        /\ answer' \in {"none", "VERIFIED", "VERIFIED_FROM_ANCHOR", "BROKEN"}
    BY <1>1, <1>3, StatusType DEF CommitRepair, ChainInv, Repairers
  <2>2. /\ rows' = Rehashed(from, Len(rows))
        /\ written' = [i \in DOMAIN rows |-> IF i \in from .. Len(rows) THEN rows[i].content ELSE written[i]]
    BY <1>3, <2>1 DEF CommitRepair
  <2> HIDE DEF from
  <2>3. /\ rows' \in Seq(Row) /\ Len(rows') = Len(rows) /\ DOMAIN rows' = 1 .. Len(rows)
        /\ \A i \in 1 .. Len(rows) :
             /\ rows'[i].content = rows[i].content /\ rows'[i].key = rows[i].key
             /\ rows'[i].anchor = rows[i].anchor
             /\ i < from => rows'[i] = rows[i]
             /\ i >= from => /\ rows'[i].prev = IF i = 1 THEN <<>> ELSE rows'[i - 1].digest
                             /\ rows'[i].digest = Hash(rows'[i].prev, rows[i].content)
    BY <1>1, <2>1, <2>2, RehashedRows
  <2>4. /\ written' \in Seq(AllContents) /\ Len(written') = Len(rows)
        /\ \A i \in 1 .. Len(rows) : written'[i] = IF i >= from THEN rows[i].content ELSE written[i]
    <3>1. \A i \in 1 .. Len(rows) : rows[i].content \in AllContents /\ written[i] \in AllContents
      <4>1. \A i \in 1 .. Len(rows) : rows[i] \in Row
        BY <1>1
      <4>2. \A i \in 1 .. Len(written) : written[i] \in AllContents
        BY <1>1
      <4> QED BY <4>1, <4>2, <1>1 DEF Row
    <3>2. written' \in [1 .. Len(rows) -> AllContents]
      BY <1>1, <2>2, <3>1
    <3>3. \A i \in 1 .. Len(rows) : i \in from .. Len(rows) <=> i >= from
      BY <1>1, <2>1
    <3> QED BY <1>1, <2>2, <3>2, <3>3
  <2>5. req' \in [Requests -> States] /\ req'[r] = Idle /\ \A q \in Requests \ {r} : req'[q] = req[q]
    BY <1>1, <2>1 DEF Goto, States
  <2>6. TypeOK'
    BY <1>1, <2>1, <2>3, <2>4, <2>5 DEF ChainInv, TypeOK, States
  <2>7. Writers'
    <3>1. \A q \in Requests : req[q].pc # "insert"
      BY <2>1, ChainAssumption DEF ChainAssumption, ChainInv, Writers
    <3> QED BY <3>1, <2>5 DEF Writers, Idle
  <2>8. Repairers'
    <3>1. \A q \in Requests \ {r} : req[q].pc # "repair"
      BY DEF ChainInv, Repairers
    <3> QED BY <3>1, <2>5 DEF Repairers, Idle
  <2>9. OneAnchor'
    BY <1>1, <2>3 DEF ChainInv, OneAnchor
  <2>10. \A i \in DOMAIN rows' : Hashed(rows', written', i)
    <3> SUFFICES ASSUME NEW i \in 1 .. Len(rows) PROVE Hashed(rows', written', i)
      BY <2>3
    <3>1. Hashed(rows, written, i)
      BY <1>1 DEF ChainInv
    <3>2. CASE i < from
      <4>1. ~(i >= from)
        BY <2>1, <3>2
      <4>2. rows'[i] = rows[i] /\ written'[i] = written[i]
        BY <2>3, <2>4, <3>2, <4>1
      <4> QED BY <3>1, <4>2 DEF Hashed
    <3>3. CASE i >= from
      BY <2>3, <2>4, <3>1, <3>3 DEF Hashed
    <3> QED BY <2>1, <3>2, <3>3
  <2>11. ASSUME edits = 0, NEW i \in 1 .. Len(rows) PROVE Linked(rows', i)
    <3>1. Linked(rows, i) /\ ~rows'[i].anchor
      BY <1>1, <2>3, <2>11 DEF ChainInv, Untouched
    <3>2. CASE i < from
      <4>1. rows'[i] = rows[i] /\ (i # 1 => rows'[i - 1] = rows[i - 1])
        BY <1>1, <2>1, <2>3, <3>2, SMTT(30)
      <4> QED BY <3>1, <4>1 DEF Linked
    <3>3. CASE i >= from
      BY <2>3, <3>1, <3>3 DEF Linked
    <3> QED BY <1>1, <2>1, <3>2, <3>3
  <2>12. edits' = 0 => Untouched'
    <3> SUFFICES ASSUME edits = 0 PROVE Untouched'
      BY <2>1
    <3>1. Untouched
      BY DEF ChainInv
    <3>2. \A i \in 1 .. Len(rows) : rows'[i].content = written'[i] /\ ~rows'[i].anchor
      BY <1>1, <2>3, <2>4, <3>1 DEF Untouched
    <3>3. \A q \in Requests : req'[q].pc # "anchor"
      BY <2>5, <3>1 DEF Untouched, Idle
    <3> QED BY <2>3, <3>2, <3>3 DEF Untouched
  <2>13. Alone' /\ edits' = edits /\ clients' \subseteq Requests
    BY <2>1 DEF ChainInv, Alone
  <2> QED BY <2>3, <2>6, <2>7, <2>8, <2>9, <2>10, <2>11, <2>12, <2>13 DEF ChainInv
<1> QED BY <1>2, <1>3 DEF Repair

LEMMA EditKeeps == ASSUME ChainInv, Alone => Quiet, Edit, clients' = clients PROVE ChainInv'
<1>1. PICK n \in DOMAIN rows, c \in Contents : EditByHand(n, c)
  BY DEF Edit
<1>2. /\ rows \in Seq(Row) /\ rows' = [rows EXCEPT ![n].content = c]
      /\ UNCHANGED <<lock, req, answer, written, crashes>>
      /\ edits \in 0 .. MaxEdits /\ edits' = edits + 1 /\ edits < MaxEdits
  BY <1>1 DEF EditByHand, ChainInv, TypeOK
<1>3. /\ rows' \in Seq(Row) /\ Len(rows') = Len(rows) /\ DOMAIN rows' = DOMAIN rows
      /\ DOMAIN rows = 1 .. Len(rows)
  <2>1. rows \in [1 .. Len(rows) -> Row] /\ Len(rows) \in Nat
    BY <1>2
  <2>2. rows[n] \in Row /\ [rows[n] EXCEPT !.content = c] \in Row
    BY <2>1 DEF Row, AllContents
  <2>3. rows' \in [1 .. Len(rows) -> Row]
    BY <1>2, <2>1, <2>2
  <2> QED BY <2>1, <2>3
<1>4. \A i \in DOMAIN rows :
        /\ rows'[i].digest = rows[i].digest /\ rows'[i].prev = rows[i].prev
        /\ rows'[i].anchor = rows[i].anchor /\ rows'[i].key = rows[i].key
  BY <1>2 DEF Row
<1>5. TailHash(rows') = TailHash(rows)
  <2>1. rows = <<>> <=> Len(rows) = 0  BY <1>2
  <2>2. rows' = <<>> <=> Len(rows) = 0  BY <1>3
  <2> QED BY <2>1, <2>2, <1>2, <1>3, <1>4 DEF TailHash
<1>6. edits' \in 0 .. MaxEdits /\ edits' # 0
  BY <1>2, ChainAssumption DEF ChainAssumption
<1>7. TypeOK'
  BY <1>2, <1>3, <1>6 DEF ChainInv, TypeOK
<1>8. Writers'
  BY <1>2, <1>5 DEF ChainInv, Writers
<1>9. Repairers'
  BY <1>2, <1>3 DEF ChainInv, Repairers
<1>10. OneAnchor' /\ \A i \in DOMAIN rows' : Hashed(rows', written', i)
  BY <1>2, <1>3, <1>4 DEF ChainInv, OneAnchor, Hashed
<1>11. (\A i \in DOMAIN rows : Linked(rows, i)) => \A i \in DOMAIN rows' : Linked(rows', i)
  <2>1. \A i \in DOMAIN rows : i = 1 \/ i - 1 \in DOMAIN rows
    BY <1>3
  <2> QED BY <2>1, <1>3, <1>4 DEF Linked
<1>12. edits' = 0 \/ ~Alone' => \A i \in DOMAIN rows' : Linked(rows', i)
  BY <1>6, <1>11 DEF ChainInv, Alone
<1>13. clients' \subseteq Requests
  BY DEF ChainInv
<1> QED BY <1>6, <1>7, <1>8, <1>9, <1>10, <1>12, <1>13 DEF ChainInv

\* Appends, crashes, edits by hand, re-anchoring and one client's repairs keep every
\* row hashed over what was written or vouched for.
THEOREM ChainInvariant == RecordsSpec => []ChainInv
<1>1. RecordsInit => ChainInv
  <2> SUFFICES ASSUME Init, clients \subseteq Requests PROVE ChainInv
    BY DEF RecordsInit
  <2>1. /\ rows = <<>> /\ written = <<>> /\ DOMAIN rows = {}
        /\ \A r \in Requests : req[r].pc = "idle"
    BY DEF Init, Idle
  <2>2. TypeOK
    BY ChainAssumption DEF ChainAssumption, Init, TypeOK
  <2> QED BY <2>1, <2>2 DEF ChainInv, Writers, Repairers, OneAnchor, Untouched
<1>2. ChainInv /\ [RecordsNext]_records => ChainInv'
  <2> SUFFICES ASSUME ChainInv, [RecordsNext]_records PROVE ChainInv'
    OBVIOUS
  <2>1. clients' = clients /\ (WriteLog \/ UNCHANGED vars)
    BY DEF RecordsNext, records, ImportOpening, Administer, Connect, SyncMarket, ShowDividends, Trade, Reconcile
  <2>2. CASE WriteLog
    BY <2>1, <2>2, WorkKeeps, RepairKeeps, EditKeeps DEF WriteLog
  <2>3. CASE UNCHANGED vars
    BY <2>1, <2>3 DEF vars, ChainInv, TypeOK, Writers, Repairers, OneAnchor, Untouched, Alone, TailHash
  <2> QED BY <2>1, <2>2, <2>3
<1> QED BY <1>1, <1>2, PTL DEF RecordsSpec

\* An edit by hand of what the chain vouches for breaks it, and a log nobody has
\* edited verifies, whoever writes it, dies or, alone, repairs it.
THEOREM VerdictAlwaysRight == RecordsSpec => []VerdictRight
<1>1. ChainInv => UneditedVerifies
  BY UneditedIsVerified DEF UneditedVerifies, ChainVerifies
<1>2. ChainInv => EditsNoticed
  <2> SUFFICES ASSUME ChainInv, NEW i \in Verified(rows), rows[i].content # written[i], Chained(rows, i)
               PROVE  FALSE
    BY DEF EditsNoticed, Status, Intact
  <2>1. /\ rows \in Seq(Row) /\ written \in Seq(AllContents) /\ i \in 1 .. Len(rows)
        /\ Len(written) = Len(rows) /\ Hashed(rows, written, i)
    BY DEF ChainInv, TypeOK, Verified
  <2>2. /\ rows[i].prev \in Seq(AllContents) /\ rows[i].content \in AllContents
        /\ written[i] \in AllContents
    <3>1. rows[i] \in Row
      BY <2>1
    <3>2. written[i] \in AllContents
      BY <2>1
    <3> QED BY <3>1, <3>2 DEF Row
  <2>3. Hash(rows[i].prev, rows[i].content) = Hash(rows[i].prev, written[i])
    BY <2>1 DEF Hashed, Chained
  <2> QED BY <2>2, <2>3, HashInjective
<1> QED BY <1>1, <1>2, ChainInvariant, PTL DEF VerdictRight

\* The segment a re-anchor starts verifies as long as nobody edits it.
THEOREM NewSegmentAlwaysVerifies == RecordsSpec => []LogInv
<1>1. ChainInv => LogInv
  <2> SUFFICES ASSUME ChainInv, ~Alone, Anchors(rows) # {},
                      \A i \in Verified(rows) : rows[i].content = written[i]
               PROVE  Status(rows) = "VERIFIED_FROM_ANCHOR"
    BY DEF LogInv, NewSegmentVerifies, ChainInv
  <2>1. ASSUME NEW i \in Verified(rows) PROVE Chained(rows, i)
    <3>1. i \in DOMAIN rows /\ rows[i].prev = PrevOf(rows, i)
      BY LinkedIsPrev DEF ChainInv, Verified
    <3>2. rows[i].digest = Hash(rows[i].prev, written[i])
      BY <3>1 DEF ChainInv, Hashed
    <3> QED BY <3>1, <3>2 DEF Chained
  <2> QED BY <2>1 DEF Status, Intact
<1> QED BY <1>1, ChainInvariant, PTL

\* A repair rebases what it has rehashed: from the row it starts at, an unanchored
\* log verifies again.
THEOREM RepairAlwaysRebases == RecordsSpec => RepairRebases
<1> DEFINE Rebases(r) == CommitRepair(r) /\ Anchors(rows) = {} =>
             /\ req[r].from = 1 => Status(rows') = "VERIFIED"
             /\ \A i \in DOMAIN rows' : i >= req[r].from => Chained(rows', i)
<1>1. ASSUME ChainInv, NEW r \in Requests PROVE Rebases(r)
  <2> SUFFICES ASSUME CommitRepair(r), Anchors(rows) = {}
               PROVE  /\ req[r].from = 1 => Status(rows') = "VERIFIED"
                      /\ \A i \in DOMAIN rows' : i >= req[r].from => Chained(rows', i)
    OBVIOUS
  <2> DEFINE from == req[r].from
  <2>1. /\ req[r].upto = Len(rows) /\ from \in 1 .. Len(rows) /\ rows \in Seq(Row)
        /\ rows' = Rehashed(from, Len(rows))
    <3>1. req[r].pc = "repair" /\ rows' = Rehashed(from, req[r].upto)
      BY DEF CommitRepair
    <3>2. req[r].upto = Len(rows) /\ from \in 1 .. Len(rows)
      BY <3>1, <1>1 DEF ChainInv, Repairers
    <3> QED BY <3>1, <3>2, <1>1 DEF ChainInv, TypeOK
  <2> SUFFICES /\ from = 1 => Status(rows') = "VERIFIED"
               /\ \A i \in DOMAIN rows' : i >= from => Chained(rows', i)
    OBVIOUS
  <2> HIDE DEF from
  <2>2. /\ rows' \in Seq(Row) /\ Len(rows') = Len(rows) /\ DOMAIN rows' = 1 .. Len(rows)
        /\ DOMAIN rows = 1 .. Len(rows)
        /\ \A i \in 1 .. Len(rows) :
             /\ rows'[i].content = rows[i].content
             /\ rows'[i].anchor = rows[i].anchor
             /\ i >= from => /\ rows'[i].prev = IF i = 1 THEN <<>> ELSE rows'[i - 1].digest
                             /\ rows'[i].digest = Hash(rows'[i].prev, rows[i].content)
    BY <2>1, RehashedRows
  <2>3. Anchors(rows') = {}
    BY <2>2 DEF Anchors
  <2>4. ASSUME NEW i \in DOMAIN rows', i >= from PROVE Chained(rows', i)
    BY <2>2, <2>3, <2>4 DEF Chained, PrevOf, IsFirst
  <2>5. from = 1 => \A i \in DOMAIN rows' : i >= from
    BY <2>2
  <2>6. Verified(rows') \subseteq DOMAIN rows'
    BY DEF Verified
  <2> QED BY <2>3, <2>4, <2>5, <2>6 DEF Status, Intact
<1>2. ChainInv => [\A r \in Requests : Rebases(r)]_vars
  BY <1>1
<1> QED BY <1>2, ChainInvariant, PTL DEF RepairRebases

-------------------------------------------------------------------------------
(* The imports.  A stored batch names the rows with its key, and what a request  *)
(* remembers of the batches is still there when it answers.                     *)

\* The cardinality of the module instanced is that of the theorems on finite sets.
LEMMA SameCardinality ==
    /\ \A S : Import!Cardinality(S) = Cardinality(S)
    /\ \A S : Import!IsFiniteSet(S) <=> IsFiniteSet(S)
<1>1. ASSUME NEW S PROVE Import!Cardinality(S) = Cardinality(S)
  BY DEF Import!Cardinality, Cardinality
<1>2. ASSUME NEW S PROVE Import!IsFiniteSet(S) <=> IsFiniteSet(S)
  BY DEF Import!IsFiniteSet, IsFiniteSet
<1> QED BY <1>1, <1>2

SentNames == {p.name : p \in Payloads}
ImportedRow == [key : Import!BatchKeys, hash : SentNames, date : 1 .. LastDay]
Imported(k) == {i \in DOMAIN ledger : ledger[i].key = k}

\* A stored batch names the rows with its key, which hold one payload.
BatchSound(b) ==
    /\ b.key \in Import!BatchKeys
    /\ b.ids = Imported(b.key) /\ b.ids # {}
    /\ \A i, j \in b.ids : ledger[i].hash = b.hash /\ ledger[i].date = ledger[j].date
    /\ \E p \in Payloads : /\ b.hash = p.name /\ Import!Cardinality(b.ids) = p.size
                           /\ b.key \in ClientKeys \/ b.key = Import!KeyOf(p, 0)

\* The work of a request is what its client sent.
WorkSound(w) ==
    /\ w.payload \in Payloads /\ w.hash = w.payload.name /\ w.date \in 1 .. LastDay
    /\ w.key \in ClientKeys \/ w.key = Import!KeyOf(w.payload, 0)

\* What a request remembers of the batches is still there when it answers.
RequestSound(r) ==
    /\ importing[r].pc \in {"idle", "boundary", "known", "ready", "open"}
    /\ importing[r].pc # "idle" => WorkSound(importing[r].work)
    /\ importing[r].pc \in {"boundary", "open"} => importing[r].start \in 0 .. LastDay
    /\ importing[r].pc \in {"known", "boundary"} => \E b \in Import!Stored(importing[r].work.key) : b.hash = importing[r].work.hash
    /\ importing[r].pc = "open" => importing[r].stored \subseteq batches

AnswerSound(r) == reported[r].ids = {} \/ reported[r] \in batches

BatchStoreInv ==
    /\ today \in 1 .. LastDay /\ start \in 0 .. LastDay
    /\ ledger \in Seq(ImportedRow)
    /\ \A b \in batches : BatchSound(b)
    /\ \A b, c \in batches : b.key = c.key => b = c
    /\ \A i \in DOMAIN ledger : \E b \in batches : b.key = ledger[i].key

ImportInv ==
    /\ BatchStoreInv
    /\ importing = [r \in Requests |-> importing[r]] /\ reported = [r \in Requests |-> reported[r]]
    /\ \A r \in Requests : RequestSound(r) /\ AnswerSound(r)

-------------------------------------------------------------------------------
LEMMA KeysDistinct ==
    ASSUME Import!ImportConstants
    PROVE  /\ LastDay \in Nat /\ 1 \in 1 .. LastDay /\ 0 \in 0 .. LastDay
           /\ \A p \in Payloads : /\ Import!KeyOf(p, 0) \in Import!BatchKeys /\ \A d \in 1 .. LastDay : Import!KeyOf(p, d) = Import!KeyOf(p, 0)
                                  /\ p.name \in SentNames /\ p.size \in Nat /\ p.size > 0
           /\ ClientKeys \subseteq Import!BatchKeys
<1>1. LastDay \in Nat /\ 1 \in 1 .. LastDay /\ 0 \in 0 .. LastDay
  BY DEF Import!ImportConstants
<1>2. ASSUME NEW p \in Payloads
      PROVE  Import!KeyOf(p, 0) \in Import!BatchKeys /\ \A d \in 1 .. LastDay : Import!KeyOf(p, d) = Import!KeyOf(p, 0)
  BY <1>1 DEF Import!KeyOf, Import!BatchKeys
<1>3. \A p \in Payloads : p.name \in SentNames /\ p.size \in Nat /\ p.size > 0
  BY DEF Import!ImportConstants, SentNames
<1> QED BY <1>1, <1>2, <1>3 DEF Import!BatchKeys

LEMMA ImportStart == Import!ImportConstants /\ Import!Init => ImportInv
<1> SUFFICES ASSUME Import!ImportConstants, Import!Init PROVE ImportInv
  OBVIOUS
<1>1. BatchStoreInv
  BY KeysDistinct DEF Import!Init, BatchStoreInv
<1>2. \A r \in Requests : importing[r] = Import!Idle /\ reported[r] = Import!NoAnswer
  BY DEF Import!Init
<1>3. ASSUME NEW r \in Requests PROVE RequestSound(r) /\ AnswerSound(r)
  <2>a. Import!Idle.pc = "idle" /\ Import!NoAnswer.ids = {}
    BY DEF Import!Idle, Import!NoAnswer
  <2>1. importing[r].pc = "idle" /\ reported[r].ids = {}
    BY <1>2, <2>a
  <2>2. RequestSound(r)
    BY <2>1 DEF RequestSound
  <2>3. AnswerSound(r)
    BY <2>1 DEF AnswerSound
  <2> QED BY <2>2, <2>3
<1> QED BY <1>1, <1>3 DEF ImportInv, Import!Init

\* A step that stores nothing keeps the store, and what the others remember of it.
LEMMA OnlyImporters ==
    ASSUME Import!ImportConstants, ImportInv, UNCHANGED <<ledger, batches>>,
           today' \in 1 .. LastDay, start' \in 0 .. LastDay
    PROVE  BatchStoreInv'
BY DEF ImportInv, BatchStoreInv, BatchSound, Imported

\* One request moves.
LEMMA OneImporter ==
    ASSUME ImportInv, NEW r \in Requests, NEW state, NEW reply,
           batches \subseteq batches', BatchStoreInv',
           importing' = [importing EXCEPT ![r] = state], reported' = [reported EXCEPT ![r] = reply],
           RequestSound(r)', AnswerSound(r)'
    PROVE  ImportInv'
<1>1. ASSUME NEW s \in Requests \ {r} PROVE RequestSound(s)' /\ AnswerSound(s)'
  <2>1. importing'[s] = importing[s] /\ reported'[s] = reported[s]
    BY DEF ImportInv
  <2>2. RequestSound(s) /\ AnswerSound(s)
    BY DEF ImportInv
  <2> QED BY <2>1, <2>2 DEF RequestSound, AnswerSound, Import!Stored
<1>2. importing' = [s \in Requests |-> importing'[s]] /\ reported' = [s \in Requests |-> reported'[s]]
  BY DEF ImportInv
<1> QED BY <1>1, <1>2 DEF ImportInv

\* A step of a request leaves its answer alone.
LEMMA SameAnswer ==
    ASSUME ImportInv, NEW r \in Requests, reported' = reported
    PROVE  reported' = [reported EXCEPT ![r] = reported[r]]
BY DEF ImportInv

-------------------------------------------------------------------------------
LEMMA PrepareKeeps ==
    ASSUME Import!ImportConstants, ImportInv, NEW r \in Requests, NEW p \in Payloads,
           NEW k \in ClientKeys \cup {Import!KeyOf(p, today)}, Import!Prepare(r, p, k)
    PROVE  ImportInv'
<1> DEFINE work == [payload |-> p, key |-> k, date |-> today, hash |-> Import!HashOf(p, today)]
<1>1. today \in 1 .. LastDay
  BY DEF ImportInv, BatchStoreInv
<1>2. WorkSound(work)
  BY <1>1, KeysDistinct DEF WorkSound, Import!HashOf
<1>3. work.key = k
  OBVIOUS
<1> HIDE DEF work
<1>4. UNCHANGED <<today, ledger, batches, start, reported>>
  BY DEF Import!Prepare
<1>5. PICK pc \in {"ready", "known"} :
        /\ importing' = [importing EXCEPT ![r] = [work |-> work, pc |-> pc]]
        /\ pc = "known" => \E b \in Import!Stored(k) : b.hash = work.hash
  BY DEF Import!Prepare, Import!Goto, work
<1> DEFINE state == [work |-> work, pc |-> pc]
<1>6. state.work = work /\ state.pc = pc
  OBVIOUS
<1> HIDE DEF state
<1>7. importing' = [importing EXCEPT ![r] = state]
  BY <1>5 DEF state
<1>8. importing'[r] = state
  BY <1>7 DEF ImportInv
<1>9. BatchStoreInv'
  BY <1>1, <1>4, OnlyImporters DEF ImportInv, BatchStoreInv
<1>10. RequestSound(r)'
  BY <1>2, <1>3, <1>4, <1>5, <1>6, <1>8 DEF RequestSound, WorkSound, Import!Stored
<1>11. AnswerSound(r)'
  BY <1>4 DEF ImportInv, AnswerSound
<1> QED BY <1>4, <1>7, <1>9, <1>10, <1>11, SameAnswer, OneImporter

\* The boundary of an import is today or what it was.
LEMMA StartInRange ==
    ASSUME ImportInv, NEW seen, Import!Boundary(seen)
    PROVE  start' \in 0 .. LastDay
BY DEF ImportInv, BatchStoreInv, Import!Boundary

LEMMA ReadBoundaryKeeps ==
    ASSUME Import!ImportConstants, ImportInv, NEW r \in Requests, Import!ReadBoundary(r)
    PROVE  ImportInv'
<1> DEFINE state == [work |-> importing[r].work, pc |-> "boundary", start |-> start]
<1>1. UNCHANGED <<today, ledger, batches, start, reported>> /\ importing[r].pc = "known"
  BY DEF Import!ReadBoundary
<1>2. state.work = importing[r].work /\ state.pc = "boundary" /\ state.start = start
  OBVIOUS
<1>3. importing' = [importing EXCEPT ![r] = state]
  BY DEF Import!ReadBoundary, Import!Goto
<1> HIDE DEF state
<1>4. importing'[r] = state
  BY <1>3 DEF ImportInv
<1>5. BatchStoreInv'
  BY <1>1, OnlyImporters DEF ImportInv, BatchStoreInv
<1>6. RequestSound(r) /\ start \in 0 .. LastDay
  BY DEF ImportInv, BatchStoreInv
<1>7. RequestSound(r)'
  BY <1>1, <1>2, <1>4, <1>6 DEF RequestSound, WorkSound, Import!Stored
<1>8. AnswerSound(r)'
  BY <1>1 DEF ImportInv, AnswerSound
<1> QED BY <1>1, <1>3, <1>5, <1>7, <1>8, SameAnswer, OneImporter

LEMMA OpenKeeps ==
    ASSUME Import!ImportConstants, ImportInv, NEW r \in Requests, Import!Open(r)
    PROVE  ImportInv'
<1> DEFINE state == [work |-> importing[r].work, pc |-> "open", start |-> start, stored |-> Import!Stored(importing[r].work.key)]
<1>1. UNCHANGED <<today, ledger, batches, start, reported>> /\ importing[r].pc = "ready"
  BY DEF Import!Open
<1>2. /\ state.work = importing[r].work /\ state.pc = "open" /\ state.start = start
      /\ state.stored \subseteq batches
  BY DEF Import!Stored
<1>3. importing' = [importing EXCEPT ![r] = state]
  BY DEF Import!Open, Import!Goto
<1> HIDE DEF state
<1>4. importing'[r] = state
  BY <1>3 DEF ImportInv
<1>5. BatchStoreInv'
  BY <1>1, OnlyImporters DEF ImportInv, BatchStoreInv
<1>6. RequestSound(r) /\ start \in 0 .. LastDay
  BY DEF ImportInv, BatchStoreInv
<1>7. RequestSound(r)'
  BY <1>1, <1>2, <1>4, <1>6 DEF RequestSound, WorkSound
<1>8. AnswerSound(r)'
  BY <1>1 DEF ImportInv, AnswerSound
<1> QED BY <1>1, <1>3, <1>5, <1>7, <1>8, SameAnswer, OneImporter

\* A request that answers with a stored batch, or gives up, is idle again.
LEMMA ImportFinishes ==
    ASSUME Import!ImportConstants, ImportInv, NEW r \in Requests, NEW reply,
           UNCHANGED <<today, ledger, batches>>, start' \in 0 .. LastDay,
           Import!Goto(r, Import!Idle), reported' = [reported EXCEPT ![r] = reply],
           reply \in batches \/ reply = reported[r]
    PROVE  ImportInv'
<1>1. BatchStoreInv'
  BY OnlyImporters DEF ImportInv, BatchStoreInv
<1>2. Import!Idle.pc = "idle"
  BY DEF Import!Idle
<1>3. importing' = [importing EXCEPT ![r] = Import!Idle]
  BY DEF Import!Goto
<1>4. importing'[r] = Import!Idle /\ reported'[r] = reply
  BY <1>3 DEF ImportInv
<1>5. importing'[r].pc = "idle"
  BY <1>2, <1>4
<1>6. RequestSound(r)'
  BY <1>5 DEF RequestSound
<1>7. AnswerSound(r)'
  BY <1>4 DEF ImportInv, AnswerSound
<1> QED BY <1>1, <1>3, <1>6, <1>7, OneImporter

LEMMA DeduplicateKeeps ==
    ASSUME Import!ImportConstants, ImportInv, NEW r \in Requests, Import!Deduplicate(r)
    PROVE  ImportInv'
<1>1. PICK b \in Import!Stored(importing[r].work.key) : reported' = [reported EXCEPT ![r] = b]
  BY DEF Import!Deduplicate, Import!Answer
<1>2. b \in batches
  BY DEF Import!Stored
<1>3. start' \in 0 .. LastDay
  BY StartInRange DEF Import!Deduplicate
<1> QED BY <1>1, <1>2, <1>3, ImportFinishes DEF Import!Deduplicate

LEMMA RetryKeeps ==
    ASSUME Import!ImportConstants, ImportInv, NEW r \in Requests, Import!Retry(r)
    PROVE  ImportInv'
<1>1. importing[r].stored \subseteq batches
  BY DEF Import!Retry, ImportInv, RequestSound
<1>2. UNCHANGED <<today, ledger, batches>> /\ Import!Goto(r, Import!Idle)
  BY DEF Import!Retry
<1>3. PICK b \in importing[r].stored : IF b.hash = importing[r].work.hash
                                THEN Import!Boundary(importing[r].start) /\ Import!Answer(r, b)
                                ELSE UNCHANGED <<start, reported>>
  BY DEF Import!Retry
<1>4. CASE b.hash = importing[r].work.hash
  BY <1>1, <1>2, <1>3, <1>4, StartInRange, ImportFinishes DEF Import!Answer
<1>5. CASE b.hash # importing[r].work.hash
  <2>1. start' \in 0 .. LastDay /\ reported' = reported
    BY <1>3, <1>5 DEF ImportInv, BatchStoreInv
  <2> QED BY <1>2, <2>1, SameAnswer, ImportFinishes
<1> QED BY <1>4, <1>5

LEMMA CrashKeeps ==
    ASSUME Import!ImportConstants, ImportInv, NEW r \in Requests, Import!Crash(r)
    PROVE  ImportInv'
<1>1. start' \in 0 .. LastDay /\ reported' = reported
  BY DEF Import!Crash, ImportInv, BatchStoreInv
<1> QED BY <1>1, SameAnswer, ImportFinishes DEF Import!Crash

LEMMA MidnightKeeps ==
    ASSUME Import!ImportConstants, ImportInv, Import!Midnight
    PROVE  ImportInv'
<1>1. today' \in 1 .. LastDay /\ start' \in 0 .. LastDay /\ UNCHANGED <<ledger, batches, importing, reported>>
  BY KeysDistinct DEF Import!Midnight, ImportInv, BatchStoreInv
<1>2. BatchStoreInv'
  BY <1>1, OnlyImporters
<1>3. ASSUME NEW r \in Requests PROVE RequestSound(r)' /\ AnswerSound(r)'
  BY <1>1 DEF ImportInv, RequestSound, AnswerSound, WorkSound, Import!Stored
<1> QED BY <1>1, <1>2, <1>3 DEF ImportInv

-------------------------------------------------------------------------------
\* The rows of a new batch follow those already there.
LEMMA Appended ==
    ASSUME NEW row \in ImportedRow, NEW n \in Nat, ledger \in Seq(ImportedRow),
           ledger' = ledger \o [i \in 1 .. n |-> row]
    PROVE  /\ ledger' \in Seq(ImportedRow)
           /\ DOMAIN ledger' = DOMAIN ledger \cup Import!NewIds(n)
           /\ DOMAIN ledger \cap Import!NewIds(n) = {}
           /\ \A i \in DOMAIN ledger : ledger'[i] = ledger[i]
           /\ \A i \in Import!NewIds(n) : ledger'[i] = row
<1> DEFINE appended == [i \in 1 .. n |-> row]
<1>1. appended \in Seq(ImportedRow) /\ Len(appended) = n
  OBVIOUS
<1>2. \A i \in 1 .. n : appended[i] = row
  OBVIOUS
<1> HIDE DEF appended
<1>3. ledger' = ledger \o appended
  BY DEF appended
<1>4. Len(ledger) \in Nat /\ DOMAIN ledger = 1 .. Len(ledger)
  OBVIOUS
<1>5. ledger' \in Seq(ImportedRow) /\ Len(ledger') = Len(ledger) + n
  BY <1>1, <1>3
<1>6. DOMAIN ledger' = 1 .. Len(ledger) + n
  BY <1>5
<1>7. ASSUME NEW i \in DOMAIN ledger PROVE ledger'[i] = ledger[i]
  BY <1>1, <1>3, <1>4
<1>8. ASSUME NEW i \in Import!NewIds(n) PROVE ledger'[i] = row
  <2>1. i - Len(ledger) \in 1 .. n /\ i \in Len(ledger) + 1 .. Len(ledger) + n
    BY <1>4 DEF Import!NewIds
  <2>2. ledger'[i] = appended[i - Len(ledger)]
    BY <1>1, <1>3, <1>4, <2>1
  <2> QED BY <1>2, <2>1, <2>2
<1>9. DOMAIN ledger' = DOMAIN ledger \cup Import!NewIds(n) /\ DOMAIN ledger \cap Import!NewIds(n) = {}
  BY <1>4, <1>6 DEF Import!NewIds
<1> QED BY <1>5, <1>7, <1>8, <1>9

\* A batch whose key is free keeps the store sound.
LEMMA NewBatchSound ==
    ASSUME Import!ImportConstants, BatchStoreInv, NEW w, WorkSound(w), Import!Stored(w.key) = {}, NEW row, NEW b,
           row.key = w.key, row.hash = w.hash, row.date = w.date, row \in ImportedRow,
           b.key = w.key, b.hash = w.hash, b.ids = Import!NewIds(w.payload.size),
           ledger' = ledger \o [i \in 1 .. w.payload.size |-> row],
           batches' = batches \cup {b}, today' = today, start' \in 0 .. LastDay
    PROVE  BatchStoreInv'
<1> DEFINE n == w.payload.size
           new == Import!NewIds(n)
<1>1. n \in Nat /\ n > 0 /\ w.payload \in Payloads /\ w.key \in Import!BatchKeys
  BY KeysDistinct DEF WorkSound
<1>2. ledger \in Seq(ImportedRow)
  BY DEF BatchStoreInv
<1>3. /\ ledger' \in Seq(ImportedRow)
      /\ DOMAIN ledger' = DOMAIN ledger \cup new
      /\ DOMAIN ledger \cap new = {}
      /\ \A i \in DOMAIN ledger : ledger'[i] = ledger[i]
      /\ \A i \in new : ledger'[i] = row
  BY <1>1, <1>2, Appended
<1>4. new # {} /\ Import!Cardinality(new) = n
  <2>1. Len(ledger) + 1 \in Int /\ Len(ledger) + n \in Int /\ Len(ledger) \in Nat
    BY <1>1, <1>2
  <2>2. Len(ledger) + 1 \in new
    BY <1>1, <2>1 DEF Import!NewIds
  <2>3. \A c, d \in Int : Import!Cardinality(c .. d) = IF c > d THEN 0 ELSE d - c + 1
    BY SameCardinality, FS_Interval
  <2>4. new = Len(ledger) + 1 .. Len(ledger) + n
    BY DEF Import!NewIds
  <2> HIDE DEF new, n
  <2>5. Import!Cardinality(new) = (Len(ledger) + n) - (Len(ledger) + 1) + 1
    BY <1>1, <2>1, <2>3, <2>4
  <2> QED BY <1>1, <2>1, <2>2, <2>5
<1> HIDE DEF new
<1>5. \A c \in batches : c.key # w.key
  BY DEF Import!Stored
<1>6. \A i \in DOMAIN ledger : ledger[i].key # w.key
  BY <1>5 DEF BatchStoreInv
<1>7. \A k : k # w.key => Imported(k)' = Imported(k)
  BY <1>3 DEF Imported
<1>8. Imported(w.key)' = new
  BY <1>3, <1>6 DEF Imported
<1>9. ASSUME NEW c \in batches PROVE BatchSound(c)'
  <2>1. BatchSound(c) /\ c.key # w.key
    BY <1>5 DEF BatchStoreInv
  <2>2. c.ids = Imported(c.key)'
    BY <1>7, <2>1 DEF BatchSound
  <2>3. c.ids \subseteq DOMAIN ledger
    BY <2>1 DEF BatchSound, Imported
  <2>4. \A i \in c.ids : ledger'[i] = ledger[i]
    BY <1>3, <2>3
  <2>5. \A i, j \in c.ids : ledger'[i].hash = c.hash /\ ledger'[i].date = ledger'[j].date
    BY <2>1, <2>4, ZenonT(40) DEF BatchSound
  <2>6. /\ c.key \in Import!BatchKeys /\ c.ids # {}
        /\ \E p \in Payloads : /\ c.hash = p.name /\ Import!Cardinality(c.ids) = p.size
                               /\ c.key \in ClientKeys \/ c.key = Import!KeyOf(p, 0)
    BY <2>1 DEF BatchSound
  <2> QED BY <2>2, <2>5, <2>6 DEF BatchSound
<1>10. BatchSound(b)'
  <2>1. b.ids = new /\ b.ids = Imported(b.key)'
    BY <1>8 DEF new
  <2>2. \A i, j \in b.ids : ledger'[i].hash = b.hash /\ ledger'[i].date = ledger'[j].date
    BY <1>3, <2>1
  <2>3. /\ b.hash = w.payload.name /\ Import!Cardinality(b.ids) = w.payload.size
        /\ b.key \in ClientKeys \/ b.key = Import!KeyOf(w.payload, 0)
    BY <1>4, <2>1 DEF WorkSound
  <2> QED BY <1>1, <1>4, <2>1, <2>2, <2>3 DEF BatchSound
<1>11. \A c, d \in batches' : c.key = d.key => c = d
  BY <1>5 DEF BatchStoreInv
<1>12. ASSUME NEW i \in DOMAIN ledger' PROVE \E c \in batches' : c.key = ledger'[i].key
  <2>1. CASE i \in new
    BY <1>3, <2>1
  <2>2. CASE i \in DOMAIN ledger
    BY <1>3, <2>2 DEF BatchStoreInv
  <2> QED BY <1>3, <2>1, <2>2
<1>13. today' \in 1 .. LastDay
  BY DEF BatchStoreInv
<1> QED BY <1>3, <1>9, <1>10, <1>11, <1>12, <1>13 DEF BatchStoreInv

LEMMA CommitKeeps ==
    ASSUME Import!ImportConstants, ImportInv, NEW r \in Requests, Import!Commit(r)
    PROVE  ImportInv'
<1> DEFINE w == importing[r].work
           row == [key |-> w.key, hash |-> w.hash, date |-> w.date]
           b == [key |-> w.key, hash |-> w.hash, ids |-> Import!NewIds(w.payload.size)]
<1>1. importing[r].pc = "open" /\ Import!Goto(r, Import!Idle) /\ UNCHANGED today
  BY DEF Import!Commit
<1>2. WorkSound(w) /\ BatchStoreInv
  BY <1>1 DEF ImportInv, RequestSound
<1>3. CASE Import!PrimaryKeyFree(w.key)
  <2>1. /\ ledger' = ledger \o [i \in 1 .. w.payload.size |-> row]
        /\ batches' = batches \cup {b} /\ Import!Answer(r, b) /\ Import!Boundary(importing[r].start)
    BY <1>3 DEF Import!Commit
  <2>2. row.key = w.key /\ row.hash = w.hash /\ row.date = w.date
    OBVIOUS
  <2>3. w.key \in Import!BatchKeys /\ w.hash \in SentNames /\ w.date \in 1 .. LastDay
    BY <1>2, KeysDistinct DEF WorkSound
  <2>4. row \in ImportedRow
    BY <2>3 DEF ImportedRow
  <2>5. b.key = w.key /\ b.hash = w.hash /\ b.ids = Import!NewIds(w.payload.size)
    OBVIOUS
  <2>6. Import!Stored(w.key) = {} /\ start' \in 0 .. LastDay
    BY <1>3, <2>1, StartInRange DEF Import!PrimaryKeyFree
  <2> HIDE DEF w, row, b
  <2>7. BatchStoreInv'
    BY <1>1, <1>2, <2>1, <2>2, <2>4, <2>5, <2>6, NewBatchSound
  <2>8. importing' = [importing EXCEPT ![r] = Import!Idle] /\ reported' = [reported EXCEPT ![r] = b]
    BY <1>1, <2>1 DEF Import!Goto, Import!Answer
  <2>9. importing'[r] = Import!Idle /\ reported'[r] = b
    BY <2>8 DEF ImportInv
  <2>10. Import!Idle.pc = "idle"
    BY DEF Import!Idle
  <2>11. importing'[r].pc = "idle"
    BY <2>9, <2>10
  <2>12. RequestSound(r)' /\ AnswerSound(r)'
    BY <2>1, <2>9, <2>11 DEF RequestSound, AnswerSound
  <2> QED BY <2>1, <2>7, <2>8, <2>12, OneImporter
<1>4. CASE ~ Import!PrimaryKeyFree(w.key)
  <2>1. UNCHANGED <<ledger, batches, reported, start>>
    BY <1>4 DEF Import!Commit
  <2>2. start' \in 0 .. LastDay
    BY <2>1 DEF ImportInv, BatchStoreInv
  <2> QED BY <1>1, <2>1, <2>2, SameAnswer, ImportFinishes
<1> QED BY <1>3, <1>4

LEMMA ImportKeeps ==
    ASSUME Import!ImportConstants, ImportInv, [Import!Next]_(Import!vars)
    PROVE  ImportInv'
<1>1. CASE UNCHANGED Import!vars
  BY <1>1 DEF Import!vars, ImportInv, BatchStoreInv, BatchSound, Imported, RequestSound, AnswerSound, WorkSound, Import!Stored
<1>2. CASE Import!Midnight
  BY <1>2, MidnightKeeps
<1>3. ASSUME NEW r \in Requests, Import!Begin(r) PROVE ImportInv'
  BY <1>3, PrepareKeeps DEF Import!Begin
<1>4. ASSUME NEW r \in Requests, Import!Continue(r) PROVE ImportInv'
  BY <1>4, ReadBoundaryKeeps, DeduplicateKeeps, OpenKeeps, CommitKeeps, RetryKeeps DEF Import!Continue
<1>5. ASSUME NEW r \in Requests, Import!Crash(r) PROVE ImportInv'
  BY <1>5, CrashKeeps
<1> QED BY <1>1, <1>2, <1>3, <1>4, <1>5 DEF Import!Next

-------------------------------------------------------------------------------
LEMMA ImportTyped ==
    ASSUME Import!ImportConstants, ImportInv
    PROVE  Import!TypeOK
<1>1. \A b \in batches : b.key \in Import!BatchKeys /\ b.ids # {} /\ b.ids \subseteq DOMAIN ledger
  BY DEF ImportInv, BatchStoreInv, BatchSound, Imported
<1>2. ASSUME NEW r \in Requests
      PROVE  /\ importing[r].pc \in {"idle", "boundary", "known", "ready", "open"}
             /\ reported[r].ids \subseteq DOMAIN ledger
  BY <1>1 DEF ImportInv, RequestSound, AnswerSound
<1> QED BY <1>1, <1>2 DEF Import!TypeOK, ImportInv, BatchStoreInv, ImportedRow, SentNames

LEMMA BatchesWhole ==
    ASSUME Import!ImportConstants, ImportInv
    PROVE  Import!BatchesWhole
<1> SUFFICES ASSUME NEW k \in Import!BatchKeys
             PROVE  IF Import!Stored(k) = {} THEN Imported(k) = {}
                    ELSE /\ \A b \in Import!Stored(k) : b.ids = Imported(k)
                         /\ \A i, j \in Imported(k) : ledger[i].date = ledger[j].date
                         /\ \E p \in Payloads : Import!Cardinality(Imported(k)) = p.size
  BY DEF Import!BatchesWhole, Imported
<1>1. CASE Import!Stored(k) = {}
  BY <1>1 DEF ImportInv, BatchStoreInv, Import!Stored, Imported
<1>2. CASE Import!Stored(k) # {}
  <2>1. ASSUME NEW b \in Import!Stored(k) PROVE b.ids = Imported(k) /\ BatchSound(b)
    BY DEF ImportInv, BatchStoreInv, Import!Stored, BatchSound
  <2> QED BY <1>2, <2>1 DEF BatchSound
<1> QED BY <1>1, <1>2

LEMMA AnswersHonest ==
    ASSUME Import!ImportConstants, ImportInv
    PROVE  Import!AnswersHonest
<1> SUFFICES ASSUME NEW r \in Requests, NEW i \in reported[r].ids
             PROVE  ledger[i].key = reported[r].key /\ ledger[i].hash = reported[r].hash
  BY DEF Import!AnswersHonest
<1>1. BatchSound(reported[r])
  BY DEF ImportInv, BatchStoreInv, AnswerSound
<1> QED BY <1>1 DEF BatchSound, Imported

\* All the rows of a payload without a client key are in the one batch of its hash.
LEMMA SentOnce ==
    ASSUME Import!ImportConstants, ImportInv
    PROVE  Import!RetriesImportOnce
<1> SUFFICES ASSUME NEW p \in Payloads
             PROVE  Import!Cardinality({i \in DOMAIN ledger : /\ ledger[i].key \notin ClientKeys
                                                       /\ ledger[i].hash = p.name}) <= p.size
  BY DEF Import!RetriesImportOnce
<1> DEFINE own == {i \in DOMAIN ledger : ledger[i].key \notin ClientKeys /\ ledger[i].hash = p.name}
<1>1. p.size \in Nat /\ ledger \in Seq(ImportedRow)
  BY KeysDistinct DEF ImportInv, BatchStoreInv
<1>2. ASSUME NEW i \in own
      PROVE  \E b \in batches : /\ b.key = Import!KeyOf(p, 0) /\ i \in b.ids
                                /\ Import!Cardinality(b.ids) = p.size
  <2>1. PICK b \in batches : b.key = ledger[i].key
    BY DEF ImportInv, BatchStoreInv
  <2>2. BatchSound(b)
    BY DEF ImportInv, BatchStoreInv
  <2>3. i \in b.ids
    BY <2>1, <2>2 DEF BatchSound, Imported
  <2>4. ledger[i].hash = b.hash
    BY <2>2, <2>3 DEF BatchSound
  <2>5. PICK q \in Payloads : /\ b.hash = q.name /\ Import!Cardinality(b.ids) = q.size
                              /\ b.key \in ClientKeys \/ b.key = Import!KeyOf(q, 0)
    BY <2>2 DEF BatchSound
  <2>6. q.name = p.name
    BY <2>4, <2>5
  <2>7. q = p
    BY <2>6 DEF Import!ImportConstants
  <2> QED BY <2>1, <2>3, <2>5, <2>7
<1> SUFFICES Import!Cardinality(own) <= p.size
  OBVIOUS
<1> HIDE DEF own
<1>3. CASE own = {}
  <2>1. Import!Cardinality({}) = 0
    BY SameCardinality, FS_EmptySet
  <2> QED BY <1>1, <1>3, <2>1
<1>4. CASE own # {}
  <2>1. PICK i \in own : TRUE
    BY <1>4
  <2>2. PICK b \in batches : b.key = Import!KeyOf(p, 0) /\ Import!Cardinality(b.ids) = p.size
    BY <1>2, <2>1
  <2>3. own \subseteq b.ids
    <3> SUFFICES ASSUME NEW j \in own PROVE j \in b.ids
      OBVIOUS
    <3>1. PICK c \in batches : c.key = Import!KeyOf(p, 0) /\ j \in c.ids
      BY <1>2
    <3>2. c = b
      BY <2>2, <3>1 DEF ImportInv, BatchStoreInv
    <3> QED BY <3>1, <3>2
  <2>4. b.ids \subseteq DOMAIN ledger
    BY DEF ImportInv, BatchStoreInv, BatchSound, Imported
  <2>5. Import!IsFiniteSet(DOMAIN ledger)
    <3>1. DOMAIN ledger = 1 .. Len(ledger) /\ Len(ledger) \in Int
      BY <1>1
    <3> QED BY <3>1, SameCardinality, FS_Interval
  <2>6. Import!IsFiniteSet(b.ids)
    BY <2>4, <2>5, SameCardinality, FS_Subset
  <2>7. Import!Cardinality(own) <= Import!Cardinality(b.ids)
    BY <2>3, <2>6, SameCardinality, FS_Subset
  <2> QED BY <2>2, <2>7
<1> QED BY <1>3, <1>4

\* For any number of overlapping, retried and dying imports, a batch is stored whole
\* and counted once, an answer names true rows of the data that was sent, and data
\* sent without a key of the client's is imported once.
THEOREM ImportedOnce == RecordsSpec => []BatchInv
<1>1. RecordsInit => ImportInv
  BY ImportFits, ImportStart DEF RecordsInit
<1>2. clients \subseteq Requests /\ ImportInv /\ [RecordsNext]_records => ImportInv'
  <2>1. clients \subseteq Requests /\ [RecordsNext]_records => [Import!Next]_(Import!vars)
    BY DEF RecordsNext, records, imports, Import!vars, Import!Next, WriteLog, ImportOpening, Administer, Connect,
         SyncMarket, ShowDividends, Trade, Reconcile
  <2> QED BY <2>1, ImportFits, ImportKeeps
<1>3. ImportInv => BatchInv
  BY ImportFits, ImportTyped, BatchesWhole, AnswersHonest, SentOnce DEF BatchInv, Import!BatchInv
<1> QED BY <1>1, <1>2, <1>3, ClientsFixed, PTL DEF RecordsSpec

-------------------------------------------------------------------------------
(* The import.  A client that is alone decides on a start it has read and      *)
(* nobody has moved since.                                                     *)

StartRead ==
    /\ importing = [r \in Requests |-> importing[r]]
    /\ Alone => \A r \in clients : importing[r].pc \in {"boundary", "open"} => importing[r].start = start

LEMMA ImportMoves ==
    ASSUME StartRead, clients \subseteq Requests, NEW r \in clients, NEW state, Import!Goto(r, state), clients' = clients,
           state.pc \in {"boundary", "open"} => state.start = start',
           Alone => start' = start \/ state.pc \notin {"boundary", "open"}
    PROVE  StartRead'
<1>1. importing' = [importing EXCEPT ![r] = state] /\ r \in Requests
  BY DEF Import!Goto
<1>2. importing' = [q \in Requests |-> importing'[q]] /\ importing'[r] = state
  BY <1>1 DEF StartRead
<1>3. Alone => \A q \in clients : q = r
  BY DEF Alone
<1>4. Alone' => Alone
  BY DEF Alone
<1> QED BY <1>2, <1>3, <1>4 DEF StartRead

LEMMA BoundaryKeeps ==
    ASSUME NEW seen, seen = start, Import!Boundary(seen)
    PROVE  start # 0 => start' = start
BY DEF Import!Boundary, Import!FirstStart

\* With one import at a time, a start that is set stays.
THEOREM StartAlwaysKept == RecordsSpec => StartNeverMoves
<1> DEFINE Kept == Alone => Import!StartKept
<1>1. RecordsInit => StartRead
  BY DEF RecordsInit, Import!Init, Import!Idle, StartRead
<1>2. ASSUME clients \subseteq Requests, StartRead, [RecordsNext]_records
      PROVE  StartRead' /\ (Kept \/ UNCHANGED records)
  <2>1. clients' = clients /\ (ImportOpening \/ UNCHANGED imports)
    BY <1>2 DEF RecordsNext, records, WriteLog, Administer, Connect, SyncMarket, ShowDividends, Trade, Reconcile
  <2>2. CASE UNCHANGED imports
    BY <1>2, <2>1, <2>2 DEF imports, StartRead, Alone, Import!StartKept
  <2>3. CASE Import!Midnight
    BY <1>2, <2>1, <2>3 DEF Import!Midnight, StartRead, Alone, Import!StartKept
  <2>4. ASSUME NEW r \in clients, Import!Begin(r)
        PROVE  StartRead' /\ Kept
    <3>1. PICK p \in Payloads : \E k \in ClientKeys \cup {Import!KeyOf(p, today)} : Import!Prepare(r, p, k)
      BY <2>4 DEF Import!Begin
    <3>2. start' = start /\ \E state : Import!Goto(r, state) /\ state.pc \in {"ready", "known"}
      BY <3>1 DEF Import!Prepare
    <3>3. PICK state : Import!Goto(r, state) /\ state.pc \in {"ready", "known"}
      BY <3>2
    <3> QED BY <1>2, <2>1, <3>2, <3>3, ImportMoves DEF Import!StartKept
  <2>5. ASSUME NEW r \in clients, Import!ReadBoundary(r) \/ Import!Open(r)
        PROVE  StartRead' /\ Kept
    <3>1. start' = start /\ \E state : Import!Goto(r, state) /\ state.start = start
      BY <2>5 DEF Import!ReadBoundary, Import!Open
    <3>2. PICK state : Import!Goto(r, state) /\ state.start = start
      BY <3>1
    <3> QED BY <1>2, <2>1, <3>1, <3>2, ImportMoves DEF Import!StartKept
  <2>6. ASSUME NEW r \in clients, Import!Deduplicate(r) \/ Import!Commit(r) \/ Import!Retry(r) \/ Import!Crash(r)
        PROVE  StartRead' /\ Kept
    <3>1. Import!Goto(r, Import!Idle) /\ Import!Idle.pc = "idle"
      BY <2>6 DEF Import!Deduplicate, Import!Commit, Import!Retry, Import!Crash, Import!Idle
    <3>2. \/ start' = start
          \/ importing[r].pc \in {"boundary", "open"} /\ Import!Boundary(importing[r].start)
      BY <2>6 DEF Import!Deduplicate, Import!Commit, Import!Retry, Import!Crash
    <3>3. Kept
      BY <1>2, <3>2, BoundaryKeeps DEF StartRead, Import!StartKept
    <3> QED BY <1>2, <2>1, <3>1, <3>3, ImportMoves
  <2> QED BY <2>1, <2>2, <2>3, <2>4, <2>5, <2>6 DEF ImportOpening, Import!Continue
<1>3. clients \subseteq Requests /\ StartRead /\ [RecordsNext]_records => StartRead' /\ [Kept]_records
  BY <1>2
<1> QED BY <1>1, <1>3, ClientsFixed, PTL DEF RecordsSpec, StartNeverMoves

-------------------------------------------------------------------------------
(* The dividends.  What a refresh has found is what the last provider with data *)
(* said, and its rows are deleted only when they are about to be replaced.      *)

HistoryRow == [event : KnownDividends, source : History!ToSet(DividendProviders)]
HistoryRequest ==
    [at : {"idle", "fetching", "found", "deleted", "persisted", "reading", "answered"},
     origin : {"none", "SQLITE_CACHE", "DATABASE_MISS", "PROVIDER_REFRESH"},
     next : DOMAIN DividendProviders, found : SUBSET HistoryRow, answer : SUBSET HistoryRow]

\* The rows of refresh q, while the table holds rs and the last good answer was last.
RowsSound(q, rs, last, crashed) ==
    /\ q.at \in {"idle", "fetching"} => q.found = {}
    /\ q.found # {} => q.found = last
    /\ q.found # {} /\ q.at = "deleted" => rs = {}
    /\ q.found # {} /\ q.at \in {"persisted", "reading", "answered"} => rs = last
    /\ q.found = {} /\ crashed = 0 => rs = last
    /\ q.at = "answered" /\ (crashed = 0 \/ q.found # {}) => q.answer = last

HistoryInv ==
    /\ dividends \subseteq HistoryRow /\ lastGood \subseteq HistoryRow
    /\ fetched \in BOOLEAN /\ deaths \in 0 .. MaxCrashes
    /\ refresh \in [{Refresher} -> HistoryRequest]
    /\ RowsSound(refresh[Refresher], dividends, lastGood, deaths)

LEMMA HistoryMoves ==
    ASSUME HistoryInv, NEW q \in HistoryRequest, refresh' = [refresh EXCEPT ![Refresher] = q],
           dividends' \subseteq HistoryRow, lastGood' \subseteq HistoryRow,
           fetched' \in BOOLEAN, deaths' \in 0 .. MaxCrashes,
           RowsSound(q, dividends', lastGood', deaths')
    PROVE  HistoryInv'
BY DEF HistoryInv

LEMMA ProvidersKnown ==
    /\ DOMAIN DividendProviders = 1 .. Len(DividendProviders) /\ Len(DividendProviders) \in Nat \ {0}
    /\ \A n \in DOMAIN DividendProviders : DividendProviders[n] \in History!ToSet(DividendProviders)
<1>1. DividendProviders \in Seq(History!ToSet(DividendProviders)) /\ DividendProviders # <<>>
  BY HistoryFits DEF History!CacheConstants
<1>2. History!ToSet(DividendProviders) = {DividendProviders[n] : n \in DOMAIN DividendProviders}
  BY DEF History!ToSet
<1> QED BY <1>1, <1>2

LEMMA InitHistory == History!Init => HistoryInv
<1> SUFFICES ASSUME History!Init PROVE HistoryInv
  OBVIOUS
<1>1. refresh = [r \in {Refresher} |-> History!Idle] /\ dividends = {} /\ lastGood = {} /\ fetched = FALSE /\ deaths = 0
  BY DEF History!Init
<1>2. MaxCrashes \in Nat
  BY HistoryFits DEF History!CacheConstants
<1>3. 1 \in DOMAIN DividendProviders
  BY ProvidersKnown
<1>4. History!Idle \in HistoryRequest /\ History!Idle.at = "idle" /\ History!Idle.found = {}
  BY <1>3 DEF History!Idle, HistoryRequest
<1>5. refresh \in [{Refresher} -> HistoryRequest] /\ refresh[Refresher] = History!Idle
  BY <1>1, <1>4
<1>6. RowsSound(History!Idle, dividends, lastGood, deaths)
  BY <1>1, <1>4 DEF RowsSound
<1>7. RowsSound(refresh[Refresher], dividends, lastGood, deaths)
  BY <1>5, <1>6
<1>8. deaths = 0 /\ deaths \in 0 .. MaxCrashes
  BY <1>1, <1>2
<1>9. dividends \subseteq HistoryRow /\ lastGood \subseteq HistoryRow /\ fetched \in BOOLEAN
  <2>1. dividends = {} /\ lastGood = {} /\ fetched = FALSE
    BY <1>1
  <2> QED BY <2>1
<1> QED BY <1>5, <1>7, <1>8, <1>9 DEF HistoryInv

LEMMA HistoryKeeps == ASSUME HistoryInv, History!Next PROVE HistoryInv'
<1> DEFINE r == Refresher
           q == refresh[r]
<1>1. /\ q \in HistoryRequest /\ refresh \in [{r} -> HistoryRequest]
      /\ dividends \subseteq HistoryRow /\ lastGood \subseteq HistoryRow
      /\ fetched \in BOOLEAN /\ deaths \in 0 .. MaxCrashes
      /\ RowsSound(q, dividends, lastGood, deaths)
  BY DEF HistoryInv
<1>2. History!Work(r)
  BY DEF History!Next
<1> HIDE DEF r
<1>3. 1 \in DOMAIN DividendProviders /\ MaxCrashes \in Nat
  BY ProvidersKnown, HistoryFits DEF History!CacheConstants
<1>4. ASSUME NEW at \in {"found", "deleted", "persisted", "reading"}, History!Go(r, at)
      PROVE  /\ [q EXCEPT !.at = at] \in HistoryRequest
             /\ [q EXCEPT !.at = at].at = at /\ [q EXCEPT !.at = at].found = q.found
             /\ refresh' = [refresh EXCEPT ![r] = [q EXCEPT !.at = at]]
  BY <1>1, <1>4 DEF HistoryRequest, History!Go
<1>5. ASSUME NEW force \in BOOLEAN, NEW mayFetch \in BOOLEAN, History!Begin(r, force, mayFetch)
      PROVE  HistoryInv'
  <2>1. PICK at \in {"reading", "fetching"}, origin \in {"SQLITE_CACHE", "DATABASE_MISS", "PROVIDER_REFRESH"} :
           refresh' = [refresh EXCEPT ![r] = [History!Idle EXCEPT !.at = at, !.origin = origin]]
    BY <1>5 DEF History!Begin
  <2> DEFINE new == [History!Idle EXCEPT !.at = at, !.origin = origin]
  <2>2. new \in HistoryRequest /\ new.at = at /\ new.found = {}
    BY <1>3 DEF History!Idle, HistoryRequest
  <2>3. refresh' = [refresh EXCEPT ![r] = new]
    BY <2>1
  <2>4. UNCHANGED <<dividends, fetched, deaths, lastGood>> /\ q.at \in {"idle", "answered"}
    BY <1>5 DEF History!Begin
  <2> HIDE DEF new
  <2>5. RowsSound(new, dividends', lastGood', deaths')
    BY <1>1, <2>2, <2>4 DEF RowsSound
  <2> QED BY <1>1, <2>2, <2>3, <2>4, <2>5, HistoryMoves DEF r
<1>6. CASE History!NothingFrom(r)
  <2>1. q.at = "fetching" /\ UNCHANGED <<dividends, fetched, deaths, lastGood>>
    BY <1>6 DEF History!NothingFrom, History!At
  <2>2. CASE q.next = Len(DividendProviders)
    <3>1. History!Go(r, "found")
      BY <1>6, <2>2 DEF History!NothingFrom
    <3> DEFINE new == [q EXCEPT !.at = "found"]
    <3>2. new \in HistoryRequest /\ new.at = "found" /\ new.found = q.found /\ refresh' = [refresh EXCEPT ![r] = new]
      BY <1>4, <3>1
    <3> HIDE DEF new
    <3>3. RowsSound(new, dividends', lastGood', deaths')
      BY <1>1, <2>1, <3>2 DEF RowsSound
    <3> QED BY <1>1, <2>1, <3>2, <3>3, HistoryMoves DEF r
  <2>3. CASE q.next # Len(DividendProviders)
    <3> DEFINE new == [q EXCEPT !.next = @ + 1]
    <3>1. refresh' = [refresh EXCEPT ![r] = new]
      BY <1>1, <1>6, <2>3 DEF History!NothingFrom
    <3>2. q.next + 1 \in DOMAIN DividendProviders
      BY <1>1, <2>3, ProvidersKnown DEF HistoryRequest
    <3>3. new \in HistoryRequest /\ new.at = q.at /\ new.found = q.found
      BY <1>1, <3>2 DEF HistoryRequest
    <3> HIDE DEF new
    <3>4. RowsSound(new, dividends', lastGood', deaths')
      BY <1>1, <2>1, <3>3 DEF RowsSound
    <3> QED BY <1>1, <2>1, <3>1, <3>3, <3>4, HistoryMoves DEF r
  <2> QED BY <2>2, <2>3
<1>7. ASSUME NEW events \in SUBSET KnownDividends, History!DataFrom(r, events)
      PROVE  HistoryInv'
  <2> DEFINE found == [event : events, source : {DividendProviders[q.next]}]
             new == [q EXCEPT !.at = "found", !.found = found]
  <2>1. q.at = "fetching" /\ events # {} /\ lastGood' = found /\ UNCHANGED <<dividends, fetched, deaths>>
    BY <1>7 DEF History!DataFrom, History!At
  <2>2. refresh' = [refresh EXCEPT ![r] = new]
    BY <1>1, <1>7 DEF History!DataFrom
  <2>3. found \in SUBSET HistoryRow
    BY <1>1, ProvidersKnown DEF HistoryRow, HistoryRequest
  <2>4. found # {}
    <3>1. PICK e \in events : TRUE
      BY <2>1
    <3>2. [event |-> e, source |-> DividendProviders[q.next]] \in found
      BY <3>1
    <3> QED BY <3>2
  <2> HIDE DEF found
  <2>5. new \in HistoryRequest /\ new.at = "found" /\ new.found = found
    BY <1>1, <2>3 DEF HistoryRequest
  <2> HIDE DEF new
  <2>6. RowsSound(new, dividends', lastGood', deaths')
    BY <2>1, <2>4, <2>5 DEF RowsSound
  <2> QED BY <1>1, <2>1, <2>2, <2>3, <2>5, <2>6, HistoryMoves DEF r
<1>8. CASE History!DeleteOld(r)
  <2> DEFINE new == [q EXCEPT !.at = "deleted"]
  <2>1. /\ q.at = "found" /\ dividends' = (IF q.found = {} THEN dividends ELSE {})
        /\ UNCHANGED <<fetched, deaths, lastGood>> /\ History!Go(r, "deleted")
    BY <1>8 DEF History!DeleteOld, History!At
  <2>2. new \in HistoryRequest /\ new.at = "deleted" /\ new.found = q.found /\ refresh' = [refresh EXCEPT ![r] = new]
    BY <1>4, <2>1
  <2> HIDE DEF new
  <2>3. RowsSound(new, dividends', lastGood', deaths')
    BY <1>1, <2>1, <2>2 DEF RowsSound
  <2> QED BY <1>1, <2>1, <2>2, <2>3, HistoryMoves DEF r
<1>9. CASE History!Persist(r)
  <2> DEFINE new == [q EXCEPT !.at = "persisted"]
  <2>1. /\ q.at = "deleted" /\ dividends' = {row \in dividends : \A n \in q.found : n.event # row.event} \cup q.found
        /\ UNCHANGED <<fetched, deaths, lastGood>> /\ History!Go(r, "persisted")
    BY <1>9 DEF History!Persist, History!At
  <2>2. new \in HistoryRequest /\ new.at = "persisted" /\ new.found = q.found /\ refresh' = [refresh EXCEPT ![r] = new]
    BY <1>4, <2>1
  <2>3. dividends' \subseteq HistoryRow
    BY <1>1, <2>1 DEF HistoryRequest
  <2> HIDE DEF new
  <2>4. q.found = {} => dividends' = dividends
    BY <2>1
  <2>5. q.found # {} => dividends' = q.found
    BY <1>1, <2>1 DEF RowsSound
  <2>6. RowsSound(new, dividends', lastGood', deaths')
    BY <1>1, <2>1, <2>2, <2>4, <2>5 DEF RowsSound
  <2> QED BY <1>1, <2>1, <2>2, <2>3, <2>6, HistoryMoves DEF r
<1>10. CASE History!WriteState(r)
  <2> DEFINE new == [q EXCEPT !.at = "reading"]
  <2>1. /\ q.at = "persisted" /\ fetched' = TRUE
        /\ UNCHANGED <<dividends, deaths, lastGood>> /\ History!Go(r, "reading")
    BY <1>10 DEF History!WriteState, History!At
  <2>2. new \in HistoryRequest /\ new.at = "reading" /\ new.found = q.found /\ refresh' = [refresh EXCEPT ![r] = new]
    BY <1>4, <2>1
  <2> HIDE DEF new
  <2>3. RowsSound(new, dividends', lastGood', deaths')
    BY <1>1, <2>1, <2>2 DEF RowsSound
  <2> QED BY <1>1, <2>1, <2>2, <2>3, HistoryMoves DEF r
<1>11. CASE History!Respond(r)
  <2> DEFINE new == [q EXCEPT !.at = "answered", !.answer = dividends]
  <2>1. q.at = "reading" /\ UNCHANGED <<dividends, fetched, deaths, lastGood>>
    BY <1>11 DEF History!Respond, History!At
  <2>2. refresh' = [refresh EXCEPT ![r] = new]
    BY <1>1, <1>11 DEF History!Respond
  <2>3. new \in HistoryRequest /\ new.at = "answered" /\ new.found = q.found /\ new.answer = dividends
    BY <1>1 DEF HistoryRequest
  <2> HIDE DEF new
  <2>4. RowsSound(new, dividends', lastGood', deaths')
    BY <1>1, <2>1, <2>3 DEF RowsSound
  <2> QED BY <1>1, <2>1, <2>2, <2>3, <2>4, HistoryMoves DEF r
<1>12. CASE History!Die(r)
  <2>1. /\ deaths < MaxCrashes /\ deaths' = deaths + 1 /\ refresh' = [refresh EXCEPT ![r] = History!Idle]
        /\ UNCHANGED <<dividends, fetched, lastGood>>
    BY <1>12 DEF History!Die
  <2>2. deaths' \in 0 .. MaxCrashes /\ deaths' # 0
    BY <1>1, <1>3, <2>1
  <2>3. History!Idle \in HistoryRequest /\ History!Idle.at = "idle" /\ History!Idle.found = {}
    BY <1>3 DEF History!Idle, HistoryRequest
  <2>4. RowsSound(History!Idle, dividends', lastGood', deaths')
    BY <2>2, <2>3 DEF RowsSound
  <2> QED BY <1>1, <2>1, <2>2, <2>3, <2>4, HistoryMoves DEF r
<1> QED BY <1>2, <1>5, <1>6, <1>7, <1>8, <1>9, <1>10, <1>11, <1>12 DEF History!Work

\* A refresh that finds nothing, however often, takes no dividend away.
THEOREM DividendsAlwaysKept == RecordsSpec => []DividendsKept
<1>1. RecordsInit => HistoryInv
  BY InitHistory DEF RecordsInit
<1>2. HistoryInv /\ [RecordsNext]_records => HistoryInv'
  <2>1. HistoryInv /\ UNCHANGED history => HistoryInv'
    BY DEF history, HistoryInv
  <2>2. [RecordsNext]_records => History!Next \/ UNCHANGED history
    BY DEF RecordsNext, records, WriteLog, ImportOpening, Administer, Connect, SyncMarket, ShowDividends, Trade, Reconcile
  <2> QED BY <2>1, <2>2, HistoryKeeps
<1>3. HistoryInv => DividendsKept
  <2> SUFFICES ASSUME HistoryInv PROVE History!TypeOK /\ History!LastGoodKept
    BY DEF DividendsKept
  <2>1. refresh[Refresher] \in HistoryRequest /\ RowsSound(refresh[Refresher], dividends, lastGood, deaths)
    BY DEF HistoryInv
  <2>2. History!LastGoodKept
    BY <2>1 DEF History!LastGoodKept, History!At, RowsSound
  <2>3. History!TypeOK
    BY <2>1 DEF HistoryInv, HistoryRequest, HistoryRow, History!TypeOK, History!Row
  <2> QED BY <2>2, <2>3
<1> QED BY <1>1, <1>2, <1>3, PTL DEF RecordsSpec

-------------------------------------------------------------------------------
\* The registry, when one client sends one request after another.
RegistryHolds == Registry!ProofInv /\ \A r \in Requests : clients = {r} => Registry!ClientInv(r)

LEMMA RegistryHoldsStep ==
  ASSUME clients \subseteq Requests, RegistryHolds, Registry!ProofInv', [RecordsNext]_records
  PROVE  RegistryHolds'
<1> SUFFICES ASSUME NEW r \in Requests, clients' = {r} PROVE Registry!ClientInv(r)'
  BY DEF RegistryHolds
<1>1. clients' = clients
  BY DEF RecordsNext, records
<1>2. Registry!ClientInv(r) /\ Registry!ProofInv
  BY <1>1 DEF RegistryHolds
<1>3. CASE UNCHANGED registry
  BY <1>2, <1>3 DEF registry, Registry!ClientInv, Registry!At, Registry!Agreed, Registry!ClientSound, Registry!Tidy
<1>4. CASE Administer
  <2>1. \/ \E kind \in Registry!Kind, id \in 0 .. MaxId, i \in Instances : Registry!Begin(r, kind, id, i)
        \/ Registry!Advance(r)
    BY <1>1, <1>4 DEF Administer
  <2> QED BY <1>2, <2>1, RegistryFits, Registry!ClientStep
<1> QED BY <1>3, <1>4 DEF RecordsNext, records, WriteLog, ImportOpening, Connect, SyncMarket, ShowDividends, Trade, Reconcile

\* Deletions, resets, creations that fail half way, selections and first requests leave
\* nothing inconsistent as long as each is answered before the next is sent, whatever
\* happens to the other records of the portfolio meanwhile.
THEOREM OneClientStaysConsistent == RecordsSpec => []ConsistentForOneClient
<1>1. Registry!Spec => []Registry!ProofInv
  BY RegistryFits, Registry!RequestsSound
<1>2. RecordsInit => Registry!Init
  BY DEF RecordsInit
<1>3. clients \subseteq Requests /\ [RecordsNext]_records => [Registry!Next]_Registry!vars
  BY DEF RecordsNext, records, registry, Registry!vars, Registry!Next, WriteLog, ImportOpening, Administer, Connect, SyncMarket, ShowDividends, Trade, Reconcile
<1>4. RecordsInit /\ Registry!ProofInv => RegistryHolds
  BY <1>2, RegistryFits, Registry!ClientStarts DEF RegistryHolds
<1>5. clients \subseteq Requests /\ RegistryHolds /\ Registry!ProofInv' /\ [RecordsNext]_records => RegistryHolds'
  BY RegistryHoldsStep
<1>6. RegistryHolds => ConsistentForOneClient
  <2> SUFFICES ASSUME RegistryHolds, NEW r \in Requests, clients = {r}
               PROVE  /\ Registry!NoOrphanSchema /\ Registry!SelectionExists
                      /\ Registry!LimitKept /\ Registry!LedgerIsolated
    BY DEF ConsistentForOneClient, Alone
  <2>1. Registry!ProofInv /\ Registry!ClientInv(r)
    BY DEF RegistryHolds
  <2> QED BY <2>1, RegistryFits, Registry!ClientImplies
<1> QED BY <1>1, <1>2, <1>3, <1>4, <1>5, <1>6, ClientsFixed, PTL DEF RecordsSpec, Registry!Spec
-------------------------------------------------------------------------------
(* The price histories.  An entry of the cache expires within a lifetime of the *)
(* answer it holds, and there is one of a key.                                   *)

Answer == [at : 0 .. LastTick, rows : BOOLEAN]
BarEntry == [key : Bars!ToSet(BarProviders) \X Queries, expires : Nat, value : Answer]
BarThread ==
    [step : {"idle", "lookup", "loading", "storing", "answered"}, query : Queries \cup {"none"},
     next : DOMAIN BarProviders, started : 0 .. LastTick, value : Answer]

OneOfAKey(s) == \A i, j \in DOMAIN s : s[i].key = s[j].key => i = j

\* An entry of the cache, at time t.
EntrySound(e, t) == e.value.at <= t /\ e.expires <= e.value.at + TTL

\* A thread, at time t: it knows what it asks for, what it stores was given after it
\* looked, and what it is answered is recent.
ThreadSound(q, t) ==
    /\ q.value.at <= t /\ q.started <= t
    /\ q.step \in {"lookup", "loading", "storing"} => q.query \in Queries
    /\ q.step = "storing" => q.value.at >= q.started
    /\ q.step = "answered" => q.value.rows /\ (q.value.at >= q.started \/ q.value.at + TTL > q.started)

EntriesSound(s, t) ==
    /\ s \in Seq(BarEntry) /\ Len(s) <= MaxEntries /\ OneOfAKey(s)
    /\ \A i \in DOMAIN s : EntrySound(s[i], t)

BarsInv ==
    /\ now \in 0 .. LastTick
    /\ EntriesSound(entries, now)
    /\ thread \in [Threads -> BarThread]
    /\ \A t \in Threads : ThreadSound(thread[t], now)

LEMMA BarsConstants ==
    /\ DOMAIN BarProviders = 1 .. Len(BarProviders) /\ Len(BarProviders) \in Nat \ {0}
    /\ \A n \in DOMAIN BarProviders : BarProviders[n] \in Bars!ToSet(BarProviders)
    /\ TTL \in Nat /\ MaxEntries \in Nat \ {0} /\ LastTick \in Nat
<1>1. BarProviders \in Seq(Bars!ToSet(BarProviders)) /\ BarProviders # <<>>
  BY BarsFit DEF Bars!CacheConstants
<1>2. Bars!ToSet(BarProviders) = {BarProviders[n] : n \in DOMAIN BarProviders}
  BY DEF Bars!ToSet
<1> QED BY <1>1, <1>2, BarsFit DEF Bars!CacheConstants

\* The prefixes that Kept is computed over.
KeptUpto(K, o) ==
    [n \in 0 .. Len(entries) |->
        IF n = 0 THEN <<>> ELSE IF n \in K THEN Append(o[n - 1], entries[n]) ELSE o[n - 1]]

\* The kept entries of every prefix exist.
LEMMA KeptExists ==
    ASSUME entries \in Seq(BarEntry), NEW K
    PROVE  \E o : o = KeptUpto(K, o)
<1> DEFINE Good(n) == \E o : \A m \in 0 .. n : o[m] = KeptUpto(K, o)[m]
           Missing == {n \in 0 .. Len(entries) : ~Good(n)}
<1>0. Len(entries) \in Nat
  OBVIOUS
<1>1. Missing = {}
  <2> SUFFICES ASSUME Missing # {} PROVE FALSE
    OBVIOUS
  <2>1. PICK n \in Missing : \A m \in Missing : n <= m
    <3>1. Missing \in SUBSET Nat
      BY <1>0
    <3> HIDE DEF Missing
    <3> QED BY <3>1, LeastElement
  <2>2. CASE n = 0
    <3>1. \A m \in 0 .. 0 : [k \in {0} |-> <<>>][m] = KeptUpto(K, [k \in {0} |-> <<>>])[m]
      BY DEF KeptUpto
    <3> QED BY <3>1, <2>2
  <2>3. CASE n # 0
    <3>1. Good(n - 1)
      <4>1. n - 1 \in 0 .. Len(entries) /\ ~(n <= n - 1)
        BY <2>3, <1>0
      <4> HIDE DEF Good
      <4> QED BY <4>1, <2>1
    <3>2. PICK o : \A m \in 0 .. n - 1 : o[m] = KeptUpto(K, o)[m]
      BY <3>1
    <3> DEFINE p == KeptUpto(K, o)
    <3>3. \A m \in 0 .. n : p[m] = KeptUpto(K, p)[m]
      <4> SUFFICES ASSUME NEW m \in 0 .. n PROVE p[m] = KeptUpto(K, p)[m]
        OBVIOUS
      <4>0. m \in 0 .. Len(entries)
        BY <1>0
      <4>1. CASE m = 0
        BY <4>0, <4>1 DEF KeptUpto
      <4>2. CASE m # 0
        <5>1. m - 1 \in 0 .. n - 1
          BY <4>2
        <5>2. p[m - 1] = o[m - 1]
          BY <5>1, <3>2
        <5>3. p[m] = IF m \in K THEN Append(o[m - 1], entries[m]) ELSE o[m - 1]
          BY <4>0, <4>2 DEF KeptUpto
        <5>4. KeptUpto(K, p)[m] = IF m \in K THEN Append(p[m - 1], entries[m]) ELSE p[m - 1]
          <6> HIDE DEF p
          <6> QED BY <4>0, <4>2 DEF KeptUpto
        <5> QED BY <5>2, <5>3, <5>4
      <4> QED BY <4>1, <4>2
    <3> QED BY <3>3
  <2> QED BY <2>2, <2>3
<1>2. Good(Len(entries))
  BY <1>0, <1>1
<1>3. PICK o : \A m \in 0 .. Len(entries) : o[m] = KeptUpto(K, o)[m]
  BY <1>2
<1> DEFINE p == KeptUpto(K, o)
<1>4. \A m \in 0 .. Len(entries) : p[m] = o[m]
  BY <1>3
<1>5. p = KeptUpto(K, p)
  <2>1. \A m \in 0 .. Len(entries) : m # 0 => p[m - 1] = o[m - 1]
    BY <1>0, <1>4
  <2>2. p = [n \in 0 .. Len(entries) |->
               IF n = 0 THEN <<>> ELSE IF n \in K THEN Append(o[n - 1], entries[n]) ELSE o[n - 1]]
    BY DEF KeptUpto
  <2>3. KeptUpto(K, p) = [n \in 0 .. Len(entries) |->
               IF n = 0 THEN <<>> ELSE IF n \in K THEN Append(p[n - 1], entries[n]) ELSE p[n - 1]]
    BY DEF KeptUpto
  <2> HIDE DEF p
  <2> QED BY <2>1, <2>2, <2>3
<1> QED BY <1>5

\* Kept is the last of them.
LEMMA KeptIsLast ==
    ASSUME entries \in Seq(BarEntry), NEW K
    PROVE  \E o : o = KeptUpto(K, o) /\ Bars!Kept(K) = o[Len(entries)]
<1> DEFINE o == CHOOSE p : p = KeptUpto(K, p)
<1>1. o = KeptUpto(K, o)
  BY KeptExists
<1>2. Bars!Kept(K) = o[Len(entries)]
  BY DEF Bars!Kept, KeptUpto
<1> QED BY <1>1, <1>2

\* The kept entries are those at the places of K, each once, and all of them only if K
\* is every place.
LEMMA KeptEntries ==
    ASSUME entries \in Seq(BarEntry), OneOfAKey(entries), NEW K \in SUBSET DOMAIN entries
    PROVE  LET kept == Bars!Kept(K)
           IN  /\ kept \in Seq(BarEntry) /\ Len(kept) <= Len(entries) /\ OneOfAKey(kept)
               /\ \A i \in DOMAIN kept : \E k \in K : kept[i] = entries[k]
               /\ \A k \in K : \E i \in DOMAIN kept : kept[i] = entries[k]
               /\ Len(kept) = Len(entries) => K = DOMAIN entries
<1>1. PICK o : o = KeptUpto(K, o) /\ Bars!Kept(K) = o[Len(entries)]
  BY KeptIsLast
<1> DEFINE Right(n) ==
             /\ o[n] \in Seq(BarEntry) /\ Len(o[n]) <= n /\ OneOfAKey(o[n])
             /\ \A i \in DOMAIN o[n] : \E k \in K : k <= n /\ o[n][i] = entries[k]
             /\ \A k \in K : k <= n => \E i \in DOMAIN o[n] : o[n][i] = entries[k]
             /\ Len(o[n]) = n => 1 .. n \subseteq K
           Wrong == {n \in 0 .. Len(entries) : ~Right(n)}
<1>0. Len(entries) \in Nat /\ DOMAIN entries = 1 .. Len(entries) /\ \A k \in DOMAIN entries : entries[k] \in BarEntry
  OBVIOUS
<1>2. Right(0)
  <2>1. o[0] = <<>>
    BY <1>0, <1>1 DEF KeptUpto
  <2>2. \A k \in K : ~(k <= 0)
    BY <1>0
  <2>3. 1 .. 0 = {}
    OBVIOUS
  <2>4. DOMAIN o[0] = {} /\ o[0] \in Seq(BarEntry) /\ Len(o[0]) = 0
    BY <2>1
  <2> HIDE DEF KeptUpto
  <2> QED BY <2>2, <2>3, <2>4 DEF OneOfAKey
<1>3. ASSUME NEW n \in 1 .. Len(entries), Right(n - 1) PROVE Right(n)
  <2> DEFINE before == o[n - 1]
             more == Append(before, entries[n])
  <2>0. n \in DOMAIN entries /\ n - 1 \in Nat /\ n \in 0 .. Len(entries) /\ entries[n] \in BarEntry
    BY <1>0
  <2>1. o[n] = IF n \in K THEN more ELSE before
    <3>1. KeptUpto(K, o)[n] = IF n \in K THEN more ELSE before
      BY <2>0 DEF KeptUpto
    <3> QED BY <1>1, <3>1
  <2>2. /\ before \in Seq(BarEntry) /\ Len(before) <= n - 1 /\ OneOfAKey(before)
        /\ \A i \in DOMAIN before : \E k \in K : k <= n - 1 /\ before[i] = entries[k]
        /\ \A k \in K : k <= n - 1 => \E i \in DOMAIN before : before[i] = entries[k]
        /\ Len(before) = n - 1 => 1 .. n - 1 \subseteq K
    BY <1>3
  <2>3. \A k \in K : k <= n <=> k <= n - 1 \/ k = n
    BY <1>0, <2>0
  <2>4. 1 .. n = 1 .. n - 1 \cup {n}
    BY <2>0
  <2> HIDE DEF before
  <2>5. CASE n \notin K
    <3>1. o[n] = before
      BY <2>1, <2>5
    <3>2. /\ \A i \in DOMAIN before : \E k \in K : k <= n /\ before[i] = entries[k]
          /\ \A k \in K : k <= n => \E i \in DOMAIN before : before[i] = entries[k]
      BY <2>2, <2>3, <2>5
    <3>3. Len(before) <= n /\ Len(before) # n
      BY <2>0, <2>2
    <3> QED BY <2>2, <3>1, <3>2, <3>3
  <2>6. CASE n \in K
    <3>1. /\ more \in Seq(BarEntry) /\ Len(more) = Len(before) + 1 /\ Len(before) \in Nat
          /\ DOMAIN before = 1 .. Len(before) /\ DOMAIN more = 1 .. Len(before) + 1
          /\ \A i \in DOMAIN before : more[i] = before[i]
          /\ more[Len(before) + 1] = entries[n]
      BY <2>0, <2>2
    <3> HIDE DEF more
    <3>2. \A i \in DOMAIN more : i \in DOMAIN before \/ i = Len(before) + 1
      BY <3>1
    <3>3. \A i \in DOMAIN more : \E k \in K : k <= n /\ more[i] = entries[k]
      BY <2>2, <2>3, <2>6, <3>1, <3>2
    <3>4. \A k \in K : k <= n => \E i \in DOMAIN more : more[i] = entries[k]
      <4> SUFFICES ASSUME NEW k \in K, k <= n PROVE \E i \in DOMAIN more : more[i] = entries[k]
        OBVIOUS
      <4>1. CASE k = n
        BY <3>1, <4>1
      <4>2. CASE k <= n - 1
        <5>1. PICK i \in DOMAIN before : before[i] = entries[k]
          BY <2>2, <4>2
        <5> QED BY <3>1, <5>1
      <4> QED BY <2>3, <4>1, <4>2
    <3>5. \A i \in DOMAIN before : before[i].key # entries[n].key
      <4> SUFFICES ASSUME NEW i \in DOMAIN before PROVE before[i].key # entries[n].key
        OBVIOUS
      <4>1. PICK k \in K : k <= n - 1 /\ before[i] = entries[k]
        BY <2>2
      <4>2. k # n /\ k \in DOMAIN entries
        BY <1>0, <2>0, <4>1
      <4> QED BY <2>0, <4>1, <4>2 DEF OneOfAKey
    <3>6. OneOfAKey(more)
      BY <2>2, <3>1, <3>2, <3>5 DEF OneOfAKey
    <3>7. Len(more) <= n /\ (Len(more) = n => 1 .. n \subseteq K)
      BY <2>0, <2>2, <2>4, <2>6, <3>1
    <3>8. o[n] = more
      BY <2>1, <2>6
    <3> QED BY <3>1, <3>3, <3>4, <3>6, <3>7, <3>8
  <2> QED BY <2>5, <2>6
<1> HIDE DEF Right
<1>4. Wrong = {}
  <2> SUFFICES ASSUME Wrong # {} PROVE FALSE
    OBVIOUS
  <2>1. PICK n \in Wrong : \A m \in Wrong : n <= m
    <3>1. Wrong \in SUBSET Nat
      BY <1>0
    <3> HIDE DEF Wrong
    <3> QED BY <3>1, LeastElement
  <2>2. n # 0
    BY <1>2, <2>1
  <2>3. n \in 1 .. Len(entries) /\ n - 1 \in 0 .. Len(entries) /\ ~(n <= n - 1)
    BY <1>0, <2>1, <2>2
  <2>4. Right(n - 1)
    BY <2>1, <2>3
  <2> QED BY <1>3, <2>1, <2>3, <2>4
<1>5. Right(Len(entries))
  BY <1>0, <1>4
<1>6. \A k \in K : k <= Len(entries)
  BY <1>0
<1> QED BY <1>0, <1>1, <1>5, <1>6 DEF Right

LEMMA EntriesLater ==
    ASSUME NEW s, NEW t \in Nat, NEW u \in Nat, t <= u, EntriesSound(s, t)
    PROVE  EntriesSound(s, u)
<1> SUFFICES ASSUME NEW i \in DOMAIN s PROVE EntrySound(s[i], u)
  BY DEF EntriesSound
<1>1. s[i].value.at <= t /\ s[i].expires <= s[i].value.at + TTL /\ s[i] \in BarEntry
  BY DEF EntriesSound, EntrySound
<1>2. s[i].value.at \in Nat
  BY <1>1, BarsConstants DEF BarEntry, Answer
<1> QED BY <1>1, <1>2 DEF EntrySound

\* The eviction keeps entries of the cache, makes room when the cache is full, and gives
\* up a good one only when all of them are good.
LEMMA EvictionSound ==
    ASSUME BarsInv
    PROVE  LET left == Bars!Evicted
           IN  /\ EntriesSound(left, now)
               /\ Len(left) < MaxEntries
               /\ \A i \in DOMAIN left : \E k \in DOMAIN entries : left[i] = entries[k]
               /\ \A k \in DOMAIN entries :
                    \/ \E i \in DOMAIN left : left[i] = entries[k]
                    \/ entries[k].expires <= now
                    \/ \A j \in DOMAIN entries : entries[j].expires > now
<1> DEFINE good == {i \in DOMAIN entries : entries[i].expires > now}
           live == Bars!Kept(good)
           over == Len(live) - (MaxEntries - 1)
<1>0. /\ entries \in Seq(BarEntry) /\ Len(entries) <= MaxEntries /\ OneOfAKey(entries)
      /\ \A i \in DOMAIN entries : EntrySound(entries[i], now)
      /\ Len(entries) \in Nat /\ MaxEntries \in Nat \ {0} /\ now \in Int
      /\ \A i \in DOMAIN entries : entries[i].expires \in Int
  <2>1. /\ entries \in Seq(BarEntry) /\ Len(entries) <= MaxEntries /\ OneOfAKey(entries)
        /\ \A i \in DOMAIN entries : EntrySound(entries[i], now)
    BY DEF BarsInv, EntriesSound
  <2>2. \A i \in DOMAIN entries : entries[i] \in BarEntry
    BY <2>1
  <2>3. \A i \in DOMAIN entries : entries[i].expires \in Int
    BY <2>2 DEF BarEntry
  <2>4. now \in Int
    BY BarsConstants DEF BarsInv
  <2>5. Len(entries) \in Nat
    BY <2>1
  <2> QED BY <2>1, <2>3, <2>4, <2>5, BarsConstants
<1>1. CASE Len(entries) < MaxEntries
  <2>1. Bars!Evicted = entries
    BY <1>1 DEF Bars!Evicted
  <2> QED BY <1>0, <1>1, <2>1 DEF EntriesSound
<1>2. CASE ~(Len(entries) < MaxEntries)
  <2>1. Bars!Evicted = IF over > 0 THEN SubSeq(live, over + 1, Len(live)) ELSE live
    BY <1>2 DEF Bars!Evicted
  <2>2. /\ live \in Seq(BarEntry) /\ Len(live) <= Len(entries) /\ OneOfAKey(live)
        /\ \A i \in DOMAIN live : \E k \in good : live[i] = entries[k]
        /\ \A k \in good : \E i \in DOMAIN live : live[i] = entries[k]
        /\ Len(live) = Len(entries) => good = DOMAIN entries
    <3>1. good \in SUBSET DOMAIN entries
      OBVIOUS
    <3> HIDE DEF good
    <3> QED BY <1>0, <3>1, KeptEntries
  <2>3. good \subseteq DOMAIN entries /\ \A k \in DOMAIN entries : k \in good \/ entries[k].expires <= now
    BY <1>0
  <2>4. \A k \in good : entries[k].expires > now
    OBVIOUS
  <2> HIDE DEF live, good
  <2>5. \A i \in DOMAIN live : EntrySound(live[i], now)
    BY <1>0, <2>2, <2>3
  <2>6. CASE over > 0
    <3> DEFINE left == SubSeq(live, over + 1, Len(live))
    <3>1. Len(live) \in Nat /\ DOMAIN live = 1 .. Len(live) /\ over \in Nat /\ over <= Len(live)
      BY <1>0, <2>2, <2>6
    <3>2. /\ left \in Seq(BarEntry) /\ Len(left) = Len(live) - over /\ DOMAIN left = 1 .. Len(live) - over
          /\ \A i \in DOMAIN left : i + over \in DOMAIN live /\ left[i] = live[i + over]
      <4> HIDE DEF over
      <4>1. /\ left \in Seq(BarEntry) /\ Len(left) = Len(live) - over
            /\ \A i \in 1 .. Len(live) - over : left[i] = live[i + over]
        <5> DEFINE m == over + 1
        <5>1. m \in 1 .. Len(live) + 1 /\ m <= Len(live) + 1 /\ m - 1 = over
          BY <2>6, <3>1
        <5>2. /\ SubSeq(live, m, Len(live)) \in Seq(BarEntry)
              /\ Len(SubSeq(live, m, Len(live))) = Len(live) - m + 1
              /\ \A i \in 1 .. Len(live) - m + 1 : SubSeq(live, m, Len(live))[i] = live[m + i - 1]
          <6> HIDE DEF m
          <6>1. m \in Int /\ Len(live) \in Int /\ \A i \in m .. Len(live) : live[i] \in BarEntry
            BY <2>2, <2>6, <3>1, <5>1
          <6>2. (IF m <= Len(live) THEN Len(live) - m + 1 ELSE 0) = Len(live) - m + 1
            BY <3>1, <5>1
          <6> QED BY <6>1, <6>2, SubSeqProperties
        <5>3. Len(live) - m + 1 = Len(live) - over /\ \A i \in Nat : m + i - 1 = i + over
          BY <3>1
        <5> QED BY <5>2, <5>3
      <4>2. DOMAIN left = 1 .. Len(live) - over
        <5> HIDE DEF left
        <5> QED BY <4>1
      <4>3. \A i \in 1 .. Len(live) - over : i + over \in DOMAIN live
        BY <3>1
      <4> HIDE DEF left
      <4> QED BY <4>1, <4>2, <4>3
    <3> HIDE DEF left
    <3>3. OneOfAKey(left)
      BY <2>2, <3>1, <3>2, SMTT(30) DEF OneOfAKey
    <3>4. Len(left) < MaxEntries
      BY <1>0, <3>1, <3>2
    <3>5. \A j \in DOMAIN entries : entries[j].expires > now
      <4>1. Len(live) = Len(entries)
        BY <1>0, <2>2, <2>6, <3>1
      <4> QED BY <2>2, <2>4, <4>1
    <3>6. EntriesSound(left, now)
      BY <1>0, <2>5, <3>2, <3>3, <3>4 DEF EntriesSound
    <3>7. \A i \in DOMAIN left : \E k \in DOMAIN entries : left[i] = entries[k]
      BY <2>2, <2>3, <3>2
    <3>8. Bars!Evicted = left
      BY <2>1, <2>6 DEF left
    <3> QED BY <3>4, <3>5, <3>6, <3>7, <3>8
  <2>7. CASE ~(over > 0)
    <3>1. Bars!Evicted = live
      BY <2>1, <2>7
    <3>2. Len(live) < MaxEntries /\ Len(live) \in Nat
      BY <1>0, <2>2, <2>7
    <3>3. EntriesSound(live, now)
      BY <1>0, <2>2, <2>5, <3>2 DEF EntriesSound
    <3>4. \A i \in DOMAIN live : \E k \in DOMAIN entries : live[i] = entries[k]
      BY <2>2, <2>3
    <3>5. \A k \in DOMAIN entries :
            \/ \E i \in DOMAIN live : live[i] = entries[k]
            \/ entries[k].expires <= now
      BY <2>2, <2>3
    <3> QED BY <3>1, <3>2, <3>3, <3>4, <3>5
  <2> QED BY <2>6, <2>7
<1> QED BY <1>1, <1>2

\* One thread moves, and the entries and the clock stay.
LEMMA BarsMove ==
    ASSUME BarsInv, NEW t \in Threads, NEW q \in BarThread, thread' = [thread EXCEPT ![t] = q],
           ThreadSound(q, now), now' = now, EntriesSound(entries', now)
    PROVE  BarsInv'
<1>1. thread' \in [Threads -> BarThread] /\ \A u \in Threads : thread'[u] = IF u = t THEN q ELSE thread[u]
  BY DEF BarsInv
<1>2. \A u \in Threads : ThreadSound(thread'[u], now)
  BY <1>1 DEF BarsInv
<1> QED BY <1>1, <1>2 DEF BarsInv

\* The rows of an answer, an exception or the next provider.
LEMMA DecidedSound ==
    ASSUME BarsInv, NEW t \in Threads, thread[t].query \in Queries, NEW v \in Answer, v.at <= now,
           NEW started \in 0 .. LastTick, started <= now,
           v.rows => v.at >= started \/ v.at + TTL > started
    PROVE  Bars!Decided(t, v, started) \in BarThread /\ ThreadSound(Bars!Decided(t, v, started), now)
<1> DEFINE q == Bars!Decided(t, v, started)
           asked == [Bars!Fresh EXCEPT !.step = "lookup", !.query = thread[t].query, !.next = thread[t].next + 1]
           answered == [Bars!Fresh EXCEPT !.step = "answered", !.value = v, !.started = started]
<1>0. /\ now \in Nat /\ now <= LastTick /\ 0 \in 0 .. LastTick /\ thread[t].next \in 1 .. Len(BarProviders)
      /\ Len(BarProviders) \in Nat \ {0} /\ DOMAIN BarProviders = 1 .. Len(BarProviders)
  BY BarsConstants DEF BarsInv, BarThread
<1>1. Bars!NoAnswer \in Answer /\ Bars!NoAnswer.at = 0
  BY <1>0 DEF Bars!NoAnswer, Answer
<1>2. /\ Bars!Fresh \in BarThread /\ Bars!Fresh.value.at = 0 /\ Bars!Fresh.started = 0 /\ Bars!Fresh.step = "idle"
  BY <1>0, <1>1 DEF Bars!Fresh, BarThread
<1>3. CASE v.rows
  <2>1. q = answered
    BY <1>3 DEF Bars!Decided
  <2>2. answered \in BarThread /\ answered.step = "answered" /\ answered.value = v /\ answered.started = started
    BY <1>2 DEF BarThread
  <2> HIDE DEF answered
  <2> QED BY <1>3, <2>1, <2>2 DEF ThreadSound
<1>4. CASE ~v.rows /\ thread[t].next = Len(BarProviders)
  <2>1. q = Bars!Fresh
    BY <1>4 DEF Bars!Decided
  <2>2. ThreadSound(Bars!Fresh, now)
    BY <1>0, <1>2 DEF ThreadSound
  <2> QED BY <1>2, <2>1, <2>2
<1>5. CASE ~v.rows /\ thread[t].next # Len(BarProviders)
  <2>1. q = asked
    BY <1>5 DEF Bars!Decided
  <2>2. thread[t].next + 1 \in DOMAIN BarProviders
    BY <1>0, <1>5
  <2>3. asked \in BarThread /\ asked.step = "lookup" /\ asked.query = thread[t].query
        /\ asked.value.at = 0 /\ asked.started = 0
    BY <1>2, <2>2 DEF BarThread
  <2> HIDE DEF asked
  <2>4. ThreadSound(asked, now)
    BY <1>0, <2>3 DEF ThreadSound
  <2> QED BY <2>1, <2>3, <2>4
<1> QED BY <1>3, <1>4, <1>5

\* The place of a key, if the cache has it.
LEMMA OnePlace ==
    ASSUME BarsInv, NEW K \in SUBSET DOMAIN entries, K # {},
           \A i, j \in K : entries[i].key = entries[j].key
    PROVE  Bars!Max(K) \in K
<1>1. PICK i \in K : TRUE
  OBVIOUS
<1>2. OneOfAKey(entries) /\ i \in Int
  BY DEF BarsInv, EntriesSound
<1>3. \A j \in K : j = i
  BY <1>1, <1>2 DEF OneOfAKey
<1>4. i \in K /\ \A j \in K : i >= j
  BY <1>1, <1>2, <1>3
<1> QED BY <1>4 DEF Bars!Max

LEMMA LookupKeeps ==
    ASSUME BarsInv, NEW t \in Threads, Bars!Lookup(t) PROVE BarsInv' /\ Bars!GoodOnesStay
<1> DEFINE q == thread[t]
           waiting == [q EXCEPT !.step = "loading", !.started = now]
           others == DOMAIN entries \ Bars!Position(Bars!Key(t))
<1>0. /\ q \in BarThread /\ q.step = "lookup" /\ q.query \in Queries /\ ThreadSound(q, now)
      /\ now \in 0 .. LastTick /\ now \in Nat /\ EntriesSound(entries, now) /\ now' = now
  BY BarsConstants DEF BarsInv, ThreadSound, Bars!Lookup, Bars!At
<1>1. CASE TTL > 0 /\ Bars!Hit(t) # {}
  <2> DEFINE found == Bars!Max(Bars!Hit(t))
             e == entries[found]
  <2>1. thread' = [thread EXCEPT ![t] = Bars!Decided(t, e.value, now)] /\ entries' = entries
    BY <1>1 DEF Bars!Lookup
  <2>2. found \in DOMAIN entries /\ e.expires > now
    <3>1. Bars!Hit(t) \in SUBSET DOMAIN entries /\ \A i, j \in Bars!Hit(t) : entries[i].key = entries[j].key
      BY DEF Bars!Hit, Bars!Position
    <3>2. found \in Bars!Hit(t)
      BY <1>1, <3>1, OnePlace
    <3> QED BY <3>1, <3>2 DEF Bars!Hit
  <2> HIDE DEF found
  <2>3. e \in BarEntry /\ e.value.at <= now /\ e.expires <= e.value.at + TTL
    BY <1>0, <2>2 DEF EntriesSound, EntrySound
  <2> HIDE DEF e
  <2>4. e.value \in Answer /\ e.value.at \in Nat /\ e.expires \in Nat
    BY <2>3 DEF BarEntry, Answer
  <2>5. e.value.at + TTL > now
    BY <1>0, <2>2, <2>3, <2>4, BarsConstants
  <2>6. Bars!Decided(t, e.value, now) \in BarThread /\ ThreadSound(Bars!Decided(t, e.value, now), now)
    BY <1>0, <2>3, <2>4, <2>5, DecidedSound
  <2>7. BarsInv'
    BY <1>0, <2>1, <2>6, BarsMove
  <2>8. Bars!GoodOnesStay
    BY <2>1 DEF Bars!GoodOnesStay
  <2> QED BY <2>7, <2>8
<1>2. CASE ~(TTL > 0 /\ Bars!Hit(t) # {})
  <2>1. /\ thread' = [thread EXCEPT ![t] = waiting]
        /\ entries' = IF TTL = 0 THEN entries ELSE Bars!Kept(others)
    BY <1>2 DEF Bars!Lookup
  <2>2. waiting \in BarThread /\ ThreadSound(waiting, now)
    <3>1. /\ waiting \in BarThread /\ waiting.step = "loading" /\ waiting.query = q.query
          /\ waiting.value = q.value /\ waiting.started = now
      BY <1>0 DEF BarThread
    <3> HIDE DEF waiting
    <3> QED BY <1>0, <3>1 DEF ThreadSound
  <2>3. CASE TTL = 0
    <3>1. entries' = entries
      BY <2>1, <2>3
    <3>2. BarsInv'
      <4> HIDE DEF waiting
      <4> QED BY <1>0, <2>1, <2>2, <3>1, BarsMove
    <3> QED BY <3>1, <3>2 DEF Bars!GoodOnesStay
  <2>4. CASE TTL # 0
    <3> DEFINE left == Bars!Kept(others)
    <3>1. entries' = left
      BY <2>1, <2>4
    <3>2. /\ left \in Seq(BarEntry) /\ Len(left) <= Len(entries) /\ OneOfAKey(left)
          /\ \A i \in DOMAIN left : \E k \in others : left[i] = entries[k]
          /\ \A k \in others : \E i \in DOMAIN left : left[i] = entries[k]
      <4>1. entries \in Seq(BarEntry) /\ OneOfAKey(entries) /\ others \in SUBSET DOMAIN entries
        BY <1>0 DEF EntriesSound
      <4> HIDE DEF others
      <4> QED BY <4>1, KeptEntries
    <3> HIDE DEF left
    <3>3. EntriesSound(left, now)
      <4>1. Len(left) <= MaxEntries
        <5>1. Len(entries) <= MaxEntries /\ Len(entries) \in Nat /\ Len(left) \in Nat
          BY <1>0, <3>2 DEF EntriesSound
        <5> QED BY <3>2, <5>1, BarsConstants
      <4>2. \A i \in DOMAIN left : EntrySound(left[i], now)
        BY <1>0, <3>2 DEF EntriesSound
      <4> QED BY <3>2, <4>1, <4>2 DEF EntriesSound
    <3>4. BarsInv'
      <4> HIDE DEF waiting
      <4> QED BY <1>0, <2>1, <2>2, <3>1, <3>3, BarsMove
    <3>5. \A e \in Bars!ToSet(entries) : e.expires > now => e.key \in {f.key : f \in Bars!ToSet(entries')}
      <4> SUFFICES ASSUME NEW k \in DOMAIN entries, entries[k].expires > now
                   PROVE  \E f \in Bars!ToSet(entries') : f.key = entries[k].key
        BY DEF Bars!ToSet
      <4>1. k \in others
        BY <1>2, <2>4, BarsConstants DEF Bars!Hit
      <4>2. PICK i \in DOMAIN left : left[i] = entries[k]
        BY <3>2, <4>1
      <4>3. entries'[i] \in Bars!ToSet(entries')
        BY <3>1 DEF Bars!ToSet
      <4> QED BY <3>1, <4>2, <4>3
    <3>6. Bars!GoodOnesStay
      BY <3>5 DEF Bars!GoodOnesStay
    <3> QED BY <3>4, <3>6
  <2> QED BY <2>3, <2>4
<1> QED BY <1>1, <1>2

LEMMA LoadKeeps ==
    ASSUME BarsInv, NEW t \in Threads, Bars!Load(t) PROVE BarsInv' /\ Bars!GoodOnesStay
<1> DEFINE q == thread[t]
<1>0. /\ q \in BarThread /\ q.step = "loading" /\ q.query \in Queries /\ ThreadSound(q, now)
      /\ now \in 0 .. LastTick /\ EntriesSound(entries, now) /\ now' = now /\ entries' = entries
  BY DEF BarsInv, ThreadSound, Bars!Load, Bars!At
<1>1. Bars!GoodOnesStay
  BY <1>0 DEF Bars!GoodOnesStay
<1>2. ASSUME NEW rows_ \in BOOLEAN,
             thread' = [thread EXCEPT ![t] = [@ EXCEPT !.step = "storing", !.value = [at |-> now, rows |-> rows_]]]
      PROVE  BarsInv'
  <2> DEFINE new == [q EXCEPT !.step = "storing", !.value = [at |-> now, rows |-> rows_]]
  <2>1. new \in BarThread /\ new.step = "storing" /\ new.query = q.query /\ new.value.at = now /\ new.started = q.started
    BY <1>0 DEF BarThread, Answer
  <2>2. thread' = [thread EXCEPT ![t] = new]
    BY <1>2
  <2> HIDE DEF new
  <2>3. ThreadSound(new, now)
    BY <1>0, <2>1, BarsConstants DEF ThreadSound
  <2> QED BY <1>0, <2>1, <2>2, <2>3, BarsMove
<1>3. CASE thread' = [thread EXCEPT ![t] = Bars!Decided(t, Bars!NoAnswer, now)]
  <2>1. Bars!NoAnswer \in Answer /\ Bars!NoAnswer.at = 0 /\ Bars!NoAnswer.rows = FALSE /\ now \in Nat
    BY <1>0, BarsConstants DEF Bars!NoAnswer, Answer
  <2>2. Bars!NoAnswer.at <= now
    BY <2>1
  <2>3. Bars!Decided(t, Bars!NoAnswer, now) \in BarThread /\ ThreadSound(Bars!Decided(t, Bars!NoAnswer, now), now)
    BY <1>0, <2>1, <2>2, DecidedSound
  <2> QED BY <1>0, <1>1, <1>3, <2>3, BarsMove
<1>4. \/ \E rows_ \in BOOLEAN :
           thread' = [thread EXCEPT ![t] = [@ EXCEPT !.step = "storing", !.value = [at |-> now, rows |-> rows_]]]
      \/ thread' = [thread EXCEPT ![t] = Bars!Decided(t, Bars!NoAnswer, now)]
  BY DEF Bars!Load
<1> QED BY <1>1, <1>2, <1>3, <1>4

LEMMA StoreKeeps ==
    ASSUME BarsInv, NEW t \in Threads, Bars!Store(t) PROVE BarsInv' /\ Bars!GoodOnesStay
<1> DEFINE q == thread[t]
           entry == [key |-> Bars!Key(t), expires |-> Bars!Expiry(t), value |-> q.value]
           left == Bars!Evicted
           there == {i \in DOMAIN left : left[i].key = Bars!Key(t)}
<1>0. /\ q \in BarThread /\ q.step = "storing" /\ q.query \in Queries /\ ThreadSound(q, now)
      /\ now \in 0 .. LastTick /\ EntriesSound(entries, now) /\ now' = now
      /\ q.value.at >= q.started /\ q.value.at <= now /\ q.started <= now
      /\ thread' = [thread EXCEPT ![t] = Bars!Decided(t, q.value, q.started)]
      /\ entries' = IF TTL = 0 THEN entries
                    ELSE IF there = {} THEN Append(left, entry) ELSE [left EXCEPT ![Bars!Max(there)] = entry]
  BY DEF BarsInv, ThreadSound, Bars!Store, Bars!At
<1>1. q.value \in Answer /\ q.started \in 0 .. LastTick /\ q.next \in DOMAIN BarProviders /\ q.value.at \in Nat /\ q.started \in Nat
  BY <1>0, BarsConstants DEF BarThread, Answer
<1>2. Bars!Decided(t, q.value, q.started) \in BarThread /\ ThreadSound(Bars!Decided(t, q.value, q.started), now)
  BY <1>0, <1>1, DecidedSound
<1>3. CASE TTL = 0
  <2>1. entries' = entries
    BY <1>0, <1>3
  <2>2. BarsInv'
    BY <1>0, <1>2, <2>1, BarsMove
  <2> QED BY <2>1, <2>2 DEF Bars!GoodOnesStay
<1>4. CASE TTL # 0
  <2>1. entry \in BarEntry /\ EntrySound(entry, now) /\ entry.key = Bars!Key(t)
    <3>1. Bars!Key(t) \in Bars!ToSet(BarProviders) \X Queries
      BY <1>0, <1>1, BarsConstants DEF Bars!Key
    <3>2. Bars!Expiry(t) = q.started + TTL
      BY DEF Bars!Expiry
    <3>3. Bars!Expiry(t) \in Nat /\ Bars!Expiry(t) <= q.value.at + TTL
      BY <1>0, <1>1, <3>2, BarsConstants
    <3> QED BY <1>0, <1>1, <3>1, <3>3 DEF BarEntry, EntrySound
  <2>2. /\ EntriesSound(left, now)
        /\ Len(left) < MaxEntries
        /\ \A i \in DOMAIN left : \E k \in DOMAIN entries : left[i] = entries[k]
        /\ \A k \in DOMAIN entries :
             \/ \E i \in DOMAIN left : left[i] = entries[k]
             \/ entries[k].expires <= now
             \/ \A j \in DOMAIN entries : entries[j].expires > now
    BY EvictionSound
  <2> HIDE DEF left, entry
  <2>3. /\ left \in Seq(BarEntry) /\ Len(left) \in Nat /\ DOMAIN left = 1 .. Len(left) /\ OneOfAKey(left)
        /\ \A i \in DOMAIN left : left[i] \in BarEntry /\ EntrySound(left[i], now)
    BY <2>2 DEF EntriesSound
  <2>4. /\ entries' \in Seq(BarEntry) /\ Len(entries') <= MaxEntries
        /\ \A i \in DOMAIN left : i \in DOMAIN entries' /\ entries'[i].key = left[i].key
        /\ \A i \in DOMAIN entries' : \/ entries'[i] = entry
                                      \/ i \in DOMAIN left /\ left[i].key # entry.key /\ entries'[i] = left[i]
        /\ \A i, j \in DOMAIN entries' : entries'[i] = entry /\ entries'[j] = entry => i = j
    <3>1. CASE there = {}
      <4> DEFINE more == Append(left, entry)
      <4>1. /\ more \in Seq(BarEntry) /\ Len(more) = Len(left) + 1 /\ DOMAIN more = 1 .. Len(left) + 1
            /\ \A i \in DOMAIN left : more[i] = left[i]
            /\ more[Len(left) + 1] = entry
        BY <2>1, <2>3
      <4>2. \A i \in DOMAIN left : left[i].key # entry.key /\ left[i] # entry
        BY <2>1, <3>1
      <4> HIDE DEF more
      <4>3. \A i \in DOMAIN more : i \in DOMAIN left \/ i = Len(left) + 1
        BY <2>3, <4>1
      <4>4. DOMAIN left \subseteq DOMAIN more
        BY <2>3, <4>1
      <4>5. Len(more) <= MaxEntries
        BY <2>2, <2>3, <4>1, BarsConstants
      <4>6. entries' = more
        BY <1>0, <1>4, <3>1 DEF more
      <4>7. \A i \in DOMAIN left : i \in DOMAIN more /\ more[i].key = left[i].key
        BY <4>1, <4>4
      <4>8. \A i \in DOMAIN more : \/ more[i] = entry
                                   \/ i \in DOMAIN left /\ left[i].key # entry.key /\ more[i] = left[i]
        BY <4>1, <4>2, <4>3
      <4>9. \A i, j \in DOMAIN more : more[i] = entry /\ more[j] = entry => i = j
        BY <4>1, <4>2, <4>3
      <4> QED BY <4>1, <4>5, <4>6, <4>7, <4>8, <4>9
    <3>2. CASE there # {}
      <4> DEFINE m == Bars!Max(there)
                 new == [left EXCEPT ![m] = entry]
      <4>1. m \in there
        <5>1. PICK i \in there : TRUE
          BY <3>2
        <5>2. \A j \in there : j = i
          BY <2>3, <5>1 DEF OneOfAKey
        <5>3. i \in Int
          BY <2>3, <5>1
        <5>4. i \in there /\ \A j \in there : i >= j
          BY <5>1, <5>2, <5>3
        <5> QED BY <5>4 DEF Bars!Max
      <4>2. m \in DOMAIN left /\ left[m].key = entry.key
        BY <2>1, <4>1
      <4> HIDE DEF m
      <4>3. /\ new \in Seq(BarEntry) /\ Len(new) = Len(left) /\ DOMAIN new = DOMAIN left
            /\ new[m] = entry /\ \A i \in DOMAIN left : i # m => new[i] = left[i]
        BY <2>1, <2>3, <4>2
      <4>4. \A i \in DOMAIN left : i # m => left[i].key # entry.key
        BY <2>3, <4>2 DEF OneOfAKey
      <4> HIDE DEF new
      <4>5. entries' = new
        BY <1>0, <1>4, <3>2 DEF new, m
      <4>6. \A i \in DOMAIN new : new[i].key = left[i].key
        BY <4>2, <4>3
      <4>7. Len(new) <= MaxEntries
        BY <2>2, <2>3, <4>3, BarsConstants
      <4>8. \A i, j \in DOMAIN new : new[i] = entry /\ new[j] = entry => i = j
        BY <4>3, <4>4
      <4> QED BY <4>3, <4>4, <4>5, <4>6, <4>7, <4>8
    <3> QED BY <3>1, <3>2
  <2>5. OneOfAKey(entries')
    <3> SUFFICES ASSUME NEW i \in DOMAIN entries', NEW j \in DOMAIN entries', entries'[i].key = entries'[j].key
                 PROVE  i = j
      BY DEF OneOfAKey
    <3> QED BY <2>3, <2>4 DEF OneOfAKey
  <2>6. \A i \in DOMAIN entries' : EntrySound(entries'[i], now)
    BY <2>1, <2>3, <2>4
  <2>7. BarsInv'
    BY <1>0, <1>2, <2>4, <2>5, <2>6, BarsMove DEF EntriesSound
  <2>8. ASSUME NEW k \in DOMAIN entries, entries[k].expires > now,
               entries[k].key \notin {f.key : f \in Bars!ToSet(entries')},
               NEW f \in Bars!ToSet(entries)
        PROVE  f.expires > now
    <3>1. ASSUME NEW i \in DOMAIN left PROVE left[i] # entries[k]
      <4>1. i \in DOMAIN entries' /\ entries'[i].key = left[i].key
        BY <2>4, <3>1
      <4>2. entries'[i] \in Bars!ToSet(entries')
        BY <4>1 DEF Bars!ToSet
      <4>3. left[i].key \in {g.key : g \in Bars!ToSet(entries')}
        BY <4>1, <4>2
      <4> QED BY <2>8, <4>3
    <3>2. ~(entries[k].expires <= now)
      <4>1. entries[k] \in BarEntry /\ now \in Nat
        BY <1>0, BarsConstants DEF EntriesSound
      <4>2. entries[k].expires \in Nat
        BY <4>1 DEF BarEntry
      <4> QED BY <2>8, <4>1, <4>2
    <3>3. \A j \in DOMAIN entries : entries[j].expires > now
      BY <2>2, <3>1, <3>2
    <3> QED BY <3>3 DEF Bars!ToSet
  <2>9. Bars!GoodOnesStay
    <3> SUFFICES ASSUME NEW e \in Bars!ToSet(entries), e.expires > now,
                        e.key \notin {f.key : f \in Bars!ToSet(entries')},
                        NEW f \in Bars!ToSet(entries) \cap Bars!ToSet(entries')
                 PROVE  f.expires > now
      BY DEF Bars!GoodOnesStay
    <3>1. PICK k \in DOMAIN entries : e = entries[k]
      BY DEF Bars!ToSet
    <3> QED BY <2>8, <3>1
  <2> QED BY <2>7, <2>9
<1> QED BY <1>3, <1>4

LEMMA BarsKeep == ASSUME BarsInv, Bars!Next PROVE BarsInv' /\ Bars!GoodOnesStay
<1>1. CASE Bars!Tick
  <2>1. /\ now \in 0 .. LastTick /\ now < LastTick /\ now' = now + 1 /\ entries' = entries /\ thread' = thread
        /\ EntriesSound(entries, now) /\ thread \in [Threads -> BarThread] /\ \A t \in Threads : ThreadSound(thread[t], now)
    BY <1>1 DEF Bars!Tick, BarsInv
  <2>2. now \in Nat /\ now' \in Nat /\ now <= now' /\ now' \in 0 .. LastTick
    BY <2>1, BarsConstants
  <2>3. EntriesSound(entries, now')
    BY <2>1, <2>2, EntriesLater
  <2>4. ASSUME NEW t \in Threads PROVE ThreadSound(thread[t], now')
    <3>1. thread[t] \in BarThread /\ ThreadSound(thread[t], now)
      BY <2>1
    <3>2. thread[t].value.at \in Nat /\ thread[t].started \in Nat
      BY <3>1, BarsConstants DEF BarThread, Answer
    <3>3. thread[t].value.at <= now' /\ thread[t].started <= now'
      BY <2>2, <3>1, <3>2 DEF ThreadSound
    <3> QED BY <3>1, <3>3 DEF ThreadSound
  <2>5. BarsInv'
    BY <2>1, <2>2, <2>3, <2>4 DEF BarsInv
  <2> QED BY <2>1, <2>5 DEF Bars!GoodOnesStay
<1>2. ASSUME NEW t \in Threads, NEW q \in Queries, Bars!Ask(t, q) PROVE BarsInv' /\ Bars!GoodOnesStay
  <2> DEFINE new == [Bars!Fresh EXCEPT !.step = "lookup", !.query = q]
  <2>1. thread' = [thread EXCEPT ![t] = new] /\ now' = now /\ entries' = entries
    BY <1>2 DEF Bars!Ask
  <2>2. now \in Nat /\ 0 \in 0 .. LastTick /\ 1 \in DOMAIN BarProviders
    BY BarsConstants DEF BarsInv
  <2>3. new \in BarThread /\ new.step = "lookup" /\ new.query = q /\ new.value.at = 0 /\ new.started = 0
    BY <2>2 DEF Bars!Fresh, Bars!NoAnswer, BarThread, Answer
  <2> HIDE DEF new
  <2>4. ThreadSound(new, now)
    BY <2>2, <2>3 DEF ThreadSound
  <2>5. EntriesSound(entries', now)
    BY <2>1 DEF BarsInv
  <2>6. BarsInv'
    BY <2>1, <2>3, <2>4, <2>5, BarsMove
  <2> QED BY <2>1, <2>6 DEF Bars!GoodOnesStay
<1> QED BY <1>1, <1>2, LookupKeeps, LoadKeeps, StoreKeeps DEF Bars!Next

LEMMA BarsStart == Bars!Init => BarsInv
<1> SUFFICES ASSUME Bars!Init PROVE BarsInv
  OBVIOUS
<1>1. now = 0 /\ entries = <<>> /\ thread = [t \in Threads |-> Bars!Fresh]
  BY DEF Bars!Init
<1>2. 0 \in 0 .. LastTick /\ 1 \in DOMAIN BarProviders
  BY BarsConstants
<1>3. Bars!Fresh \in BarThread /\ ThreadSound(Bars!Fresh, 0)
  BY <1>2 DEF Bars!Fresh, Bars!NoAnswer, BarThread, Answer, ThreadSound
<1>4. EntriesSound(entries, 0)
  BY <1>1, BarsConstants DEF EntriesSound, OneOfAKey
<1> QED BY <1>1, <1>2, <1>3, <1>4 DEF BarsInv

LEMMA BarsSound == BarsInv => Bars!CacheInv
<1> SUFFICES ASSUME BarsInv PROVE Bars!CacheInv
  OBVIOUS
<1>1. now \in 0 .. LastTick /\ now \in Nat
  BY BarsConstants DEF BarsInv
<1>2. ASSUME NEW i \in DOMAIN entries
      PROVE  /\ entries[i].key \in Bars!ToSet(BarProviders) \X Queries
             /\ entries[i].value \in [at : 0 .. now, rows : BOOLEAN]
  <2>1. entries[i] \in BarEntry /\ entries[i].value.at <= now
    BY DEF BarsInv, EntriesSound, EntrySound
  <2>2. entries[i].value \in Answer /\ entries[i].key \in Bars!ToSet(BarProviders) \X Queries
    BY <2>1 DEF BarEntry
  <2> QED BY <1>1, <2>1, <2>2, BarsConstants DEF Answer
<1>3. Bars!TypeOK
  BY <1>1, <1>2 DEF Bars!TypeOK, BarsInv, BarThread
<1>4. Bars!AnswersRecent
  BY DEF Bars!AnswersRecent, Bars!At, BarsInv, ThreadSound
<1>5. Bars!Bounded
  BY DEF Bars!Bounded, BarsInv, EntriesSound, OneOfAKey
<1> QED BY <1>3, <1>4, <1>5 DEF Bars!CacheInv

\* Whatever loads overlap and finish late, an answer from the cache is no older than
\* its lifetime, the cache keeps to its limit with one entry of a key, and an entry that
\* is still good is given up only when all of the others are good too.
THEOREM BarsAlwaysRight == RecordsSpec => BarsRight
<1>1. RecordsInit => BarsInv
  BY BarsStart DEF RecordsInit
<1>2. BarsInv /\ [RecordsNext]_records => BarsInv'
  <2>1. BarsInv /\ UNCHANGED bars => BarsInv'
    BY DEF bars, BarsInv
  <2>2. [RecordsNext]_records => Bars!Next \/ UNCHANGED bars
    BY DEF RecordsNext, records, WriteLog, ImportOpening, Administer, Connect, SyncMarket, ShowDividends, Trade, Reconcile
  <2> QED BY <2>1, <2>2, BarsKeep
<1>3. BarsInv /\ BarsInv' /\ [RecordsNext]_records => [Bars!CacheInv' /\ Bars!GoodOnesStay]_records
  <2> SUFFICES ASSUME BarsInv, BarsInv', RecordsNext PROVE Bars!CacheInv' /\ Bars!GoodOnesStay
    OBVIOUS
  <2>1. Bars!CacheInv'
    BY BarsSound, PTL
  <2>2. Bars!Next \/ UNCHANGED bars
    BY DEF RecordsNext, records, WriteLog, ImportOpening, Administer, Connect, SyncMarket, ShowDividends, Trade, Reconcile
  <2>3. UNCHANGED bars => Bars!GoodOnesStay
    BY DEF bars, Bars!GoodOnesStay
  <2> QED BY <2>1, <2>2, <2>3, BarsKeep
<1> QED BY <1>1, <1>2, <1>3, PTL DEF RecordsSpec, BarsRight

-------------------------------------------------------------------------------
(* The tax on dividend shares.  In date order the pool is what the dividends brought *)
(* less what the sales were taxed on, so a sale is taxed on what is left of it.      *)

\* A family of sets that has every subset of K all of whose smaller subsets it has,
\* has all subsets of K.
LEMMA SubsetInduction ==
    ASSUME NEW K, IsFiniteSet(K), NEW G,
           \A T \in SUBSET K : (\A U \in SUBSET T : U # T => U \in G) => T \in G
    PROVE  \A T \in SUBSET K : T \in G
<1> DEFINE Missing == {T \in SUBSET K : T \notin G}
           Sizes == {Cardinality(T) : T \in Missing}
<1>1. \A T \in SUBSET K : IsFiniteSet(T) /\ Cardinality(T) \in Nat
  BY FS_Subset, FS_CardinalityType
<1> SUFFICES ASSUME Missing # {} PROVE FALSE
  OBVIOUS
<1>2. Sizes \in SUBSET Nat /\ Sizes # {}
  BY <1>1
<1>3. PICK n \in Sizes : \A m \in Sizes : n <= m
  <2> HIDE DEF Sizes
  <2> QED BY <1>2, LeastElement
<1>4. PICK T \in Missing : Cardinality(T) = n
  OBVIOUS
<1>5. \A U \in SUBSET T : U # T => U \in G
  <2> SUFFICES ASSUME NEW U \in SUBSET T, U # T, U \notin G PROVE FALSE
    OBVIOUS
  <2>1. Cardinality(U) <= Cardinality(T) /\ Cardinality(U) # Cardinality(T)
    BY <1>1, FS_Subset
  <2>2. U \in Missing
    OBVIOUS
  <2>3. n <= Cardinality(U)
    BY <2>2, <1>3
  <2> QED BY <2>1, <2>3, <1>1, <1>4
<1> QED BY <1>5

LEMMA TradeConstants ==
    /\ TradeDays \subseteq Nat /\ Quantities \subseteq Nat \ {0} /\ SalePrices \subseteq Nat \ {0}
    /\ Opening \in Nat /\ Par \in Nat /\ UserTaxes \subseteq Nat
    /\ MaxTrades \in Nat /\ MaxCorrections \in Nat
  BY TaxFits DEF Tax!TaxConstants

\* The ids of a ledger are finitely many.
LEMMA IdsFinite ==
    ASSUME NEW events \in Seq(Tax!Event)
    PROVE  /\ IsFiniteSet(DOMAIN events) /\ DOMAIN events \subseteq Nat
           /\ \A i \in DOMAIN events : /\ events[i] \in Tax!Event /\ events[i].day \in Nat
                                       /\ events[i].quantity \in Nat /\ events[i].taxable \in Nat
<1>1. Len(events) \in Nat /\ DOMAIN events = 1 .. Len(events)
  OBVIOUS
<1>2. IsFiniteSet(DOMAIN events)
  BY <1>1, FS_Interval
<1>3. \A i \in DOMAIN events : events[i] \in Tax!Event
  BY ElementOfSeq
<1>4. \A e \in Tax!Event : e.day \in Nat /\ e.quantity \in Nat /\ e.taxable \in Nat
  BY TradeConstants DEF Tax!Event
<1> QED BY <1>1, <1>2, <1>3, <1>4

\* The replay order is total.
LEMMA BeforeIsOrder ==
    ASSUME NEW events \in Seq(Tax!Event)
    PROVE  /\ \A i \in DOMAIN events : Tax!Before(events, i, i)
           /\ \A i, j \in DOMAIN events : Tax!Before(events, i, j) \/ Tax!Before(events, j, i)
           /\ \A i, j \in DOMAIN events : Tax!Before(events, i, j) /\ Tax!Before(events, j, i) => i = j
           /\ \A i, j, k \in DOMAIN events :
                Tax!Before(events, i, j) /\ Tax!Before(events, j, k) => Tax!Before(events, i, k)
  BY IdsFinite DEF Tax!Before

\* Some event of every set of them comes last.
LEMMA LastComesLast ==
    ASSUME NEW events \in Seq(Tax!Event), NEW S \in SUBSET DOMAIN events, S # {}
    PROVE  Tax!Last(events, S) \in S /\ \A j \in S : Tax!Before(events, j, Tax!Last(events, S))
<1> DEFINE G == {T \in SUBSET DOMAIN events : T = {} \/ \E i \in T : \A j \in T : Tax!Before(events, j, i)}
<1>1. \A T \in SUBSET DOMAIN events : (\A U \in SUBSET T : U # T => U \in G) => T \in G
  <2> SUFFICES ASSUME NEW T \in SUBSET DOMAIN events, \A U \in SUBSET T : U # T => U \in G, T # {}
               PROVE  \E i \in T : \A j \in T : Tax!Before(events, j, i)
    OBVIOUS
  <2>1. PICK x \in T : TRUE
    OBVIOUS
  <2>2. T \ {x} \in G
    OBVIOUS
  <2>3. CASE T \ {x} = {}
    BY <2>3, BeforeIsOrder
  <2>4. CASE T \ {x} # {}
    <3>1. PICK i \in T \ {x} : \A j \in T \ {x} : Tax!Before(events, j, i)
      BY <2>2, <2>4
    <3>2. CASE Tax!Before(events, x, i)
      BY <3>1, <3>2
    <3>3. CASE Tax!Before(events, i, x)
      <4>1. \A j \in T : Tax!Before(events, j, x)
        BY <3>1, <3>3, BeforeIsOrder
      <4> QED BY <4>1
    <3> QED BY <3>2, <3>3, BeforeIsOrder
  <2> QED BY <2>3, <2>4
<1>2. S \in G
  <2> HIDE DEF G
  <2> QED BY <1>1, SubsetInduction, IdsFinite
<1> QED BY <1>2 DEF Tax!Last

\* The pool after each set of the events of K.
Pools(events, K, g) ==
    [T \in SUBSET K |-> IF T = {} THEN 0
                        ELSE Tax!PoolStep(g[T \ {Tax!Last(events, T)}], events[Tax!Last(events, T)])]

\* The pools exist.
LEMMA PoolsExist ==
    ASSUME NEW events \in Seq(Tax!Event), NEW K \in SUBSET DOMAIN events
    PROVE  \E g : g = Pools(events, K, g)
<1> DEFINE last(T) == Tax!Last(events, T)
           Upto(n) == {T \in SUBSET K : Cardinality(T) <= n}
           Good(n) == \E g : \A T \in Upto(n) : g[T] = Pools(events, K, g)[T]
           Missing == {n \in Nat : ~Good(n)}
<1>0. IsFiniteSet(K)
  BY IdsFinite, FS_Subset
<1>1. \A T \in SUBSET K : IsFiniteSet(T) /\ Cardinality(T) \in Nat
  BY <1>0, FS_Subset, FS_CardinalityType
<1>2. \A T \in SUBSET K : T # {} => /\ last(T) \in T
                                    /\ T \ {last(T)} \in SUBSET K
                                    /\ Cardinality(T \ {last(T)}) = Cardinality(T) - 1
  <2> SUFFICES ASSUME NEW T \in SUBSET K, T # {}
               PROVE  /\ last(T) \in T /\ T \ {last(T)} \in SUBSET K
                      /\ Cardinality(T \ {last(T)}) = Cardinality(T) - 1
    OBVIOUS
  <2>1. last(T) \in T
    BY LastComesLast
  <2> QED BY <2>1, <1>1, FS_RemoveElement
<1> HIDE DEF last
<1>5. \A g : \A T \in SUBSET K :
        Pools(events, K, g)[T] = IF T = {} THEN 0 ELSE Tax!PoolStep(g[T \ {last(T)}], events[last(T)])
  BY DEF Pools, last
<1>3. Missing = {}
  <2> SUFFICES ASSUME Missing # {} PROVE FALSE
    OBVIOUS
  <2>1. PICK n \in Missing : \A m \in Missing : n <= m
    <3>1. Missing \in SUBSET Nat
      OBVIOUS
    <3> HIDE DEF Missing
    <3> QED BY <3>1, LeastElement
  <2>2. CASE n = 0
    <3>1. \A T \in Upto(0) : T = {}
      BY <1>1, FS_EmptySet
    <3> DEFINE none == [T \in SUBSET K |-> 0]
    <3>2. \A T \in Upto(0) : none[T] = Pools(events, K, none)[T]
      BY <3>1, <1>5
    <3> QED BY <3>2, <2>2
  <2>3. CASE n # 0
    <3>1. Good(n - 1)
      <4>1. n - 1 \in Nat /\ ~(n <= n - 1)
        BY <2>3
      <4> HIDE DEF Good
      <4> QED BY <4>1, <2>1
    <3>2. PICK g : \A T \in Upto(n - 1) : g[T] = Pools(events, K, g)[T]
      BY <3>1
    <3> DEFINE h == Pools(events, K, g)
    <3>3. \A T \in Upto(n) : h[T] = Pools(events, K, h)[T]
      <4> SUFFICES ASSUME NEW T \in Upto(n) PROVE h[T] = Pools(events, K, h)[T]
        OBVIOUS
      <4>1. CASE T = {}
        BY <4>1, <1>5
      <4>2. CASE T # {}
        <5> DEFINE less == T \ {last(T)}
        <5>1. less \in Upto(n - 1)
          <6>1. T \in SUBSET K /\ Cardinality(T) <= n /\ n \in Nat
            OBVIOUS
          <6>2. less \in SUBSET K /\ Cardinality(less) = Cardinality(T) - 1 /\ Cardinality(T) \in Nat
            BY <4>2, <6>1, <1>1, <1>2
          <6>3. Cardinality(less) <= n - 1
            BY <6>1, <6>2
          <6> QED BY <6>2, <6>3
        <5>2. h[less] = g[less]
          BY <5>1, <3>2
        <5>3. h[T] = Tax!PoolStep(g[less], events[last(T)])
          BY <4>2, <1>5
        <5>4. Pools(events, K, h)[T] = Tax!PoolStep(h[less], events[last(T)])
          <6> HIDE DEF h
          <6> QED BY <4>2, <1>5
        <5> HIDE DEF h, less
        <5> QED BY <5>2, <5>3, <5>4
      <4> QED BY <4>1, <4>2
    <3> HIDE DEF h
    <3> QED BY <3>3
  <2> QED BY <2>2, <2>3
<1>4. PICK g : \A T \in Upto(Cardinality(K)) : g[T] = Pools(events, K, g)[T]
  BY <1>3, <1>1
<1>6. \A T \in SUBSET K : g[T] = Pools(events, K, g)[T]
  BY <1>0, <1>4, FS_Subset
<1> DEFINE h == Pools(events, K, g)
<1>7. \A T \in SUBSET K : h[T] = g[T]
  BY <1>6
<1>8. h = Pools(events, K, h)
  <2>1. \A T \in SUBSET K : T # {} => h[T \ {last(T)}] = g[T \ {last(T)}]
    BY <1>2, <1>7
  <2>2. Pools(events, K, h) = [T \in SUBSET K |-> IF T = {} THEN 0 ELSE Tax!PoolStep(h[T \ {last(T)}], events[last(T)])]
    BY DEF Pools, last
  <2>3. h = [T \in SUBSET K |-> IF T = {} THEN 0 ELSE Tax!PoolStep(g[T \ {last(T)}], events[last(T)])]
    BY DEF Pools, last
  <2> HIDE DEF h
  <2> QED BY <2>1, <2>2, <2>3
<1> QED BY <1>8

\* The pool is the last of them.
LEMMA PoolIsAPool ==
    ASSUME NEW events \in Seq(Tax!Event), NEW K \in SUBSET DOMAIN events
    PROVE  \E g : g = Pools(events, K, g) /\ Tax!PoolAfter(events, K) = g[K]
<1> DEFINE g == CHOOSE h : h = Pools(events, K, h)
<1>1. g = Pools(events, K, g)
  BY PoolsExist
<1>2. Tax!PoolAfter(events, K) = g[K]
  BY DEF Tax!PoolAfter, Pools
<1> QED BY <1>1, <1>2

\* The pools agree wherever they are defined.
LEMMA PoolsAgree ==
    ASSUME NEW events \in Seq(Tax!Event), NEW K \in SUBSET DOMAIN events, NEW L \in SUBSET K,
           NEW g, g = Pools(events, K, g), NEW h, h = Pools(events, L, h)
    PROVE  g[L] = h[L]
<1> DEFINE G == {T \in SUBSET L : g[T] = h[T]}
<1>1. \A T \in SUBSET L : (\A U \in SUBSET T : U # T => U \in G) => T \in G
  <2> SUFFICES ASSUME NEW T \in SUBSET L, \A U \in SUBSET T : U # T => U \in G
               PROVE  g[T] = h[T]
    OBVIOUS
  <2> DEFINE last == Tax!Last(events, T)
  <2>1. g[T] = (IF T = {} THEN 0 ELSE Tax!PoolStep(g[T \ {last}], events[last]))
    BY DEF Pools
  <2>2. h[T] = (IF T = {} THEN 0 ELSE Tax!PoolStep(h[T \ {last}], events[last]))
    BY DEF Pools
  <2>3. T # {} => T \ {last} \in G
    <3>1. T # {} => last \in T
      BY LastComesLast
    <3> QED BY <3>1
  <2> HIDE DEF last
  <2>4. T # {} => g[T \ {last}] = h[T \ {last}]
    BY <2>3
  <2> QED BY <2>1, <2>2, <2>4
<1>2. IsFiniteSet(L)
  BY IdsFinite, FS_Subset
<1>3. L \in G
  <2> HIDE DEF G
  <2> QED BY <1>1, <1>2, SubsetInduction
<1> QED BY <1>3

\* The pool follows the events in replay order.
LEMMA PoolFollowsEvents ==
    ASSUME NEW events \in Seq(Tax!Event), NEW S \in SUBSET DOMAIN events
    PROVE  Tax!PoolAfter(events, S) =
             IF S = {} THEN 0
             ELSE Tax!PoolStep(Tax!PoolAfter(events, S \ {Tax!Last(events, S)}), events[Tax!Last(events, S)])
<1> DEFINE less == S \ {Tax!Last(events, S)}
<1>1. PICK g : g = Pools(events, S, g) /\ Tax!PoolAfter(events, S) = g[S]
  BY PoolIsAPool
<1>2. less \in SUBSET DOMAIN events /\ less \in SUBSET S
  OBVIOUS
<1>3. PICK h : h = Pools(events, less, h) /\ Tax!PoolAfter(events, less) = h[less]
  BY <1>2, PoolIsAPool
<1>4. g[less] = h[less]
  <2>1. g = Pools(events, S, g) /\ h = Pools(events, less, h)
    BY <1>1, <1>3
  <2> HIDE DEF less
  <2> QED BY <1>2, <2>1, PoolsAgree
<1>5. g[S] = IF S = {} THEN 0 ELSE Tax!PoolStep(g[less], events[Tax!Last(events, S)])
  BY <1>1 DEF Pools
<1> QED BY <1>1, <1>3, <1>4, <1>5

\* The pool never runs below zero.
LEMMA PoolType ==
    ASSUME NEW events \in Seq(Tax!Event), NEW S \in SUBSET DOMAIN events
    PROVE  Tax!PoolAfter(events, S) \in Nat
<1> DEFINE G == {T \in SUBSET DOMAIN events : Tax!PoolAfter(events, T) \in Nat}
<1>1. \A T \in SUBSET DOMAIN events : (\A U \in SUBSET T : U # T => U \in G) => T \in G
  <2> SUFFICES ASSUME NEW T \in SUBSET DOMAIN events, \A U \in SUBSET T : U # T => U \in G
               PROVE  Tax!PoolAfter(events, T) \in Nat
    OBVIOUS
  <2>1. CASE T = {}
    <3>1. Tax!PoolAfter(events, T) = 0
      BY <2>1, PoolFollowsEvents
    <3> QED BY <3>1
  <2>2. CASE T # {}
    <3> DEFINE last == Tax!Last(events, T)
               before == Tax!PoolAfter(events, T \ {last})
    <3>1. last \in T
      BY <2>2, LastComesLast
    <3>2. before \in Nat
      BY <3>1
    <3>3. events[last].quantity \in Nat /\ events[last].taxable \in Nat
      BY <3>1, IdsFinite
    <3>4. Tax!PoolAfter(events, T) = Tax!PoolStep(before, events[last])
      BY <2>2, PoolFollowsEvents
    <3> HIDE DEF before
    <3> QED BY <3>2, <3>3, <3>4 DEF Tax!PoolStep, Tax!Greater
  <2> QED BY <2>1, <2>2
<1>2. S \in G
  <2> HIDE DEF G
  <2> QED BY <1>1, SubsetInduction, IdsFinite
<1> QED BY <1>2

\* A unit of one index is counted once.
LEMMA UnitsOfOne ==
    ASSUME NEW n \in Nat, NEW i
    PROVE  IsFiniteSet({i} \X (1 .. n)) /\ Cardinality({i} \X (1 .. n)) = n
<1>1. IsFiniteSet(1 .. n) /\ Cardinality(1 .. n) = n
  BY FS_Interval
<1>2. IsFiniteSet({i}) /\ Cardinality({i}) = 1
  BY FS_Singleton
<1>3. IsFiniteSet({i} \X (1 .. n)) /\ Cardinality({i} \X (1 .. n)) = 1 * n
  BY <1>1, <1>2, FS_Product
<1> QED BY <1>3

\* The units counted of finitely many indices are finitely many.
LEMMA SharesFinite ==
    ASSUME NEW S, IsFiniteSet(S), NEW f, \A j \in S : f[j] \in Nat
    PROVE  IsFiniteSet(Tax!Shares(f, S))
<1> DEFINE G == {T \in SUBSET S : IsFiniteSet(Tax!Shares(f, T))}
<1>1. \A T \in SUBSET S : (\A U \in SUBSET T : U # T => U \in G) => T \in G
  <2> SUFFICES ASSUME NEW T \in SUBSET S, \A U \in SUBSET T : U # T => U \in G
               PROVE  IsFiniteSet(Tax!Shares(f, T))
    OBVIOUS
  <2>1. CASE T = {}
    <3>1. Tax!Shares(f, T) = {}
      BY <2>1 DEF Tax!Shares
    <3> QED BY <3>1, FS_EmptySet
  <2>2. CASE T # {}
    <3>1. PICK x \in T : TRUE
      BY <2>2
    <3>2. T \ {x} \in G
      OBVIOUS
    <3>3. IsFiniteSet({x} \X (1 .. f[x]))
      BY UnitsOfOne
    <3> DEFINE more == {x} \X (1 .. f[x])
    <3>4. Tax!Shares(f, T) = Tax!Shares(f, T \ {x}) \cup more
      BY DEF Tax!Shares
    <3>5. IsFiniteSet(Tax!Shares(f, T \ {x}))
      BY <3>2
    <3> HIDE DEF more
    <3>6. IsFiniteSet(Tax!Shares(f, T \ {x}) \cup more)
      BY <3>3, <3>5, FS_Union DEF more
    <3> QED BY <3>4, <3>6
  <2> QED BY <2>1, <2>2
<1>2. S \in G
  <2> HIDE DEF G
  <2> QED BY <1>1, SubsetInduction
<1> QED BY <1>2

\* The units counted with one more index.
LEMMA SharesAdd ==
    ASSUME NEW S, IsFiniteSet(S), NEW i, i \notin S, NEW f, \A j \in S \cup {i} : f[j] \in Nat
    PROVE  /\ Cardinality(Tax!Shares(f, S)) \in Nat
           /\ Cardinality(Tax!Shares(f, S \cup {i})) = Cardinality(Tax!Shares(f, S)) + f[i]
<1> DEFINE old == Tax!Shares(f, S)
           new == Tax!Shares(f, S \cup {i})
           more == {i} \X (1 .. f[i])
<1>1. f[i] \in Nat
  OBVIOUS
<1>2. IsFiniteSet(more) /\ Cardinality(more) = f[i]
  BY <1>1, UnitsOfOne
<1>3. IsFiniteSet(old)
  BY SharesFinite
<1>4. new = old \cup more /\ old \cap more = {}
  BY DEF Tax!Shares
<1> HIDE DEF old, new, more
<1>5. Cardinality(new) = Cardinality(old) + Cardinality(more) - Cardinality(old \cap more)
  BY <1>2, <1>3, <1>4, FS_Union
<1>6. Cardinality(old \cap more) = 0 /\ Cardinality(old) \in Nat
  BY <1>3, <1>4, FS_EmptySet, FS_CardinalityType
<1>7. Cardinality(new) = Cardinality(old) + f[i]
  BY <1>1, <1>2, <1>5, <1>6
<1> QED BY <1>6, <1>7 DEF old, new

\* What is counted depends on the numbers alone.
LEMMA SharesSame ==
    ASSUME NEW S, NEW f, NEW g, \A j \in S : f[j] = g[j]
    PROVE  Tax!Shares(f, S) = Tax!Shares(g, S)
<1>1. \A j \in S : {j} \X (1 .. f[j]) = {j} \X (1 .. g[j])
  OBVIOUS
<1> QED BY <1>1 DEF Tax!Shares

LEMMA TaxCardinality == \A S : Tax!Cardinality(S) = Cardinality(S)
  BY DEF Tax!Cardinality, Cardinality, Tax!IsFiniteSet, IsFiniteSet

\* What each event brings and is taxed on.
Brought(e) == IF e.type = "STOCK_DIVIDEND" THEN e.quantity ELSE 0
TaxedOn(e) == IF e.type = "SELL" THEN e.taxable ELSE 0

\* The totals with one more event.
LEMMA TotalsAdd ==
    ASSUME NEW events \in Seq(Tax!Event), NEW S \in SUBSET DOMAIN events, NEW i \in DOMAIN events, i \notin S
    PROVE  /\ Tax!Received(events, S) \in Nat /\ Tax!Taxed(events, S) \in Nat
           /\ Tax!Received(events, S \cup {i}) = Tax!Received(events, S) + Brought(events[i])
           /\ Tax!Taxed(events, S \cup {i}) = Tax!Taxed(events, S) + TaxedOn(events[i])
<1> DEFINE Dividends(T) == {j \in T : events[j].type = "STOCK_DIVIDEND"}
           Sold(T) == {j \in T : events[j].type = "SELL"}
           quantity == [j \in DOMAIN events |-> events[j].quantity]
           taxable == [j \in DOMAIN events |-> events[j].taxable]
<1>0. \A j \in DOMAIN events : /\ quantity[j] = events[j].quantity /\ quantity[j] \in Nat
                               /\ taxable[j] = events[j].taxable /\ taxable[j] \in Nat
  BY IdsFinite
<1>1. ASSUME NEW T \in SUBSET DOMAIN events
      PROVE  Tax!Received(events, T) = Cardinality(Tax!Shares(quantity, Dividends(T)))
  <2> DEFINE f == [j \in Dividends(T) |-> events[j].quantity]
  <2>1. Tax!Received(events, T) = Cardinality(Tax!Shares(f, Dividends(T)))
    BY TaxCardinality DEF Tax!Received, Tax!Moved
  <2>2. \A j \in Dividends(T) : f[j] = quantity[j]
    OBVIOUS
  <2> HIDE DEF f, quantity, Dividends
  <2> QED BY <2>1, <2>2, SharesSame
<1>2. ASSUME NEW T \in SUBSET DOMAIN events
      PROVE  Tax!Taxed(events, T) = Cardinality(Tax!Shares(taxable, Sold(T)))
  <2> DEFINE f == [j \in T |-> events[j].taxable]
  <2>1. Tax!Taxed(events, T) = Cardinality(Tax!Shares(f, Sold(T)))
    BY TaxCardinality DEF Tax!Taxed
  <2>2. \A j \in Sold(T) : f[j] = taxable[j]
    OBVIOUS
  <2> HIDE DEF f, taxable, Sold
  <2> QED BY <2>1, <2>2, SharesSame
<1>3. S \cup {i} \in SUBSET DOMAIN events
  OBVIOUS
<1>4. IsFiniteSet(Dividends(S)) /\ IsFiniteSet(Sold(S)) /\ i \notin Dividends(S) /\ i \notin Sold(S)
  <2>1. Dividends(S) \in SUBSET DOMAIN events /\ Sold(S) \in SUBSET DOMAIN events
    OBVIOUS
  <2> QED BY <2>1, IdsFinite, FS_Subset
<1>5. /\ Cardinality(Tax!Shares(quantity, Dividends(S))) \in Nat
      /\ Cardinality(Tax!Shares(quantity, Dividends(S) \cup {i})) =
           Cardinality(Tax!Shares(quantity, Dividends(S))) + quantity[i]
  <2>1. \A j \in Dividends(S) \cup {i} : quantity[j] \in Nat
    BY <1>0
  <2> HIDE DEF quantity, Dividends
  <2> QED BY <1>4, <2>1, SharesAdd
<1>6. /\ Cardinality(Tax!Shares(taxable, Sold(S))) \in Nat
      /\ Cardinality(Tax!Shares(taxable, Sold(S) \cup {i})) =
           Cardinality(Tax!Shares(taxable, Sold(S))) + taxable[i]
  <2>1. \A j \in Sold(S) \cup {i} : taxable[j] \in Nat
    BY <1>0
  <2> HIDE DEF taxable, Sold
  <2> QED BY <1>4, <2>1, SharesAdd
<1>7. Dividends(S \cup {i}) = IF events[i].type = "STOCK_DIVIDEND" THEN Dividends(S) \cup {i} ELSE Dividends(S)
  OBVIOUS
<1>8. Sold(S \cup {i}) = IF events[i].type = "SELL" THEN Sold(S) \cup {i} ELSE Sold(S)
  OBVIOUS
<1>9. Tax!Received(events, S) \in Nat /\ Tax!Taxed(events, S) \in Nat
  BY <1>1, <1>2, <1>5, <1>6
<1> HIDE DEF quantity, taxable, Dividends, Sold
<1>10. Tax!Received(events, S \cup {i}) = Tax!Received(events, S) + Brought(events[i])
  <2>1. CASE events[i].type = "STOCK_DIVIDEND"
    BY <1>0, <1>1, <1>3, <1>5, <1>7, <2>1 DEF Brought
  <2>2. CASE events[i].type # "STOCK_DIVIDEND"
    BY <1>1, <1>3, <1>7, <1>9, <2>2 DEF Brought
  <2> QED BY <2>1, <2>2
<1>11. Tax!Taxed(events, S \cup {i}) = Tax!Taxed(events, S) + TaxedOn(events[i])
  <2>1. CASE events[i].type = "SELL"
    BY <1>0, <1>2, <1>3, <1>6, <1>8, <2>1 DEF TaxedOn
  <2>2. CASE events[i].type # "SELL"
    BY <1>2, <1>3, <1>8, <1>9, <2>2 DEF TaxedOn
  <2> QED BY <2>1, <2>2
<1> QED BY <1>9, <1>10, <1>11

\* Nothing brought and nothing taxed.
LEMMA TotalsEmpty == \A events : Tax!Received(events, {}) = 0 /\ Tax!Taxed(events, {}) = 0
<1> SUFFICES ASSUME NEW events PROVE Tax!Received(events, {}) = 0 /\ Tax!Taxed(events, {}) = 0
  OBVIOUS
<1>1. \A f : Tax!Shares(f, {}) = {}
  BY DEF Tax!Shares
<1>2. {j \in {} : events[j].type = "STOCK_DIVIDEND"} = {} /\ {j \in {} : events[j].type = "SELL"} = {}
  OBVIOUS
<1>3. Tax!Cardinality({}) = 0
  BY TaxCardinality, FS_EmptySet
<1>4. Tax!Received(events, {}) = 0
  BY <1>1, <1>2, <1>3 DEF Tax!Received, Tax!Moved
<1>5. Tax!Taxed(events, {}) = 0
  BY <1>1, <1>2, <1>3 DEF Tax!Taxed
<1> QED BY <1>4, <1>5

\* The totals depend on the events alone.
LEMMA TotalsSame ==
    ASSUME NEW events, NEW other, NEW S, \A j \in S : other[j] = events[j]
    PROVE  Tax!Received(other, S) = Tax!Received(events, S) /\ Tax!Taxed(other, S) = Tax!Taxed(events, S)
<1> DEFINE R == {j \in S : events[j].type = "STOCK_DIVIDEND"}
           L == {j \in S : events[j].type = "SELL"}
<1>1. {j \in S : other[j].type = "STOCK_DIVIDEND"} = R /\ {j \in S : other[j].type = "SELL"} = L
  OBVIOUS
<1>2. [j \in R |-> other[j].quantity] = [j \in R |-> events[j].quantity]
  OBVIOUS
<1>3. [j \in S |-> other[j].taxable] = [j \in S |-> events[j].taxable]
  OBVIOUS
<1>4. Tax!Received(other, S) = Tax!Received(events, S)
  BY <1>1, <1>2 DEF Tax!Received, Tax!Moved
<1>5. Tax!Taxed(other, S) = Tax!Taxed(events, S)
  BY <1>1, <1>3 DEF Tax!Taxed
<1> QED BY <1>4, <1>5

\* Every dividend share is taxed once, by the first sales after it.
TaxedInOrder(events) ==
    \A i \in Tax!LiveIn(events) : events[i].type = "SELL" =>
      /\ Tax!Taxed(events, Tax!UpTo(events, i)) <= Tax!Received(events, Tax!UpTo(events, i))
      /\ events[i].taxable < events[i].quantity =>
           Tax!Taxed(events, Tax!UpTo(events, i)) = Tax!Received(events, Tax!UpTo(events, i))

\* The live events and those up to one of them.
LEMMA UpToLive ==
    ASSUME NEW events \in Seq(Tax!Event)
    PROVE  /\ Tax!LiveIn(events) \in SUBSET DOMAIN events
           /\ \A i : Tax!UpTo(events, i) \in SUBSET Tax!LiveIn(events)
           /\ \A i \in Tax!LiveIn(events) : i \in Tax!UpTo(events, i)
  BY BeforeIsOrder DEF Tax!LiveIn, Tax!UpTo

\* If every dividend share is taxed once, the pool after some of the events is what
\* their dividends brought and their sales were not taxed on.
LEMMA PoolIsWhatIsLeft ==
    ASSUME NEW events \in Seq(Tax!Event), TaxedInOrder(events),
           NEW S \in SUBSET Tax!LiveIn(events), \A i \in S : Tax!UpTo(events, i) \subseteq S
    PROVE  /\ Tax!Taxed(events, S) <= Tax!Received(events, S)
           /\ Tax!PoolAfter(events, S) = Tax!Received(events, S) - Tax!Taxed(events, S)
<1> DEFINE K == Tax!LiveIn(events)
           Closed(T) == \A i \in T : Tax!UpTo(events, i) \subseteq T
           Exact(T) == /\ Tax!Taxed(events, T) <= Tax!Received(events, T)
                       /\ Tax!PoolAfter(events, T) = Tax!Received(events, T) - Tax!Taxed(events, T)
           G == {T \in SUBSET K : Closed(T) => Exact(T)}
<1>1. K \in SUBSET DOMAIN events /\ IsFiniteSet(K)
  BY UpToLive, IdsFinite, FS_Subset
<1>2. \A T \in SUBSET K : (\A U \in SUBSET T : U # T => U \in G) => T \in G
  <2> SUFFICES ASSUME NEW T \in SUBSET K, \A U \in SUBSET T : U # T => U \in G, Closed(T)
               PROVE  Exact(T)
    OBVIOUS
  <2>1. CASE T = {}
    <3>1. Tax!PoolAfter(events, T) = 0
      BY <2>1, PoolFollowsEvents
    <3>2. Tax!Received(events, T) = 0 /\ Tax!Taxed(events, T) = 0
      BY <2>1, TotalsEmpty
    <3> QED BY <3>1, <3>2
  <2>2. CASE T # {}
    <3> DEFINE last == Tax!Last(events, T)
               less == T \ {last}
    <3>1. T \in SUBSET DOMAIN events /\ less \in SUBSET DOMAIN events
      BY <1>1
    <3>2. last \in T /\ \A j \in T : Tax!Before(events, j, last)
      BY <2>2, <3>1, LastComesLast
    <3>3. last \in DOMAIN events /\ last \in K
      BY <3>1, <3>2
    <3>4. Closed(less)
      <4> SUFFICES ASSUME NEW i \in less PROVE Tax!UpTo(events, i) \subseteq less
        OBVIOUS
      <4>1. Tax!UpTo(events, i) \subseteq T
        OBVIOUS
      <4>2. Tax!Before(events, i, last) /\ i # last /\ i \in DOMAIN events
        BY <3>1, <3>2
      <4>3. ~Tax!Before(events, last, i)
        BY <3>3, <4>2, BeforeIsOrder
      <4>4. last \notin Tax!UpTo(events, i)
        BY <4>3 DEF Tax!UpTo
      <4> QED BY <4>1, <4>4
    <3>5. Exact(less)
      <4>1. less \in G
        BY <3>2
      <4> QED BY <3>4, <4>1
    <3>6. Tax!UpTo(events, last) = T
      <4>1. T \subseteq Tax!UpTo(events, last)
        BY <3>2 DEF Tax!UpTo
      <4> QED BY <3>2, <4>1
    <3> DEFINE e == events[last]
               brought == Tax!Received(events, less)
               taxed == Tax!Taxed(events, less)
    <3>7. T = less \cup {last} /\ last \notin less
      BY <3>2
    <3>8. brought \in Nat /\ taxed \in Nat
      BY <3>1, <3>3, <3>7, TotalsAdd
    <3>9. Tax!Received(events, T) = brought + Brought(e) /\ Tax!Taxed(events, T) = taxed + TaxedOn(e)
      <4> HIDE DEF less, last
      <4>1. /\ Tax!Received(events, less \cup {last}) = Tax!Received(events, less) + Brought(events[last])
            /\ Tax!Taxed(events, less \cup {last}) = Tax!Taxed(events, less) + TaxedOn(events[last])
        BY <3>1, <3>3, <3>7, TotalsAdd
      <4> QED BY <3>7, <4>1
    <3>10. e.quantity \in Nat /\ e.taxable \in Nat /\ e \in Tax!Event
      BY <3>3, IdsFinite
    <3>11. Tax!PoolAfter(events, T) = Tax!PoolStep(Tax!PoolAfter(events, less), e)
      BY <2>2, <3>1, PoolFollowsEvents
    <3>12. e.type = "SELL" => taxed + e.taxable <= brought
      <4> SUFFICES ASSUME e.type = "SELL" PROVE taxed + e.taxable <= brought
        OBVIOUS
      <4>1. Tax!Taxed(events, T) <= Tax!Received(events, T)
        BY <3>3, <3>6 DEF TaxedInOrder
      <4>2. Brought(e) = 0 /\ TaxedOn(e) = e.taxable
        BY DEF Brought, TaxedOn
      <4> HIDE DEF e, brought, taxed
      <4> QED BY <3>8, <3>9, <4>1, <4>2
    <3>13. taxed <= brought /\ Tax!PoolAfter(events, less) = brought - taxed
      BY <3>5
    <3> HIDE DEF e, brought, taxed, less, last
    <3>14. CASE e.type = "STOCK_DIVIDEND"
      <4>1. Brought(e) = e.quantity /\ TaxedOn(e) = 0
        BY <3>14 DEF Brought, TaxedOn
      <4>2. Tax!PoolAfter(events, T) = (brought - taxed) + e.quantity
        BY <3>11, <3>13, <3>14 DEF Tax!PoolStep
      <4> QED BY <3>8, <3>9, <3>10, <3>13, <4>1, <4>2
    <3>15. CASE e.type = "SELL"
      <4>1. Brought(e) = 0 /\ TaxedOn(e) = e.taxable /\ taxed + e.taxable <= brought
        BY <3>12, <3>15 DEF Brought, TaxedOn
      <4>2. Tax!PoolAfter(events, T) = brought - taxed - e.taxable
        BY <3>8, <3>10, <3>11, <3>13, <3>15, <4>1 DEF Tax!PoolStep, Tax!Greater
      <4> QED BY <3>8, <3>9, <3>10, <3>13, <4>1, <4>2
    <3>16. CASE e.type \notin {"STOCK_DIVIDEND", "SELL"}
      <4>1. Brought(e) = 0 /\ TaxedOn(e) = 0
        BY <3>16 DEF Brought, TaxedOn
      <4>2. Tax!PoolAfter(events, T) = brought - taxed
        BY <3>11, <3>13, <3>16 DEF Tax!PoolStep
      <4> QED BY <3>8, <3>9, <3>13, <4>1, <4>2
    <3> QED BY <3>14, <3>15, <3>16
  <2> QED BY <2>1, <2>2
<1>3. S \in G
  <2> HIDE DEF G
  <2> QED BY <1>1, <1>2, SubsetInduction
<1> QED BY <1>3

\* An event that comes last and, if it is a sale, is taxed on what the pool has left.
LEMMA EventAdded ==
    ASSUME NEW events \in Seq(Tax!Event), TaxedInOrder(events), NEW other \in Seq(Tax!Event),
           NEW i \in Tax!LiveIn(other), i \notin Tax!LiveIn(events),
           Tax!LiveIn(other) = Tax!LiveIn(events) \cup {i},
           \A j \in Tax!LiveIn(events) : other[j] = events[j] /\ Tax!Before(other, j, i),
           other[i].type = "SELL" =>
             other[i].taxable = Tax!Lesser(other[i].quantity, Tax!PoolAfter(events, Tax!LiveIn(events)))
    PROVE  TaxedInOrder(other)
<1> DEFINE L == Tax!LiveIn(events)
<1>1. L \in SUBSET DOMAIN events /\ L \in SUBSET DOMAIN other /\ i \in DOMAIN other
  BY UpToLive
<1>2. ASSUME NEW j \in L, other[j].type = "SELL"
      PROVE  /\ Tax!Taxed(other, Tax!UpTo(other, j)) <= Tax!Received(other, Tax!UpTo(other, j))
             /\ other[j].taxable < other[j].quantity =>
                  Tax!Taxed(other, Tax!UpTo(other, j)) = Tax!Received(other, Tax!UpTo(other, j))
  <2>1. ~Tax!Before(other, i, j)
    <3>1. j \in DOMAIN other /\ i # j /\ Tax!Before(other, j, i)
      BY <1>1
    <3> QED BY <1>1, <3>1, BeforeIsOrder
  <2>2. \A k \in L : Tax!Before(other, k, j) <=> Tax!Before(events, k, j)
    BY DEF Tax!Before
  <2>3. Tax!UpTo(other, j) = Tax!UpTo(events, j)
    BY <2>1, <2>2 DEF Tax!UpTo
  <2>4. \A k \in Tax!UpTo(events, j) : other[k] = events[k]
    BY UpToLive
  <2>5. /\ Tax!Received(other, Tax!UpTo(events, j)) = Tax!Received(events, Tax!UpTo(events, j))
        /\ Tax!Taxed(other, Tax!UpTo(events, j)) = Tax!Taxed(events, Tax!UpTo(events, j))
    BY <2>4, TotalsSame
  <2>6. other[j] = events[j]
    OBVIOUS
  <2> QED BY <1>2, <2>3, <2>5, <2>6 DEF TaxedInOrder
<1>3. ASSUME other[i].type = "SELL"
      PROVE  /\ Tax!Taxed(other, Tax!UpTo(other, i)) <= Tax!Received(other, Tax!UpTo(other, i))
             /\ other[i].taxable < other[i].quantity =>
                  Tax!Taxed(other, Tax!UpTo(other, i)) = Tax!Received(other, Tax!UpTo(other, i))
  <2> DEFINE brought == Tax!Received(events, L)
             taxed == Tax!Taxed(events, L)
             left == Tax!PoolAfter(events, L)
  <2>1. Tax!UpTo(other, i) = L \cup {i}
    BY <1>1, BeforeIsOrder DEF Tax!UpTo
  <2>2. taxed <= brought /\ left = brought - taxed
    BY PoolIsWhatIsLeft, UpToLive
  <2>3. Tax!Received(other, L) = brought /\ Tax!Taxed(other, L) = taxed
    BY TotalsSame
  <2>4. /\ brought \in Nat /\ taxed \in Nat
        /\ Tax!Received(other, L \cup {i}) = brought + Brought(other[i])
        /\ Tax!Taxed(other, L \cup {i}) = taxed + TaxedOn(other[i])
    <3> HIDE DEF L
    <3>1. L \in SUBSET DOMAIN other /\ i \in DOMAIN other /\ i \notin L
      BY <1>1 DEF L
    <3> QED BY <2>3, <3>1, TotalsAdd, ZenonT(40)
  <2>5. Brought(other[i]) = 0 /\ TaxedOn(other[i]) = other[i].taxable
    BY <1>3 DEF Brought, TaxedOn
  <2>6. other[i].quantity \in Nat /\ other[i].taxable \in Nat
    BY <1>1, IdsFinite
  <2>7. other[i].taxable = Tax!Lesser(other[i].quantity, left)
    BY <1>3
  <2> HIDE DEF brought, taxed, left, L
  <2>8. other[i].taxable <= brought - taxed
    BY <2>2, <2>4, <2>6, <2>7 DEF Tax!Lesser
  <2>9. other[i].taxable < other[i].quantity => other[i].taxable = brought - taxed
    BY <2>2, <2>4, <2>6, <2>7 DEF Tax!Lesser
  <2>10. taxed + other[i].taxable <= brought + 0
    BY <2>4, <2>6, <2>8
  <2>11. other[i].taxable < other[i].quantity => taxed + other[i].taxable = brought + 0
    BY <2>4, <2>6, <2>9
  <2> QED BY <2>1, <2>4, <2>5, <2>10, <2>11
<1>4. ASSUME NEW j \in Tax!LiveIn(other), other[j].type = "SELL"
      PROVE  /\ Tax!Taxed(other, Tax!UpTo(other, j)) <= Tax!Received(other, Tax!UpTo(other, j))
             /\ other[j].taxable < other[j].quantity =>
                  Tax!Taxed(other, Tax!UpTo(other, j)) = Tax!Received(other, Tax!UpTo(other, j))
  <2>1. CASE j = i
    BY <1>3, <1>4, <2>1
  <2>2. CASE j # i
    <3>1. j \in L
      BY <2>2
    <3> HIDE DEF L
    <3> QED BY <1>2, <1>4, <3>1
  <2> QED BY <2>1, <2>2
<1> QED BY <1>4 DEF TaxedInOrder

\* The event that comes last is taken away.
LEMMA EventRemoved ==
    ASSUME NEW events \in Seq(Tax!Event), TaxedInOrder(events), NEW other \in Seq(Tax!Event),
           NEW i \in Tax!LiveIn(events),
           Tax!LiveIn(other) = Tax!LiveIn(events) \ {i},
           \A j \in Tax!LiveIn(events) : Tax!Before(events, j, i),
           \A j \in Tax!LiveIn(other) : other[j] = events[j]
    PROVE  TaxedInOrder(other)
<1> DEFINE L == Tax!LiveIn(other)
<1>1. Tax!LiveIn(events) \in SUBSET DOMAIN events /\ i \in DOMAIN events
  BY UpToLive
<1>2. ASSUME NEW j \in L, other[j].type = "SELL"
      PROVE  /\ Tax!Taxed(other, Tax!UpTo(other, j)) <= Tax!Received(other, Tax!UpTo(other, j))
             /\ other[j].taxable < other[j].quantity =>
                  Tax!Taxed(other, Tax!UpTo(other, j)) = Tax!Received(other, Tax!UpTo(other, j))
  <2>1. ~Tax!Before(events, i, j)
    <3>1. j \in DOMAIN events /\ i # j /\ Tax!Before(events, j, i)
      BY <1>1
    <3> QED BY <1>1, <3>1, BeforeIsOrder
  <2>2. \A k \in L : Tax!Before(other, k, j) <=> Tax!Before(events, k, j)
    BY DEF Tax!Before
  <2>3. Tax!UpTo(other, j) = Tax!UpTo(events, j)
    BY <2>1, <2>2 DEF Tax!UpTo
  <2>4. \A k \in Tax!UpTo(events, j) : other[k] = events[k]
    BY <2>3, UpToLive
  <2>5. /\ Tax!Received(other, Tax!UpTo(events, j)) = Tax!Received(events, Tax!UpTo(events, j))
        /\ Tax!Taxed(other, Tax!UpTo(events, j)) = Tax!Taxed(events, Tax!UpTo(events, j))
    BY <2>4, TotalsSame
  <2>6. other[j] = events[j] /\ j \in Tax!LiveIn(events)
    OBVIOUS
  <2> QED BY <1>2, <2>3, <2>5, <2>6 DEF TaxedInOrder
<1> QED BY <1>2 DEF TaxedInOrder

\* What the policy does to an event: it adds to the tax the user entered the tax on
\* what the pool of its day has left.
LEMMA PolicyTaxes ==
    ASSUME NEW e \in Tax!Event, NEW prior \in Seq(Tax!Event)
    PROVE  /\ Tax!TaxPolicy(e, prior) \in Tax!Event
           /\ Tax!TaxPolicy(e, prior).auto <= Tax!TaxPolicy(e, prior).tax
           /\ Tax!TaxPolicy(e, prior).tax - Tax!TaxPolicy(e, prior).auto = Tax!ManualTax(e)
           /\ Tax!TaxPolicy(e, prior).type = e.type /\ Tax!TaxPolicy(e, prior).day = e.day
           /\ Tax!TaxPolicy(e, prior).quantity = e.quantity /\ Tax!TaxPolicy(e, prior).deleted = e.deleted
           /\ e.type = "SELL" =>
                Tax!TaxPolicy(e, prior).taxable = Tax!Lesser(e.quantity, Tax!TaxablePool(prior, e.day))
<1> DEFINE taxable == IF e.type = "SELL" THEN Tax!Lesser(e.quantity, Tax!TaxablePool(prior, e.day)) ELSE 0
           auto == taxable * Tax!Lesser(Par, e.price)
           new == [e EXCEPT !.tax = Tax!ManualTax(e) + auto, !.taxable = taxable, !.auto = auto]
<1>1. Tax!TaxPolicy(e, prior) = new
  BY DEF Tax!TaxPolicy
<1>2. e.quantity \in Nat /\ e.price \in Nat /\ e.tax \in Nat /\ e.auto \in Nat /\ Par \in Nat
  BY TradeConstants DEF Tax!Event
<1>3. Tax!TaxablePool(prior, e.day) \in Nat
  <2> DEFINE S == {i \in Tax!LiveIn(prior) : prior[i].day <= e.day}
  <2>1. S \in SUBSET DOMAIN prior
    BY UpToLive
  <2> HIDE DEF S
  <2>2. Tax!PoolAfter(prior, S) \in Nat
    BY <2>1, PoolType
  <2> QED BY <2>2 DEF S, Tax!TaxablePool
<1>4. taxable \in Nat
  BY <1>2, <1>3 DEF Tax!Lesser
<1>5. auto \in Nat
  <2>1. Tax!Lesser(Par, e.price) \in Nat
    BY <1>2 DEF Tax!Lesser
  <2> HIDE DEF taxable
  <2>2. \A a, b \in Nat : a * b \in Nat
    OBVIOUS
  <2> QED BY <1>4, <2>1, <2>2
<1>6. Tax!ManualTax(e) \in Nat
  BY <1>2 DEF Tax!ManualTax, Tax!Greater
<1>7. e.type = "SELL" => taxable = Tax!Lesser(e.quantity, Tax!TaxablePool(prior, e.day))
  OBVIOUS
<1> DEFINE tax == Tax!ManualTax(e) + auto
<1> HIDE DEF taxable, auto
<1>8. tax \in Nat /\ auto <= tax /\ tax - auto = Tax!ManualTax(e)
  BY <1>5, <1>6
<1>9. /\ new \in Tax!Event /\ new.tax = tax /\ new.auto = auto /\ new.taxable = taxable
      /\ new.type = e.type /\ new.day = e.day /\ new.quantity = e.quantity /\ new.deleted = e.deleted
  BY <1>4, <1>5, <1>8 DEF Tax!Event
<1> HIDE DEF new, tax
<1> QED BY <1>1, <1>7, <1>8, <1>9

\* The automatic part of a tax is part of it and, in date order, every dividend share
\* is taxed once.
TradeInv ==
    /\ Tax!TypeOK
    /\ \A i \in DOMAIN taxLedger : taxLedger[i].auto <= taxLedger[i].tax
    /\ chronological => TaxedInOrder(taxLedger)

LEMMA TradeStart == Tax!Init => TradeInv
<1> SUFFICES ASSUME Tax!Init PROVE TradeInv
  OBVIOUS
<1>1. taxLedger = <<>> /\ corrections = 0 /\ chronological = TRUE
  BY DEF Tax!Init
<1>2. Tax!TypeOK
  BY <1>1, TradeConstants DEF Tax!TypeOK
<1>3. TaxedInOrder(taxLedger)
  BY <1>1 DEF TaxedInOrder, Tax!LiveIn
<1> QED BY <1>1, <1>2, <1>3 DEF TradeInv

\* What the user entered as tax of an event is not touched by a policy that comes again.
LEMMA ManualKept ==
    ASSUME TradeInv, NEW i \in DOMAIN taxLedger
    PROVE  /\ taxLedger[i] \in Tax!Event /\ taxLedger[i].auto <= taxLedger[i].tax
           /\ Tax!ManualTax(taxLedger[i]) = taxLedger[i].tax - taxLedger[i].auto
<1>1. taxLedger[i] \in Tax!Event /\ taxLedger[i].auto <= taxLedger[i].tax
  BY IdsFinite DEF TradeInv, Tax!TypeOK
<1>2. taxLedger[i].tax \in Nat /\ taxLedger[i].auto \in Nat
  BY <1>1 DEF Tax!Event
<1> QED BY <1>1, <1>2 DEF Tax!ManualTax, Tax!Greater

\* The ledger without an event.
LEMMA WithoutEvent ==
    ASSUME TradeInv, NEW i \in Tax!Live
    PROVE  /\ Tax!Without(i) \in Seq(Tax!Event) /\ DOMAIN Tax!Without(i) = DOMAIN taxLedger
           /\ Len(Tax!Without(i)) = Len(taxLedger)
           /\ Tax!LiveIn(Tax!Without(i)) = Tax!Live \ {i}
           /\ \A j \in DOMAIN taxLedger : j # i => Tax!Without(i)[j] = taxLedger[j]
           /\ Tax!Without(i)[i].tax = taxLedger[i].tax /\ Tax!Without(i)[i].auto = taxLedger[i].auto
<1> DEFINE new == [taxLedger[i] EXCEPT !.deleted = TRUE]
           other == [taxLedger EXCEPT ![i] = new]
<1>1. taxLedger \in Seq(Tax!Event) /\ i \in DOMAIN taxLedger
  BY DEF TradeInv, Tax!TypeOK, Tax!Live, Tax!LiveIn
<1>2. Tax!Without(i) = other
  BY DEF Tax!Without
<1>3. taxLedger[i] \in Tax!Event
  BY <1>1, IdsFinite
<1>4. /\ new \in Tax!Event /\ new.tax = taxLedger[i].tax /\ new.auto = taxLedger[i].auto
      /\ new.deleted = TRUE
  BY <1>3 DEF Tax!Event
<1> HIDE DEF new
<1>5. other \in Seq(Tax!Event) /\ DOMAIN other = DOMAIN taxLedger /\ Len(other) = Len(taxLedger)
  BY <1>1, <1>4
<1>6. other[i] = new /\ \A j \in DOMAIN taxLedger : j # i => other[j] = taxLedger[j]
  BY <1>1
<1> HIDE DEF other
<1>7. Tax!LiveIn(other) = Tax!Live \ {i}
  BY <1>4, <1>5, <1>6 DEF Tax!LiveIn, Tax!Live
<1> QED BY <1>2, <1>4, <1>5, <1>6, <1>7

LEMMA LatestComesLast ==
    ASSUME TradeInv, NEW i \in Tax!Live, Tax!Latest(i)
    PROVE  \A j \in Tax!Live : Tax!Before(taxLedger, j, i)
  BY DEF Tax!Latest, Tax!UpTo

LEMMA AppendKeeps ==
    ASSUME TradeInv, NEW type \in Tax!Types, NEW day \in TradeDays, NEW quantity \in Quantities,
           NEW price \in SalePrices, NEW tax \in UserTaxes, Tax!AppendEvent(type, day, quantity, price, tax)
    PROVE  TradeInv' /\ Tax!UserTaxKept
<1> DEFINE draft == [type |-> type, day |-> day, quantity |-> quantity, price |-> price,
                     tax |-> tax, taxable |-> 0, auto |-> 0, deleted |-> FALSE]
           event == Tax!TaxPolicy(draft, taxLedger)
           n == Len(taxLedger) + 1
<1>1. /\ Len(taxLedger) < MaxTrades /\ taxLedger' = Append(taxLedger, event)
      /\ chronological' = (chronological /\ \A i \in Tax!Live : taxLedger[i].day <= day)
      /\ corrections' = corrections
  BY DEF Tax!AppendEvent
<1>2. /\ taxLedger \in Seq(Tax!Event) /\ corrections \in 0 .. MaxCorrections /\ chronological \in BOOLEAN
      /\ \A i \in DOMAIN taxLedger : taxLedger[i].auto <= taxLedger[i].tax
  BY DEF TradeInv, Tax!TypeOK
<1>3. draft \in Tax!Event /\ draft.type = type /\ draft.day = day /\ draft.quantity = quantity /\ draft.deleted = FALSE
  BY TradeConstants DEF Tax!Event
<1> HIDE DEF draft
<1>4. /\ event \in Tax!Event /\ event.auto <= event.tax /\ event.type = type /\ event.day = day
      /\ event.quantity = quantity /\ event.deleted = FALSE
      /\ type = "SELL" => event.taxable = Tax!Lesser(quantity, Tax!TaxablePool(taxLedger, day))
  BY <1>2, <1>3, PolicyTaxes
<1> HIDE DEF event
<1>5. /\ taxLedger' \in Seq(Tax!Event) /\ Len(taxLedger') = n /\ n \in DOMAIN taxLedger'
      /\ DOMAIN taxLedger' = DOMAIN taxLedger \cup {n} /\ n \notin DOMAIN taxLedger /\ n \in Nat
      /\ taxLedger'[n] = event /\ \A i \in DOMAIN taxLedger : taxLedger'[i] = taxLedger[i] /\ i <= n
  BY <1>1, <1>2, <1>4
<1>6. n <= MaxTrades /\ Len(taxLedger) \in Nat
  BY <1>1, <1>2, TradeConstants
<1>7. Tax!TypeOK'
  <2>1. chronological' \in BOOLEAN
    BY <1>1, <1>2
  <2> QED BY <1>1, <1>2, <1>5, <1>6, <2>1 DEF Tax!TypeOK
<1> HIDE DEF n
<1>8. Tax!LiveIn(taxLedger') = Tax!LiveIn(taxLedger) \cup {n} /\ n \notin Tax!LiveIn(taxLedger)
  BY <1>4, <1>5 DEF Tax!LiveIn
<1>9. ASSUME chronological' PROVE TaxedInOrder(taxLedger')
  <2>1. chronological /\ \A i \in Tax!LiveIn(taxLedger) : taxLedger[i].day <= day
    BY <1>1, <1>2, <1>9 DEF Tax!Live
  <2>2. TaxedInOrder(taxLedger)
    BY <2>1 DEF TradeInv
  <2>3. {i \in Tax!LiveIn(taxLedger) : taxLedger[i].day <= day} = Tax!LiveIn(taxLedger)
    BY <2>1
  <2>4. Tax!TaxablePool(taxLedger, day) = Tax!PoolAfter(taxLedger, Tax!LiveIn(taxLedger))
    BY <2>3 DEF Tax!TaxablePool
  <2>5. \A j \in Tax!LiveIn(taxLedger) : taxLedger'[j] = taxLedger[j] /\ Tax!Before(taxLedger', j, n)
    <3> SUFFICES ASSUME NEW j \in Tax!LiveIn(taxLedger)
                 PROVE  taxLedger'[j] = taxLedger[j] /\ Tax!Before(taxLedger', j, n)
      OBVIOUS
    <3>1. j \in DOMAIN taxLedger /\ j <= n /\ taxLedger'[j] = taxLedger[j] /\ taxLedger[j].day <= taxLedger'[n].day
      BY <1>4, <1>5, <2>1, UpToLive, <1>2
    <3>2. taxLedger[j].day \in Nat /\ taxLedger'[n].day \in Nat
      BY <1>2, <1>4, <1>5, <3>1, IdsFinite, TradeConstants
    <3> QED BY <3>1, <3>2 DEF Tax!Before
  <2>6. taxLedger'[n].type = "SELL" =>
          taxLedger'[n].taxable = Tax!Lesser(taxLedger'[n].quantity, Tax!PoolAfter(taxLedger, Tax!LiveIn(taxLedger)))
    BY <1>4, <1>5, <2>4
  <2> DEFINE other == taxLedger'
  <2>7. /\ other \in Seq(Tax!Event) /\ n \in Tax!LiveIn(other) /\ n \notin Tax!LiveIn(taxLedger)
        /\ Tax!LiveIn(other) = Tax!LiveIn(taxLedger) \cup {n}
        /\ \A j \in Tax!LiveIn(taxLedger) : other[j] = taxLedger[j] /\ Tax!Before(other, j, n)
        /\ other[n].type = "SELL" =>
             other[n].taxable = Tax!Lesser(other[n].quantity, Tax!PoolAfter(taxLedger, Tax!LiveIn(taxLedger)))
    BY <1>5, <1>8, <2>5, <2>6
  <2> HIDE DEF other
  <2>8. TaxedInOrder(other)
    BY <1>2, <2>2, <2>7, EventAdded
  <2> QED BY <2>8 DEF other
<1>10. \A i \in DOMAIN taxLedger' : taxLedger'[i].auto <= taxLedger'[i].tax
  BY <1>2, <1>4, <1>5
<1>11. TaxedInOrder(taxLedger') <=> TaxedInOrder(taxLedger)'
  BY DEF TaxedInOrder, Tax!LiveIn, Tax!UpTo, Tax!Before, Tax!Taxed, Tax!Received, Tax!Moved, Tax!Shares
<1>12. TradeInv'
  BY <1>7, <1>9, <1>10, <1>11 DEF TradeInv
<1>13. Tax!UserTaxKept
  BY <1>5, UpToLive, <1>2 DEF Tax!UserTaxKept, Tax!Live
<1> QED BY <1>12, <1>13

LEMMA EditKeepsTax ==
    ASSUME TradeInv, NEW i \in DOMAIN taxLedger, NEW type \in Tax!Editable, NEW quantity \in Quantities,
           NEW price \in SalePrices, Tax!Edit(i, type, quantity, price)
    PROVE  TradeInv' /\ Tax!UserTaxKept
<1> DEFINE prior == Tax!Without(i)
           draft == Tax!Replacement(taxLedger[i], type, quantity, price)
           event == Tax!TaxPolicy(draft, prior)
           L == Tax!LiveIn(prior)
<1>1. /\ i \in Tax!Live /\ taxLedger' = [taxLedger EXCEPT ![i] = event]
      /\ chronological' = (chronological /\ Tax!Latest(i))
      /\ corrections' = corrections + 1 /\ corrections < MaxCorrections
  BY DEF Tax!Edit
<1>2. /\ taxLedger \in Seq(Tax!Event) /\ Len(taxLedger) <= MaxTrades
      /\ corrections \in 0 .. MaxCorrections /\ chronological \in BOOLEAN
      /\ \A j \in DOMAIN taxLedger : taxLedger[j].auto <= taxLedger[j].tax
  BY DEF TradeInv, Tax!TypeOK
<1>3. /\ prior \in Seq(Tax!Event) /\ DOMAIN prior = DOMAIN taxLedger
      /\ L = Tax!Live \ {i} /\ i \notin L
      /\ \A j \in DOMAIN taxLedger : j # i => prior[j] = taxLedger[j]
  BY <1>1, WithoutEvent
<1>4. /\ taxLedger[i] \in Tax!Event /\ taxLedger[i].auto <= taxLedger[i].tax
      /\ Tax!ManualTax(taxLedger[i]) = taxLedger[i].tax - taxLedger[i].auto
  BY ManualKept
<1>5. taxLedger[i].deleted = FALSE
  BY <1>1, <1>4 DEF Tax!Live, Tax!LiveIn, Tax!Event
<1>6. /\ draft \in Tax!Event /\ draft.type = type /\ draft.quantity = quantity
      /\ draft.day = taxLedger[i].day /\ draft.deleted = FALSE
      /\ draft.tax = taxLedger[i].tax /\ draft.auto = taxLedger[i].auto
  <2>1. type \in Tax!Types
    BY DEF Tax!Editable, Tax!Types
  <2> QED BY <1>4, <1>5, <2>1 DEF Tax!Replacement, Tax!Event
<1>7. Tax!ManualTax(draft) = taxLedger[i].tax - taxLedger[i].auto
  BY <1>4, <1>6 DEF Tax!ManualTax
<1> HIDE DEF draft, prior
<1>8. /\ event \in Tax!Event /\ event.auto <= event.tax
      /\ event.tax - event.auto = taxLedger[i].tax - taxLedger[i].auto
      /\ event.type = type /\ event.day = taxLedger[i].day /\ event.quantity = quantity /\ event.deleted = FALSE
      /\ type = "SELL" => event.taxable = Tax!Lesser(quantity, Tax!TaxablePool(prior, taxLedger[i].day))
  BY <1>3, <1>6, <1>7, PolicyTaxes
<1> HIDE DEF event
<1>9. /\ taxLedger' \in Seq(Tax!Event) /\ Len(taxLedger') = Len(taxLedger) /\ DOMAIN taxLedger' = DOMAIN taxLedger
      /\ taxLedger'[i] = event /\ \A j \in DOMAIN taxLedger : j # i => taxLedger'[j] = taxLedger[j]
  BY <1>1, <1>2, <1>8
<1>10. Tax!TypeOK'
  <2>1. chronological' \in BOOLEAN /\ corrections' \in 0 .. MaxCorrections
    BY <1>1, <1>2, TradeConstants
  <2> QED BY <1>2, <1>9, <2>1 DEF Tax!TypeOK
<1> DEFINE other == taxLedger'
<1>11. Tax!LiveIn(other) = L \cup {i}
  BY <1>1, <1>3, <1>5, <1>8, <1>9 DEF Tax!LiveIn, Tax!Live
<1>12. ASSUME chronological' PROVE TaxedInOrder(other)
  <2>1. chronological /\ Tax!Latest(i)
    BY <1>1, <1>2, <1>12
  <2>2. \A j \in Tax!Live : Tax!Before(taxLedger, j, i)
    BY <1>1, <2>1, LatestComesLast
  <2>3. TaxedInOrder(taxLedger)
    BY <2>1 DEF TradeInv
  <2>4. L \subseteq Tax!Live /\ Tax!Live \subseteq DOMAIN taxLedger /\ Tax!Live = Tax!LiveIn(taxLedger)
    BY <1>3 DEF Tax!Live, Tax!LiveIn
  <2>5. TaxedInOrder(prior)
    <3>1. \A j \in Tax!LiveIn(prior) : prior[j] = taxLedger[j]
      BY <1>3, <2>4
    <3>2. /\ i \in Tax!LiveIn(taxLedger) /\ Tax!LiveIn(prior) = Tax!LiveIn(taxLedger) \ {i}
          /\ \A j \in Tax!LiveIn(taxLedger) : Tax!Before(taxLedger, j, i)
      BY <1>1, <1>3, <2>2, <2>4
    <3> QED BY <1>2, <1>3, <2>3, <3>1, <3>2, EventRemoved
  <2>6. \A j \in L : /\ prior[j] = taxLedger[j] /\ other[j] = taxLedger[j]
                     /\ Tax!Before(taxLedger, j, i) /\ other[i].day = taxLedger[i].day
    BY <1>3, <1>8, <1>9, <2>2, <2>4
  <2>7. \A j \in L : other[j] = prior[j] /\ Tax!Before(other, j, i)
    <3> HIDE DEF L, other
    <3> QED BY <2>6 DEF Tax!Before
  <2>8. \A j \in L : prior[j].day <= taxLedger[i].day
    <3> SUFFICES ASSUME NEW j \in L PROVE prior[j].day <= taxLedger[i].day
      OBVIOUS
    <3>1. prior[j] = taxLedger[j] /\ Tax!Before(taxLedger, j, i) /\ j \in DOMAIN taxLedger
      BY <2>4, <2>6
    <3>2. taxLedger[j].day \in Nat /\ taxLedger[i].day \in Nat
      BY <1>2, <3>1, IdsFinite
    <3> QED BY <3>1, <3>2 DEF Tax!Before
  <2>9. Tax!TaxablePool(prior, taxLedger[i].day) = Tax!PoolAfter(prior, L)
    <3>1. {j \in L : prior[j].day <= taxLedger[i].day} = L
      BY <2>8
    <3> QED BY <3>1 DEF Tax!TaxablePool
  <2>10. other[i].type = "SELL" => other[i].taxable = Tax!Lesser(other[i].quantity, Tax!PoolAfter(prior, L))
    BY <1>8, <1>9, <2>9
  <2>11. other \in Seq(Tax!Event) /\ i \in Tax!LiveIn(other)
    BY <1>9, <1>11
  <2> HIDE DEF other
  <2> QED BY <1>3, <1>11, <2>5, <2>7, <2>10, <2>11, EventAdded
<1>13. \A j \in DOMAIN taxLedger' : taxLedger'[j].auto <= taxLedger'[j].tax
  BY <1>2, <1>8, <1>9
<1>14. TaxedInOrder(taxLedger') <=> TaxedInOrder(taxLedger)'
  BY DEF TaxedInOrder, Tax!LiveIn, Tax!UpTo, Tax!Before, Tax!Taxed, Tax!Received, Tax!Moved, Tax!Shares
<1>15. TradeInv'
  BY <1>10, <1>12, <1>13, <1>14 DEF TradeInv
<1>16. Tax!UserTaxKept
  BY <1>8, <1>9 DEF Tax!UserTaxKept
<1> QED BY <1>15, <1>16

LEMMA DeleteKeepsTax ==
    ASSUME TradeInv, NEW i \in DOMAIN taxLedger, Tax!Delete(i)
    PROVE  TradeInv' /\ Tax!UserTaxKept
<1> DEFINE other == taxLedger'
<1>1. /\ i \in Tax!Live /\ other = Tax!Without(i)
      /\ chronological' = (chronological /\ Tax!Latest(i))
      /\ corrections' = corrections + 1 /\ corrections < MaxCorrections
  BY DEF Tax!Delete
<1>2. /\ taxLedger \in Seq(Tax!Event) /\ Len(taxLedger) <= MaxTrades
      /\ corrections \in 0 .. MaxCorrections /\ chronological \in BOOLEAN
      /\ \A j \in DOMAIN taxLedger : taxLedger[j].auto <= taxLedger[j].tax
  BY DEF TradeInv, Tax!TypeOK
<1>3. /\ other \in Seq(Tax!Event) /\ DOMAIN other = DOMAIN taxLedger /\ Len(other) = Len(taxLedger)
      /\ Tax!LiveIn(other) = Tax!Live \ {i}
      /\ \A j \in DOMAIN taxLedger : j # i => other[j] = taxLedger[j]
      /\ other[i].tax = taxLedger[i].tax /\ other[i].auto = taxLedger[i].auto
  BY <1>1, WithoutEvent
<1>4. Tax!TypeOK'
  <2>1. chronological' \in BOOLEAN /\ corrections' \in 0 .. MaxCorrections
    BY <1>1, <1>2, TradeConstants
  <2> QED BY <1>2, <1>3, <2>1 DEF Tax!TypeOK
<1>5. ASSUME chronological' PROVE TaxedInOrder(other)
  <2>1. chronological /\ Tax!Latest(i)
    BY <1>1, <1>2, <1>5
  <2>2. \A j \in Tax!Live : Tax!Before(taxLedger, j, i)
    BY <1>1, <2>1, LatestComesLast
  <2>3. TaxedInOrder(taxLedger)
    BY <2>1 DEF TradeInv
  <2>4. Tax!Live \subseteq DOMAIN taxLedger /\ Tax!Live = Tax!LiveIn(taxLedger)
    BY DEF Tax!Live, Tax!LiveIn
  <2>5. \A j \in Tax!LiveIn(other) : other[j] = taxLedger[j]
    BY <1>3, <2>4
  <2>6. /\ i \in Tax!LiveIn(taxLedger) /\ Tax!LiveIn(other) = Tax!LiveIn(taxLedger) \ {i}
        /\ \A j \in Tax!LiveIn(taxLedger) : Tax!Before(taxLedger, j, i)
    BY <1>1, <1>3, <2>2, <2>4
  <2> HIDE DEF other
  <2> QED BY <1>2, <1>3, <2>3, <2>5, <2>6, EventRemoved
<1>6. \A j \in DOMAIN taxLedger' : taxLedger'[j].auto <= taxLedger'[j].tax
  BY <1>2, <1>3
<1>7. TaxedInOrder(taxLedger') <=> TaxedInOrder(taxLedger)'
  BY DEF TaxedInOrder, Tax!LiveIn, Tax!UpTo, Tax!Before, Tax!Taxed, Tax!Received, Tax!Moved, Tax!Shares
<1>8. TradeInv'
  BY <1>4, <1>5, <1>6, <1>7 DEF TradeInv
<1>9. Tax!UserTaxKept
  BY <1>3 DEF Tax!UserTaxKept
<1> QED BY <1>8, <1>9

LEMMA TradesKeep == ASSUME TradeInv, Tax!Next PROVE TradeInv' /\ Tax!UserTaxKept
  BY AppendKeeps, EditKeepsTax, DeleteKeepsTax DEF Tax!Next

LEMMA TradesRight == TradeInv => Tax!PoolInv
<1> SUFFICES ASSUME TradeInv PROVE Tax!PoolInv
  OBVIOUS
<1>1. Tax!TypeOK
  BY DEF TradeInv
<1>2. ASSUME chronological PROVE Tax!TaxedOnce /\ Tax!PoolUsedFirst
  <2>1. TaxedInOrder(taxLedger)
    BY <1>2 DEF TradeInv
  <2> QED BY <2>1 DEF TaxedInOrder, Tax!TaxedOnce, Tax!PoolUsedFirst, Tax!Sales, Tax!Live
<1> QED BY <1>1, <1>2 DEF Tax!PoolInv

\* While the transactions of a stock come, are corrected and are deleted in date order,
\* every dividend share is taxed once, by the first sales after it, whatever the number
\* of sales and dividends; and no edit takes the automatic tax for the user's.
THEOREM DividendSharesTaxedOnce == RecordsSpec => TaxRight
<1>1. RecordsInit => TradeInv
  BY TradeStart DEF RecordsInit
<1>2. TradeInv /\ [RecordsNext]_records => TradeInv'
  <2>1. ASSUME TradeInv, UNCHANGED pool PROVE TradeInv'
    <3>1. taxLedger' = taxLedger /\ corrections' = corrections /\ chronological' = chronological
      BY <2>1 DEF pool
    <3>2. TaxedInOrder(taxLedger') <=> TaxedInOrder(taxLedger)'
      BY DEF TaxedInOrder, Tax!LiveIn, Tax!UpTo, Tax!Before, Tax!Taxed, Tax!Received, Tax!Moved, Tax!Shares
    <3>3. TaxedInOrder(taxLedger)' <=> TaxedInOrder(taxLedger)
      BY <3>1, <3>2
    <3>4. Tax!TypeOK'
      BY <2>1, <3>1 DEF TradeInv, Tax!TypeOK
    <3> QED BY <2>1, <3>1, <3>3, <3>4 DEF TradeInv
  <2>2. [RecordsNext]_records => Tax!Next \/ UNCHANGED pool
    BY DEF RecordsNext, records, WriteLog, ImportOpening, Administer, Connect, SyncMarket, ShowDividends, Trade, Reconcile
  <2> QED BY <2>1, <2>2, TradesKeep
<1>3. TradeInv /\ TradeInv' /\ [RecordsNext]_records => [Tax!PoolInv' /\ Tax!UserTaxKept]_records
  <2> SUFFICES ASSUME TradeInv, TradeInv', RecordsNext PROVE Tax!PoolInv' /\ Tax!UserTaxKept
    OBVIOUS
  <2>1. Tax!PoolInv'
    BY TradesRight, PTL
  <2>2. Tax!Next \/ UNCHANGED pool
    BY DEF RecordsNext, WriteLog, ImportOpening, Administer, Connect, SyncMarket, ShowDividends, Trade, Reconcile
  <2>3. UNCHANGED pool => Tax!UserTaxKept
    BY DEF pool, Tax!UserTaxKept
  <2> QED BY <2>1, <2>2, <2>3, TradesKeep
<1> QED BY <1>1, <1>2, <1>3, PTL DEF RecordsSpec, TaxRight

-------------------------------------------------------------------------------
(* The evidence for dividends.  A reconciliation groups what it read by the dates, *)
(* and dates that fall into events make groups of these events.                    *)

ObservationRow ==
    [provider : DOMAIN Priority, native : BOOLEAN, day : Nat, sent : Int,
     ratio : 1 .. 200 \cup {Unknown}, rejected : BOOLEAN, deleted : BOOLEAN]

\* What ASSUME EvidenceFits says of the constants.
LEMMA OffersKnown ==
    /\ Offers \subseteq [provider : DOMAIN Priority, native : BOOLEAN, day : Nat, ratio : Int]
    /\ \A p \in DOMAIN Priority : Priority[p] \in Int
    /\ Unknown \in Int \ (1 .. 200) /\ MaxObservations \in Nat /\ MaxFailures \in Nat
  BY EvidenceFits DEF Evidence!EvidenceConstants

\* The observations, a row at a time.
LEMMA ObservedRows ==
    ASSUME observations \in Seq(ObservationRow)
    PROVE  /\ Len(observations) \in Nat /\ DOMAIN observations = 1 .. Len(observations)
           /\ \A i \in DOMAIN observations : /\ observations[i] \in ObservationRow
                                             /\ Evidence!Day(i) \in Nat /\ i \in Nat
           /\ Evidence!Normalized \subseteq DOMAIN observations
<1>1. Len(observations) \in Nat /\ DOMAIN observations = 1 .. Len(observations)
  OBVIOUS
<1>2. \A i \in DOMAIN observations : observations[i] \in ObservationRow
  BY ElementOfSeq
<1>3. \A i \in DOMAIN observations : Evidence!Day(i) \in Nat
  BY <1>2 DEF Evidence!Day, ObservationRow
<1>4. Evidence!Normalized \subseteq DOMAIN observations
  BY DEF Evidence!Normalized
<1> QED BY <1>1, <1>2, <1>3, <1>4

\* Being close is symmetric, and every day is close to itself.
LEMMA CloseIsSymmetric ==
    /\ \A a \in Nat : Evidence!Close(a, a)
    /\ \A a, b \in Nat : Evidence!Close(a, b) => Evidence!Close(b, a)
  BY DEF Evidence!Close, Evidence!Tolerance

LEMMA LeastOf ==
    ASSUME NEW K \in SUBSET Nat, K # {}
    PROVE  /\ Evidence!Min(K) \in K /\ \A k \in K : Evidence!Min(K) <= k
           /\ \A m \in K : (\A k \in K : m <= k) => m = Evidence!Min(K)
<1>1. PICK m \in K : \A k \in K : m <= k
  BY LeastElement
<1>2. Evidence!Min(K) \in K /\ \A k \in K : Evidence!Min(K) <= k
  BY <1>1 DEF Evidence!Min
<1> HIDE DEF Evidence!Min
<1>3. ASSUME NEW n \in K, \A k \in K : n <= k PROVE n = Evidence!Min(K)
  <2>1. n <= Evidence!Min(K) /\ Evidence!Min(K) <= n /\ n \in Nat /\ Evidence!Min(K) \in Nat
    BY <1>2, <1>3
  <2> QED BY <2>1
<1> QED BY <1>2, <1>3

\* The groups of S: none is empty, each member is close to the first of its group and
\* to the first of no earlier group, and every index of S is in one of them.
Grouped(groups, S) ==
    /\ groups \in Seq(Seq(Nat))
    /\ \A g \in DOMAIN groups :
         /\ 1 \in DOMAIN groups[g]
         /\ \A k \in DOMAIN groups[g] :
              /\ groups[g][k] \in S
              /\ Evidence!Close(Evidence!Day(groups[g][1]), Evidence!Day(groups[g][k]))
              /\ \A h \in DOMAIN groups :
                   h < g => ~Evidence!Close(Evidence!Day(groups[h][1]), Evidence!Day(groups[g][k]))
    /\ \A i \in S : \E g \in DOMAIN groups : \E k \in DOMAIN groups[g] : groups[g][k] = i

\* An observation joins the groups.
LEMMA JoinGroups ==
    ASSUME observations \in Seq(ObservationRow), NEW S \in SUBSET DOMAIN observations,
           NEW groups, Grouped(groups, S), NEW i \in DOMAIN observations
    PROVE  Grouped(Evidence!Join(groups, i), S \cup {i})
<1> DEFINE fit == {g \in DOMAIN groups : Evidence!Close(Evidence!Day(groups[g][1]), Evidence!Day(i))}
           new == Evidence!Join(groups, i)
<1>1. groups \in Seq(Seq(Nat)) /\ Len(groups) \in Nat /\ DOMAIN groups = 1 .. Len(groups)
  BY DEF Grouped
<1>2. \A g \in DOMAIN groups :
        /\ groups[g] \in Seq(Nat) /\ 1 \in DOMAIN groups[g]
        /\ \A k \in DOMAIN groups[g] :
             /\ groups[g][k] \in S
             /\ Evidence!Close(Evidence!Day(groups[g][1]), Evidence!Day(groups[g][k]))
             /\ \A h \in DOMAIN groups :
                  h < g => ~Evidence!Close(Evidence!Day(groups[h][1]), Evidence!Day(groups[g][k]))
  BY <1>1, ElementOfSeq DEF Grouped
<1>3. \A j \in S : \E g \in DOMAIN groups : \E k \in DOMAIN groups[g] : groups[g][k] = j
  BY DEF Grouped
<1>4. i \in Nat /\ Evidence!Day(i) \in Nat /\ Evidence!Close(Evidence!Day(i), Evidence!Day(i))
  BY ObservedRows, CloseIsSymmetric
<1>5. CASE fit = {}
  <2> DEFINE n == Len(groups) + 1
  <2>1. new = Append(groups, <<i>>)
    BY <1>5 DEF Evidence!Join
  <2>2. <<i>> \in Seq(Nat) /\ DOMAIN <<i>> = {1} /\ <<i>>[1] = i
    BY <1>4
  <2>3. /\ new \in Seq(Seq(Nat)) /\ DOMAIN new = DOMAIN groups \cup {n} /\ n \notin DOMAIN groups
        /\ n \in Nat /\ new[n] = <<i>> /\ \A g \in DOMAIN groups : new[g] = groups[g] /\ g < n
    BY <1>1, <2>1, <2>2
  <2>4. \A g \in DOMAIN groups : ~Evidence!Close(Evidence!Day(groups[g][1]), Evidence!Day(i))
    BY <1>5
  <2> HIDE DEF new, n, fit
  <2>5. ASSUME NEW g \in DOMAIN new
        PROVE  /\ 1 \in DOMAIN new[g]
               /\ \A k \in DOMAIN new[g] :
                    /\ new[g][k] \in S \cup {i}
                    /\ Evidence!Close(Evidence!Day(new[g][1]), Evidence!Day(new[g][k]))
                    /\ \A h \in DOMAIN new :
                         h < g => ~Evidence!Close(Evidence!Day(new[h][1]), Evidence!Day(new[g][k]))
    <3>1. CASE g = n
      <4>1. \A h \in DOMAIN new : h < n => h \in DOMAIN groups
        BY <2>3
      <4> QED BY <1>4, <2>2, <2>3, <2>4, <3>1, <4>1
    <3>2. CASE g \in DOMAIN groups
      <4>1. \A h \in DOMAIN new : h < g => h \in DOMAIN groups
        BY <1>1, <2>3, <3>2
      <4> QED BY <1>2, <2>3, <3>2, <4>1
    <3> QED BY <2>3, <3>1, <3>2
  <2>6. ASSUME NEW j \in S \cup {i} PROVE \E g \in DOMAIN new : \E k \in DOMAIN new[g] : new[g][k] = j
    <3>1. CASE j = i
      BY <2>2, <2>3, <3>1
    <3>2. CASE j \in S
      <4>1. PICK g \in DOMAIN groups : \E k \in DOMAIN groups[g] : groups[g][k] = j
        BY <1>3, <3>2
      <4> QED BY <2>3, <4>1
    <3> QED BY <3>1, <3>2
  <2>7. Grouped(new, S \cup {i})
    BY <2>3, <2>5, <2>6 DEF Grouped
  <2> QED BY <2>7 DEF new
<1>6. CASE fit # {}
  <2> DEFINE m == Evidence!Min(fit)
             longer == Append(groups[m], i)
             last == Len(groups[m]) + 1
  <2>1. m \in fit /\ \A g \in fit : m <= g
    <3>1. fit \in SUBSET Nat
      BY <1>1
    <3> HIDE DEF fit
    <3> QED BY <1>6, <3>1, LeastOf
  <2>2. new = [groups EXCEPT ![m] = longer]
    BY <1>6 DEF Evidence!Join
  <2>3. m \in DOMAIN groups /\ Evidence!Close(Evidence!Day(groups[m][1]), Evidence!Day(i))
    BY <2>1
  <2>4. \A h \in DOMAIN groups : h < m => ~Evidence!Close(Evidence!Day(groups[h][1]), Evidence!Day(i))
    <3> SUFFICES ASSUME NEW h \in DOMAIN groups, h < m, h \in fit PROVE FALSE
      OBVIOUS
    <3> HIDE DEF m, fit
    <3>1. m <= h /\ m \in Nat /\ h \in Nat
      BY <1>1, <2>1, <2>3
    <3> QED BY <3>1
  <2> HIDE DEF m, fit
  <2>5. /\ longer \in Seq(Nat) /\ DOMAIN longer = DOMAIN groups[m] \cup {last} /\ longer[last] = i
        /\ \A k \in DOMAIN groups[m] : longer[k] = groups[m][k]
    BY <1>2, <1>4, <2>3
  <2> HIDE DEF longer, last
  <2>6. /\ new \in Seq(Seq(Nat)) /\ DOMAIN new = DOMAIN groups /\ new[m] = longer
        /\ \A g \in DOMAIN groups : g # m => new[g] = groups[g]
    BY <1>1, <2>2, <2>3, <2>5
  <2> HIDE DEF new
  <2>7. \A g \in DOMAIN groups : 1 \in DOMAIN new[g] /\ new[g][1] = groups[g][1]
    BY <1>2, <2>3, <2>5, <2>6
  <2>8. ASSUME NEW g \in DOMAIN new
        PROVE  /\ 1 \in DOMAIN new[g]
               /\ \A k \in DOMAIN new[g] :
                    /\ new[g][k] \in S \cup {i}
                    /\ Evidence!Close(Evidence!Day(new[g][1]), Evidence!Day(new[g][k]))
                    /\ \A h \in DOMAIN new :
                         h < g => ~Evidence!Close(Evidence!Day(new[h][1]), Evidence!Day(new[g][k]))
    <3> SUFFICES ASSUME NEW k \in DOMAIN new[g]
                 PROVE  /\ new[g][k] \in S \cup {i}
                        /\ Evidence!Close(Evidence!Day(groups[g][1]), Evidence!Day(new[g][k]))
                        /\ \A h \in DOMAIN groups :
                             h < g => ~Evidence!Close(Evidence!Day(groups[h][1]), Evidence!Day(new[g][k]))
      BY <2>6, <2>7
    <3>1. CASE g # m
      <4>1. g \in DOMAIN groups /\ new[g] = groups[g]
        BY <2>6, <3>1
      <4> QED BY <1>2, <4>1
    <3>2. CASE g = m /\ k = last
      <4>1. new[g][k] = i
        BY <2>5, <2>6, <3>2
      <4> QED BY <2>3, <2>4, <3>2, <4>1
    <3>3. CASE g = m /\ k # last
      <4>1. k \in DOMAIN groups[m] /\ new[g][k] = groups[m][k]
        BY <2>5, <2>6, <3>3
      <4> QED BY <1>2, <2>3, <3>3, <4>1
    <3> QED BY <3>1, <3>2, <3>3
  <2>9. ASSUME NEW j \in S \cup {i} PROVE \E g \in DOMAIN new : \E k \in DOMAIN new[g] : new[g][k] = j
    <3>1. CASE j = i
      BY <2>3, <2>5, <2>6, <3>1
    <3>2. CASE j \in S
      <4>1. PICK g \in DOMAIN groups : \E k \in DOMAIN groups[g] : groups[g][k] = j
        BY <1>3, <3>2
      <4>2. CASE g = m
        BY <2>5, <2>6, <4>1, <4>2
      <4>3. CASE g # m
        BY <2>6, <4>1, <4>3
      <4> QED BY <4>2, <4>3
    <3> QED BY <3>1, <3>2
  <2>10. Grouped(new, S \cup {i})
    BY <2>6, <2>8, <2>9 DEF Grouped
  <2> QED BY <2>10 DEF new
<1> QED BY <1>5, <1>6

\* The groups after each observation.
GroupsUpto(ids, f) ==
    [n \in 0 .. Len(observations) |->
       IF n = 0 THEN <<>> ELSE IF n \in ids THEN Evidence!Join(f[n - 1], n) ELSE f[n - 1]]

\* They exist.
LEMMA GroupsExist ==
    ASSUME observations \in Seq(ObservationRow), NEW ids
    PROVE  \E o : o = GroupsUpto(ids, o)
<1> DEFINE Good(n) == \E o : \A m \in 0 .. n : o[m] = GroupsUpto(ids, o)[m]
           Missing == {n \in 0 .. Len(observations) : ~Good(n)}
<1>0. Len(observations) \in Nat
  OBVIOUS
<1>1. Missing = {}
  <2> SUFFICES ASSUME Missing # {} PROVE FALSE
    OBVIOUS
  <2>1. PICK n \in Missing : \A m \in Missing : n <= m
    <3>1. Missing \in SUBSET Nat
      BY <1>0
    <3> HIDE DEF Missing
    <3> QED BY <3>1, LeastElement
  <2>2. CASE n = 0
    <3>1. \A m \in 0 .. 0 : [k \in {0} |-> <<>>][m] = GroupsUpto(ids, [k \in {0} |-> <<>>])[m]
      BY DEF GroupsUpto
    <3> QED BY <3>1, <2>2
  <2>3. CASE n # 0
    <3>1. Good(n - 1)
      <4>1. n - 1 \in 0 .. Len(observations) /\ ~(n <= n - 1)
        BY <2>3, <1>0
      <4> HIDE DEF Good
      <4> QED BY <4>1, <2>1
    <3>2. PICK o : \A m \in 0 .. n - 1 : o[m] = GroupsUpto(ids, o)[m]
      BY <3>1
    <3> DEFINE p == GroupsUpto(ids, o)
    <3>3. \A m \in 0 .. n : p[m] = GroupsUpto(ids, p)[m]
      <4> SUFFICES ASSUME NEW m \in 0 .. n PROVE p[m] = GroupsUpto(ids, p)[m]
        OBVIOUS
      <4>0. m \in 0 .. Len(observations)
        BY <1>0
      <4>1. CASE m = 0
        BY <4>0, <4>1 DEF GroupsUpto
      <4>2. CASE m # 0
        <5>1. m - 1 \in 0 .. n - 1
          BY <4>2
        <5>2. p[m - 1] = o[m - 1]
          BY <5>1, <3>2
        <5>3. p[m] = IF m \in ids THEN Evidence!Join(o[m - 1], m) ELSE o[m - 1]
          BY <4>0, <4>2 DEF GroupsUpto
        <5>4. GroupsUpto(ids, p)[m] = IF m \in ids THEN Evidence!Join(p[m - 1], m) ELSE p[m - 1]
          <6> HIDE DEF p
          <6> QED BY <4>0, <4>2 DEF GroupsUpto
        <5> HIDE DEF p
        <5> QED BY <5>2, <5>3, <5>4
      <4> QED BY <4>1, <4>2
    <3> HIDE DEF p
    <3> QED BY <3>3
  <2> QED BY <2>2, <2>3
<1>2. Good(Len(observations))
  BY <1>0, <1>1
<1>3. PICK o : \A m \in 0 .. Len(observations) : o[m] = GroupsUpto(ids, o)[m]
  BY <1>2
<1> DEFINE p == GroupsUpto(ids, o)
<1>4. \A m \in 0 .. Len(observations) : p[m] = o[m]
  BY <1>3
<1>5. p = GroupsUpto(ids, p)
  <2>1. \A m \in 0 .. Len(observations) : m # 0 => p[m - 1] = o[m - 1]
    BY <1>0, <1>4
  <2>2. p = [n \in 0 .. Len(observations) |->
               IF n = 0 THEN <<>> ELSE IF n \in ids THEN Evidence!Join(o[n - 1], n) ELSE o[n - 1]]
    BY DEF GroupsUpto
  <2>3. GroupsUpto(ids, p) = [n \in 0 .. Len(observations) |->
               IF n = 0 THEN <<>> ELSE IF n \in ids THEN Evidence!Join(p[n - 1], n) ELSE p[n - 1]]
    BY DEF GroupsUpto
  <2> HIDE DEF p
  <2> QED BY <2>1, <2>2, <2>3
<1> QED BY <1>5

\* The groups of some observations.
LEMMA GroupsOfIds ==
    ASSUME observations \in Seq(ObservationRow), NEW ids \in SUBSET DOMAIN observations
    PROVE  Grouped(Evidence!Groups(ids), ids)
<1> DEFINE o == CHOOSE p : p = GroupsUpto(ids, p)
           L == Len(observations)
           Sound(n) == Grouped(o[n], {i \in ids : i <= n})
           Wrong == {n \in 0 .. L : ~Sound(n)}
<1>1. o = GroupsUpto(ids, o)
  BY GroupsExist
<1>2. Evidence!Groups(ids) = o[L]
  BY DEF Evidence!Groups, GroupsUpto
<1>3. L \in Nat /\ DOMAIN observations = 1 .. L /\ ids \subseteq 1 .. L
  BY ObservedRows
<1> HIDE DEF o, L
<1>4. \A n \in 0 .. L : o[n] = IF n = 0 THEN <<>> ELSE IF n \in ids THEN Evidence!Join(o[n - 1], n) ELSE o[n - 1]
  BY <1>1 DEF GroupsUpto, L
<1>5. Wrong = {}
  <2> SUFFICES ASSUME Wrong # {} PROVE FALSE
    OBVIOUS
  <2>1. PICK n \in Wrong : \A m \in Wrong : n <= m
    <3>1. Wrong \in SUBSET Nat
      BY <1>3
    <3> HIDE DEF Wrong
    <3> QED BY <3>1, LeastElement
  <2>2. n \in 0 .. L /\ n \in Nat
    BY <1>3
  <2>3. CASE n = 0
    <3>1. {i \in ids : i <= 0} = {}
      BY <1>3
    <3>2. o[0] = <<>>
      BY <1>4, <2>2, <2>3
    <3>3. Grouped(<<>>, {})
      BY DEF Grouped
    <3> QED BY <2>3, <3>1, <3>2, <3>3
  <2>4. CASE n # 0
    <3>1. n - 1 \in 0 .. L /\ ~(n <= n - 1)
      BY <2>2, <2>4, <1>3
    <3>2. Sound(n - 1)
      <4> HIDE DEF Sound
      <4> QED BY <2>1, <3>1
    <3> DEFINE before == {i \in ids : i <= n - 1}
    <3>3. CASE n \in ids
      <4>1. {i \in ids : i <= n} = before \cup {n}
        BY <1>3, <2>2, <3>3
      <4>2. o[n] = Evidence!Join(o[n - 1], n)
        BY <1>4, <2>2, <2>4, <3>3
      <4>3. before \in SUBSET DOMAIN observations /\ n \in DOMAIN observations /\ Grouped(o[n - 1], before)
        BY <3>2, <3>3
      <4> HIDE DEF before
      <4>4. Grouped(Evidence!Join(o[n - 1], n), before \cup {n})
        BY <4>3, JoinGroups
      <4> QED BY <4>1, <4>2, <4>4
    <3>4. CASE n \notin ids
      <4>1. {i \in ids : i <= n} = before
        BY <1>3, <2>2, <3>4
      <4>2. o[n] = o[n - 1]
        BY <1>4, <2>2, <2>4, <3>4
      <4> QED BY <3>2, <4>1, <4>2
    <3> QED BY <3>3, <3>4
  <2> QED BY <2>3, <2>4
<1>6. Sound(L)
  <2>1. L \in 0 .. L
    BY <1>3
  <2> HIDE DEF Sound
  <2> QED BY <1>5, <2>1
<1>7. {i \in ids : i <= L} = ids
  BY <1>3
<1> QED BY <1>2, <1>6, <1>7

\* The groups of some observations part them: no two groups overlap, and each is
\* within two days of its first member.
LEMMA GroupsPart ==
    ASSUME observations \in Seq(ObservationRow), NEW ids \in SUBSET DOMAIN observations
    PROVE  /\ \A G \in Evidence!Members(Evidence!Groups(ids)) :
                /\ Evidence!Members(G) \subseteq ids /\ G[1] \in Evidence!Members(G)
                /\ \A i \in Evidence!Members(G) : Evidence!Close(Evidence!Day(G[1]), Evidence!Day(i))
           /\ \A i \in ids : \E G \in Evidence!Members(Evidence!Groups(ids)) : i \in Evidence!Members(G)
           /\ \A G, H \in Evidence!Members(Evidence!Groups(ids)) :
                \/ G = H
                \/ \A i \in Evidence!Members(H) : ~Evidence!Close(Evidence!Day(G[1]), Evidence!Day(i))
                \/ \A i \in Evidence!Members(G) : ~Evidence!Close(Evidence!Day(H[1]), Evidence!Day(i))
<1> DEFINE groups == Evidence!Groups(ids)
<1>1. Grouped(groups, ids)
  BY GroupsOfIds
<1> HIDE DEF groups
<1>2. DOMAIN groups = 1 .. Len(groups) /\ Len(groups) \in Nat
  BY <1>1 DEF Grouped
<1>3. ASSUME NEW G \in Evidence!Members(groups)
      PROVE  /\ Evidence!Members(G) \subseteq ids /\ G[1] \in Evidence!Members(G)
             /\ \A i \in Evidence!Members(G) : Evidence!Close(Evidence!Day(G[1]), Evidence!Day(i))
  <2>1. PICK g \in DOMAIN groups : G = groups[g]
    BY DEF Evidence!Members
  <2> QED BY <1>1, <2>1 DEF Grouped, Evidence!Members
<1>4. ASSUME NEW i \in ids PROVE \E G \in Evidence!Members(groups) : i \in Evidence!Members(G)
  <2>1. PICK g \in DOMAIN groups : \E k \in DOMAIN groups[g] : groups[g][k] = i
    BY <1>1 DEF Grouped
  <2>2. groups[g] \in Evidence!Members(groups) /\ i \in Evidence!Members(groups[g])
    BY <2>1 DEF Evidence!Members
  <2> QED BY <2>2
<1>5. ASSUME NEW h \in DOMAIN groups, NEW g \in DOMAIN groups, h < g
      PROVE  \A i \in Evidence!Members(groups[g]) : ~Evidence!Close(Evidence!Day(groups[h][1]), Evidence!Day(i))
  BY <1>1, <1>5 DEF Grouped, Evidence!Members
<1>6. ASSUME NEW G \in Evidence!Members(groups), NEW H \in Evidence!Members(groups), G # H
      PROVE  \/ \A i \in Evidence!Members(H) : ~Evidence!Close(Evidence!Day(G[1]), Evidence!Day(i))
             \/ \A i \in Evidence!Members(G) : ~Evidence!Close(Evidence!Day(H[1]), Evidence!Day(i))
  <2>1. PICK g \in DOMAIN groups : G = groups[g]
    BY DEF Evidence!Members
  <2>2. PICK h \in DOMAIN groups : H = groups[h]
    BY DEF Evidence!Members
  <2>3. g < h \/ h < g
    BY <1>2, <1>6, <2>1, <2>2
  <2> QED BY <1>5, <2>1, <2>2, <2>3
<1> QED BY <1>3, <1>4, <1>6 DEF groups

\* The least day of some observations.
LEMMA FirstDayOf ==
    ASSUME observations \in Seq(ObservationRow), NEW S \in SUBSET DOMAIN observations, S # {}
    PROVE  /\ \E i \in S : Evidence!Day(i) = Evidence!FirstDay(S)
           /\ \A i \in S : Evidence!FirstDay(S) <= Evidence!Day(i)
<1> DEFINE days == {Evidence!Day(i) : i \in S}
<1>1. days \in SUBSET Nat /\ days # {}
  BY ObservedRows
<1>2. Evidence!FirstDay(S) = Evidence!Min(days)
  BY DEF Evidence!FirstDay
<1>3. Evidence!Min(days) \in days /\ \A d \in days : Evidence!Min(days) <= d
  <2> HIDE DEF days
  <2> QED BY <1>1, LeastOf
<1> QED BY <1>2, <1>3

\* The date of a group is its first day.
LEMMA EffectiveIsFirst == \A G : Evidence!Effective(G) = Evidence!FirstDay(Evidence!Members(G))
  BY DEF Evidence!Effective, Evidence!FirstDay

\* No two groups have one date.
LEMMA DatesDiffer ==
    ASSUME observations \in Seq(ObservationRow), NEW ids \in SUBSET DOMAIN observations,
           NEW G \in Evidence!Members(Evidence!Groups(ids)), NEW H \in Evidence!Members(Evidence!Groups(ids)),
           Evidence!Effective(G) = Evidence!Effective(H)
    PROVE  G = H
<1> DEFINE S == Evidence!Members(G)
           T == Evidence!Members(H)
<1>1. /\ S \subseteq DOMAIN observations /\ T \subseteq DOMAIN observations
      /\ G[1] \in S /\ H[1] \in T
      /\ \A i \in S : Evidence!Close(Evidence!Day(G[1]), Evidence!Day(i))
      /\ \A i \in T : Evidence!Close(Evidence!Day(H[1]), Evidence!Day(i))
  BY GroupsPart
<1>2. PICK i \in S : Evidence!Day(i) = Evidence!Effective(G)
  BY <1>1, FirstDayOf, EffectiveIsFirst
<1>3. PICK j \in T : Evidence!Day(j) = Evidence!Effective(H)
  BY <1>1, FirstDayOf, EffectiveIsFirst
<1>4. Evidence!Close(Evidence!Day(G[1]), Evidence!Day(j)) /\ Evidence!Close(Evidence!Day(H[1]), Evidence!Day(i))
  BY <1>1, <1>2, <1>3
<1> QED BY <1>2, <1>3, <1>4, GroupsPart

\* Dates that fall into events make groups of these events.
LEMMA GroupsAreEvents ==
    ASSUME observations \in Seq(ObservationRow), Evidence!Tight,
           NEW G \in Evidence!Members(Evidence!Groups(Evidence!Normalized)), NEW i \in Evidence!Members(G)
    PROVE  /\ i \in Evidence!Normalized /\ Evidence!Members(G) = Evidence!Event(i)
           /\ Evidence!Effective(G) = Evidence!FirstDay(Evidence!Event(i))
           /\ Evidence!Family(G, Evidence!Normalized) = Evidence!Event(i)
<1> DEFINE N == Evidence!Normalized
           S == Evidence!Members(G)
<1>1. N \in SUBSET DOMAIN observations /\ \A j \in N : Evidence!Day(j) \in Nat
  BY ObservedRows
<1>2. \A j, k, l \in N : Evidence!Close(Evidence!Day(j), Evidence!Day(k)) /\ Evidence!Close(Evidence!Day(k), Evidence!Day(l))
                           => Evidence!Close(Evidence!Day(j), Evidence!Day(l))
  BY DEF Evidence!Tight
<1>3. \A j, k \in N : Evidence!Close(Evidence!Day(j), Evidence!Day(k)) => Evidence!Close(Evidence!Day(k), Evidence!Day(j))
  BY <1>1, CloseIsSymmetric
<1>4. S \subseteq N /\ G[1] \in S /\ \A j \in S : Evidence!Close(Evidence!Day(G[1]), Evidence!Day(j))
  BY <1>1, GroupsPart
<1>5. \A j \in S : Evidence!Close(Evidence!Day(i), Evidence!Day(j))
  BY <1>2, <1>3, <1>4
<1>6. ASSUME NEW j \in N, Evidence!Close(Evidence!Day(i), Evidence!Day(j)) PROVE j \in S
  <2>1. PICK H \in Evidence!Members(Evidence!Groups(N)) : j \in Evidence!Members(H)
    BY <1>1, GroupsPart
  <2>2. H[1] \in N /\ Evidence!Close(Evidence!Day(H[1]), Evidence!Day(j))
    BY <1>1, <2>1, GroupsPart
  <2>3. Evidence!Close(Evidence!Day(G[1]), Evidence!Day(j))
    BY <1>2, <1>4, <1>6
  <2>4. Evidence!Close(Evidence!Day(H[1]), Evidence!Day(i))
    BY <1>2, <1>3, <1>4, <1>6, <2>2
  <2>5. G = H
    BY <1>1, <2>1, <2>3, <2>4, GroupsPart
  <2> QED BY <2>1, <2>5
<1>7. S = Evidence!Event(i)
  BY <1>4, <1>5, <1>6 DEF Evidence!Event
<1>8. Evidence!Effective(G) = Evidence!FirstDay(Evidence!Event(i))
  BY <1>7, EffectiveIsFirst
<1>9. PICK k \in S : Evidence!Day(k) = Evidence!Effective(G)
  <2>1. S \in SUBSET DOMAIN observations /\ S # {}
    BY <1>1, <1>4
  <2> QED BY <2>1, FirstDayOf, EffectiveIsFirst
<1>10. \A j \in N : Evidence!Close(Evidence!Day(j), Evidence!Day(k)) <=> Evidence!Close(Evidence!Day(i), Evidence!Day(j))
  BY <1>2, <1>3, <1>4, <1>5
<1>11. Evidence!Family(G, N) = Evidence!Event(i)
  BY <1>9, <1>10 DEF Evidence!Family, Evidence!Event
<1> QED BY <1>4, <1>7, <1>8, <1>11

\* Every event has its group.
LEMMA EventsAreGroups ==
    ASSUME observations \in Seq(ObservationRow), Evidence!Tight, NEW i \in Evidence!Normalized
    PROVE  \E G \in Evidence!Members(Evidence!Groups(Evidence!Normalized)) :
             /\ Evidence!Members(G) = Evidence!Event(i)
             /\ Evidence!Effective(G) = Evidence!FirstDay(Evidence!Event(i))
             /\ Evidence!Family(G, Evidence!Normalized) = Evidence!Event(i)
<1>1. PICK G \in Evidence!Members(Evidence!Groups(Evidence!Normalized)) : i \in Evidence!Members(G)
  BY ObservedRows, GroupsPart
<1> QED BY <1>1, GroupsAreEvents

\* Each canonical row has the date of an event.
RowsOnEvents ==
    \A row \in canonical : \E i \in Evidence!Normalized : row.day = Evidence!FirstDay(Evidence!Event(i))

\* What the consumers are shown is right.
ShownRight ==
    Evidence!Tight => Evidence!DisagreementsShown /\ (ordered => Evidence!OneRowPerEvent)

\* A crawl that reconciles has read all there is, and what it has left is right.
EvidenceInv ==
    /\ observations \in Seq(ObservationRow)
    /\ crawl \in [{Crawler} -> [at : {"idle", "persisted", "read"}, seen : SUBSET DOMAIN observations]]
    /\ failures \in 0 .. MaxFailures /\ ordered \in BOOLEAN
    /\ crawl[Crawler].at = "read" => crawl[Crawler].seen = Evidence!Normalized
    /\ \A row \in canonical : row.quality \in {"VERIFIED", "SINGLE_SOURCE", "CONFLICT"}
    /\ \A row, other \in canonical : row.day = other.day => row = other
    /\ Evidence!Tight /\ ordered => RowsOnEvents
    /\ failures = 0 /\ crawl[Crawler].at = "idle" => ShownRight

\* What is computed from the observations is the same as long as these are.
LEMMA SameObservations ==
    ASSUME observations' = observations
    PROVE  /\ Evidence!Normalized' = Evidence!Normalized /\ Evidence!Tight' = Evidence!Tight
           /\ \A i : Evidence!Event(i)' = Evidence!Event(i)
           /\ \A S : Evidence!FirstDay(S)' = Evidence!FirstDay(S)
           /\ \A S : Evidence!Ratios(S)' = Evidence!Ratios(S)
<1>1. \A i : Evidence!Day(i)' = Evidence!Day(i)
  BY DEF Evidence!Day
<1>2. Evidence!Normalized' = Evidence!Normalized
  BY DEF Evidence!Normalized
<1>3. Evidence!Tight' = Evidence!Tight
  BY <1>1, <1>2 DEF Evidence!Tight
<1>4. \A i : Evidence!Event(i)' = Evidence!Event(i)
  BY <1>1, <1>2 DEF Evidence!Event
<1>5. \A S : Evidence!FirstDay(S)' = Evidence!FirstDay(S)
  BY <1>1 DEF Evidence!FirstDay
<1>6. \A S : Evidence!Ratios(S)' = Evidence!Ratios(S)
  BY DEF Evidence!Ratios
<1> QED BY <1>2, <1>3, <1>4, <1>5, <1>6

\* The crawl takes a step and leaves what it has found.
LEMMA CrawlMoves ==
    ASSUME EvidenceInv, NEW step \in {"idle", "persisted", "read"}, NEW seen \in SUBSET DOMAIN observations,
           Evidence!Go(Crawler, step, seen), observations' = observations
    PROVE  /\ crawl' \in [{Crawler} -> [at : {"idle", "persisted", "read"}, seen : SUBSET DOMAIN observations']]
           /\ crawl'[Crawler].at = step /\ crawl'[Crawler].seen = seen
  BY DEF EvidenceInv, Evidence!Go

\* A step of the crawl that leaves what the consumers are shown, and does not end it well.
LEMMA QuietStep ==
    ASSUME EvidenceInv, NEW step \in {"idle", "persisted", "read"}, NEW seen \in SUBSET DOMAIN observations,
           Evidence!Go(Crawler, step, seen), step = "read" => seen = Evidence!Normalized,
           observations' = observations, canonical' = canonical, conflicts' = conflicts,
           ordered' \in BOOLEAN, ordered' => ordered, failures' \in 0 .. MaxFailures,
           step = "idle" => failures' # 0
    PROVE  EvidenceInv'
<1>1. /\ crawl' \in [{Crawler} -> [at : {"idle", "persisted", "read"}, seen : SUBSET DOMAIN observations']]
      /\ crawl'[Crawler].at = step /\ crawl'[Crawler].seen = seen
  BY CrawlMoves
<1>2. /\ Evidence!Normalized' = Evidence!Normalized /\ Evidence!Tight' = Evidence!Tight
      /\ \A i : Evidence!Event(i)' = Evidence!Event(i)
      /\ \A S : Evidence!FirstDay(S)' = Evidence!FirstDay(S)
  BY SameObservations
<1>3. ASSUME Evidence!Tight', ordered' PROVE RowsOnEvents'
  <2>1. RowsOnEvents
    BY <1>2, <1>3 DEF EvidenceInv
  <2> QED BY <1>2, <2>1 DEF RowsOnEvents
<1>4. /\ observations' \in Seq(ObservationRow)
      /\ \A row \in canonical' : row.quality \in {"VERIFIED", "SINGLE_SOURCE", "CONFLICT"}
      /\ \A row, other \in canonical' : row.day = other.day => row = other
  BY DEF EvidenceInv
<1>5. crawl'[Crawler].at = "read" => crawl'[Crawler].seen = Evidence!Normalized'
  BY <1>1, <1>2
<1>6. ~(failures' = 0 /\ crawl'[Crawler].at = "idle")
  BY <1>1
<1> QED BY <1>1, <1>3, <1>4, <1>5, <1>6 DEF EvidenceInv

\* An observation of an event that is not its first leaves the date of the event.
LEMMA ObservationKeeps ==
    ASSUME EvidenceInv, NEW o \in Offers, Evidence!Persist(Crawler, o), ~Evidence!Known(o)
    PROVE  EvidenceInv'
<1>0. PICK n : n = Len(observations) + 1
  OBVIOUS
<1> DEFINE new == Evidence!Observation(o)
<1>1. /\ observations' = Append(observations, new)
      /\ ordered' = (ordered /\ (Evidence!Rejected(o.ratio)
                       \/ \A i \in Evidence!Normalized :
                            Evidence!Close(Evidence!Day(i), o.day) => Evidence!Day(i) <= o.day))
      /\ crawl' = [crawl EXCEPT ![Crawler] = [at |-> "persisted", seen |-> {}]]
      /\ canonical' = canonical /\ conflicts' = conflicts /\ failures' = failures
  BY DEF Evidence!Persist, Evidence!Go
<1>2. observations \in Seq(ObservationRow) /\ ordered \in BOOLEAN /\ failures \in 0 .. MaxFailures
  BY DEF EvidenceInv
<1>3. o.provider \in DOMAIN Priority /\ o.native \in BOOLEAN /\ o.day \in Nat /\ o.ratio \in Int
  BY OffersKnown
<1>4. /\ new \in ObservationRow /\ new.day = o.day /\ new.deleted = FALSE
      /\ new.rejected = Evidence!Rejected(o.ratio) /\ new.rejected \in BOOLEAN
  <2>1. Evidence!Rejected(o.ratio) \in BOOLEAN
    BY DEF Evidence!Rejected
  <2>2. ~Evidence!Rejected(o.ratio) => Evidence!Normal(o.ratio) \in 1 .. 200 \cup {Unknown}
    <3>1. CASE o.ratio = Unknown
      BY <3>1 DEF Evidence!Normal
    <3>2. CASE o.ratio # Unknown
      <4>1. Evidence!Normal(o.ratio) \in Int
        BY <1>3, <3>2 DEF Evidence!Normal
      <4> QED BY <3>2, <4>1 DEF Evidence!Rejected
    <3> QED BY <3>1, <3>2
  <2> QED BY <1>3, <2>1, <2>2 DEF Evidence!Observation, ObservationRow
<1> HIDE DEF new
<1>5. /\ observations' \in Seq(ObservationRow) /\ DOMAIN observations' = DOMAIN observations \cup {n}
      /\ n \notin DOMAIN observations /\ observations'[n] = new
      /\ \A i \in DOMAIN observations : observations'[i] = observations[i]
  BY <1>0, <1>1, <1>2, <1>4
<1>6. Evidence!Day(n)' = o.day /\ \A i \in DOMAIN observations : Evidence!Day(i)' = Evidence!Day(i)
  BY <1>4, <1>5 DEF Evidence!Day
<1>7. /\ Evidence!Normalized \subseteq Evidence!Normalized' /\ Evidence!Normalized' \subseteq Evidence!Normalized \cup {n}
      /\ n \in Evidence!Normalized' => ~Evidence!Rejected(o.ratio)
      /\ Evidence!Normalized \subseteq DOMAIN observations
      /\ \A i \in Evidence!Normalized : Evidence!Day(i) \in Nat
  BY <1>2, <1>4, <1>5, ObservedRows DEF Evidence!Normalized
<1>8. ASSUME Evidence!Tight', ordered' PROVE RowsOnEvents'
  <2>1. Evidence!Tight
    BY <1>6, <1>7, <1>8 DEF Evidence!Tight
  <2>2. ordered /\ (n \in Evidence!Normalized' => \A i \in Evidence!Normalized :
                      Evidence!Close(Evidence!Day(i), o.day) => Evidence!Day(i) <= o.day)
    BY <1>1, <1>2, <1>7, <1>8
  <2>3. RowsOnEvents
    BY <2>1, <2>2 DEF EvidenceInv
  <2>4. ASSUME NEW i \in Evidence!Normalized
        PROVE  Evidence!FirstDay(Evidence!Event(i))' = Evidence!FirstDay(Evidence!Event(i))
    <3> DEFINE S == Evidence!Event(i)
               T == Evidence!Event(i)'
               days == {Evidence!Day(j)' : j \in T}
    <3>1. i \in S /\ S \subseteq Evidence!Normalized
      BY <1>7, CloseIsSymmetric DEF Evidence!Event
    <3>2. /\ S \subseteq T /\ T \subseteq S \cup {n}
          /\ n \in T => n \in Evidence!Normalized' /\ Evidence!Close(Evidence!Day(i), o.day)
      BY <1>6, <1>7 DEF Evidence!Event
    <3> HIDE DEF S, T
    <3>3. S \in SUBSET DOMAIN observations /\ S # {}
      BY <1>7, <3>1
    <3>4. PICK k \in S : Evidence!Day(k) = Evidence!FirstDay(S)
      BY <1>2, <3>3, FirstDayOf
    <3>5. Evidence!Close(Evidence!Day(k), Evidence!Day(i))
      BY <1>7, <3>1, CloseIsSymmetric DEF S, Evidence!Event
    <3>6. n \in T => Evidence!Day(k) <= o.day
      <4> SUFFICES ASSUME n \in T PROVE Evidence!Day(k) <= o.day
        OBVIOUS
      <4>1. k \in Evidence!Normalized' /\ i \in Evidence!Normalized' /\ n \in Evidence!Normalized' /\ k \in Evidence!Normalized
        BY <1>7, <3>1, <3>2
      <4>2. Evidence!Day(k)' = Evidence!Day(k) /\ Evidence!Day(i)' = Evidence!Day(i) /\ Evidence!Day(n)' = o.day
        BY <1>6, <1>7, <4>1
      <4>3. Evidence!Close(Evidence!Day(k), o.day)
        BY <1>8, <3>2, <3>5, <4>1, <4>2 DEF Evidence!Tight
      <4> QED BY <2>2, <4>1, <4>3
    <3>7. \A j \in S : Evidence!Day(k) <= Evidence!Day(j) /\ Evidence!Day(j)' = Evidence!Day(j)
      BY <1>2, <1>6, <3>3, <3>4, FirstDayOf
    <3>8. \A d \in days : Evidence!Day(k) <= d
      BY <1>6, <3>2, <3>6, <3>7
    <3>9. Evidence!Day(k) \in days
      BY <3>2, <3>4, <3>7
    <3>10. days \in SUBSET Nat
      BY <1>3, <1>6, <1>7, <3>1, <3>2
    <3>11. Evidence!Day(k) = Evidence!Min(days)
      <4> HIDE DEF days
      <4> QED BY <3>8, <3>9, <3>10, LeastOf
    <3>12. Evidence!FirstDay(Evidence!Event(i))' = Evidence!Min(days)
      BY DEF Evidence!FirstDay, T
    <3> QED BY <3>4, <3>11, <3>12 DEF S
  <2> QED BY <1>1, <1>7, <2>3, <2>4 DEF RowsOnEvents
<1>9. crawl' \in [{Crawler} -> [at : {"idle", "persisted", "read"}, seen : SUBSET DOMAIN observations']]
      /\ crawl'[Crawler].at = "persisted"
  BY <1>1 DEF EvidenceInv
<1>10. ordered' \in BOOLEAN
  BY <1>1, <1>2
<1>11. /\ \A row \in canonical' : row.quality \in {"VERIFIED", "SINGLE_SOURCE", "CONFLICT"}
       /\ \A row, other \in canonical' : row.day = other.day => row = other
  BY <1>1 DEF EvidenceInv
<1> QED BY <1>1, <1>2, <1>5, <1>8, <1>9, <1>10, <1>11 DEF EvidenceInv

\* One provider is one source.
LEMMA TwoSources ==
    ASSUME NEW S, S # {}, Cardinality({observations[i].provider : i \in S}) > 1
    PROVE  \E j, k \in S : observations[j].provider # observations[k].provider
<1> DEFINE sources == {observations[i].provider : i \in S}
<1> SUFFICES ASSUME \A j, k \in S : observations[j].provider = observations[k].provider PROVE ~(Cardinality(sources) > 1)
  OBVIOUS
<1>1. PICK j \in S : TRUE
  OBVIOUS
<1>2. sources = {observations[j].provider}
  BY <1>1
<1> HIDE DEF sources
<1>3. Cardinality(sources) = 1
  BY <1>2, FS_Singleton
<1> QED BY <1>3

\* The module of the evidence counts as everybody does.
LEMMA EvidenceCardinality == \A S : Evidence!Cardinality(S) = Cardinality(S)
  BY DEF Evidence!Cardinality, Cardinality, Evidence!IsFiniteSet, IsFiniteSet

\* The row of a group.
LEMMA RowOfGroup ==
    ASSUME observations \in Seq(ObservationRow), NEW ids \in SUBSET DOMAIN observations,
           NEW G \in Evidence!Members(Evidence!Groups(ids))
    PROVE  /\ Evidence!Canonical(G, ids).day = Evidence!Effective(G)
           /\ Evidence!Canonical(G, ids).evidence = Evidence!Members(G)
           /\ Evidence!Canonical(G, ids).quality \in {"VERIFIED", "SINGLE_SOURCE", "CONFLICT"}
           /\ Evidence!Canonical(G, ids).quality = "CONFLICT"
                <=> Evidence!Cardinality(Evidence!Ratios(Evidence!Family(G, ids))) > 1
           /\ Evidence!Canonical(G, ids).quality = "VERIFIED" =>
                \E j, k \in Evidence!Members(G) : observations[j].provider # observations[k].provider
<1> DEFINE row == Evidence!Canonical(G, ids)
           split == Evidence!Cardinality(Evidence!Ratios(Evidence!Family(G, ids))) > 1
           two == Evidence!Cardinality(Evidence!Sources(G)) > 1
<1>1. row.day = Evidence!Effective(G) /\ row.evidence = Evidence!Members(G)
  BY DEF Evidence!Canonical
<1>2. row.quality = IF split THEN "CONFLICT" ELSE IF two THEN "VERIFIED" ELSE "SINGLE_SOURCE"
  BY DEF Evidence!Canonical
<1>3. two => \E j, k \in Evidence!Members(G) : observations[j].provider # observations[k].provider
  <2>1. Evidence!Members(G) # {}
    BY GroupsPart
  <2>2. Evidence!Sources(G) = {observations[i].provider : i \in Evidence!Members(G)}
    BY DEF Evidence!Sources
  <2> QED BY <2>1, <2>2, TwoSources, EvidenceCardinality
<1> HIDE DEF row, split, two
<1>4. /\ row.quality \in {"VERIFIED", "SINGLE_SOURCE", "CONFLICT"}
      /\ row.quality = "CONFLICT" <=> split
      /\ row.quality = "VERIFIED" => two
  BY <1>2
<1> QED BY <1>1, <1>3, <1>4 DEF row, split

\* The reconciliation writes: the new rows are those of the events, and an old row
\* with the date of an event makes room for it.
LEMMA WriteKeeps ==
    ASSUME EvidenceInv, Evidence!WriteCanonical(Crawler)
    PROVE  EvidenceInv'
<1>0. PICK N : N = Evidence!Normalized
  OBVIOUS
<1>1. PICK found : found = Evidence!Members(Evidence!Groups(N))
  OBVIOUS
<1>2. PICK shown : shown = {Evidence!Canonical(g, N) : g \in found}
  OBVIOUS
<1>3. PICK open : open = {[day |-> Evidence!Effective(g), ids |-> Evidence!Family(g, N)] :
                            g \in {h \in found : Evidence!Canonical(h, N).quality = "CONFLICT"}}
  OBVIOUS
<1>4. /\ canonical' = shown \cup {row \in canonical : \A other \in shown : other.day # row.day}
      /\ open \subseteq conflicts'
      /\ Evidence!Go(Crawler, "idle", {})
      /\ observations' = observations /\ failures' = failures /\ ordered' = ordered
  BY <1>0, <1>1, <1>2, <1>3 DEF EvidenceInv, Evidence!WriteCanonical, Evidence!At, Evidence!Upsert
<1>5. /\ observations \in Seq(ObservationRow) /\ N \in SUBSET DOMAIN observations
      /\ \A row, other \in canonical : row.day = other.day => row = other
      /\ \A row \in canonical : row.quality \in {"VERIFIED", "SINGLE_SOURCE", "CONFLICT"}
      /\ Evidence!Tight /\ ordered => RowsOnEvents
      /\ failures \in 0 .. MaxFailures /\ ordered \in BOOLEAN
  BY <1>0, ObservedRows DEF EvidenceInv
<1>6. \A G \in found :
        /\ Evidence!Canonical(G, N).day = Evidence!Effective(G)
        /\ Evidence!Canonical(G, N).evidence = Evidence!Members(G)
        /\ Evidence!Canonical(G, N).quality \in {"VERIFIED", "SINGLE_SOURCE", "CONFLICT"}
        /\ Evidence!Canonical(G, N).quality = "CONFLICT"
             <=> Evidence!Cardinality(Evidence!Ratios(Evidence!Family(G, N))) > 1
        /\ Evidence!Canonical(G, N).quality = "VERIFIED" =>
             \E j, k \in Evidence!Members(G) : observations[j].provider # observations[k].provider
        /\ Evidence!Canonical(G, N) \in shown
        /\ Evidence!Canonical(G, N).quality = "CONFLICT" =>
             [day |-> Evidence!Effective(G), ids |-> Evidence!Family(G, N)] \in open
  <2> SUFFICES ASSUME NEW G \in found
               PROVE  /\ Evidence!Canonical(G, N).day = Evidence!Effective(G)
                      /\ Evidence!Canonical(G, N).evidence = Evidence!Members(G)
                      /\ Evidence!Canonical(G, N).quality \in {"VERIFIED", "SINGLE_SOURCE", "CONFLICT"}
                      /\ Evidence!Canonical(G, N).quality = "CONFLICT"
                           <=> Evidence!Cardinality(Evidence!Ratios(Evidence!Family(G, N))) > 1
                      /\ Evidence!Canonical(G, N).quality = "VERIFIED" =>
                           \E j, k \in Evidence!Members(G) : observations[j].provider # observations[k].provider
                      /\ Evidence!Canonical(G, N) \in shown
                      /\ Evidence!Canonical(G, N).quality = "CONFLICT" =>
                           [day |-> Evidence!Effective(G), ids |-> Evidence!Family(G, N)] \in open
    OBVIOUS
  <2>1. Evidence!Canonical(G, N) \in shown
    BY <1>2
  <2>2. Evidence!Canonical(G, N).quality = "CONFLICT" =>
          [day |-> Evidence!Effective(G), ids |-> Evidence!Family(G, N)] \in open
    BY <1>3
  <2> QED BY <1>1, <1>5, <2>1, <2>2, RowOfGroup
<1>7. \A row \in shown : \E G \in found : row = Evidence!Canonical(G, N)
  BY <1>2
<1>8. \A row, other \in canonical' : row.day = other.day => row = other
  <2>1. \A row, other \in shown : row.day = other.day => row = other
    <3> SUFFICES ASSUME NEW row \in shown, NEW other \in shown, row.day = other.day PROVE row = other
      OBVIOUS
    <3>1. PICK G \in found : row = Evidence!Canonical(G, N)
      BY <1>7
    <3>2. PICK H \in found : other = Evidence!Canonical(H, N)
      BY <1>7
    <3>3. Evidence!Effective(G) = Evidence!Effective(H)
      BY <1>6, <3>1, <3>2
    <3>4. G = H
      BY <1>1, <1>5, <3>3, DatesDiffer
    <3> QED BY <3>1, <3>2, <3>4
  <2> QED BY <1>4, <1>5, <2>1
<1>9. \A row \in canonical' : row.quality \in {"VERIFIED", "SINGLE_SOURCE", "CONFLICT"}
  BY <1>4, <1>5, <1>6, <1>7
<1>10. /\ Evidence!Normalized' = N /\ Evidence!Tight' = Evidence!Tight
       /\ \A i : Evidence!Event(i)' = Evidence!Event(i)
       /\ \A S : Evidence!FirstDay(S)' = Evidence!FirstDay(S)
       /\ \A S : Evidence!Ratios(S)' = Evidence!Ratios(S)
  BY <1>0, <1>4, SameObservations
<1>11. ASSUME Evidence!Tight
       PROVE  \A row \in shown : \E i \in N : row.day = Evidence!FirstDay(Evidence!Event(i))
                                              /\ row.evidence = Evidence!Event(i)
  <2> SUFFICES ASSUME NEW row \in shown
               PROVE  \E i \in N : row.day = Evidence!FirstDay(Evidence!Event(i))
                                   /\ row.evidence = Evidence!Event(i)
    OBVIOUS
  <2>1. PICK G \in found : row = Evidence!Canonical(G, N)
    BY <1>7
  <2>2. G[1] \in Evidence!Members(G)
    BY <1>1, <1>5, GroupsPart
  <2>3. PICK i \in Evidence!Members(G) : i = G[1]
    BY <2>2
  <2>4. /\ i \in N /\ Evidence!Members(G) = Evidence!Event(i)
        /\ Evidence!Effective(G) = Evidence!FirstDay(Evidence!Event(i))
    BY <1>0, <1>1, <1>5, <1>11, GroupsAreEvents
  <2> QED BY <1>6, <2>1, <2>4
<1>12. ASSUME Evidence!Tight, NEW i \in N
       PROVE  \E G \in found :
                /\ Evidence!Members(G) = Evidence!Event(i)
                /\ Evidence!Effective(G) = Evidence!FirstDay(Evidence!Event(i))
                /\ Evidence!Family(G, N) = Evidence!Event(i)
  BY <1>0, <1>1, <1>5, <1>12, EventsAreGroups
<1>13. ASSUME Evidence!Tight' PROVE Evidence!DisagreementsShown'
  <2> SUFFICES ASSUME NEW i \in N
               PROVE  \E row \in canonical' :
                        /\ row.day = Evidence!FirstDay(Evidence!Event(i))
                        /\ row.quality = "CONFLICT" <=> Evidence!Cardinality(Evidence!Ratios(Evidence!Event(i))) > 1
                        /\ row.quality = "CONFLICT" => [day |-> row.day, ids |-> Evidence!Event(i)] \in conflicts'
                        /\ row.quality = "VERIFIED" =>
                             \E j, k \in Evidence!Event(i) : observations[j].provider # observations[k].provider
    BY <1>4, <1>10, EvidenceCardinality DEF Evidence!DisagreementsShown
  <2>1. PICK G \in found :
                /\ Evidence!Members(G) = Evidence!Event(i)
                /\ Evidence!Effective(G) = Evidence!FirstDay(Evidence!Event(i))
                /\ Evidence!Family(G, N) = Evidence!Event(i)
    BY <1>10, <1>12, <1>13
  <2>2. Evidence!Canonical(G, N) \in canonical'
    BY <1>4, <1>6
  <2> QED BY <1>4, <1>6, <2>1, <2>2
<1>14. ASSUME Evidence!Tight', ordered' PROVE RowsOnEvents'
  <2>1. RowsOnEvents /\ Evidence!Tight
    BY <1>4, <1>5, <1>10, <1>14
  <2>2. \A row \in canonical' : \E i \in N : row.day = Evidence!FirstDay(Evidence!Event(i))
    BY <1>0, <1>4, <1>11, <2>1 DEF RowsOnEvents
  <2> QED BY <1>10, <2>2 DEF RowsOnEvents
<1>15. ASSUME Evidence!Tight', ordered' PROVE Evidence!OneRowPerEvent'
  <2>1. RowsOnEvents /\ Evidence!Tight
    BY <1>4, <1>5, <1>10, <1>15
  <2>2. canonical' \subseteq shown
    <3> SUFFICES ASSUME NEW row \in canonical PROVE \E other \in shown : other.day = row.day
      BY <1>4
    <3>1. PICK i \in N : row.day = Evidence!FirstDay(Evidence!Event(i))
      BY <1>0, <2>1 DEF RowsOnEvents
    <3>2. PICK G \in found : Evidence!Effective(G) = Evidence!FirstDay(Evidence!Event(i))
      BY <1>12, <2>1
    <3> QED BY <1>6, <3>1, <3>2
  <2>3. \A row \in canonical' : \E i \in N :
          row.day = Evidence!FirstDay(Evidence!Event(i)) /\ row.evidence = Evidence!Event(i)
    BY <1>11, <2>1, <2>2
  <2> QED BY <1>10, <2>3 DEF Evidence!OneRowPerEvent
<1>16. ShownRight'
  BY <1>13, <1>15 DEF ShownRight
<1>17. /\ crawl' \in [{Crawler} -> [at : {"idle", "persisted", "read"}, seen : SUBSET DOMAIN observations']]
       /\ crawl'[Crawler].at = "idle"
  BY <1>4, CrawlMoves
<1> QED BY <1>4, <1>5, <1>8, <1>9, <1>14, <1>16, <1>17 DEF EvidenceInv

\* Clearing a provider empties what was derived, and the crawl is not done.
LEMMA ClearKeeps ==
    ASSUME EvidenceInv, NEW p \in Evidence!Providers, Evidence!ClearProvider(Crawler, p)
    PROVE  EvidenceInv'
<1> DEFINE kept(i) == IF observations[i].provider = p
                        THEN [observations[i] EXCEPT !.deleted = TRUE] ELSE observations[i]
<1>1. /\ observations' = [i \in DOMAIN observations |-> kept(i)]
      /\ canonical' = {} /\ conflicts' = {} /\ failures' = failures /\ ordered' = ordered
      /\ crawl' = [crawl EXCEPT ![Crawler] = [at |-> "persisted", seen |-> {}]]
  BY DEF Evidence!ClearProvider, Evidence!Go
<1>2. observations \in Seq(ObservationRow) /\ ordered \in BOOLEAN /\ failures \in 0 .. MaxFailures
  BY DEF EvidenceInv
<1>3. observations' \in Seq(ObservationRow)
  <2>1. ASSUME NEW i \in DOMAIN observations PROVE kept(i) \in ObservationRow
    <3>1. PICK row \in ObservationRow : row = observations[i]
      BY <1>2, ObservedRows
    <3>2. [row EXCEPT !.deleted = TRUE] \in ObservationRow
      BY DEF ObservationRow
    <3> QED BY <3>1, <3>2
  <2>2. Len(observations) \in Nat /\ DOMAIN observations = 1 .. Len(observations)
    BY <1>2
  <2> HIDE DEF kept
  <2>3. observations' \in [1 .. Len(observations) -> ObservationRow]
    BY <1>1, <2>1, <2>2
  <2> QED BY <2>2, <2>3
<1>4. /\ crawl' \in [{Crawler} -> [at : {"idle", "persisted", "read"}, seen : SUBSET DOMAIN observations']]
      /\ crawl'[Crawler].at = "persisted"
  BY <1>1 DEF EvidenceInv
<1>5. RowsOnEvents'
  BY <1>1 DEF RowsOnEvents
<1> HIDE DEF kept
<1> QED BY <1>1, <1>2, <1>3, <1>4, <1>5 DEF EvidenceInv

\* Nothing has been crawled yet.
LEMMA EvidenceStart == Evidence!Init => EvidenceInv
<1> SUFFICES ASSUME Evidence!Init PROVE EvidenceInv
  OBVIOUS
<1>1. /\ observations = <<>> /\ canonical = {} /\ conflicts = {} /\ failures = 0 /\ ordered = TRUE
      /\ crawl = [r \in {Crawler} |-> [at |-> "idle", seen |-> {}]]
  BY DEF Evidence!Init, Evidence!Idle
<1>2. Evidence!Normalized = {}
  BY <1>1 DEF Evidence!Normalized
<1>3. RowsOnEvents /\ ShownRight
  BY <1>1, <1>2 DEF RowsOnEvents, ShownRight, Evidence!DisagreementsShown, Evidence!OneRowPerEvent
<1>4. observations \in Seq(ObservationRow)
  BY <1>1
<1>5. /\ crawl \in [{Crawler} -> [at : {"idle", "persisted", "read"}, seen : SUBSET DOMAIN observations]]
      /\ crawl[Crawler].at = "idle"
  BY <1>1
<1>6. failures \in 0 .. MaxFailures
  BY <1>1, OffersKnown
<1> QED BY <1>1, <1>3, <1>4, <1>5, <1>6 DEF EvidenceInv

\* Every step of a crawl keeps it.
LEMMA EvidenceKeeps == EvidenceInv /\ Evidence!Next => EvidenceInv'
<1> SUFFICES ASSUME EvidenceInv, Evidence!Next PROVE EvidenceInv'
  OBVIOUS
<1>1. Evidence!Work(Crawler)
  BY DEF Evidence!Next
<1>2. ordered \in BOOLEAN /\ failures \in 0 .. MaxFailures /\ MaxFailures \in Nat
  BY OffersKnown DEF EvidenceInv
<1>3. ASSUME NEW o \in Offers, Evidence!Persist(Crawler, o) PROVE EvidenceInv'
  <2>1. CASE Evidence!Known(o)
    <3>1. /\ observations' = observations /\ canonical' = canonical /\ conflicts' = conflicts
          /\ Evidence!Go(Crawler, "persisted", {}) /\ failures' = failures
          /\ ordered' \in BOOLEAN /\ (ordered' => ordered)
      BY <1>2, <1>3, <2>1 DEF Evidence!Persist
    <3> QED BY <1>2, <3>1, QuietStep
  <2> QED BY <1>3, <2>1, ObservationKeeps
<1>4. ASSUME Evidence!ReadObservations(Crawler) PROVE EvidenceInv'
  <2>1. Evidence!Normalized \in SUBSET DOMAIN observations
    BY DEF Evidence!Normalized
  <2>2. /\ observations' = observations /\ canonical' = canonical /\ conflicts' = conflicts
        /\ Evidence!Go(Crawler, "read", Evidence!Normalized) /\ failures' = failures /\ ordered' = ordered
    BY <1>4 DEF Evidence!ReadObservations
  <2> QED BY <1>2, <2>1, <2>2, QuietStep
<1>5. ASSUME Evidence!Die(Crawler) PROVE EvidenceInv'
  <2>1. /\ observations' = observations /\ canonical' = canonical /\ conflicts' = conflicts
        /\ Evidence!Go(Crawler, "idle", {}) /\ failures' = failures + 1 /\ failures < MaxFailures
        /\ ordered' = ordered
    BY <1>5 DEF Evidence!Die
  <2>2. failures' \in 0 .. MaxFailures /\ failures' # 0
    BY <1>2, <2>1
  <2> QED BY <1>2, <2>1, <2>2, QuietStep
<1> QED BY <1>1, <1>3, <1>4, <1>5, WriteKeeps, ClearKeeps DEF Evidence!Work

\* It says what the consumers rely on.
LEMMA EvidenceSound == EvidenceInv => EvidenceShown
<1> SUFFICES ASSUME EvidenceInv PROVE EvidenceShown
  OBVIOUS
<1>1. \A i \in DOMAIN observations : /\ observations[i].provider \in Evidence!Providers
                                     /\ observations[i].ratio \in 1 .. 200 \cup {Unknown}
  BY ObservedRows DEF EvidenceInv, ObservationRow, Evidence!Providers
<1>2. Evidence!TypeOK
  BY <1>1 DEF EvidenceInv, Evidence!TypeOK
<1>3. Evidence!Settled => ShownRight
  BY DEF EvidenceInv, Evidence!Settled, Evidence!At
<1> QED BY <1>2, <1>3 DEF EvidenceShown, ShownRight

\* A consumer of the dividends is never shown a disagreement of the providers as
\* agreed: once every crawl is reconciled, the row of an event is in conflict exactly
\* when its observations differ, is verified only by two providers, and is the only
\* row of its event (dividend_reconciliation.py).
THEOREM DisagreementsAlwaysShown == RecordsSpec => []EvidenceShown
<1>1. RecordsInit => EvidenceInv
  BY EvidenceStart DEF RecordsInit
<1>2. EvidenceInv /\ [RecordsNext]_records => EvidenceInv'
  <2>1. ASSUME EvidenceInv, UNCHANGED evidence PROVE EvidenceInv'
    <3>1. /\ observations' = observations /\ canonical' = canonical /\ conflicts' = conflicts
          /\ crawl' = crawl /\ failures' = failures /\ ordered' = ordered
      BY <2>1 DEF evidence
    <3>2. /\ Evidence!Normalized' = Evidence!Normalized /\ Evidence!Tight' = Evidence!Tight
          /\ \A i : Evidence!Event(i)' = Evidence!Event(i)
          /\ \A S : Evidence!FirstDay(S)' = Evidence!FirstDay(S)
          /\ \A S : Evidence!Ratios(S)' = Evidence!Ratios(S)
      BY <3>1, SameObservations
    <3>3. RowsOnEvents' = RowsOnEvents
      BY <3>1, <3>2 DEF RowsOnEvents
    <3>4. ShownRight' = ShownRight
      <4>1. Evidence!DisagreementsShown' = Evidence!DisagreementsShown
        BY <3>1, <3>2, EvidenceCardinality DEF Evidence!DisagreementsShown
      <4>2. Evidence!OneRowPerEvent' = Evidence!OneRowPerEvent
        BY <3>1, <3>2 DEF Evidence!OneRowPerEvent
      <4> QED BY <3>1, <3>2, <4>1, <4>2 DEF ShownRight
    <3> QED BY <2>1, <3>1, <3>2, <3>3, <3>4 DEF EvidenceInv
  <2>2. [RecordsNext]_records => Evidence!Next \/ UNCHANGED evidence
    BY DEF RecordsNext, records, WriteLog, ImportOpening, Administer, Connect, SyncMarket, ShowDividends, Trade,
           Reconcile
  <2> QED BY <2>1, <2>2, EvidenceKeeps
<1>3. EvidenceInv => EvidenceShown
  BY EvidenceSound
<1> QED BY <1>1, <1>2, <1>3, PTL DEF RecordsSpec
===============================================================================
