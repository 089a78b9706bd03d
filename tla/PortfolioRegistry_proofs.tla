---------------------- MODULE PortfolioRegistry_proofs ----------------------
(***************************************************************************)
(* Theorems about the registry, for any number of portfolios, requests and *)
(* server instances.                                                       *)
(***************************************************************************)
EXTENDS PortfolioRegistry, FiniteSetTheorems, TLAPS

RequestRecord == [kind : Kind, step : Step, id : 0 .. MaxId, schema : Schema, instance : Instance]

StepsOf(kind) ==
  CASE kind = "use"        -> {"idle", "default", "insertDefault", "active", "header", "service", "build",
                               "base", "extend"}
    [] kind = "reset"      -> {"default", "insertDefault", "active", "header", "clear", "drop", "build", "base"}
    [] kind = "create"     -> {"default", "insertDefault", "count", "insert", "build", "base", "undo", "drop"}
    [] kind = "delete"     -> {"header", "clear", "recheck", "default", "insertDefault", "remove", "drop", "active"}
    [] kind = "select"     -> {"header", "update"}
    [] kind = "deleteUser" -> {"clear", "drop", "remove"}

(* The request q works on a portfolio it has found or inserted. *)
Resolved(q) ==
  \/ q.step \in {"service", "build", "base", "extend", "undo", "recheck"}
  \/ q.kind # "deleteUser" /\ q.step \in {"clear", "drop"}
  \/ q.kind = "delete" /\ q.step \in {"default", "insertDefault", "remove"}

(* What request q relies on: its portfolio has been inserted, its schema is  *)
(* that of its portfolio, what it deletes is not the default, and what it    *)
(* drops for good is no longer listed.                                       *)
Sound(q, u, rs, ds, n) ==
  /\ q.step \in StepsOf(q.kind)
  /\ Resolved(q) => /\ q.id \in 1 .. n - 1
                    /\ u => q.schema = IF q.id \in ds THEN 0 ELSE q.id
  /\ q.kind = "delete" /\ q.step \in {"default", "insertDefault", "remove", "drop"} => q.id \notin ds
  /\ q.kind = "create" /\ q.step \in {"build", "base", "undo", "drop"} => q.id \notin ds
  /\ q.kind \in {"create", "delete"} /\ q.step = "drop" => q.id \notin rs
  /\ q.kind = "delete" /\ q.step = "remove" /\ u => ds # {}

(* The request q is about to give schema s, which holds t, its tables, or to *)
(* remove the portfolios that need them.                                     *)
Rebuilds(q, s, t) ==
  \/ q.kind \in {"reset", "create"} /\ q.schema = s /\ (q.step = "build" \/ (q.step = "base" /\ t # "absent"))
  \/ q.kind = "create" /\ q.schema = s /\ q.step = "undo"
  \/ q.kind = "deleteUser" /\ q.step = "remove"

Good == {"base", "full"}
Covered(s) == tables[s] \in Good \/ \E r \in Request : Rebuilds(request[r], s, tables[s])

(* The schemas of the portfolios a user has or will have. *)
Owned(u, rs, ds) == (IF u THEN {0} ELSE {}) \cup (rs \ ds)

ProofInv ==
  /\ TypeOK
  /\ \A a, b \in defaults : a = b
  /\ ~user => active = 0 /\ rows = {}
  /\ \A r \in Request : Sound(request[r], user, rows, defaults, nextId)
  /\ \A s \in Owned(user, rows, defaults) : Covered(s)

-----------------------------------------------------------------------------
LEMMA RequestTyped ==
  ASSUME TypeOK
  PROVE  request \in [Request -> RequestRecord]
BY DEF TypeOK, RequestRecord

(* How a request moves on. *)
LEMMA GotoRecord ==
  ASSUME TypeOK, NEW r \in Request, NEW step \in Step, Goto(r, step)
  PROVE  \E q \in RequestRecord :
           /\ request' = [request EXCEPT ![r] = q]
           /\ q.step = step /\ q.kind = request[r].kind /\ q.id = request[r].id /\ q.schema = request[r].schema
<1> DEFINE q == [request[r] EXCEPT !.step = step]
<1>1. request[r] \in RequestRecord
  BY RequestTyped
<1>2. /\ q \in RequestRecord
      /\ q.step = step /\ q.kind = request[r].kind /\ q.id = request[r].id /\ q.schema = request[r].schema
  BY <1>1 DEF RequestRecord
<1>3. request' = [request EXCEPT ![r] = q]
  BY DEF Goto
<1> QED BY <1>2, <1>3

LEMMA IdleRecord ==
  ASSUME RegistryConstants
  PROVE  Idle \in RequestRecord /\ Idle.step = "idle" /\ Idle.kind = "use"
<1>1. (CHOOSE i \in Instance : TRUE) \in Instance
  BY DEF RegistryConstants
<1>2. 0 \in 0 .. MaxId
  BY DEF RegistryConstants
<1> QED BY <1>1, <1>2 DEF Idle, RequestRecord, Kind, Step, Schema

LEMMA WorkOnRecord ==
  ASSUME TypeOK, NEW r \in Request, NEW id \in 0 .. MaxId, NEW schema \in Schema, NEW step \in Step,
         WorkOn(r, id, schema, step)
  PROVE  \E q \in RequestRecord :
           /\ request' = [request EXCEPT ![r] = q]
           /\ q.step = step /\ q.kind = request[r].kind /\ q.id = id /\ q.schema = schema
<1> DEFINE q == [request[r] EXCEPT !.id = id, !.schema = schema, !.step = step]
<1>1. request[r] \in RequestRecord
  BY RequestTyped
<1>2. /\ q \in RequestRecord
      /\ q.step = step /\ q.kind = request[r].kind /\ q.id = id /\ q.schema = schema
  BY <1>1 DEF RequestRecord
<1>3. request' = [request EXCEPT ![r] = q]
  BY DEF WorkOn
<1> QED BY <1>2, <1>3

-----------------------------------------------------------------------------
(* What the others rely on outlasts the rows that are inserted, the user     *)
(* that is deleted, and the portfolios that are.                             *)
LEMMA StaysSound ==
  ASSUME NEW q, NEW u \in BOOLEAN, NEW v \in BOOLEAN, NEW rs, NEW ss, NEW ds, NEW es, NEW n \in Nat, NEW m \in Nat,
         Sound(q, u, rs, ds, n), n <= m, v => u,
         v => \A i \in 1 .. n - 1 : i \in ds <=> i \in es,
         \A i \in 1 .. n - 1 : (i \in es => i \in ds) /\ (i \in ss => i \in rs),
         v => (ds # {} => es # {})
  PROVE  Sound(q, v, ss, es, m)
<1>1. q.kind \in {"delete", "create"} /\ q.step \in {"drop"} => Resolved(q)
  BY DEF Resolved
<1>2. q.kind = "delete" /\ q.step \in {"default", "insertDefault", "remove", "drop"} => Resolved(q)
  BY DEF Resolved
<1>3. q.kind = "create" /\ q.step \in {"build", "base", "undo", "drop"} => Resolved(q)
  BY DEF Resolved
<1>4. Resolved(q) => q.id \in 1 .. n - 1 /\ q.id \in 1 .. m - 1
  BY DEF Sound
<1> QED BY <1>1, <1>2, <1>3, <1>4 DEF Sound

(* A covered schema stays so while tables are only added and the request     *)
(* that moves still covers it if it did.                                     *)
LEMMA StaysCovered ==
  ASSUME NEW r \in Request, NEW s, Covered(s),
         \A other \in Request \ {r} : request'[other] = request[other],
         tables[s] \in Good => tables'[s] \in Good,
         tables[s] # "absent" => tables'[s] # "absent",
         Rebuilds(request[r], s, tables[s]) => tables'[s] \in Good \/ Rebuilds(request'[r], s, tables'[s])
  PROVE  Covered(s)'
<1>1. CASE tables[s] \in Good
  BY <1>1 DEF Covered
<1>2. CASE Rebuilds(request[r], s, tables[s])
  BY <1>2 DEF Covered
<1>3. ASSUME NEW other \in Request \ {r}, Rebuilds(request[other], s, tables[s])
      PROVE  Covered(s)'
  <2>1. Rebuilds(request'[other], s, tables'[s])
    BY <1>3 DEF Rebuilds
  <2> QED BY <2>1 DEF Covered
<1> QED BY <1>1, <1>2, <1>3 DEF Covered

(* What is shown of a step: the tables and the request that moves.           *)
LEMMA StepSound ==
  ASSUME ProofInv, NEW r \in Request, NEW q \in RequestRecord,
         request' = [request EXCEPT ![r] = q],
         user' \in BOOLEAN, active' \in 0 .. MaxId, nextId' \in 1 .. MaxId + 1, nextId \in Nat, nextId' \in Nat,
         rows' \subseteq 1 .. nextId' - 1, defaults' \subseteq rows', tables' \in [Schema -> Tables],
         public' \in {"empty", "base", "full"}, cache' \in [Instance -> SUBSET Id],
         \A a, b \in defaults' : a = b,
         ~user' => active' = 0 /\ rows' = {},
         nextId <= nextId', user' => user,
         user' => \A i \in 1 .. nextId - 1 : i \in defaults <=> i \in defaults',
         \A i \in 1 .. nextId - 1 : (i \in defaults' => i \in defaults) /\ (i \in rows' => i \in rows),
         user' => (defaults # {} => defaults' # {}),
         Sound(q, user', rows', defaults', nextId'),
         \A s \in Owned(user', rows', defaults') : Covered(s)'
  PROVE  ProofInv'
<1>1. request' \in [Request -> RequestRecord]
  BY RequestTyped DEF ProofInv
<1>2. TypeOK'
  BY <1>1 DEF TypeOK, RequestRecord
<1>3. ASSUME NEW other \in Request
      PROVE  Sound(request'[other], user', rows', defaults', nextId')
  <2>1. CASE other = r
    <3>1. request'[other] = q
      BY <2>1, RequestTyped DEF ProofInv
    <3> QED BY <3>1
  <2>2. CASE other # r
    <3>1. request'[other] = request[other]
      BY <2>2, RequestTyped DEF ProofInv
    <3>2. Sound(request[other], user, rows, defaults, nextId) /\ user \in BOOLEAN
      BY DEF ProofInv, TypeOK
    <3>3. Sound(request[other], user', rows', defaults', nextId')
      BY <3>2, StaysSound
    <3> QED BY <3>1, <3>3
  <2> QED BY <2>1, <2>2
<1> QED BY <1>2, <1>3 DEF ProofInv

LEMMA OwnedSchemas ==
  ASSUME RegistryConstants, TypeOK, NEW s \in Owned(user, rows, defaults)
  PROVE  s \in Schema
<1>1. MaxId \in Nat /\ nextId \in 1 .. MaxId + 1 /\ rows \subseteq 1 .. nextId - 1
  BY DEF RegistryConstants, TypeOK
<1>2. s = 0 \/ s \in 1 .. nextId - 1
  BY <1>1 DEF Owned
<1>3. s \in 0 .. MaxId
  BY <1>1, <1>2
<1> QED BY <1>3 DEF Schema

(* A step that leaves the rows alone. *)
LEMMA RowsStay ==
  ASSUME RegistryConstants, ProofInv, NEW r \in Request, NEW q \in RequestRecord,
         request' = [request EXCEPT ![r] = q],
         UNCHANGED <<user, rows, defaults, nextId>>,
         active' \in 0 .. MaxId, ~user => active' = 0, cache' \in [Instance -> SUBSET Id],
         tables' \in [Schema -> Tables], public' \in {"empty", "base", "full"},
         Sound(q, user, rows, defaults, nextId),
         \A s \in Owned(user, rows, defaults) : Covered(s)'
  PROVE  ProofInv'
<1>1. /\ user \in BOOLEAN /\ nextId \in 1 .. MaxId + 1 /\ nextId \in Nat /\ rows \subseteq 1 .. nextId - 1
      /\ defaults \subseteq rows
  BY DEF ProofInv, TypeOK, RegistryConstants
<1>2. (\A a, b \in defaults : a = b) /\ (~user => rows = {})
  BY DEF ProofInv
<1>3. user' = user /\ rows' = rows /\ defaults' = defaults /\ nextId' = nextId
  OBVIOUS
<1>4. \A s \in Owned(user', rows', defaults') : Covered(s)'
  BY <1>3
<1>5. Sound(q, user', rows', defaults', nextId')
  BY <1>3
<1>6. /\ user' \in BOOLEAN /\ nextId' \in 1 .. MaxId + 1 /\ nextId' \in Nat /\ rows' \subseteq 1 .. nextId' - 1
      /\ defaults' \subseteq rows' /\ \A a, b \in defaults' : a = b
      /\ ~user' => active' = 0 /\ rows' = {}
  BY <1>1, <1>2, <1>3
<1>7. /\ nextId <= nextId' /\ (user' => user) /\ (user' => (defaults # {} => defaults' # {}))
      /\ user' => \A i \in 1 .. nextId - 1 : i \in defaults <=> i \in defaults'
      /\ \A i \in 1 .. nextId - 1 : (i \in defaults' => i \in defaults) /\ (i \in rows' => i \in rows)
  BY <1>1, <1>3
<1> QED BY <1>1, <1>4, <1>5, <1>6, <1>7, StepSound

LEMMA Moved ==
  ASSUME ProofInv, NEW r \in Request, NEW q, request' = [request EXCEPT ![r] = q]
  PROVE  request'[r] = q /\ \A other \in Request \ {r} : request'[other] = request[other]
BY RequestTyped DEF ProofInv

(* A step that leaves the rows and the tables alone. *)
LEMMA MovesOnly ==
  ASSUME RegistryConstants, ProofInv, NEW r \in Request, NEW q \in RequestRecord,
         request' = [request EXCEPT ![r] = q],
         UNCHANGED <<user, rows, defaults, nextId, tables, public>>,
         active' \in 0 .. MaxId, ~user => active' = 0, cache' \in [Instance -> SUBSET Id],
         Sound(q, user, rows, defaults, nextId),
         \A s \in Schema : Rebuilds(request[r], s, tables[s]) => Rebuilds(q, s, tables[s])
  PROVE  ProofInv'
<1>1. tables' \in [Schema -> Tables] /\ public' \in {"empty", "base", "full"}
  BY DEF ProofInv, TypeOK
<1>2. ASSUME NEW s \in Owned(user, rows, defaults) PROVE Covered(s)'
  <2>1. s \in Schema /\ Covered(s)
    BY OwnedSchemas DEF ProofInv
  <2> QED BY <2>1, Moved, StaysCovered
<1> QED BY <1>1, <1>2, RowsStay

LEMMA Facts ==
  ASSUME RegistryConstants, ProofInv, NEW r \in Request
  PROVE  /\ request[r] \in RequestRecord /\ Sound(request[r], user, rows, defaults, nextId)
         /\ active \in 0 .. MaxId /\ cache \in [Instance -> SUBSET Id] /\ (~user => active = 0)
         /\ defaults # {} => Default \in defaults
         /\ \A i \in rows : i \in 1 .. nextId - 1 /\ i \in 0 .. MaxId /\ SchemaOf(i) \in Schema
<1>1. MaxId \in Nat /\ nextId \in 1 .. MaxId + 1 /\ rows \subseteq 1 .. nextId - 1
  BY DEF ProofInv, RegistryConstants, TypeOK
<1>2. ASSUME NEW i \in rows PROVE i \in 1 .. nextId - 1 /\ i \in 0 .. MaxId
  <2>1. i \in 1 .. nextId - 1
    BY <1>1
  <2> QED BY <1>1, <2>1
<1>3. 0 \in Schema /\ \A i \in 0 .. MaxId : i \in Schema
  BY <1>1 DEF Schema
<1>4. \A i \in rows : SchemaOf(i) \in Schema
  BY <1>2, <1>3 DEF SchemaOf
<1>5. defaults # {} => Default \in defaults
  BY DEF Default
<1> QED BY <1>2, <1>4, <1>5, RequestTyped DEF ProofInv, TypeOK

(* A request that neither rebuilds nor removes anything is over ...          *)
LEMMA Rests ==
  ASSUME RegistryConstants, ProofInv, NEW r \in Request, Done(r),
         UNCHANGED <<user, rows, defaults, nextId, tables, public>>,
         active' \in 0 .. MaxId, ~user => active' = 0, cache' \in [Instance -> SUBSET Id],
         request[r].step \notin {"build", "base", "undo", "remove"}
  PROVE  ProofInv'
<1>1. Sound(Idle, user, rows, defaults, nextId)
  BY IdleRecord DEF Sound, StepsOf, Resolved
<1>2. \A s : ~Rebuilds(request[r], s, tables[s])
  BY DEF Rebuilds
<1>3. request' = [request EXCEPT ![r] = Idle]
  BY DEF Done
<1> QED BY <1>1, <1>2, <1>3, IdleRecord, MovesOnly

(* ... or goes on.                                                           *)
LEMMA Goes ==
  ASSUME RegistryConstants, ProofInv, NEW r \in Request, NEW step \in Step, Goto(r, step),
         UNCHANGED <<user, rows, defaults, nextId, tables, public>>,
         active' \in 0 .. MaxId, ~user => active' = 0, cache' \in [Instance -> SUBSET Id],
         request[r].step \notin {"build", "base", "undo", "remove"},
         \A q \in RequestRecord :
           q.step = step /\ q.kind = request[r].kind /\ q.id = request[r].id /\ q.schema = request[r].schema
             => Sound(q, user, rows, defaults, nextId)
  PROVE  ProofInv'
<1>1. PICK q \in RequestRecord :
        /\ request' = [request EXCEPT ![r] = q]
        /\ q.step = step /\ q.kind = request[r].kind /\ q.id = request[r].id /\ q.schema = request[r].schema
  BY GotoRecord DEF ProofInv
<1>2. \A s : ~Rebuilds(request[r], s, tables[s])
  BY DEF Rebuilds
<1> QED BY <1>1, <1>2, MovesOnly

LEMMA Works ==
  ASSUME RegistryConstants, ProofInv, NEW r \in Request, NEW id \in rows, NEW step \in Step,
         WorkOn(r, id, SchemaOf(id), step),
         UNCHANGED <<user, rows, defaults, nextId, tables, public>>,
         active' \in 0 .. MaxId, ~user => active' = 0, cache' \in [Instance -> SUBSET Id],
         request[r].step \notin {"build", "base", "undo", "remove"},
         step \in StepsOf(request[r].kind), step \in {"service", "clear", "update"}
  PROVE  ProofInv'
<1>1. id \in 0 .. MaxId /\ SchemaOf(id) \in Schema /\ id \in 1 .. nextId - 1
  BY Facts
<1>2. PICK q \in RequestRecord :
        /\ request' = [request EXCEPT ![r] = q]
        /\ q.step = step /\ q.kind = request[r].kind /\ q.id = id /\ q.schema = SchemaOf(id)
  BY <1>1, WorkOnRecord DEF ProofInv
<1>3. \A s : ~Rebuilds(request[r], s, tables[s])
  BY DEF Rebuilds
<1>4. Sound(q, user, rows, defaults, nextId)
  BY <1>1, <1>2 DEF Sound, SchemaOf
<1> QED BY <1>2, <1>3, <1>4, MovesOnly

-----------------------------------------------------------------------------
LEMMA BeginKeeps ==
  ASSUME RegistryConstants, ProofInv, NEW r \in Request, NEW kind \in Kind, NEW id \in 0 .. MaxId,
         NEW i \in Instance, Begin(r, kind, id, i)
  PROVE  ProofInv'
<1> DEFINE step == CASE kind \in {"use", "reset"} -> IF id = 0 THEN "default" ELSE "header"
                     [] kind = "create"           -> "default"
                     [] kind \in {"delete", "select"} -> "header"
                     [] kind = "deleteUser"       -> "clear"
           q == [kind |-> kind, id |-> id, schema |-> 0, instance |-> i, step |-> step]
<1>1. request' = [request EXCEPT ![r] = q] /\ UNCHANGED <<user, active, rows, defaults, nextId, tables, public, cache>>
  BY DEF Begin, registry, database
<1>2. step \in Step /\ step \in StepsOf(kind) /\ (kind = "deleteUser" => step = "clear")
      /\ step \in {"default", "header", "clear"} /\ (kind # "deleteUser" => step # "clear")
      /\ (kind = "delete" => step = "header")
  BY DEF Kind, Step, StepsOf
<1>3. 0 \in Schema
  BY DEF RegistryConstants, Schema
<1> HIDE DEF step
<1>4. q \in RequestRecord /\ q.kind = kind /\ q.step = step
  BY <1>2, <1>3 DEF RequestRecord
<1> HIDE DEF q
<1>5. Sound(q, user, rows, defaults, nextId)
  BY <1>2, <1>4 DEF Sound, Resolved
<1>6. \A s : ~Rebuilds(request[r], s, tables[s])
  BY DEF Rebuilds, Begin, At
<1> QED BY <1>1, <1>4, <1>5, <1>6, Facts, MovesOnly

LEMMA ReadDefaultKeeps ==
  ASSUME RegistryConstants, ProofInv, NEW r \in Request, ReadDefault(r)
  PROVE  ProofInv'
<1>1. request[r].step = "default" /\ UNCHANGED <<user, active, rows, defaults, nextId, tables, public, cache>>
  BY DEF ReadDefault, At, registry, database
<1>2. Sound(request[r], user, rows, defaults, nextId) /\ request[r].kind \in Kind
  BY Facts DEF RequestRecord
<1>3. ASSUME NEW q \in RequestRecord, q.step = "insertDefault", q.kind = request[r].kind,
             q.id = request[r].id, q.schema = request[r].schema
      PROVE  Sound(q, user, rows, defaults, nextId)
  BY <1>1, <1>2, <1>3 DEF Sound, Resolved, StepsOf, Kind
<1>4. "insertDefault" \in Step /\ Goto(r, "insertDefault")
  BY DEF Step, ReadDefault
<1> QED BY <1>1, <1>3, <1>4, Facts, Goes

(* The default portfolio is there, and selected if nothing is. *)
LEMMA TakesDefault ==
  ASSUME RegistryConstants, ProofInv, NEW r \in Request, request[r].step \in {"default", "insertDefault"},
         defaults # {}, active' = IF active = 0 THEN Default ELSE active,
         Goto(r, AfterDefault(request[r].kind)), UNCHANGED <<user, rows, defaults, nextId, tables, public, cache>>
  PROVE  ProofInv'
<1> DEFINE step == AfterDefault(request[r].kind)
<1>1. Goto(r, step)
  OBVIOUS
<1>2. Sound(request[r], user, rows, defaults, nextId) /\ request[r].kind \in Kind
  BY Facts DEF RequestRecord
<1>3. request[r].kind \in {"use", "reset", "create", "delete"}
  BY <1>2 DEF Sound, StepsOf, Kind
<1>4. /\ step \in {"active", "count", "remove"} /\ step \in StepsOf(request[r].kind) /\ step \in Step
      /\ request[r].kind = "delete" <=> step = "remove"
  BY <1>3 DEF AfterDefault, StepsOf, Step
<1> HIDE DEF step
<1>5. ASSUME NEW q \in RequestRecord, q.step = step, q.kind = request[r].kind,
             q.id = request[r].id, q.schema = request[r].schema
      PROVE  Sound(q, user, rows, defaults, nextId)
  BY <1>2, <1>4, <1>5 DEF Sound, Resolved
<1>6. Default \in defaults /\ defaults \subseteq rows /\ (~user => rows = {})
  BY Facts DEF ProofInv, TypeOK
<1>7. active' \in 0 .. MaxId /\ (~user => active' = 0) /\ cache' \in [Instance -> SUBSET Id]
  BY <1>6, Facts
<1> QED BY <1>1, <1>4, <1>5, <1>7, Goes

LEMMA HaveDefaultKeeps ==
  ASSUME RegistryConstants, ProofInv, NEW r \in Request, HaveDefault(r)
  PROVE  ProofInv'
BY TakesDefault DEF HaveDefault, At, database

(* Insert or not, there is one default portfolio afterwards. *)
LEMMA InsertDefaultKeeps ==
  ASSUME RegistryConstants, ProofInv, NEW r \in Request, InsertDefault(r)
  PROVE  ProofInv'
<1>1. request[r].step = "insertDefault" /\ UNCHANGED <<user, tables, public, cache>>
  BY DEF InsertDefault, At, database
<1>2. CASE user /\ defaults # {} /\ (active' = IF active = 0 THEN Default ELSE active)
           /\ Goto(r, AfterDefault(request[r].kind)) /\ UNCHANGED <<rows, defaults, nextId>>
  BY <1>1, <1>2, TakesDefault
<1>3. CASE ~user /\ Done(r) /\ UNCHANGED <<active, rows, defaults, nextId>>
  BY <1>1, <1>3, Facts, Rests
<1>4. CASE /\ user /\ defaults = {} /\ nextId <= MaxId
           /\ rows' = rows \union {nextId} /\ defaults' = defaults \union {nextId} /\ nextId' = nextId + 1
           /\ active' = IF active = 0 THEN nextId ELSE active
           /\ Goto(r, AfterDefault(request[r].kind))
  <2>1. Sound(request[r], user, rows, defaults, nextId) /\ request[r].kind \in Kind
    BY Facts DEF RequestRecord
  <2>2. request[r].kind \in {"use", "reset", "create", "delete"}
    BY <1>1, <2>1 DEF Sound, StepsOf, Kind
  <2> DEFINE step == AfterDefault(request[r].kind)
  <2>3. /\ step \in {"active", "count", "remove"} /\ step \in StepsOf(request[r].kind) /\ step \in Step
        /\ request[r].kind = "delete" <=> step = "remove"
    BY <2>2 DEF AfterDefault, StepsOf, Step
  <2>4. Goto(r, step)
    BY <1>4
  <2> HIDE DEF step
  <2>5. PICK q \in RequestRecord :
          /\ request' = [request EXCEPT ![r] = q]
          /\ q.step = step /\ q.kind = request[r].kind /\ q.id = request[r].id /\ q.schema = request[r].schema
    BY <2>3, <2>4, GotoRecord DEF ProofInv
  <2>6. /\ MaxId \in Nat /\ nextId \in 1 .. MaxId + 1 /\ nextId \in Nat /\ rows \subseteq 1 .. nextId - 1
        /\ active \in 0 .. MaxId
    BY DEF ProofInv, TypeOK, RegistryConstants
  <2>7. /\ nextId' \in 1 .. MaxId + 1 /\ nextId' \in Nat /\ rows' \subseteq 1 .. nextId' - 1 /\ defaults' \subseteq rows'
        /\ active' \in 0 .. MaxId /\ defaults' = {nextId} /\ nextId \notin 1 .. nextId - 1 /\ nextId <= nextId'
    BY <1>4, <2>6
  <2>8. Sound(q, user', rows', defaults', nextId')
    <3>1. q.kind = "delete" => q.id \in 1 .. nextId - 1 /\ q.schema = q.id /\ q.id \notin defaults'
      BY <1>1, <1>4, <2>1, <2>5, <2>7 DEF Sound, Resolved
    <3>2. 1 .. nextId - 1 \subseteq 1 .. nextId' - 1
      BY <1>4, <2>6
    <3> QED BY <1>4, <2>3, <2>5, <2>7, <3>1, <3>2 DEF Sound, Resolved
  <2>9. \A s : ~Rebuilds(request[r], s, tables[s])
    BY <1>1 DEF Rebuilds
  <2>10. ASSUME NEW s \in Owned(user', rows', defaults') PROVE Covered(s)'
    <3>1. s \in Owned(user, rows, defaults)
      BY <1>1, <1>4 DEF Owned
    <3>2. Covered(s) /\ tables'[s] = tables[s]
      BY <1>1, <3>1 DEF ProofInv
    <3> QED BY <2>5, <2>9, <3>2, Moved, StaysCovered
  <2>11. /\ user' \in BOOLEAN /\ tables' \in [Schema -> Tables] /\ public' \in {"empty", "base", "full"}
         /\ cache' \in [Instance -> SUBSET Id] /\ user'
    BY <1>1, <1>4 DEF ProofInv, TypeOK
  <2>12. /\ \A a, b \in defaults' : a = b
         /\ \A i \in 1 .. nextId - 1 : i \in defaults <=> i \in defaults'
         /\ \A i \in 1 .. nextId - 1 : i \in rows' => i \in rows
    BY <1>4, <2>7
  <2> QED BY <1>4, <2>5, <2>6, <2>7, <2>8, <2>10, <2>11, <2>12, StepSound
<1> QED BY <1>2, <1>3, <1>4 DEF InsertDefault

LEMMA ResolveActiveKeeps ==
  ASSUME RegistryConstants, ProofInv, NEW r \in Request, ResolveActive(r)
  PROVE  ProofInv'
<1> DEFINE id == IF active \in rows THEN active ELSE IF defaults # {} THEN Default ELSE 0
<1>1. request[r].step = "active" /\ UNCHANGED <<user, rows, defaults, nextId, tables, public, cache>>
  BY DEF ResolveActive, At, database
<1>2. id = 0 \/ id \in rows
  BY Facts DEF ProofInv, TypeOK
<1>3. IF id = 0 THEN Done(r) /\ UNCHANGED active
      ELSE active' = id /\ IF request[r].kind = "delete" THEN Done(r)
                          ELSE WorkOn(r, id, SchemaOf(id), AfterResolve(request[r].kind))
  BY DEF ResolveActive
<1> HIDE DEF id
<1>4. CASE id = 0
  BY <1>1, <1>3, <1>4, Facts, Rests
<1>5. CASE id # 0
  <2>1. id \in rows /\ active' \in 0 .. MaxId /\ user
    BY <1>2, <1>3, <1>5, Facts DEF ProofInv
  <2>2. CASE request[r].kind = "delete"
    BY <1>1, <1>3, <1>5, <2>1, <2>2, Facts, Rests
  <2>3. CASE request[r].kind # "delete"
    <3>1. request[r].kind \in {"use", "reset"}
      BY <1>1, <2>3, Facts DEF Sound, StepsOf, RequestRecord, Kind
    <3> DEFINE step == AfterResolve(request[r].kind)
    <3>2. step \in Step /\ step \in StepsOf(request[r].kind) /\ step \in {"service", "clear", "update"}
      BY <3>1 DEF AfterResolve, StepsOf, Step
    <3>3. WorkOn(r, id, SchemaOf(id), step)
      BY <1>3, <1>5, <2>3
    <3> HIDE DEF step
    <3> QED BY <1>1, <2>1, <3>2, <3>3, Facts, Works
  <2> QED BY <2>2, <2>3
<1> QED BY <1>4, <1>5

LEMMA ResolveHeaderKeeps ==
  ASSUME RegistryConstants, ProofInv, NEW r \in Request, ResolveHeader(r)
  PROVE  ProofInv'
<1>1. request[r].step = "header" /\ UNCHANGED <<user, active, rows, defaults, nextId, tables, public, cache>>
  BY DEF ResolveHeader, At, registry, database
<1>2. CASE request[r].id \in rows
  <2>1. request[r].kind \in {"use", "reset", "delete", "select"}
    BY <1>1, Facts DEF Sound, StepsOf, RequestRecord, Kind
  <2> DEFINE step == AfterResolve(request[r].kind)
  <2>2. step \in Step /\ step \in StepsOf(request[r].kind) /\ step \in {"service", "clear", "update"}
    BY <2>1 DEF AfterResolve, StepsOf, Step
  <2>3. WorkOn(r, request[r].id, SchemaOf(request[r].id), step)
    BY <1>2 DEF ResolveHeader
  <2> HIDE DEF step
  <2> QED BY <1>1, <1>2, <2>2, <2>3, Facts, Works
<1>3. CASE request[r].id \notin rows
  BY <1>1, <1>3, Facts, Rests DEF ResolveHeader
<1> QED BY <1>2, <1>3

(* A request goes on with the portfolio it has. *)
LEMMA GoesOn ==
  ASSUME RegistryConstants, ProofInv, NEW r \in Request, NEW step \in Step, Goto(r, step),
         UNCHANGED <<user, active, rows, defaults, nextId, tables, public>>, cache' \in [Instance -> SUBSET Id],
         request[r].step \notin {"build", "base", "undo", "remove"},
         step \in StepsOf(request[r].kind), Resolved(request[r]) \/ request[r].kind = "deleteUser",
         request[r].kind = "delete" => step \in {"recheck", "default"},
         step = "default" => request[r].id \notin defaults,
         step = "drop" => request[r].kind \in {"reset", "deleteUser"},
         request[r].kind # "create", step # "remove"
  PROVE  ProofInv'
<1>1. Sound(request[r], user, rows, defaults, nextId)
  BY Facts
<1>2. ASSUME NEW q \in RequestRecord, q.step = step, q.kind = request[r].kind,
             q.id = request[r].id, q.schema = request[r].schema
      PROVE  Sound(q, user, rows, defaults, nextId)
  <2>1. CASE request[r].kind = "deleteUser"
    BY <1>2, <2>1 DEF Sound, Resolved, StepsOf
  <2>2. CASE Resolved(request[r])
    BY <1>1, <1>2, <2>2 DEF Sound
  <2> QED BY <2>1, <2>2
<1> QED BY <1>2, Facts, Goes

LEMMA LookUpKeeps ==
  ASSUME RegistryConstants, ProofInv, NEW r \in Request, LookUp(r)
  PROVE  ProofInv'
<1>1. /\ request[r].step = "service"
      /\ UNCHANGED <<user, active, rows, defaults, nextId, tables, public, cache>>
  BY DEF LookUp, At, registry, database
<1>2. request[r].kind = "use" /\ Resolved(request[r])
  BY <1>1, Facts DEF Sound, StepsOf, RequestRecord, Kind, Resolved
<1>3. CASE Done(r)
  BY <1>1, <1>3, Facts, Rests
<1>4. CASE Goto(r, "build")
  <2>1. "build" \in Step /\ "build" \in StepsOf(request[r].kind)
    BY <1>2 DEF Step, StepsOf
  <2> QED BY <1>1, <1>2, <1>4, <2>1, Facts, GoesOn
<1> QED BY <1>3, <1>4 DEF LookUp

LEMMA ClearKeeps ==
  ASSUME RegistryConstants, ProofInv, NEW r \in Request, Clear(r)
  PROVE  ProofInv'
<1>1. request[r].step = "clear" /\ UNCHANGED <<user, active, rows, defaults, nextId, tables, public>>
  BY DEF Clear, At, registry, database
<1>2. request[r].kind \in {"reset", "delete", "deleteUser"}
      /\ (Resolved(request[r]) \/ request[r].kind = "deleteUser")
  BY <1>1, Facts DEF Sound, StepsOf, RequestRecord, Kind, Resolved
<1>3. cache' \in [Instance -> SUBSET Id]
  BY Facts DEF Clear
<1> DEFINE step == IF request[r].kind = "delete" THEN "recheck" ELSE "drop"
<1>4. Goto(r, step) /\ step \in Step /\ step \in StepsOf(request[r].kind) /\ step \in {"recheck", "drop"}
      /\ (request[r].kind = "delete" => step = "recheck") /\ (step = "drop" => request[r].kind # "delete")
  BY <1>2 DEF Clear, Step, StepsOf
<1> HIDE DEF step
<1> QED BY <1>1, <1>2, <1>3, <1>4, GoesOn

LEMMA RecheckKeeps ==
  ASSUME RegistryConstants, ProofInv, NEW r \in Request, Recheck(r)
  PROVE  ProofInv'
<1>1. /\ request[r].step = "recheck"
      /\ UNCHANGED <<user, active, rows, defaults, nextId, tables, public, cache>>
  BY DEF Recheck, At, registry, database
<1>2. request[r].kind = "delete" /\ Resolved(request[r])
  BY <1>1, Facts DEF Sound, StepsOf, RequestRecord, Kind, Resolved
<1>3. CASE Done(r)
  BY <1>1, <1>3, Facts, Rests
<1>4. CASE Goto(r, "default") /\ request[r].id \notin defaults
  <2>1. "default" \in Step /\ "default" \in StepsOf(request[r].kind)
    BY <1>2 DEF Step, StepsOf
  <2> QED BY <1>1, <1>2, <1>4, <2>1, Facts, GoesOn
<1> QED BY <1>3, <1>4 DEF Recheck

LEMMA SelectKeeps ==
  ASSUME RegistryConstants, ProofInv, NEW r \in Request, Select(r)
  PROVE  ProofInv'
<1>1. /\ request[r].step = "update" /\ Done(r) /\ active' = IF user THEN request[r].id ELSE active
      /\ UNCHANGED <<user, rows, defaults, nextId, tables, public, cache>>
  BY DEF Select, At, database
<1>2. active' \in 0 .. MaxId /\ (~user => active' = 0)
  BY <1>1, Facts DEF RequestRecord
<1> QED BY <1>1, <1>2, Facts, Rests

LEMMA CountKeeps ==
  ASSUME RegistryConstants, ProofInv, NEW r \in Request, Count(r)
  PROVE  ProofInv'
<1>1. /\ request[r].step = "count"
      /\ UNCHANGED <<user, active, rows, defaults, nextId, tables, public, cache>>
  BY DEF Count, At, registry, database
<1>2. request[r].kind = "create"
  BY <1>1, Facts DEF Sound, StepsOf, RequestRecord, Kind
<1>3. CASE Done(r)
  BY <1>1, <1>3, Facts, Rests
<1>4. CASE Goto(r, "insert")
  <2>1. "insert" \in Step /\ "insert" \in StepsOf("create")
    BY DEF Step, StepsOf
  <2>2. ASSUME NEW q \in RequestRecord, q.step = "insert", q.kind = request[r].kind
        PROVE  Sound(q, user, rows, defaults, nextId)
    BY <1>2, <2>1, <2>2 DEF Sound, Resolved
  <2> QED BY <1>1, <1>4, <2>1, <2>2, Facts, Goes
<1> QED BY <1>3, <1>4 DEF Count

-----------------------------------------------------------------------------
(* Building and dropping                                                     *)
LEMMA CreateSchemaKeeps ==
  ASSUME RegistryConstants, ProofInv, NEW r \in Request, CreateSchema(r)
  PROVE  ProofInv'
<1> DEFINE sc == request[r].schema
<1>1. /\ request[r].step = "build" /\ Goto(r, "base")
      /\ tables' = [tables EXCEPT ![sc] = IF @ = "absent" THEN "empty" ELSE @]
      /\ UNCHANGED <<user, active, rows, defaults, nextId, public, cache>>
  BY DEF CreateSchema, At, registry
<1>2. "base" \in Step /\ sc \in Schema
  BY Facts DEF Step, RequestRecord
<1>3. PICK q \in RequestRecord :
        /\ request' = [request EXCEPT ![r] = q]
        /\ q.step = "base" /\ q.kind = request[r].kind /\ q.id = request[r].id /\ q.schema = request[r].schema
  BY <1>1, <1>2, GotoRecord DEF ProofInv
<1>4. request[r].kind \in {"use", "reset", "create"}
  BY <1>1, Facts DEF Sound, StepsOf, RequestRecord, Kind
<1>5. Sound(q, user, rows, defaults, nextId)
  BY <1>1, <1>3, <1>4, Facts DEF Sound, StepsOf, Resolved
<1>6. tables \in [Schema -> Tables] /\ public \in {"empty", "base", "full"}
  BY DEF ProofInv, TypeOK
<1>7. tables' \in [Schema -> Tables] /\ tables'[sc] # "absent"
  BY <1>1, <1>2, <1>6 DEF Tables
<1>8. ASSUME NEW s \in Owned(user, rows, defaults) PROVE Covered(s)'
  <2>1. s \in Schema /\ Covered(s)
    BY OwnedSchemas DEF ProofInv
  <2>2. (tables[s] \in Good => tables'[s] \in Good) /\ (tables[s] # "absent" => tables'[s] # "absent")
    BY <1>1, <1>2, <1>6, <2>1 DEF Good
  <2>3. Rebuilds(request[r], s, tables[s]) => Rebuilds(q, s, tables'[s])
    BY <1>1, <1>3, <1>4, <1>7 DEF Rebuilds
  <2> QED BY <1>3, <2>1, <2>2, <2>3, Moved, StaysCovered
<1> QED BY <1>1, <1>3, <1>5, <1>6, <1>7, <1>8, Facts, RowsStay

(* Tables are added, to a schema or to public, by a request that then rests  *)
(* or goes on.                                                               *)
LEMMA TablesAdded ==
  ASSUME RegistryConstants, ProofInv, NEW r \in Request, NEW q \in RequestRecord,
         request' = [request EXCEPT ![r] = q], Sound(q, user, rows, defaults, nextId),
         UNCHANGED <<user, active, rows, defaults, nextId>>, cache' \in [Instance -> SUBSET Id],
         public' \in {"empty", "base", "full"}, request[r].step \in {"base", "extend"},
         LET sc == request[r].schema IN
           IF (tables[sc] \in {"absent", "empty"} /\ request[r].step = "extend") \/ tables[sc] = "absent"
           THEN tables' = tables
           ELSE \E level \in Good : tables' = [tables EXCEPT ![sc] = level]
  PROVE  ProofInv'
<1> DEFINE sc == request[r].schema
<1>1. sc \in Schema /\ tables \in [Schema -> Tables]
  BY Facts DEF RequestRecord, ProofInv, TypeOK
<1>2. \/ tables' = tables /\ (request[r].step = "base" => tables[sc] = "absent")
      \/ \E level \in Good : tables' = [tables EXCEPT ![sc] = level]
  OBVIOUS
<1> HIDE DEF sc
<1>3. tables' \in [Schema -> Tables]
  BY <1>1, <1>2 DEF Good, Tables
<1>4. ASSUME NEW s \in Owned(user, rows, defaults) PROVE Covered(s)'
  <2>1. s \in Schema /\ Covered(s)
    BY OwnedSchemas DEF ProofInv
  <2>2. (tables[s] \in Good => tables'[s] \in Good) /\ (tables[s] # "absent" => tables'[s] # "absent")
    BY <1>1, <1>2, <2>1 DEF Good
  <2>3. Rebuilds(request[r], s, tables[s]) => tables'[s] \in Good
    BY <1>1, <1>2, <2>1 DEF Rebuilds, sc, Good
  <2> QED BY <2>1, <2>2, <2>3, Moved, StaysCovered
<1> QED BY <1>3, <1>4, Facts, RowsStay

LEMMA CreateBaseKeeps ==
  ASSUME RegistryConstants, ProofInv, NEW r \in Request, CreateBase(r)
  PROVE  ProofInv'
<1> DEFINE sc == request[r].schema
<1>1. /\ request[r].step = "base" /\ UNCHANGED <<user, active, rows, defaults, nextId, cache>>
      /\ IF tables[sc] = "absent"
         THEN public' = Raise(public, "base") /\ UNCHANGED tables
         ELSE tables' = [tables EXCEPT ![sc] = Raise(@, "base")] /\ UNCHANGED public
      /\ IF request[r].kind = "use" THEN Goto(r, "extend") ELSE Done(r)
  BY DEF CreateBase, At, registry
<1>2. public' \in {"empty", "base", "full"}
  BY <1>1 DEF ProofInv, TypeOK, Raise
<1>3. IF tables[sc] = "absent" THEN tables' = tables
      ELSE \E level \in Good : tables' = [tables EXCEPT ![sc] = level]
  <2>1. Raise(tables[sc], "base") \in Good
    BY DEF Raise, Good
  <2>2. tables[sc] # "absent" => tables' = [tables EXCEPT ![sc] = Raise(tables[sc], "base")]
    BY <1>1
  <2> QED BY <1>1, <2>1, <2>2
<1>4. \E q \in RequestRecord : request' = [request EXCEPT ![r] = q] /\ Sound(q, user, rows, defaults, nextId)
  <2>1. CASE request[r].kind = "use"
    <3>1. "extend" \in Step /\ "extend" \in StepsOf("use") /\ Resolved(request[r])
      BY <1>1 DEF Step, StepsOf, Resolved
    <3>2. PICK q \in RequestRecord :
            /\ request' = [request EXCEPT ![r] = q]
            /\ q.step = "extend" /\ q.kind = request[r].kind /\ q.id = request[r].id /\ q.schema = request[r].schema
      BY <1>1, <2>1, <3>1, GotoRecord DEF ProofInv
    <3>3. Sound(q, user, rows, defaults, nextId)
      BY <2>1, <3>1, <3>2, Facts DEF Sound
    <3> QED BY <3>2, <3>3
  <2>2. CASE request[r].kind # "use"
    <3>1. Sound(Idle, user, rows, defaults, nextId)
      BY IdleRecord DEF Sound, StepsOf, Resolved
    <3> QED BY <1>1, <2>2, <3>1, IdleRecord DEF Done
  <2> QED BY <2>1, <2>2
<1> HIDE DEF sc
<1> QED BY <1>1, <1>2, <1>3, <1>4, Facts, TablesAdded DEF sc

LEMMA ExtendKeeps ==
  ASSUME RegistryConstants, ProofInv, NEW r \in Request, Extend(r)
  PROVE  ProofInv'
<1> DEFINE sc == request[r].schema
<1>1. request[r].step = "extend" /\ Done(r) /\ UNCHANGED <<user, active, rows, defaults, nextId>>
  BY DEF Extend, At, registry
<1>2. request[r].kind = "use" /\ request[r].id \in Id /\ request[r] \in RequestRecord
  <2>1. request[r].kind = "use" /\ Resolved(request[r]) /\ request[r] \in RequestRecord
    BY <1>1, Facts DEF Sound, StepsOf, RequestRecord, Kind, Resolved
  <2>2. request[r].id \in 1 .. nextId - 1 /\ request[r].id \in 0 .. MaxId /\ MaxId \in Nat
    BY <2>1, Facts DEF Sound, RequestRecord, RegistryConstants
  <2> QED BY <2>1, <2>2 DEF Id
<1>3. \/ tables[sc] = "absent" /\ tables' = tables
      \/ tables[sc] \in {"base", "full"} /\ tables' = [tables EXCEPT ![sc] = "full"]
      \/ tables[sc] \in {"empty", "absent"} /\ tables' = tables
  BY DEF Extend, database
<1>4. public' \in {"empty", "base", "full"}
  BY DEF Extend, database, ProofInv, TypeOK
<1>5. cache' \in [Instance -> SUBSET Id]
  BY <1>2, Facts DEF Extend, RequestRecord
<1>6. Sound(Idle, user, rows, defaults, nextId)
  BY IdleRecord DEF Sound, StepsOf, Resolved
<1>7. tables[sc] \in {"base", "full"} => \E level \in Good : tables' = [tables EXCEPT ![sc] = level]
  BY <1>3 DEF Good
<1>8. tables[sc] \notin {"base", "full"} => tables' = tables /\ tables[sc] \in {"absent", "empty"}
  BY <1>3
<1> HIDE DEF sc
<1>9. IF (tables[sc] \in {"absent", "empty"} /\ request[r].step = "extend") \/ tables[sc] = "absent"
      THEN tables' = tables
      ELSE \E level \in Good : tables' = [tables EXCEPT ![sc] = level]
  BY <1>1, <1>7, <1>8
<1> QED BY <1>1, <1>4, <1>5, <1>6, <1>9, IdleRecord, TablesAdded DEF Done, sc

LEMMA CreateFailsKeeps ==
  ASSUME RegistryConstants, ProofInv, NEW r \in Request, CreateFails(r)
  PROVE  ProofInv'
<1>1. /\ request[r].kind = "create" /\ request[r].step \in {"build", "base"} /\ Goto(r, "undo")
      /\ UNCHANGED <<user, active, rows, defaults, nextId, tables, public, cache>>
  BY DEF CreateFails, registry, database
<1>2. "undo" \in Step /\ "undo" \in StepsOf("create") /\ Resolved(request[r])
  BY <1>1 DEF Step, StepsOf, Resolved
<1>3. PICK q \in RequestRecord :
        /\ request' = [request EXCEPT ![r] = q]
        /\ q.step = "undo" /\ q.kind = request[r].kind /\ q.id = request[r].id /\ q.schema = request[r].schema
  BY <1>1, <1>2, GotoRecord DEF ProofInv
<1>4. Sound(q, user, rows, defaults, nextId)
  BY <1>1, <1>2, <1>3, Facts DEF Sound
<1>5. \A s : Rebuilds(request[r], s, tables[s]) => Rebuilds(q, s, tables[s])
  BY <1>1, <1>3 DEF Rebuilds
<1> QED BY <1>1, <1>3, <1>4, <1>5, Facts, MovesOnly

(* A schema is dropped to be built again, or when no listed portfolio has it. *)
LEMMA DropSchemaKeeps ==
  ASSUME RegistryConstants, ProofInv, NEW r \in Request, DropSchema(r)
  PROVE  ProofInv'
<1> DEFINE sc == request[r].schema
           kind == request[r].kind
<1>1. /\ request[r].step = "drop" /\ kind # "deleteUser" /\ tables' = [tables EXCEPT ![sc] = "absent"]
      /\ UNCHANGED <<user, active, rows, defaults, nextId, public, cache>>
  BY DEF DropSchema, At, registry
<1>2. kind \in {"reset", "delete", "create"} /\ Sound(request[r], user, rows, defaults, nextId)
      /\ Resolved(request[r]) /\ sc \in Schema
  BY <1>1, Facts DEF Sound, StepsOf, RequestRecord, Kind, Resolved
<1>3. \/ kind = "reset" /\ Goto(r, "build")
      \/ kind = "delete" /\ Goto(r, "active")
      \/ kind = "create" /\ Done(r)
  BY <1>2 DEF DropSchema
<1>4. tables \in [Schema -> Tables] /\ public \in {"empty", "base", "full"}
  BY DEF ProofInv, TypeOK
<1>5. tables' \in [Schema -> Tables] /\ public' \in {"empty", "base", "full"}
  BY <1>1, <1>2, <1>4 DEF Tables
<1>6. \E q \in RequestRecord :
        /\ request' = [request EXCEPT ![r] = q]
        /\ Sound(q, user, rows, defaults, nextId)
        /\ kind = "reset" => q.kind = "reset" /\ q.step = "build" /\ q.schema = sc
  <2>1. CASE kind = "reset"
    <3>1. "build" \in Step /\ "build" \in StepsOf("reset")
      BY DEF Step, StepsOf
    <3>2. PICK q \in RequestRecord :
            /\ request' = [request EXCEPT ![r] = q]
            /\ q.step = "build" /\ q.kind = request[r].kind /\ q.id = request[r].id /\ q.schema = request[r].schema
      BY <1>3, <2>1, <3>1, GotoRecord DEF ProofInv
    <3>3. Sound(q, user, rows, defaults, nextId)
      BY <1>2, <2>1, <3>1, <3>2 DEF Sound
    <3> QED BY <2>1, <3>2, <3>3
  <2>2. CASE kind = "delete"
    <3>1. "active" \in Step /\ "active" \in StepsOf("delete")
      BY DEF Step, StepsOf
    <3>2. PICK q \in RequestRecord :
            /\ request' = [request EXCEPT ![r] = q]
            /\ q.step = "active" /\ q.kind = request[r].kind
      BY <1>3, <2>2, <3>1, GotoRecord DEF ProofInv
    <3>3. Sound(q, user, rows, defaults, nextId)
      BY <2>2, <3>1, <3>2 DEF Sound, Resolved
    <3> QED BY <2>2, <3>2, <3>3
  <2>3. CASE kind = "create"
    <3>1. Sound(Idle, user, rows, defaults, nextId)
      BY IdleRecord DEF Sound, StepsOf, Resolved
    <3> QED BY <1>3, <2>3, <3>1, IdleRecord DEF Done
  <2> QED BY <1>2, <2>1, <2>2, <2>3
<1>7. PICK q \in RequestRecord :
        /\ request' = [request EXCEPT ![r] = q]
        /\ Sound(q, user, rows, defaults, nextId)
        /\ kind = "reset" => q.kind = "reset" /\ q.step = "build" /\ q.schema = sc
  BY <1>6
<1>8. ASSUME NEW s \in Owned(user, rows, defaults) PROVE Covered(s)'
  <2>1. s \in Schema /\ Covered(s)
    BY OwnedSchemas DEF ProofInv
  <2>2. CASE s = sc
    <3>1. kind = "reset"
      <4>1. user /\ (s = 0 \/ s \in rows)
        BY DEF ProofInv, Owned
      <4>2. kind \in {"delete", "create"} => sc = request[r].id /\ request[r].id \in 1 .. nextId - 1 /\ request[r].id \notin rows
        BY <1>1, <1>2, <4>1 DEF Sound
      <4>3. kind \in {"delete", "create"} => sc # 0
        BY <4>2
      <4> QED BY <1>2, <2>2, <4>1, <4>2, <4>3
    <3>2. Rebuilds(q, s, tables'[s])
      BY <1>7, <2>2, <3>1 DEF Rebuilds
    <3>3. request'[r] = q
      BY <1>7, Moved
    <3> QED BY <3>2, <3>3 DEF Covered
  <2>3. CASE s # sc
    <3>1. tables'[s] = tables[s]
      BY <1>1, <1>4, <2>1, <2>3
    <3>2. ~Rebuilds(request[r], s, tables[s])
      BY <1>1 DEF Rebuilds
    <3> QED BY <1>7, <2>1, <3>1, <3>2, Moved, StaysCovered
  <2> QED BY <2>2, <2>3
<1> QED BY <1>1, <1>5, <1>7, <1>8, Facts, RowsStay

LEMMA DropUserSchemasKeeps ==
  ASSUME RegistryConstants, ProofInv, NEW r \in Request, DropUserSchemas(r)
  PROVE  ProofInv'
<1>1. /\ request[r].step = "drop" /\ request[r].kind = "deleteUser" /\ Goto(r, "remove")
      /\ tables' = [s \in Schema |-> "absent"]
      /\ UNCHANGED <<user, active, rows, defaults, nextId, public, cache>>
  BY DEF DropUserSchemas, At, registry
<1>2. "remove" \in Step /\ "remove" \in StepsOf("deleteUser")
  BY DEF Step, StepsOf
<1>3. PICK q \in RequestRecord :
        /\ request' = [request EXCEPT ![r] = q]
        /\ q.step = "remove" /\ q.kind = request[r].kind /\ q.id = request[r].id /\ q.schema = request[r].schema
  BY <1>1, <1>2, GotoRecord DEF ProofInv
<1>4. Sound(q, user, rows, defaults, nextId)
  BY <1>1, <1>2, <1>3 DEF Sound, Resolved
<1>5. request'[r] = q
  BY <1>3, Moved
<1>6. \A s : Covered(s)'
  BY <1>1, <1>3, <1>5 DEF Covered, Rebuilds
<1>7. tables' \in [Schema -> Tables] /\ public' \in {"empty", "base", "full"}
  BY <1>1 DEF Tables, ProofInv, TypeOK
<1> QED BY <1>1, <1>3, <1>4, <1>6, <1>7, Facts, RowsStay

-----------------------------------------------------------------------------
(* Rows                                                                      *)
LEMMA RemoveUserKeeps ==
  ASSUME RegistryConstants, ProofInv, NEW r \in Request, RemoveUser(r)
  PROVE  ProofInv'
<1>1. /\ user' = FALSE /\ active' = 0 /\ rows' = {} /\ defaults' = {} /\ Done(r)
      /\ UNCHANGED <<nextId, tables, public, cache>>
  BY DEF RemoveUser, database
<1>2. /\ MaxId \in Nat /\ nextId \in 1 .. MaxId + 1 /\ user \in BOOLEAN
      /\ tables \in [Schema -> Tables] /\ public \in {"empty", "base", "full"} /\ cache \in [Instance -> SUBSET Id]
  BY DEF ProofInv, TypeOK, RegistryConstants
<1>3. /\ nextId' = nextId /\ nextId \in Nat
      /\ tables' \in [Schema -> Tables] /\ public' \in {"empty", "base", "full"} /\ cache' \in [Instance -> SUBSET Id]
  BY <1>1, <1>2
<1>4. Sound(Idle, user', rows', defaults', nextId')
  BY IdleRecord DEF Sound, StepsOf, Resolved
<1>5. request' = [request EXCEPT ![r] = Idle] /\ Idle \in RequestRecord
  BY <1>1, IdleRecord DEF Done
<1>6. \A s \in Owned(user', rows', defaults') : Covered(s)'
  BY <1>1 DEF Owned
<1>7. user' \in BOOLEAN /\ ~user'
  BY <1>1
<1>8. active' \in 0 .. MaxId /\ nextId' \in 1 .. MaxId + 1 /\ nextId' \in Nat /\ nextId <= nextId'
  BY <1>1, <1>2, <1>3
<1>9. /\ rows' \subseteq 1 .. nextId' - 1 /\ defaults' \subseteq rows'
      /\ (\A a, b \in defaults' : a = b) /\ active' = 0 /\ rows' = {}
  BY <1>1
<1>10. \A i \in 1 .. nextId - 1 : (i \in defaults' => i \in defaults) /\ (i \in rows' => i \in rows)
  BY <1>1
<1> QED BY <1>3, <1>4, <1>5, <1>6, <1>7, <1>8, <1>9, <1>10, StepSound

(* The request removes the row of its portfolio, which is not the default    *)
(* and which it does not build.                                              *)
LEMMA RowGone ==
  ASSUME RegistryConstants, ProofInv, NEW r \in Request, NEW q \in RequestRecord,
         request' = [request EXCEPT ![r] = q],
         rows' = rows \ {request[r].id}, request[r].id \notin defaults,
         UNCHANGED <<user, defaults, nextId, tables, public, cache>>,
         active' \in 0 .. MaxId, ~user => active' = 0,
         Sound(q, user, rows \ {request[r].id}, defaults, nextId),
         \A s \in Owned(user, rows \ {request[r].id}, defaults) : ~Rebuilds(request[r], s, tables[s])
  PROVE  ProofInv'
<1> DEFINE rs == rows \ {request[r].id}
<1>1. /\ user \in BOOLEAN /\ nextId \in 1 .. MaxId + 1 /\ nextId \in Nat /\ rows \subseteq 1 .. nextId - 1
      /\ defaults \subseteq rows /\ (\A a, b \in defaults : a = b) /\ (~user => rows = {})
      /\ tables \in [Schema -> Tables] /\ public \in {"empty", "base", "full"} /\ cache \in [Instance -> SUBSET Id]
  BY DEF ProofInv, TypeOK, RegistryConstants
<1>2. /\ user' = user /\ rows' = rs /\ defaults' = defaults /\ nextId' = nextId /\ tables' = tables
      /\ public' = public /\ cache' = cache
  OBVIOUS
<1>3. rs \subseteq rows /\ defaults \subseteq rs
  BY <1>1
<1>4. ASSUME NEW s \in Owned(user, rs, defaults) PROVE Covered(s)'
  <2>1. s \in Owned(user, rows, defaults)
    BY <1>3 DEF Owned
  <2>2. Covered(s) /\ ~Rebuilds(request[r], s, tables[s])
    BY <2>1 DEF ProofInv
  <2> QED BY <1>2, <2>2, Moved, StaysCovered
<1>5. Sound(q, user, rs, defaults, nextId)
  OBVIOUS
<1> HIDE DEF rs
<1>6. Sound(q, user', rows', defaults', nextId') /\ \A s \in Owned(user', rows', defaults') : Covered(s)'
  BY <1>2, <1>4, <1>5
<1>7. user' \in BOOLEAN /\ (~user' => active' = 0 /\ rows' = {})
  <2>1. user' = user
    OBVIOUS
  <2>2. user' \in BOOLEAN
    BY <1>1, <2>1
  <2>3. ~user => rows' = {}
    BY <1>1, <1>2, <1>3
  <2>4. ASSUME ~user' PROVE active' = 0 /\ rows' = {}
    <3>1. ~user
      BY <2>1, <2>4
    <3>2. rows' = {}
      BY <2>3, <3>1
    <3>3. active' = 0
      BY <3>1
    <3> QED BY <3>2, <3>3
  <2> QED BY <2>2, <2>4
<1>8. /\ nextId' \in 1 .. MaxId + 1 /\ nextId' \in Nat /\ rows' \subseteq 1 .. nextId' - 1
      /\ defaults' \subseteq rows' /\ (\A a, b \in defaults' : a = b)
  <2>1. rs \subseteq 1 .. nextId - 1
    BY <1>1, <1>3
  <2> QED BY <1>1, <1>2, <1>3, <2>1
<1>9. tables' \in [Schema -> Tables] /\ public' \in {"empty", "base", "full"} /\ cache' \in [Instance -> SUBSET Id]
  BY <1>1, <1>2
<1>10. /\ nextId <= nextId' /\ (user' => user) /\ (user' => (defaults # {} => defaults' # {}))
       /\ user' => \A i \in 1 .. nextId - 1 : i \in defaults <=> i \in defaults'
       /\ \A i \in 1 .. nextId - 1 : (i \in defaults' => i \in defaults) /\ (i \in rows' => i \in rows)
  BY <1>1, <1>2, <1>3
<1> QED BY <1>1, <1>6, <1>7, <1>8, <1>9, <1>10, StepSound

LEMMA RemoveRowKeeps ==
  ASSUME RegistryConstants, ProofInv, NEW r \in Request, RemoveRow(r)
  PROVE  ProofInv'
<1> DEFINE id == request[r].id
<1>1. /\ request[r].step = "remove" /\ request[r].kind = "delete" /\ Goto(r, "drop")
      /\ active' = IF active = id THEN Default ELSE active
      /\ rows' = rows \ {id} /\ UNCHANGED <<user, defaults, nextId, tables, public, cache>>
  BY DEF RemoveRow, At, database
<1>2. "drop" \in Step /\ "drop" \in StepsOf("delete") /\ Resolved(request[r])
  BY <1>1 DEF Step, StepsOf, Resolved
<1>3. PICK q \in RequestRecord :
        /\ request' = [request EXCEPT ![r] = q]
        /\ q.step = "drop" /\ q.kind = request[r].kind /\ q.id = request[r].id /\ q.schema = request[r].schema
  BY <1>1, <1>2, GotoRecord DEF ProofInv
<1>4. /\ id \notin defaults /\ (user => defaults # {}) /\ id \in 1 .. nextId - 1
      /\ (user => request[r].schema = IF id \in defaults THEN 0 ELSE id)
  BY <1>1, <1>2, Facts DEF Sound
<1>5. Sound(q, user, rows \ {id}, defaults, nextId)
  BY <1>1, <1>2, <1>3, <1>4 DEF Sound
<1>6. \A s : ~Rebuilds(request[r], s, tables[s])
  BY <1>1 DEF Rebuilds
<1>7. active' \in 0 .. MaxId /\ (~user => active' = 0)
  <2>1. defaults \subseteq rows
    BY DEF ProofInv, TypeOK
  <2>2. CASE user
    <3>1. Default \in 0 .. MaxId
      BY <1>4, <2>1, <2>2, Facts
    <3> QED BY <1>1, <2>2, <3>1, Facts
  <2>3. CASE ~user
    <3>1. active = 0 /\ id # 0
      BY <1>4, <2>3, Facts
    <3> QED BY <1>1, <3>1, Facts
  <2> QED BY <2>2, <2>3
<1> QED BY <1>1, <1>3, <1>4, <1>5, <1>6, <1>7, RowGone

LEMMA UndoRowKeeps ==
  ASSUME RegistryConstants, ProofInv, NEW r \in Request, UndoRow(r)
  PROVE  ProofInv'
<1> DEFINE id == request[r].id
<1>1. /\ request[r].step = "undo" /\ Goto(r, "drop") /\ rows' = rows \ {id}
      /\ UNCHANGED <<user, active, defaults, nextId, tables, public, cache>>
  BY DEF UndoRow, At, database
<1>2. request[r].kind = "create" /\ Resolved(request[r])
  BY <1>1, Facts DEF Sound, StepsOf, RequestRecord, Kind, Resolved
<1>3. "drop" \in Step /\ "drop" \in StepsOf("create")
  BY DEF Step, StepsOf
<1>4. PICK q \in RequestRecord :
        /\ request' = [request EXCEPT ![r] = q]
        /\ q.step = "drop" /\ q.kind = request[r].kind /\ q.id = request[r].id /\ q.schema = request[r].schema
  BY <1>1, <1>3, GotoRecord DEF ProofInv
<1>5. /\ id \notin defaults /\ id \in 1 .. nextId - 1
      /\ (user => request[r].schema = IF id \in defaults THEN 0 ELSE id)
  BY <1>1, <1>2, Facts DEF Sound
<1>6. Sound(q, user, rows \ {id}, defaults, nextId)
  BY <1>2, <1>3, <1>4, <1>5 DEF Sound
<1>7. ASSUME NEW s \in Owned(user, rows \ {id}, defaults) PROVE ~Rebuilds(request[r], s, tables[s])
  <2>1. user /\ s # id
    <3>1. ~user => rows = {}
      BY DEF ProofInv
    <3> QED BY <1>5, <3>1 DEF Owned
  <2>2. request[r].schema = id
    BY <1>5, <2>1
  <2> QED BY <1>1, <1>2, <2>1, <2>2 DEF Rebuilds
<1>8. active' \in 0 .. MaxId /\ (~user => active' = 0)
  BY <1>1, Facts
<1> QED BY <1>1, <1>4, <1>5, <1>6, <1>7, <1>8, RowGone

(* The new portfolio is not a default, and the request that inserts it goes  *)
(* on to build its schema.                                                   *)
LEMMA InsertRowKeeps ==
  ASSUME RegistryConstants, ProofInv, NEW r \in Request, InsertRow(r)
  PROVE  ProofInv'
<1>1. request[r].step = "insert" /\ UNCHANGED <<user, active, defaults, tables, public, cache>>
  BY DEF InsertRow, At, database
<1>2. CASE Done(r) /\ UNCHANGED <<rows, nextId>>
  BY <1>1, <1>2, Facts, Rests
<1>3. CASE /\ user /\ nextId <= MaxId /\ rows' = rows \union {nextId} /\ nextId' = nextId + 1
           /\ WorkOn(r, nextId, nextId, "build")
  <2>1. request[r].kind = "create"
    BY <1>1, Facts DEF Sound, StepsOf, RequestRecord, Kind
  <2>2. /\ MaxId \in Nat /\ nextId \in 1 .. MaxId + 1 /\ nextId \in Nat /\ rows \subseteq 1 .. nextId - 1
        /\ defaults \subseteq rows /\ (\A a, b \in defaults : a = b) /\ user \in BOOLEAN
        /\ tables \in [Schema -> Tables] /\ public \in {"empty", "base", "full"} /\ cache \in [Instance -> SUBSET Id]
    BY DEF ProofInv, TypeOK, RegistryConstants
  <2>3. nextId \in 0 .. MaxId /\ nextId \in Schema /\ "build" \in Step /\ "build" \in StepsOf("create")
    BY <1>3, <2>2 DEF Schema, Step, StepsOf
  <2>4. PICK q \in RequestRecord :
          /\ request' = [request EXCEPT ![r] = q]
          /\ q.step = "build" /\ q.kind = request[r].kind /\ q.id = nextId /\ q.schema = nextId
    BY <1>3, <2>3, WorkOnRecord DEF ProofInv
  <2>5. nextId \notin 1 .. nextId - 1 /\ nextId \in 1 .. nextId' - 1 /\ nextId \notin defaults
    BY <1>3, <2>2
  <2>6. /\ user' = user /\ active' = active /\ defaults' = defaults /\ tables' = tables /\ public' = public
        /\ cache' = cache
    BY <1>1
  <2>7. Sound(q, user', rows', defaults', nextId')
    BY <2>1, <2>3, <2>4, <2>5, <2>6 DEF Sound
  <2>8. Rebuilds(request'[r], nextId, tables'[nextId])
    BY <2>1, <2>4, Moved DEF Rebuilds
  <2>9. \A s : ~Rebuilds(request[r], s, tables[s])
    BY <1>1, <2>1 DEF Rebuilds
  <2>10. ASSUME NEW s \in Owned(user', rows', defaults') PROVE Covered(s)'
    <3>1. CASE s = nextId
      BY <2>8, <3>1 DEF Covered
    <3>2. CASE s # nextId
      <4>1. s \in Owned(user, rows, defaults)
        BY <1>3, <2>6, <3>2 DEF Owned
      <4>2. Covered(s) /\ tables'[s] = tables[s]
        BY <2>6, <4>1 DEF ProofInv
      <4> QED BY <2>4, <2>9, <4>2, Moved, StaysCovered
    <3> QED BY <3>1, <3>2
  <2>11. /\ tables' \in [Schema -> Tables] /\ public' \in {"empty", "base", "full"}
         /\ cache' \in [Instance -> SUBSET Id] /\ active' \in 0 .. MaxId
    BY <2>2, <2>6, Facts
  <2>12. user' \in BOOLEAN /\ user' /\ user
    BY <1>3, <2>2, <2>6
  <2>13. /\ nextId' \in 1 .. MaxId + 1 /\ nextId' \in Nat /\ nextId <= nextId' /\ rows' \subseteq 1 .. nextId' - 1
         /\ defaults' \subseteq rows'
    BY <1>3, <2>2, <2>6
  <2>14. /\ \A a, b \in defaults' : a = b
         /\ \A i \in 1 .. nextId - 1 : i \in defaults <=> i \in defaults'
         /\ \A i \in 1 .. nextId - 1 : i \in rows' => i \in rows
         /\ defaults # {} => defaults' # {}
    BY <1>3, <2>2, <2>5, <2>6
  <2> QED BY <2>2, <2>4, <2>7, <2>10, <2>11, <2>12, <2>13, <2>14, StepSound
<1> QED BY <1>2, <1>3 DEF InsertRow

-----------------------------------------------------------------------------
LEMMA InitHolds == ASSUME RegistryConstants, Init PROVE ProofInv
<1>1. Idle \in RequestRecord /\ Idle.step = "idle" /\ Idle.kind = "use"
  BY IdleRecord
<1>2. TypeOK
  <2>1. request \in [Request -> RequestRecord]
    BY <1>1 DEF Init
  <2>2. tables \in [Schema -> Tables] /\ public \in {"empty", "base", "full"} /\ cache \in [Instance -> SUBSET Id]
    BY DEF Init, Tables
  <2>3. 0 \in 0 .. MaxId /\ 1 \in 1 .. MaxId + 1
    BY DEF RegistryConstants
  <2> QED BY <2>1, <2>2, <2>3 DEF Init, TypeOK, RequestRecord
<1>3. \A r \in Request : Sound(request[r], user, rows, defaults, nextId)
  <2>1. Sound(Idle, user, rows, defaults, nextId)
    BY <1>1 DEF Sound, StepsOf, Resolved
  <2> QED BY <2>1 DEF Init
<1>4. \A s \in Owned(user, rows, defaults) : Covered(s)
  <2>1. tables[0] = "base"
    BY DEF Init, Schema, RegistryConstants
  <2> QED BY <2>1 DEF Init, Owned, Covered, Good
<1> QED BY <1>2, <1>3, <1>4 DEF Init, ProofInv

LEMMA StepKeeps == ASSUME RegistryConstants, ProofInv, [Next]_vars PROVE ProofInv'
<1>1. ASSUME NEW r \in Request, NEW kind \in Kind, NEW id \in 0 .. MaxId, NEW i \in Instance, Begin(r, kind, id, i)
      PROVE  ProofInv'
  BY <1>1, BeginKeeps
<1>2. ASSUME NEW r \in Request, Advance(r) PROVE ProofInv'
  <2>1. CASE ReadDefault(r) \/ HaveDefault(r) \/ InsertDefault(r) \/ ResolveActive(r) \/ ResolveHeader(r)
    BY <2>1, ReadDefaultKeeps, HaveDefaultKeeps, InsertDefaultKeeps, ResolveActiveKeeps, ResolveHeaderKeeps
  <2>2. CASE LookUp(r) \/ CreateSchema(r) \/ CreateBase(r) \/ Extend(r) \/ Clear(r) \/ Recheck(r)
    BY <2>2, LookUpKeeps, CreateSchemaKeeps, CreateBaseKeeps, ExtendKeeps, ClearKeeps, RecheckKeeps
  <2>3. CASE RemoveRow(r) \/ DropSchema(r) \/ DropUserSchemas(r) \/ RemoveUser(r)
    BY <2>3, RemoveRowKeeps, DropSchemaKeeps, DropUserSchemasKeeps, RemoveUserKeeps
  <2>4. CASE Count(r) \/ InsertRow(r) \/ CreateFails(r) \/ UndoRow(r) \/ Select(r)
    BY <2>4, CountKeeps, InsertRowKeeps, CreateFailsKeeps, UndoRowKeeps, SelectKeeps
  <2> QED BY <1>2, <2>1, <2>2, <2>3, <2>4 DEF Advance
<1>3. CASE UNCHANGED vars
  <2>1. /\ user' = user /\ active' = active /\ rows' = rows /\ defaults' = defaults /\ nextId' = nextId
        /\ tables' = tables /\ public' = public /\ cache' = cache /\ request' = request
    BY <1>3 DEF vars
  <2>2. TypeOK'
    BY <2>1 DEF ProofInv, TypeOK
  <2>3. \A s : Covered(s) => Covered(s)'
    BY <2>1 DEF Covered
  <2> QED BY <2>1, <2>2, <2>3 DEF ProofInv
<1> QED BY <1>1, <1>2, <1>3 DEF Next

(* What the invariant says of the tables of a listed portfolio: whoever      *)
(* covers its schema is building it, as the property excuses.                *)
LEMMA InvImplies == ASSUME RegistryConstants, ProofInv PROVE RegistryInv
<1>1. TypeOK
  BY DEF ProofInv
<1>2. OneDefault
  <2>1. CASE defaults = {}
    <3>1. Cardinality(defaults) = 0
      BY <2>1, FS_EmptySet
    <3> QED BY <3>1 DEF OneDefault
  <2>2. CASE defaults # {}
    <3>1. PICK d \in defaults : TRUE
      BY <2>2
    <3>2. defaults = {d}
      BY <3>1 DEF ProofInv
    <3>3. Cardinality({d}) = 1
      BY FS_Singleton
    <3> QED BY <3>2, <3>3 DEF OneDefault
  <2> QED BY <2>1, <2>2
<1>3. ASSUME NEW id \in rows, ~Building(id) PROVE tables[SchemaOf(id)] \in {"base", "full"}
  <2>1. user /\ id \in 1 .. nextId - 1
    BY <1>1 DEF ProofInv, TypeOK
  <2>2. SchemaOf(id) \in Owned(user, rows, defaults)
    BY <2>1 DEF SchemaOf, Owned
  <2>3. ASSUME NEW r \in Request, Rebuilds(request[r], SchemaOf(id), tables[SchemaOf(id)]) PROVE FALSE
    <3>1. CASE request[r].kind = "deleteUser" /\ request[r].step = "remove"
      BY <1>3, <3>1 DEF Building, At
    <3>2. CASE /\ request[r].kind \in {"reset", "create"} /\ request[r].schema = SchemaOf(id)
               /\ request[r].step \in {"build", "base", "undo"}
               /\ request[r].step = "undo" => request[r].kind = "create"
      <4>1. Resolved(request[r]) /\ Sound(request[r], user, rows, defaults, nextId)
        BY <3>2 DEF Resolved, ProofInv
      <4>2. /\ request[r].id \in 1 .. nextId - 1
            /\ SchemaOf(id) = IF request[r].id \in defaults THEN 0 ELSE request[r].id
        BY <2>1, <3>2, <4>1 DEF Sound
      <4>3. \A a, b \in defaults : a = b
        BY DEF ProofInv
      <4>4. request[r].id = id
        BY <2>1, <4>2, <4>3 DEF SchemaOf
      <4> QED BY <1>3, <3>2, <4>4 DEF Building
    <3> QED BY <2>3, <3>1, <3>2 DEF Rebuilds
  <2> QED BY <2>2, <2>3 DEF ProofInv, Covered, Good
<1> QED BY <1>1, <1>2, <1>3 DEF RegistryInv, RowsHaveTables

(* However many requests overlap, in however many instances: two first       *)
(* requests never leave two default portfolios (ensure_default_portfolio     *)
(* inserts ON CONFLICT DO NOTHING), and a portfolio that is listed has its   *)
(* tables unless some request is building, clearing or undoing it, or        *)
(* deleting its user.                                                        *)
THEOREM RegistrySafe == RegistryConstants => (Spec => []RegistryInv)
<1> SUFFICES ASSUME RegistryConstants PROVE Spec => []RegistryInv
  OBVIOUS
<1>1. Init => ProofInv
  BY InitHolds
<1>2. ProofInv /\ [Next]_vars => ProofInv'
  BY StepKeeps
<1>3. ProofInv => RegistryInv
  BY InvImplies
<1> QED BY <1>1, <1>2, <1>3, PTL DEF Spec

-----------------------------------------------------------------------------
(* One request at a time: every request but those of client c is idle.       *)

(* The request q works on a portfolio that is listed.                        *)
Placed(q) ==
  \/ q.step \in {"service", "build", "base", "extend", "undo", "recheck"}
  \/ q.kind \in {"reset", "delete"} /\ q.step = "clear"
  \/ q.kind = "reset" /\ q.step = "drop"
  \/ q.kind = "delete" /\ q.step \in {"default", "insertDefault", "remove"}

(* The request q has taken the row away and is about to drop the schema.     *)
Dropping(q) == q.kind \in {"create", "delete"} /\ q.step = "drop"

(* What a request that is alone relies on.                                   *)
ClientSound(q, u, a, rs, ds, ts) ==
  /\ q.step # "idle" => u
  /\ Placed(q) => q.schema = 0 \/ q.schema \in rs \ ds
  /\ q.step = "base" => ts[q.schema] # "absent"
  /\ q.kind = "create" /\ q.step \in {"build", "base", "undo"} => a # q.id /\ q.id \in rs
  /\ q.kind = "select" /\ q.step = "update" => q.id \in rs
  /\ q.kind = "create" /\ q.step \in {"count", "insert"} => ds # {}
  /\ q.step = "insert" => Cardinality(rs) < MaxPortfolios
  /\ q.kind = "deleteUser" /\ q.step = "remove" => \A s \in Schema : ts[s] = "absent"

(* No schema without a portfolio, unless the request q is about to drop it.  *)
Tidy(q, u, rs, ds, ts) ==
  \A s \in Schema : ts[s] # "absent" =>
    \/ s = 0 /\ u
    \/ s \in rs \ ds
    \/ Dropping(q) /\ s = q.schema

(* The rows agree with each other, and stay within the limit.                *)
Agreed(a, rs, ds) ==
  /\ ds = {} => rs = {}
  /\ a # 0 => a \in rs
  /\ Cardinality(rs) <= MaxPortfolios

ClientInv(c) ==
  /\ \A r \in Request \ {c} : At(r, "idle")
  /\ public = "empty"
  /\ Agreed(active, rows, defaults)
  /\ ClientSound(request[c], user, active, rows, defaults, tables)
  /\ Tidy(request[c], user, rows, defaults, tables)

LEMMA ClientMoves ==
  ASSUME ProofInv, NEW c \in Request, ClientInv(c), NEW q, request' = [request EXCEPT ![c] = q],
         public' = "empty", Agreed(active', rows', defaults'),
         ClientSound(q, user', active', rows', defaults', tables'), Tidy(q, user', rows', defaults', tables')
  PROVE  ClientInv(c)'
<1>1. request'[c] = q /\ \A r \in Request \ {c} : request'[r] = request[r]
  BY Moved
<1> QED BY <1>1 DEF ClientInv, At

(* A step that leaves the rows and the tables alone.                         *)
LEMMA ClientGoes ==
  ASSUME ProofInv, NEW c \in Request, ClientInv(c), NEW q, request' = [request EXCEPT ![c] = q],
         UNCHANGED <<user, rows, defaults, tables, public>>, active' # 0 => active' \in rows,
         ClientSound(q, user, active', rows, defaults, tables), ~Dropping(request[c])
  PROVE  ClientInv(c)'
<1>1. Agreed(active', rows', defaults') /\ public' = "empty"
  BY DEF ClientInv, Agreed
<1>2. Tidy(q, user', rows', defaults', tables')
  BY DEF ClientInv, Tidy
<1> QED BY <1>1, <1>2, ClientMoves

(* A request that is over relies on nothing.                                 *)
LEMMA IdleSound ==
  ASSUME RegistryConstants, NEW u, NEW a, NEW rs, NEW ds, NEW ts
  PROVE  ClientSound(Idle, u, a, rs, ds, ts) /\ ~Dropping(Idle)
BY IdleRecord DEF ClientSound, Placed, Dropping

(* Which requests take which steps.                                          *)
LEMMA KindAt ==
  ASSUME RegistryConstants, ProofInv, NEW r \in Request
  PROVE  LET q == request[r]
         IN  /\ q \in RequestRecord /\ q.kind \in Kind
             /\ q.step \in {"default", "insertDefault"} => q.kind \in {"use", "reset", "create", "delete"}
             /\ q.step = "active" => q.kind \in {"use", "reset", "delete"}
             /\ q.step = "header" => q.kind \in {"use", "reset", "delete", "select"}
             /\ q.step \in {"service", "extend"} => q.kind = "use"
             /\ q.step \in {"build", "base"} => q.kind \in {"use", "reset", "create"}
             /\ q.step = "clear" => q.kind \in {"reset", "delete", "deleteUser"}
             /\ q.step = "recheck" => q.kind = "delete"
             /\ q.step = "remove" => q.kind \in {"delete", "deleteUser"}
             /\ q.step = "drop" => q.kind \in {"reset", "create", "delete", "deleteUser"}
             /\ q.step \in {"count", "insert", "undo"} => q.kind = "create"
             /\ q.step = "update" => q.kind = "select"
<1> DEFINE q == request[r]
<1>1. q \in RequestRecord /\ q.kind \in Kind /\ q.step \in StepsOf(q.kind)
  BY Facts DEF Sound, RequestRecord
<1> HIDE DEF q
<1>2. /\ q.step \in {"default", "insertDefault"} => q.kind \in {"use", "reset", "create", "delete"}
      /\ q.step = "active" => q.kind \in {"use", "reset", "delete"}
      /\ q.step = "header" => q.kind \in {"use", "reset", "delete", "select"}
      /\ q.step \in {"service", "extend"} => q.kind = "use"
      /\ q.step \in {"build", "base"} => q.kind \in {"use", "reset", "create"}
      /\ q.step = "clear" => q.kind \in {"reset", "delete", "deleteUser"}
      /\ q.step = "recheck" => q.kind = "delete"
      /\ q.step = "remove" => q.kind \in {"delete", "deleteUser"}
      /\ q.step = "drop" => q.kind \in {"reset", "create", "delete", "deleteUser"}
      /\ q.step \in {"count", "insert", "undo"} => q.kind = "create"
      /\ q.step = "update" => q.kind = "select"
  BY <1>1 DEF StepsOf, Kind
<1> QED BY <1>1, <1>2 DEF q

(* The rows are finitely many.                                               *)
LEMMA RowsFinite ==
  ASSUME RegistryConstants, ProofInv
  PROVE  IsFiniteSet(rows) /\ Cardinality(rows) \in Nat /\ MaxPortfolios \in Nat \ {0}
<1>1. nextId - 1 \in Int /\ rows \in SUBSET (1 .. nextId - 1) /\ MaxPortfolios \in Nat \ {0}
  BY DEF ProofInv, TypeOK, RegistryConstants
<1>2. IsFiniteSet(1 .. nextId - 1)
  BY <1>1, FS_Interval
<1>3. IsFiniteSet(rows)
  BY <1>1, <1>2, FS_Subset
<1> QED BY <1>1, <1>3, FS_CardinalityType

LEMMA ClientRests ==
  ASSUME RegistryConstants, ProofInv, NEW c \in Request, ClientInv(c), Done(c),
         UNCHANGED <<user, rows, defaults, tables, public>>, active' # 0 => active' \in rows,
         ~Dropping(request[c])
  PROVE  ClientInv(c)'
<1>1. request' = [request EXCEPT ![c] = Idle]
  BY DEF Done
<1> QED BY <1>1, IdleSound, ClientGoes

-----------------------------------------------------------------------------
LEMMA ClientBegins ==
  ASSUME RegistryConstants, ProofInv, NEW c \in Request, ClientInv(c), NEW kind \in Kind, NEW id \in 0 .. MaxId,
         NEW i \in Instance, Begin(c, kind, id, i)
  PROVE  ClientInv(c)'
<1> DEFINE step == CASE kind \in {"use", "reset"} -> IF id = 0 THEN "default" ELSE "header"
                     [] kind = "create"           -> "default"
                     [] kind \in {"delete", "select"} -> "header"
                     [] kind = "deleteUser"       -> "clear"
           q == [kind |-> kind, id |-> id, schema |-> 0, instance |-> i, step |-> step]
<1>1. /\ request' = [request EXCEPT ![c] = q] /\ user /\ request[c].step = "idle"
      /\ UNCHANGED <<user, active, rows, defaults, tables, public>>
  BY DEF Begin, At, registry, database
<1>2. /\ step \in {"default", "header", "clear"} /\ (step = "clear" => kind = "deleteUser")
      /\ (kind = "delete" => step = "header")
  BY DEF Kind
<1> HIDE DEF step
<1>3. q.kind = kind /\ q.step = step
  OBVIOUS
<1> HIDE DEF q
<1>4. ClientSound(q, user, active', rows, defaults, tables)
  BY <1>1, <1>2, <1>3 DEF ClientSound, Placed
<1>5. ~Dropping(request[c]) /\ (active' # 0 => active' \in rows)
  BY <1>1 DEF Dropping, ClientInv, Agreed
<1> QED BY <1>1, <1>4, <1>5, ClientGoes

LEMMA ClientReadsDefault ==
  ASSUME RegistryConstants, ProofInv, NEW c \in Request, ClientInv(c), ReadDefault(c)
  PROVE  ClientInv(c)'
<1>1. /\ request[c].step = "default" /\ Goto(c, "insertDefault") /\ "insertDefault" \in Step
      /\ UNCHANGED <<user, active, rows, defaults, tables, public>>
  BY DEF ReadDefault, At, registry, database, Step
<1>2. PICK q \in RequestRecord :
        /\ request' = [request EXCEPT ![c] = q]
        /\ q.step = "insertDefault" /\ q.kind = request[c].kind /\ q.id = request[c].id /\ q.schema = request[c].schema
  BY <1>1, GotoRecord DEF ProofInv
<1>3. ClientSound(q, user, active', rows, defaults, tables)
  BY <1>1, <1>2 DEF ClientInv, ClientSound, Placed
<1>4. ~Dropping(request[c]) /\ (active' # 0 => active' \in rows)
  BY <1>1 DEF Dropping, ClientInv, Agreed
<1> QED BY <1>1, <1>2, <1>3, <1>4, ClientGoes

(* What follows the default portfolio: a selection, the count, the deletion. *)
LEMMA AfterDefaultStep ==
  ASSUME RegistryConstants, ProofInv, NEW r \in Request, request[r].step \in {"default", "insertDefault"}
  PROVE  LET step == AfterDefault(request[r].kind)
         IN  /\ step \in {"active", "count", "remove"} /\ step \in Step
             /\ step = "remove" => request[r].kind = "delete"
             /\ step = "count" => request[r].kind = "create"
<1>1. request[r].kind \in {"use", "reset", "create", "delete"}
  BY KindAt
<1> QED BY <1>1 DEF AfterDefault, Step

LEMMA ClientTakesDefault ==
  ASSUME RegistryConstants, ProofInv, NEW c \in Request, ClientInv(c),
         request[c].step \in {"default", "insertDefault"},
         defaults # {}, active' = IF active = 0 THEN Default ELSE active,
         Goto(c, AfterDefault(request[c].kind)), UNCHANGED <<user, rows, defaults, nextId, tables, public, cache>>
  PROVE  ClientInv(c)'
<1> DEFINE step == AfterDefault(request[c].kind)
<1>1. /\ step \in {"active", "count", "remove"} /\ step \in Step
      /\ step = "remove" => request[c].kind = "delete"
      /\ step = "count" => request[c].kind = "create"
  BY AfterDefaultStep
<1>2. Goto(c, step)
  OBVIOUS
<1> HIDE DEF step
<1>3. PICK q \in RequestRecord :
        /\ request' = [request EXCEPT ![c] = q]
        /\ q.step = step /\ q.kind = request[c].kind /\ q.id = request[c].id /\ q.schema = request[c].schema
  BY <1>1, <1>2, GotoRecord DEF ProofInv
<1>4. ClientSound(q, user, active', rows, defaults, tables)
  BY <1>1, <1>3 DEF ClientInv, ClientSound, Placed
<1>5. Default \in defaults /\ defaults \subseteq rows
  BY Facts DEF ProofInv, TypeOK
<1>6. active' # 0 => active' \in rows
  BY <1>5 DEF ClientInv, Agreed
<1>7. ~Dropping(request[c])
  BY DEF Dropping
<1> QED BY <1>3, <1>4, <1>6, <1>7, ClientGoes

(* The first portfolio: there was none before.                               *)
LEMMA ClientInsertsDefault ==
  ASSUME RegistryConstants, ProofInv, NEW c \in Request, ClientInv(c), InsertDefault(c)
  PROVE  ClientInv(c)'
<1>1. request[c].step = "insertDefault" /\ UNCHANGED <<user, tables, public, cache>> /\ user
  BY DEF InsertDefault, At, database, ClientInv, ClientSound
<1>2. CASE defaults # {} /\ (active' = IF active = 0 THEN Default ELSE active)
           /\ Goto(c, AfterDefault(request[c].kind)) /\ UNCHANGED <<rows, defaults, nextId>>
  BY <1>1, <1>2, ClientTakesDefault
<1>3. CASE /\ defaults = {} /\ rows' = rows \union {nextId} /\ defaults' = defaults \union {nextId}
           /\ active' = IF active = 0 THEN nextId ELSE active
           /\ Goto(c, AfterDefault(request[c].kind))
  <2> DEFINE step == AfterDefault(request[c].kind)
  <2>1. /\ step \in {"active", "count", "remove"} /\ step \in Step
        /\ step = "remove" => request[c].kind = "delete"
        /\ step = "count" => request[c].kind = "create"
    BY <1>1, AfterDefaultStep
  <2>2. Goto(c, step)
    BY <1>3
  <2> HIDE DEF step
  <2>3. PICK q \in RequestRecord :
          /\ request' = [request EXCEPT ![c] = q]
          /\ q.step = step /\ q.kind = request[c].kind /\ q.id = request[c].id /\ q.schema = request[c].schema
    BY <2>1, <2>2, GotoRecord DEF ProofInv
  <2>4. rows = {} /\ rows' = {nextId} /\ defaults' = {nextId}
    BY <1>3 DEF ClientInv, Agreed
  <2>5. Cardinality({nextId}) = 1 /\ 1 <= MaxPortfolios
    BY FS_Singleton, RowsFinite
  <2>6. Agreed(active', rows', defaults')
    <3>1. active' = nextId
      BY <1>3, <2>4 DEF ClientInv, Agreed
    <3> QED BY <2>4, <2>5, <3>1 DEF Agreed
  <2>7. ClientSound(q, user', active', rows', defaults', tables')
    <3>1. Placed(q) => Placed(request[c])
      BY <1>1, <2>1, <2>3 DEF Placed
    <3>2. Placed(q) => q.schema = 0
      BY <2>3, <2>4, <3>1 DEF ClientInv, ClientSound
    <3> QED BY <1>1, <2>1, <2>3, <2>4, <3>2 DEF ClientSound
  <2>8. Tidy(q, user', rows', defaults', tables')
    <3>1. ~Dropping(request[c])
      BY <1>1 DEF Dropping
    <3> QED BY <1>1, <2>4, <3>1 DEF ClientInv, Tidy
  <2>9. public' = "empty"
    BY <1>1 DEF ClientInv
  <2> QED BY <2>3, <2>6, <2>7, <2>8, <2>9, ClientMoves
<1> QED BY <1>1, <1>2, <1>3 DEF InsertDefault

LEMMA ClientResolved ==
  ASSUME RegistryConstants, ProofInv, NEW c \in Request, ClientInv(c), NEW id \in rows,
         NEW step \in {"service", "clear", "update"}, WorkOn(c, id, SchemaOf(id), step),
         request[c].step \in {"active", "header"},
         UNCHANGED <<user, rows, defaults, tables, public>>, active' # 0 => active' \in rows
  PROVE  ClientInv(c)'
<1>1. id \in 0 .. MaxId /\ SchemaOf(id) \in Schema /\ step \in Step
  BY Facts DEF Step
<1>2. PICK q \in RequestRecord :
        /\ request' = [request EXCEPT ![c] = q]
        /\ q.step = step /\ q.kind = request[c].kind /\ q.id = id /\ q.schema = SchemaOf(id)
  BY <1>1, WorkOnRecord DEF ProofInv
<1>3. user
  BY DEF ClientInv, ClientSound
<1>4. ClientSound(q, user, active', rows, defaults, tables)
  BY <1>2, <1>3 DEF ClientSound, SchemaOf
<1>5. ~Dropping(request[c])
  BY DEF Dropping
<1> QED BY <1>2, <1>4, <1>5, ClientGoes

LEMMA ClientResolvesActive ==
  ASSUME RegistryConstants, ProofInv, NEW c \in Request, ClientInv(c), ResolveActive(c)
  PROVE  ClientInv(c)'
<1> DEFINE id == IF active \in rows THEN active ELSE IF defaults # {} THEN Default ELSE 0
<1>1. request[c].step = "active" /\ UNCHANGED <<user, rows, defaults, tables, public>>
  BY DEF ResolveActive, At, database
<1>2. id = 0 \/ id \in rows
  BY Facts DEF ProofInv, TypeOK
<1>3. \/ id = 0 /\ Done(c) /\ UNCHANGED active
      \/ /\ id # 0 /\ active' = id
         /\ IF request[c].kind = "delete" THEN Done(c) ELSE WorkOn(c, id, SchemaOf(id), AfterResolve(request[c].kind))
  BY DEF ResolveActive
<1> HIDE DEF id
<1>4. active' # 0 => active' \in rows
  BY <1>2, <1>3 DEF ClientInv, Agreed
<1>5. CASE Done(c)
  BY <1>1, <1>4, <1>5, ClientRests DEF Dropping
<1>6. CASE ~Done(c)
  <2> DEFINE step == AfterResolve(request[c].kind)
  <2>1. id \in rows /\ request[c].kind # "delete" /\ WorkOn(c, id, SchemaOf(id), step)
    BY <1>2, <1>3, <1>6
  <2>2. request[c].kind \in {"use", "reset"}
    BY <1>1, <2>1, KindAt
  <2>3. step \in {"service", "clear", "update"}
    BY <2>2 DEF AfterResolve
  <2> HIDE DEF step
  <2> QED BY <1>1, <1>4, <2>1, <2>3, ClientResolved
<1> QED BY <1>5, <1>6

LEMMA ClientResolvesHeader ==
  ASSUME RegistryConstants, ProofInv, NEW c \in Request, ClientInv(c), ResolveHeader(c)
  PROVE  ClientInv(c)'
<1>1. request[c].step = "header" /\ UNCHANGED <<user, active, rows, defaults, tables, public>>
  BY DEF ResolveHeader, At, registry, database
<1>2. active' # 0 => active' \in rows
  BY <1>1 DEF ClientInv, Agreed
<1>3. CASE Done(c)
  BY <1>1, <1>2, <1>3, ClientRests DEF Dropping
<1>4. CASE ~Done(c)
  <2> DEFINE id == request[c].id
             step == AfterResolve(request[c].kind)
  <2>1. id \in rows /\ WorkOn(c, id, SchemaOf(id), step)
    BY <1>4 DEF ResolveHeader
  <2>2. request[c].kind \in {"use", "reset", "delete", "select"}
    BY <1>1, KindAt
  <2>3. step \in {"service", "clear", "update"}
    BY <2>2 DEF AfterResolve
  <2> HIDE DEF step, id
  <2> QED BY <1>1, <1>2, <2>1, <2>3, ClientResolved
<1> QED BY <1>3, <1>4

-----------------------------------------------------------------------------
(* The client goes on with the portfolio it works on.                        *)
LEMMA ClientGoesOn ==
  ASSUME RegistryConstants, ProofInv, NEW c \in Request, ClientInv(c), NEW step \in Step, Goto(c, step),
         Placed(request[c]), UNCHANGED <<user, active, rows, defaults, tables, public>>,
         \/ request[c].step = "service" /\ step = "build"
         \/ request[c].step = "recheck" /\ step = "default"
         \/ request[c].step = "clear" /\ step = "recheck"
         \/ request[c].step = "clear" /\ request[c].kind = "reset" /\ step = "drop"
         \/ request[c].step \in {"build", "base"} /\ request[c].kind = "create" /\ step = "undo"
  PROVE  ClientInv(c)'
<1>1. PICK q \in RequestRecord :
        /\ request' = [request EXCEPT ![c] = q]
        /\ q.step = step /\ q.kind = request[c].kind /\ q.id = request[c].id /\ q.schema = request[c].schema
  BY GotoRecord DEF ProofInv
<1>2. request[c].step \in {"service", "recheck"} => request[c].kind \in {"use", "delete"}
  BY KindAt
<1>3. ClientSound(q, user, active', rows, defaults, tables)
  BY <1>1, <1>2 DEF ClientInv, ClientSound
<1>4. ~Dropping(request[c]) /\ (active' # 0 => active' \in rows)
  BY DEF Dropping, ClientInv, Agreed
<1> QED BY <1>1, <1>3, <1>4, ClientGoes

LEMMA ClientLooksUp ==
  ASSUME RegistryConstants, ProofInv, NEW c \in Request, ClientInv(c), LookUp(c)
  PROVE  ClientInv(c)'
<1>1. /\ request[c].step = "service" /\ (Done(c) \/ Goto(c, "build")) /\ "build" \in Step
      /\ UNCHANGED <<user, active, rows, defaults, tables, public>>
  BY DEF LookUp, At, registry, database, Step
<1>2. Placed(request[c]) /\ ~Dropping(request[c]) /\ (active' # 0 => active' \in rows)
  BY <1>1 DEF Placed, Dropping, ClientInv, Agreed
<1> QED BY <1>1, <1>2, ClientRests, ClientGoesOn

LEMMA ClientRechecks ==
  ASSUME RegistryConstants, ProofInv, NEW c \in Request, ClientInv(c), Recheck(c)
  PROVE  ClientInv(c)'
<1>1. /\ request[c].step = "recheck" /\ (Done(c) \/ Goto(c, "default")) /\ "default" \in Step
      /\ UNCHANGED <<user, active, rows, defaults, tables, public>>
  BY DEF Recheck, At, registry, database, Step
<1>2. Placed(request[c]) /\ ~Dropping(request[c]) /\ (active' # 0 => active' \in rows)
  BY <1>1 DEF Placed, Dropping, ClientInv, Agreed
<1> QED BY <1>1, <1>2, ClientRests, ClientGoesOn

LEMMA ClientClears ==
  ASSUME RegistryConstants, ProofInv, NEW c \in Request, ClientInv(c), Clear(c)
  PROVE  ClientInv(c)'
<1>1. /\ request[c].step = "clear" /\ Goto(c, IF request[c].kind = "delete" THEN "recheck" ELSE "drop")
      /\ UNCHANGED <<user, active, rows, defaults, tables, public>> /\ {"recheck", "drop"} \subseteq Step
  BY DEF Clear, At, registry, database, Step
<1>2. request[c].kind \in {"reset", "delete", "deleteUser"}
  BY <1>1, KindAt
<1>3. CASE request[c].kind = "delete"
  BY <1>1, <1>3, ClientGoesOn DEF Placed
<1>4. CASE request[c].kind = "reset"
  BY <1>1, <1>4, ClientGoesOn DEF Placed
<1>5. CASE request[c].kind = "deleteUser"
  <2>1. PICK q \in RequestRecord :
          /\ request' = [request EXCEPT ![c] = q]
          /\ q.step = "drop" /\ q.kind = request[c].kind /\ q.id = request[c].id /\ q.schema = request[c].schema
    BY <1>1, <1>5, GotoRecord DEF ProofInv
  <2>2. ClientSound(q, user, active', rows, defaults, tables)
    BY <1>1, <1>5, <2>1 DEF ClientInv, ClientSound, Placed
  <2>3. ~Dropping(request[c]) /\ (active' # 0 => active' \in rows)
    BY <1>1 DEF Dropping, ClientInv, Agreed
  <2> QED BY <1>1, <2>1, <2>2, <2>3, ClientGoes
<1> QED BY <1>2, <1>3, <1>4, <1>5

LEMMA ClientCreateFails ==
  ASSUME RegistryConstants, ProofInv, NEW c \in Request, ClientInv(c), CreateFails(c)
  PROVE  ClientInv(c)'
<1>1. /\ request[c].step \in {"build", "base"} /\ request[c].kind = "create" /\ Goto(c, "undo")
      /\ UNCHANGED <<user, active, rows, defaults, tables, public>> /\ "undo" \in Step
  BY DEF CreateFails, registry, database, Step
<1> QED BY <1>1, ClientGoesOn DEF Placed

LEMMA ClientSelects ==
  ASSUME RegistryConstants, ProofInv, NEW c \in Request, ClientInv(c), Select(c)
  PROVE  ClientInv(c)'
<1>1. /\ request[c].step = "update" /\ Done(c) /\ active' = IF user THEN request[c].id ELSE active
      /\ UNCHANGED <<user, rows, defaults, tables, public>>
  BY DEF Select, At, database
<1>2. request[c].kind = "select"
  BY <1>1, KindAt
<1>3. user /\ request[c].id \in rows
  BY <1>1, <1>2 DEF ClientInv, ClientSound
<1> QED BY <1>1, <1>3, ClientRests DEF Dropping

LEMMA ClientCounts ==
  ASSUME RegistryConstants, ProofInv, NEW c \in Request, ClientInv(c), Count(c)
  PROVE  ClientInv(c)'
<1>1. /\ request[c].step = "count" /\ UNCHANGED <<user, active, rows, defaults, tables, public>>
      /\ "insert" \in Step /\ ~Dropping(request[c])
  BY DEF Count, At, registry, database, Step, Dropping
<1>2. active' # 0 => active' \in rows
  BY <1>1 DEF ClientInv, Agreed
<1>3. CASE Done(c)
  BY <1>1, <1>2, <1>3, ClientRests
<1>4. CASE ~Done(c)
  <2>1. ~(Cardinality(rows) >= MaxPortfolios) /\ Goto(c, "insert")
    BY <1>4 DEF Count
  <2>2. Cardinality(rows) < MaxPortfolios
    BY <2>1, RowsFinite
  <2>3. PICK q \in RequestRecord :
          /\ request' = [request EXCEPT ![c] = q]
          /\ q.step = "insert" /\ q.kind = request[c].kind /\ q.id = request[c].id /\ q.schema = request[c].schema
    BY <1>1, <2>1, GotoRecord DEF ProofInv
  <2>4. request[c].kind = "create"
    BY <1>1, KindAt
  <2>5. ClientSound(q, user, active', rows, defaults, tables)
    BY <1>1, <2>2, <2>3, <2>4 DEF ClientInv, ClientSound, Placed
  <2> QED BY <1>1, <1>2, <2>3, <2>5, ClientGoes
<1> QED BY <1>3, <1>4

-----------------------------------------------------------------------------
(* Tables are added to the schema of a portfolio that is listed.             *)
LEMMA ClientAddsTables ==
  ASSUME RegistryConstants, ProofInv, NEW c \in Request, ClientInv(c), NEW q,
         request' = [request EXCEPT ![c] = q], UNCHANGED <<user, active, rows, defaults, public>>,
         Placed(request[c]), ~Dropping(request[c]),
         \A s \in Schema \ {request[c].schema} : tables'[s] = tables[s],
         ClientSound(q, user, active, rows, defaults, tables')
  PROVE  ClientInv(c)'
<1>1. Agreed(active', rows', defaults') /\ public' = "empty" /\ ClientSound(q, user', active', rows', defaults', tables')
  BY DEF ClientInv
<1>2. user
  <2>1. request[c].step # "idle"
    BY DEF Placed
  <2> QED BY <2>1 DEF ClientInv, ClientSound
<1>3. request[c].schema = 0 \/ request[c].schema \in rows \ defaults
  BY DEF ClientInv, ClientSound
<1>4. Tidy(q, user', rows', defaults', tables')
  BY <1>2, <1>3 DEF ClientInv, Tidy
<1> QED BY <1>1, <1>4, ClientMoves

LEMMA ClientCreatesSchema ==
  ASSUME RegistryConstants, ProofInv, NEW c \in Request, ClientInv(c), CreateSchema(c)
  PROVE  ClientInv(c)'
<1> DEFINE s == request[c].schema
<1>1. /\ request[c].step = "build" /\ Goto(c, "base") /\ "base" \in Step
      /\ tables' = [tables EXCEPT ![s] = IF @ = "absent" THEN "empty" ELSE @]
      /\ UNCHANGED <<user, active, rows, defaults, public>>
  BY DEF CreateSchema, At, registry, Step
<1>2. tables \in [Schema -> Tables] /\ s \in Schema
  BY KindAt DEF ProofInv, TypeOK, RequestRecord
<1> HIDE DEF s
<1>3. tables'[s] # "absent" /\ \A t \in Schema \ {s} : tables'[t] = tables[t]
  BY <1>1, <1>2
<1>4. PICK q \in RequestRecord :
        /\ request' = [request EXCEPT ![c] = q]
        /\ q.step = "base" /\ q.kind = request[c].kind /\ q.id = request[c].id /\ q.schema = s
  BY <1>1, GotoRecord DEF ProofInv, s
<1>5. Placed(request[c]) /\ ~Dropping(request[c])
  BY <1>1 DEF Placed, Dropping
<1>6. ClientSound(q, user, active, rows, defaults, tables')
  BY <1>1, <1>3, <1>4, <1>5 DEF ClientInv, ClientSound, s
<1> QED BY <1>1, <1>3, <1>4, <1>5, <1>6, ClientAddsTables DEF s

LEMMA ClientCreatesBase ==
  ASSUME RegistryConstants, ProofInv, NEW c \in Request, ClientInv(c), CreateBase(c)
  PROVE  ClientInv(c)'
<1> DEFINE s == request[c].schema
<1>1. /\ request[c].step = "base" /\ UNCHANGED <<user, active, rows, defaults>>
      /\ IF request[c].kind = "use" THEN Goto(c, "extend") ELSE Done(c)
  BY DEF CreateBase, At, registry
<1>2. tables \in [Schema -> Tables] /\ s \in Schema /\ tables[s] # "absent"
  BY <1>1, KindAt DEF ProofInv, TypeOK, RequestRecord, ClientInv, ClientSound
<1>3. tables' = [tables EXCEPT ![s] = Raise(@, "base")] /\ UNCHANGED public
  BY <1>2 DEF CreateBase
<1> HIDE DEF s
<1>4. \A t \in Schema \ {s} : tables'[t] = tables[t]
  BY <1>2, <1>3
<1>5. Placed(request[c]) /\ ~Dropping(request[c])
  BY <1>1 DEF Placed, Dropping
<1>6. CASE request[c].kind = "use"
  <2>1. PICK q \in RequestRecord :
          /\ request' = [request EXCEPT ![c] = q]
          /\ q.step = "extend" /\ q.kind = request[c].kind /\ q.id = request[c].id /\ q.schema = request[c].schema
    <3>1. "extend" \in Step /\ Goto(c, "extend")
      BY <1>1, <1>6 DEF Step
    <3> QED BY <3>1, GotoRecord DEF ProofInv
  <2>2. ClientSound(q, user, active, rows, defaults, tables')
    BY <1>1, <1>5, <1>6, <2>1 DEF ClientInv, ClientSound
  <2> QED BY <1>1, <1>3, <1>4, <1>5, <2>1, <2>2, ClientAddsTables DEF s
<1>7. CASE request[c].kind # "use"
  <2>1. request' = [request EXCEPT ![c] = Idle]
    BY <1>1, <1>7 DEF Done
  <2>2. ClientSound(Idle, user, active, rows, defaults, tables')
    BY IdleSound
  <2> QED BY <1>1, <1>3, <1>4, <1>5, <2>1, <2>2, ClientAddsTables DEF s
<1> QED BY <1>6, <1>7

LEMMA ClientExtends ==
  ASSUME RegistryConstants, ProofInv, NEW c \in Request, ClientInv(c), Extend(c)
  PROVE  ClientInv(c)'
<1> DEFINE s == request[c].schema
<1>1. /\ request[c].step = "extend" /\ UNCHANGED <<user, active, rows, defaults>>
      /\ request' = [request EXCEPT ![c] = Idle]
  BY DEF Extend, At, registry, Done
<1>2. tables \in [Schema -> Tables] /\ s \in Schema /\ public = "empty"
  BY KindAt DEF ProofInv, TypeOK, RequestRecord, ClientInv
<1>3. UNCHANGED public /\ (tables' = [tables EXCEPT ![s] = "full"] \/ tables' = tables)
  BY <1>2 DEF Extend, database
<1> HIDE DEF s
<1>4. \A t \in Schema \ {s} : tables'[t] = tables[t]
  BY <1>2, <1>3
<1>5. Placed(request[c]) /\ ~Dropping(request[c])
  BY <1>1 DEF Placed, Dropping
<1>6. ClientSound(Idle, user, active, rows, defaults, tables')
  BY IdleSound
<1> QED BY <1>1, <1>3, <1>4, <1>5, <1>6, ClientAddsTables DEF s

(* A schema is dropped: the request rebuilds it, or nothing else needed it.  *)
LEMMA ClientDropsSchema ==
  ASSUME RegistryConstants, ProofInv, NEW c \in Request, ClientInv(c), DropSchema(c)
  PROVE  ClientInv(c)'
<1> DEFINE s == request[c].schema
<1>1. /\ request[c].step = "drop" /\ request[c].kind # "deleteUser"
      /\ tables' = [tables EXCEPT ![s] = "absent"] /\ UNCHANGED <<user, active, rows, defaults, public>>
  BY DEF DropSchema, At, registry
<1>2. tables \in [Schema -> Tables] /\ s \in Schema /\ request[c].kind \in {"reset", "create", "delete"}
  BY <1>1, KindAt DEF ProofInv, TypeOK, RequestRecord
<1> HIDE DEF s
<1>3. \A t \in Schema : tables'[t] # "absent" => t # s /\ tables[t] # "absent"
  BY <1>1, <1>2
<1>4. \A t \in Schema : tables'[t] # "absent" => (t = 0 /\ user) \/ t \in rows \ defaults
  BY <1>3 DEF ClientInv, Tidy, s
<1>5. Agreed(active', rows', defaults') /\ public' = "empty" /\ user
  BY <1>1 DEF ClientInv, ClientSound
<1>6. CASE request[c].kind = "create"
  <2>1. request' = [request EXCEPT ![c] = Idle]
    BY <1>6 DEF DropSchema, Done
  <2>2. ClientSound(Idle, user', active', rows', defaults', tables')
    BY IdleSound
  <2>3. Tidy(Idle, user', rows', defaults', tables')
    BY <1>1, <1>4 DEF Tidy
  <2> QED BY <1>5, <2>1, <2>2, <2>3, ClientMoves
<1>7. CASE request[c].kind \in {"reset", "delete"}
  <2> DEFINE step == IF request[c].kind = "reset" THEN "build" ELSE "active"
  <2>1. Goto(c, step) /\ step \in Step
    BY <1>7 DEF DropSchema, Step
  <2>2. PICK q \in RequestRecord :
          /\ request' = [request EXCEPT ![c] = q]
          /\ q.step = step /\ q.kind = request[c].kind /\ q.id = request[c].id /\ q.schema = request[c].schema
    BY <2>1, GotoRecord DEF ProofInv
  <2>3. Placed(q) => Placed(request[c])
    BY <1>1, <1>7, <2>2 DEF Placed
  <2>4. ClientSound(q, user', active', rows', defaults', tables')
    BY <1>1, <1>5, <1>7, <2>2, <2>3 DEF ClientInv, ClientSound
  <2>5. Tidy(q, user', rows', defaults', tables')
    BY <1>1, <1>4 DEF Tidy
  <2> QED BY <1>5, <2>2, <2>4, <2>5, ClientMoves
<1> QED BY <1>2, <1>6, <1>7

LEMMA ClientDropsUserSchemas ==
  ASSUME RegistryConstants, ProofInv, NEW c \in Request, ClientInv(c), DropUserSchemas(c)
  PROVE  ClientInv(c)'
<1>1. /\ request[c].step = "drop" /\ request[c].kind = "deleteUser" /\ Goto(c, "remove") /\ "remove" \in Step
      /\ tables' = [s \in Schema |-> "absent"] /\ UNCHANGED <<user, active, rows, defaults, public>>
  BY DEF DropUserSchemas, At, registry, Step
<1>2. PICK q \in RequestRecord :
        /\ request' = [request EXCEPT ![c] = q]
        /\ q.step = "remove" /\ q.kind = request[c].kind /\ q.id = request[c].id /\ q.schema = request[c].schema
  BY <1>1, GotoRecord DEF ProofInv
<1>3. \A s \in Schema : tables'[s] = "absent"
  BY <1>1
<1>4. ClientSound(q, user', active', rows', defaults', tables')
  BY <1>1, <1>2, <1>3 DEF ClientInv, ClientSound, Placed
<1>5. Tidy(q, user', rows', defaults', tables')
  BY <1>3 DEF Tidy
<1>6. Agreed(active', rows', defaults') /\ public' = "empty"
  BY <1>1 DEF ClientInv
<1> QED BY <1>2, <1>4, <1>5, <1>6, ClientMoves

LEMMA ClientRemovesUser ==
  ASSUME RegistryConstants, ProofInv, NEW c \in Request, ClientInv(c), RemoveUser(c)
  PROVE  ClientInv(c)'
<1>1. /\ request[c].step = "remove" /\ request[c].kind = "deleteUser" /\ request' = [request EXCEPT ![c] = Idle]
      /\ active' = 0 /\ rows' = {} /\ defaults' = {} /\ UNCHANGED <<tables, public>>
  BY DEF RemoveUser, At, database, Done
<1>2. \A s \in Schema : tables[s] = "absent"
  BY <1>1 DEF ClientInv, ClientSound
<1>3. Agreed(active', rows', defaults')
  BY <1>1, FS_EmptySet, RowsFinite DEF Agreed
<1>4. Tidy(Idle, user', rows', defaults', tables')
  BY <1>1, <1>2 DEF Tidy
<1>5. ClientSound(Idle, user', active', rows', defaults', tables') /\ public' = "empty"
  BY <1>1, IdleSound DEF ClientInv
<1> QED BY <1>1, <1>3, <1>4, <1>5, ClientMoves

-----------------------------------------------------------------------------
(* A row that is not the default goes, and its schema is about to.           *)
LEMMA ClientRowGone ==
  ASSUME RegistryConstants, ProofInv, NEW c \in Request, ClientInv(c), NEW q,
         request' = [request EXCEPT ![c] = q], q.step = "drop", q.kind \in {"create", "delete"},
         q.schema = request[c].id, request[c].step \in {"undo", "remove"},
         rows' = rows \ {request[c].id}, UNCHANGED <<user, defaults, tables, public>>,
         active' # 0 => active' \in rows'
  PROVE  ClientInv(c)'
<1>1. user /\ public' = "empty"
  BY DEF ClientInv, ClientSound
<1>2. Cardinality(rows') <= MaxPortfolios
  <2>1. IsFiniteSet(rows) /\ rows' \in SUBSET rows
    BY RowsFinite
  <2>2. IsFiniteSet(rows') /\ Cardinality(rows') <= Cardinality(rows)
    BY <2>1, FS_Subset
  <2>3. Cardinality(rows) \in Nat /\ Cardinality(rows') \in Nat /\ MaxPortfolios \in Nat
    BY <2>2, RowsFinite, FS_CardinalityType
  <2>4. Cardinality(rows) <= MaxPortfolios
    BY DEF ClientInv, Agreed
  <2> QED BY <2>2, <2>3, <2>4
<1>3. Agreed(active', rows', defaults')
  BY <1>2 DEF ClientInv, Agreed
<1>4. ClientSound(q, user', active', rows', defaults', tables')
  BY <1>1 DEF ClientSound, Placed
<1>5. Tidy(q, user', rows', defaults', tables')
  <2>1. ~Dropping(request[c])
    BY DEF Dropping
  <2> QED BY <2>1 DEF ClientInv, Tidy, Dropping
<1> QED BY <1>1, <1>3, <1>4, <1>5, ClientMoves

LEMMA ClientRemovesRow ==
  ASSUME RegistryConstants, ProofInv, NEW c \in Request, ClientInv(c), RemoveRow(c)
  PROVE  ClientInv(c)'
<1> DEFINE id == request[c].id
<1>1. /\ request[c].step = "remove" /\ request[c].kind = "delete" /\ Goto(c, "drop")
      /\ active' = IF active = id THEN Default ELSE active
      /\ rows' = rows \ {id} /\ UNCHANGED <<user, defaults, tables, public>> /\ "drop" \in Step
  BY DEF RemoveRow, At, database, Step
<1>2. PICK q \in RequestRecord :
        /\ request' = [request EXCEPT ![c] = q]
        /\ q.step = "drop" /\ q.kind = request[c].kind /\ q.id = request[c].id /\ q.schema = request[c].schema
  BY <1>1, GotoRecord DEF ProofInv
<1>3. user
  BY <1>1 DEF ClientInv, ClientSound
<1>4. id \notin defaults /\ defaults # {} /\ request[c].schema = id
  BY <1>1, <1>3, Facts DEF Sound, Resolved
<1>5. Default \in defaults /\ defaults \subseteq rows
  BY <1>4, Facts DEF ProofInv, TypeOK
<1>6. active' # 0 => active' \in rows'
  BY <1>1, <1>4, <1>5 DEF ClientInv, Agreed
<1> QED BY <1>1, <1>2, <1>4, <1>6, ClientRowGone

LEMMA ClientUndoesRow ==
  ASSUME RegistryConstants, ProofInv, NEW c \in Request, ClientInv(c), UndoRow(c)
  PROVE  ClientInv(c)'
<1> DEFINE id == request[c].id
<1>1. /\ request[c].step = "undo" /\ Goto(c, "drop") /\ rows' = rows \ {id}
      /\ UNCHANGED <<user, active, defaults, tables, public>> /\ "drop" \in Step
  BY DEF UndoRow, At, database, Step
<1>2. request[c].kind = "create"
  BY <1>1, KindAt
<1>3. PICK q \in RequestRecord :
        /\ request' = [request EXCEPT ![c] = q]
        /\ q.step = "drop" /\ q.kind = request[c].kind /\ q.id = request[c].id /\ q.schema = request[c].schema
  BY <1>1, GotoRecord DEF ProofInv
<1>4. user /\ active # id
  BY <1>1, <1>2 DEF ClientInv, ClientSound
<1>5. request[c].schema = id
  BY <1>1, <1>2, <1>4, Facts DEF Sound, Resolved
<1>6. active' # 0 => active' \in rows'
  BY <1>1, <1>4 DEF ClientInv, Agreed
<1> QED BY <1>1, <1>2, <1>3, <1>5, <1>6, ClientRowGone

LEMMA ClientInsertsRow ==
  ASSUME RegistryConstants, ProofInv, NEW c \in Request, ClientInv(c), InsertRow(c)
  PROVE  ClientInv(c)'
<1>1. request[c].step = "insert" /\ UNCHANGED <<user, active, defaults, tables, public>>
  BY DEF InsertRow, At, database
<1>2. request[c].kind = "create" /\ ~Dropping(request[c])
  BY <1>1, KindAt DEF Dropping
<1>3. CASE Done(c) /\ UNCHANGED rows
  <2>1. active' # 0 => active' \in rows
    BY <1>1 DEF ClientInv, Agreed
  <2> QED BY <1>1, <1>2, <1>3, <2>1, ClientRests
<1>4. CASE nextId <= MaxId /\ rows' = rows \union {nextId} /\ WorkOn(c, nextId, nextId, "build")
  <2>1. /\ MaxId \in Nat /\ nextId \in 1 .. MaxId + 1 /\ rows \subseteq 1 .. nextId - 1 /\ defaults \subseteq rows
    BY DEF ProofInv, TypeOK, RegistryConstants
  <2>2. nextId \in 0 .. MaxId /\ nextId \in Schema /\ "build" \in Step /\ nextId # 0
    BY <1>4, <2>1 DEF Schema, Step
  <2>3. nextId \notin rows /\ nextId \notin defaults
    BY <2>1
  <2>4. PICK q \in RequestRecord :
          /\ request' = [request EXCEPT ![c] = q]
          /\ q.step = "build" /\ q.kind = request[c].kind /\ q.id = nextId /\ q.schema = nextId
    BY <1>4, <2>2, WorkOnRecord DEF ProofInv
  <2>5. user /\ defaults # {} /\ Cardinality(rows) < MaxPortfolios
    BY <1>1, <1>2 DEF ClientInv, ClientSound
  <2>6. Cardinality(rows') = Cardinality(rows) + 1
    BY <1>4, <2>3, RowsFinite, FS_AddElement
  <2>7. Agreed(active', rows', defaults')
    <3>1. Cardinality(rows') <= MaxPortfolios
      BY <2>5, <2>6, RowsFinite
    <3> QED BY <1>1, <1>4, <2>5, <3>1 DEF ClientInv, Agreed
  <2>8. active # nextId
    BY <2>2, <2>3 DEF ClientInv, Agreed
  <2>9. ClientSound(q, user', active', rows', defaults', tables')
    BY <1>1, <1>2, <1>4, <2>3, <2>4, <2>5, <2>8 DEF ClientSound
  <2>10. Tidy(q, user', rows', defaults', tables') /\ public' = "empty"
    BY <1>1, <1>2, <1>4 DEF ClientInv, Tidy
  <2> QED BY <2>4, <2>7, <2>9, <2>10, ClientMoves
<1> QED BY <1>3, <1>4 DEF InsertRow

-----------------------------------------------------------------------------
LEMMA ClientStep ==
  ASSUME RegistryConstants, ProofInv, NEW c \in Request, ClientInv(c),
         \/ \E kind \in Kind, id \in 0 .. MaxId, i \in Instance : Begin(c, kind, id, i)
         \/ Advance(c)
  PROVE  ClientInv(c)'
<1>1. CASE \E kind \in Kind, id \in 0 .. MaxId, i \in Instance : Begin(c, kind, id, i)
  BY <1>1, ClientBegins
<1>2. CASE ReadDefault(c) \/ HaveDefault(c) \/ InsertDefault(c) \/ ResolveActive(c) \/ ResolveHeader(c)
  <2>1. HaveDefault(c) => ClientInv(c)'
    BY ClientTakesDefault DEF HaveDefault, At, database
  <2> QED BY <1>2, <2>1, ClientReadsDefault, ClientInsertsDefault, ClientResolvesActive, ClientResolvesHeader
<1>3. CASE LookUp(c) \/ CreateSchema(c) \/ CreateBase(c) \/ Extend(c) \/ Clear(c) \/ Recheck(c)
  BY <1>3, ClientLooksUp, ClientCreatesSchema, ClientCreatesBase, ClientExtends, ClientClears, ClientRechecks
<1>4. CASE RemoveRow(c) \/ DropSchema(c) \/ DropUserSchemas(c) \/ RemoveUser(c)
  BY <1>4, ClientRemovesRow, ClientDropsSchema, ClientDropsUserSchemas, ClientRemovesUser
<1>5. CASE Count(c) \/ InsertRow(c) \/ CreateFails(c) \/ UndoRow(c) \/ Select(c)
  BY <1>5, ClientCounts, ClientInsertsRow, ClientCreateFails, ClientUndoesRow, ClientSelects
<1> QED BY <1>1, <1>2, <1>3, <1>4, <1>5 DEF Advance

LEMMA ClientStarts == ASSUME RegistryConstants, Init, NEW c \in Request PROVE ClientInv(c)
<1>1. \A r \in Request : request[r] = Idle /\ request[r].step = "idle"
  BY IdleRecord DEF Init
<1>2. Agreed(active, rows, defaults)
  BY FS_EmptySet DEF Init, Agreed, RegistryConstants
<1>3. ClientSound(request[c], user, active, rows, defaults, tables)
  BY <1>1, IdleSound
<1>4. Tidy(request[c], user, rows, defaults, tables)
  BY DEF Init, Tidy
<1> QED BY <1>1, <1>2, <1>3, <1>4 DEF Init, ClientInv, At

LEMMA ClientImplies ==
  ASSUME RegistryConstants, ProofInv, NEW c \in Request, ClientInv(c)
  PROVE  NoOrphanSchema /\ SelectionExists /\ LimitKept /\ LedgerIsolated
<1>1. SelectionExists /\ LimitKept /\ LedgerIsolated
  BY DEF ClientInv, Agreed, SelectionExists, LimitKept, LedgerIsolated
<1>2. NoOrphanSchema
  <2>1. Quiet => ~Dropping(request[c])
    BY DEF Quiet, At, Dropping
  <2> QED BY <2>1 DEF NoOrphanSchema, ClientInv, Tidy
<1> QED BY <1>1, <1>2

(* What the theorems above keep, for the modules that compose the registry   *)
(* with other components: every request does what it may at its step, and a  *)
(* schema a portfolio owns has tables or somebody who adds them.             *)
THEOREM RequestsSound == RegistryConstants => (Spec => []ProofInv)
<1> SUFFICES ASSUME RegistryConstants PROVE Spec => []ProofInv
  OBVIOUS
<1>1. Init => ProofInv
  BY InitHolds
<1>2. ProofInv /\ [Next]_vars => ProofInv'
  BY StepKeeps
<1> QED BY <1>1, <1>2, PTL DEF Spec
=============================================================================
