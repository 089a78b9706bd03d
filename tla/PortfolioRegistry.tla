-------------------------- MODULE PortfolioRegistry --------------------------
(***************************************************************************)
(* The portfolios of one user: their rows in the auth schema, the database *)
(* schema each of them owns, and the services every instance of the server *)
(* keeps for them (app/main.py, postgres.py).  Requests run concurrently,  *)
(* in the threads of an instance and in several instances; each action is  *)
(* one transaction, one statement outside a transaction, or one access to  *)
(* the memory of an instance.                                              *)
(*                                                                         *)
(* Abstracted: names (a taken name refuses a creation), sessions (a user   *)
(* that exists is signed in), the two reads of active_portfolio (one       *)
(* step), and the eviction of services beyond MAX_CACHED_SERVICES.         *)
(***************************************************************************)
EXTENDS Integers, FiniteSets

CONSTANTS
  Instance,        \* server processes
  Request,         \* concurrent requests of the user or an administrator
  MaxPortfolios,   \* MAX_PORTFOLIOS_PER_USER
  MaxId,           \* bound: portfolio rows ever inserted
  UserMayBeDeleted \* an administrator may delete the user

Id == 1 .. MaxId
Schema == 0 .. MaxId          \* 0 is the user's own schema, of the default portfolio
Kind == {"use", "reset", "create", "delete", "select", "deleteUser"}
Step == {"idle", "default", "insertDefault", "active", "header", "service",
         "build", "base", "extend", "clear", "count", "insert", "undo",
         "recheck", "remove", "drop", "update"}

(* The tables of a schema: those of PostgresPortfolioStore, or also those    *)
(* the constructor of AutomatedPortfolioService adds                         *)
Tables == {"absent", "empty", "base", "full"}

VARIABLES
  user,       \* the row of users exists
  active,     \* users.active_portfolio_id, 0 for NULL
  rows,       \* ids of the rows of portfolios
  defaults,   \* those with is_default=1
  nextId,
  tables,     \* what each database schema holds
  public,     \* what the schema public, next on the search path, holds
  cache,      \* _services: the portfolios each instance keeps a service for
  request     \* kind, step, portfolio and instance of each request

vars == <<user, active, rows, defaults, nextId, tables, public, cache, request>>

Idle == [kind |-> "use", step |-> "idle", id |-> 0, schema |-> 0,
         instance |-> CHOOSE i \in Instance : TRUE]

TypeOK ==
  /\ user \in BOOLEAN
  /\ active \in 0 .. MaxId
  /\ rows \subseteq 1 .. nextId - 1
  /\ defaults \subseteq rows
  /\ nextId \in 1 .. MaxId + 1
  /\ tables \in [Schema -> Tables]
  /\ public \in {"empty", "base", "full"}
  /\ cache \in [Instance -> SUBSET Id]
  /\ request \in [Request -> [kind : Kind, step : Step, id : 0 .. MaxId,
                              schema : Schema, instance : Instance]]

(* register: the user's schema has the store's tables; the default portfolio *)
(* is inserted by the first request that needs it.                           *)
Init ==
  /\ user = TRUE
  /\ active = 0
  /\ rows = {}
  /\ defaults = {}
  /\ nextId = 1
  /\ tables = [s \in Schema |-> IF s = 0 THEN "base" ELSE "absent"]
  /\ public = "empty"
  /\ cache = [i \in Instance |-> {}]
  /\ request = [r \in Request |-> Idle]

At(r, step) == request[r].step = step
Goto(r, step) == request' = [request EXCEPT ![r].step = step]
Done(r) == request' = [request EXCEPT ![r] = Idle]
WorkOn(r, id, schema, step) ==
  request' = [request EXCEPT ![r] = [@ EXCEPT !.id = id, !.schema = schema, !.step = step]]
SchemaOf(id) == IF id \in defaults THEN 0 ELSE id
Default == CHOOSE id \in defaults : TRUE

registry == <<user, active, rows, defaults, nextId>>
database == <<tables, public>>

-----------------------------------------------------------------------------
(* A request arrives: with the X-QPort-Portfolio-Id header it names a        *)
(* portfolio, without it works on the active one.                            *)
Begin(r, kind, id, i) ==
  /\ At(r, "idle")
  /\ user
  /\ kind = "deleteUser" => UserMayBeDeleted
  /\ request' = [request EXCEPT ![r] =
       [kind |-> kind, id |-> id, schema |-> 0, instance |-> i,
        step |-> CASE kind \in {"use", "reset"} -> IF id = 0 THEN "default" ELSE "header"
                   [] kind = "create"           -> "default"
                   [] kind \in {"delete", "select"} -> "header"
                   [] kind = "deleteUser"       -> "clear"]]
  /\ UNCHANGED <<registry, database, cache>>

(* ensure_default_portfolio: read, and insert ON CONFLICT DO NOTHING *)
ReadDefault(r) ==
  /\ At(r, "default")
  /\ defaults = {}
  /\ Goto(r, "insertDefault")
  /\ UNCHANGED <<registry, database, cache>>

AfterDefault(kind) ==
  CASE kind \in {"use", "reset"} -> "active"
    [] kind = "create"           -> "count"
    [] kind = "delete"           -> "remove"

HaveDefault(r) ==
  /\ At(r, "default")
  /\ defaults # {}
  /\ active' = IF active = 0 THEN Default ELSE active
  /\ Goto(r, AfterDefault(request[r].kind))
  /\ UNCHANGED <<user, rows, defaults, nextId, database, cache>>

InsertDefault(r) ==
  /\ At(r, "insertDefault")
  /\ \/ /\ user
        /\ defaults = {}
        /\ nextId <= MaxId
        /\ rows' = rows \union {nextId}
        /\ defaults' = defaults \union {nextId}
        /\ nextId' = nextId + 1
        /\ active' = IF active = 0 THEN nextId ELSE active
        /\ Goto(r, AfterDefault(request[r].kind))
     \/ /\ user
        /\ defaults # {}
        /\ active' = IF active = 0 THEN Default ELSE active
        /\ Goto(r, AfterDefault(request[r].kind))
        /\ UNCHANGED <<rows, defaults, nextId>>
     \/ /\ ~user                               \* the foreign key refuses the row
        /\ Done(r)
        /\ UNCHANGED <<active, rows, defaults, nextId>>
  /\ UNCHANGED <<user, database, cache>>

AfterResolve(kind) ==
  CASE kind = "use"    -> "service"
    [] kind = "reset"  -> "clear"
    [] kind = "delete" -> "clear"
    [] kind = "select" -> "update"

(* active_portfolio: an active id that has no row is replaced by the default *)
ResolveActive(r) ==
  /\ At(r, "active")
  /\ LET id == IF active \in rows THEN active
               ELSE IF defaults # {} THEN Default ELSE 0
     IN  IF id = 0 THEN Done(r) /\ UNCHANGED active
         ELSE /\ active' = id
              /\ IF request[r].kind = "delete" THEN Done(r)
                 ELSE WorkOn(r, id, SchemaOf(id), AfterResolve(request[r].kind))
  /\ UNCHANGED <<user, rows, defaults, nextId, database, cache>>

(* portfolio_for_user: 404 for a portfolio that is not the user's. *)
ResolveHeader(r) ==
  /\ At(r, "header")
  /\ IF request[r].id \in rows
     THEN WorkOn(r, request[r].id, SchemaOf(request[r].id), AfterResolve(request[r].kind))
     ELSE Done(r)
  /\ UNCHANGED <<registry, database, cache>>

-----------------------------------------------------------------------------
(* portfolio(): the service of this instance, or a new one ...               *)
LookUp(r) ==
  /\ At(r, "service")
  /\ IF request[r].id \in cache[request[r].instance]
     THEN Done(r)
     ELSE Goto(r, "build")
  /\ UNCHANGED <<registry, database, cache>>

(* ... whose store creates its schema in a connection of its own,            *)
CreateSchema(r) ==
  /\ At(r, "build")
  /\ tables' = [tables EXCEPT ![request[r].schema] =
                  IF @ = "absent" THEN "empty" ELSE @]
  /\ Goto(r, "base")
  /\ UNCHANGED <<registry, public, cache>>

Raise(present, level) ==
  IF present = "full" THEN "full" ELSE level

(* then its tables, with search_path set to the schema and public: when the  *)
(* schema is gone, CREATE TABLE takes the next schema that exists.           *)
CreateBase(r) ==
  /\ At(r, "base")
  /\ LET s == request[r].schema
     IN  IF tables[s] = "absent"
         THEN public' = Raise(public, "base") /\ UNCHANGED tables
         ELSE tables' = [tables EXCEPT ![s] = Raise(@, "base")] /\ UNCHANGED public
  /\ IF request[r].kind = "use" THEN Goto(r, "extend") ELSE Done(r)
  /\ UNCHANGED <<registry, cache>>

(* AutomatedPortfolioService adds the tables of corrections, postings and    *)
(* imports, and the instance keeps the service.  (A schema that is empty     *)
(* while public holds tables would take its new tables beside those of       *)
(* public: such mixtures are left out.)                                      *)
Extend(r) ==
  /\ At(r, "extend")
  /\ LET s == request[r].schema
         i == request[r].instance
     IN  \/ /\ tables[s] = "absent" /\ public # "empty"
            /\ public' = "full"
            /\ cache' = [cache EXCEPT ![i] = @ \union {request[r].id}]
            /\ UNCHANGED tables
         \/ /\ tables[s] \in {"base", "full"}
            /\ tables' = [tables EXCEPT ![s] = "full"]
            /\ cache' = [cache EXCEPT ![i] = @ \union {request[r].id}]
            /\ UNCHANGED public
         \/ /\ tables[s] = "empty" \/ (tables[s] = "absent" /\ public = "empty")
            /\ UNCHANGED <<database, cache>>          \* no ledger_events: it fails
  /\ Done(r)
  /\ UNCHANGED registry

-----------------------------------------------------------------------------
(* clear_portfolio_runtime, clear_user_runtime: this instance only *)
Clear_DropsFirst(r) ==
  /\ At(r, "clear")
  /\ cache' = [cache EXCEPT ![request[r].instance] = @ \ {request[r].id}]
  /\ tables' = [tables EXCEPT ![request[r].schema] = "absent"]
  /\ Goto(r, IF request[r].kind = "delete" THEN "recheck" ELSE "drop")
  /\ UNCHANGED <<registry, public>>

Clear(r) ==
  /\ At(r, "clear")
  /\ cache' = [cache EXCEPT ![request[r].instance] =
                 IF request[r].kind = "deleteUser" THEN {} ELSE @ \ {request[r].id}]
  /\ Goto(r, IF request[r].kind = "delete" THEN "recheck" ELSE "drop")
  /\ UNCHANGED <<registry, database>>

(* delete_portfolio reads the row again and refuses the default portfolio;   *)
Recheck(r) ==
  /\ At(r, "recheck")
  /\ IF request[r].id \in rows \ defaults THEN Goto(r, "default") ELSE Done(r)
  /\ UNCHANGED <<registry, database, cache>>

(* the selection and the row change in one transaction.                      *)
RemoveRow(r) ==
  /\ At(r, "remove")
  /\ request[r].kind = "delete"
  /\ active' = IF active = request[r].id THEN Default ELSE active
  /\ rows' = rows \ {request[r].id}
  /\ Goto(r, "drop")
  /\ UNCHANGED <<user, defaults, nextId, database, cache>>

(* drop_portfolio_schema, then what the caller does next *)
DropSchema(r) ==
  /\ At(r, "drop")
  /\ request[r].kind # "deleteUser"
  /\ tables' = [tables EXCEPT ![request[r].schema] = "absent"]
  /\ CASE request[r].kind = "reset"  -> Goto(r, "build")
       [] request[r].kind = "delete" -> Goto(r, "active")
       [] request[r].kind = "create" -> Done(r)
  /\ UNCHANGED <<registry, public, cache>>

(* delete_user: every schema of the user, then the row, with its portfolios *)
DropUserSchemas(r) ==
  /\ At(r, "drop")
  /\ request[r].kind = "deleteUser"
  /\ tables' = [s \in Schema |-> "absent"]
  /\ Goto(r, "remove")
  /\ UNCHANGED <<registry, public, cache>>

RemoveUser(r) ==
  /\ At(r, "remove")
  /\ request[r].kind = "deleteUser"
  /\ user' = FALSE
  /\ active' = 0
  /\ rows' = {} /\ defaults' = {}
  /\ Done(r)
  /\ UNCHANGED <<nextId, database, cache>>

-----------------------------------------------------------------------------
(* create_portfolio: the limit is checked against a list read before *)
Count(r) ==
  /\ At(r, "count")
  /\ IF Cardinality(rows) >= MaxPortfolios THEN Done(r) ELSE Goto(r, "insert")
  /\ UNCHANGED <<registry, database, cache>>

InsertRow(r) ==
  /\ At(r, "insert")
  /\ \/ /\ user
        /\ nextId <= MaxId
        /\ rows' = rows \union {nextId}
        /\ nextId' = nextId + 1
        /\ WorkOn(r, nextId, nextId, "build")
     \/ /\ Done(r)                   \* the name is taken, or the user is gone
        /\ UNCHANGED <<rows, nextId>>
  /\ UNCHANGED <<user, active, defaults, database, cache>>

(* The store of a new portfolio could not be built: its row and its schema   *)
(* are removed again.                                                        *)
CreateFails(r) ==
  /\ request[r].kind = "create"
  /\ request[r].step \in {"build", "base"}
  /\ Goto(r, "undo")
  /\ UNCHANGED <<registry, database, cache>>

UndoRow_KeepSchema(r) ==
  /\ At(r, "undo")
  /\ rows' = rows \ {request[r].id}
  /\ Done(r)
  /\ UNCHANGED <<user, active, defaults, nextId, database, cache>>

UndoRow(r) ==
  /\ At(r, "undo")
  /\ rows' = rows \ {request[r].id}
  /\ Goto(r, "drop")
  /\ UNCHANGED <<user, active, defaults, nextId, database, cache>>

(* select_portfolio: the update does not look at the row again *)
Select(r) ==
  /\ At(r, "update")
  /\ active' = IF user THEN request[r].id ELSE active
  /\ Done(r)
  /\ UNCHANGED <<user, rows, defaults, nextId, database, cache>>

Advance(r) ==
  \/ ReadDefault(r) \/ HaveDefault(r) \/ InsertDefault(r)
  \/ ResolveActive(r) \/ ResolveHeader(r)
  \/ LookUp(r) \/ CreateSchema(r) \/ CreateBase(r) \/ Extend(r)
  \/ Clear(r) \/ Recheck(r) \/ RemoveRow(r) \/ DropSchema(r) \/ DropUserSchemas(r) \/ RemoveUser(r)
  \/ Count(r) \/ InsertRow(r) \/ CreateFails(r) \/ UndoRow(r) \/ Select(r)

Next ==
  \E r \in Request :
    \/ \E kind \in Kind, id \in 0 .. MaxId, i \in Instance : Begin(r, kind, id, i)
    \/ Advance(r)

Spec == Init /\ [][Next]_vars
-----------------------------------------------------------------------------
Quiet == \A r \in Request : At(r, "idle")

Building(id) ==
  \E r \in Request :
    \/ /\ request[r].kind = "create" /\ request[r].id = id
       /\ request[r].step \in {"build", "base", "undo"}
    \/ /\ request[r].kind = "reset" /\ request[r].id = id
       /\ request[r].step \in {"build", "base"}
    \/ request[r].kind = "deleteUser" /\ At(r, "remove")

(* A user has one default portfolio, however many first requests raced. *)
OneDefault == Cardinality(defaults) <= 1

(* A portfolio that is listed has its tables, unless it is being created or  *)
(* cleared: the row goes before the schema and comes back with it, whatever  *)
(* other requests do meanwhile.                                              *)
RowsHaveTables ==
  \A id \in rows : ~Building(id) => tables[SchemaOf(id)] \in {"base", "full"}

(* Types, and what requests never break however they overlap. *)
RegistryInv == TypeOK /\ OneDefault /\ RowsHaveTables

(* Between requests, no schema is left that no portfolio owns, after failed  *)
(* creations, deletions, and the deletion of the user.                       *)
NoOrphanSchema ==
  Quiet => \A s \in Schema : tables[s] # "absent" =>
             \/ s = 0 /\ user
             \/ s \in rows \ defaults

(* Whenever a request stops, the selected portfolio exists: the row and the  *)
(* selection go together.                                                    *)
SelectionExists == active # 0 => active \in rows

(* An account never holds more portfolios than the limit. *)
LimitKept == Cardinality(rows) <= MaxPortfolios

(* The tables of portfolios are in the schemas of portfolios only. *)
LedgerIsolated == public = "empty"

(* What a registry is given. *)
RegistryConstants == MaxId \in Nat /\ Instance # {} /\ MaxPortfolios \in Nat \ {0}
=============================================================================
