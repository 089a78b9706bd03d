--------------------------- MODULE ConnectionPool ---------------------------
(***************************************************************************)
(* The pool of PostgreSQL connections of one process and the transaction   *)
(* of a "with store.connect()" block over it (postgres.py).  A session     *)
(* outlives its requests: what SET search_path leaves behind belongs to    *)
(* the schema of whoever committed last, and SET is undone by a rollback.  *)
(*                                                                         *)
(* A request is one block: it writes into its own schema, so it stands for *)
(* that schema too.  The server may drop a connection at any moment, and   *)
(* the process notices when it next uses it.  The pool never enforces its  *)
(* max_total, which is left out.                                           *)
(***************************************************************************)
EXTENDS Integers, Sequences, SequencesExt, Functions

CONSTANTS
    Requests,       \* the blocks, each with the schema it works in
    Connections,    \* connection objects, numbers
    MaxIdle,        \* _max_idle
    Public,         \* search_path of a new session
    MaxBreaks       \* bound: connections the server drops

VARIABLES
    idle,           \* deque of the connections waiting for a request
    active,         \* the connections the pool believes in use
    link,           \* "open", "dropped" by the server, or "closed" here
    path,           \* committed search_path of each session
    writes,         \* uncommitted writes of each session, [by, schema]
    request,        \* what each block is doing, and on which connection
    stored,         \* committed writes, with the block that committed them
    breaks,
    shut            \* the pool has been closed once

vars == <<idle, active, link, path, writes, request, stored, breaks, shut>>

NoConnection == 0

At(r, step) == request[r].at = step
Held == {request[r].on : r \in Requests} \ {NoConnection}
Go(r, step) == request' = [request EXCEPT ![r].at = step]

TypeOK ==
    /\ idle \in Seq(Connections)
    /\ active \subseteq Connections
    /\ link \in [Connections -> {"open", "dropped", "closed"}]
    /\ path \in [Connections -> Requests \cup {Public}]
    /\ writes \in [Connections -> SUBSET [by : Requests, schema : Requests \cup {Public}]]
    /\ request \in [Requests ->
         [at : {"new", "acquired", "ready", "wrote", "stored", "undone", "ok", "failed"},
          on : Connections \cup {NoConnection}, dropped : BOOLEAN, sees : Requests \cup {Public}]]
    /\ \A w \in stored : {w.by, w.committed} \subseteq Requests
    /\ breaks \in 0 .. MaxBreaks
    /\ shut \in BOOLEAN

Init ==
    /\ idle = <<>> /\ active = {}
    /\ link = [c \in Connections |-> "closed"]
    /\ path = [c \in Connections |-> Public]
    /\ writes = [c \in Connections |-> {}]
    /\ request = [r \in Requests |->
                    [at |-> "new", on |-> NoConnection, dropped |-> FALSE, sees |-> Public]]
    /\ stored = {} /\ breaks = 0 /\ shut = FALSE

-------------------------------------------------------------------------------
\* The ping of an idle connection.
Usable(c) == link[c] = "open"

Closing(S) == [c \in Connections |-> IF c \in S THEN "closed" ELSE link[c]]

\* The last idle connection that answers is taken; those after it are closed.  The
\* ping ends in a rollback, so the session starts without writes.
CheckOut(r) ==
    \E i \in DOMAIN idle :
      /\ Usable(idle[i])
      /\ \A j \in i + 1 .. Len(idle) : ~Usable(idle[j])
      /\ link' = Closing({idle[j] : j \in i + 1 .. Len(idle)})
      /\ idle' = SubSeq(idle, 1, i - 1)
      /\ active' = active \cup {idle[i]}
      /\ writes' = [writes EXCEPT ![idle[i]] = {}]
      /\ request' = [request EXCEPT ![r] = [@ EXCEPT !.at = "acquired", !.on = idle[i]]]
      /\ UNCHANGED path

NoneUsable == \A i \in DOMAIN idle : ~Usable(idle[i])
Free == {c \in Connections : link[c] = "closed"} \ (Held \cup ToSet(idle))

Connect(r) ==
    /\ NoneUsable
    /\ \E c \in Free :
         /\ \A d \in Free : c <= d
         /\ link' = [Closing(ToSet(idle)) EXCEPT ![c] = "open"]
         /\ path' = [path EXCEPT ![c] = Public]
         /\ writes' = [writes EXCEPT ![c] = {}]
         /\ active' = active \cup {c}
         /\ request' = [request EXCEPT ![r] = [@ EXCEPT !.at = "acquired", !.on = c]]
    /\ idle' = <<>>

\* psycopg.connect raises before the block has begun.
ConnectFails(r) ==
    /\ NoneUsable
    /\ link' = Closing(ToSet(idle))
    /\ idle' = <<>>
    /\ Go(r, "failed")
    /\ UNCHANGED <<active, path, writes>>

\* The whole of acquire runs under the lock of the pool, network calls included.
Acquire(r) ==
    /\ At(r, "new")
    /\ CheckOut(r) \/ Connect(r) \/ ConnectFails(r)
    /\ UNCHANGED <<stored, breaks, shut>>

-------------------------------------------------------------------------------
\* A rollback, or a commit of nothing, ends the transaction of the block.
Undo(r) ==
    LET c == request[r].on IN
    /\ writes' = [writes EXCEPT ![c] = {}]
    /\ link' = IF link[c] = "dropped" THEN [link EXCEPT ![c] = "closed"] ELSE link
    /\ Go(r, "undone")
    /\ UNCHANGED <<idle, active, path, stored, breaks, shut>>

SetPath_NewSession(r) ==
    /\ At(r, "acquired") /\ Usable(request[r].on)
    /\ LET c == request[r].on IN
         request' = [request EXCEPT ![r] = [@ EXCEPT !.at = "ready",
                       !.sees = IF path[c] = Public THEN r ELSE path[c]]]
    /\ UNCHANGED <<idle, active, link, path, writes, stored, breaks, shut>>

SetPath(r) ==
    /\ At(r, "acquired") /\ Usable(request[r].on)
    /\ request' = [request EXCEPT ![r] = [@ EXCEPT !.at = "ready", !.sees = r]]
    /\ UNCHANGED <<idle, active, link, path, writes, stored, breaks, shut>>

\* A statement of the block goes where search_path points in its transaction.
Execute(r) ==
    /\ At(r, "ready") /\ Usable(request[r].on)
    /\ writes' = [writes EXCEPT ![request[r].on] = @ \cup {[by |-> r, schema |-> request[r].sees]}]
    /\ Go(r, "wrote")
    /\ UNCHANGED <<idle, active, link, path, stored, breaks, shut>>

Committed(r) == {[by |-> w.by, schema |-> w.schema, committed |-> r] : w \in writes[request[r].on]}

\* The commit makes the search_path of the transaction the session's.
Commit(r) ==
    LET c == request[r].on IN
    /\ At(r, "wrote") /\ Usable(c)
    /\ stored' = stored \cup Committed(r)
    /\ path' = [path EXCEPT ![c] = request[r].sees]
    /\ writes' = [writes EXCEPT ![c] = {}]
    /\ Go(r, "stored")
    /\ UNCHANGED <<idle, active, link, breaks, shut>>

\* The server commits and the connection drops before its answer: the block fails.
CommitUnanswered(r) ==
    LET c == request[r].on IN
    /\ At(r, "wrote") /\ Usable(c)
    /\ breaks < MaxBreaks
    /\ stored' = stored \cup Committed(r)
    /\ writes' = [writes EXCEPT ![c] = {}]
    /\ link' = [link EXCEPT ![c] = "closed"]
    /\ breaks' = breaks + 1
    /\ request' = [request EXCEPT ![r] = [@ EXCEPT !.at = "undone", !.dropped = TRUE]]
    /\ UNCHANGED <<idle, active, path, shut>>

\* Any exception rolls back: of a statement on a dropped connection, or of the
\* block's own code.
Fail(r) ==
    /\ \/ At(r, "acquired") /\ ~Usable(request[r].on)
       \/ At(r, "ready") \/ At(r, "wrote")
    /\ Undo(r)

\* finally: the connection goes back even when the rollback has raised.
Released(c) ==
    /\ active' = active \ {c}
    /\ IF link[c] = "closed" \/ Len(idle) >= MaxIdle
         THEN link' = [link EXCEPT ![c] = "closed"] /\ UNCHANGED idle
         ELSE idle' = Append(idle, c) /\ UNCHANGED link

Release(r) ==
    /\ At(r, "stored") \/ At(r, "undone")
    /\ Released(request[r].on)
    /\ request' = [request EXCEPT ![r] = [@ EXCEPT !.on = NoConnection,
                     !.at = IF At(r, "stored") THEN "ok" ELSE "failed"]]
    /\ UNCHANGED <<path, writes, stored, breaks, shut>>

-------------------------------------------------------------------------------
\* The server drops a connection, in use or frozen with its idle process; what the
\* session had not committed is lost.
Break(c) ==
    /\ link[c] = "open" /\ breaks < MaxBreaks
    /\ link' = [link EXCEPT ![c] = "dropped"]
    /\ writes' = [writes EXCEPT ![c] = {}]
    /\ breaks' = breaks + 1
    /\ request' = [r \in Requests |-> IF request[r].on = c
                                        THEN [request[r] EXCEPT !.dropped = TRUE]
                                        ELSE request[r]]
    /\ UNCHANGED <<idle, active, path, stored, shut>>

\* close_connection_pool: also the connections in use, under their users.
ClosePool ==
    /\ ~shut /\ shut' = TRUE
    /\ link' = Closing(active \cup ToSet(idle))
    /\ writes' = [c \in Connections |-> IF c \in active \cup ToSet(idle) THEN {} ELSE writes[c]]
    /\ request' = [r \in Requests |-> IF request[r].on \in active
                                        THEN [request[r] EXCEPT !.dropped = TRUE]
                                        ELSE request[r]]
    /\ idle' = <<>> /\ active' = {}
    /\ UNCHANGED <<path, stored, breaks>>

Work(r) == Acquire(r) \/ SetPath(r) \/ Execute(r) \/ Commit(r) \/ CommitUnanswered(r) \/ Fail(r) \/ Release(r)
Next == ClosePool \/ (\E r \in Requests : Work(r)) \/ (\E c \in Connections : Break(c))
Spec == Init /\ [][Next]_vars

-------------------------------------------------------------------------------
\* A connection serves one block at a time, and none is lost: what is not closed
\* waits in the pool, within its limit, or is in use (acquire, release).
OneUser ==
    /\ \A r, s \in Requests : r # s /\ request[r].on # NoConnection => request[r].on # request[s].on
    /\ Held \cap ToSet(idle) = {}
    /\ IsInjective(idle) /\ Len(idle) <= MaxIdle
    /\ {c \in Connections : link[c] # "closed"} \subseteq ToSet(idle) \cup Held

\* What is stored was written by the block that committed it, into its own schema,
\* whatever search_path the session had before; a block that answers has stored its
\* write, and one that fails has not unless its connection dropped.
OwnSchema ==
    /\ \A w \in stored : w.by = w.schema /\ w.by = w.committed
    /\ \A r \in Requests :
         LET own == [by |-> r, schema |-> r, committed |-> r] IN
         /\ At(r, "ok") => own \in stored
         /\ At(r, "failed") /\ own \in stored => request[r].dropped

\* A block meets a dead connection only if it died while the block had it, never
\* because it died in the pool (the ping on checkout).
FreshOnCheckout ==
    \A r \in Requests :
      request[r].on # NoConnection /\ link[request[r].on] # "open" => request[r].dropped

SessionsApart == TypeOK /\ OneUser /\ OwnSchema /\ FreshOnCheckout

\* What the pool is given.
PoolConstants == Connections \subseteq Nat \ {NoConnection} /\ MaxIdle \in Nat /\ MaxBreaks \in Nat
===============================================================================
