------------------------ MODULE ConnectionPool_proofs ------------------------
(***************************************************************************)
(* Theorems about the connection pool, for any number of blocks, of        *)
(* connections the server drops, and any limit on idle ones.               *)
(***************************************************************************)
EXTENDS ConnectionPool, SequenceTheorems, TLAPS

Own(r) == [by |-> r, schema |-> r, committed |-> r]

\* What a block holds and has written, at every step of it.
BlockSound(r) ==
    LET q == request[r] IN
    /\ q.at \in {"acquired", "ready", "wrote", "stored", "undone"} <=> q.on # NoConnection
    /\ q.at \in {"acquired", "ready"} => writes[q.on] = {}
    /\ q.at \in {"ready", "wrote"} => q.sees = r
    /\ q.at = "wrote" /\ link[q.on] = "open" => writes[q.on] = {[by |-> r, schema |-> r]}
    /\ q.at \in {"new", "acquired", "ready", "wrote"} => Own(r) \notin stored
    /\ q.at = "stored" => Own(r) \in stored
    /\ q.at = "undone" /\ Own(r) \in stored => q.dropped

PoolInv == SessionsApart /\ \A r \in Requests : BlockSound(r)

\* Taking the connection at i off the end of the deque, and closing those after it.
LEMMA IdleCut ==
    ASSUME NEW S, NEW s \in Seq(S), IsInjective(s), NEW i \in DOMAIN s
    PROVE  LET t == SubSeq(s, 1, i - 1)
               after == {s[j] : j \in i + 1 .. Len(s)}
           IN  /\ t \in Seq(S) /\ Len(t) <= Len(s) /\ IsInjective(t)
               /\ ToSet(s) = ToSet(t) \cup {s[i]} \cup after
               /\ ToSet(t) \cap ({s[i]} \cup after) = {}
               /\ s[i] \notin after /\ s[i] \in S
<1> DEFINE t == SubSeq(s, 1, i - 1)
<1>1. i \in 1 .. Len(s) /\ Len(s) \in Nat /\ DOMAIN s = 1 .. Len(s) /\ \A j \in 1 .. Len(s) : s[j] \in S
  BY LenProperties, ElementOfSeq
<1>2. t \in Seq(S) /\ Len(t) = i - 1 /\ DOMAIN t = 1 .. i - 1 /\ \A j \in 1 .. i - 1 : t[j] = s[j]
  BY <1>1
<1>3. IsInjective(t)
  BY <1>1, <1>2 DEF IsInjective
<1>4. ToSet(s) = {s[j] : j \in 1 .. Len(s)} /\ ToSet(t) = {s[j] : j \in 1 .. i - 1}
  BY <1>1, <1>2 DEF ToSet
<1>5. 1 .. Len(s) = (1 .. i - 1) \cup {i} \cup (i + 1 .. Len(s))
  BY <1>1
<1>6. \A j, k \in 1 .. Len(s) : s[j] = s[k] => j = k
  BY <1>1 DEF IsInjective
<1> HIDE DEF t
<1>7. ToSet(s) = ToSet(t) \cup {s[i]} \cup {s[j] : j \in i + 1 .. Len(s)}
  BY <1>4, <1>5
<1>8. /\ ToSet(t) \cap ({s[i]} \cup {s[j] : j \in i + 1 .. Len(s)}) = {}
      /\ s[i] \notin {s[j] : j \in i + 1 .. Len(s)}
  BY <1>1, <1>4, <1>6
<1> QED BY <1>1, <1>2, <1>3, <1>7, <1>8 DEF t

\* Putting a connection that is not there back at the end.
LEMMA IdleAppend ==
    ASSUME NEW S, NEW s \in Seq(S), IsInjective(s), NEW c \in S, c \notin ToSet(s)
    PROVE  LET t == Append(s, c)
           IN  /\ t \in Seq(S) /\ Len(t) = Len(s) + 1 /\ IsInjective(t)
               /\ ToSet(t) = ToSet(s) \cup {c}
<1> DEFINE t == Append(s, c)
<1>1. Len(s) \in Nat /\ DOMAIN s = 1 .. Len(s)
  BY LenProperties
<1>2. t \in Seq(S) /\ Len(t) = Len(s) + 1 /\ DOMAIN t = 1 .. Len(s) + 1
  BY <1>1
<1>3. t[Len(s) + 1] = c /\ \A j \in 1 .. Len(s) : t[j] = s[j]
  BY <1>1
<1> HIDE DEF t
<1>4. 1 .. Len(s) + 1 = (1 .. Len(s)) \cup {Len(s) + 1}
  BY <1>1
<1>5. ToSet(t) = {t[j] : j \in 1 .. Len(s) + 1} /\ ToSet(s) = {s[j] : j \in 1 .. Len(s)}
  BY <1>1, <1>2 DEF ToSet
<1>6. ToSet(t) = ToSet(s) \cup {c}
  BY <1>3, <1>4, <1>5
<1>7. IsInjective(t)
  <2> SUFFICES ASSUME NEW j \in 1 .. Len(s) + 1, NEW k \in 1 .. Len(s) + 1, t[j] = t[k]
               PROVE  j = k
    BY <1>2 DEF IsInjective
  <2>1. CASE j \in 1 .. Len(s) /\ k \in 1 .. Len(s)
    BY <1>1, <1>3, <2>1 DEF IsInjective
  <2>2. CASE j = Len(s) + 1 \/ k = Len(s) + 1
    BY <1>1, <1>3, <1>4, <1>5, <2>2
  <2> QED BY <1>4, <2>1, <2>2
<1> QED BY <1>2, <1>6, <1>7 DEF t

LEMMA EmptyIdle == <<>> \in Seq(Connections) /\ ToSet(<<>>) = {} /\ IsInjective(<<>>) /\ Len(<<>>) = 0
BY EmptySeq DEF ToSet, IsInjective

LEMMA InitPool ==
    ASSUME PoolConstants, Init
    PROVE  PoolInv
<1>1. TypeOK
  <2>1. idle \in Seq(Connections)
    BY EmptyIdle DEF Init
  <2>2. request \in [Requests ->
          [at : {"new", "acquired", "ready", "wrote", "stored", "undone", "ok", "failed"},
           on : Connections \cup {NoConnection}, dropped : BOOLEAN, sees : Requests \cup {Public}]]
    BY DEF Init
  <2>3. breaks \in 0 .. MaxBreaks
    BY DEF Init, PoolConstants
  <2>4. writes \in [Connections -> SUBSET [by : Requests, schema : Requests \cup {Public}]]
    BY DEF Init
  <2> QED BY <2>1, <2>2, <2>3, <2>4 DEF Init, TypeOK
<1>2. Held = {} /\ \A r \in Requests : request[r].on = NoConnection
  BY DEF Init, Held
<1>3. OneUser
  <2>1. ToSet(idle) = {} /\ IsInjective(idle) /\ Len(idle) = 0
    BY EmptyIdle, Zenon DEF Init
  <2>2. Len(idle) <= MaxIdle
    BY <2>1 DEF PoolConstants
  <2>3. {c \in Connections : link[c] # "closed"} = {}
    BY DEF Init
  <2> QED BY <1>2, <2>1, <2>2, <2>3 DEF OneUser
<1>4. OwnSchema /\ FreshOnCheckout /\ \A r \in Requests : BlockSound(r)
  BY DEF Init, OwnSchema, FreshOnCheckout, BlockSound, At, Own
<1> QED BY <1>1, <1>3, <1>4 DEF PoolInv, SessionsApart

\* What a step of block r on its own connection may change.
LEMMA OwnStep ==
    ASSUME PoolConstants, PoolInv, NEW r \in Requests,
           NEW at \in {"ready", "wrote", "stored", "undone"},
           request[r].on # NoConnection,
           request' \in [Requests -> [at : {"new", "acquired", "ready", "wrote", "stored", "undone", "ok", "failed"},
                            on : Connections \cup {NoConnection}, dropped : BOOLEAN, sees : Requests \cup {Public}]],
           \A s \in Requests \ {r} : request'[s] = request[s],
           request'[r].at = at, request'[r].on = request[r].on,
           request[r].dropped => request'[r].dropped,
           \A c \in Connections \ {request[r].on} : writes'[c] = writes[c] /\ link'[c] = link[c],
           writes' \in [Connections -> SUBSET [by : Requests, schema : Requests \cup {Public}]],
           link' \in [Connections -> {"open", "dropped", "closed"}],
           path' \in [Connections -> Requests \cup {Public}],
           stored' = stored \/ stored' = stored \cup {Own(r)},
           breaks' \in 0 .. MaxBreaks, UNCHANGED <<idle, active, shut>>,
           link'[request[r].on] # "open" => request'[r].dropped,
           BlockSound(r)'
    PROVE  PoolInv'
<1> DEFINE c == request[r].on
<1> USE DEF PoolInv, SessionsApart
<1>1. c \in Connections /\ c \in Held /\ Held' = Held
  <2>1. c \in Connections
    BY DEF TypeOK
  <2>2. \A s \in Requests : request'[s].on = request[s].on
    OBVIOUS
  <2> QED BY <2>1, <2>2 DEF Held
<1>2. TypeOK'
  BY DEF TypeOK, Own
<1>3. \A s \in Requests \ {r} : request[s].on # NoConnection => request[s].on \in Connections \ {c}
  <2>1. \A s \in Requests : request[s].on \in Connections \cup {NoConnection}
    BY DEF TypeOK
  <2>2. \A s \in Requests \ {r} : request[s].on # NoConnection => request[s].on # request[r].on
    BY DEF OneUser
  <2> QED BY <2>1, <2>2
<1>4. OneUser'
  <2>1. \A s \in Requests : request'[s].on = request[s].on
    OBVIOUS
  <2>2. \A s, t \in Requests : s # t /\ request'[s].on # NoConnection => request'[s].on # request'[t].on
    BY <2>1 DEF OneUser
  <2>3. {d \in Connections : link'[d] # "closed"} \subseteq ToSet(idle) \cup Held
    BY <1>1 DEF OneUser
  <2> QED BY <1>1, <2>2, <2>3 DEF OneUser
<1>5. \A s \in Requests \ {r} : BlockSound(s)'
  <2> SUFFICES ASSUME NEW s \in Requests \ {r}
               PROVE  BlockSound(s)'
    OBVIOUS
  <2>1. BlockSound(s) /\ request'[s] = request[s]
    OBVIOUS
  <2>2. request[s].on # NoConnection =>
          writes'[request[s].on] = writes[request[s].on] /\ link'[request[s].on] = link[request[s].on]
    BY <1>3
  <2>3. Own(s) \in stored' <=> Own(s) \in stored
    BY DEF Own
  <2> QED BY <2>1, <2>2, <2>3 DEF BlockSound
<1>6. FreshOnCheckout'
  BY <1>3 DEF FreshOnCheckout
<1>7. \A w \in stored' : w.by = w.schema /\ w.by = w.committed
  BY DEF OwnSchema, Own
<1>8. \A s \in Requests : LET own == [by |-> s, schema |-> s, committed |-> s] IN
         /\ At(s, "ok")' => own \in stored'
         /\ At(s, "failed")' /\ own \in stored' => request'[s].dropped
  <2> SUFFICES ASSUME NEW s \in Requests
               PROVE  /\ request'[s].at = "ok" => Own(s) \in stored'
                      /\ request'[s].at = "failed" /\ Own(s) \in stored' => request'[s].dropped
    BY DEF At, Own
  <2>1. CASE s = r
    BY <2>1
  <2>2. CASE s # r
    <3>1. request'[s] = request[s] /\ (Own(s) \in stored' <=> Own(s) \in stored)
      BY <2>2 DEF Own
    <3>2. /\ request[s].at = "ok" => Own(s) \in stored
          /\ request[s].at = "failed" /\ Own(s) \in stored => request[s].dropped
      BY DEF OwnSchema, At, Own
    <3> QED BY <3>1, <3>2
  <2> QED BY <2>1, <2>2
<1>9. OwnSchema'
  BY <1>7, <1>8 DEF OwnSchema, At
<1> QED BY <1>2, <1>4, <1>5, <1>6, <1>9

BlockState ==
    [at : {"new", "acquired", "ready", "wrote", "stored", "undone", "ok", "failed"},
     on : Connections \cup {NoConnection}, dropped : BOOLEAN, sees : Requests \cup {Public}]

LEMMA SetPathStep ==
    ASSUME PoolConstants, PoolInv, NEW r \in Requests, SetPath(r)
    PROVE  PoolInv'
<1> USE DEF PoolInv, SessionsApart
<1>1. request \in [Requests -> BlockState] /\ request[r] \in BlockState
  BY DEF TypeOK, BlockState
<1>2. BlockSound(r) /\ request[r].at = "acquired" /\ request[r].on # NoConnection
  BY DEF SetPath, At, BlockSound
<1>3. /\ request' \in [Requests -> BlockState]
      /\ \A s \in Requests \ {r} : request'[s] = request[s]
      /\ request'[r].at = "ready" /\ request'[r].on = request[r].on
      /\ request'[r].dropped = request[r].dropped /\ request'[r].sees = r
  BY <1>1 DEF SetPath, BlockState
<1>4. BlockSound(r)'
  BY <1>2, <1>3 DEF SetPath, BlockSound
<1>5. link'[request[r].on] = "open"
  BY DEF SetPath, Usable
<1>6. UNCHANGED <<idle, active, link, path, writes, stored, breaks, shut>>
  BY DEF SetPath
<1>7. /\ link \in [Connections -> {"open", "dropped", "closed"}]
      /\ path \in [Connections -> Requests \cup {Public}]
      /\ writes \in [Connections -> SUBSET [by : Requests, schema : Requests \cup {Public}]]
      /\ breaks \in 0 .. MaxBreaks
  BY DEF TypeOK
<1> QED BY <1>2, <1>3, <1>4, <1>5, <1>6, <1>7, OwnStep DEF BlockState

LEMMA ExecuteStep ==
    ASSUME PoolConstants, PoolInv, NEW r \in Requests, Execute(r)
    PROVE  PoolInv'
<1> USE DEF PoolInv, SessionsApart
<1>1. request \in [Requests -> BlockState] /\ request[r] \in BlockState
  BY DEF TypeOK, BlockState
<1>2. /\ BlockSound(r) /\ request[r].at = "ready" /\ request[r].on # NoConnection
      /\ request[r].sees = r /\ writes[request[r].on] = {}
  BY DEF Execute, At, BlockSound
<1>3. /\ request' \in [Requests -> BlockState]
      /\ \A s \in Requests \ {r} : request'[s] = request[s]
      /\ request'[r].at = "wrote" /\ request'[r].on = request[r].on
      /\ request'[r].dropped = request[r].dropped /\ request'[r].sees = request[r].sees
  BY <1>1 DEF Execute, Go, BlockState
<1>4. link'[request[r].on] = "open"
  BY DEF Execute, Usable
<1>5. UNCHANGED <<idle, active, link, path, stored, breaks, shut>>
  BY DEF Execute
<1>6. /\ link \in [Connections -> {"open", "dropped", "closed"}]
      /\ path \in [Connections -> Requests \cup {Public}]
      /\ writes \in [Connections -> SUBSET [by : Requests, schema : Requests \cup {Public}]]
      /\ breaks \in 0 .. MaxBreaks
  BY DEF TypeOK
<1>7. request[r].on \in Connections
  BY <1>1, <1>2 DEF BlockState
<1>8. /\ writes' = [writes EXCEPT ![request[r].on] = {[by |-> r, schema |-> r]}]
      /\ writes' \in [Connections -> SUBSET [by : Requests, schema : Requests \cup {Public}]]
  BY <1>2, <1>6, <1>7 DEF Execute
<1>9. BlockSound(r)'
  BY <1>2, <1>3, <1>5, <1>6, <1>7, <1>8 DEF BlockSound
<1> QED BY <1>2, <1>3, <1>4, <1>5, <1>6, <1>8, <1>9, OwnStep DEF BlockState

\* What a commit stores, while the connection has been up since the write.
LEMMA CommitsOwn ==
    ASSUME PoolInv, NEW r \in Requests, request[r].at = "wrote", link[request[r].on] = "open"
    PROVE  Committed(r) = {Own(r)}
<1>1. writes[request[r].on] = {[by |-> r, schema |-> r]}
  BY DEF PoolInv, BlockSound
<1> QED BY <1>1 DEF Committed, Own

LEMMA CommitStep ==
    ASSUME PoolConstants, PoolInv, NEW r \in Requests, Commit(r)
    PROVE  PoolInv'
<1> USE DEF PoolInv, SessionsApart
<1>1. request \in [Requests -> BlockState] /\ request[r] \in BlockState
  BY DEF TypeOK, BlockState
<1>2. /\ BlockSound(r) /\ request[r].at = "wrote" /\ request[r].on # NoConnection
      /\ link[request[r].on] = "open"
  BY DEF Commit, At, BlockSound, Usable
<1>3. /\ request' \in [Requests -> BlockState]
      /\ \A s \in Requests \ {r} : request'[s] = request[s]
      /\ request'[r].at = "stored" /\ request'[r].on = request[r].on
      /\ request'[r].dropped = request[r].dropped /\ request'[r].sees = request[r].sees
  BY <1>1 DEF Commit, Go, BlockState
<1>4. UNCHANGED <<idle, active, link, breaks, shut>> /\ stored' = stored \cup {Own(r)}
  BY <1>2, CommitsOwn DEF Commit
<1>5. /\ link \in [Connections -> {"open", "dropped", "closed"}]
      /\ path \in [Connections -> Requests \cup {Public}]
      /\ writes \in [Connections -> SUBSET [by : Requests, schema : Requests \cup {Public}]]
      /\ breaks \in 0 .. MaxBreaks
  BY DEF TypeOK
<1>6. request[r].on \in Connections /\ request[r].sees \in Requests \cup {Public}
  BY <1>1, <1>2 DEF BlockState
<1>7. /\ writes' = [writes EXCEPT ![request[r].on] = {}]
      /\ writes' \in [Connections -> SUBSET [by : Requests, schema : Requests \cup {Public}]]
      /\ path' \in [Connections -> Requests \cup {Public}]
  BY <1>5, <1>6 DEF Commit
<1>8. BlockSound(r)'
  BY <1>2, <1>3, <1>4 DEF BlockSound
<1> QED BY <1>2, <1>3, <1>4, <1>5, <1>7, <1>8, OwnStep DEF BlockState

\* The connection drops after the server has committed.
LEMMA CommitUnansweredStep ==
    ASSUME PoolConstants, PoolInv, NEW r \in Requests, CommitUnanswered(r)
    PROVE  PoolInv'
<1> USE DEF PoolInv, SessionsApart
<1>1. request \in [Requests -> BlockState] /\ request[r] \in BlockState
  BY DEF TypeOK, BlockState
<1>2. /\ BlockSound(r) /\ request[r].at = "wrote" /\ request[r].on # NoConnection
      /\ link[request[r].on] = "open"
  BY DEF CommitUnanswered, At, BlockSound, Usable
<1>3. /\ request' \in [Requests -> BlockState]
      /\ \A s \in Requests \ {r} : request'[s] = request[s]
      /\ request'[r].at = "undone" /\ request'[r].on = request[r].on
      /\ request'[r].dropped = TRUE /\ request'[r].sees = request[r].sees
  BY <1>1 DEF CommitUnanswered, BlockState
<1>4. UNCHANGED <<idle, active, path, shut>> /\ stored' = stored \cup {Own(r)}
  BY <1>2, CommitsOwn DEF CommitUnanswered
<1>5. /\ link \in [Connections -> {"open", "dropped", "closed"}]
      /\ path \in [Connections -> Requests \cup {Public}]
      /\ writes \in [Connections -> SUBSET [by : Requests, schema : Requests \cup {Public}]]
      /\ breaks \in 0 .. MaxBreaks
  BY DEF TypeOK
<1>6. request[r].on \in Connections
  BY <1>1, <1>2 DEF BlockState
<1>7. /\ writes' = [writes EXCEPT ![request[r].on] = {}]
      /\ writes' \in [Connections -> SUBSET [by : Requests, schema : Requests \cup {Public}]]
      /\ link' = [link EXCEPT ![request[r].on] = "closed"]
      /\ link' \in [Connections -> {"open", "dropped", "closed"}]
      /\ breaks' \in 0 .. MaxBreaks
  BY <1>5, <1>6 DEF CommitUnanswered, PoolConstants
<1>8. BlockSound(r)'
  BY <1>2, <1>3, <1>4 DEF BlockSound
<1> QED BY <1>2, <1>3, <1>4, <1>5, <1>7, <1>8, OwnStep DEF BlockState

LEMMA FailStep ==
    ASSUME PoolConstants, PoolInv, NEW r \in Requests, Fail(r)
    PROVE  PoolInv'
<1> USE DEF PoolInv, SessionsApart
<1>1. request \in [Requests -> BlockState] /\ request[r] \in BlockState
  BY DEF TypeOK, BlockState
<1>2. /\ BlockSound(r) /\ request[r].at \in {"acquired", "ready", "wrote"}
      /\ request[r].on # NoConnection /\ Own(r) \notin stored
  BY DEF Fail, At, BlockSound
<1>3. /\ request' \in [Requests -> BlockState]
      /\ \A s \in Requests \ {r} : request'[s] = request[s]
      /\ request'[r].at = "undone" /\ request'[r].on = request[r].on
      /\ request'[r].dropped = request[r].dropped /\ request'[r].sees = request[r].sees
  BY <1>1 DEF Fail, Undo, Go, BlockState
<1>4. UNCHANGED <<idle, active, path, stored, breaks, shut>>
  BY DEF Fail, Undo
<1>5. /\ link \in [Connections -> {"open", "dropped", "closed"}]
      /\ path \in [Connections -> Requests \cup {Public}]
      /\ writes \in [Connections -> SUBSET [by : Requests, schema : Requests \cup {Public}]]
      /\ breaks \in 0 .. MaxBreaks
  BY DEF TypeOK
<1>6. request[r].on \in Connections
  BY <1>1, <1>2 DEF BlockState
<1>7. /\ writes' = [writes EXCEPT ![request[r].on] = {}]
      /\ writes' \in [Connections -> SUBSET [by : Requests, schema : Requests \cup {Public}]]
      /\ link' = IF link[request[r].on] = "dropped" THEN [link EXCEPT ![request[r].on] = "closed"] ELSE link
      /\ link' \in [Connections -> {"open", "dropped", "closed"}]
  BY <1>5, <1>6 DEF Fail, Undo
<1>8. link'[request[r].on] # "open" => request'[r].dropped
  BY <1>2, <1>3, <1>5, <1>6, <1>7 DEF FreshOnCheckout
<1>9. BlockSound(r)'
  BY <1>2, <1>3, <1>4 DEF BlockSound
<1> QED BY <1>2, <1>3, <1>4, <1>5, <1>7, <1>8, <1>9, OwnStep DEF BlockState

\* A block gets a connection nobody holds, and the pings close others in the pool.
LEMMA ConnectionTaken ==
    ASSUME PoolConstants, PoolInv, NEW r \in Requests, request[r].at = "new",
           NEW c \in Connections \ Held, NEW dead \in SUBSET (ToSet(idle) \ {c}),
           request' = [request EXCEPT ![r] = [@ EXCEPT !.at = "acquired", !.on = c]],
           writes' = [writes EXCEPT ![c] = {}],
           path' \in [Connections -> Requests \cup {Public}],
           link' \in [Connections -> {"open", "dropped", "closed"}], link'[c] = "open",
           \A d \in Connections \ {c} : link'[d] = IF d \in dead THEN "closed" ELSE link[d],
           idle' \in Seq(Connections), IsInjective(idle'), Len(idle') <= MaxIdle,
           ToSet(idle') \subseteq ToSet(idle) \ {c},
           ToSet(idle) \subseteq ToSet(idle') \cup {c} \cup dead,
           active' \subseteq Connections, UNCHANGED <<stored, breaks, shut>>
    PROVE  PoolInv'
<1> USE DEF PoolInv, SessionsApart
<1>1. request \in [Requests -> BlockState] /\ request[r] \in BlockState
  BY DEF TypeOK, BlockState
<1>2. BlockSound(r) /\ request[r].on = NoConnection
  BY DEF BlockSound
<1>3. /\ request' \in [Requests -> BlockState]
      /\ \A s \in Requests \ {r} : request'[s] = request[s]
      /\ request'[r].at = "acquired" /\ request'[r].on = c
  BY <1>1 DEF BlockState
<1>4. /\ c # NoConnection
      /\ \A s \in Requests \ {r} : request[s].on # NoConnection => request[s].on \in Held \ {c}
      /\ Held \subseteq Connections /\ Held \cap ToSet(idle) = {}
  <2>1. \A s \in Requests : request[s].on \in Connections \cup {NoConnection}
    BY <1>1 DEF BlockState
  <2>2. Held \cap ToSet(idle) = {}
    BY DEF OneUser
  <2>3. c # NoConnection
    BY DEF PoolConstants
  <2>4. \A s \in Requests : request[s].on # NoConnection => request[s].on \in Held
    BY DEF Held
  <2>5. Held \subseteq Connections
    BY <2>1 DEF Held
  <2> QED BY <2>2, <2>3, <2>4, <2>5
<1>5. Held' = Held \cup {c}
  BY <1>2, <1>3, <1>4 DEF Held
<1>6. writes \in [Connections -> SUBSET [by : Requests, schema : Requests \cup {Public}]]
  BY DEF TypeOK
<1>7. TypeOK'
  BY <1>3, <1>6 DEF TypeOK, BlockState
<1>8. OneUser'
  <2>1. \A s, t \in Requests : s # t /\ request'[s].on # NoConnection => request'[s].on # request'[t].on
    <3>1. \A s, t \in Requests : s # t /\ request[s].on # NoConnection => request[s].on # request[t].on
      BY DEF OneUser
    <3> QED BY <1>3, <1>4, <3>1
  <2>2. Held' \cap ToSet(idle') = {}
    BY <1>4, <1>5
  <2>3. {d \in Connections : link'[d] # "closed"} \subseteq ToSet(idle') \cup Held'
    <3>1. {d \in Connections : link[d] # "closed"} \subseteq ToSet(idle) \cup Held
      BY DEF OneUser
    <3> QED BY <1>5, <3>1
  <2> QED BY <2>1, <2>2, <2>3 DEF OneUser
<1>9. FreshOnCheckout'
  <2> SUFFICES ASSUME NEW s \in Requests, request'[s].on # NoConnection, link'[request'[s].on] # "open"
               PROVE  request'[s].dropped
    BY DEF FreshOnCheckout
  <2>1. s # r /\ request'[s] = request[s] /\ request[s].on \in Held \ {c}
    BY <1>3, <1>4
  <2>2. link'[request[s].on] = link[request[s].on]
    BY <1>4, <2>1
  <2> QED BY <2>1, <2>2 DEF FreshOnCheckout
<1>10. \A s \in Requests : BlockSound(s)'
  <2> SUFFICES ASSUME NEW s \in Requests
               PROVE  BlockSound(s)'
    OBVIOUS
  <2>1. CASE s = r
    <3>1. writes'[c] = {} /\ Own(r) \notin stored'
      BY <1>2, <1>6 DEF BlockSound
    <3> QED BY <1>3, <1>4, <2>1, <3>1 DEF BlockSound
  <2>2. CASE s # r
    <3>1. BlockSound(s) /\ request'[s] = request[s]
      BY <1>3, <2>2
    <3>2. request[s].on # NoConnection =>
            link'[request[s].on] = link[request[s].on] /\ writes'[request[s].on] = writes[request[s].on]
      BY <1>4, <1>6, <2>2
    <3>3. stored' = stored
      OBVIOUS
    <3> HIDE DEF PoolInv, SessionsApart
    <3> QED BY <3>1, <3>2, <3>3 DEF BlockSound
  <2> QED BY <2>1, <2>2
<1>11. OwnSchema'
  <2>1. \A s \in Requests : request'[s].at \in {"ok", "failed"} => request'[s] = request[s]
    BY <1>3
  <2> QED BY <2>1 DEF OwnSchema, At
<1> QED BY <1>7, <1>8, <1>9, <1>10, <1>11

\* A block ends and holds nothing any more.
LEMMA BlockEnds ==
    ASSUME PoolConstants, PoolInv, NEW r \in Requests, NEW at \in {"ok", "failed"},
           request' = [request EXCEPT ![r] = [@ EXCEPT !.on = NoConnection, !.at = at]],
           at = "ok" => Own(r) \in stored,
           at = "failed" /\ Own(r) \in stored => request[r].dropped,
           link' \in [Connections -> {"open", "dropped", "closed"}],
           \A d \in Held \ {request[r].on} : link'[d] = link[d],
           idle' \in Seq(Connections), IsInjective(idle'), Len(idle') <= MaxIdle,
           ToSet(idle') \cap (Held \ {request[r].on}) = {},
           {d \in Connections : link'[d] # "closed"} \subseteq ToSet(idle') \cup (Held \ {request[r].on}),
           active' \subseteq Connections, UNCHANGED <<path, writes, stored, breaks, shut>>
    PROVE  PoolInv'
<1> USE DEF PoolInv, SessionsApart
<1>1. request \in [Requests -> BlockState] /\ request[r] \in BlockState
  BY DEF TypeOK, BlockState
<1>2. /\ request' \in [Requests -> BlockState]
      /\ \A s \in Requests \ {r} : request'[s] = request[s]
      /\ request'[r].at = at /\ request'[r].on = NoConnection /\ request'[r].dropped = request[r].dropped
  BY <1>1 DEF BlockState
<1>3. \A s \in Requests \ {r} : request[s].on # NoConnection => request[s].on \in Held \ {request[r].on}
  <2>1. \A s \in Requests \ {r} : request[s].on # NoConnection => request[s].on # request[r].on
    BY DEF OneUser
  <2> QED BY <2>1 DEF Held
<1>4. Held' = Held \ {request[r].on}
  <2>1. Held' = {request'[s].on : s \in Requests} \ {NoConnection}
    BY DEF Held
  <2>2. Held = {request[s].on : s \in Requests} \ {NoConnection}
    BY DEF Held
  <2>3. \A s \in Requests : request'[s].on = IF s = r THEN NoConnection ELSE request[s].on
    BY <1>2
  <2> HIDE DEF PoolInv, SessionsApart
  <2> QED BY <1>3, <2>1, <2>2, <2>3
<1>5. TypeOK'
  BY <1>2 DEF TypeOK, BlockState
<1>6. OneUser'
  <2>1. \A s, t \in Requests : s # t /\ request[s].on # NoConnection => request[s].on # request[t].on
    BY DEF OneUser
  <2>2. \A s, t \in Requests : s # t /\ request'[s].on # NoConnection => request'[s].on # request'[t].on
    BY <1>2, <2>1
  <2> QED BY <1>4, <2>2 DEF OneUser
<1>7. FreshOnCheckout'
  <2> SUFFICES ASSUME NEW s \in Requests, request'[s].on # NoConnection, link'[request'[s].on] # "open"
               PROVE  request'[s].dropped
    BY DEF FreshOnCheckout
  <2>1. s # r /\ request'[s] = request[s] /\ link'[request[s].on] = link[request[s].on]
    BY <1>2, <1>3
  <2> QED BY <2>1 DEF FreshOnCheckout
<1>8. \A s \in Requests : BlockSound(s)'
  <2> SUFFICES ASSUME NEW s \in Requests
               PROVE  BlockSound(s)'
    OBVIOUS
  <2>1. CASE s = r
    BY <1>2, <2>1 DEF BlockSound
  <2>2. CASE s # r
    <3>1. BlockSound(s) /\ request'[s] = request[s]
      BY <1>2, <2>2
    <3>2. request[s].on # NoConnection => link'[request[s].on] = link[request[s].on]
      BY <1>3, <2>2
    <3>3. stored' = stored /\ writes' = writes
      OBVIOUS
    <3> HIDE DEF PoolInv, SessionsApart
    <3> QED BY <3>1, <3>2, <3>3 DEF BlockSound
  <2> QED BY <2>1, <2>2
<1>9. OwnSchema'
  <2> SUFFICES ASSUME NEW s \in Requests
               PROVE  /\ request'[s].at = "ok" => Own(s) \in stored
                      /\ request'[s].at = "failed" /\ Own(s) \in stored => request'[s].dropped
    BY DEF OwnSchema, At, Own
  <2>1. CASE s = r
    BY <1>2, <2>1
  <2>2. CASE s # r
    <3>1. request'[s] = request[s]
      BY <1>2, <2>2
    <3>2. /\ request[s].at = "ok" => Own(s) \in stored
          /\ request[s].at = "failed" /\ Own(s) \in stored => request[s].dropped
      BY DEF OwnSchema, At, Own
    <3> QED BY <3>1, <3>2
  <2> QED BY <2>1, <2>2
<1> QED BY <1>5, <1>6, <1>7, <1>8, <1>9

LEMMA AcquireStep ==
    ASSUME PoolConstants, PoolInv, NEW r \in Requests, Acquire(r)
    PROVE  PoolInv'
<1> USE DEF PoolInv, SessionsApart
<1>1. /\ request[r].at = "new" /\ UNCHANGED <<stored, breaks, shut>>
      /\ BlockSound(r) /\ request[r].on = NoConnection /\ Own(r) \notin stored
  BY DEF Acquire, At, BlockSound
<1>2. /\ idle \in Seq(Connections) /\ IsInjective(idle) /\ Held \cap ToSet(idle) = {}
      /\ Len(idle) <= MaxIdle /\ active \subseteq Connections
      /\ {d \in Connections : link[d] # "closed"} \subseteq ToSet(idle) \cup Held
      /\ link \in [Connections -> {"open", "dropped", "closed"}]
      /\ path \in [Connections -> Requests \cup {Public}]
  BY DEF TypeOK, OneUser
<1>3. CASE CheckOut(r)
  <2> PICK i \in DOMAIN idle :
        /\ Usable(idle[i])
        /\ \A j \in i + 1 .. Len(idle) : ~Usable(idle[j])
        /\ link' = Closing({idle[j] : j \in i + 1 .. Len(idle)})
        /\ idle' = SubSeq(idle, 1, i - 1)
        /\ active' = active \cup {idle[i]}
        /\ writes' = [writes EXCEPT ![idle[i]] = {}]
        /\ request' = [request EXCEPT ![r] = [@ EXCEPT !.at = "acquired", !.on = idle[i]]]
        /\ UNCHANGED path
    BY <1>3 DEF CheckOut
  <2> DEFINE c == idle[i]
             dead == {idle[j] : j \in i + 1 .. Len(idle)}
  <2>1. /\ idle' \in Seq(Connections) /\ Len(idle') <= Len(idle) /\ IsInjective(idle')
        /\ ToSet(idle) = ToSet(idle') \cup {c} \cup dead
        /\ ToSet(idle') \cap ({c} \cup dead) = {}
        /\ c \notin dead /\ c \in Connections
    BY <1>2, IdleCut
  <2>2. Len(idle') \in Nat /\ Len(idle) \in Nat /\ Len(idle') <= MaxIdle
    BY <1>2, <2>1, LenProperties DEF PoolConstants
  <2> HIDE DEF dead
  <2>3. c \in Connections \ Held /\ dead \in SUBSET (ToSet(idle) \ {c})
    BY <1>2, <2>1
  <2>4. /\ link' \in [Connections -> {"open", "dropped", "closed"}] /\ link'[c] = "open"
        /\ \A d \in Connections \ {c} : link'[d] = IF d \in dead THEN "closed" ELSE link[d]
    BY <1>2, <2>1 DEF Closing, Usable, dead
  <2>5. /\ ToSet(idle') \subseteq ToSet(idle) \ {c}
        /\ ToSet(idle) \subseteq ToSet(idle') \cup {c} \cup dead
        /\ active' \subseteq Connections /\ path' \in [Connections -> Requests \cup {Public}]
    BY <1>2, <2>1
  <2> QED BY <1>1, <2>1, <2>2, <2>3, <2>4, <2>5, ConnectionTaken
<1>4. CASE Connect(r)
  <2> PICK c \in Free :
        /\ link' = [Closing(ToSet(idle)) EXCEPT ![c] = "open"]
        /\ path' = [path EXCEPT ![c] = Public]
        /\ writes' = [writes EXCEPT ![c] = {}]
        /\ active' = active \cup {c}
        /\ request' = [request EXCEPT ![r] = [@ EXCEPT !.at = "acquired", !.on = c]]
    BY <1>4 DEF Connect
  <2>1. c \in Connections \ Held /\ c \notin ToSet(idle)
    BY DEF Free
  <2>2. idle' = <<>>
    BY <1>4 DEF Connect
  <2>3. /\ idle' \in Seq(Connections) /\ IsInjective(idle') /\ Len(idle') = 0 /\ ToSet(idle') = {}
    BY <2>2, EmptyIdle, Zenon
  <2>4. /\ link' \in [Connections -> {"open", "dropped", "closed"}] /\ link'[c] = "open"
        /\ \A d \in Connections \ {c} : link'[d] = IF d \in ToSet(idle) THEN "closed" ELSE link[d]
    BY <1>2, <2>1 DEF Closing
  <2>5. /\ active' \subseteq Connections /\ path' \in [Connections -> Requests \cup {Public}]
        /\ Len(idle') <= MaxIdle /\ ToSet(idle) \in SUBSET (ToSet(idle) \ {c})
    BY <1>2, <2>1, <2>3 DEF PoolConstants
  <2>6. ToSet(idle') \subseteq ToSet(idle) \ {c} /\ ToSet(idle) \subseteq ToSet(idle') \cup {c} \cup ToSet(idle)
    BY <2>3
  <2> QED BY <1>1, <2>1, <2>3, <2>4, <2>5, <2>6, ConnectionTaken
<1>5. CASE ConnectFails(r)
  <2>1. idle' = <<>> /\ link' = Closing(ToSet(idle)) /\ UNCHANGED <<active, path, writes>>
    BY <1>5 DEF ConnectFails
  <2>2. /\ idle' \in Seq(Connections) /\ IsInjective(idle') /\ Len(idle') = 0 /\ ToSet(idle') = {}
    BY <2>1, EmptyIdle, Zenon
  <2>3. request' = [request EXCEPT ![r] = [@ EXCEPT !.on = NoConnection, !.at = "failed"]]
    <3>1. request \in [Requests -> BlockState] /\ request[r] \in BlockState
      BY DEF TypeOK, BlockState
    <3> QED BY <1>1, <1>5, <3>1 DEF ConnectFails, Go, BlockState
  <2>4. /\ link' \in [Connections -> {"open", "dropped", "closed"}]
        /\ \A d \in Held : d \in Connections => link'[d] = link[d]
        /\ {d \in Connections : link'[d] # "closed"} \subseteq Held
    BY <1>2, <2>1 DEF Closing
  <2>5. Held \subseteq Connections /\ NoConnection \notin Held
    BY DEF Held, TypeOK
  <2>6. Len(idle') <= MaxIdle
    BY <2>2 DEF PoolConstants
  <2> QED BY <1>1, <1>2, <2>1, <2>2, <2>3, <2>4, <2>5, <2>6, BlockEnds
<1> QED BY <1>3, <1>4, <1>5 DEF Acquire

LEMMA ReleaseStep ==
    ASSUME PoolConstants, PoolInv, NEW r \in Requests, Release(r)
    PROVE  PoolInv'
<1> DEFINE c == request[r].on
           at == IF request[r].at = "stored" THEN "ok" ELSE "failed"
<1> USE DEF PoolInv, SessionsApart
<1>1. request \in [Requests -> BlockState] /\ request[r] \in BlockState
  BY DEF TypeOK, BlockState
<1>2. /\ request[r].at \in {"stored", "undone"} /\ BlockSound(r) /\ c # NoConnection
      /\ request[r].at = "stored" => Own(r) \in stored
      /\ request[r].at = "undone" /\ Own(r) \in stored => request[r].dropped
  BY DEF Release, At, BlockSound
<1>3. /\ request' = [request EXCEPT ![r] = [@ EXCEPT !.on = NoConnection, !.at = at]]
      /\ UNCHANGED <<path, writes, stored, breaks, shut>> /\ active' = active \ {c}
  BY DEF Release, Released, At
<1>4. /\ idle \in Seq(Connections) /\ IsInjective(idle) /\ Held \cap ToSet(idle) = {}
      /\ Len(idle) <= MaxIdle /\ active' \subseteq Connections
      /\ {d \in Connections : link[d] # "closed"} \subseteq ToSet(idle) \cup Held
      /\ link \in [Connections -> {"open", "dropped", "closed"}]
  BY <1>3 DEF TypeOK, OneUser
<1>5. c \in Connections /\ c \in Held
  BY <1>1, <1>2 DEF BlockState, Held
<1>6. at \in {"ok", "failed"} /\ (at = "ok" => Own(r) \in stored)
      /\ (at = "failed" /\ Own(r) \in stored => request[r].dropped)
  BY <1>2
<1> HIDE DEF at, PoolInv, SessionsApart
<1>7. CASE link[c] = "closed" \/ Len(idle) >= MaxIdle
  <2>1. link' = [link EXCEPT ![c] = "closed"] /\ UNCHANGED idle
    BY <1>7 DEF Release, Released
  <2>2. /\ link' \in [Connections -> {"open", "dropped", "closed"}]
        /\ \A d \in Held \ {c} : link'[d] = link[d]
        /\ {d \in Connections : link'[d] # "closed"} \subseteq ToSet(idle') \cup (Held \ {c})
        /\ ToSet(idle') \cap (Held \ {c}) = {}
    BY <1>4, <1>5, <2>1
  <2> QED BY <1>3, <1>4, <1>6, <2>1, <2>2, BlockEnds
<1>8. CASE ~(link[c] = "closed" \/ Len(idle) >= MaxIdle)
  <2>1. idle' = Append(idle, c) /\ UNCHANGED link
    BY <1>8 DEF Release, Released
  <2>2. c \notin ToSet(idle) /\ Len(idle) \in Nat
    BY <1>4, <1>5, LenProperties
  <2>3. /\ idle' \in Seq(Connections) /\ IsInjective(idle') /\ Len(idle') = Len(idle) + 1
        /\ ToSet(idle') = ToSet(idle) \cup {c}
    BY <1>4, <1>5, <2>1, <2>2, IdleAppend
  <2>4. /\ {d \in Connections : link'[d] # "closed"} \subseteq ToSet(idle') \cup (Held \ {c})
        /\ ToSet(idle') \cap (Held \ {c}) = {} /\ \A d \in Held \ {c} : link'[d] = link[d]
    BY <1>4, <1>5, <2>1, <2>3
  <2>5. Len(idle') <= MaxIdle
    BY <1>8, <2>2, <2>3 DEF PoolConstants
  <2> QED BY <1>3, <1>4, <1>6, <2>1, <2>3, <2>4, <2>5, BlockEnds
<1> QED BY <1>7, <1>8

\* Connections that die under their blocks: each block is told, and loses its writes.
LEMMA ConnectionsDie ==
    ASSUME PoolConstants, PoolInv, NEW dead \in SUBSET Connections,
           request' = [r \in Requests |-> IF request[r].on \in dead
                                            THEN [request[r] EXCEPT !.dropped = TRUE] ELSE request[r]],
           link' \in [Connections -> {"open", "dropped", "closed"}],
           \A d \in Connections \ dead : d \in Held => link'[d] = link[d] /\ writes'[d] = writes[d],
           \A d \in Connections : writes'[d] = writes[d] \/ writes'[d] = {},
           writes' \in [Connections -> SUBSET [by : Requests, schema : Requests \cup {Public}]],
           \A d \in dead : link'[d] # "open",
           idle' \in Seq(Connections), IsInjective(idle'), Len(idle') <= MaxIdle,
           ToSet(idle') \subseteq ToSet(idle),
           {d \in Connections : link'[d] # "closed"} \subseteq ToSet(idle') \cup Held,
           active' \subseteq Connections, shut' \in BOOLEAN, breaks' \in 0 .. MaxBreaks,
           UNCHANGED <<path, stored>>
    PROVE  PoolInv'
<1> USE DEF PoolInv, SessionsApart
<1>1. request \in [Requests -> BlockState] /\ \A r \in Requests : request[r] \in BlockState
  BY DEF TypeOK, BlockState
<1>2. /\ request' \in [Requests -> BlockState]
      /\ \A r \in Requests : /\ request'[r].at = request[r].at /\ request'[r].on = request[r].on
                              /\ request'[r].sees = request[r].sees
                              /\ request'[r].dropped = (request[r].dropped \/ request[r].on \in dead)
  BY <1>1 DEF BlockState
<1>3. Held' = Held
  BY <1>2 DEF Held
<1>4. \A r \in Requests : request[r].on # NoConnection => request[r].on \in Held /\ request[r].on \in Connections
  BY <1>1 DEF Held, BlockState
<1>5. TypeOK'
  BY <1>2 DEF TypeOK, BlockState
<1>6. OneUser'
  <2>1. /\ \A s, t \in Requests : s # t /\ request[s].on # NoConnection => request[s].on # request[t].on
        /\ Held \cap ToSet(idle) = {}
    BY DEF OneUser
  <2>2. \A s, t \in Requests : s # t /\ request'[s].on # NoConnection => request'[s].on # request'[t].on
    BY <1>2, <2>1
  <2>3. Held' \cap ToSet(idle') = {}
    BY <1>3, <2>1
  <2> QED BY <1>3, <2>2, <2>3 DEF OneUser
<1>7. FreshOnCheckout'
  <2> SUFFICES ASSUME NEW s \in Requests, request[s].on # NoConnection, link'[request[s].on] # "open"
               PROVE  request[s].dropped \/ request[s].on \in dead
    BY <1>2 DEF FreshOnCheckout
  <2>1. CASE request[s].on \notin dead
    <3>1. link'[request[s].on] = link[request[s].on]
      BY <1>4, <2>1
    <3> QED BY <3>1 DEF FreshOnCheckout
  <2> QED BY <2>1
<1>8. \A s \in Requests : BlockSound(s)'
  <2> SUFFICES ASSUME NEW s \in Requests
               PROVE  BlockSound(s)'
    OBVIOUS
  <2>1. BlockSound(s) /\ stored' = stored
    OBVIOUS
  <2>2. /\ request'[s].at = request[s].at /\ request'[s].on = request[s].on
        /\ request'[s].sees = request[s].sees /\ (request[s].dropped => request'[s].dropped)
    BY <1>2
  <2>3. request[s].on # NoConnection =>
          /\ writes[request[s].on] = {} => writes'[request[s].on] = {}
          /\ link'[request[s].on] = "open" =>
               link[request[s].on] = "open" /\ writes'[request[s].on] = writes[request[s].on]
    BY <1>4
  <2> HIDE DEF PoolInv, SessionsApart
  <2> QED BY <2>1, <2>2, <2>3 DEF BlockSound
<1>9. OwnSchema'
  <2> SUFFICES ASSUME NEW s \in Requests
               PROVE  /\ request'[s].at = "ok" => Own(s) \in stored
                      /\ request'[s].at = "failed" /\ Own(s) \in stored => request'[s].dropped
    BY DEF OwnSchema, At, Own
  <2>1. /\ request[s].at = "ok" => Own(s) \in stored
        /\ request[s].at = "failed" /\ Own(s) \in stored => request[s].dropped
    BY DEF OwnSchema, At, Own
  <2> QED BY <1>2, <2>1
<1> QED BY <1>5, <1>6, <1>7, <1>8, <1>9

LEMMA BreakStep ==
    ASSUME PoolConstants, PoolInv, NEW c \in Connections, Break(c)
    PROVE  PoolInv'
<1> DEFINE dead == {c}
<1>1. /\ idle \in Seq(Connections) /\ IsInjective(idle) /\ Len(idle) <= MaxIdle
      /\ {d \in Connections : link[d] # "closed"} \subseteq ToSet(idle) \cup Held
      /\ link \in [Connections -> {"open", "dropped", "closed"}]
      /\ writes \in [Connections -> SUBSET [by : Requests, schema : Requests \cup {Public}]]
      /\ active \subseteq Connections /\ shut \in BOOLEAN /\ breaks \in 0 .. MaxBreaks
  BY DEF PoolInv, SessionsApart, TypeOK, OneUser
<1>2. /\ link[c] = "open" /\ link' = [link EXCEPT ![c] = "dropped"] /\ writes' = [writes EXCEPT ![c] = {}]
      /\ breaks' = breaks + 1 /\ breaks < MaxBreaks /\ UNCHANGED <<idle, active, path, stored, shut>>
  BY DEF Break
<1>3. request' = [r \in Requests |-> IF request[r].on \in dead
                                       THEN [request[r] EXCEPT !.dropped = TRUE] ELSE request[r]]
  BY DEF Break
<1>4. breaks' \in 0 .. MaxBreaks
  BY <1>1, <1>2 DEF PoolConstants
<1>5. /\ link' \in [Connections -> {"open", "dropped", "closed"}]
      /\ writes' \in [Connections -> SUBSET [by : Requests, schema : Requests \cup {Public}]]
      /\ \A d \in Connections \ dead : link'[d] = link[d] /\ writes'[d] = writes[d]
      /\ \A d \in dead : link'[d] # "open" /\ writes'[d] = {}
      /\ {d \in Connections : link'[d] # "closed"} \subseteq ToSet(idle') \cup Held
  BY <1>1, <1>2
<1> HIDE DEF dead
<1>6. dead \in SUBSET Connections
  BY DEF dead
<1>7. \A d \in Connections : writes'[d] = writes[d] \/ writes'[d] = {}
  BY <1>5
<1> QED BY <1>1, <1>2, <1>3, <1>4, <1>5, <1>6, <1>7, ConnectionsDie

LEMMA ClosePoolStep ==
    ASSUME PoolConstants, PoolInv, ClosePool
    PROVE  PoolInv'
<1> DEFINE all == active \cup ToSet(idle)
<1>1. /\ {d \in Connections : link[d] # "closed"} \subseteq ToSet(idle) \cup Held
      /\ Held \cap ToSet(idle) = {} /\ breaks \in 0 .. MaxBreaks /\ active \subseteq Connections
      /\ link \in [Connections -> {"open", "dropped", "closed"}]
      /\ writes \in [Connections -> SUBSET [by : Requests, schema : Requests \cup {Public}]]
  BY DEF PoolInv, SessionsApart, TypeOK, OneUser
<1>2. /\ link' = [d \in Connections |-> IF d \in all THEN "closed" ELSE link[d]]
      /\ writes' = [d \in Connections |-> IF d \in all THEN {} ELSE writes[d]]
      /\ idle' = <<>> /\ active' = {} /\ shut' = TRUE /\ UNCHANGED <<path, stored, breaks>>
  BY DEF ClosePool, Closing
<1>3. request' = [r \in Requests |-> IF request[r].on \in active
                                       THEN [request[r] EXCEPT !.dropped = TRUE] ELSE request[r]]
  BY DEF ClosePool
<1>4. idle' \in Seq(Connections) /\ IsInjective(idle') /\ Len(idle') = 0 /\ ToSet(idle') = {}
  BY <1>2, EmptyIdle, Zenon
<1>5. Len(idle') <= MaxIdle /\ ToSet(idle') \subseteq ToSet(idle)
  BY <1>4 DEF PoolConstants
<1>6. /\ link' \in [Connections -> {"open", "dropped", "closed"}]
      /\ writes' \in [Connections -> SUBSET [by : Requests, schema : Requests \cup {Public}]]
      /\ \A d \in Connections \ active : d \in Held => link'[d] = link[d] /\ writes'[d] = writes[d]
      /\ \A d \in Connections : writes'[d] = writes[d] \/ writes'[d] = {}
      /\ \A d \in active : link'[d] # "open"
      /\ {d \in Connections : link'[d] # "closed"} \subseteq Held
  BY <1>1, <1>2
<1> QED BY <1>1, <1>2, <1>3, <1>4, <1>5, <1>6, ConnectionsDie

LEMMA NextPool ==
    ASSUME PoolConstants, PoolInv, [Next]_vars
    PROVE  PoolInv'
<1>1. CASE UNCHANGED vars
  BY <1>1 DEF vars, PoolInv, SessionsApart, TypeOK, OneUser, OwnSchema, FreshOnCheckout, BlockSound, Held, At
<1>2. CASE ClosePool
  BY <1>2, ClosePoolStep
<1>3. ASSUME NEW c \in Connections, Break(c)
      PROVE  PoolInv'
  BY <1>3, BreakStep
<1>4. ASSUME NEW r \in Requests, Work(r)
      PROVE  PoolInv'
  BY <1>4, AcquireStep, SetPathStep, ExecuteStep, CommitStep, CommitUnansweredStep, FailStep, ReleaseStep DEF Work
<1> QED BY <1>1, <1>2, <1>3, <1>4 DEF Next

\* Whatever connections the server drops and whenever the pool is closed, a session
\* serves one block at a time, what is stored was written by its own block into its
\* own schema, and no block is given a session that died in the pool
\* (_PostgresConnectionPool, _schema_connection).
THEOREM SessionsStayApart == PoolConstants => (Spec => []SessionsApart)
<1> SUFFICES ASSUME PoolConstants
             PROVE  Spec => []SessionsApart
  OBVIOUS
<1>1. Init => PoolInv
  BY InitPool
<1>2. PoolInv /\ [Next]_vars => PoolInv'
  BY NextPool
<1>3. PoolInv => SessionsApart
  BY DEF PoolInv
<1> QED BY <1>1, <1>2, <1>3, PTL DEF Spec
===============================================================================
