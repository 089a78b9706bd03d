----------------------------- MODULE ActivityChain ------------------------------
(***************************************************************************)
(* The tamper-evident activity log (python/portfolio/activity.py): every   *)
(* row hashes its own content and the hash of the row before it.  Appends  *)
(* and re-anchoring serialise on a lock held to the end of their           *)
(* transaction; a repair does not.                                         *)
(*                                                                         *)
(* A hash is modelled by what it was computed from, the sequence of the    *)
(* contents up to its row, so that two hashes are equal exactly when those *)
(* are.                                                                    *)
(***************************************************************************)
EXTENDS Integers, Sequences

CONSTANTS
    Requests,       \* the requests that can be in flight together
    Contents,       \* what an activity may say
    ExportKeys,     \* idempotency keys of client exports
    NoKey,
    AnchorKey,      \* CHAIN_REANCHOR
    AnchorContent,
    Nobody,         \* holder of a free lock
    MaxRows,        \* bound: rows of activity_log
    MaxEdits,       \* bound: rows edited by hand
    MaxCrashes      \* bound: requests that die in the middle

ASSUME ChainAssumption ==
    /\ NoKey \notin ExportKeys /\ AnchorKey \notin ExportKeys \cup {NoKey}
    /\ AnchorContent \notin Contents
    /\ Nobody \notin Requests
    /\ MaxRows \in Nat /\ MaxEdits \in Nat /\ MaxCrashes \in Nat

VARIABLES
    rows,           \* activity_log, in id order
    lock,           \* who holds the append serialisation
    req,            \* what each request is doing
    answer,         \* what the last administrative call returned
    written,        \* ghost: the content each row was written with,
                    \* or that an operator has vouched for
    edits, crashes

vars == <<rows, lock, req, answer, written, edits, crashes>>

AllContents == Contents \cup {AnchorContent}
Row == [content : AllContents, key : ExportKeys \cup {NoKey, AnchorKey},
        prev : Seq(AllContents), digest : Seq(AllContents), anchor : BOOLEAN]

Idle == [pc |-> "idle"]
Inserting == [pc : {"insert"}, content : Contents, key : ExportKeys \cup {NoKey}, prev : Seq(AllContents)]
Repairing == [pc : {"repair"}, from : Nat, upto : Nat]
Anchoring == [pc : {"anchor"}]

TypeOK ==
    /\ rows \in Seq(Row) /\ written \in Seq(AllContents) /\ Len(written) = Len(rows)
    /\ lock \in Requests \cup {Nobody}
    /\ req \in [Requests -> {Idle} \cup Inserting \cup Repairing \cup Anchoring]
    /\ answer \in {"none", "VERIFIED", "VERIFIED_FROM_ANCHOR", "BROKEN"}
    /\ edits \in 0 .. MaxEdits /\ crashes \in 0 .. MaxCrashes

-------------------------------------------------------------------------------
\* verify_activity_chain: from the first anchor when there is one.

Hash(prev, content) == Append(prev, content)
TailHash(log) == IF log = <<>> THEN <<>> ELSE log[Len(log)].digest

Anchors(log) == {i \in DOMAIN log : log[i].anchor}
IsFirst(log, i) == IF Anchors(log) = {} THEN i = 1
                   ELSE log[i].anchor /\ \A j \in Anchors(log) : i <= j
Verified(log) == {i \in DOMAIN log : \A j \in DOMAIN log : IsFirst(log, j) => j <= i}

PrevOf(log, i) == IF IsFirst(log, i) THEN <<>> ELSE log[i - 1].digest

Chained(log, i) ==
    /\ log[i].prev = PrevOf(log, i)
    /\ log[i].digest = Hash(PrevOf(log, i), log[i].content)

Intact(log) == \A i \in Verified(log) : Chained(log, i)

Status(log) ==
    IF ~Intact(log) THEN "BROKEN"
    ELSE IF Anchors(log) = {} THEN "VERIFIED" ELSE "VERIFIED_FROM_ANCHOR"

Init ==
    /\ rows = <<>> /\ written = <<>>
    /\ lock = Nobody
    /\ req = [r \in Requests |-> Idle]
    /\ answer = "none"
    /\ edits = 0 /\ crashes = 0

Goto(r, state) == req' = [req EXCEPT ![r] = state]
HasKey(k) == \E i \in DOMAIN rows : rows[i].key = k

-------------------------------------------------------------------------------
\* append_activity: lock, idempotency check, tail; then insert and commit.

BeginAppend_Unlocked(r, c, k) ==
    /\ req[r] = Idle
    /\ Len(rows) < MaxRows
    /\ k = NoKey \/ ~HasKey(k)
    /\ Goto(r, [pc |-> "insert", content |-> c, key |-> k, prev |-> TailHash(rows)])
    /\ UNCHANGED <<rows, lock, answer, written, edits, crashes>>

BeginAppend(r, c, k) ==
    /\ req[r] = Idle
    /\ lock = Nobody
    /\ Len(rows) < MaxRows
    /\ k = NoKey \/ ~HasKey(k)
    /\ lock' = r
    /\ Goto(r, [pc |-> "insert", content |-> c, key |-> k, prev |-> TailHash(rows)])
    /\ UNCHANGED <<rows, answer, written, edits, crashes>>

CommitAppend(r) ==
    /\ req[r].pc = "insert"
    /\ rows' = Append(rows, [content |-> req[r].content, key |-> req[r].key, prev |-> req[r].prev,
                             digest |-> Hash(req[r].prev, req[r].content), anchor |-> FALSE])
    /\ written' = Append(written, req[r].content)
    /\ lock' = Nobody
    /\ Goto(r, Idle)
    /\ UNCHANGED <<answer, edits, crashes>>

-------------------------------------------------------------------------------
\* reanchor_activity_chain: verify, then insert the anchor under the lock.

BeginReanchor(r) ==
    /\ req[r] = Idle
    /\ answer' = Status(rows)
    /\ IF Status(rows) = "BROKEN" THEN Goto(r, [pc |-> "anchor"]) ELSE UNCHANGED req
    /\ UNCHANGED <<rows, lock, written, edits, crashes>>

AnchorRow_Linked == [content |-> AnchorContent, key |-> AnchorKey, prev |-> TailHash(rows),
                     digest |-> Hash(TailHash(rows), AnchorContent), anchor |-> TRUE]
AnchorRow == [content |-> AnchorContent, key |-> AnchorKey, prev |-> <<>>,
              digest |-> Hash(<<>>, AnchorContent), anchor |-> TRUE]

\* The key CHAIN_REANCHOR lets a log be anchored once.
CommitReanchor(r) ==
    /\ req[r].pc = "anchor"
    /\ lock = Nobody
    /\ IF HasKey(AnchorKey) THEN UNCHANGED <<rows, written>>
       ELSE /\ Len(rows) < MaxRows
            /\ rows' = Append(rows, AnchorRow)
            /\ written' = Append(written, AnchorContent)
    /\ answer' = Status(rows')
    /\ Goto(r, Idle)
    /\ UNCHANGED <<lock, edits, crashes>>

-------------------------------------------------------------------------------
\* repair_activity_chain: reads the rows, then rehashes those it read.

BeginRepair(r, from) ==
    /\ req[r] = Idle
    /\ rows # <<>>
    /\ from \in DOMAIN rows
    /\ Goto(r, [pc |-> "repair", from |-> from, upto |-> Len(rows)])
    /\ UNCHANGED <<rows, lock, answer, written, edits, crashes>>

RehashedOver(base, from, upto) ==
    LET said    == [i \in DOMAIN rows |-> rows[i].content]
        hash(i) == base \o SubSeq(said, from, i)
    IN  [i \in DOMAIN rows |-> IF i \in from .. upto
                               THEN [rows[i] EXCEPT !.prev = hash(i - 1), !.digest = hash(i)]
                               ELSE rows[i]]

Rehashed_FromNothing(from, upto) == RehashedOver(<<>>, from, upto)
Rehashed(from, upto) == RehashedOver(IF from = 1 THEN <<>> ELSE rows[from - 1].digest, from, upto)

\* Its updates wait for a writer's transaction, as any write does.  The operator
\* who asks for them vouches for the content they find.
CommitRepair(r) ==
    /\ req[r].pc = "repair"
    /\ lock = Nobody
    /\ rows' = Rehashed(req[r].from, req[r].upto)
    /\ written' = [i \in DOMAIN rows |-> IF i \in req[r].from .. req[r].upto
                                        THEN rows[i].content ELSE written[i]]
    /\ answer' = Status(rows')
    /\ Goto(r, Idle)
    /\ UNCHANGED <<lock, edits, crashes>>

-------------------------------------------------------------------------------
\* Somebody edits a row of the table by hand.
EditByHand(i, c) ==
    /\ edits < MaxEdits
    /\ c # rows[i].content
    /\ rows' = [rows EXCEPT ![i].content = c]
    /\ edits' = edits + 1
    /\ UNCHANGED <<lock, req, answer, written, crashes>>

\* The process dies; the database rolls its transaction back and frees the lock.
Crash(r) ==
    /\ req[r] # Idle
    /\ crashes < MaxCrashes
    /\ crashes' = crashes + 1
    /\ lock' = IF lock = r THEN Nobody ELSE lock
    /\ Goto(r, Idle)
    /\ UNCHANGED <<rows, answer, written, edits>>

Work(r) ==
    \/ \E c \in Contents, k \in ExportKeys \cup {NoKey} : BeginAppend(r, c, k)
    \/ CommitAppend(r)
    \/ BeginReanchor(r) \/ CommitReanchor(r)
    \/ Crash(r)

Repair(r) == (\E from \in DOMAIN rows : BeginRepair(r, from)) \/ CommitRepair(r)

Edit == \E i \in DOMAIN rows, c \in Contents : EditByHand(i, c)

\* The behaviours the lock protects.  A repair takes no lock and chains an append
\* that overtakes it to a hash it has replaced: Records adds it for one client, a call
\* at a time.
Next == Edit \/ \E r \in Requests : Work(r)
Spec == Init /\ [][Next]_vars

\* No request is in flight.
Quiet == \A r \in Requests : req[r] = Idle

-------------------------------------------------------------------------------
\* However many threads and processes append at once, and whichever of them die, a
\* log nobody has edited verifies, and is never anchored (activity.py: "each new
\* record chains to the real tail").
ChainVerifies == Status(rows) = "VERIFIED"
UneditedVerifies == edits = 0 => ChainVerifies

\* No content that differs from what was written goes unnoticed, except in the
\* legacy segment before an anchor.
EditsNoticed ==
    (\E i \in Verified(rows) : rows[i].content # written[i]) => Status(rows) = "BROKEN"

\* The verdict of the chain is right: it is not broken by the writers, and it is by
\* an edit of what it vouches for.
VerdictRight == UneditedVerifies /\ EditsNoticed

\* After a re-anchor the new segment verifies, whatever the legacy one holds and
\* whoever was appending meanwhile.
NewSegmentVerifies ==
    /\ Anchors(rows) # {}
    /\ \A i \in Verified(rows) : rows[i].content = written[i]
    => Status(rows) = "VERIFIED_FROM_ANCHOR"

\* A repair of a segment leaves a log that verifies as far as it has rehashed it:
\* nothing is broken from the first row it rehashed on, unless a row before it was.
RepairRebases ==
    [][\A r \in Requests : CommitRepair(r) /\ Anchors(rows) = {} =>
          /\ req[r].from = 1 => Status(rows') = "VERIFIED"
          /\ \A i \in DOMAIN rows' : i >= req[r].from => Chained(rows', i)]_vars
===============================================================================
