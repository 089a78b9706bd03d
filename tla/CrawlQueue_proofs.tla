------------------------- MODULE CrawlQueue_proofs -------------------------
(***************************************************************************)
(* Theorems about the crawl queue, for any numbers of symbols, documents,  *)
(* workers, enqueues, direct crawls, crashes and syncs.                    *)
(***************************************************************************)
EXTENDS CrawlQueue, FiniteSetTheorems, SequenceTheorems, TLAPS

Job == [symbol : Symbol, status : JobStatus]
Fetched == {"SUCCESS", "NOT_AVAILABLE"}

(* What careful operators' workers keep true at every step of a crawl: each  *)
(* has a RUNNING job of its own for the symbol it crawls, still to be        *)
(* fetched is only what is not there, and what is neither there nor still to *)
(* be fetched has failed.                                                    *)
WorkerSound(w) ==
  LET c == crawler[w] IN
  /\ c.pc = "idle" => c.job = 0
  /\ c.pc # "idle" => /\ c.job \in Jobs /\ c.job \notin aged
                      /\ queue[c.job] = [symbol |-> c.symbol, status |-> "RUNNING"]
                      /\ c.mode = "new"
  /\ c.pc = "fetch" => \A d \in Doc :
       IF d \in c.todo THEN documents[c.symbol][d] \notin Fetched
                       ELSE c.failed \/ documents[c.symbol][d] \in Fetched

CarefulInv ==
  careful =>
    /\ clearing = "no"
    /\ \A d \in Direct : crawler[d].pc = "idle"
    /\ \A w \in Worker : WorkerSound(w)
    /\ \A v, w \in Worker : v # w /\ crawler[v].pc # "idle" =>
                              crawler[v].job # crawler[w].job

JobsExist == \A c \in Crawler : crawler[c].job \in 0 .. Len(queue)

CrawlInv == TypeOK /\ JobsExist /\ OneActiveJob /\ CarefulInv

-----------------------------------------------------------------------------
(* A queue after a step that adds no job: symbols stay, and nothing that was *)
(* not active becomes active.                                                *)
Settles(p, q) ==
  /\ q \in Seq(Job) /\ Len(q) = Len(p)
  /\ \A j \in 1 .. Len(p) :
       /\ q[j].symbol = p[j].symbol
       /\ q[j].status \in ActiveStatus => p[j].status \in ActiveStatus

(* A map over the rows of a queue is a queue. *)
LEMMA MappedRows ==
  ASSUME NEW p \in Seq(Job), NEW f \in [1 .. Len(p) -> Job]
  PROVE  f \in Seq(Job) /\ Len(f) = Len(p)
<1>1. Len(p) \in Nat
  BY LenProperties
<1>2. f \in Seq(Job)
  BY <1>1
<1> QED BY <1>1, <1>2

(* Finishing a job changes the status of that job, if it is RUNNING. *)
LEMMA FinishedRows ==
  ASSUME NEW q \in Seq(Job), NEW j \in 0 .. Len(q), NEW status \in {"COMPLETED", "FAILED"}
  PROVE  LET f == FinishJob(q, j, status) IN
         /\ Settles(q, f)
         /\ \A i \in 1 .. Len(q) :
              \/ f[i] = q[i]
              \/ i = j /\ q[i].status = "RUNNING" /\ f[i].status = status
<1> DEFINE f == FinishJob(q, j, status)
<1>1. Len(q) \in Nat /\ \A i \in 1 .. Len(q) : q[i] \in Job
  BY LenProperties, ElementOfSeq
<1>2. CASE j # 0 /\ q[j].status = "RUNNING"
  <2>1. f = [q EXCEPT ![j] = [q[j] EXCEPT !.status = status]]
    BY <1>2 DEF FinishJob
  <2>2. [q[j] EXCEPT !.status = status] \in Job
    BY <1>1, <1>2 DEF Job, JobStatus, ActiveStatus
  <2>3. f \in Seq(Job) /\ Len(f) = Len(q)
    BY <1>2, <2>1, <2>2, ExceptSeq
  <2>4. \A i \in 1 .. Len(q) : f[i] = IF i = j THEN [q[j] EXCEPT !.status = status] ELSE q[i]
    BY <1>1, <2>1
  <2> QED BY <1>1, <1>2, <2>2, <2>3, <2>4 DEF Settles, Job, ActiveStatus
<1>3. CASE ~(j # 0 /\ q[j].status = "RUNNING")
  BY <1>1, <1>3 DEF FinishJob, Settles
<1> QED BY <1>2, <1>3

(* An enqueue adds QUEUED jobs of different symbols that have no active job. *)
LEMMA EnqueuedRows ==
  ASSUME TypeOK, NEW a \in Admin, EnqueueInsert(a)
  PROVE  /\ queue' \in Seq(Job) /\ Len(queue') \in Len(queue) .. MaxJobs
         /\ \A j \in 1 .. Len(queue) : queue'[j] = queue[j]
         /\ \A j \in Len(queue) + 1 .. Len(queue') :
              /\ queue'[j].status = "QUEUED"
              /\ ActiveJobs(queue, queue'[j].symbol) = {}
              /\ \A i \in Len(queue) + 1 .. Len(queue') :
                   queue'[i].symbol = queue'[j].symbol => i = j
<1> DEFINE new == Unclaimed(wanted[a])
           n   == Cardinality(new)
<1>1. new \subseteq Symbol /\ \A s \in new : ActiveJobs(queue, s) = {}
  BY DEF TypeOK, Unclaimed
<1>2. n \in Nat
  BY <1>1, QueueConstants, FS_Subset, FS_CardinalityType
<1>3. PICK order \in SetToSeqs(new) :
        /\ Len(queue) + Len(order) <= MaxJobs
        /\ queue' = queue \o [i \in DOMAIN order |-> [symbol |-> order[i], status |-> "QUEUED"]]
  BY DEF EnqueueInsert
<1>4. order \in [1 .. n -> new] /\ \A i, j \in 1 .. n : order[i] = order[j] => i = j
  BY <1>3 DEF SetToSeqs
<1> HIDE DEF new, n
<1> DEFINE rows == [i \in 1 .. n |-> [symbol |-> order[i], status |-> "QUEUED"]]
<1>5. rows \in [1 .. n -> Job]
  BY <1>1, <1>4 DEF Job, JobStatus, ActiveStatus
<1>6. order \in Seq(new) /\ Len(order) = n /\ rows \in Seq(Job) /\ Len(rows) = n
  BY <1>2, <1>4, <1>5
<1>7. queue \in Seq(Job) /\ Len(queue) \in Nat /\ MaxJobs \in Nat
  BY QueueConstants, LenProperties DEF TypeOK, Job
<1>8. queue' = queue \o rows
  BY <1>3, <1>4
<1>9. /\ queue' \in Seq(Job) /\ Len(queue') = Len(queue) + n
      /\ \A i \in 1 .. Len(queue) + n :
           queue'[i] = IF i <= Len(queue) THEN queue[i] ELSE rows[i - Len(queue)]
  <2> HIDE DEF rows
  <2> QED BY <1>6, <1>7, <1>8, ConcatProperties
<1>10. \A j \in Len(queue) + 1 .. Len(queue') :
         /\ j - Len(queue) \in 1 .. n
         /\ queue'[j].symbol = order[j - Len(queue)] /\ queue'[j].status = "QUEUED"
  <2> SUFFICES ASSUME NEW j \in Len(queue) + 1 .. Len(queue')
               PROVE  /\ j - Len(queue) \in 1 .. n
                      /\ queue'[j].symbol = order[j - Len(queue)] /\ queue'[j].status = "QUEUED"
    OBVIOUS
  <2>1. j - Len(queue) \in 1 .. n /\ j \in 1 .. Len(queue) + n /\ ~(j <= Len(queue))
    BY <1>2, <1>7, <1>9
  <2>2. queue'[j] = rows[j - Len(queue)]
    BY <1>9, <2>1
  <2> QED BY <2>1, <2>2
<1>11. Len(queue') \in Len(queue) .. MaxJobs
  BY <1>2, <1>3, <1>6, <1>7, <1>9
<1>12. \A j \in Len(queue) + 1 .. Len(queue') : ActiveJobs(queue, queue'[j].symbol) = {}
  <2> SUFFICES ASSUME NEW j \in Len(queue) + 1 .. Len(queue')
               PROVE  ActiveJobs(queue, queue'[j].symbol) = {}
    OBVIOUS
  <2>1. order[j - Len(queue)] \in new
    BY <1>4, <1>10
  <2> QED BY <1>1, <1>10, <2>1
<1>13. \A i, j \in Len(queue) + 1 .. Len(queue') : queue'[i].symbol = queue'[j].symbol => i = j
  <2> SUFFICES ASSUME NEW i \in Len(queue) + 1 .. Len(queue'), NEW j \in Len(queue) + 1 .. Len(queue'),
                      queue'[i].symbol = queue'[j].symbol
               PROVE  i = j
    OBVIOUS
  <2>1. order[i - Len(queue)] = order[j - Len(queue)]
    BY <1>10
  <2>2. i - Len(queue) = j - Len(queue)
    BY <1>4, <1>10, <2>1
  <2> QED BY <1>7, <1>9, <2>2
<1>14. \A j \in 1 .. Len(queue) : queue'[j] = queue[j]
  <2> SUFFICES ASSUME NEW j \in 1 .. Len(queue) PROVE queue'[j] = queue[j]
    OBVIOUS
  <2>1. j \in 1 .. Len(queue) + n /\ j <= Len(queue)
    BY <1>2, <1>7
  <2> HIDE DEF rows
  <2> QED BY <1>9, <2>1
<1>15. queue' \in Seq(Job)
  BY <1>9
<1> HIDE DEF rows
<1> QED BY <1>10, <1>11, <1>12, <1>13, <1>14, <1>15

(* A claim: stale jobs are queued again, and the job that is taken was QUEUED *)
(* or stale, as was each that is completed for having nothing to fetch.       *)
LEMMA ClaimedRows ==
  ASSUME TypeOK, NEW w \in Worker, Claim(w)
  PROVE  /\ Settles(queue, queue')
         /\ aged' = {j \in aged : queue[j].status # "RUNNING"}
         /\ \A j \in Jobs :
              LET free == queue[j].status = "QUEUED" \/ (queue[j].status = "RUNNING" /\ j \in aged)
              IN  /\ ~free => queue'[j] = queue[j]
                  /\ free /\ queue'[j].status = "COMPLETED" => ~NeedsCrawl(queue[j].symbol)
         /\ \/ UNCHANGED crawler
            \/ \E j \in Jobs, mode \in WorkerMode :
                 /\ queue[j].status = "QUEUED" \/ (queue[j].status = "RUNNING" /\ j \in aged)
                 /\ queue'[j] = [symbol |-> queue[j].symbol, status |-> "RUNNING"]
                 /\ crawler' = [crawler EXCEPT ![w] = Starting(j, queue[j].symbol, mode)]
<1> DEFINE r == Requeued(queue)
           q == Filtered(r)
           Free(j) == queue[j].status = "QUEUED" \/ (queue[j].status = "RUNNING" /\ j \in aged)
           listed == {j \in DOMAIN q : q[j].status = "QUEUED" /\ exchange[q[j].symbol] \in WorkerExchange}
           needing == {j \in listed : NeedsCrawl(q[j].symbol)}
           next == {j \in needing : \A i \in needing \ {j} : Before(q, j, i)}
           skipped == {i \in listed \ needing : \A j \in next : Before(q, i, j)}
<1>1. /\ queue \in Seq(Job) /\ Len(queue) \in Nat /\ DOMAIN queue = Jobs /\ Jobs = 1 .. Len(queue)
      /\ \A j \in Jobs : queue[j] \in Job /\ queue[j].symbol \in Symbol /\ queue[j].status \in JobStatus
  <2>1. queue \in Seq(Job)
    BY DEF TypeOK, Job
  <2>2. Len(queue) \in Nat /\ DOMAIN queue = Jobs /\ Jobs = 1 .. Len(queue)
    BY <2>1, LenProperties DEF Jobs
  <2>3. \A j \in Jobs : queue[j] \in Job
    BY <2>1, <2>2, ElementOfSeq
  <2>4. \A j \in Jobs : queue[j].symbol \in Symbol /\ queue[j].status \in JobStatus
    BY <2>3 DEF Job
  <2> QED BY <2>1, <2>2, <2>3, <2>4
<1>2. DOMAIN r = Jobs /\ \A j \in Jobs :
        r[j] = [symbol |-> queue[j].symbol, status |-> IF Free(j) THEN "QUEUED" ELSE queue[j].status]
  BY <1>1 DEF Requeued, Job
<1>3. DOMAIN q = Jobs /\ \A j \in Jobs :
        q[j] = [symbol |-> queue[j].symbol,
                status |-> IF ~Free(j) THEN queue[j].status
                           ELSE IF active[queue[j].symbol] THEN "QUEUED" ELSE "FAILED"]
  BY <1>1, <1>2 DEF Filtered, Job
<1>4. \A j \in Jobs : q[j].status = "QUEUED" => Free(j)
  BY <1>3
<1>5. /\ queue' = [j \in DOMAIN q |-> CASE j \in next    -> [q[j] EXCEPT !.status = "RUNNING"]
                                        [] j \in skipped -> [q[j] EXCEPT !.status = "COMPLETED"]
                                        [] OTHER         -> q[j]]
      /\ IF next = {} THEN UNCHANGED crawler
         ELSE \E j \in next, mode \in WorkerMode :
                crawler' = [crawler EXCEPT ![w] = Starting(j, q[j].symbol, mode)]
      /\ aged' = {j \in aged : queue[j].status # "RUNNING"}
  BY Zenon DEF Claim
<1> HIDE DEF r, q
<1>6. /\ next \subseteq Jobs /\ skipped \subseteq Jobs /\ next \cap skipped = {}
      /\ \A j \in next \cup skipped : Free(j)
      /\ \A j \in skipped : ~NeedsCrawl(queue[j].symbol)
  BY <1>3, <1>4
<1> HIDE DEF listed, needing, next, skipped
<1> DEFINE Status(j) == IF j \in next THEN "RUNNING" ELSE IF j \in skipped THEN "COMPLETED" ELSE q[j].status
<1>7. \A j \in Jobs : /\ queue'[j] = [symbol |-> queue[j].symbol, status |-> Status(j)]
                      /\ queue'[j].symbol = queue[j].symbol /\ queue'[j].status = Status(j)
  <2> SUFFICES ASSUME NEW j \in Jobs
               PROVE  queue'[j] = [symbol |-> queue[j].symbol, status |-> Status(j)]
    OBVIOUS
  <2>1. queue'[j] = CASE j \in next    -> [q[j] EXCEPT !.status = "RUNNING"]
                      [] j \in skipped -> [q[j] EXCEPT !.status = "COMPLETED"]
                      [] OTHER         -> q[j]
    BY <1>3, <1>5
  <2>2. q[j] = [symbol |-> queue[j].symbol, status |-> q[j].status]
    BY <1>3
  <2>3. ~(j \in next /\ j \in skipped)
    BY <1>6
  <2> QED BY <2>1, <2>2, <2>3
<1>8. \A j \in Jobs : queue'[j] \in Job
  <2> SUFFICES ASSUME NEW j \in Jobs PROVE queue'[j] \in Job
    OBVIOUS
  <2>1. q[j].status \in {queue[j].status, "QUEUED", "FAILED"}
    BY <1>3
  <2>2. Status(j) \in JobStatus
    BY <1>1, <2>1 DEF JobStatus, ActiveStatus
  <2>3. queue'[j] = [symbol |-> queue[j].symbol, status |-> Status(j)]
    BY <1>7
  <2> QED BY <1>1, <2>2, <2>3 DEF Job
<1>9. queue' \in Seq(Job) /\ Len(queue') = Len(queue)
  <2>1. queue' \in [1 .. Len(queue) -> Job]
    BY <1>1, <1>3, <1>5, <1>8
  <2> QED BY <1>1, <2>1, MappedRows
<1>10. Settles(queue, queue')
  <2>1. ASSUME NEW j \in Jobs
        PROVE  /\ queue'[j].symbol = queue[j].symbol
               /\ queue'[j].status \in ActiveStatus => queue[j].status \in ActiveStatus
    <3>1. q[j].status \in ActiveStatus => queue[j].status \in ActiveStatus
      BY <1>3 DEF ActiveStatus
    <3>2. j \in next => queue[j].status \in ActiveStatus
      BY <1>6 DEF ActiveStatus
    <3>3. queue'[j].symbol = queue[j].symbol
      BY <1>7
    <3>4. queue'[j].status = Status(j)
      BY <1>7
    <3> QED BY <3>1, <3>2, <3>3, <3>4 DEF ActiveStatus
  <2> QED BY <1>1, <1>9, <2>1 DEF Settles
<1>11. \A j \in Jobs : /\ ~Free(j) => queue'[j] = queue[j]
                       /\ Free(j) /\ queue'[j].status = "COMPLETED" => ~NeedsCrawl(queue[j].symbol)
  <2> SUFFICES ASSUME NEW j \in Jobs
               PROVE  /\ ~Free(j) => queue'[j] = queue[j]
                      /\ Free(j) /\ queue'[j].status = "COMPLETED" => ~NeedsCrawl(queue[j].symbol)
    OBVIOUS
  <2>1. queue[j] = [symbol |-> queue[j].symbol, status |-> queue[j].status]
    BY <1>1 DEF Job
  <2>2. ~Free(j) => j \notin next \cup skipped /\ q[j].status = queue[j].status
    BY <1>3, <1>6
  <2>3. ~Free(j) => queue'[j] = queue[j]
    BY <1>7, <2>1, <2>2
  <2>4. Free(j) => q[j].status \in {"QUEUED", "FAILED"}
    BY <1>3
  <2>5. Free(j) /\ queue'[j].status = "COMPLETED" => j \in skipped
    <3>1. queue'[j].status = Status(j)
      BY <1>7
    <3> QED BY <2>4, <3>1
  <2> QED BY <1>6, <2>3, <2>5
<1>12. \/ UNCHANGED crawler
       \/ \E j \in Jobs, mode \in WorkerMode :
            /\ Free(j)
            /\ queue'[j] = [symbol |-> queue[j].symbol, status |-> "RUNNING"]
            /\ crawler' = [crawler EXCEPT ![w] = Starting(j, queue[j].symbol, mode)]
  <2>1. CASE next = {}
    BY <1>5, <2>1
  <2>2. CASE next # {}
    <3>1. PICK j \in next, mode \in WorkerMode :
            crawler' = [crawler EXCEPT ![w] = Starting(j, q[j].symbol, mode)]
      BY <1>5, <2>2
    <3>2. j \in Jobs /\ Free(j) /\ q[j].symbol = queue[j].symbol
      BY <1>3, <1>6
    <3>3. queue'[j] = [symbol |-> queue[j].symbol, status |-> "RUNNING"]
      BY <1>7, <3>2
    <3> QED BY <3>1, <3>2, <3>3
  <2> QED BY <2>1, <2>2
<1> QED BY <1>5, <1>10, <1>11, <1>12

LEMMA Rows ==
  ASSUME TypeOK
  PROVE  /\ queue \in Seq(Job) /\ Len(queue) \in 0 .. MaxJobs /\ MaxJobs \in Nat
         /\ DOMAIN queue = Jobs /\ Jobs = 1 .. Len(queue)
         /\ \A j \in Jobs : queue[j] \in Job /\ queue[j].symbol \in Symbol /\ queue[j].status \in JobStatus
<1>1. queue \in Seq(Job) /\ Len(queue) <= MaxJobs
  BY DEF TypeOK, Job
<1>2. Len(queue) \in Nat /\ DOMAIN queue = Jobs /\ Jobs = 1 .. Len(queue)
  BY <1>1, LenProperties DEF Jobs
<1>3. \A j \in Jobs : queue[j] \in Job
  BY <1>1, <1>2, ElementOfSeq
<1>4. \A j \in Jobs : queue[j].symbol \in Symbol /\ queue[j].status \in JobStatus
  BY <1>3 DEF Job
<1>5. MaxJobs \in Nat
  BY QueueConstants
<1> QED BY <1>1, <1>2, <1>3, <1>4, <1>5

(* The end of a crawl finishes its own job, if that is still RUNNING. *)
LEMMA LeftRows ==
  ASSUME TypeOK, NEW c \in Crawler, NEW status \in {"COMPLETED", "FAILED"}, Leave(c, status),
         crawler[c].job \in 0 .. Len(queue)
  PROVE  /\ Settles(queue, queue')
         /\ aged' \subseteq aged
         /\ \A j \in Jobs :
              \/ queue'[j] = queue[j]
              \/ /\ j = crawler[c].job /\ j \notin aged'
                 /\ queue[j].status = "RUNNING" /\ queue'[j].status = status
<1>1. queue' = FinishJob(queue, crawler[c].job, status)
  BY DEF Leave
<1>2. queue \in Seq(Job) /\ Jobs = 1 .. Len(queue)
  BY Rows
<1>3. /\ Settles(queue, queue')
      /\ \A j \in Jobs : \/ queue'[j] = queue[j]
                         \/ /\ j = crawler[c].job
                            /\ queue[j].status = "RUNNING" /\ queue'[j].status = status
  BY <1>1, <1>2, FinishedRows
<1>4. queue' = queue \/ aged' = aged \ {crawler[c].job}
  BY DEF Leave
<1>5. aged' \subseteq aged
  BY DEF Leave
<1> QED BY <1>3, <1>4, <1>5

(* Hiding the securities that are no longer listed. *)
LEMMA DeactivatedRows ==
  ASSUME TypeOK, NEW L \in SUBSET Symbol, DeactivateNotIn(L)
  PROVE  /\ Settles(queue, queue')
         /\ \A j \in Jobs : queue'[j] = queue[j] \/ (queue[j].status = "QUEUED" /\ queue'[j].status = "FAILED")
<1> DEFINE gone(j) == queue[j].status = "QUEUED" /\ queue[j].symbol \notin L
<1>1. queue' = [j \in Jobs |-> IF gone(j) THEN [queue[j] EXCEPT !.status = "FAILED"] ELSE queue[j]]
  BY DEF DeactivateNotIn
<1>2. /\ queue \in Seq(Job) /\ Jobs = 1 .. Len(queue)
      /\ \A j \in Jobs : queue[j] \in Job /\ queue[j].symbol \in Symbol /\ queue[j].status \in JobStatus
  BY Rows
<1>3. ASSUME NEW j \in Jobs
      PROVE  /\ queue'[j] \in Job /\ queue'[j].symbol = queue[j].symbol
             /\ queue'[j] = queue[j] \/ (queue[j].status = "QUEUED" /\ queue'[j].status = "FAILED")
  <2>1. queue'[j] = IF gone(j) THEN [queue[j] EXCEPT !.status = "FAILED"] ELSE queue[j]
    BY <1>1
  <2>2. queue[j] = [symbol |-> queue[j].symbol, status |-> queue[j].status]
    BY <1>2 DEF Job
  <2> QED BY <1>2, <2>1, <2>2 DEF Job, JobStatus, ActiveStatus
<1>4. queue' \in Seq(Job) /\ Len(queue') = Len(queue)
  <2>1. queue' \in [1 .. Len(queue) -> Job]
    BY <1>1, <1>2, <1>3
  <2> QED BY <1>2, <2>1, MappedRows
<1>5. Settles(queue, queue')
  BY <1>2, <1>3, <1>4 DEF Settles, ActiveStatus
<1> QED BY <1>3, <1>5

(* Clearing the queue. *)
LEMMA ClearedRows ==
  ASSUME TypeOK, ClearDelete
  PROVE  Settles(queue, queue') /\ \A j \in Jobs : queue'[j].status = "DELETED"
<1>1. queue' = [j \in Jobs |-> [queue[j] EXCEPT !.status = "DELETED"]]
  BY DEF ClearDelete
<1>2. /\ queue \in Seq(Job) /\ Jobs = 1 .. Len(queue)
      /\ \A j \in Jobs : queue[j] \in Job /\ queue[j].symbol \in Symbol /\ queue[j].status \in JobStatus
  BY Rows
<1>3. ASSUME NEW j \in Jobs
      PROVE  queue'[j] \in Job /\ queue'[j].symbol = queue[j].symbol /\ queue'[j].status = "DELETED"
  <2>1. queue'[j] = [queue[j] EXCEPT !.status = "DELETED"]
    BY <1>1
  <2>2. queue[j] = [symbol |-> queue[j].symbol, status |-> queue[j].status]
    BY <1>2 DEF Job
  <2> QED BY <1>2, <2>1, <2>2 DEF Job, JobStatus, ActiveStatus
<1>4. queue' \in Seq(Job) /\ Len(queue') = Len(queue)
  <2>1. queue' \in [1 .. Len(queue) -> Job]
    BY <1>1, <1>2, <1>3
  <2> QED BY <1>2, <2>1, MappedRows
<1>5. Settles(queue, queue')
  BY <1>2, <1>3, <1>4 DEF Settles, ActiveStatus
<1> QED BY <1>3, <1>5

(* The parts of the type invariant. *)
Crawls == [pc : {"idle", "begin", "read", "fetch"}, job : 0 .. MaxJobs, symbol : Symbol \union {None},
           mode : Mode, todo : SUBSET Doc, failed : BOOLEAN]
Securities == /\ exchange \in [Symbol -> Exchange] /\ active \in [Symbol -> BOOLEAN]
              /\ documents \in [Symbol -> [Doc -> DocStatus]]
QueueTyped == queue \in Seq(Job) /\ Len(queue) <= MaxJobs
AgedTyped == aged \subseteq {j \in Jobs : queue[j].status \in {"RUNNING", "DELETED"}}
CrawlersTyped == crawler \in [Crawler -> Crawls]
RestTyped == /\ wanted \in [Admin -> SUBSET Symbol] /\ clearing \in {"no", "queue", "incomplete"}
             /\ crashes \in 0 .. MaxCrashes /\ syncs \in 0 .. MaxSyncs /\ careful \in BOOLEAN

LEMMA TypeParts == TypeOK <=> Securities /\ QueueTyped /\ AgedTyped /\ CrawlersTyped /\ RestTyped
BY DEF TypeOK, Securities, QueueTyped, AgedTyped, CrawlersTyped, RestTyped, Crawls, Job

LEMMA TypePartsNext == TypeOK' <=> Securities' /\ QueueTyped' /\ AgedTyped' /\ CrawlersTyped' /\ RestTyped'
BY DEF TypeOK, Securities, QueueTyped, AgedTyped, CrawlersTyped, RestTyped, Crawls, Job, Jobs

(* A step that adds no job leaves the queue well typed. *)
LEMMA SettledTypes ==
  ASSUME TypeOK, Settles(queue, queue')
  PROVE  QueueTyped' /\ Jobs' = Jobs
BY Rows DEF QueueTyped, Settles, Jobs

(* One process moves to a well-typed place. *)
LEMMA CrawlerMoves ==
  ASSUME CrawlersTyped, JobsExist, NEW c \in Crawler, NEW v \in Crawls, v.job \in 0 .. Len(queue),
         crawler' = [crawler EXCEPT ![c] = v], Len(queue') = Len(queue)
  PROVE  CrawlersTyped' /\ JobsExist'
<1>1. CrawlersTyped'
  BY DEF CrawlersTyped
<1>2. \A d \in Crawler : crawler'[d] = IF d = c THEN v ELSE crawler[d]
  BY DEF CrawlersTyped
<1>3. JobsExist'
  BY <1>2 DEF JobsExist
<1> QED BY <1>1, <1>3

(* A process takes a symbol, with a job or without. *)
LEMMA TakesUp ==
  ASSUME NEW j \in 0 .. MaxJobs, NEW mode \in Mode, NEW s \in Symbol
  PROVE  Starting(j, s, mode) \in Crawls /\ Starting(j, s, mode).job = j
BY DEF Crawls, Starting

(* A step of any process keeps the tables and the processes well typed. *)
LEMMA TypeStep == TypeOK /\ JobsExist /\ [Next]_vars => TypeOK' /\ JobsExist'
<1> SUFFICES ASSUME TypeOK, JobsExist, [Next]_vars PROVE TypeOK' /\ JobsExist'
  OBVIOUS
<1>1. Securities /\ QueueTyped /\ AgedTyped /\ CrawlersTyped /\ RestTyped
  BY TypeParts
<1>2. /\ Len(queue) \in 0 .. MaxJobs /\ MaxJobs \in Nat
      /\ Jobs = 1 .. Len(queue) /\ \A j \in Jobs : queue[j].symbol \in Symbol /\ queue[j].status \in JobStatus
  BY Rows
<1>3. {MaxCrashes, MaxSyncs} \subseteq Nat
  BY QueueConstants
<1> USE DEF Crawls, Idle, Mode
<1>4. CASE UNCHANGED vars
  BY <1>4 DEF vars, TypeOK, JobsExist, Jobs
<1>5. ASSUME NEW a \in Admin, NEW E \in SUBSET Exchange, EnqueueRead(a, E) PROVE TypeOK' /\ JobsExist'
  <2>1. RestTyped'
    BY <1>1, <1>5 DEF EnqueueRead, RestTyped
  <2> QED BY <1>1, <1>5, <2>1, TypePartsNext
         DEF EnqueueRead, Securities, QueueTyped, AgedTyped, CrawlersTyped, JobsExist, Jobs
<1>6. ASSUME NEW a \in Admin, EnqueueInsert(a) PROVE TypeOK' /\ JobsExist'
  <2>1. /\ queue' \in Seq(Job) /\ Len(queue') \in Len(queue) .. MaxJobs
        /\ \A j \in 1 .. Len(queue) : queue'[j] = queue[j]
    BY <1>6, EnqueuedRows
  <2>2. QueueTyped' /\ Jobs \subseteq Jobs'
    BY <1>2, <2>1 DEF QueueTyped, Jobs
  <2>3. AgedTyped'
    BY <1>1, <1>2, <1>6, <2>1, <2>2 DEF EnqueueInsert, AgedTyped
  <2>4. JobsExist'
    BY <1>2, <1>6, <2>1 DEF EnqueueInsert, JobsExist
  <2>5. RestTyped'
    BY <1>1, <1>6 DEF EnqueueInsert, RestTyped
  <2> QED BY <1>1, <1>6, <2>2, <2>3, <2>4, <2>5, TypePartsNext DEF EnqueueInsert, Securities, CrawlersTyped
<1>7. ASSUME NEW w \in Worker, Claim(w) PROVE TypeOK' /\ JobsExist'
  <2>1. QueueTyped' /\ Jobs' = Jobs
    BY <1>7, ClaimedRows, SettledTypes
  <2>2. AgedTyped'
    <3>1. ASSUME NEW j \in aged' PROVE j \in Jobs' /\ queue'[j].status \in {"RUNNING", "DELETED"}
      <4>1. j \in aged /\ queue[j].status # "RUNNING"
        BY <1>7, ClaimedRows
      <4>2. j \in Jobs /\ queue[j].status = "DELETED"
        BY <1>1, <4>1 DEF AgedTyped
      <4>3. queue'[j] = queue[j]
        BY <1>7, <4>2, ClaimedRows
      <4> QED BY <2>1, <4>2, <4>3
    <3> QED BY <3>1 DEF AgedTyped
  <2>3. CrawlersTyped' /\ JobsExist'
    <3>1. CASE UNCHANGED crawler
      BY <1>1, <2>1, <1>2, <1>7, ClaimedRows, <3>1 DEF CrawlersTyped, JobsExist, Settles
    <3>2. CASE \E j \in Jobs, mode \in WorkerMode : crawler' = [crawler EXCEPT ![w] = Starting(j, queue[j].symbol, mode)]
      <4>1. PICK j \in Jobs, mode \in WorkerMode : crawler' = [crawler EXCEPT ![w] = Starting(j, queue[j].symbol, mode)]
        BY <3>2
      <4>2. mode \in Mode /\ j \in 0 .. MaxJobs /\ queue[j].symbol \in Symbol
        BY <1>2 DEF WorkerMode
      <4> DEFINE v == Starting(j, queue[j].symbol, mode)
      <4>3. v \in Crawls /\ v.job = j
        BY <4>2, TakesUp
      <4>4. Len(queue') = Len(queue) /\ w \in Crawler
        BY <1>7, ClaimedRows DEF Settles, Crawler
      <4>5. j \in 0 .. Len(queue) /\ crawler' = [crawler EXCEPT ![w] = v]
        BY <1>2, <4>1
      <4> HIDE DEF v
      <4> QED BY <1>1, <4>3, <4>4, <4>5, CrawlerMoves
    <3> QED BY <1>7, <3>1, <3>2, ClaimedRows, ZenonT(40)
  <2> QED BY <1>1, <1>7, <2>1, <2>2, <2>3, TypePartsNext DEF Claim, Securities, RestTyped
<1>8. ASSUME NEW d \in Direct, NEW s \in Symbol, NEW mode \in Mode, DirectCrawl(d, s, mode) PROVE TypeOK' /\ JobsExist'
  <2>1. CrawlersTyped' /\ JobsExist'
    <3>1. 0 \in 0 .. Len(queue) /\ 0 \in 0 .. MaxJobs /\ d \in Crawler /\ queue' = queue
      BY <1>2, <1>8 DEF DirectCrawl, Crawler
    <3> DEFINE v == Starting(0, s, mode)
    <3>2. v \in Crawls /\ v.job = 0
      BY <3>1, TakesUp
    <3>3. crawler' = [crawler EXCEPT ![d] = v]
      BY <1>8 DEF DirectCrawl
    <3> HIDE DEF v
    <3> QED BY <1>1, <3>1, <3>2, <3>3, CrawlerMoves
  <2> QED BY <1>1, <1>8, <2>1, TypePartsNext
         DEF DirectCrawl, Securities, QueueTyped, AgedTyped, RestTyped, Jobs
<1>9. ASSUME NEW c \in Crawler, NEW status \in {"COMPLETED", "FAILED"}, Leave(c, status)
      PROVE  QueueTyped' /\ AgedTyped' /\ CrawlersTyped' /\ JobsExist'
  <2>1. crawler[c].job \in 0 .. Len(queue)
    BY DEF JobsExist
  <2>2. QueueTyped' /\ Jobs' = Jobs
    BY <1>9, <2>1, LeftRows, SettledTypes
  <2>3. AgedTyped'
    <3>1. ASSUME NEW j \in aged' PROVE j \in Jobs' /\ queue'[j].status \in {"RUNNING", "DELETED"}
      <4>1. j \in Jobs /\ queue[j].status \in {"RUNNING", "DELETED"}
        BY <1>1, <1>9, <2>1, LeftRows DEF AgedTyped
      <4>2. queue'[j] = queue[j]
        BY <1>9, <2>1, <4>1, LeftRows
      <4> QED BY <2>2, <4>1, <4>2
    <3> QED BY <3>1 DEF AgedTyped
  <2>4. Idle \in Crawls /\ Idle.job = 0
    BY <1>2
  <2>5. CrawlersTyped' /\ JobsExist'
    <3>1. Len(queue') = Len(queue)
      BY <1>9, <2>1, LeftRows DEF Settles
    <3>2. crawler' = [crawler EXCEPT ![c] = Idle] /\ 0 \in 0 .. Len(queue)
      BY <1>2, <1>9 DEF Leave
    <3> HIDE DEF Idle
    <3> QED BY <1>1, <2>4, <3>1, <3>2, CrawlerMoves
  <2> QED BY <2>2, <2>3, <2>5
<1>10. ASSUME NEW c \in Crawler, CrawlBegin(c) PROVE TypeOK' /\ JobsExist'
  <2>1. CASE Leave(c, "FAILED") /\ UNCHANGED documents
    BY <1>1, <1>9, <1>10, <2>1, TypePartsNext DEF CrawlBegin, Securities, RestTyped
  <2>2. CASE /\ documents' = [documents EXCEPT ![crawler[c].symbol] =
                  [d \in Doc |-> IF documents[crawler[c].symbol][d] = "MISSING" THEN "PENDING"
                                 ELSE documents[crawler[c].symbol][d]]]
             /\ crawler' = [crawler EXCEPT ![c].pc = "read"]
             /\ UNCHANGED <<queue, aged>>
    <3>1. Securities'
      BY <1>1, <1>10, <2>2 DEF CrawlBegin, Securities, DocStatus
    <3>2. CrawlersTyped' /\ JobsExist'
      <4>1. crawler[c] \in Crawls /\ crawler[c].job \in 0 .. Len(queue)
        BY <1>1 DEF CrawlersTyped, JobsExist
      <4>2. /\ [crawler[c] EXCEPT !.pc = "read"] \in Crawls
            /\ [crawler[c] EXCEPT !.pc = "read"].job = crawler[c].job
        BY <4>1
      <4> QED BY <1>1, <2>2, <4>1, <4>2, CrawlerMoves
    <3> QED BY <1>1, <1>10, <2>2, <3>1, <3>2, TypePartsNext
           DEF CrawlBegin, QueueTyped, AgedTyped, RestTyped, Jobs
  <2> QED BY <1>10, <2>1, <2>2 DEF CrawlBegin
<1>11. ASSUME NEW c \in Crawler, CrawlRead(c) PROVE TypeOK' /\ JobsExist'
  <2>1. PICK scope \in Scopes(c) : crawler' = [crawler EXCEPT ![c] =
           [crawler[c] EXCEPT !.pc = "fetch", !.todo = {d \in scope : Fetches(c, d)}]]
    BY <1>11 DEF CrawlRead
  <2>2. {d \in scope : Fetches(c, d)} \in SUBSET Doc
    BY <2>1 DEF Scopes
  <2>3. CrawlersTyped' /\ JobsExist'
    <3> DEFINE todo == {d \in scope : Fetches(c, d)}
               v == [crawler[c] EXCEPT !.pc = "fetch", !.todo = todo]
    <3>1. crawler[c] \in Crawls /\ crawler[c].job \in 0 .. Len(queue)
      BY <1>1 DEF CrawlersTyped, JobsExist
    <3> HIDE DEF todo
    <3>2. v \in Crawls /\ v.job = crawler[c].job
      BY <2>2, <3>1 DEF todo
    <3>3. crawler' = [crawler EXCEPT ![c] = v] /\ queue' = queue
      BY <1>11, <2>1 DEF CrawlRead, todo
    <3> HIDE DEF v
    <3> QED BY <1>1, <3>1, <3>2, <3>3, CrawlerMoves
  <2> QED BY <1>1, <1>11, <2>3, TypePartsNext
         DEF CrawlRead, Securities, QueueTyped, AgedTyped, RestTyped, Jobs
<1>12. ASSUME NEW c \in Crawler, NEW d \in Doc, NEW o \in {"SUCCESS", "NOT_AVAILABLE", "FAILED"}, CrawlSave(c, d, o)
       PROVE  TypeOK' /\ JobsExist'
  <2>1. Securities'
    BY <1>1, <1>12 DEF CrawlSave, Securities, DocStatus
  <2>2. CrawlersTyped' /\ JobsExist'
    <3> DEFINE v == [crawler[c] EXCEPT !.todo = crawler[c].todo \ {d}, !.failed = crawler[c].failed \/ o = "FAILED"]
    <3>1. crawler[c] \in Crawls /\ crawler[c].job \in 0 .. Len(queue)
      BY <1>1 DEF CrawlersTyped, JobsExist
    <3>2. v \in Crawls /\ v.job = crawler[c].job
      BY <3>1
    <3>3. crawler' = [crawler EXCEPT ![c] = v] /\ queue' = queue
      BY <1>1, <1>12, <3>1 DEF CrawlSave, CrawlersTyped
    <3> HIDE DEF v
    <3> QED BY <1>1, <3>1, <3>2, <3>3, CrawlerMoves
  <2> QED BY <1>1, <1>12, <2>1, <2>2, TypePartsNext DEF CrawlSave, QueueTyped, AgedTyped, RestTyped, Jobs
<1>13. ASSUME NEW c \in Crawler, CrawlFinish(c) \/ CrawlAbort(c) PROVE TypeOK' /\ JobsExist'
  <2>1. \E status \in {"COMPLETED", "FAILED"} : Leave(c, status)
    BY <1>13 DEF CrawlFinish, CrawlAbort
  <2> QED BY <1>1, <1>9, <1>13, <2>1, TypePartsNext DEF CrawlFinish, CrawlAbort, Securities, RestTyped
<1>14. ASSUME NEW c \in Crawler, Crash(c) PROVE TypeOK' /\ JobsExist'
  <2>1. Idle \in Crawls /\ Idle.job = 0
    BY <1>2
  <2>2. CrawlersTyped' /\ JobsExist' /\ crashes' \in 0 .. MaxCrashes
    BY <1>1, <1>2, <1>3, <1>14, <2>1 DEF Crash, CrawlersTyped, JobsExist, RestTyped
  <2> QED BY <1>1, <1>14, <2>2, TypePartsNext DEF Crash, Securities, QueueTyped, AgedTyped, RestTyped, Jobs
<1>15. ASSUME NEW j \in Jobs, Age(j) PROVE TypeOK' /\ JobsExist'
  <2>1. AgedTyped'
    BY <1>1, <1>15 DEF Age, AgedTyped, Jobs
  <2> QED BY <1>1, <1>15, <2>1, TypePartsNext
         DEF Age, Securities, QueueTyped, CrawlersTyped, RestTyped, JobsExist
<1>16. ASSUME NEW s \in Symbol, NEW e \in Exchange, UpsertSecurity(s, e) PROVE TypeOK' /\ JobsExist'
  <2>1. documents' = [documents EXCEPT ![s] =
           [d \in Doc |-> IF documents[s][d] = "MISSING" THEN "PENDING" ELSE documents[s][d]]]
    BY <1>16 DEF UpsertSecurity
  <2>2. Securities' /\ syncs' \in 0 .. MaxSyncs
    BY <1>1, <1>3, <1>16, <2>1 DEF UpsertSecurity, Securities, RestTyped, DocStatus
  <2> QED BY <1>1, <1>16, <2>2, TypePartsNext
         DEF UpsertSecurity, QueueTyped, AgedTyped, CrawlersTyped, RestTyped, JobsExist, Jobs
<1>17. ASSUME NEW L \in SUBSET Symbol, DeactivateNotIn(L) PROVE TypeOK' /\ JobsExist'
  <2>1. /\ Settles(queue, queue') /\ QueueTyped' /\ Jobs' = Jobs
        /\ \A j \in Jobs : queue'[j] = queue[j] \/ (queue[j].status = "QUEUED" /\ queue'[j].status = "FAILED")
    BY <1>17, DeactivatedRows, SettledTypes
  <2>2. AgedTyped' /\ JobsExist'
    BY <1>1, <1>17, <2>1 DEF DeactivateNotIn, AgedTyped, JobsExist, Settles
  <2>3. Securities' /\ syncs' \in 0 .. MaxSyncs
    BY <1>1, <1>3, <1>17 DEF DeactivateNotIn, Securities, RestTyped
  <2> QED BY <1>1, <1>17, <2>1, <2>2, <2>3, TypePartsNext DEF DeactivateNotIn, CrawlersTyped, RestTyped
<1>18. ASSUME NEW kind \in {"queue", "incomplete"}, ClearCheck(kind) PROVE TypeOK' /\ JobsExist'
  BY <1>1, <1>18, TypePartsNext
     DEF ClearCheck, Securities, QueueTyped, AgedTyped, CrawlersTyped, RestTyped, JobsExist, Jobs
<1>19. CASE ClearDelete
  <2>1. /\ Settles(queue, queue') /\ QueueTyped' /\ Jobs' = Jobs /\ \A j \in Jobs : queue'[j].status = "DELETED"
    BY <1>19, ClearedRows, SettledTypes
  <2>2. AgedTyped' /\ JobsExist'
    BY <1>1, <1>19, <2>1 DEF ClearDelete, AgedTyped, JobsExist, Settles
  <2>3. Securities'
    BY <1>1, <1>19 DEF ClearDelete, Securities, DocStatus
  <2> QED BY <1>1, <1>19, <2>1, <2>2, <2>3, TypePartsNext DEF ClearDelete, CrawlersTyped, RestTyped
<1> QED
  <2>1. ASSUME NEW a \in Admin, Enqueue(a) PROVE TypeOK' /\ JobsExist'
    BY <1>5, <1>6, <2>1 DEF Enqueue, WorkerExchange, Exchange
  <2>2. ASSUME NEW c \in Crawler, Crawl(c) PROVE TypeOK' /\ JobsExist'
    BY <1>10, <1>11, <1>12, <1>13, <2>2 DEF Crawl
  <2> QED BY <1>4, <1>7, <1>8, <1>13, <1>14, <1>15, <1>16, <1>17, <1>18, <1>19, <2>1, <2>2 DEF Next

-----------------------------------------------------------------------------
(* A step that adds no job leaves at most one active job per symbol. *)
LEMMA SettledOne ==
  ASSUME TypeOK, OneActiveJob, Settles(queue, queue') PROVE OneActiveJob'
<1>1. Jobs = 1 .. Len(queue) /\ Len(queue') = Len(queue)
  BY Rows DEF Settles
<1>2. \A s \in Symbol : ActiveJobs(queue', s) \subseteq ActiveJobs(queue, s)
  BY <1>1 DEF Settles, ActiveJobs
<1> QED BY <1>2 DEF OneActiveJob

LEMMA EnqueuedOne ==
  ASSUME TypeOK, OneActiveJob, NEW a \in Admin, EnqueueInsert(a) PROVE OneActiveJob'
<1> DEFINE old == 1 .. Len(queue)
           new == Len(queue) + 1 .. Len(queue')
<1>1. Len(queue) \in Nat /\ Len(queue') \in Nat /\ 1 .. Len(queue') = old \cup new /\ old \cap new = {}
  BY Rows, EnqueuedRows
<1> SUFFICES ASSUME NEW s \in Symbol, NEW i \in ActiveJobs(queue', s), NEW j \in ActiveJobs(queue', s)
             PROVE  i = j
  BY DEF OneActiveJob
<1>2. /\ i \in old \cup new /\ j \in old \cup new /\ queue'[i].symbol = s /\ queue'[j].symbol = s
      /\ queue'[i].status \in ActiveStatus /\ queue'[j].status \in ActiveStatus
  BY <1>1 DEF ActiveJobs
<1>3. \A k \in old : k \in ActiveJobs(queue', s) => k \in ActiveJobs(queue, s)
  BY EnqueuedRows DEF ActiveJobs
<1>4. \A k \in new : queue'[k].symbol = s => ActiveJobs(queue, s) = {}
  BY EnqueuedRows
<1>5. CASE i \in old /\ j \in old
  BY <1>3, <1>5 DEF OneActiveJob
<1>6. CASE i \in new /\ j \in new
  BY <1>2, <1>6, EnqueuedRows
<1>7. CASE i \in old /\ j \in new
  BY <1>2, <1>3, <1>4, <1>7
<1>8. CASE i \in new /\ j \in old
  BY <1>2, <1>3, <1>4, <1>8
<1> QED BY <1>2, <1>5, <1>6, <1>7, <1>8

(* Only an enqueue adds jobs. *)
LEMMA QueueStep ==
  ASSUME TypeOK, JobsExist, [Next]_vars
  PROVE  Settles(queue, queue') \/ \E a \in Admin : EnqueueInsert(a)
<1>1. UNCHANGED queue => Settles(queue, queue')
  BY Rows DEF Settles
<1>2. ASSUME NEW c \in Crawler, NEW status \in {"COMPLETED", "FAILED"}, Leave(c, status) PROVE Settles(queue, queue')
  BY <1>2, LeftRows DEF JobsExist
<1>3. ASSUME NEW c \in Crawler, Crawl(c) \/ CrawlAbort(c) \/ Crash(c) PROVE Settles(queue, queue')
  <2>1. CASE UNCHANGED queue
    BY <1>1, <2>1
  <2>2. CASE \E status \in {"COMPLETED", "FAILED"} : Leave(c, status)
    BY <1>2, <2>2
  <2> QED BY <1>3, <2>1, <2>2 DEF Crawl, CrawlBegin, CrawlRead, CrawlSave, CrawlFinish, CrawlAbort, Crash
<1>4. ASSUME NEW a \in Admin, Enqueue(a) PROVE UNCHANGED queue \/ EnqueueInsert(a)
  BY <1>4 DEF Enqueue, EnqueueRead
<1>5. CASE UNCHANGED vars
  BY <1>1, <1>5 DEF vars
<1>6. CASE (\E j \in Jobs : Age(j)) \/ (\E s \in Symbol, e \in Exchange : UpsertSecurity(s, e))
           \/ (\E k \in {"queue", "incomplete"} : ClearCheck(k))
           \/ (\E d \in Direct, s \in Symbol, mode \in Mode : DirectCrawl(d, s, mode))
  BY <1>1, <1>6 DEF Age, UpsertSecurity, ClearCheck, DirectCrawl
<1>7. CASE (\E w \in Worker : Claim(w)) \/ (\E L \in SUBSET Symbol : DeactivateNotIn(L)) \/ ClearDelete
  BY <1>7, ClaimedRows, DeactivatedRows, ClearedRows
<1> QED BY <1>1, <1>3, <1>4, <1>5, <1>6, <1>7 DEF Next

LEMMA OneActiveStep == TypeOK /\ JobsExist /\ OneActiveJob /\ [Next]_vars => OneActiveJob'
BY QueueStep, SettledOne, EnqueuedOne

-----------------------------------------------------------------------------
(* A worker nobody touches, and whose job and documents stand. *)
Undisturbed(w) ==
  /\ crawler'[w] = crawler[w]
  /\ crawler[w].pc # "idle" =>
       /\ crawler[w].job \in Jobs' /\ crawler[w].job \notin aged'
       /\ queue'[crawler[w].job] = queue[crawler[w].job]
       /\ \A d \in Doc : documents'[crawler[w].symbol][d] \in Fetched
                           <=> documents[crawler[w].symbol][d] \in Fetched

LEMMA UndisturbedSound ==
  ASSUME NEW w \in Worker, WorkerSound(w), Undisturbed(w) PROVE WorkerSound(w)'
BY DEF WorkerSound, Undisturbed

(* One worker moves and the others are left alone. *)
LEMMA OneMoves ==
  ASSUME CrawlInv, careful, clearing' = "no", NEW c,
         \A d \in Direct : crawler'[d].pc = "idle",
         \A w \in Worker \ {c} : Undisturbed(w),
         c \in Worker => WorkerSound(c)',
         c \in Worker /\ crawler'[c].pc # "idle" => \A w \in Worker \ {c} : crawler'[w].job # crawler'[c].job
  PROVE  CarefulInv'
<1>1. ASSUME NEW w \in Worker PROVE WorkerSound(w)'
  <2>1. CASE w = c
    BY <2>1
  <2>2. CASE w # c
    BY <2>2, UndisturbedSound DEF CrawlInv, CarefulInv
  <2> QED BY <2>1, <2>2
<1>2. ASSUME NEW v \in Worker, NEW w \in Worker, v # w, crawler'[v].pc # "idle"
      PROVE  crawler'[v].job # crawler'[w].job
  <2>1. crawler'[v].job \in Jobs'
    BY <1>1, <1>2 DEF WorkerSound
  <2>2. crawler'[v].job # 0
    BY <2>1 DEF Jobs
  <2>3. crawler'[w].pc = "idle" => crawler'[w].job = 0
    BY <1>1 DEF WorkerSound
  <2>4. CASE v = c
    BY <1>2, <2>4
  <2>5. CASE w = c
    BY <1>2, <2>2, <2>3, <2>5
  <2>6. CASE v # c /\ w # c
    BY <1>2, <2>6 DEF CrawlInv, CarefulInv, Undisturbed
  <2> QED BY <2>4, <2>5, <2>6
<1> QED BY <1>1, <1>2 DEF CarefulInv

(* Two workers never crawl the same symbol. *)
LEMMA SymbolsApart ==
  ASSUME CrawlInv, careful, NEW v \in Worker, NEW w \in Worker, v # w,
         crawler[v].pc # "idle", crawler[w].pc # "idle"
  PROVE  crawler[v].symbol # crawler[w].symbol
<1>1. WorkerSound(v) /\ WorkerSound(w) /\ crawler[v].job # crawler[w].job
  BY DEF CrawlInv, CarefulInv
<1>2. /\ crawler[v].job \in Jobs /\ queue[crawler[v].job].symbol = crawler[v].symbol
      /\ queue[crawler[v].job].status = "RUNNING"
      /\ crawler[w].job \in Jobs /\ queue[crawler[w].job].symbol = crawler[w].symbol
      /\ queue[crawler[w].job].status = "RUNNING"
  BY <1>1 DEF WorkerSound
<1>3. Jobs = 1 .. Len(queue) /\ queue[crawler[v].job].symbol \in Symbol
  BY <1>2, Rows DEF CrawlInv
<1> SUFFICES ASSUME crawler[v].symbol = crawler[w].symbol PROVE FALSE
  OBVIOUS
<1>4. crawler[v].job \in ActiveJobs(queue, crawler[v].symbol) /\ crawler[w].job \in ActiveJobs(queue, crawler[v].symbol)
  BY <1>2, <1>3 DEF ActiveJobs, ActiveStatus
<1> QED BY <1>1, <1>2, <1>3, <1>4 DEF CrawlInv, OneActiveJob

(* What a step of a careful operators' system may be. *)
LEMMA CarefulSteps ==
  ASSUME CrawlInv, careful, [Next]_vars
  PROVE  /\ careful' = careful
         /\ clearing' = "no"
         /\ \/ UNCHANGED <<crawler, documents, aged, queue>>
            \/ \E a \in Admin : EnqueueInsert(a)
            \/ \E w \in Worker : Claim(w) \/ Crawl(w) \/ CrawlAbort(w) \/ Crash(w)
            \/ \E j \in Jobs : Age(j)
            \/ \E s \in Symbol, e \in Exchange : UpsertSecurity(s, e)
            \/ \E L \in SUBSET Symbol : DeactivateNotIn(L)
<1>1. clearing = "no" /\ \A d \in Direct : crawler[d].pc = "idle"
  BY DEF CrawlInv, CarefulInv
<1>2. CASE UNCHANGED vars
  BY <1>1, <1>2 DEF vars
<1>3. ASSUME NEW a \in Admin, Enqueue(a) PROVE UNCHANGED <<crawler, documents, aged, clearing, careful>>
  BY <1>3 DEF Enqueue, EnqueueRead, EnqueueInsert
<1>4. ASSUME NEW a \in Admin, Enqueue(a) PROVE UNCHANGED queue \/ EnqueueInsert(a)
  BY <1>4 DEF Enqueue, EnqueueRead
<1>5. ASSUME NEW w \in Worker, Claim(w) PROVE UNCHANGED <<clearing, careful>>
  BY <1>5 DEF Claim
<1>6. ASSUME NEW c \in Crawler, Crawl(c) \/ CrawlAbort(c) \/ Crash(c)
      PROVE  c \in Worker /\ UNCHANGED <<clearing, careful>>
  <2>1. crawler[c].pc # "idle"
    BY <1>6 DEF Crawl, CrawlBegin, CrawlRead, CrawlSave, CrawlFinish, CrawlAbort, Crash
  <2>2. c \in Worker
    BY <1>1, <2>1 DEF Crawler
  <2> QED BY <1>6, <2>2 DEF Crawl, CrawlBegin, CrawlRead, CrawlSave, CrawlFinish, CrawlAbort, Crash
<1>7. ASSUME NEW j \in Jobs, Age(j) PROVE UNCHANGED <<clearing, careful>>
  BY <1>7 DEF Age
<1>8. ASSUME NEW s \in Symbol, NEW e \in Exchange, UpsertSecurity(s, e) PROVE UNCHANGED <<clearing, careful>>
  BY <1>8 DEF UpsertSecurity
<1>9. ASSUME NEW L \in SUBSET Symbol, DeactivateNotIn(L) PROVE UNCHANGED <<clearing, careful>>
  BY <1>9 DEF DeactivateNotIn
<1>10. ~ClearDelete /\ (\A k \in {"queue", "incomplete"} : ~ClearCheck(k))
       /\ \A d \in Direct, s \in Symbol, mode \in Mode : ~DirectCrawl(d, s, mode)
  BY <1>1 DEF ClearDelete, ClearCheck, DirectCrawl
<1> QED BY <1>1, <1>2, <1>3, <1>4, <1>5, <1>6, <1>7, <1>8, <1>9, <1>10 DEF Next

(* Documents that were not there stay not there, and those that were stay,   *)
(* when placeholders are inserted.                                           *)
LEMMA Placeholders ==
  ASSUME TypeOK, NEW s \in Symbol,
         documents' = [documents EXCEPT ![s] =
           [d \in Doc |-> IF documents[s][d] = "MISSING" THEN "PENDING" ELSE documents[s][d]]]
  PROVE  \A t \in Symbol, d \in Doc : /\ documents'[t][d] \in Fetched <=> documents[t][d] \in Fetched
                                      /\ documents[t][d] \in Fetched => documents'[t][d] = documents[t][d]
BY DEF TypeOK, Fetched

LEMMA CarefulStep == CrawlInv /\ [Next]_vars => CarefulInv'
<1> SUFFICES ASSUME CrawlInv, [Next]_vars, careful' PROVE CarefulInv'
  BY DEF CarefulInv
<1>1. careful
  <2>1. careful' = careful
    BY DEF Next, vars, Enqueue, EnqueueRead, EnqueueInsert, Claim, DirectCrawl, Crawl, CrawlBegin, CrawlRead,
           CrawlSave, CrawlFinish, CrawlAbort, Crash, Age, UpsertSecurity, DeactivateNotIn, ClearCheck, ClearDelete
  <2> QED BY <2>1
<1>2. /\ TypeOK /\ JobsExist /\ clearing' = "no" /\ Jobs = 1 .. Len(queue)
      /\ \A d \in Direct : crawler[d].pc = "idle"
      /\ \A w \in Worker : WorkerSound(w) /\ w \in Crawler
      /\ \A v, w \in Worker : v # w /\ crawler[v].pc # "idle" => crawler[v].job # crawler[w].job
  BY <1>1, CarefulSteps, Rows DEF CrawlInv, CarefulInv, Crawler
<1>3. \A w \in Worker : w \notin Direct
  BY QueueConstants
<1>4. ASSUME NEW w \in Worker, crawler[w].pc # "idle"
      PROVE  /\ crawler[w].job \in Jobs /\ crawler[w].job \notin aged
             /\ queue[crawler[w].job].status = "RUNNING" /\ queue[crawler[w].job].symbol = crawler[w].symbol
             /\ crawler[w].symbol \in Symbol
  <2>1. /\ crawler[w].job \in Jobs /\ crawler[w].job \notin aged
        /\ queue[crawler[w].job].status = "RUNNING" /\ queue[crawler[w].job].symbol = crawler[w].symbol
    <3>1. WorkerSound(w)
      BY <1>2
    <3>2. /\ crawler[w].job \in Jobs /\ crawler[w].job \notin aged
          /\ queue[crawler[w].job] = [symbol |-> crawler[w].symbol, status |-> "RUNNING"]
      BY <1>4, <3>1 DEF WorkerSound
    <3> QED BY <3>2
  <2> QED BY <1>2, <2>1, Rows
<1>5. CASE UNCHANGED <<crawler, documents, aged, queue>>
  <2>1. \A w \in Worker : Undisturbed(w)
    BY <1>4, <1>5 DEF Undisturbed, Jobs
  <2>2. \A w \in Worker : WorkerSound(w)'
    BY <1>2, <2>1, UndisturbedSound
  <2> QED BY <1>2, <1>5, <2>2 DEF CarefulInv
<1>6. ASSUME NEW a \in Admin, EnqueueInsert(a) PROVE CarefulInv'
  <2>1. \A w \in Worker : Undisturbed(w)
    <3>1. /\ Jobs \subseteq Jobs' /\ \A j \in Jobs : queue'[j] = queue[j]
          /\ UNCHANGED <<crawler, documents, aged>>
      BY <1>2, <1>6, EnqueuedRows, Rows DEF EnqueueInsert, Jobs
    <3> QED BY <1>4, <3>1 DEF Undisturbed
  <2>2. \A w \in Worker : WorkerSound(w)'
    BY <1>2, <2>1, UndisturbedSound
  <2>3. UNCHANGED crawler
    BY <1>6 DEF EnqueueInsert
  <2> QED BY <1>2, <2>2, <2>3 DEF CarefulInv
<1>7. ASSUME NEW w \in Worker, Claim(w) PROVE CarefulInv'
  <2>1. Jobs' = Jobs /\ aged' \subseteq aged /\ UNCHANGED documents
    BY <1>2, <1>7, ClaimedRows, SettledTypes DEF Claim
  <2>2. ASSUME NEW v \in Worker, crawler[v].pc # "idle" PROVE queue'[crawler[v].job] = queue[crawler[v].job]
    BY <1>2, <1>4, <1>7, <2>2, ClaimedRows
  <2>3. crawler[w].pc = "idle"
    BY <1>7 DEF Claim
  <2>4. CASE UNCHANGED crawler
    <3>1. \A v \in Worker : Undisturbed(v)
      BY <1>4, <2>1, <2>2, <2>4 DEF Undisturbed
    <3>2. \A v \in Worker : WorkerSound(v)'
      BY <1>2, <3>1, UndisturbedSound
    <3> QED BY <1>2, <2>4, <3>2 DEF CarefulInv
  <2>5. CASE ~UNCHANGED crawler
    <3>1. PICK j \in Jobs, mode \in WorkerMode :
            /\ queue[j].status = "QUEUED" \/ (queue[j].status = "RUNNING" /\ j \in aged)
            /\ queue'[j] = [symbol |-> queue[j].symbol, status |-> "RUNNING"]
            /\ crawler' = [crawler EXCEPT ![w] = Starting(j, queue[j].symbol, mode)]
      BY <1>2, <1>7, <2>5, ClaimedRows
    <3>2. mode = "new"
      BY <1>1 DEF WorkerMode
    <3>3. \A v \in Crawler : crawler'[v] = IF v = w THEN Starting(j, queue[j].symbol, mode) ELSE crawler[v]
      BY <1>2, <3>1, TypeParts DEF CrawlersTyped
    <3>4. \A v \in Worker \ {w} : Undisturbed(v)
      BY <1>2, <1>4, <2>1, <2>2, <3>3 DEF Undisturbed
    <3>5. crawler'[w].pc = "begin" /\ crawler'[w].job = j /\ crawler'[w].symbol = queue[j].symbol /\ crawler'[w].mode = "new"
      BY <1>2, <3>2, <3>3 DEF Starting
    <3>6. j \notin aged'
      <4>1. aged' = {i \in aged : queue[i].status # "RUNNING"}
        BY <1>2, <1>7, ClaimedRows
      <4>2. j \in aged => queue[j].status \in {"RUNNING", "DELETED"}
        BY <1>2 DEF TypeOK
      <4> QED BY <3>1, <4>1, <4>2
    <3>7. WorkerSound(w)'
      BY <2>1, <3>1, <3>5, <3>6 DEF WorkerSound
    <3>8. \A v \in Worker \ {w} : crawler'[v].job # crawler'[w].job
      <4>1. ASSUME NEW v \in Worker \ {w}, crawler[v].job = j PROVE FALSE
        <5>1. j # 0
          BY <1>2
        <5>2. crawler[v].pc # "idle"
          BY <1>2, <4>1, <5>1 DEF WorkerSound
        <5> QED BY <1>4, <3>1, <4>1, <5>2
      <4> QED BY <1>2, <3>3, <3>5, <4>1
    <3>9. \A d \in Direct : crawler'[d].pc = "idle"
      BY <1>2, <1>3, <3>3 DEF Crawler
    <3> QED BY <1>1, <1>2, <3>4, <3>7, <3>8, <3>9, OneMoves
  <2> QED BY <2>4, <2>5
<1>8. ASSUME NEW w \in Worker, NEW status \in {"COMPLETED", "FAILED"}, Leave(w, status), UNCHANGED documents PROVE CarefulInv'
  <2>1. crawler[w].job \in 0 .. Len(queue) /\ Jobs' = Jobs
    BY <1>2, <1>8, LeftRows, SettledTypes DEF JobsExist
  <2>2. \A v \in Crawler : crawler'[v] = IF v = w THEN Idle ELSE crawler[v]
    BY <1>2, <1>8, TypeParts DEF Leave, CrawlersTyped
  <2>3. ASSUME NEW v \in Worker \ {w} PROVE Undisturbed(v)
    <3>1. CASE crawler[v].pc = "idle"
      BY <1>2, <2>2, <3>1 DEF Undisturbed
    <3>2. CASE crawler[v].pc # "idle"
      <4>1. crawler[v].job \in Jobs /\ crawler[v].job # crawler[w].job /\ crawler[v].job \notin aged
        BY <1>2, <1>4, <3>2
      <4>2. queue'[crawler[v].job] = queue[crawler[v].job] /\ crawler[v].job \notin aged'
        BY <1>2, <1>8, <2>1, <4>1, LeftRows
      <4> QED BY <1>2, <1>8, <2>1, <2>2, <4>1, <4>2 DEF Undisturbed
    <3> QED BY <3>1, <3>2
  <2>4. crawler'[w].pc = "idle" /\ crawler'[w].job = 0
    BY <1>2, <2>2 DEF Idle
  <2>5. WorkerSound(w)'
    BY <2>4 DEF WorkerSound
  <2>6. \A d \in Direct : crawler'[d].pc = "idle"
    BY <1>2, <2>2 DEF Crawler, Idle
  <2> QED BY <1>1, <1>2, <2>3, <2>4, <2>5, <2>6, OneMoves
<1>9. ASSUME NEW w \in Worker, CrawlBegin(w) PROVE CarefulInv'
  <2>1. CASE Leave(w, "FAILED") /\ UNCHANGED documents
    BY <1>8, <2>1
  <2>2. CASE /\ documents' = [documents EXCEPT ![crawler[w].symbol] =
                  [d \in Doc |-> IF documents[crawler[w].symbol][d] = "MISSING" THEN "PENDING"
                                 ELSE documents[crawler[w].symbol][d]]]
             /\ crawler' = [crawler EXCEPT ![w].pc = "read"]
             /\ UNCHANGED <<queue, aged>>
    <3>1. crawler[w].pc = "begin"
      BY <1>9 DEF CrawlBegin
    <3>2. /\ \A v \in Worker \ {w} : crawler'[v] = crawler[v]
          /\ \A d \in Direct : crawler'[d] = crawler[d]
          /\ crawler'[w] = [crawler[w] EXCEPT !.pc = "read"]
      BY <1>2, <1>3, <2>2, TypeParts DEF CrawlersTyped, Crawler
    <3>3. crawler'[w].pc = "read" /\ crawler'[w].job = crawler[w].job /\ crawler'[w].symbol = crawler[w].symbol
          /\ crawler'[w].mode = crawler[w].mode
      BY <1>2, <3>2, TypeParts DEF CrawlersTyped, Crawls
    <3>4. \A v \in Worker \ {w} : Undisturbed(v)
      BY <1>2, <1>4, <2>2, <3>1, <3>2, Placeholders DEF Undisturbed, Jobs
    <3>5. WorkerSound(w)'
      BY <1>2, <2>2, <3>1, <3>3 DEF WorkerSound, Jobs
    <3>6. \A v \in Worker \ {w} : crawler'[v].job # crawler'[w].job
      BY <1>2, <3>1, <3>2, <3>3
    <3> QED BY <1>1, <1>2, <3>2, <3>4, <3>5, <3>6, OneMoves
  <2> QED BY <1>9, <2>1, <2>2 DEF CrawlBegin
<1>10. ASSUME NEW w \in Worker, CrawlRead(w) PROVE CarefulInv'
  <2>1. crawler[w].pc = "read" /\ crawler[w].mode = "new" /\ UNCHANGED <<documents, queue, aged>>
    BY <1>2, <1>10 DEF CrawlRead, WorkerSound
  <2> DEFINE todo == {d \in Doc : Fetches(w, d)}
  <2>2. crawler' = [crawler EXCEPT ![w] = [crawler[w] EXCEPT !.pc = "fetch", !.todo = todo]]
    BY <1>3, <1>10 DEF CrawlRead, Scopes
  <2>3. \A d \in Doc : d \in todo <=> documents[crawler[w].symbol][d] \notin Fetched
    BY <2>1 DEF Fetches, ShouldFetch, Fetched
  <2> HIDE DEF todo
  <2>4. /\ \A v \in Worker \ {w} : crawler'[v] = crawler[v]
        /\ \A d \in Direct : crawler'[d] = crawler[d]
        /\ crawler'[w] = [crawler[w] EXCEPT !.pc = "fetch", !.todo = todo]
    BY <1>2, <1>3, <2>2, TypeParts DEF CrawlersTyped, Crawler
  <2>5. /\ crawler'[w].pc = "fetch" /\ crawler'[w].job = crawler[w].job /\ crawler'[w].symbol = crawler[w].symbol
        /\ crawler'[w].mode = crawler[w].mode /\ crawler'[w].todo = todo
    BY <1>2, <2>4, TypeParts DEF CrawlersTyped, Crawls
  <2>6. \A v \in Worker \ {w} : Undisturbed(v)
    BY <1>4, <2>1, <2>4 DEF Undisturbed, Jobs
  <2>7. WorkerSound(w)'
    BY <1>2, <2>1, <2>3, <2>5 DEF WorkerSound, Jobs
  <2>8. \A v \in Worker \ {w} : crawler'[v].job # crawler'[w].job
    BY <1>2, <2>1, <2>4, <2>5
  <2> QED BY <1>1, <1>2, <2>4, <2>6, <2>7, <2>8, OneMoves
<1>11. ASSUME NEW w \in Worker, NEW d \in Doc, NEW o \in {"SUCCESS", "NOT_AVAILABLE", "FAILED"}, CrawlSave(w, d, o)
       PROVE  CarefulInv'
  <2>1. /\ crawler[w].pc = "fetch" /\ d \in crawler[w].todo /\ UNCHANGED <<queue, aged>>
        /\ documents' = [documents EXCEPT ![crawler[w].symbol][d] = o]
    BY <1>11 DEF CrawlSave
  <2>2. crawler' = [crawler EXCEPT ![w] =
           [crawler[w] EXCEPT !.todo = crawler[w].todo \ {d}, !.failed = crawler[w].failed \/ o = "FAILED"]]
    BY <1>2, <1>11, TypeParts DEF CrawlSave, CrawlersTyped
  <2>3. /\ \A v \in Worker \ {w} : crawler'[v] = crawler[v]
        /\ \A e \in Direct : crawler'[e] = crawler[e]
        /\ crawler'[w] = [crawler[w] EXCEPT !.todo = crawler[w].todo \ {d}, !.failed = crawler[w].failed \/ o = "FAILED"]
    BY <1>2, <1>3, <2>2, TypeParts DEF CrawlersTyped, Crawler
  <2>4. /\ crawler'[w].pc = "fetch" /\ crawler'[w].job = crawler[w].job /\ crawler'[w].symbol = crawler[w].symbol
        /\ crawler'[w].mode = crawler[w].mode /\ crawler'[w].todo = crawler[w].todo \ {d}
        /\ crawler'[w].failed = (crawler[w].failed \/ o = "FAILED")
    BY <1>2, <2>1, <2>3, TypeParts DEF CrawlersTyped, Crawls
  <2>5. \A s \in Symbol, e \in Doc : documents'[s][e] = IF s = crawler[w].symbol /\ e = d THEN o ELSE documents[s][e]
    BY <1>2, <1>4, <2>1 DEF TypeOK
  <2>6. ASSUME NEW v \in Worker \ {w} PROVE Undisturbed(v)
    <3>1. CASE crawler[v].pc = "idle"
      BY <2>3, <3>1 DEF Undisturbed
    <3>2. CASE crawler[v].pc # "idle"
      <4>1. crawler[v].symbol # crawler[w].symbol /\ crawler[v].symbol \in Symbol
        BY <1>1, <1>4, <2>1, <3>2, SymbolsApart
      <4> QED BY <1>4, <2>1, <2>3, <2>5, <3>2, <4>1 DEF Undisturbed, Jobs
    <3> QED BY <3>1, <3>2
  <2>7. WorkerSound(w)'
    <3>1. crawler[w].symbol \in Symbol
      BY <1>4, <2>1
    <3>2. ASSUME NEW e \in Doc
          PROVE  IF e \in crawler'[w].todo THEN documents'[crawler[w].symbol][e] \notin Fetched
                 ELSE crawler'[w].failed \/ documents'[crawler[w].symbol][e] \in Fetched
      <4>1. IF e \in crawler[w].todo THEN documents[crawler[w].symbol][e] \notin Fetched
            ELSE crawler[w].failed \/ documents[crawler[w].symbol][e] \in Fetched
        BY <1>2, <2>1 DEF WorkerSound
      <4>2. CASE e = d
        BY <2>4, <2>5, <3>1, <4>2 DEF Fetched
      <4>3. CASE e # d
        BY <2>4, <2>5, <3>1, <4>1, <4>3
      <4> QED BY <4>2, <4>3
    <3> QED BY <1>2, <2>1, <2>4, <3>2 DEF WorkerSound, Jobs
  <2>8. \A v \in Worker \ {w} : crawler'[v].job # crawler'[w].job
    BY <1>2, <2>1, <2>3, <2>4
  <2> QED BY <1>1, <1>2, <2>3, <2>6, <2>7, <2>8, OneMoves
<1>12. ASSUME NEW w \in Worker, CrawlFinish(w) \/ CrawlAbort(w) PROVE CarefulInv'
  BY <1>8, <1>12 DEF CrawlFinish, CrawlAbort
<1>13. ASSUME NEW w \in Worker, Crash(w) PROVE CarefulInv'
  <2>1. UNCHANGED <<queue, aged, documents>> /\ crawler' = [crawler EXCEPT ![w] = Idle]
    BY <1>13 DEF Crash
  <2>2. \A v \in Crawler : crawler'[v] = IF v = w THEN Idle ELSE crawler[v]
    BY <1>2, <2>1, TypeParts DEF CrawlersTyped
  <2>3. \A v \in Worker \ {w} : Undisturbed(v)
    BY <1>2, <1>4, <2>1, <2>2 DEF Undisturbed, Jobs
  <2>4. crawler'[w].pc = "idle" /\ crawler'[w].job = 0 /\ \A d \in Direct : crawler'[d].pc = "idle"
    BY <1>2, <2>2 DEF Idle, Crawler
  <2>5. WorkerSound(w)'
    BY <2>4 DEF WorkerSound
  <2> QED BY <1>1, <1>2, <2>3, <2>4, <2>5, OneMoves
<1>14. ASSUME NEW j \in Jobs, Age(j) PROVE CarefulInv'
  <2>1. UNCHANGED <<queue, crawler, documents>> /\ aged' = aged \cup {j} /\ \A w \in Worker : crawler[w].job # j
    BY <1>1, <1>14 DEF Age
  <2>2. \A w \in Worker : Undisturbed(w)
    BY <1>4, <2>1 DEF Undisturbed, Jobs
  <2>3. \A w \in Worker : WorkerSound(w)'
    BY <1>2, <2>2, UndisturbedSound
  <2> QED BY <1>2, <2>1, <2>3 DEF CarefulInv
<1>15. ASSUME NEW s \in Symbol, NEW e \in Exchange, UpsertSecurity(s, e) PROVE CarefulInv'
  <2>1. UNCHANGED <<queue, crawler, aged>> /\ documents' = [documents EXCEPT ![s] =
           [d \in Doc |-> IF documents[s][d] = "MISSING" THEN "PENDING" ELSE documents[s][d]]]
    BY <1>15 DEF UpsertSecurity
  <2>2. \A w \in Worker : Undisturbed(w)
    BY <1>2, <1>4, <2>1, Placeholders DEF Undisturbed, Jobs
  <2>3. \A w \in Worker : WorkerSound(w)'
    BY <1>2, <2>2, UndisturbedSound
  <2> QED BY <1>2, <2>1, <2>3 DEF CarefulInv
<1>16. ASSUME NEW L \in SUBSET Symbol, DeactivateNotIn(L) PROVE CarefulInv'
  <2>1. Jobs' = Jobs /\ UNCHANGED <<crawler, aged, documents>>
    BY <1>2, <1>16, DeactivatedRows, SettledTypes DEF DeactivateNotIn
  <2>2. \A w \in Worker : Undisturbed(w)
    BY <1>2, <1>4, <1>16, <2>1, DeactivatedRows DEF Undisturbed
  <2>3. \A w \in Worker : WorkerSound(w)'
    BY <1>2, <2>2, UndisturbedSound
  <2> QED BY <1>2, <2>1, <2>3 DEF CarefulInv
<1> QED
  <2>1. ASSUME NEW w \in Worker, Crawl(w) PROVE CarefulInv'
    BY <1>9, <1>10, <1>11, <1>12, <2>1 DEF Crawl
  <2> QED BY <1>1, <1>5, <1>6, <1>7, <1>12, <1>13, <1>14, <1>15, <1>16, <2>1, CarefulSteps

LEMMA InitSound == Init => CrawlInv
<1> SUFFICES ASSUME Init PROVE CrawlInv
  OBVIOUS
<1>1. TypeOK
  BY QueueConstants DEF Init, TypeOK, Exchange, DocStatus, JobStatus, ActiveStatus, Idle, Mode, Jobs, Crawler
<1>2. OneActiveJob
  BY DEF Init, OneActiveJob, ActiveJobs
<1>3. CarefulInv
  BY DEF Init, CarefulInv, WorkerSound, Idle, Crawler
<1>4. JobsExist
  BY DEF Init, JobsExist, Idle
<1> QED BY <1>1, <1>2, <1>3, <1>4 DEF CrawlInv

(* The invariant holds at every step, of careful operators and of others. *)
LEMMA CrawlInvariant == Spec => []CrawlInv
<1>1. CrawlInv /\ [Next]_vars => CrawlInv'
  BY TypeStep, OneActiveStep, CarefulStep DEF CrawlInv
<1> QED BY InitSound, <1>1, PTL DEF Spec

LEMMA InvImplies == CrawlInv => QueueInv
<1> SUFFICES ASSUME CrawlInv PROVE OneWorkerPerJob
  BY DEF CrawlInv, QueueInv
<1> SUFFICES ASSUME careful
             PROVE  /\ \A v, w \in Worker : crawler[v].job = crawler[w].job => v = w \/ crawler[v].job = 0
                    /\ \A w \in Worker : crawler[w].job # 0 => queue[crawler[w].job].status = "RUNNING"
  BY DEF OneWorkerPerJob
<1>1. \A w \in Worker : WorkerSound(w)
  BY DEF CrawlInv, CarefulInv
<1>2. \A w \in Worker : crawler[w].job # 0 => crawler[w].pc # "idle"
  BY <1>1 DEF WorkerSound
<1>3. \A v, w \in Worker : crawler[v].job = crawler[w].job => v = w \/ crawler[v].job = 0
  BY <1>2 DEF CrawlInv, CarefulInv
<1>4. ASSUME NEW w \in Worker, crawler[w].job # 0 PROVE queue[crawler[w].job].status = "RUNNING"
  <2>1. queue[crawler[w].job] = [symbol |-> crawler[w].symbol, status |-> "RUNNING"]
    BY <1>1, <1>2, <1>4 DEF WorkerSound
  <2> QED BY <2>1
<1> QED BY <1>3, <1>4

(* Whoever enqueues, claims, requeues, finishes, crashes or clears, no symbol has *)
(* two active jobs; and careful operators' workers never share a job.            *)
THEOREM NoDoubleWork == Spec => []QueueInv
BY CrawlInvariant, InvImplies, PTL

-----------------------------------------------------------------------------
(* How a job can change. *)
LEMMA JobSteps ==
  ASSUME CrawlInv, [Next]_vars, NEW j \in Jobs, queue'[j] # queue[j]
  PROVE  \/ ClearDelete /\ queue'[j].status = "DELETED"
         \/ queue[j].status \in ActiveStatus
<1>1. TypeOK /\ JobsExist /\ Jobs = 1 .. Len(queue)
  BY Rows DEF CrawlInv
<1>2. CASE UNCHANGED queue
  BY <1>2
<1>3. ASSUME NEW a \in Admin, EnqueueInsert(a) PROVE FALSE
  BY <1>1, <1>3, EnqueuedRows
<1>4. ASSUME NEW w \in Worker, Claim(w) PROVE queue[j].status \in ActiveStatus
  BY <1>1, <1>4, ClaimedRows DEF ActiveStatus
<1>5. ASSUME NEW c \in Crawler, NEW status \in {"COMPLETED", "FAILED"}, Leave(c, status)
      PROVE  queue[j].status \in ActiveStatus
  BY <1>1, <1>5, LeftRows DEF JobsExist, ActiveStatus
<1>6. ASSUME NEW L \in SUBSET Symbol, DeactivateNotIn(L) PROVE queue[j].status \in ActiveStatus
  BY <1>1, <1>6, DeactivatedRows DEF ActiveStatus
<1>7. CASE ClearDelete
  BY <1>1, <1>7, ClearedRows
<1>8. ASSUME NEW c \in Crawler, Crawl(c) \/ CrawlAbort(c) \/ Crash(c) PROVE queue[j].status \in ActiveStatus
  BY <1>2, <1>5, <1>8 DEF Crawl, CrawlBegin, CrawlRead, CrawlSave, CrawlFinish, CrawlAbort, Crash
<1>9. ASSUME NEW a \in Admin, Enqueue(a) PROVE FALSE
  BY <1>2, <1>3, <1>9 DEF Enqueue, EnqueueRead
<1>10. CASE UNCHANGED vars
  BY <1>2, <1>10 DEF vars
<1>11. CASE (\E i \in Jobs : Age(i)) \/ (\E s \in Symbol, e \in Exchange : UpsertSecurity(s, e))
           \/ (\E k \in {"queue", "incomplete"} : ClearCheck(k))
           \/ (\E d \in Direct, s \in Symbol, mode \in Mode : DirectCrawl(d, s, mode))
  BY <1>2, <1>11 DEF Age, UpsertSecurity, ClearCheck, DirectCrawl
<1> QED BY <1>4, <1>6, <1>7, <1>8, <1>9, <1>10, <1>11 DEF Next

Kept == \A j \in Jobs : queue[j].status \in {"COMPLETED", "FAILED"} =>
          queue'[j].status \in {queue[j].status, "DELETED"}

LEMMA KeptStep == CrawlInv /\ [Next]_vars => Kept
BY JobSteps DEF Kept, ActiveStatus

(* A document of a careful operators' system is saved by the one worker of   *)
(* its symbol, which found it missing.                                       *)
LEMMA FetchedStep == CrawlInv /\ [Next]_vars => (careful => FetchedStays)
<1> SUFFICES ASSUME CrawlInv, [Next]_vars, careful,
                    NEW s \in Symbol, NEW d \in Doc, documents[s][d] = "SUCCESS"
             PROVE  documents'[s][d] = "SUCCESS"
  BY DEF FetchedStays
<1>1. TypeOK
  BY DEF CrawlInv
<1>2. CASE UNCHANGED documents
  BY <1>2
<1>3. ASSUME NEW w \in Worker, Crawl(w) PROVE documents'[s][d] = "SUCCESS"
  <2>1. CASE CrawlBegin(w)
    <3>1. CASE documents' = [documents EXCEPT ![crawler[w].symbol] =
                  [e \in Doc |-> IF documents[crawler[w].symbol][e] = "MISSING" THEN "PENDING"
                                 ELSE documents[crawler[w].symbol][e]]]
      BY <1>1, <3>1 DEF TypeOK
    <3> QED BY <1>2, <2>1, <3>1 DEF CrawlBegin
  <2>2. ASSUME NEW e \in Doc, NEW o \in {"SUCCESS", "NOT_AVAILABLE", "FAILED"}, CrawlSave(w, e, o)
        PROVE  documents'[s][d] = "SUCCESS"
    <3>1. /\ crawler[w].pc = "fetch" /\ e \in crawler[w].todo
          /\ documents' = [documents EXCEPT ![crawler[w].symbol][e] = o]
      BY <2>2 DEF CrawlSave
    <3>2. documents[crawler[w].symbol][e] # "SUCCESS"
      BY <3>1 DEF CrawlInv, CarefulInv, WorkerSound, Fetched
    <3> QED BY <1>1, <3>1, <3>2 DEF TypeOK
  <2> QED BY <1>2, <1>3, <2>1, <2>2 DEF Crawl, CrawlRead, CrawlFinish
<1>4. ASSUME NEW t \in Symbol, NEW e \in Exchange, UpsertSecurity(t, e) PROVE documents'[s][d] = "SUCCESS"
  <2>1. documents' = [documents EXCEPT ![t] =
           [c \in Doc |-> IF documents[t][c] = "MISSING" THEN "PENDING" ELSE documents[t][c]]]
    BY <1>4 DEF UpsertSecurity
  <2> QED BY <1>1, <2>1 DEF TypeOK
<1>5. CASE (\E a \in Admin : EnqueueInsert(a)) \/ (\E w \in Worker : Claim(w) \/ CrawlAbort(w) \/ Crash(w))
           \/ (\E j \in Jobs : Age(j)) \/ (\E L \in SUBSET Symbol : DeactivateNotIn(L))
  BY <1>2, <1>5 DEF EnqueueInsert, Claim, CrawlAbort, Crash, Age, DeactivateNotIn
<1> QED BY <1>2, <1>3, <1>4, <1>5, CarefulSteps

(* A job that is over stays over, and careful operators never lose a document: *)
(* that one symbol has one active job, and a job one worker, is what keeps two *)
(* crawls from overwriting each other, since a save is unconditional.          *)
THEOREM FinishedStaysFinished == Spec => OutcomesKept
<1>1. CrawlInv /\ [Next]_vars => [Kept]_vars
  BY KeptStep
<1>2. CrawlInv /\ [Next]_vars => [careful => FetchedStays]_vars
  BY FetchedStep
<1>3. Spec => [][Kept]_vars
  BY CrawlInvariant, <1>1, PTL DEF Spec
<1>4. Spec => [][careful => FetchedStays]_vars
  BY CrawlInvariant, <1>2, PTL DEF Spec
<1> QED BY <1>3, <1>4 DEF OutcomesKept, TerminalStays, SuccessKeptByCareful, Kept

LEMMA CompletedStep ==
  ASSUME CrawlInv, [Next]_vars, careful, NEW j \in Jobs,
         queue[j].status # "COMPLETED", queue'[j].status = "COMPLETED"
  PROVE  \A d \in Doc : documents'[queue[j].symbol][d] \in Fetched
<1>1. TypeOK /\ JobsExist /\ Jobs = 1 .. Len(queue) /\ queue[j].symbol \in Symbol
  BY Rows DEF CrawlInv
<1>2. CASE UNCHANGED queue
  BY <1>2
<1>3. ASSUME NEW a \in Admin, EnqueueInsert(a) PROVE FALSE
  BY <1>1, <1>3, EnqueuedRows
<1>4. ASSUME NEW w \in Worker, Claim(w) PROVE \A d \in Doc : documents'[queue[j].symbol][d] \in Fetched
  <2>1. ~NeedsCrawl(queue[j].symbol)
    BY <1>1, <1>4, ClaimedRows
  <2>2. \A d \in Doc : documents[queue[j].symbol][d] \in Fetched
    BY <2>1 DEF NeedsCrawl, ShouldFetch, Fetched
  <2>3. UNCHANGED documents
    BY <1>4 DEF Claim
  <2> QED BY <2>2, <2>3
<1>5. ASSUME NEW w \in Worker, Leave(w, "FAILED") PROVE FALSE
  BY <1>1, <1>5, LeftRows DEF JobsExist, Crawler
<1>6. ASSUME NEW w \in Worker, CrawlFinish(w) PROVE \A d \in Doc : documents'[queue[j].symbol][d] \in Fetched
  <2>1. /\ crawler[w].pc = "fetch" /\ crawler[w].todo = {} /\ UNCHANGED documents
        /\ Leave(w, IF crawler[w].failed THEN "FAILED" ELSE "COMPLETED")
    BY <1>6 DEF CrawlFinish
  <2>2. ~crawler[w].failed
    BY <1>5, <2>1
  <2>3. j = crawler[w].job
    <3>1. Leave(w, "COMPLETED") /\ w \in Crawler
      BY <2>1, <2>2 DEF Crawler
    <3> QED BY <1>1, <3>1, LeftRows DEF JobsExist
  <2>4. WorkerSound(w)
    BY DEF CrawlInv, CarefulInv
  <2>5. queue[j] = [symbol |-> crawler[w].symbol, status |-> "RUNNING"]
    BY <2>1, <2>3, <2>4 DEF WorkerSound
  <2>6. \A d \in Doc : documents[crawler[w].symbol][d] \in Fetched
    BY <2>1, <2>2, <2>4 DEF WorkerSound
  <2> QED BY <2>1, <2>5, <2>6
<1>7. ASSUME NEW w \in Worker, Crawl(w) \/ CrawlAbort(w) \/ Crash(w)
      PROVE  \A d \in Doc : documents'[queue[j].symbol][d] \in Fetched
  BY <1>2, <1>5, <1>6, <1>7 DEF Crawl, CrawlBegin, CrawlRead, CrawlSave, CrawlAbort, Crash
<1>8. ASSUME NEW L \in SUBSET Symbol, DeactivateNotIn(L) PROVE FALSE
  BY <1>1, <1>8, DeactivatedRows
<1>9. CASE (\E i \in Jobs : Age(i)) \/ (\E s \in Symbol, e \in Exchange : UpsertSecurity(s, e))
  BY <1>2, <1>9 DEF Age, UpsertSecurity
<1> QED BY <1>2, <1>3, <1>4, <1>7, <1>8, <1>9, CarefulSteps

(* A job of careful operators is COMPLETED by a claim that finds nothing to  *)
(* fetch or by its own worker, who has fetched everything since: no other    *)
(* crawl of the symbol undoes it in between.                                 *)
THEOREM CompletedIsFetched == Spec => CompletedMeansFetched
<1> DEFINE Done == \A j \in Jobs :
       (careful /\ queue[j].status # "COMPLETED" /\ queue'[j].status = "COMPLETED") =>
         \A d \in Doc : documents'[queue[j].symbol][d] \in {"SUCCESS", "NOT_AVAILABLE"}
<1>1. CrawlInv /\ [Next]_vars => Done
  BY CompletedStep DEF Fetched
<1>2. CrawlInv /\ [Next]_vars => [Done]_vars
  BY <1>1
<1> HIDE DEF Done
<1>3. Spec => [][Done]_vars
  BY CrawlInvariant, <1>2, PTL DEF Spec
<1> QED BY <1>3 DEF CompletedMeansFetched, Done
=============================================================================
