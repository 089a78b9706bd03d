----------------------------- MODULE CrawlQueue -----------------------------
(***************************************************************************)
(* The finance crawl queue: the table qport_finance.crawl_queue, the local *)
(* workers that consume it (scripts/finance_worker.py), crawl_symbol,      *)
(* which fills the table of financial documents, and the administrator's   *)
(* operations on both.  Each action is one database transaction.           *)
(*                                                                         *)
(* Abstracted: the payload of a document and its canonical facts (written  *)
(* in the transaction of the SUCCESS row), the crawl_runs audit row (no    *)
(* code reads it), the grouping of periods by endpoint (any document of a  *)
(* crawl may fail), and the growth of the set of required periods.         *)
(***************************************************************************)
EXTENDS Integers, Sequences, FiniteSets, SequencesExt

CONSTANTS
  Symbol,            \* symbols of the universe
  Doc,               \* required (document type, period) keys of a symbol
  Worker,            \* finance_worker.py processes
  Direct,            \* users' and administrators' own calls of crawl_symbol
  Admin,             \* administrators' calls of enqueue_crawl_all
  None,              \* "no symbol"
  StartExchange,     \* exchange of each symbol at the start
  StartDocuments,    \* document rows that earlier crawls may have left
  MaxJobs, MaxCrashes, MaxSyncs        \* bounds of the instance

ASSUME QueueConstants ==
  /\ IsFiniteSet(Symbol)
  /\ Worker \intersect Direct = {}
  /\ StartExchange \in [Symbol -> {"HOSE", "HNX", "UPCOM"}]
  /\ StartDocuments \subseteq
       [Symbol -> [Doc -> {"MISSING", "PENDING", "FAILED", "SUCCESS", "NOT_AVAILABLE"}]]
  /\ {MaxJobs, MaxCrashes, MaxSyncs} \subseteq Nat

Exchange == {"HOSE", "HNX", "UPCOM"}
WorkerExchange == {"HOSE", "HNX"}                 \* WORKER_CRAWL_EXCHANGES
DocStatus == {"MISSING", "PENDING", "FAILED", "SUCCESS", "NOT_AVAILABLE"}
ActiveStatus == {"QUEUED", "RUNNING"}
JobStatus == ActiveStatus \union {"COMPLETED", "FAILED", "DELETED"}
Crawler == Worker \union Direct

VARIABLES
  exchange,    \* securities.exchange
  active,      \* securities.is_active
  documents,   \* status of each document row, MISSING when there is no row
  queue,       \* crawl_queue rows by id, as records of symbol and status
  aged,        \* RUNNING jobs whose started_at is before the stale cutoff
  crawler,     \* program counter, job, symbol, mode, documents to fetch, failures
  wanted,      \* symbols an enqueue_crawl_all has read and not yet inserted
  clearing,    \* the clear command between its check and its deletes
  crashes, syncs,
  careful      \* how the operators run it, see Init

vars == <<exchange, active, documents, queue, aged, crawler, wanted, clearing,
          crashes, syncs, careful>>

(* crawl_symbol fetches what is not there, or also what is (force_refresh),  *)
(* or what failed (retry_failed_only).                                       *)
Mode == {"new", "force", "retry"}
Idle == [pc |-> "idle", job |-> 0, symbol |-> None, mode |-> "new", todo |-> {},
         failed |-> FALSE]
Starting(job, s, mode) ==
  [pc |-> "begin", job |-> job, symbol |-> s, mode |-> mode, todo |-> {}, failed |-> FALSE]

Jobs == 1 .. Len(queue)

ActiveJobs(q, s) ==
  {j \in 1 .. Len(q) : q[j].symbol = s /\ q[j].status \in ActiveStatus}

(* _should_fetch_document *)
ShouldFetch(status, retryOnly) ==
  /\ status \notin {"SUCCESS", "NOT_AVAILABLE"}
  /\ retryOnly => status = "FAILED"

(* _has_missing_or_incomplete_documents, _symbol_needs_crawl *)
NeedsCrawl(s) == \E d \in Doc : ShouldFetch(documents[s][d], FALSE)

TypeOK ==
  /\ exchange \in [Symbol -> Exchange]
  /\ active \in [Symbol -> BOOLEAN]
  /\ documents \in [Symbol -> [Doc -> DocStatus]]
  /\ queue \in Seq([symbol : Symbol, status : JobStatus])
  /\ Len(queue) <= MaxJobs
  /\ aged \subseteq {j \in Jobs : queue[j].status \in {"RUNNING", "DELETED"}}
  /\ crawler \in [Crawler -> [pc : {"idle", "begin", "read", "fetch"},
                              job : 0 .. MaxJobs,
                              symbol : Symbol \union {None},
                              mode : Mode,
                              todo : SUBSET Doc,
                              failed : BOOLEAN]]
  /\ wanted \in [Admin -> SUBSET Symbol]
  /\ clearing \in {"no", "queue", "incomplete"}
  /\ crashes \in 0 .. MaxCrashes
  /\ syncs \in 0 .. MaxSyncs
  /\ careful \in BOOLEAN

(* Careful operators give --stale-after-seconds more than any live crawl     *)
(* takes, do not use --retry-failed-only, crawl through the queue only, and  *)
(* clear neither the queue nor the documents.                                *)
Init ==
  /\ exchange = StartExchange
  /\ active = [s \in Symbol |-> TRUE]
  /\ documents \in StartDocuments
  /\ queue = <<>>
  /\ aged = {}
  /\ crawler = [c \in Crawler |-> Idle]
  /\ wanted = [a \in Admin |-> {}]
  /\ clearing = "no"
  /\ crashes = 0
  /\ syncs = 0
  /\ careful \in BOOLEAN

-----------------------------------------------------------------------------
(* enqueue_crawl_all: the symbols that need a crawl and have no active job  *)
(* are read first ...                                                       *)
EnqueueRead(a, exchanges) ==
  /\ wanted[a] = {}
  /\ wanted' = [wanted EXCEPT ![a] =
       {s \in Symbol : /\ active[s]
                       /\ exchange[s] \in exchanges
                       /\ NeedsCrawl(s)
                       /\ ActiveJobs(queue, s) = {}}]
  /\ UNCHANGED <<exchange, active, documents, queue, aged, crawler, clearing,
                 crashes, syncs, careful>>

(* INSERT ... ON CONFLICT DO NOTHING against idx_finance_queue_active *)
Unclaimed(S) == {s \in S : ActiveJobs(queue, s) = {}}

(* ... and inserted one by one, in the order in which the database happened *)
(* to return them; an insert that conflicts does nothing.                   *)
EnqueueInsert(a) ==
  /\ wanted[a] # {}
  /\ \E order \in SetToSeqs(Unclaimed(wanted[a])) :
       /\ Len(queue) + Len(order) <= MaxJobs
       /\ queue' = queue \o [i \in DOMAIN order |-> [symbol |-> order[i], status |-> "QUEUED"]]
  /\ wanted' = [wanted EXCEPT ![a] = {}]
  /\ UNCHANGED <<exchange, active, documents, aged, crawler, clearing,
                 crashes, syncs, careful>>

-----------------------------------------------------------------------------
Requeued_Never(q) == q

Requeued_AllRunning(q) ==
  [j \in DOMAIN q |->
     IF q[j].status = "RUNNING" THEN [q[j] EXCEPT !.status = "QUEUED"] ELSE q[j]]

(* claim_next_crawl_job, one transaction: stale RUNNING jobs are queued     *)
(* again, queued jobs of inactive securities fail, and the queued jobs are  *)
(* taken in order, HOSE first, completing those with nothing to fetch until *)
(* one needs a crawl.  --retry-failed-only is an argument of the worker.    *)
Requeued(q) ==
  [j \in DOMAIN q |->
     IF q[j].status = "RUNNING" /\ j \in aged
     THEN [q[j] EXCEPT !.status = "QUEUED"] ELSE q[j]]

Filtered(q) ==
  [j \in DOMAIN q |->
     IF q[j].status = "QUEUED" /\ ~active[q[j].symbol]
     THEN [q[j] EXCEPT !.status = "FAILED"] ELSE q[j]]

Before(q, i, j) ==
  LET rank(k) == IF exchange[q[k].symbol] = "HOSE" THEN 0 ELSE 1
  IN  rank(i) < rank(j) \/ (rank(i) = rank(j) /\ i < j)

WorkerMode == IF careful THEN {"new"} ELSE {"new", "retry"}

Claim(w) ==
  /\ crawler[w].pc = "idle"
  /\ LET q == Filtered(Requeued(queue))
         listed == {j \in DOMAIN q : /\ q[j].status = "QUEUED"
                                     /\ exchange[q[j].symbol] \in WorkerExchange}
         needing == {j \in listed : NeedsCrawl(q[j].symbol)}
         next == {j \in needing : \A i \in needing \ {j} : Before(q, j, i)}
         skipped == {i \in listed \ needing : \A j \in next : Before(q, i, j)}
     IN  /\ queue' = [j \in DOMAIN q |->
                        CASE j \in next    -> [q[j] EXCEPT !.status = "RUNNING"]
                          [] j \in skipped -> [q[j] EXCEPT !.status = "COMPLETED"]
                          [] OTHER         -> q[j]]
         /\ IF next = {} THEN UNCHANGED crawler
            ELSE \E j \in next, mode \in WorkerMode :
                   crawler' = [crawler EXCEPT ![w] = Starting(j, q[j].symbol, mode)]
         /\ aged' = {j \in aged : queue[j].status # "RUNNING"}
  /\ UNCHANGED <<exchange, active, documents, wanted, clearing, crashes, syncs, careful>>

(* POST /api/admin/finance-data/crawl and /{symbol}/retry, and the user's    *)
(* /api/portfolio/valuation/{symbol}/crawl: no queue job                     *)
DirectCrawl(d, s, mode) ==
  /\ ~careful
  /\ crawler[d].pc = "idle"
  /\ crawler' = [crawler EXCEPT ![d] = Starting(0, s, mode)]
  /\ UNCHANGED <<exchange, active, documents, queue, aged, wanted, clearing,
                 crashes, syncs, careful>>

FinishJob_AnyStatus(q, j, status) ==
  IF j # 0 THEN [q EXCEPT ![j].status = status] ELSE q

(* finish_crawl_job: UPDATE ... WHERE id=? AND status='RUNNING' *)
FinishJob(q, j, status) ==
  IF j # 0 /\ q[j].status = "RUNNING" THEN [q EXCEPT ![j].status = status] ELSE q

Leave(c, status) ==
  /\ queue' = FinishJob(queue, crawler[c].job, status)
  /\ aged' = IF queue' = queue THEN aged ELSE aged \ {crawler[c].job}
  /\ crawler' = [crawler EXCEPT ![c] = Idle]

(* crawl_symbol: a security that is not an active equity is refused;        *)
(* otherwise ensure_required_documents inserts the missing placeholders.    *)
CrawlBegin(c) ==
  /\ crawler[c].pc = "begin"
  /\ \/ /\ ~active[crawler[c].symbol]
        /\ Leave(c, "FAILED")
        /\ UNCHANGED documents
     \/ /\ active[crawler[c].symbol]
        /\ documents' = [documents EXCEPT ![crawler[c].symbol] =
             [d \in Doc |-> IF @[d] = "MISSING" THEN "PENDING" ELSE @[d]]]
        /\ crawler' = [crawler EXCEPT ![c].pc = "read"]
        /\ UNCHANGED <<queue, aged>>
  /\ UNCHANGED <<exchange, active, wanted, clearing, crashes, syncs, careful>>

(* crawl_symbol: the statuses are read once and decide what is fetched of    *)
(* all documents, or of the one document an administrator retries.           *)
Scopes(c) ==
  IF c \in Direct /\ crawler[c].mode = "retry" THEN {{d} : d \in Doc} ELSE {Doc}

Fetches(c, d) ==
  \/ crawler[c].mode = "force"
  \/ ShouldFetch(documents[crawler[c].symbol][d], crawler[c].mode = "retry")

CrawlRead(c) ==
  /\ crawler[c].pc = "read"
  /\ \E scope \in Scopes(c) :
       crawler' = [crawler EXCEPT ![c] =
         [crawler[c] EXCEPT !.pc = "fetch", !.todo = {d \in scope : Fetches(c, d)}]]
  /\ UNCHANGED <<exchange, active, documents, queue, aged, wanted, clearing,
                 crashes, syncs, careful>>

(* _save_document: the row of the document is inserted or overwritten *)
CrawlSave(c, d, outcome) ==
  /\ crawler[c].pc = "fetch"
  /\ d \in crawler[c].todo
  /\ documents' = [documents EXCEPT ![crawler[c].symbol][d] = outcome]
  /\ crawler' = [crawler EXCEPT ![c] =
       [crawler[c] EXCEPT !.todo = @ \ {d}, !.failed = @ \/ outcome = "FAILED"]]
  /\ UNCHANGED <<exchange, active, queue, aged, wanted, clearing, crashes, syncs, careful>>

CrawlFinish_IgnoreFailures(c) ==
  /\ crawler[c].pc = "fetch"
  /\ crawler[c].todo = {}
  /\ Leave(c, "COMPLETED")
  /\ UNCHANGED <<exchange, active, documents, wanted, clearing, crashes, syncs, careful>>

(* The end of crawl_symbol and the worker's finish_crawl_job: the job is    *)
(* COMPLETED when no document failed.                                       *)
CrawlFinish(c) ==
  /\ crawler[c].pc = "fetch"
  /\ crawler[c].todo = {}
  /\ Leave(c, IF crawler[c].failed THEN "FAILED" ELSE "COMPLETED")
  /\ UNCHANGED <<exchange, active, documents, wanted, clearing, crashes, syncs, careful>>

(* An exception leaves crawl_symbol (TcbsAuthRequiredError, the database),  *)
(* even after the last document was saved: the job is finished as FAILED.   *)
CrawlAbort(c) ==
  /\ crawler[c].pc # "idle"
  /\ Leave(c, "FAILED")
  /\ UNCHANGED <<exchange, active, documents, wanted, clearing, crashes, syncs, careful>>

(* The process of a crawl dies; a worker is started again by hand. *)
Crash(c) ==
  /\ crashes < MaxCrashes
  /\ crawler[c].pc # "idle"
  /\ crawler' = [crawler EXCEPT ![c] = Idle]
  /\ crashes' = crashes + 1
  /\ UNCHANGED <<exchange, active, documents, queue, aged, wanted, clearing, syncs, careful>>

(* stale_after_seconds pass since a job was claimed; careful operators see  *)
(* to it that they only pass for a job nobody is working on.                *)
Age(j) ==
  /\ queue[j].status = "RUNNING"
  /\ j \notin aged
  /\ careful => \A w \in Worker : crawler[w].job # j
  /\ aged' = aged \union {j}
  /\ UNCHANGED <<exchange, active, documents, queue, crawler, wanted, clearing,
                 crashes, syncs, careful>>

-----------------------------------------------------------------------------
(* sync_universe: each listed security is upserted, active, with the        *)
(* exchange it now has and its document placeholders ...                    *)
UpsertSecurity(s, e) ==
  /\ syncs < MaxSyncs
  /\ exchange' = [exchange EXCEPT ![s] = e]
  /\ active' = [active EXCEPT ![s] = TRUE]
  /\ documents' = [documents EXCEPT ![s] =
       [d \in Doc |-> IF @[d] = "MISSING" THEN "PENDING" ELSE @[d]]]
  /\ syncs' = syncs + 1
  /\ UNCHANGED <<queue, aged, crawler, wanted, clearing, crashes, careful>>

(* ... and then _deactivate_securities_not_in hides the others and fails    *)
(* their queued jobs.  A listed security has been upserted: it is active.   *)
DeactivateNotIn(listed) ==
  /\ syncs < MaxSyncs
  /\ listed # {}
  /\ \A s \in listed : active[s]
  /\ active' = [s \in Symbol |-> active[s] /\ s \in listed]
  /\ queue' = [j \in Jobs |->
       IF queue[j].status = "QUEUED" /\ queue[j].symbol \notin listed
       THEN [queue[j] EXCEPT !.status = "FAILED"] ELSE queue[j]]
  /\ syncs' = syncs + 1
  /\ UNCHANGED <<exchange, documents, aged, crawler, wanted, clearing, crashes, careful>>

(* clear_finance_queue and clear_incomplete_finance_data: one transaction   *)
(* that counts the RUNNING jobs and, if there are none, deletes.  At READ   *)
(* COMMITTED the deletes see what was committed after the count.            *)
ClearCheck(kind) ==
  /\ ~careful
  /\ clearing = "no"
  /\ \A j \in Jobs : queue[j].status # "RUNNING"
  /\ clearing' = kind
  /\ UNCHANGED <<exchange, active, documents, queue, aged, crawler, wanted,
                 crashes, syncs, careful>>

ClearDelete ==
  /\ clearing # "no"
  /\ queue' = [j \in Jobs |-> [queue[j] EXCEPT !.status = "DELETED"]]
  /\ documents' =
       IF clearing = "incomplete"
       THEN [s \in Symbol |-> [d \in Doc |->
               IF documents[s][d] = "SUCCESS" THEN "SUCCESS" ELSE "MISSING"]]
       ELSE documents
  /\ clearing' = "no"
  /\ UNCHANGED <<exchange, active, aged, crawler, wanted, crashes, syncs, careful>>

-----------------------------------------------------------------------------
Enqueue(a) ==
  \/ \E E \in {WorkerExchange, {"HOSE"}, {"HNX"}} : EnqueueRead(a, E)
  \/ EnqueueInsert(a)

Crawl(c) ==
  \/ CrawlBegin(c)
  \/ CrawlRead(c)
  \/ \E d \in Doc, o \in {"SUCCESS", "NOT_AVAILABLE", "FAILED"} : CrawlSave(c, d, o)
  \/ CrawlFinish(c)

Next ==
  \/ \E a \in Admin : Enqueue(a)
  \/ \E w \in Worker : Claim(w)
  \/ \E d \in Direct, s \in Symbol, mode \in Mode : DirectCrawl(d, s, mode)
  \/ \E c \in Crawler : Crawl(c) \/ CrawlAbort(c) \/ Crash(c)
  \/ \E j \in Jobs : Age(j)
  \/ \E s \in Symbol, e \in Exchange : UpsertSecurity(s, e)
  \/ \E L \in SUBSET Symbol : DeactivateNotIn(L)
  \/ \E k \in {"queue", "incomplete"} : ClearCheck(k)
  \/ ClearDelete

Spec == Init /\ [][Next]_vars

(* The operator keeps starting the worker, a worker that runs goes on, and  *)
(* time passes.  Nothing obliges an administrator to act.                   *)
Fairness ==
  /\ \A w \in Worker : WF_vars(Claim(w)) /\ WF_vars(Crawl(w))
  /\ \A j \in 1 .. MaxJobs : WF_vars(j \in Jobs /\ Age(j))

-----------------------------------------------------------------------------
(* At most one QUEUED or RUNNING job per symbol, whoever enqueues, claims,  *)
(* requeues or finishes: two enqueue_crawl_all that read the same queue     *)
(* rely on the partial unique index alone.                                  *)
OneActiveJob ==
  \A s \in Symbol : \A i, j \in ActiveJobs(queue, s) : i = j

(* With careful operators, a RUNNING job has at most one worker and a        *)
(* worker's job is still RUNNING when it finishes, across crashes, requeues  *)
(* and concurrent claims.                                                    *)
OneWorkerPerJob ==
  careful =>
    /\ \A v, w \in Worker : crawler[v].job = crawler[w].job =>
                              v = w \/ crawler[v].job = 0
    /\ \A w \in Worker : crawler[w].job # 0 =>
                           queue[crawler[w].job].status = "RUNNING"

(* The tables are well typed, no symbol has two active jobs and no job two   *)
(* workers.                                                                  *)
QueueInv == TypeOK /\ OneActiveJob /\ OneWorkerPerJob

(* A job that is COMPLETED or FAILED keeps that status until it is deleted:  *)
(* a worker that finishes late, after its job was queued again and finished  *)
(* by another, changes nothing.                                              *)
TerminalStays ==
  [][\A j \in Jobs : queue[j].status \in {"COMPLETED", "FAILED"} =>
       queue'[j].status \in {queue[j].status, "DELETED"}]_vars

(* With careful operators, a job becomes COMPLETED only when every required  *)
(* document of its symbol is there or is known not to exist.                 *)
CompletedMeansFetched ==
  [][\A j \in Jobs :
       (careful /\ queue[j].status # "COMPLETED" /\ queue'[j].status = "COMPLETED") =>
         \A d \in Doc : documents'[queue[j].symbol][d] \in {"SUCCESS", "NOT_AVAILABLE"}]_vars

(* A document that was fetched stays fetched: a crawl that is not told to    *)
(* refresh it skips it instead of overwriting it with a failure.             *)
FetchedStays ==
  \A s \in Symbol, d \in Doc :
    documents[s][d] = "SUCCESS" =>
      \/ documents'[s][d] = "SUCCESS"
      \/ \E c \in Direct : crawler[c].symbol = s /\ crawler[c].mode = "force"

(* docs/finance-data-sync.md: "Existing SUCCESS documents are skipped", and  *)
(* careful operators never lose one.                                         *)
SuccessKeptByCareful == [][careful => FetchedStays]_vars

(* What is finished stays finished: the outcome of a job, and what was fetched. *)
OutcomesKept == TerminalStays /\ SuccessKeptByCareful

(* The same of any operators. *)
SuccessPreserved == [][FetchedStays]_vars

(* With careful operators, every job leaves the queue, through the crash of  *)
(* its worker too, unless its symbol has moved to UPCOM, which               *)
(* claim_next_crawl_job never selects.                                       *)
JobsFinish ==
  \A j \in 1 .. MaxJobs :
    (careful /\ j \in Jobs /\ queue[j].status \in ActiveStatus)
      ~> (j \in Jobs /\ (\/ queue[j].status \notin ActiveStatus
                         \/ exchange[queue[j].symbol] = "UPCOM"))
=============================================================================
