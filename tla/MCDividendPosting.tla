---------------------------- MODULE MCDividendPosting ----------------------------
(***************************************************************************)
(* DividendPosting with a cash and a stock dividend of one issuer, and one *)
(* client that waits for each answer and may be killed, or two overlapping *)
(* requests.                                                               *)
(***************************************************************************)
EXTENDS DividendClients

MCDividends ==
    { [type |-> "CASH", ex |-> 2, record |-> 3, pay |-> 3, rate |-> 1],
      [type |-> "STOCK", ex |-> 2, record |-> 2, pay |-> 3, rate |-> 1] }

MCTrades == {<<"BUY", 1>>, <<"SELL", 3>>}
\* Bound: received on day 2, which is still to come on day 1 and over on day 3.
MCReceipts == {[CASH |-> 1, STOCK |-> 1, date |-> 2]}

\* Bounds: a client that is killed leaves the receipts and their verification to
\* the daily sync; overlapping requests have one cash dividend, no sale and no
\* opening import.
Bounded ==
    \/ Alone /\ crashes' = 0
    \/ /\ Alone /\ verified' = {}
       /\ \A a \in Ids : receipts'[a] # NoReceipt => \E k \in PostingTypes : postings'[<<a, k>>] # 0
    \/ /\ ~Alone /\ crashes' = 0 /\ start' = 0 /\ Len(ledger') <= 3 /\ Len(actions') <= 1
       /\ \A e \in Effective' : e.kind \in {"BUY", "CASH"}
       /\ \A a \in DOMAIN actions' : actions'[a].terms.type = "CASH"

MCNext == ClientNext /\ Bounded

\* The daily cron runs the sync again and again, and a request goes on.
MCSpec ==
    /\ ClientInit /\ [][MCNext]_<<vars, clients>>
    /\ \A r \in OneClient : WF_vars(Continue(r)) /\ SF_vars(BeginSync(r))

\* Every payable dividend arrives for one client, whatever was killed.
DividendsArrive == []<>(~Alone \/ Arrived)
=================================================================================
