------------------------------- MODULE MCNavBook -------------------------------
(***************************************************************************)
(* NavBook with one client that waits for each answer and may be killed,   *)
(* or with two overlapping requests.                                       *)
(***************************************************************************)
EXTENDS NavBookClients

CONSTANTS FPT, MWG

\* Bounds: one client records two events, or three when it deposits, withdraws, and
\* then imports FPT; overlapping requests record one event of FPT; a client that is killed
\* has no other symbol, records two events and edits nothing.
Seen == ledger \cup UNION {req[r].ledger : r \in Requests}
               \cup UNION {snaps[d].events \cup shown[d].events : d \in Dates}

Spent == <<Deposit, Withdrawal, FPT>>

Bounded ==
    \/ /\ Alone /\ crashes' = 0
       /\ (\A e \in Seen' : e.id <= 2) \/ (\A e \in Seen' : e.sym = Spent[e.id] /\ e.rev = 0)
    \/ /\ \A e \in Seen' : e.sym # MWG
       /\ IF Alone THEN \A e \in Seen' : e.rev = 0 /\ e.id <= 2
          ELSE recorded' <= 1 /\ \A r \in Requests : \A e \in req'[r].ledger : e.id = 1

MCNext == ClientNext /\ Bounded

\* A daily cron calls the sync, and a request that is not killed goes on.
MCSpec ==
    /\ ClientInit /\ [][MCNext]_<<vars, clients>>
    /\ \A r \in OneClient : WF_vars(Continue(r)) /\ SF_vars(BeginSync(r))

\* The history heals for one client, whatever was killed.
HealsForOneClient ==
    []<>(~Alone \/ Healed)
===============================================================================
