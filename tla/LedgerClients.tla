---------------------------- MODULE LedgerClients -----------------------------
(***************************************************************************)
(* Ledger driven by its clients: all requests at once, or one client that  *)
(* waits for each answer before its next request.                          *)
(***************************************************************************)
EXTENDS Ledger

ASSUME SomeRequest == Requests # {}

\* The requests of a behaviour.
VARIABLE clients

OneClient == {CHOOSE r \in Requests : TRUE}
Alone == clients = OneClient

ClientInit == Init /\ clients \in {OneClient, Requests}
ClientNext ==
    /\ \E r \in clients : Begin(r) \/ Finish(r)
    /\ UNCHANGED clients
ClientSpec == ClientInit /\ [][ClientNext]_<<vars, clients>>

\* For a client that waits for each answer the versions and correction rows implement
\* the ledger that corrections.py promises: one list of transactions, changed one at a
\* time, that always replays.
ForOneClient == INSTANCE EffectiveLedger
                    WITH ledger <- IF Alone THEN EffectiveEvents ELSE {}, Valid <- ValidLedger
ImplementsForOneClient == ForOneClient!Spec
===============================================================================
