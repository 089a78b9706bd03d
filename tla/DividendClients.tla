---------------------------- MODULE DividendClients ----------------------------
(***************************************************************************)
(* DividendPosting driven by its clients: all requests at once, or one     *)
(* client that waits for each answer before its next request or trade.     *)
(***************************************************************************)
EXTENDS DividendPosting

ASSUME SomeRequest == Requests # {}

\* The requests of a behaviour.
VARIABLE clients

OneClient == {CHOOSE r \in Requests : TRUE}
Alone == clients = OneClient

ClientInit == Init /\ clients \in {OneClient, Requests}
ClientNext ==
    /\ \/ (Alone => Quiet) /\ (UserStep \/ NextDay)
       \/ \E r \in clients : Begin(r) \/ Continue(r) \/ Crash(r)
    /\ UNCHANGED clients
ClientSpec == ClientInit /\ [][ClientNext]_<<vars, clients>>

Undisturbed == Alone /\ crashes = 0

\* PostedOnce for one client that no crash has interrupted: the automatic and the
\* manual workflow never post the same dividend twice.
PostedOnceForOneClient == Undisturbed => PostedOnce

\* OpeningLeftOut for one client that no crash has interrupted, in auto_post_due_dividends
\* as well as in post_corporate_action_receipt.
OpeningNotPaidAgain == [][Undisturbed' => OpeningLeftOut]_<<vars, clients>>
===============================================================================
