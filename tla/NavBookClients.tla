---------------------------- MODULE NavBookClients ----------------------------
(***************************************************************************)
(* NavBook driven by its clients: all requests at once, or one client that *)
(* waits for each answer before its next request, which is what the code's *)
(* promises about the history as a whole are for.                          *)
(***************************************************************************)
EXTENDS NavBook

ASSUME SomeRequest == Requests # {}

\* The requests of a behaviour.
VARIABLE clients

OneClient == {CHOOSE r \in Requests : TRUE}
Alone == clients = OneClient

ClientInit == Init /\ clients \in {OneClient, Requests}
ClientNext ==
    /\ \E r \in clients : Begin(r) \/ Continue(r) \/ Crash(r)
    /\ UNCHANGED clients
ClientSpec == ClientInit /\ [][ClientNext]_<<vars, clients>>

Undisturbed == Alone /\ crashes = 0

\* SnapshotsFollowLedger for one client, up to the first crash
\* (correctable_service.py _refresh_derived_history, service.py sync_daily).
FollowsForOneClient == Undisturbed => SnapshotsFollowLedger

\* HistoricalFlags for one client, up to the first crash and while the stored bars fit
\* in one rebuild's read: a published NAV changes only after
\* _mark_restatement_if_needed or append_event has flagged its date.
FlaggedForOneClient == [][(Undisturbed /\ Fits)' => HistoricalFlags]_<<vars, clients>>
===============================================================================
