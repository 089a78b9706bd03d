--------------------------- MODULE EffectiveLedger ----------------------------
(***************************************************************************)
(* What a client is promised of a ledger: it is a set of transactions that *)
(* changes by recording one, correcting one or discarding one, always into *)
(* a set that replays.  Requests, versions, correction rows and views are  *)
(* not visible here.                                                       *)
(***************************************************************************)
EXTENDS Integers

CONSTANT Valid(_)       \* which sets of transactions replay

VARIABLE ledger

Init == ledger = {}

Record ==
    \E e \in ledger' :
        /\ \A d \in ledger : d.id < e.id
        /\ ledger' = ledger \cup {e}

Correct ==
    \E d \in ledger, e \in ledger' :
        /\ e.id = d.id /\ e.date = d.date /\ e.sym = d.sym
        /\ ledger' = (ledger \ {d}) \cup {e}

Discard ==
    \E d \in ledger :
        /\ ~d.generated
        /\ ledger' = ledger \ {d}

Next == (Record \/ Correct \/ Discard) /\ Valid(ledger')

Spec == Init /\ [][Next]_ledger
===============================================================================
