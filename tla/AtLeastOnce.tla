---------------------------- MODULE AtLeastOnce ----------------------------
(***************************************************************************)
(* What the transactional Outbox of commerce promises to the services: an  *)
(* event that a transaction committed is handed to the broker's queues at  *)
(* least once, possibly again and possibly after later ones, and it is     *)
(* called published only after it was.                                     *)
(***************************************************************************)
CONSTANTS Events

VARIABLES
    committed,  \* events whose transaction committed
    delivered,  \* events that are or were in a queue
    settled     \* events that are called published

vars == <<committed, delivered, settled>>

Init == committed = {} /\ delivered = {} /\ settled = {}

Commit(e) ==
    /\ e \notin committed
    /\ committed' = committed \cup {e}
    /\ UNCHANGED <<delivered, settled>>

Deliver(e) ==
    /\ e \in committed
    /\ delivered' = delivered \cup {e}
    /\ UNCHANGED <<committed, settled>>

Settle(e) ==
    /\ e \in delivered
    /\ settled' = settled \cup {e}
    /\ UNCHANGED <<committed, delivered>>

Next == \E e \in Events : Commit(e) \/ Deliver(e) \/ Settle(e)

Safety == Init /\ [][Next]_vars

Spec == Safety /\ \A e \in Events : WF_vars(Deliver(e)) /\ WF_vars(Settle(e))
=============================================================================
