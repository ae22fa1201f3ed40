------------------------------- MODULE Saga -------------------------------
(***************************************************************************)
(* What a workflow promises its starter, without commands, leases or       *)
(* workers: the actions take effect one after the other; when one is       *)
(* rejected for good the effects are taken back one after the other, last  *)
(* first; the workflow ends with all of the effects or with none.          *)
(* Compensation may get stuck, and then waits for an operator.             *)
(***************************************************************************)
EXTENDS Integers

CONSTANTS
    Workflows,
    Steps      \* the number of actions of each workflow

VARIABLES
    phase,   \* new, forward, backward, stuck, or how the workflow ended
    depth    \* the number of actions whose effects are in place

SagaInit ==
    /\ phase = [w \in Workflows |-> "new"]
    /\ depth = [w \in Workflows |-> 0]

Reject(w) ==
    /\ phase[w] = "new"
    /\ phase' = [phase EXCEPT ![w] = "rejected"]
    /\ UNCHANGED depth

Begin(w) ==
    /\ phase[w] = "new"
    /\ phase' = [phase EXCEPT ![w] = "forward"]
    /\ UNCHANGED depth

Advance(w) ==
    /\ phase[w] = "forward"
    /\ depth' = [depth EXCEPT ![w] = depth[w] + 1]
    /\ phase' = [phase EXCEPT ![w] = IF depth[w] + 1 = Steps[w] THEN "succeeded" ELSE "forward"]

TurnBack(w) ==
    /\ phase[w] = "forward"
    /\ phase' = [phase EXCEPT ![w] = IF depth[w] = 0 THEN "compensated" ELSE "backward"]
    /\ UNCHANGED depth

Undo(w) ==
    /\ phase[w] \in {"backward", "stuck"}
    /\ depth' = [depth EXCEPT ![w] = depth[w] - 1]
    /\ phase' = [phase EXCEPT ![w] = IF depth[w] = 1 THEN "compensated" ELSE "backward"]

GiveUp(w) ==
    /\ phase[w] = "backward"
    /\ phase' = [phase EXCEPT ![w] = "stuck"]
    /\ UNCHANGED depth

Resume(w) ==
    /\ phase[w] = "stuck"
    /\ phase' = [phase EXCEPT ![w] = "backward"]
    /\ UNCHANGED depth

SagaStep(w) ==
    Reject(w) \/ Begin(w) \/ Advance(w) \/ TurnBack(w) \/ Undo(w) \/ GiveUp(w) \/ Resume(w)

SagaNext == \E w \in Workflows : SagaStep(w)

SagaSpec == SagaInit /\ [][SagaNext]_<<phase, depth>>
=============================================================================
