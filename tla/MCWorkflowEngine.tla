------------------------ MODULE MCWorkflowEngine ------------------------
(***************************************************************************)
(* Instances of WorkflowEngine for TLC.                                    *)
(***************************************************************************)
EXTENDS WorkflowEngine

CONSTANTS wf1, wf2, r1, r2, api, ctxA, ctxB

\* No deployment of the repository sets INSTANCE_ID: every replica has the
\* default of cmd/payment/main.go.
DefaultOwner == [o \in {r1, r2} |-> "payment-1"]

NoOwner == [o \in {} |-> o]
=============================================================================
