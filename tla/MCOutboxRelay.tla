--------------------------- MODULE MCOutboxRelay ---------------------------
(***************************************************************************)
(* OutboxRelay with the relays of two replicas.                            *)
(***************************************************************************)
EXTENDS OutboxRelay

CONSTANTS r1, r2
=============================================================================
