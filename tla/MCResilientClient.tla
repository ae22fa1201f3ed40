------------------------- MODULE MCResilientClient -------------------------
(***************************************************************************)
(* ResilientClient with three goroutines that share an upstream.           *)
(***************************************************************************)
EXTENDS ResilientClient

CONSTANTS g1, g2, g3
=============================================================================
