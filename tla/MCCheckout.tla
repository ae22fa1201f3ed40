---------------------------- MODULE MCCheckout ----------------------------
(***************************************************************************)
(* Instances of Checkout for TLC.                                          *)
(***************************************************************************)
EXTENDS Checkout

CONSTANTS k1, k2, q1, q2
=============================================================================
