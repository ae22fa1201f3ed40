------------------------- MODULE MCPaymentIntents -------------------------
(***************************************************************************)
(* Instances of PaymentIntents for TLC.                                    *)
(***************************************************************************)
EXTENDS PaymentIntents

CONSTANTS k1, t1, v1, v2, q1, q2, p1, p2
=============================================================================
