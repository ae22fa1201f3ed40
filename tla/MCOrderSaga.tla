---------------------------- MODULE MCOrderSaga ----------------------------
(***************************************************************************)
(* Instances of OrderSaga for TLC.                                         *)
(***************************************************************************)
EXTENDS OrderSaga

CONSTANTS o1, o2

MCOnHand == <<1, 1>>

\* o2 takes both locations when it can, which no order is placed with.
MCQuantity == [o \in Orders |-> IF o = o1 THEN 1 ELSE 2]

\* Webhooks come for one of the orders, with its price or with another amount.
MCAmounts == [o \in Orders |-> IF o = o1 THEN {1, 2} ELSE {}]
=============================================================================
