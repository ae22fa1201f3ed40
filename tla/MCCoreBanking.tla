-------------------------- MODULE MCCoreBanking --------------------------
(***************************************************************************)
(* Instances of CoreBanking for TLC: payments p1 and p2 from alice to bob. *)
(***************************************************************************)
EXTENDS CoreBanking

CONSTANTS alice, bob, p1, p2, c1, c2

From == [w \in Workflows |-> alice]

To == [w \in Workflows |-> bob]

\* Together the payments exceed the opening balance.
Amounts == [w \in Workflows |-> 2]

Opening == [a \in {alice, bob, Cash} |-> IF a = alice THEN 3 ELSE 0]
=============================================================================
