---------------------------- MODULE MCRmbTransfer ----------------------------
(***************************************************************************)
(* An instance of RmbTransfer for TLC: a transaction moves 1 from a1 to    *)
(* b1.  The money is on a2 first, so the debit succeeds only after a local *)
(* transfer, b1 has yet to be created, and what it gets can be spent       *)
(* inside its unit before it is taken back.                                *)
(***************************************************************************)
EXTENDS RmbTransfer

CONSTANTS t1, a1, a2, b1, b2

MCPlan ==
    [t \in Txs |-> [i \in 1 .. 2 |->
        IF i = 1 THEN [action |-> "DEBIT", acct |-> a1, amount |-> 1]
                 ELSE [action |-> "CREDIT", acct |-> b1, amount |-> 1]]]

MCInitial == [a \in Accounts |-> IF a = a2 THEN 1 ELSE 0]

MCLocalPairs == {<<a2, a1>>, <<b1, b2>>, <<b2, b1>>}
=============================================================================
