----------------------- MODULE MCRiskAuthorization -----------------------
(***************************************************************************)
(* An instance of RiskAuthorization for TLC: a payment p1, and p2 of a     *)
(* smoke test.                                                             *)
(***************************************************************************)
EXTENDS RiskAuthorization

CONSTANTS p1, p2, c1, c2, r1

\* A good customer, and the same one later.
Snapshots == {[kyc |-> "verified", blacklisted |-> FALSE, highRisk |-> FALSE],
              [kyc |-> "expired", blacklisted |-> TRUE, highRisk |-> FALSE]}

Amounts == [w \in Workflows |-> 1]
=============================================================================
