--------------------------- MODULE MCDcnServices ---------------------------
(***************************************************************************)
(* An instance of DcnServices for TLC: a unit with two accounts, a second  *)
(* one that may get its segment during the behaviour, and customers with   *)
(* and without a request id.                                               *)
(***************************************************************************)
EXTENDS DcnServices

CONSTANTS u1, u2, old1, old2, q1, q2

MCSeg == [u \in {u1, u2} |-> IF u = u1 THEN [start |-> 10, end |-> 13] ELSE [start |-> 20, end |-> 22]]

MCExisting == [n \in {11, 12} |-> IF n = 11 THEN old1 ELSE old2]

MCInitBalance == [q \in {old1, old2, q1, q2} |-> CASE q = old1 -> 3 [] q = old2 -> 2 [] q = q1 -> 2 [] OTHER -> 0]

Bounds(calls, cache, runs, transfers, faults) ==
    [calls |-> calls, cache |-> cache, runs |-> runs, transfers |-> transfers, faults |-> faults]

\* Three racing openings; two of them with two faults and cache traffic; a run with a
\* rerun; a run with a transfer; an opening during a run without faults.
MCBudgets == {Bounds(3, 0, 0, 0, 0), Bounds(2, 1, 0, 0, 2), Bounds(0, 0, 2, 0, 1),
              Bounds(0, 0, 1, 1, 1), Bounds(1, 0, 1, 0, 0)}
=============================================================================
