------------------------------ MODULE Checkout ------------------------------
(***************************************************************************)
(* The checkout of the commerce template's order service: one cart,        *)
(* requests that carry idempotency keys, the checkout_request row that     *)
(* records how far a key has come (claimed, prepared, reserved, committed, *)
(* failed, compensation_needed), and the inventory reservation made under  *)
(* the order id that the key determines.                                   *)
(*                                                                         *)
(* A request is a process: every transaction and every remote call is one  *)
(* step, requests of one key take the work over from each other when the   *)
(* lease runs out, and a request may end between any two steps.            *)
(***************************************************************************)
EXTENDS Integers, FiniteSets

CONSTANTS
    Keys,              \* Idempotency-Key values used with the cart
    Requests,          \* concurrent calls of POST /api/v1/checkouts
    MaxVersion,        \* bound: changes of the cart
    MaxCheckoutFaults, \* bound: crashes, failed calls, lost answers
    None

ASSUME CheckoutAssumption ==
    /\ MaxVersion \in Nat \ {0} /\ MaxCheckoutFaults \in Nat
    /\ None \notin Keys

VARIABLES
    cart,     \* cart and cart_revision
    expired,  \* whether the cart's expires_at lies in the past
    row,      \* checkout_request, by key
    leased,   \* keys whose lease_until lies in the future
    resv,     \* inventory's reservation of the key's order
    placed,   \* keys with a sales_order
    req,      \* the calls
    answered, \* successful answers: <<key, the order named>>
    checkoutFaults \* faults so far

checkoutVars == <<cart, expired, row, leased, resv, placed, req, answered, checkoutFaults>>

---------------------------------------------------------------------------
(* Types *)

Open == {"claimed", "prepared", "reserved"}

Failed == {"failed", "compensation_needed"}

\* The request hash covers the cart's id, version and lines; the version
\* stands for it.
Row == [phase : Open \cup Failed \cup {"committed"}, hash : 1 .. MaxVersion]

NoRow == [phase |-> "none", hash |-> 0]

\* "split": active, with allocations at two locations
Reservation == {"none", "active", "split", "released"}

Pc == {"idle", "find", "claim", "read", "wait", "prepare", "reserve", "save", "commit",
       "lookup", "compensate", "release", "close"}

Request == [pc : Pc, key : Keys \cup {None}, version : 0 .. MaxVersion,
            active : BOOLEAN, owned : BOOLEAN]

NoRequest == [pc |-> "idle", key |-> None, version |-> 0, active |-> FALSE, owned |-> FALSE]

CheckoutTypeOK ==
    /\ cart \in [status : {"active", "converted"}, version : 1 .. MaxVersion]
    /\ expired \in BOOLEAN
    /\ row \in [Keys -> Row \cup {NoRow}]
    /\ leased \subseteq Keys
    /\ resv \in [Keys -> Reservation]
    /\ placed \subseteq Keys
    /\ req \in [Requests -> Request]
    /\ answered \subseteq Keys \X {"order", "empty"}
    /\ checkoutFaults \in 0 .. MaxCheckoutFaults

CheckoutInit ==
    /\ cart = [status |-> "active", version |-> 1] /\ expired = FALSE
    /\ row = [k \in Keys |-> NoRow]
    /\ leased = {} /\ placed = {} /\ answered = {}
    /\ resv = [k \in Keys |-> "none"]
    /\ req = [q \in Requests |-> NoRequest]
    /\ checkoutFaults = 0

---------------------------------------------------------------------------
(* Steps of a request *)

At(q, pc) == req[q].pc = pc

Key(q) == req[q].key

Goto(q, pc) == req' = [req EXCEPT ![q].pc = pc]

\* The call ends with an error answer, or without an order.
Return(q) == req' = [req EXCEPT ![q] = NoRequest]

AnswerWith(q, order) ==
    /\ answered' = answered \cup {<<Key(q), order>>}
    /\ Return(q)

CheckoutFault == checkoutFaults < MaxCheckoutFaults /\ checkoutFaults' = checkoutFaults + 1

\* canonicalOrder(record.Order): FindCheckout fills Order only for a
\* committed row.
OrderOf(k) == IF row[k].phase = "committed" THEN "order" ELSE "empty"

\* Checkout reads the cart, and the clock.
Start(q, k) ==
    /\ At(q, "idle")
    /\ req' = [req EXCEPT ![q] = [pc |-> "find", key |-> k, version |-> cart.version,
                                  active |-> cart.status = "active" /\ ~expired, owned |-> FALSE]]
    /\ UNCHANGED <<cart, row, leased, resv, placed, answered, checkoutFaults, expired>>

\* FindCheckout, then validateCheckoutCart of the cart as it was read: an
\* expired cart is refused even if the key has a row.
Find(q) ==
    /\ At(q, "find")
    /\ IF row[Key(q)].phase = "committed"
       THEN IF row[Key(q)].hash = req[q].version THEN AnswerWith(q, "order")
                                                 ELSE Return(q) /\ UNCHANGED answered
       ELSE /\ IF req[q].active THEN req' = [req EXCEPT ![q].pc = "claim", ![q].active = FALSE]
                                ELSE Return(q)
            /\ UNCHANGED answered
    /\ UNCHANGED <<cart, row, leased, resv, placed, checkoutFaults, expired>>

Takeable(k) == row[k].phase \in Open /\ k \notin leased

\* A new row needs the cart as it was read; the lease of an open row that
\* ran out is taken over.
ClaimCheckout(q) ==
    LET k == Key(q)
        new == row[k] = NoRow
        current == cart.status = "active" /\ cart.version = req[q].version
    IN /\ At(q, "claim")
       /\ \/ /\ new /\ current
             /\ row' = [row EXCEPT ![k] = [phase |-> "claimed", hash |-> req[q].version]]
             /\ leased' = leased \cup {k}
             /\ req' = [req EXCEPT ![q].pc = "read", ![q].owned = TRUE]
          \/ /\ ~new /\ row[k].hash = req[q].version
             /\ leased' = IF Takeable(k) THEN leased \cup {k} ELSE leased
             /\ req' = [req EXCEPT ![q].pc = "read", ![q].owned = Takeable(k)]
             /\ UNCHANGED row
          \/ /\ IF new THEN ~current ELSE row[k].hash # req[q].version
             /\ Return(q) /\ UNCHANGED <<row, leased>>
    /\ UNCHANGED <<cart, resv, placed, answered, checkoutFaults, expired>>

\* ClaimCheckout's FindCheckout runs after its transaction.
NextStep(phase) ==
    CASE phase = "claimed" -> "prepare" [] phase = "prepared" -> "reserve" [] phase = "reserved" -> "commit"

ReadClaim(q) ==
    LET phase == row[Key(q)].phase IN
    /\ At(q, "read")
    /\ \/ phase = "committed" /\ AnswerWith(q, "order")
       \/ phase \in Failed /\ Return(q) /\ UNCHANGED answered
       \/ /\ phase \in Open
          /\ Goto(q, IF req[q].owned THEN NextStep(phase) ELSE "wait")
          /\ UNCHANGED answered
    /\ UNCHANGED <<cart, row, leased, resv, placed, checkoutFaults, expired>>

\* waitForCheckout: polling for the owner's result, for two seconds.
waitForCheckout(q) ==
    LET phase == row[Key(q)].phase IN
    /\ At(q, "wait")
    /\ \/ phase = "committed" /\ AnswerWith(q, "order")
       \/ phase # "committed" /\ Return(q) /\ UNCHANGED answered
    /\ UNCHANGED <<cart, row, leased, resv, placed, checkoutFaults, expired>>

\* FailCheckout: "retryable" gives up the lease, other codes end the key.
GiveUp(k) ==
    /\ leased' = IF row[k].phase \in Open THEN leased \ {k} ELSE leased
    /\ UNCHANGED row

\* Mutant: without the condition on the phase.
FailCheckout_blind(k, phase) ==
    /\ row' = [row EXCEPT ![k].phase = phase]
    /\ UNCHANGED leased

FailCheckout(k, phase) ==
    /\ row' = IF row[k].phase = "committed" THEN row ELSE [row EXCEPT ![k].phase = phase]
    /\ UNCHANGED leased

\* SaveCheckoutPrepared and SaveCheckoutReserved
Advance(q, from, to, pc) ==
    /\ \/ row[Key(q)].phase = from /\ row' = [row EXCEPT ![Key(q)].phase = to] /\ Goto(q, pc)
       \/ row[Key(q)].phase # from /\ Return(q) /\ UNCHANGED row
    /\ UNCHANGED leased

\* Customer, catalog and prices, then SaveCheckoutPrepared.
Prepare(q) ==
    /\ At(q, "prepare")
    /\ Advance(q, "claimed", "prepared", "reserve")
    /\ UNCHANGED <<cart, resv, placed, answered, checkoutFaults, expired>>

\* A service is down, or it refuses the customer, the SKUs or the money.
PrepareFails(q) ==
    /\ At(q, "prepare")
    /\ CheckoutFault /\ Return(q)
    /\ GiveUp(Key(q)) \/ FailCheckout(Key(q), "failed")
    /\ UNCHANGED <<cart, resv, placed, answered, expired>>

\* POST /internal/v1/reservations; the rows of a repeated key come back as they
\* are (module OrderSaga has the stock).
ReserveStock(k) ==
    \E r \in IF resv[k] = "none" THEN {"active", "split"} ELSE {resv[k]} :
        resv' = [resv EXCEPT ![k] = r]

\* validateReservationResult wants one active allocation per line.
reserveInventory(q) ==
    /\ At(q, "reserve")
    /\ ReserveStock(Key(q))
    /\ \/ /\ resv'[Key(q)] = "active" /\ Goto(q, "save")
          /\ UNCHANGED <<row, leased>>
       \/ /\ resv'[Key(q)] \in {"split", "released"} /\ Return(q)
          /\ FailCheckout(Key(q), "failed")
    /\ UNCHANGED <<cart, placed, answered, checkoutFaults, expired>>

\* The call fails, the stock does not suffice, or the answer is lost after
\* the reservation was made.
ReserveFails(q) ==
    /\ At(q, "reserve")
    /\ CheckoutFault /\ Return(q) /\ GiveUp(Key(q))
    /\ UNCHANGED resv \/ ReserveStock(Key(q))
    /\ UNCHANGED <<cart, placed, answered, expired>>

SaveReserved(q) ==
    /\ At(q, "save")
    /\ Advance(q, "prepared", "reserved", "commit")
    /\ UNCHANGED <<cart, resv, placed, answered, checkoutFaults, expired>>

\* The transaction of CommitCheckout: the order, the cart, order.placed and
\* the phase together.
Commits(q) ==
    /\ row[Key(q)].phase = "reserved"
    /\ cart = [status |-> "active", version |-> req[q].version]
    /\ placed' = placed \cup {Key(q)}
    /\ cart' = [cart EXCEPT !.status = "converted"]
    /\ row' = [row EXCEPT ![Key(q)].phase = "committed"]

CommitConflict(q) == cart # [status |-> "active", version |-> req[q].version]

\* Mutant: the cart is looked at before the phase.
CommitCheckout_cartFirst(q) ==
    /\ At(q, "commit")
    /\ \/ Commits(q) /\ AnswerWith(q, "order")
       \/ /\ CommitConflict(q)
          /\ Goto(q, "compensate")
          /\ UNCHANGED <<cart, row, placed, answered>>
    /\ UNCHANGED <<leased, resv, checkoutFaults, expired>>

CommitCheckout(q) ==
    LET phase == row[Key(q)].phase IN
    /\ At(q, "commit")
    /\ \/ Commits(q) /\ AnswerWith(q, "order")
       \/ /\ phase = "committed" /\ AnswerWith(q, "order")
          /\ UNCHANGED <<cart, row, placed>>
       \/ /\ phase = "reserved" /\ CommitConflict(q)
          /\ Goto(q, "compensate")
          /\ UNCHANGED <<cart, row, placed, answered>>
       \/ /\ phase \notin {"committed", "reserved"}
          /\ Goto(q, "lookup")
          /\ UNCHANGED <<cart, row, placed, answered>>
    /\ UNCHANGED <<leased, resv, checkoutFaults, expired>>

\* The database fails before the commit, or its answer is lost after it.
CommitFails(q) ==
    /\ At(q, "commit")
    /\ CheckoutFault /\ Goto(q, "lookup")
    /\ Commits(q) \/ UNCHANGED <<cart, row, placed>>
    /\ UNCHANGED <<leased, resv, answered, expired>>

\* The read after an unknown commit.
Lookup(q) ==
    /\ At(q, "lookup")
    /\ AnswerWith(q, OrderOf(Key(q)))
    /\ UNCHANGED <<cart, row, leased, resv, placed, checkoutFaults, expired>>

Compensate(q) ==
    /\ At(q, "compensate")
    /\ FailCheckout(Key(q), "compensation_needed")
    /\ Goto(q, "release")
    /\ UNCHANGED <<cart, resv, placed, answered, checkoutFaults, expired>>

\* POST /internal/v1/reservations/{order}/release
Release(q) ==
    /\ At(q, "release")
    /\ resv' = IF resv[Key(q)] \in {"active", "split"} THEN [resv EXCEPT ![Key(q)] = "released"] ELSE resv
    /\ Goto(q, "close")
    /\ UNCHANGED <<cart, row, leased, placed, answered, checkoutFaults, expired>>

CloseConflict(q) ==
    /\ At(q, "close")
    /\ FailCheckout(Key(q), "failed")
    /\ Return(q)
    /\ UNCHANGED <<cart, resv, placed, answered, checkoutFaults, expired>>

Step(q) ==
    \/ Find(q) \/ ClaimCheckout(q) \/ ReadClaim(q) \/ waitForCheckout(q)
    \/ Prepare(q) \/ reserveInventory(q) \/ SaveReserved(q)
    \/ CommitCheckout(q) \/ Lookup(q)
    \/ Compensate(q) \/ Release(q) \/ CloseConflict(q)

---------------------------------------------------------------------------
(* Environment *)

\* The process dies or the client goes away.
Crash(q) ==
    /\ ~At(q, "idle")
    /\ CheckoutFault /\ Return(q)
    /\ UNCHANGED <<cart, row, leased, resv, placed, answered, expired>>

\* Thirty seconds pass.
LeaseExpires(k) ==
    /\ k \in leased
    /\ leased' = leased \ {k}
    /\ UNCHANGED <<cart, row, resv, placed, req, answered, checkoutFaults, expired>>

MutateCart ==
    /\ cart.status = "active" /\ ~expired /\ cart.version < MaxVersion
    /\ cart' = [cart EXCEPT !.version = @ + 1]
    /\ UNCHANGED <<row, leased, resv, placed, req, answered, checkoutFaults, expired>>

\* Twenty-four hours pass; the status of the cart stays.
CartExpires ==
    /\ ~expired
    /\ expired' = TRUE
    /\ UNCHANGED <<cart, row, leased, resv, placed, req, answered, checkoutFaults>>

CheckoutNext ==
    \/ \E q \in Requests : \/ Step(q) \/ PrepareFails(q) \/ ReserveFails(q) \/ CommitFails(q) \/ Crash(q)
                           \/ \E k \in Keys : Start(q, k)
    \/ \E k \in Keys : LeaseExpires(k)
    \/ MutateCart \/ CartExpires

CheckoutSpec == CheckoutInit /\ [][CheckoutNext]_checkoutVars

\* Requests run, time passes, and a caller tries again until it is answered.
CheckoutFairness ==
    /\ \A q \in Requests : WF_checkoutVars(Step(q))
    /\ \A k \in Keys : WF_checkoutVars(LeaseExpires(k))
    /\ \A k \in Keys : SF_checkoutVars(\E q \in Requests : Start(q, k))

FairCheckoutSpec == CheckoutSpec /\ CheckoutFairness

---------------------------------------------------------------------------
(* Properties *)

\* One cart becomes one order, whatever keys and owners race for it, and that
\* order has its stock: no compensation, of this or of another request,
\* released the reservation it was placed with.  An answer that names an order
\* is true, also when it was read back after a commit of unknown outcome.
OneOrder ==
    /\ CheckoutTypeOK
    /\ Cardinality(placed) <= 1
    /\ \A k \in placed : resv[k] = "active"
    /\ \A k \in Keys : <<k, "order">> \in answered => k \in placed /\ row[k].phase = "committed"

\* A key that is decided stays decided: a stale owner neither fails what is
\* committed nor revives what failed.
DecidedStays ==
    [][\A k \in Keys :
          /\ row[k].phase = "committed" => row'[k] = row[k]
          /\ row[k].phase \in Failed => row'[k].phase \in Failed]_checkoutVars

\* A caller that tries again gets a claimed key decided, through crashes and
\* failed calls, unless the cart was changed, sold or has expired meanwhile:
\* then its requests are refused before they reach the key, and the key and
\* its reservation stay as they are.
RetriesDecide ==
    \A k \in Keys : row[k].phase = "claimed" ~>
        \/ row[k].phase \in Failed \cup {"committed"}
        \/ cart # [status |-> "active", version |-> row[k].hash] \/ expired

\* A key is decided once and for all (ClaimCheckout, FailCheckout).
KeyDecided == DecidedStays /\ RetriesDecide
=============================================================================
