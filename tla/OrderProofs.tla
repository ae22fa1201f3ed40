---------------------------- MODULE OrderProofs -----------------------------
(***************************************************************************)
(* Theorems about the orders of commerce: the checkout, for any number of  *)
(* idempotency keys, concurrent requests, changes of the cart and faults,  *)
(* and what the services make of the placed orders (OrderSaga), for any    *)
(* number of orders, locations and repeated deliveries.                    *)
(***************************************************************************)
EXTENDS Checkout, OrderSaga, SumLemmas

---------------------------------------------------------------------------
(* The checkout *)

\* The places where a request has a checkout_request row of its version.
Working == Pc \ {"idle", "find", "claim"}

\* What a request relies on between two of its steps.  A request that is
\* about to compensate has seen a cart that no request of its version can
\* commit any more; one that is about to release has closed its row.
ReqOK(q) ==
    LET k == Key(q) IN
    /\ req[q].pc # "idle" => k \in Keys /\ req[q].version \in 1 .. cart.version
    /\ req[q].pc \in Working => row[k] # NoRow /\ row[k].hash = req[q].version
    /\ req[q].pc \in {"compensate", "release", "close"} =>
          /\ row[k].phase # "committed"
          /\ ~(cart.status = "active" /\ cart.version = req[q].version)
    /\ req[q].pc \in {"release", "close"} => row[k].phase \in Failed
    /\ req[q].pc = "save" /\ row[k].phase \notin Failed => resv[k] = "active"

\* Row, reservation, order and answers of one key agree.
KeyOK(k) ==
    /\ row[k].phase \in {"reserved", "committed"} => resv[k] = "active"
    /\ k \in placed <=> row[k].phase = "committed"
    /\ <<k, "order">> \in answered => row[k].phase = "committed"

\* The cart is sold once.
Sold ==
    /\ cart.status = "active" => placed = {}
    /\ \A k, l \in placed : k = l

CheckoutInv ==
    /\ CheckoutTypeOK
    /\ \A q \in Requests : ReqOK(q)
    /\ \A k \in Keys : KeyOK(k)
    /\ Sold

---------------------------------------------------------------------------
(* What a step does, row by row *)

Phases == Open \cup Failed \cup {"committed"}

\* A row that is not NoRow is a Row.
LEMMA RowFacts ==
    ASSUME CheckoutTypeOK, NEW k \in Keys
    PROVE  /\ row[k] # NoRow => row[k] \in Row /\ row[k].phase \in Phases /\ row[k].hash \in 1 .. MaxVersion
           /\ row[k] = NoRow <=> row[k].phase = "none"
           /\ row[k].phase \in Phases => row[k] # NoRow
<1>1. row[k] \in Row \cup {NoRow}
  BY DEF CheckoutTypeOK
<1>2. NoRow.phase = "none"
  BY DEF NoRow
<1>3. row[k] \in Row => row[k].phase \in Phases /\ row[k].hash \in 1 .. MaxVersion
  BY DEF Row, Phases
<1>4. "none" \notin Phases
  BY DEF Phases, Open, Failed
<1> QED BY <1>1, <1>2, <1>3, <1>4

\* Only row k changed, and only its phase.
RowTo(k, p) ==
    /\ row' \in [Keys -> Row \cup {NoRow}]
    /\ row'[k].phase = p /\ row'[k].hash = row[k].hash
    /\ \A l \in Keys : l # k => row'[l] = row[l]

\* The update of a phase.
LEMMA RowSet ==
    ASSUME CheckoutTypeOK, NEW k \in Keys, row[k] # NoRow, NEW p \in Phases,
           row' = [row EXCEPT ![k].phase = p]
    PROVE  RowTo(k, p)
<1> DEFINE new == [row[k] EXCEPT !.phase = p]
<1>1. row[k] \in Row
  BY RowFacts
<1>2. new \in Row /\ new.phase = p /\ new.hash = row[k].hash
  BY <1>1 DEF Row, Phases
<1>3. row' = [row EXCEPT ![k] = new]
  BY DEF CheckoutTypeOK
<1> HIDE DEF new
<1> QED BY <1>2, <1>3 DEF CheckoutTypeOK, RowTo

\* Only request q changed.
OnlyReq(q) == \A r \in Requests : r # q => req'[r] = req[r]

ReqTo(q, pc) ==
    /\ req' \in [Requests -> Request] /\ OnlyReq(q)
    /\ req'[q].pc = pc /\ req'[q].key = req[q].key /\ req'[q].version = req[q].version

ReqEnd(q) == req' \in [Requests -> Request] /\ OnlyReq(q) /\ req'[q].pc = "idle"

\* Goto moves q, Return ends it.
LEMMA ReqSteps ==
    ASSUME CheckoutTypeOK, NEW q \in Requests
    PROVE  /\ \A pc \in Pc : Goto(q, pc) => ReqTo(q, pc)
           /\ Return(q) => ReqEnd(q)
<1>1. ASSUME NEW pc \in Pc, Goto(q, pc) PROVE ReqTo(q, pc)
  <2> DEFINE new == [req[q] EXCEPT !.pc = pc]
  <2>1. new \in Request /\ new.pc = pc /\ new.key = req[q].key /\ new.version = req[q].version
    BY DEF CheckoutTypeOK, Request
  <2>2. req' = [req EXCEPT ![q] = new]
    BY <1>1 DEF Goto, CheckoutTypeOK
  <2> HIDE DEF new
  <2> QED BY <2>1, <2>2 DEF CheckoutTypeOK, ReqTo, OnlyReq
<1>2. ASSUME Return(q) PROVE ReqEnd(q)
  <2>1. NoRequest \in Request /\ NoRequest.pc = "idle"
    BY CheckoutAssumption DEF NoRequest, Request, Pc
  <2> QED BY <1>2, <2>1 DEF Return, CheckoutTypeOK, ReqEnd, OnlyReq
<1> QED BY <1>1, <1>2

\* How the rows, reservations and the cart may move, whoever moves them.
CartMoves ==
    /\ cart'.version \in Nat /\ cart.version <= cart'.version
    /\ cart'.status = "active" => cart.status = "active"
    /\ cart' = cart \/ cart'.status = "converted" \/ cart.version < cart'.version

RowMoves(k) ==
    /\ row[k] # NoRow => row'[k] # NoRow /\ row'[k].hash = row[k].hash
    /\ row[k].phase \in Failed => row'[k].phase \in Failed
    /\ row[k].phase = "committed" => row'[k] = row[k]
    /\ row'[k].phase = "committed" /\ row[k].phase # "committed" =>
          cart.status = "active" /\ cart.version = row[k].hash

ResvMoves(k) == resv[k] = "active" => resv'[k] = "active" \/ row[k].phase \in Failed

Moves == CartMoves /\ \A k \in Keys : RowMoves(k) /\ ResvMoves(k)

\* A request that did not move keeps what it relies on.
LEMMA ReqFrame ==
    ASSUME CheckoutInv, Moves, NEW q \in Requests, req'[q] = req[q]
    PROVE  ReqOK(q)'
<1> DEFINE k == req[q].key
           v == req[q].version
<1>0. ReqOK(q) /\ cart.version \in Nat /\ cart'.version \in Nat /\ cart.version <= cart'.version
  BY DEF CheckoutInv, CheckoutTypeOK, Moves, CartMoves
<1>1. req[q].pc # "idle" => k \in Keys /\ v \in 1 .. cart'.version
  BY <1>0 DEF ReqOK, Key
<1>2. req[q].pc \in Working => req[q].pc # "idle"
  BY DEF Working
<1>3. req[q].pc \in Working => row'[k] # NoRow /\ row'[k].hash = v
  BY <1>0, <1>1, <1>2 DEF ReqOK, Key, Moves, RowMoves
<1>w. {"compensate", "release", "close", "save"} \subseteq Working
  BY DEF Working, Pc
<1>4. ASSUME req[q].pc \in {"compensate", "release", "close"}
      PROVE  row'[k].phase # "committed" /\ ~(cart'.status = "active" /\ cart'.version = v)
  <2>1. /\ k \in Keys /\ v \in 1 .. cart.version /\ row[k].hash = v /\ row[k].phase # "committed"
        /\ ~(cart.status = "active" /\ cart.version = v)
    BY <1>0, <1>w, <1>4 DEF ReqOK, Key
  <2>2. row'[k].phase # "committed"
    BY <2>1 DEF Moves, RowMoves
  <2>3. ~(cart'.status = "active" /\ cart'.version = v)
    BY <2>1, <1>0 DEF Moves, CartMoves
  <2> QED BY <2>2, <2>3
<1>5. req[q].pc \in {"release", "close"} => row'[k].phase \in Failed
  BY <1>0, <1>1 DEF ReqOK, Key, Moves, RowMoves
<1>6. req[q].pc = "save" /\ row'[k].phase \notin Failed => resv'[k] = "active"
  BY <1>0, <1>1 DEF ReqOK, Key, Moves, RowMoves, ResvMoves
<1> QED BY <1>1, <1>3, <1>4, <1>5, <1>6 DEF ReqOK, Key

\* The invariant after a step of request q.
LEMMA RequestStep ==
    ASSUME CheckoutInv, NEW q \in Requests, Moves, OnlyReq(q), ReqOK(q)', CheckoutTypeOK',
           \A k \in Keys : KeyOK(k)', Sold'
    PROVE  CheckoutInv'
<1>1. \A r \in Requests : r # q => ReqOK(r)'
  BY ReqFrame DEF OnlyReq
<1> QED BY <1>1 DEF CheckoutInv

\* Where a request may go when its row has its version.
LEMMA ReqAt ==
    ASSUME CheckoutInv, Moves, NEW q \in Requests, NEW pc \in Working, ReqTo(q, pc),
           req[q].pc # "idle",
           row'[Key(q)] # NoRow, row'[Key(q)].hash = req[q].version,
           pc \in {"compensate", "release", "close"} =>
              /\ row'[Key(q)].phase # "committed"
              /\ ~(cart'.status = "active" /\ cart'.version = req[q].version),
           pc \in {"release", "close"} => row'[Key(q)].phase \in Failed,
           pc = "save" => resv'[Key(q)] = "active"
    PROVE  ReqOK(q)'
<1>1. /\ req[q].key \in Keys /\ req[q].version \in 1 .. cart.version
      /\ cart.version \in Nat /\ cart'.version \in Nat /\ cart.version <= cart'.version
  BY DEF CheckoutInv, ReqOK, Key, CheckoutTypeOK, Moves, CartMoves
<1>2. req'[q].pc = pc /\ req'[q].key = req[q].key /\ req'[q].version = req[q].version
  BY DEF ReqTo
<1>3. req[q].version \in 1 .. cart'.version
  BY <1>1
<1> QED BY <1>1, <1>2, <1>3 DEF ReqOK, Key

\* A request that ended relies on nothing.
LEMMA ReqGone ==
    ASSUME NEW q \in Requests, ReqEnd(q) PROVE ReqOK(q)' /\ OnlyReq(q)
BY DEF ReqEnd, ReqOK, Working

\* Nothing but requests, leases, answers and faults moved.
LEMMA StillMoves ==
    ASSUME CheckoutInv, UNCHANGED <<cart, row, resv>> PROVE Moves
<1>1. cart.version \in Nat
  BY DEF CheckoutInv, CheckoutTypeOK
<1> QED BY <1>1 DEF Moves, CartMoves, RowMoves, ResvMoves

\* The phase of one key moved.
LEMMA PhaseMoves ==
    ASSUME CheckoutInv, UNCHANGED resv, cart' = cart \/ (cart.status = "active" /\ cart' = [cart EXCEPT !.status = "converted"]),
           NEW k \in Keys, NEW p \in Phases, RowTo(k, p), row[k] # NoRow,
           row[k].phase \in Failed => p \in Failed, row[k].phase # "committed",
           p = "committed" => cart.status = "active" /\ cart.version = row[k].hash
    PROVE  Moves
<1>1. cart.version \in Nat /\ cart \in [status : {"active", "converted"}, version : 1 .. MaxVersion]
  BY DEF CheckoutInv, CheckoutTypeOK
<1>2. CartMoves
  BY <1>1 DEF CartMoves
<1>3. row'[k] # NoRow
  <2>1. row'[k].phase \in Phases /\ NoRow.phase = "none" /\ "none" \notin Phases
    BY DEF RowTo, NoRow, Phases, Open, Failed
  <2> QED BY <2>1
<1>4. ASSUME NEW l \in Keys PROVE RowMoves(l) /\ ResvMoves(l)
  <2>1. CASE l = k
    BY <2>1, <1>3 DEF RowMoves, ResvMoves, RowTo
  <2>2. CASE l # k
    BY <2>2 DEF RowMoves, ResvMoves, RowTo
  <2> QED BY <2>1, <2>2
<1> QED BY <1>2, <1>4 DEF Moves

---------------------------------------------------------------------------
(* The steps of a request *)

\* Types of what a request step leaves alone or only adds to.
LEMMA TypeNext ==
    ASSUME CheckoutTypeOK, req' \in [Requests -> Request], row' \in [Keys -> Row \cup {NoRow}],
           cart' \in [status : {"active", "converted"}, version : 1 .. MaxVersion],
           leased' \subseteq Keys, resv' \in [Keys -> Reservation], placed' \subseteq Keys,
           answered' \subseteq Keys \X {"order", "empty"}, checkoutFaults' \in 0 .. MaxCheckoutFaults,
           UNCHANGED expired
    PROVE  CheckoutTypeOK'
BY DEF CheckoutTypeOK

\* A fault counts up to its bound.
LEMMA FaultType ==
    ASSUME CheckoutTypeOK, CheckoutFault \/ UNCHANGED checkoutFaults PROVE checkoutFaults' \in 0 .. MaxCheckoutFaults
<1>1. checkoutFaults \in 0 .. MaxCheckoutFaults
  BY DEF CheckoutTypeOK
<1> QED BY <1>1, CheckoutAssumption DEF CheckoutFault

\* A step that only moves requests, leases and answers.
LEMMA QuietStep ==
    ASSUME CheckoutInv, NEW q \in Requests, OnlyReq(q), ReqOK(q)', req' \in [Requests -> Request],
           UNCHANGED <<cart, row, resv, placed, expired>>, leased' \subseteq Keys,
           CheckoutFault \/ UNCHANGED checkoutFaults,
           \/ answered' = answered
           \/ \E k \in Keys : row[k].phase = "committed" /\ answered' = answered \cup {<<k, "order">>}
           \/ \E k \in Keys : answered' = answered \cup {<<k, "empty">>}
    PROVE  CheckoutInv'
<1>1. CheckoutTypeOK'
  <2>1. CheckoutTypeOK /\ checkoutFaults' \in 0 .. MaxCheckoutFaults
    BY FaultType DEF CheckoutInv
  <2>2. answered' \subseteq Keys \X {"order", "empty"}
    BY <2>1 DEF CheckoutTypeOK
  <2> QED BY <2>1, <2>2 DEF CheckoutTypeOK
<1>2. Moves
  BY StillMoves
<1>3. \A k \in Keys : KeyOK(k)'
  <2> TAKE k \in Keys
  <2>1. <<k, "order">> \in answered' => row[k].phase = "committed"
    BY DEF CheckoutInv, KeyOK
  <2> QED BY <2>1 DEF CheckoutInv, KeyOK
<1>4. Sold'
  BY DEF CheckoutInv, Sold
<1> QED BY <1>1, <1>2, <1>3, <1>4, RequestStep

\* An answer with an order, or an error answer.
LEMMA EndStep ==
    ASSUME CheckoutInv, NEW q \in Requests, Key(q) \in Keys,
           UNCHANGED <<cart, row, resv, placed, expired>>, leased' \subseteq Keys,
           CheckoutFault \/ UNCHANGED checkoutFaults,
           \/ Return(q) /\ UNCHANGED answered
           \/ row[Key(q)].phase = "committed" /\ AnswerWith(q, "order")
           \/ AnswerWith(q, "empty")
    PROVE  CheckoutInv'
<1>1. Return(q)
  BY DEF AnswerWith
<1>2. ReqEnd(q)
  BY <1>1, ReqSteps DEF CheckoutInv
<1>3. ReqOK(q)' /\ OnlyReq(q) /\ req' \in [Requests -> Request]
  BY <1>2, ReqGone DEF ReqEnd
<1>4. \/ answered' = answered
      \/ \E k \in Keys : row[k].phase = "committed" /\ answered' = answered \cup {<<k, "order">>}
      \/ \E k \in Keys : answered' = answered \cup {<<k, "empty">>}
  BY DEF AnswerWith
<1> QED BY <1>3, <1>4, QuietStep

\* FailCheckout, whatever the row's phase: nothing else but the lease, the
\* faults and the request moves.
LEMMA FailStep ==
    ASSUME CheckoutInv, NEW q \in Requests, Key(q) \in Keys, row[Key(q)] # NoRow,
           NEW p \in Failed, FailCheckout(Key(q), p),
           row[Key(q)].phase \notin {"committed"} \/ resv' = resv,
           resv' = resv \/ (resv' \in [Keys -> Reservation] /\ ReserveStock(Key(q))),
           UNCHANGED <<cart, placed, answered, expired>>, CheckoutFault \/ UNCHANGED checkoutFaults,
           req' \in [Requests -> Request], OnlyReq(q), Moves => ReqOK(q)'
    PROVE  CheckoutInv' /\ Moves
<1>k. PICK k \in Keys : k = Key(q)
  OBVIOUS
<1>t. CheckoutTypeOK /\ p \in Phases /\ p # "committed" /\ p # "reserved"
  BY DEF CheckoutInv, Phases, Failed
<1>1. /\ row' \in [Keys -> Row \cup {NoRow}]
      /\ row[k].phase = "committed" => row' = row
      /\ row[k].phase # "committed" => RowTo(k, p)
  <2>1. CASE row[k].phase = "committed"
    BY <2>1, <1>k, <1>t DEF FailCheckout, CheckoutTypeOK
  <2>2. CASE row[k].phase # "committed"
    <3>1. row' = [row EXCEPT ![k].phase = p]
      BY <2>2, <1>k DEF FailCheckout
    <3>2. RowTo(k, p)
      BY <3>1, <1>t, <1>k, RowSet
    <3> QED BY <3>2, <2>2 DEF RowTo
  <2> QED BY <2>1, <2>2
<1>2. /\ resv' \in [Keys -> Reservation]
      /\ \A l \in Keys : resv[l] = "active" => resv'[l] = "active"
      /\ \A l \in Keys : l # k => resv'[l] = resv[l]
  <2>1. CASE resv' = resv
    BY <2>1, <1>t DEF CheckoutTypeOK
  <2>2. CASE resv' \in [Keys -> Reservation] /\ ReserveStock(k)
    BY <2>2, <1>t DEF CheckoutTypeOK, ReserveStock
  <2> QED BY <2>1, <2>2, <1>k
<1>3. row[k].phase # "committed" => row'[k] # NoRow /\ row'[k].hash = row[k].hash /\ row'[k].phase \in Failed
  <2>1. NoRow.phase = "none" /\ "none" \notin Failed
    BY DEF NoRow, Failed
  <2> QED BY <1>1, <2>1 DEF RowTo
<1>4. \A l \in Keys : RowMoves(l) /\ ResvMoves(l)
  <2> TAKE l \in Keys
  <2>1. CASE l = k
    BY <2>1, <1>1, <1>2, <1>3, <1>k DEF RowMoves, ResvMoves, Failed
  <2>2. CASE l # k
    BY <2>2, <1>1, <1>2 DEF RowMoves, ResvMoves, RowTo
  <2> QED BY <2>1, <2>2
<1>5. CartMoves
  <2>1. cart.version \in Nat
    BY <1>t DEF CheckoutTypeOK
  <2> QED BY <2>1 DEF CartMoves
<1>6. Moves
  BY <1>4, <1>5 DEF Moves
<1>7. \A l \in Keys : KeyOK(l)'
  <2> TAKE l \in Keys
  <2>0. KeyOK(l)
    BY DEF CheckoutInv
  <2>1. CASE l = k /\ row[k].phase # "committed"
    BY <2>0, <2>1, <1>3 DEF KeyOK, Failed
  <2>2. CASE l # k \/ row[k].phase = "committed"
    <3>1. row'[l] = row[l]
      BY <2>2, <1>1 DEF RowTo
    <3> QED BY <2>0, <3>1, <1>2 DEF KeyOK
  <2> QED BY <2>1, <2>2
<1>8. Sold' /\ leased' = leased
  BY DEF CheckoutInv, Sold, FailCheckout
<1>9. CheckoutTypeOK'
  BY <1>t, <1>1, <1>2, <1>8, FaultType, TypeNext DEF CheckoutTypeOK
<1> QED BY <1>6, <1>7, <1>8, <1>9, RequestStep

\* What is known of a request that runs.
LEMMA Busy ==
    ASSUME CheckoutInv, NEW q \in Requests, ~At(q, "idle")
    PROVE  /\ CheckoutTypeOK /\ ReqOK(q) /\ Key(q) \in Keys
           /\ req[q].version \in 1 .. cart.version /\ cart.version \in 1 .. MaxVersion
           /\ req[q].pc \in Working => row[Key(q)] # NoRow /\ row[Key(q)].hash = req[q].version
BY DEF CheckoutInv, CheckoutTypeOK, ReqOK, Key, At

\* A step that ends the request, or moves it to a place that asks for no
\* more than its row, and touches leases at most.
LEMMA WalkStep ==
    ASSUME CheckoutInv, NEW q \in Requests, req[q].pc \in Working,
           NEW pc \in Working \ {"compensate", "release", "close", "save"}, ReqTo(q, pc),
           UNCHANGED <<cart, row, resv, placed, answered, expired>>, leased' \subseteq Keys,
           CheckoutFault \/ UNCHANGED checkoutFaults
    PROVE  CheckoutInv' /\ Moves
<1>0. req[q].pc # "idle"
  BY DEF Working
<1>1. row[Key(q)] # NoRow /\ row[Key(q)].hash = req[q].version
  BY <1>0, Busy DEF At
<1>2. Moves
  BY StillMoves
<1>3. ReqOK(q)'
  BY <1>0, <1>1, <1>2, ReqAt
<1> QED BY <1>2, <1>3, QuietStep DEF ReqTo

\* A call comes in and reads the cart.
LEMMA StartStep ==
    ASSUME CheckoutInv, NEW q \in Requests, NEW k \in Keys, Start(q, k)
    PROVE  CheckoutInv' /\ Moves
<1> DEFINE new == [pc |-> "find", key |-> k, version |-> cart.version,
                   active |-> cart.status = "active" /\ ~expired, owned |-> FALSE]
<1>1. CheckoutTypeOK /\ cart.version \in 1 .. MaxVersion
  BY DEF CheckoutInv, CheckoutTypeOK
<1>2. /\ new \in Request /\ new.pc = "find" /\ new.key = k /\ new.version = cart.version
  BY <1>1 DEF Request, Pc
<1>3. req' = [req EXCEPT ![q] = new]
  BY DEF Start
<1> HIDE DEF new
<1>4. req' \in [Requests -> Request] /\ OnlyReq(q) /\ req'[q] = new
  BY <1>1, <1>2, <1>3 DEF CheckoutTypeOK, OnlyReq
<1>5. UNCHANGED <<cart, row, leased, resv, placed, answered, checkoutFaults, expired>>
  BY DEF Start
<1>6. ReqOK(q)'
  BY <1>1, <1>2, <1>4, <1>5 DEF ReqOK, Key, Working
<1>7. leased' \subseteq Keys
  BY <1>1, <1>5 DEF CheckoutTypeOK
<1> QED BY <1>4, <1>5, <1>6, <1>7, QuietStep, StillMoves

\* FindCheckout before the claim.
LEMMA FindStep ==
    ASSUME CheckoutInv, NEW q \in Requests, Find(q)
    PROVE  CheckoutInv' /\ Moves
<1>0. /\ At(q, "find") /\ UNCHANGED <<cart, row, leased, resv, placed, checkoutFaults, expired>>
      /\ leased' \subseteq Keys /\ ~At(q, "idle")
  BY DEF Find, CheckoutInv, CheckoutTypeOK, At
<1>1. Moves
  BY <1>0, StillMoves
<1>2. CheckoutTypeOK /\ ReqOK(q) /\ Key(q) \in Keys /\ req[q].version \in 1 .. cart.version
  BY <1>0, Busy
<1>3. CASE row[Key(q)].phase = "committed" /\ AnswerWith(q, "order")
  BY <1>0, <1>1, <1>2, <1>3, EndStep
<1>4. CASE Return(q) /\ UNCHANGED answered
  BY <1>0, <1>1, <1>2, <1>4, EndStep
<1>5. CASE UNCHANGED answered /\ req' = [req EXCEPT ![q].pc = "claim", ![q].active = FALSE]
  <2> DEFINE new == [req[q] EXCEPT !.pc = "claim", !.active = FALSE]
  <2>1. new \in Request /\ new.pc = "claim" /\ new.key = req[q].key /\ new.version = req[q].version
    BY <1>2 DEF CheckoutTypeOK, Request, Pc
  <2>2. req' = [req EXCEPT ![q] = new]
    BY <1>2, <1>5 DEF CheckoutTypeOK
  <2> HIDE DEF new
  <2>3. ReqTo(q, "claim")
    BY <1>2, <2>1, <2>2 DEF CheckoutTypeOK, ReqTo, OnlyReq
  <2>4. ReqOK(q)'
    BY <1>0, <1>2, <2>3 DEF ReqTo, ReqOK, Key, Working
  <2> QED BY <1>0, <1>1, <1>5, <2>3, <2>4, QuietStep DEF ReqTo
<1> QED BY <1>3, <1>4, <1>5 DEF Find

\* The claim: a new row, an old row with or without its lease, or a refusal.
LEMMA ClaimStep ==
    ASSUME CheckoutInv, NEW q \in Requests, ClaimCheckout(q)
    PROVE  CheckoutInv' /\ Moves
<1>0. /\ At(q, "claim") /\ ~At(q, "idle") /\ req[q].pc # "idle"
      /\ UNCHANGED <<cart, resv, placed, answered, checkoutFaults, expired>>
  BY DEF ClaimCheckout, At
<1>2. /\ CheckoutTypeOK /\ ReqOK(q) /\ Key(q) \in Keys /\ req[q].version \in 1 .. cart.version
      /\ req[q].version \in 1 .. MaxVersion
  <2>1. /\ CheckoutTypeOK /\ ReqOK(q) /\ Key(q) \in Keys
        /\ req[q].version \in 1 .. cart.version /\ cart.version \in 1 .. MaxVersion
    BY <1>0, Busy
  <2> QED BY <2>1, CheckoutAssumption
<1>3. ASSUME NEW own \in BOOLEAN, req' = [req EXCEPT ![q].pc = "read", ![q].owned = own]
      PROVE  ReqTo(q, "read")
  <2> DEFINE new == [req[q] EXCEPT !.pc = "read", !.owned = own]
  <2>1. new \in Request /\ new.pc = "read" /\ new.key = req[q].key /\ new.version = req[q].version
    BY <1>2 DEF CheckoutTypeOK, Request, Pc
  <2>2. req' = [req EXCEPT ![q] = new]
    BY <1>2, <1>3 DEF CheckoutTypeOK
  <2> HIDE DEF new
  <2> QED BY <1>2, <2>1, <2>2 DEF CheckoutTypeOK, ReqTo, OnlyReq
<1>r. "read" \in Working
  BY DEF Working, Pc
<1>4. CASE /\ row[Key(q)] = NoRow
           /\ row' = [row EXCEPT ![Key(q)] = [phase |-> "claimed", hash |-> req[q].version]]
           /\ leased' = leased \cup {Key(q)}
           /\ req' = [req EXCEPT ![q].pc = "read", ![q].owned = TRUE]
  <2>k. PICK k \in Keys : k = Key(q)
    BY <1>2
  <2> DEFINE new == [phase |-> "claimed", hash |-> req[q].version]
  <2>1. new \in Row /\ new # NoRow /\ new.phase = "claimed" /\ new.hash = req[q].version
    BY <1>2 DEF Row, Open, NoRow
  <2>2. row' = [row EXCEPT ![k] = new]
    BY <1>4, <2>k
  <2> HIDE DEF new
  <2>3. /\ row' \in [Keys -> Row \cup {NoRow}] /\ row'[k] = new
        /\ \A l \in Keys : l # k => row'[l] = row[l]
    BY <1>2, <2>1, <2>2 DEF CheckoutTypeOK
  <2>4. row[k] = NoRow /\ row[k].phase = "none"
    BY <1>4, <2>k DEF NoRow
  <2>5. \A l \in Keys : RowMoves(l) /\ ResvMoves(l)
    <3> TAKE l \in Keys
    <3>1. CASE l = k
      BY <3>1, <2>1, <2>3, <2>4, <1>0 DEF RowMoves, ResvMoves, Failed
    <3>2. CASE l # k
      BY <3>2, <2>3, <1>0 DEF RowMoves, ResvMoves
    <3> QED BY <3>1, <3>2
  <2>6. Moves
    BY <2>5, <1>0, <1>2 DEF Moves, CartMoves, CheckoutTypeOK
  <2>7. \A l \in Keys : KeyOK(l)'
    <3> TAKE l \in Keys
    <3>0. KeyOK(l)
      BY DEF CheckoutInv
    <3>1. CASE l = k
      BY <3>0, <3>1, <2>1, <2>3, <2>4, <1>0 DEF KeyOK
    <3>2. CASE l # k
      BY <3>0, <3>2, <2>3, <1>0 DEF KeyOK
    <3> QED BY <3>1, <3>2
  <2>8. ReqTo(q, "read")
    BY <1>3, <1>4
  <2>9. ReqOK(q)'
    BY <1>0, <1>r, <2>k, <2>1, <2>3, <2>6, <2>8, ReqAt
  <2>10. Sold'
    BY <1>0 DEF CheckoutInv, Sold
  <2>11. CheckoutTypeOK'
    BY <1>0, <1>2, <1>4, <2>3, <2>8, TypeNext DEF CheckoutTypeOK, ReqTo
  <2> QED BY <2>6, <2>7, <2>8, <2>9, <2>10, <2>11, RequestStep DEF ReqTo
<1>5. CASE /\ row[Key(q)] # NoRow /\ row[Key(q)].hash = req[q].version
           /\ leased' = IF Takeable(Key(q)) THEN leased \cup {Key(q)} ELSE leased
           /\ req' = [req EXCEPT ![q].pc = "read", ![q].owned = Takeable(Key(q))]
           /\ UNCHANGED row
  <2>0. Takeable(Key(q)) \in BOOLEAN
    BY DEF Takeable
  <2>1. ReqTo(q, "read")
    BY <2>0, <1>3, <1>5
  <2>2. leased' \subseteq Keys
    BY <1>2, <1>5 DEF CheckoutTypeOK
  <2>3. Moves
    BY <1>0, <1>5, StillMoves
  <2>4. ReqOK(q)'
    BY <1>0, <1>r, <1>5, <2>1, <2>3, ReqAt
  <2> QED BY <1>0, <1>5, <2>1, <2>2, <2>3, <2>4, QuietStep DEF ReqTo
<1>6. CASE Return(q) /\ UNCHANGED <<row, leased>>
  BY <1>0, <1>2, <1>6, EndStep, StillMoves DEF CheckoutTypeOK
<1> QED BY <1>4, <1>5, <1>6 DEF ClaimCheckout

\* The read after the claim, and the wait for another owner.
LEMMA ReadStep ==
    ASSUME CheckoutInv, NEW q \in Requests, ReadClaim(q) \/ waitForCheckout(q)
    PROVE  CheckoutInv' /\ Moves
<1>0. /\ req[q].pc \in Working /\ ~At(q, "idle")
      /\ UNCHANGED <<cart, row, leased, resv, placed, checkoutFaults, expired>> /\ leased' \subseteq Keys
  BY DEF ReadClaim, waitForCheckout, At, Working, Pc, CheckoutInv, CheckoutTypeOK
<1>1. CheckoutTypeOK /\ Key(q) \in Keys
  BY <1>0, Busy
<1>2. CASE row[Key(q)].phase = "committed" /\ AnswerWith(q, "order")
  BY <1>0, <1>1, <1>2, EndStep, StillMoves
<1>3. CASE Return(q) /\ UNCHANGED answered
  BY <1>0, <1>1, <1>3, EndStep, StillMoves
<1>4. CASE /\ row[Key(q)].phase \in Open
           /\ Goto(q, IF req[q].owned THEN NextStep(row[Key(q)].phase) ELSE "wait")
           /\ UNCHANGED answered
  <2> DEFINE pc == IF req[q].owned THEN NextStep(row[Key(q)].phase) ELSE "wait"
  <2>1. pc \in Working \ {"compensate", "release", "close", "save"} /\ pc \in Pc
    BY <1>4 DEF NextStep, Open, Working, Pc
  <2>2. Goto(q, pc)
    BY <1>4
  <2> HIDE DEF pc
  <2>3. ReqTo(q, pc)
    BY <1>1, <2>1, <2>2, ReqSteps
  <2> QED BY <1>0, <1>4, <2>1, <2>3, WalkStep
<1> QED BY <1>2, <1>3, <1>4 DEF ReadClaim, waitForCheckout

\* The phase of the request's row moves forward, and with it the request.
LEMMA AdvanceStep ==
    ASSUME CheckoutInv, NEW q \in Requests, req[q].pc \in Working,
           NEW from \in Open, NEW to \in {"prepared", "reserved"},
           NEW pc \in Working \ {"compensate", "release", "close", "save"},
           to = "reserved" /\ row[Key(q)].phase = from => resv[Key(q)] = "active",
           Advance(q, from, to, pc), UNCHANGED <<cart, resv, placed, answered, checkoutFaults, expired>>
    PROVE  CheckoutInv' /\ Moves
<1>0. req[q].pc # "idle" /\ ~At(q, "idle") /\ pc \in Pc
  BY DEF Working, At
<1>1. /\ CheckoutTypeOK /\ Key(q) \in Keys /\ row[Key(q)] # NoRow /\ row[Key(q)].hash = req[q].version
      /\ leased' = leased /\ leased \subseteq Keys
  BY <1>0, Busy DEF Advance, CheckoutTypeOK
<1>2. CASE row[Key(q)].phase = from /\ row' = [row EXCEPT ![Key(q)].phase = to] /\ Goto(q, pc)
  <2>k. PICK k \in Keys : k = Key(q)
    BY <1>1
  <2>0. to \in Phases /\ to \notin Failed /\ to # "committed" /\ row[k].phase \notin Failed /\ row[k].phase # "committed"
    BY <1>2, <2>k DEF Phases, Open, Failed
  <2>1. RowTo(k, to)
    BY <1>1, <1>2, <2>k, <2>0, RowSet
  <2>2. ReqTo(q, pc)
    BY <1>0, <1>1, <1>2, ReqSteps
  <2>3. Moves
    BY <1>1, <2>k, <2>0, <2>1, PhaseMoves
  <2>4. ReqOK(q)'
    <3>1. row'[Key(q)] # NoRow /\ row'[Key(q)].hash = req[q].version
      BY <1>1, <2>k, <2>3 DEF Moves, RowMoves
    <3> QED BY <1>0, <2>2, <2>3, <3>1, ReqAt
  <2>5. \A l \in Keys : KeyOK(l)'
    <3> TAKE l \in Keys
    <3>0. KeyOK(l)
      BY DEF CheckoutInv
    <3>1. CASE l = k
      BY <3>0, <3>1, <1>2, <2>k, <2>0, <2>1 DEF KeyOK, RowTo
    <3>2. CASE l # k
      BY <3>0, <3>2, <2>1 DEF KeyOK, RowTo
    <3> QED BY <3>1, <3>2
  <2>6. Sold'
    BY DEF CheckoutInv, Sold
  <2>7. CheckoutTypeOK'
    BY <1>1, <2>1, <2>2, TypeNext DEF CheckoutTypeOK, ReqTo, RowTo
  <2> QED BY <2>2, <2>3, <2>4, <2>5, <2>6, <2>7, RequestStep DEF ReqTo
<1>3. CASE Return(q) /\ UNCHANGED row
  BY <1>1, <1>3, EndStep, StillMoves
<1> QED BY <1>2, <1>3 DEF Advance

\* SaveCheckoutPrepared and SaveCheckoutReserved.
LEMMA SaveStep ==
    ASSUME CheckoutInv, NEW q \in Requests, Prepare(q) \/ SaveReserved(q)
    PROVE  CheckoutInv' /\ Moves
<1>w. {"prepare", "save"} \subseteq Working /\ {"reserve", "commit"} \subseteq Working \ {"compensate", "release", "close", "save"}
  BY DEF Working, Pc
<1>1. CASE Prepare(q)
  <2>1. /\ req[q].pc \in Working /\ Advance(q, "claimed", "prepared", "reserve")
        /\ UNCHANGED <<cart, resv, placed, answered, checkoutFaults, expired>>
    BY <1>1, <1>w DEF Prepare, At
  <2>2. "claimed" \in Open
    BY DEF Open
  <2> QED BY <1>w, <2>1, <2>2, AdvanceStep
<1>2. CASE SaveReserved(q)
  <2>1. /\ req[q].pc \in Working /\ req[q].pc = "save" /\ Advance(q, "prepared", "reserved", "commit")
        /\ UNCHANGED <<cart, resv, placed, answered, checkoutFaults, expired>>
    BY <1>2, <1>w DEF SaveReserved, At
  <2>2. "prepared" \in Open /\ "prepared" \notin Failed
    BY DEF Open, Failed
  <2>3. row[Key(q)].phase = "prepared" => resv[Key(q)] = "active"
    BY <2>1, <2>2 DEF CheckoutInv, ReqOK
  <2> QED BY <1>w, <2>1, <2>2, <2>3, AdvanceStep
<1> QED BY <1>1, <1>2

\* The reservation of one key is made or read.
LEMMA ReserveFacts ==
    ASSUME CheckoutTypeOK, NEW k \in Keys, ReserveStock(k)
    PROVE  /\ resv' \in [Keys -> Reservation]
           /\ \A l \in Keys : resv[l] # "none" => resv'[l] = resv[l]
           /\ \A l \in Keys : l # k => resv'[l] = resv[l]
<1>1. PICK r \in IF resv[k] = "none" THEN {"active", "split"} ELSE {resv[k]} :
         resv' = [resv EXCEPT ![k] = r]
  BY DEF ReserveStock
<1>2. r \in Reservation /\ (resv[k] # "none" => r = resv[k])
  BY <1>1 DEF CheckoutTypeOK, Reservation
<1> QED BY <1>1, <1>2 DEF CheckoutTypeOK

\* A step that moves the reservation of a key at most: what was active stays so.
LEMMA ReserveMoves ==
    ASSUME CheckoutInv, NEW k \in Keys, resv' = resv \/ ReserveStock(k), UNCHANGED <<cart, row>>
    PROVE  Moves /\ resv' \in [Keys -> Reservation]
<1>1. CheckoutTypeOK
  BY DEF CheckoutInv
<1>2. resv' \in [Keys -> Reservation] /\ \A l \in Keys : resv[l] # "none" => resv'[l] = resv[l]
  BY <1>1, ReserveFacts DEF CheckoutTypeOK
<1> QED BY <1>1, <1>2 DEF Moves, CartMoves, RowMoves, ResvMoves, CheckoutTypeOK

\* The reservation call came back, or failed, with the rows as they are.
LEMMA ReservedStep ==
    ASSUME CheckoutInv, NEW q \in Requests, Key(q) \in Keys, resv' = resv \/ ReserveStock(Key(q)),
           UNCHANGED <<cart, row, placed, answered, expired>>, leased' \subseteq Keys,
           CheckoutFault \/ UNCHANGED checkoutFaults, req' \in [Requests -> Request], OnlyReq(q), Moves => ReqOK(q)'
    PROVE  CheckoutInv' /\ Moves
<1>1. CheckoutTypeOK
  BY DEF CheckoutInv
<1>2. Moves /\ resv' \in [Keys -> Reservation]
  BY ReserveMoves
<1>3. \A l \in Keys : resv[l] = "active" => resv'[l] = "active"
  BY <1>1, ReserveFacts
<1>4. \A l \in Keys : KeyOK(l)'
  BY <1>3 DEF CheckoutInv, KeyOK
<1>5. Sold'
  BY DEF CheckoutInv, Sold
<1>6. CheckoutTypeOK'
  BY <1>1, <1>2, FaultType, TypeNext DEF CheckoutTypeOK
<1> QED BY <1>2, <1>4, <1>5, <1>6, RequestStep

\* GiveUp keeps the row and touches the lease only.
LEMMA GiveUpFacts ==
    ASSUME CheckoutTypeOK, NEW k \in Keys, GiveUp(k) PROVE leased' \subseteq Keys /\ UNCHANGED row
BY DEF CheckoutTypeOK, GiveUp

\* Preparing or reserving fails, or the reservation is not what was asked for.
LEMMA ReserveStockStep ==
    ASSUME CheckoutInv, NEW q \in Requests, reserveInventory(q) \/ ReserveFails(q) \/ PrepareFails(q)
    PROVE  CheckoutInv' /\ Moves
<1>0. /\ req[q].pc \in Working /\ ~At(q, "idle") /\ req[q].pc # "idle"
      /\ UNCHANGED <<cart, placed, answered, expired>> /\ "save" \in Working /\ "save" \in Pc
  BY DEF reserveInventory, ReserveFails, PrepareFails, At, Working, Pc
<1>1. /\ CheckoutTypeOK /\ Key(q) \in Keys /\ row[Key(q)] # NoRow /\ row[Key(q)].hash = req[q].version
  BY <1>0, Busy
<1>2. Return(q) => req' \in [Requests -> Request] /\ OnlyReq(q) /\ ReqOK(q)'
  BY <1>1, ReqSteps, ReqGone DEF ReqEnd
<1>3. CASE reserveInventory(q)
  <2>1. ReserveStock(Key(q)) /\ UNCHANGED checkoutFaults
    BY <1>3 DEF reserveInventory
  <2>2. CASE resv'[Key(q)] = "active" /\ Goto(q, "save") /\ UNCHANGED <<row, leased>>
    <3>1. ReqTo(q, "save")
      BY <1>0, <1>1, <2>2, ReqSteps
    <3>2. Moves => ReqOK(q)'
      BY <1>0, <1>1, <2>2, <3>1, ReqAt
    <3>3. leased' \subseteq Keys
      BY <1>1, <2>2 DEF CheckoutTypeOK
    <3> QED BY <1>0, <1>1, <2>1, <2>2, <3>1, <3>2, <3>3, ReservedStep DEF ReqTo
  <2>3. CASE resv'[Key(q)] \in {"split", "released"} /\ Return(q) /\ FailCheckout(Key(q), "failed")
    <3>1. resv' \in [Keys -> Reservation]
      BY <1>1, <2>1, ReserveFacts
    <3>2. row[Key(q)].phase # "committed"
      <4>1. resv[Key(q)] # "active"
        BY <1>1, <2>1, <2>3, ReserveFacts
      <4> QED BY <4>1, <1>1 DEF CheckoutInv, KeyOK
    <3>3. "failed" \in Failed
      BY DEF Failed
    <3> QED BY <1>0, <1>1, <1>2, <2>1, <2>3, <3>1, <3>2, <3>3, FailStep
  <2> QED BY <1>3, <2>2, <2>3 DEF reserveInventory
<1>4. CASE ReserveFails(q)
  <2>1. /\ CheckoutFault /\ Return(q) /\ GiveUp(Key(q))
        /\ resv' = resv \/ ReserveStock(Key(q))
    BY <1>4 DEF ReserveFails
  <2>2. leased' \subseteq Keys /\ UNCHANGED row
    BY <1>1, <2>1, GiveUpFacts
  <2> QED BY <1>0, <1>1, <1>2, <2>1, <2>2, ReservedStep
<1>5. CASE PrepareFails(q)
  <2>1. CheckoutFault /\ Return(q) /\ resv' = resv /\ (GiveUp(Key(q)) \/ FailCheckout(Key(q), "failed"))
    BY <1>5 DEF PrepareFails
  <2>2. CASE GiveUp(Key(q))
    <3>1. leased' \subseteq Keys /\ UNCHANGED row
      BY <1>1, <2>2, GiveUpFacts
    <3> QED BY <1>0, <1>1, <1>2, <2>1, <3>1, ReservedStep
  <2>3. CASE FailCheckout(Key(q), "failed")
    <3>1. "failed" \in Failed
      BY DEF Failed
    <3> QED BY <1>0, <1>1, <1>2, <2>1, <2>3, <3>1, FailStep
  <2> QED BY <2>1, <2>2, <2>3
<1> QED BY <1>3, <1>4, <1>5

\* The transaction of CommitCheckout sells the cart.
LEMMA CommitsStep ==
    ASSUME CheckoutInv, NEW q \in Requests, req[q].pc \in Working, Commits(q),
           UNCHANGED <<leased, resv, expired>>, CheckoutFault \/ UNCHANGED checkoutFaults,
           UNCHANGED answered \/ answered' = answered \cup {<<Key(q), "order">>},
           req' \in [Requests -> Request], OnlyReq(q), Moves => ReqOK(q)'
    PROVE  CheckoutInv' /\ Moves
<1>0. req[q].pc # "idle" /\ ~At(q, "idle")
  BY DEF Working, At
<1>1. CheckoutTypeOK /\ Key(q) \in Keys /\ row[Key(q)] # NoRow /\ row[Key(q)].hash = req[q].version
  BY <1>0, Busy
<1>k. PICK k \in Keys : k = Key(q)
  BY <1>1
<1>2. /\ row[k].phase = "reserved" /\ cart.status = "active" /\ cart.version = row[k].hash
      /\ placed' = placed \cup {k} /\ cart' = [cart EXCEPT !.status = "converted"]
      /\ row' = [row EXCEPT ![k].phase = "committed"]
  BY <1>1, <1>k DEF Commits
<1>p. "committed" \in Phases /\ row[k].phase \notin Failed
  BY <1>2 DEF Phases, Failed
<1>3. RowTo(k, "committed")
  BY <1>1, <1>k, <1>p, <1>2, RowSet
<1>4. Moves
  BY <1>1, <1>k, <1>p, <1>2, <1>3, PhaseMoves
<1>5. \A l \in Keys : KeyOK(l)'
  <2> TAKE l \in Keys
  <2>0. KeyOK(l)
    BY DEF CheckoutInv
  <2>1. CASE l = k
    BY <2>0, <2>1, <1>2, <1>3 DEF KeyOK, RowTo
  <2>2. CASE l # k
    <3>1. row'[l] = row[l] /\ resv'[l] = resv[l] /\ (l \in placed' <=> l \in placed)
      BY <2>2, <1>2, <1>3 DEF RowTo
    <3>2. <<l, "order">> \in answered' => <<l, "order">> \in answered
      BY <2>2, <1>k
    <3> QED BY <2>0, <3>1, <3>2 DEF KeyOK
  <2> QED BY <2>1, <2>2
<1>6. Sold'
  <2>1. placed' = {k}
    BY <1>2 DEF CheckoutInv, Sold
  <2>2. cart'.status = "converted"
    BY <1>1, <1>2 DEF CheckoutTypeOK
  <2> QED BY <2>1, <2>2 DEF Sold
<1>7. CheckoutTypeOK'
  <2>1. cart' \in [status : {"active", "converted"}, version : 1 .. MaxVersion]
    BY <1>1, <1>2 DEF CheckoutTypeOK
  <2>2. placed' \subseteq Keys /\ answered' \subseteq Keys \X {"order", "empty"}
    BY <1>1, <1>2 DEF CheckoutTypeOK
  <2> QED BY <1>1, <1>3, <2>1, <2>2, FaultType, TypeNext DEF CheckoutTypeOK, RowTo
<1> QED BY <1>4, <1>5, <1>6, <1>7, RequestStep

\* CommitCheckout, with its answer, without it, or refused.
LEMMA CommitStep ==
    ASSUME CheckoutInv, NEW q \in Requests, CommitCheckout(q) \/ CommitFails(q)
    PROVE  CheckoutInv' /\ Moves
<1>0. /\ req[q].pc \in Working /\ ~At(q, "idle") /\ req[q].pc # "idle"
      /\ UNCHANGED <<leased, resv, expired>> /\ (CheckoutFault \/ UNCHANGED checkoutFaults)
  BY DEF CommitCheckout, CommitFails, At, Working, Pc
<1>w. /\ "compensate" \in Working /\ "compensate" \in Pc
      /\ "lookup" \in Working \ {"compensate", "release", "close", "save"} /\ "lookup" \in Pc
  BY DEF Working, Pc
<1>1. /\ CheckoutTypeOK /\ Key(q) \in Keys /\ row[Key(q)] # NoRow /\ row[Key(q)].hash = req[q].version
      /\ leased' \subseteq Keys
  BY <1>0, Busy DEF CheckoutTypeOK
<1>2. Return(q) => req' \in [Requests -> Request] /\ OnlyReq(q) /\ ReqOK(q)'
  BY <1>1, ReqSteps, ReqGone DEF ReqEnd
<1>3. CASE Commits(q) /\ AnswerWith(q, "order")
  BY <1>0, <1>2, <1>3, CommitsStep DEF AnswerWith
<1>4. CASE row[Key(q)].phase = "committed" /\ AnswerWith(q, "order") /\ UNCHANGED <<cart, row, placed>>
  BY <1>0, <1>1, <1>4, EndStep, StillMoves
<1>5. CASE /\ row[Key(q)].phase = "reserved" /\ CommitConflict(q)
           /\ Goto(q, "compensate") /\ UNCHANGED <<cart, row, placed, answered>>
  <2>1. ReqTo(q, "compensate")
    BY <1>1, <1>w, <1>5, ReqSteps
  <2>2. ~(cart.status = "active" /\ cart.version = req[q].version)
    <3>1. cart \in [status : {"active", "converted"}, version : 1 .. MaxVersion]
      BY <1>1 DEF CheckoutTypeOK
    <3> QED BY <1>5, <3>1 DEF CommitConflict
  <2>3. Moves
    BY <1>0, <1>5, StillMoves
  <2>4. ReqOK(q)'
    BY <1>0, <1>w, <1>1, <1>5, <2>1, <2>2, <2>3, ReqAt
  <2> QED BY <1>0, <1>1, <1>5, <2>1, <2>3, <2>4, QuietStep DEF ReqTo
<1>6. CASE Goto(q, "lookup") /\ UNCHANGED <<cart, row, placed, answered>>
  <2>1. ReqTo(q, "lookup")
    BY <1>1, <1>w, <1>6, ReqSteps
  <2> QED BY <1>0, <1>w, <1>1, <1>6, <2>1, WalkStep
<1>7. CASE CommitFails(q) /\ Commits(q)
  <2>1. Goto(q, "lookup") /\ UNCHANGED answered
    BY <1>7 DEF CommitFails
  <2>2. ReqTo(q, "lookup")
    BY <1>1, <1>w, <2>1, ReqSteps
  <2>3. Moves => ReqOK(q)'
    <3> SUFFICES ASSUME Moves PROVE ReqOK(q)'
      OBVIOUS
    <3>1. row'[Key(q)] # NoRow /\ row'[Key(q)].hash = req[q].version
      BY <1>1 DEF Moves, RowMoves
    <3> QED BY <1>0, <1>w, <2>2, <3>1, ReqAt
  <2> QED BY <1>0, <1>7, <2>1, <2>2, <2>3, CommitsStep DEF ReqTo
<1>8. CASE CommitCheckout(q)
  BY <1>8, <1>3, <1>4, <1>5, <1>6 DEF CommitCheckout
<1>9. CASE CommitFails(q)
  BY <1>9, <1>6, <1>7 DEF CommitFails
<1> QED BY <1>8, <1>9

\* The read after a commit of unknown outcome.
LEMMA LookupStep ==
    ASSUME CheckoutInv, NEW q \in Requests, Lookup(q)
    PROVE  CheckoutInv' /\ Moves
<1>0. /\ ~At(q, "idle") /\ AnswerWith(q, OrderOf(Key(q)))
      /\ UNCHANGED <<cart, row, leased, resv, placed, checkoutFaults, expired>>
  BY DEF Lookup, At
<1>1. CheckoutTypeOK /\ Key(q) \in Keys /\ leased' \subseteq Keys
  BY <1>0, Busy DEF CheckoutTypeOK
<1>2. \/ row[Key(q)].phase = "committed" /\ AnswerWith(q, "order")
      \/ AnswerWith(q, "empty")
  BY <1>0 DEF OrderOf
<1> QED BY <1>0, <1>1, <1>2, EndStep, StillMoves

\* The compensation of a conflict, in three steps: close the row, release the
\* stock, close the row again.
LEMMA CompensationStep ==
    ASSUME CheckoutInv, NEW q \in Requests, Compensate(q) \/ Release(q) \/ CloseConflict(q)
    PROVE  CheckoutInv' /\ Moves
<1>0. /\ req[q].pc \in {"compensate", "release", "close"} /\ ~At(q, "idle") /\ req[q].pc # "idle"
      /\ UNCHANGED <<cart, placed, answered, checkoutFaults, expired>>
  BY DEF Compensate, Release, CloseConflict, At
<1>w. {"compensate", "release", "close"} \subseteq Working /\ {"release", "close"} \subseteq Pc
  BY DEF Working, Pc
<1>1. /\ CheckoutTypeOK /\ Key(q) \in Keys /\ row[Key(q)] # NoRow /\ row[Key(q)].hash = req[q].version
      /\ row[Key(q)].phase # "committed"
      /\ ~(cart.status = "active" /\ cart.version = req[q].version)
  BY <1>0, <1>w, Busy DEF ReqOK
<1>f. {"failed", "compensation_needed"} = Failed /\ "committed" \notin Failed
  BY DEF Failed
<1>2. CASE Compensate(q)
  <2>1. FailCheckout(Key(q), "compensation_needed") /\ Goto(q, "release") /\ resv' = resv
    BY <1>2 DEF Compensate
  <2>2. ReqTo(q, "release")
    BY <1>1, <1>w, <2>1, ReqSteps
  <2>3. row'[Key(q)].phase \in Failed
    <3>1. row' = [row EXCEPT ![Key(q)].phase = "compensation_needed"] /\ "compensation_needed" \in Phases
      BY <1>1, <2>1 DEF FailCheckout, Phases, Failed
    <3>2. RowTo(Key(q), "compensation_needed")
      BY <1>1, <3>1, RowSet
    <3> QED BY <3>2, <1>f DEF RowTo
  <2>4. Moves => ReqOK(q)'
    <3> SUFFICES ASSUME Moves PROVE ReqOK(q)'
      OBVIOUS
    <3>1. row'[Key(q)] # NoRow /\ row'[Key(q)].hash = req[q].version
      BY <1>1 DEF Moves, RowMoves
    <3> QED BY <1>0, <1>1, <1>w, <1>f, <2>2, <2>3, <3>1, ReqAt
  <2> QED BY <1>0, <1>1, <1>f, <2>1, <2>2, <2>4, FailStep DEF ReqTo
<1>3. CASE Release(q)
  <2>1. /\ Goto(q, "close") /\ UNCHANGED <<row, leased>> /\ At(q, "release")
        /\ resv' = IF resv[Key(q)] \in {"active", "split"} THEN [resv EXCEPT ![Key(q)] = "released"] ELSE resv
    BY <1>3 DEF Release
  <2>k. PICK k \in Keys : k = Key(q)
    BY <1>1
  <2>2. row[k].phase \in Failed
    BY <1>0, <1>1, <2>1, <2>k DEF CheckoutInv, ReqOK, At
  <2>3. resv' \in [Keys -> Reservation] /\ \A l \in Keys : l # k => resv'[l] = resv[l]
    <3>1. CASE resv[k] \in {"active", "split"}
      BY <1>1, <2>1, <2>k, <3>1 DEF CheckoutTypeOK, Reservation
    <3>2. CASE resv[k] \notin {"active", "split"}
      BY <1>1, <2>1, <2>k, <3>2 DEF CheckoutTypeOK
    <3> QED BY <3>1, <3>2
  <2>4. Moves
    <3>1. \A l \in Keys : ResvMoves(l)
      BY <2>2, <2>3 DEF ResvMoves
    <3> QED BY <1>0, <1>1, <2>1, <3>1 DEF Moves, CartMoves, RowMoves, CheckoutTypeOK
  <2>5. ReqTo(q, "close")
    BY <1>1, <1>w, <2>1, ReqSteps
  <2>6. ReqOK(q)'
    BY <1>0, <1>1, <1>w, <2>1, <2>k, <2>2, <2>4, <2>5, ReqAt
  <2>7. \A l \in Keys : KeyOK(l)'
    <3> TAKE l \in Keys
    <3>0. KeyOK(l) /\ row'[l] = row[l] /\ placed' = placed /\ answered' = answered
      BY <1>0, <2>1 DEF CheckoutInv
    <3>1. CASE l = k
      BY <3>0, <3>1, <2>2 DEF KeyOK, Failed
    <3>2. CASE l # k
      BY <3>0, <3>2, <2>3 DEF KeyOK
    <3> QED BY <3>1, <3>2
  <2>8. Sold'
    BY <1>0 DEF CheckoutInv, Sold
  <2>9. CheckoutTypeOK'
    BY <1>0, <1>1, <2>1, <2>3, <2>5, TypeNext DEF CheckoutTypeOK, ReqTo
  <2> QED BY <2>4, <2>5, <2>6, <2>7, <2>8, <2>9, RequestStep DEF ReqTo
<1>4. CASE CloseConflict(q)
  <2>1. FailCheckout(Key(q), "failed") /\ Return(q) /\ resv' = resv
    BY <1>4 DEF CloseConflict
  <2>2. req' \in [Requests -> Request] /\ OnlyReq(q) /\ ReqOK(q)'
    BY <1>1, <2>1, ReqSteps, ReqGone DEF ReqEnd
  <2> QED BY <1>0, <1>1, <1>f, <2>1, <2>2, FailStep
<1> QED BY <1>2, <1>3, <1>4

---------------------------------------------------------------------------
(* The environment *)

\* Steps that leave every request where it is.
LEMMA EnvironmentStep ==
    ASSUME CheckoutInv, Moves, req' = req, CheckoutTypeOK', \A k \in Keys : KeyOK(k)', Sold'
    PROVE  CheckoutInv'
<1>1. \A q \in Requests : ReqOK(q)'
  BY ReqFrame
<1> QED BY <1>1 DEF CheckoutInv

\* A crash, a lease that runs out, a change of the cart or its expiry, or
\* nothing.
LEMMA OutsideStep ==
    ASSUME CheckoutInv,
           \/ \E q \in Requests : Crash(q)
           \/ \E k \in Keys : LeaseExpires(k)
           \/ MutateCart
           \/ CartExpires
           \/ UNCHANGED checkoutVars
    PROVE  CheckoutInv' /\ Moves
<1>0. CheckoutTypeOK
  BY DEF CheckoutInv
<1>1. ASSUME NEW q \in Requests, Crash(q) PROVE CheckoutInv' /\ Moves
  <2>1. ~At(q, "idle") /\ CheckoutFault /\ Return(q) /\ UNCHANGED <<cart, row, leased, resv, placed, answered, expired>>
    BY <1>1 DEF Crash
  <2>2. Key(q) \in Keys /\ leased' \subseteq Keys
    BY <1>0, <2>1, Busy DEF CheckoutTypeOK
  <2> QED BY <2>1, <2>2, EndStep, StillMoves
<1>2. ASSUME UNCHANGED <<cart, row, resv, placed, req, answered, checkoutFaults>>, leased' \subseteq Keys,
             expired' \in BOOLEAN
      PROVE  CheckoutInv' /\ Moves
  <2>1. Moves
    BY <1>2, StillMoves
  <2>2. CheckoutTypeOK' /\ Sold' /\ \A k \in Keys : KeyOK(k)'
    BY <1>0, <1>2 DEF CheckoutInv, CheckoutTypeOK, Sold, KeyOK
  <2> QED BY <1>2, <2>1, <2>2, EnvironmentStep
<1>3. ASSUME NEW k \in Keys, LeaseExpires(k) PROVE CheckoutInv' /\ Moves
  BY <1>0, <1>2, <1>3 DEF LeaseExpires, CheckoutTypeOK
<1>4. CASE MutateCart
  <2>1. /\ cart.status = "active" /\ cart.version < MaxVersion /\ cart' = [cart EXCEPT !.version = @ + 1]
        /\ UNCHANGED <<row, leased, resv, placed, req, answered, checkoutFaults, expired>>
    BY <1>4 DEF MutateCart
  <2>2. /\ cart' \in [status : {"active", "converted"}, version : 1 .. MaxVersion]
        /\ cart.version \in Nat /\ cart'.version = cart.version + 1 /\ cart'.status = "active"
    BY <1>0, <2>1, CheckoutAssumption DEF CheckoutTypeOK
  <2>3. Moves
    BY <2>1, <2>2 DEF Moves, CartMoves, RowMoves, ResvMoves
  <2>4. CheckoutTypeOK' /\ Sold' /\ \A k \in Keys : KeyOK(k)'
    BY <1>0, <2>1, <2>2 DEF CheckoutInv, CheckoutTypeOK, Sold, KeyOK
  <2> QED BY <2>1, <2>3, <2>4, EnvironmentStep
<1>5. CASE UNCHANGED checkoutVars
  BY <1>0, <1>2, <1>5 DEF checkoutVars, CheckoutTypeOK
<1>6. CASE CartExpires
  BY <1>0, <1>2, <1>6 DEF CartExpires, CheckoutTypeOK
<1> QED BY <1>1, <1>3, <1>4, <1>5, <1>6

\* The invariant holds at the start.
LEMMA CheckoutStarts == CheckoutInit => CheckoutInv
<1> SUFFICES ASSUME CheckoutInit PROVE CheckoutInv
  OBVIOUS
<1> USE CheckoutAssumption
<1>1. CheckoutTypeOK
  <2>1. NoRequest \in Request
    BY DEF NoRequest, Request, Pc
  <2>2. expired \in BOOLEAN
    BY DEF CheckoutInit
  <2> QED BY <2>1, <2>2 DEF CheckoutInit, CheckoutTypeOK, Reservation
<1>2. \A q \in Requests : ReqOK(q)
  BY DEF CheckoutInit, ReqOK, NoRequest, Working
<1>3. \A k \in Keys : KeyOK(k)
  BY DEF CheckoutInit, KeyOK, NoRow
<1>4. Sold
  BY DEF CheckoutInit, Sold
<1> QED BY <1>1, <1>2, <1>3, <1>4 DEF CheckoutInv

\* Every step keeps it, and moves rows, reservations and cart as stated.
LEMMA CheckoutSteps ==
    CheckoutInv /\ [CheckoutNext]_checkoutVars => CheckoutInv' /\ Moves
<1> SUFFICES ASSUME CheckoutInv, [CheckoutNext]_checkoutVars PROVE CheckoutInv' /\ Moves
  OBVIOUS
<1>1. ASSUME NEW q \in Requests, Step(q) PROVE CheckoutInv' /\ Moves
  BY <1>1, FindStep, ClaimStep, ReadStep, SaveStep, ReserveStockStep, CommitStep, LookupStep,
     CompensationStep DEF Step
<1>2. ASSUME NEW q \in Requests, PrepareFails(q) \/ ReserveFails(q) \/ CommitFails(q)
      PROVE  CheckoutInv' /\ Moves
  BY <1>2, ReserveStockStep, CommitStep
<1>3. ASSUME NEW q \in Requests, NEW k \in Keys, Start(q, k) PROVE CheckoutInv' /\ Moves
  BY <1>3, StartStep
<1> QED BY <1>1, <1>2, <1>3, OutsideStep DEF CheckoutNext

\* CheckoutInv is an invariant, whatever keys, requests and faults there are.
LEMMA CheckoutInvariant == CheckoutSpec => []CheckoutInv
<1>1. CheckoutInv /\ [CheckoutNext]_checkoutVars => CheckoutInv'
  BY CheckoutSteps
<1> QED BY CheckoutStarts, <1>1, PTL DEF CheckoutSpec

\* One cart becomes one order, the order has its stock, and every answer that
\* names an order is true (CommitCheckout, FailCheckout):
\* for every number of keys, of requests that take the work over from each
\* other, of cart changes, crashes, failed calls and lost answers.
THEOREM CheckoutSellsOnce == CheckoutSpec => []OneOrder
<1>1. CheckoutInv => OneOrder
  <2> SUFFICES ASSUME CheckoutInv PROVE OneOrder
    OBVIOUS
  <2>1. Cardinality(placed) <= 1
    <3>1. CASE placed = {}
      BY <3>1, FS_EmptySet
    <3>2. CASE placed # {}
      <4>1. PICK k \in placed : TRUE
        BY <3>2
      <4>2. placed = {k}
        BY <4>1 DEF CheckoutInv, Sold
      <4> QED BY <4>2, FS_Singleton
    <3> QED BY <3>1, <3>2
  <2>2. \A k \in placed : resv[k] = "active"
    BY DEF CheckoutInv, CheckoutTypeOK, KeyOK
  <2>3. \A k \in Keys : <<k, "order">> \in answered => k \in placed /\ row[k].phase = "committed"
    BY DEF CheckoutInv, KeyOK
  <2> QED BY <2>1, <2>2, <2>3 DEF OneOrder, CheckoutInv
<1> QED BY <1>1, CheckoutInvariant, PTL

\* A decided key stays decided: no owner that lost its lease, and no
\* compensation, fails a committed key or revives a failed one.
THEOREM DecisionsStand == CheckoutSpec => DecidedStays
<1> DEFINE I == CheckoutInv
           A == \A k \in Keys :
                   /\ row[k].phase = "committed" => row'[k] = row[k]
                   /\ row[k].phase \in Failed => row'[k].phase \in Failed
<1>1. I /\ [CheckoutNext]_checkoutVars => [A]_checkoutVars
  BY CheckoutSteps DEF Moves, RowMoves
<1>2. CheckoutSpec => []I
  BY CheckoutInvariant
<1>3. CheckoutSpec => [][A]_checkoutVars
  <2> HIDE DEF I, A
  <2> QED BY <1>1, <1>2, PTL DEF CheckoutSpec
<1> QED BY <1>3 DEF DecidedStays, A

---------------------------------------------------------------------------
(* The inductive invariant of an order: every event in the Outbox is true  *)
(* of the services for good, so whenever and however often it is handled,  *)
(* what it tells is still so.                                              *)

Sent(type, o) == {e \in outbox : e.type = type /\ e.order = o}

\* The order's money came in: an intent of its price was captured.
Captured(o) == intent[o].status \in {"succeeded", "refunded"} /\ intent[o].amount = Price

\* The reservation and the fence of an order agree, and a placed order has a
\* reservation.
StockShape(o) ==
    /\ fence[o] = "none" => res[o].state \in {"none", "active"}
    /\ fence[o] # "none" => res[o].state = fence[o]
    /\ ord[o].status # "none" => res[o].state # "none"

\* The states of an order.
OrderShape(o) ==
    LET r == ord[o] IN
    /\ r.status = "none" => r = NoOrder
    /\ r.status = "pending" => r.pay \in {"pending", "authorized"}
    /\ r.status \in {"confirmed", "completed"} => r.pay = "paid" /\ fence[o] = "committed"
    /\ r.pay \in {"authorized", "paid"} => r.captured = Price
    /\ r.captured = Price => Captured(o)
    /\ r.status # "cancelled" => r.refunded = 0 /\ r.step["fulfillment_cancel_requested"] = "none"
    /\ r.step["fulfillment_cancel_requested"] = "pending" =>
          r.captured = Price /\ r.refunded = 0 /\ Sent("payment.refund-requested", o) = {}
    /\ r.refunded \in {0, Price}
    /\ r.refunded = Price => intent[o].refunds # {}

\* The refunds of an order: one at most, of all that was captured, and only
\* after it was cancelled.
RefundShape(o) ==
    /\ \A e \in Sent("payment.refund-requested", o) : e.amount = Price
    /\ \A e, f \in Sent("payment.refund-requested", o) : e = f
    /\ Sent("payment.refund-requested", o) # {} =>
          ord[o].status = "cancelled" /\ ord[o].captured = Price
    /\ intent[o].refunds \subseteq Sent("payment.refund-requested", o)
    /\ intent[o].refunds = {} => intent[o].status \in {"none", "succeeded", "failed"}
    /\ intent[o].refunds # {} => intent[o].status = "refunded"
    /\ \A e \in Sent("refund.succeeded", o) : e.amount = Price
    /\ Sent("refund.succeeded", o) # {} => intent[o].refunds # {}

\* What the other events of an order tell is true.
EventsTrue(o) ==
    /\ \A e \in Sent("order.placed", o) : e.amount = Price
    /\ \A e \in Sent("payment.captured", o) : e.amount = Price => Captured(o)
    /\ Sent("inventory.commit-requested", o) # {} => ord[o].status # "none"
    /\ Sent("inventory.release-requested", o) # {} => ord[o].status # "none"
    /\ Sent("inventory.committed", o) # {} => fence[o] = "committed"
    /\ Sent("order.paid", o) # {} => fence[o] = "committed" /\ ord[o].captured = Price
    /\ o \in shipped => fence[o] = "committed" /\ ord[o].captured = Price

OrderInv(o) == StockShape(o) /\ OrderShape(o) /\ RefundShape(o) /\ EventsTrue(o)

\* The orders that ever reserved stock, and those in a state.
Reserved == {o \in Orders : res[o].state # "none"}

In(state) == {o \in Orders : res[o].state = state}

\* What each order holds at location l.
HeldAt(l) == [o \in Orders |-> res[o].held[l]]

\* The stock of a location, as StockBooks has it.
LevelBooks(l) ==
    /\ level[l].reserved = SumFunctionOnSet(HeldAt(l), In("active"))
    /\ level[l].onHand = OnHand[l] - SumFunctionOnSet(HeldAt(l), In("committed"))
    /\ level[l].reserved <= level[l].onHand

ServiceTypes ==
    /\ ord \in [Orders -> Order]
    /\ level \in [Locations -> [onHand : Nat, reserved : Nat]]
    /\ res \in [Orders -> [state : {"none", "active", "committed", "released"},
                           held : [Locations -> Nat]]]
    /\ fence \in [Orders -> {"none", "committed", "released"}]
    /\ intent \in [Orders -> [status : {"none", "succeeded", "failed", "partially_refunded", "refunded"},
                              amount : Nat, refunds : SUBSET outbox]]
    /\ shipped \subseteq Orders
    /\ outbox \subseteq Event

BrokerTypes ==
    /\ settled \in [Consumers -> SUBSET outbox]
    /\ retried \subseteq [to : Consumers, ev : outbox, try : 1 .. MaxAttempts]
    /\ inbox \in [Consumers -> SUBSET outbox]
    /\ dead \in [Consumers -> SUBSET outbox]
    /\ faults \in 0 .. MaxFaults

\* The databases of the services; what is counted there is finite.
Services ==
    /\ ServiceTypes /\ IsFiniteSet(outbox) /\ IsFiniteSet(Reserved)
    /\ \A o \in Orders : OrderInv(o)
    /\ \A l \in Locations : LevelBooks(l)

Broker == BrokerTypes /\ IsFiniteSet(retried)

SagaInv == Services /\ Broker

---------------------------------------------------------------------------
(* Events *)

\* A new event is one of its type and order.
LEMMA NewEventFacts ==
    ASSUME IsFiniteSet(outbox), NEW o \in Orders, NEW t \in EventTypes, NEW e, e = NewEvent(t, o)
    PROVE  e \in Event /\ e.type = t /\ e.order = o
<1> DEFINE S == {f \in outbox : f.type = t /\ f.order = o}
<1>1. IsFiniteSet(S)
  BY FS_Subset
<1>2. Cardinality(S) \in Nat
  BY <1>1, FS_CardinalityType
<1> HIDE DEF S
<1>3. e = [type |-> t, order |-> o, n |-> Cardinality(S), reason |-> FALSE, amount |-> 0]
  BY DEF NewEvent, S
<1> QED BY <1>2, <1>3 DEF Event

\* Naming a reason changes nothing else.
LEMMA ReasonFacts ==
    ASSUME IsFiniteSet(outbox), NEW o \in Orders, NEW t \in EventTypes, NEW e, e = WithReason(NewEvent(t, o))
    PROVE  e \in Event /\ e.type = t /\ e.order = o
<1>1. PICK f : f = NewEvent(t, o)
  OBVIOUS
<1>2. f \in Event /\ f.type = t /\ f.order = o
  BY <1>1, NewEventFacts
<1>3. e = [f EXCEPT !.reason = TRUE]
  BY <1>1 DEF WithReason
<1> QED BY <1>2, <1>3 DEF Event

\* Nor does naming an amount.
LEMMA AmountFacts ==
    ASSUME IsFiniteSet(outbox), NEW o \in Orders, NEW t \in EventTypes, NEW a \in Nat,
           NEW e, e = WithAmount(NewEvent(t, o), a)
    PROVE  e \in Event /\ e.type = t /\ e.order = o /\ e.amount = a
<1>1. PICK f : f = NewEvent(t, o)
  OBVIOUS
<1>2. f \in Event /\ f.type = t /\ f.order = o
  BY <1>1, NewEventFacts
<1>3. e = [f EXCEPT !.amount = a]
  BY <1>1 DEF WithAmount
<1> QED BY <1>2, <1>3 DEF Event

\* Two events are finitely many.
LEMMA PairFinite == \A e, f : IsFiniteSet({e, f})
<1> TAKE e, f
<1>1. IsFiniteSet({e}) /\ IsFiniteSet({f}) /\ {e, f} = {e} \cup {f}
  BY FS_Singleton
<1> QED BY <1>1, FS_Union

\* Which events a consumer gets.
LEMMA InventoryEvents ==
    ASSUME NEW t \in EventTypes, "inventory" \in Bindings(t)
    PROVE  t \in {"inventory.commit-requested", "inventory.release-requested"}
BY DEF Bindings, EventTypes

---------------------------------------------------------------------------
(* A step of one order *)

\* Nothing changes but the rows of order o, and E are its new events.
Concerns(o, E) ==
    /\ E \subseteq Event /\ IsFiniteSet(E) /\ \A e \in E : e.order = o
    /\ outbox' = outbox \cup E
    /\ \A x \in Orders : x # o =>
          /\ ord'[x] = ord[x] /\ res'[x] = res[x] /\ fence'[x] = fence[x] /\ intent'[x] = intent[x]
          /\ x \in shipped' <=> x \in shipped

\* What was sent of a type then.
LEMMA SentThen ==
    ASSUME NEW o, NEW E, outbox' = outbox \cup E, NEW x, NEW t
    PROVE  Sent(t, x)' = Sent(t, x) \cup {e \in E : e.type = t /\ e.order = x}
BY DEF Sent

\* The other orders are as they were.
LEMMA OthersKept ==
    ASSUME NEW o \in Orders, NEW E, Concerns(o, E), NEW x \in Orders, x # o, OrderInv(x)
    PROVE  OrderInv(x)'
<1>1. \A t : Sent(t, x)' = Sent(t, x)
  <2>1. \A e \in E : e.order # x
    BY DEF Concerns
  <2> QED BY <2>1 DEF Sent, Concerns
<1>2. /\ ord'[x] = ord[x] /\ res'[x] = res[x] /\ fence'[x] = fence[x] /\ intent'[x] = intent[x]
      /\ x \in shipped' <=> x \in shipped
  BY DEF Concerns
<1>3. StockShape(x)'
  BY <1>2 DEF OrderInv, StockShape
<1>4. Captured(x)' <=> Captured(x)
  BY <1>2 DEF Captured
<1>5. OrderShape(x)'
  BY <1>1, <1>2, <1>4 DEF OrderInv, OrderShape
<1>6. RefundShape(x)'
  BY <1>1, <1>2 DEF OrderInv, RefundShape
<1>7. EventsTrue(x)'
  BY <1>1, <1>2, <1>4 DEF OrderInv, EventsTrue
<1> QED BY <1>3, <1>5, <1>6, <1>7 DEF OrderInv

\* A step of an order that leaves the stock alone.
LEMMA StockStill ==
    ASSUME Services, NEW o \in Orders, NEW E, Concerns(o, E), UNCHANGED <<level, res, fence>>,
           ord' \in [Orders -> Order], shipped' \subseteq Orders,
           intent' \in [Orders -> [status : {"none", "succeeded", "failed", "partially_refunded", "refunded"},
                                   amount : Nat, refunds : SUBSET outbox']],
           OrderInv(o)'
    PROVE  Services'
<1>1. IsFiniteSet(outbox') /\ outbox' \subseteq Event
  BY FS_Union DEF Services, ServiceTypes, Concerns
<1>2. ServiceTypes'
  BY <1>1 DEF Services, ServiceTypes
<1>3. Reserved' = Reserved /\ \A l \in Locations : LevelBooks(l)'
  BY DEF Services, Reserved, LevelBooks, HeldAt, In
<1>4. \A x \in Orders : OrderInv(x)'
  BY OthersKept DEF Services
<1> QED BY <1>1, <1>2, <1>3, <1>4 DEF Services

StepStatus == {"none", "pending", "completed", "failed"}

\* The rows of an order.
LEMMA Rows ==
    ASSUME Services, NEW o \in Orders
    PROVE  /\ ord[o] \in Order /\ OrderInv(o) /\ IsFiniteSet(outbox) /\ outbox \subseteq Event
           /\ ord \in [Orders -> Order] /\ ord[o].step \in [Steps -> StepStatus]
           /\ res[o] \in [state : {"none", "active", "committed", "released"}, held : [Locations -> Nat]]
           /\ fence[o] \in {"none", "committed", "released"}
           /\ intent[o] \in [status : {"none", "succeeded", "failed", "partially_refunded", "refunded"},
                             amount : Nat, refunds : SUBSET outbox]
           /\ shipped \subseteq Orders
BY DEF Services, ServiceTypes, Order, StepStatus

\* The intents keep their type when the Outbox grows.
LEMMA IntentStill ==
    ASSUME Services, outbox \subseteq outbox', intent' = intent
    PROVE  intent' \in [Orders -> [status : {"none", "succeeded", "failed", "partially_refunded", "refunded"},
                                   amount : Nat, refunds : SUBSET outbox']]
<1>1. \A o \in Orders : intent[o] \in [status : {"none", "succeeded", "failed", "partially_refunded", "refunded"},
                                       amount : Nat, refunds : SUBSET outbox']
  BY DEF Services, ServiceTypes
<1> QED BY <1>1 DEF Services, ServiceTypes

\* Requesting a step leaves the other steps alone.
LEMMA RequestedFacts ==
    ASSUME NEW steps \in [Steps -> StepStatus], NEW s \in Steps
    PROVE  /\ Requested(steps, s) \in [Steps -> StepStatus]
           /\ \A t \in Steps : t # s => Requested(steps, s)[t] = steps[t]
BY DEF Requested, StepStatus

\* So does closing one.
LEMMA ClosedFacts ==
    ASSUME NEW steps \in [Steps -> StepStatus], NEW s \in Steps, NEW v \in StepStatus,
           NEW c, c = Closed(steps, s, v)
    PROVE  /\ c \in [Steps -> StepStatus]
           /\ \A t \in Steps : t # s => c[t] = steps[t]
           /\ v # "pending" => c[s] # "pending"
BY DEF Closed, StepStatus

\* The steps have these names.
LEMMA StepNames ==
    /\ "payment_requested" \in Steps /\ "inventory_commit_requested" \in Steps
    /\ "inventory_release_requested" \in Steps /\ "fulfillment_cancel_requested" \in Steps
    /\ "refund_requested" \in Steps
    /\ "completed" \in StepStatus /\ "failed" \in StepStatus
BY DEF Steps, StepStatus

\* A step of the order service: the order becomes r and sends E.
OrderMoves(o, r, E) ==
    /\ r \in Order /\ E \subseteq Event /\ IsFiniteSet(E) /\ \A e \in E : e.order = o
    /\ ord' = [ord EXCEPT ![o] = r] /\ outbox' = outbox \cup E
    /\ UNCHANGED <<level, res, fence, intent, shipped>>

\* It concerns the order only.
LEMMA OrderMovesRows ==
    ASSUME Services, NEW o \in Orders, NEW r, NEW E, OrderMoves(o, r, E), OrderInv(o)'
    PROVE  Services' /\ outbox \subseteq outbox'
<1>1. Concerns(o, E) /\ ord' \in [Orders -> Order]
  BY DEF OrderMoves, Concerns, Services, ServiceTypes
<1>2. UNCHANGED <<level, res, fence>> /\ shipped' \subseteq Orders /\ outbox \subseteq outbox' /\ intent' = intent
  BY DEF OrderMoves, Services, ServiceTypes
<1> QED BY <1>1, <1>2, StockStill, IntentStill

\* Most moves of an order neither request a refund nor begin to cancel: then
\* what remains to show is about its status, its money and its new events.
LEMMA OrderMovesOn ==
    ASSUME Services, NEW o \in Orders, NEW r, NEW E, OrderMoves(o, r, E),
           r.status # "none", res[o].state # "none",
           r.status = "pending" => r.pay \in {"pending", "authorized"},
           r.status \in {"confirmed", "completed"} => r.pay = "paid" /\ fence[o] = "committed",
           r.pay \in {"authorized", "paid"} => r.captured = Price,
           ord[o].captured = Price => r.captured = Price,
           r.captured = Price => Captured(o),
           r.refunded = ord[o].refunded,
           r.status # "cancelled" => ord[o].status # "cancelled"
                                     /\ r.step["fulfillment_cancel_requested"] = ord[o].step["fulfillment_cancel_requested"],
           r.step["fulfillment_cancel_requested"] = "pending" =>
              \/ ord[o].step["fulfillment_cancel_requested"] = "pending"
              \/ ord[o].status # "cancelled" /\ r.captured = Price,
           \A e \in E : /\ e.type \in {"order.placed", "order.paid", "order.cancelled", "fulfillment.cancel-requested",
                                       "inventory.commit-requested", "inventory.release-requested"}
                        /\ e.type = "order.placed" => e.amount = Price
                        /\ e.type = "order.paid" => fence[o] = "committed" /\ r.captured = Price
    PROVE  Services' /\ outbox \subseteq outbox'
<1>1. OrderInv(o) /\ ord[o] \in Order
  BY Rows
<1>2. ord'[o] = r /\ res' = res /\ fence' = fence /\ intent' = intent /\ shipped' = shipped
  BY DEF OrderMoves, Services, ServiceTypes
<1>3. /\ \A t : t \notin {"order.placed", "order.paid", "order.cancelled", "fulfillment.cancel-requested",
                          "inventory.commit-requested", "inventory.release-requested"} => Sent(t, o)' = Sent(t, o)
      /\ \A t : \A e \in Sent(t, o)' : e \in Sent(t, o) \/ (e \in E /\ e.type = t)
  BY DEF OrderMoves, Sent
<1>4. Captured(o)' <=> Captured(o)
  BY <1>2 DEF Captured
<1>5. StockShape(o)'
  BY <1>1, <1>2 DEF OrderInv, StockShape
<1>6. OrderShape(o)'
  <2>1. Sent("payment.refund-requested", o)' = Sent("payment.refund-requested", o)
    BY <1>3
  <2>2. r.step["fulfillment_cancel_requested"] = "pending" =>
            r.captured = Price /\ r.refunded = 0 /\ Sent("payment.refund-requested", o) = {}
    BY <1>1 DEF OrderInv, OrderShape, RefundShape
  <2>3. r.status # "cancelled" => r.refunded = 0 /\ r.step["fulfillment_cancel_requested"] = "none"
    BY <1>1 DEF OrderInv, OrderShape
  <2>4. r.refunded \in {0, Price} /\ (r.refunded = Price => intent[o].refunds # {})
    BY <1>1 DEF OrderInv, OrderShape
  <2> QED BY <1>2, <1>4, <2>1, <2>2, <2>3, <2>4 DEF OrderShape
<1>7. RefundShape(o)'
  <2>1. /\ Sent("payment.refund-requested", o)' = Sent("payment.refund-requested", o)
        /\ Sent("refund.succeeded", o)' = Sent("refund.succeeded", o)
    BY <1>3
  <2>2. ord[o].status = "cancelled" => r.status = "cancelled"
    OBVIOUS
  <2> QED BY <1>1, <1>2, <2>1, <2>2 DEF OrderInv, RefundShape
<1>8. EventsTrue(o)'
  <2>1. \A e \in Sent("order.placed", o)' : e.amount = Price
    BY <1>1, <1>3 DEF OrderInv, EventsTrue
  <2>2. Sent("payment.captured", o)' = Sent("payment.captured", o)
        /\ Sent("inventory.committed", o)' = Sent("inventory.committed", o)
    BY <1>3
  <2>3. Sent("order.paid", o)' # {} => fence[o] = "committed" /\ r.captured = Price
    BY <1>1, <1>3 DEF OrderInv, EventsTrue
  <2> QED BY <1>1, <1>2, <1>4, <2>1, <2>2, <2>3 DEF OrderInv, EventsTrue
<1> QED BY <1>5, <1>6, <1>7, <1>8, OrderMovesRows DEF OrderInv

\* An order that is left alone.
LEMMA IgnoreStep ==
    ASSUME Services, UNCHANGED <<ord, level, res, fence, intent, shipped, outbox>>
    PROVE  Services'
<1>1. ServiceTypes' /\ IsFiniteSet(outbox') /\ IsFiniteSet(Reserved')
  BY DEF Services, ServiceTypes, Reserved
<1>2. \A o \in Orders : OrderInv(o)'
  BY DEF Services, OrderInv, StockShape, OrderShape, RefundShape, EventsTrue, Captured, Sent
<1>3. \A l \in Locations : LevelBooks(l)'
  BY DEF Services, LevelBooks, HeldAt, In
<1> QED BY <1>1, <1>2, <1>3 DEF Services

---------------------------------------------------------------------------
(* The order service *)

\* CommitCheckout.
LEMMA PlaceOrderStep ==
    ASSUME OrderAssumption, Services, NEW o \in Orders, PlaceOrder(o)
    PROVE  Services' /\ outbox \subseteq outbox'
<1>1. PICK r : r = [NoOrder EXCEPT !.status = "pending", !.pay = "pending", !.saga = "paying",
                                  !.alloc = "active", !.step["payment_requested"] = "pending"]
  OBVIOUS
<1>2. PICK e : e = WithAmount(NewEvent("order.placed", o), Price)
  OBVIOUS
<1>3. /\ ord[o].status = "none" /\ res[o].state = "active"
      /\ ord' = [ord EXCEPT ![o] = r] /\ outbox' = outbox \cup {e}
      /\ UNCHANGED <<level, res, fence, intent, shipped>>
  BY <1>1, <1>2 DEF PlaceOrder, InsertOutbox, stock
<1>4. /\ r \in Order /\ r.status = "pending" /\ r.pay = "pending" /\ r.captured = 0 /\ r.refunded = 0
      /\ r.step["fulfillment_cancel_requested"] = "none"
  <2>1. PICK n : n = [s \in Steps |-> "none"]
    OBVIOUS
  <2>2. PICK m : m = [n EXCEPT !["payment_requested"] = "pending"]
    OBVIOUS
  <2>3. m \in [Steps -> StepStatus] /\ m["fulfillment_cancel_requested"] = "none"
    BY <2>1, <2>2 DEF Steps, StepStatus
  <2>4. r = [status |-> "pending", pay |-> "pending", ful |-> "unfulfilled", saga |-> "paying",
             captured |-> 0, refunded |-> 0, alloc |-> "active", step |-> m]
    BY <1>1, <2>1, <2>2 DEF NoOrder
  <2>5. 0 \in 0 .. Price
    BY DEF OrderAssumption
  <2> QED BY <2>3, <2>4, <2>5 DEF Order, StepStatus
<1>5. e \in Event /\ e.type = "order.placed" /\ e.order = o /\ e.amount = Price
  <2>1. "order.placed" \in EventTypes /\ Price \in Nat
    BY DEF EventTypes, OrderAssumption
  <2> QED BY <1>2, <2>1, AmountFacts, Rows
<1>6. OrderMoves(o, r, {e})
  BY <1>3, <1>4, <1>5, FS_Singleton DEF OrderMoves
<1>7. /\ ord[o] = NoOrder /\ ord[o].refunded = 0 /\ ord[o].captured = 0
      /\ ord[o].step["fulfillment_cancel_requested"] = "none"
  <2>1. ord[o] = NoOrder
    BY <1>3, Rows DEF OrderInv, OrderShape
  <2> QED BY <2>1 DEF NoOrder, Steps
<1>8. Price # 0
  BY DEF OrderAssumption
<1> QED BY <1>3, <1>4, <1>5, <1>6, <1>7, <1>8, OrderMovesOn, SMTT(40)

\* CancelOrder.
LEMMA CancelOrderStep ==
    ASSUME OrderAssumption, Services, NEW o \in Orders, CancelOrder(o)
    PROVE  Services' /\ outbox \subseteq outbox'
<1> DEFINE paid == ord[o].pay \in {"paid", "authorized", "partially_refunded"}
<1>0. PICK st : st = IF paid THEN "fulfillment_cancel_requested" ELSE "inventory_release_requested"
  OBVIOUS
<1>1. PICK t : t = IF paid THEN "fulfillment.cancel-requested" ELSE "inventory.release-requested"
  OBVIOUS
<1>2. PICK steps : steps = Requested(ord[o].step, st)
  OBVIOUS
<1>3. PICK r : r = [ord[o] EXCEPT !.status = "cancelled", !.saga = "compensating", !.step = steps]
  OBVIOUS
<1>4. PICK e : e = WithReason(NewEvent("order.cancelled", o))
  OBVIOUS
<1>5. PICK f : f = WithReason(NewEvent(t, o))
  OBVIOUS
<1>6. /\ ord[o].status \in {"pending", "confirmed"}
      /\ ord' = [ord EXCEPT ![o] = r] /\ outbox' = outbox \cup {e, f}
      /\ UNCHANGED <<level, res, fence, intent, shipped>>
  BY <1>0, <1>1, <1>2, <1>3, <1>4, <1>5 DEF CancelOrder, InsertOutbox, stock
<1>7. /\ ord[o] \in Order /\ ord[o].step \in [Steps -> StepStatus]
      /\ OrderInv(o) /\ IsFiniteSet(outbox)
  BY Rows
<1>8. /\ steps \in [Steps -> StepStatus]
      /\ ~paid => steps["fulfillment_cancel_requested"] = ord[o].step["fulfillment_cancel_requested"]
  <2>1. st \in Steps
    BY <1>0 DEF Steps
  <2>2. "fulfillment_cancel_requested" \in Steps
    BY DEF Steps
  <2>3. ~paid => st # "fulfillment_cancel_requested"
    BY <1>0
  <2> QED BY <1>2, <1>7, <2>1, <2>2, <2>3, RequestedFacts
<1>9. /\ r \in Order /\ r.status = "cancelled" /\ r.pay = ord[o].pay
      /\ r.captured = ord[o].captured /\ r.refunded = ord[o].refunded /\ r.step = steps
  BY <1>3, <1>7, <1>8 DEF Order, StepStatus
<1>10. /\ e \in Event /\ e.type = "order.cancelled" /\ e.order = o
       /\ f \in Event /\ f.type = t /\ f.order = o
       /\ t \in {"fulfillment.cancel-requested", "inventory.release-requested"}
  <2>1. "order.cancelled" \in EventTypes /\ t \in EventTypes
    BY <1>1 DEF EventTypes
  <2> QED BY <1>1, <1>4, <1>5, <1>7, <2>1, ReasonFacts
<1>11. OrderMoves(o, r, {e, f})
  BY <1>6, <1>9, <1>10, PairFinite DEF OrderMoves
<1>12. /\ ord[o].status # "cancelled" /\ res[o].state # "none"
       /\ ord[o].pay \in {"authorized", "paid"} => ord[o].captured = Price
       /\ ord[o].captured = Price => Captured(o)
       /\ ord[o].pay # "partially_refunded"
       /\ ord[o].step["fulfillment_cancel_requested"] = "none"
  BY <1>6, <1>7 DEF OrderInv, OrderShape, StockShape
<1>13. r.step["fulfillment_cancel_requested"] = "pending" => r.captured = Price
  BY <1>8, <1>9, <1>12
<1>14. \A x \in {e, f} : /\ x.type \in {"order.placed", "order.paid", "order.cancelled", "fulfillment.cancel-requested",
                                         "inventory.commit-requested", "inventory.release-requested"}
                        /\ x.type # "order.placed" /\ x.type # "order.paid"
  BY <1>10
<1>15. /\ r.pay \in {"authorized", "paid"} => r.captured = Price
       /\ ord[o].captured = Price => r.captured = Price
       /\ r.captured = Price => Captured(o)
  BY <1>9, <1>12
<1>16. r.status = "cancelled" /\ r.refunded = ord[o].refunded /\ ord[o].status # "cancelled" /\ res[o].state # "none"
  BY <1>9, <1>12
<1> QED BY <1>11, <1>13, <1>14, <1>15, <1>16, OrderMovesOn, SMTT(40)

\* payment.failed.
LEMMA PaymentFailedStep ==
    ASSUME Services, NEW o \in Orders, applyPaymentFailed(o), AwaitsPayment(o),
           UNCHANGED <<level, res, fence, intent, shipped>>
    PROVE  Services' /\ outbox \subseteq outbox'
<1>1. PICK s1 : s1 = Closed(ord[o].step, "payment_requested", "failed")
  OBVIOUS
<1>2. PICK s2 : s2 = Requested(s1, "inventory_release_requested")
  OBVIOUS
<1>3. PICK sg : sg = IF ord[o].saga \in {"paying", "reserving"} THEN "compensating" ELSE ord[o].saga
  OBVIOUS
<1>4. PICK r : r = [ord[o] EXCEPT !.saga = sg, !.status = "cancelled", !.pay = "failed", !.step = s2]
  OBVIOUS
<1>5. PICK e : e = NewEvent("inventory.release-requested", o)
  OBVIOUS
<1>6. PICK f : f = NewEvent("order.cancelled", o)
  OBVIOUS
<1>7. /\ ord[o] \in Order /\ ord[o].step \in [Steps -> StepStatus]
      /\ OrderInv(o) /\ IsFiniteSet(outbox) /\ ord \in [Orders -> Order]
  BY Rows
<1>8. [AfterPayment(o, "compensating", "failed") EXCEPT
           !.status = "cancelled", !.pay = "failed",
           !.step = Requested(@, "inventory_release_requested")] = r
  BY <1>1, <1>2, <1>3, <1>4, <1>7 DEF AfterPayment, Order
<1>9. ord' = [ord EXCEPT ![o] = r] /\ outbox' = outbox \cup {e, f}
  BY <1>5, <1>6, <1>8 DEF applyPaymentFailed, InsertOutbox
<1>10. /\ s2 \in [Steps -> StepStatus]
       /\ s2["fulfillment_cancel_requested"] = ord[o].step["fulfillment_cancel_requested"]
  <2>2. /\ s1 \in [Steps -> StepStatus]
        /\ s1["fulfillment_cancel_requested"] = ord[o].step["fulfillment_cancel_requested"]
    BY <1>1, <1>7 DEF Closed, Steps, StepStatus
  <2> QED BY <1>2, <2>2, StepNames, RequestedFacts
<1>11. /\ r \in Order /\ r.status = "cancelled" /\ r.pay = "failed"
       /\ r.captured = ord[o].captured /\ r.refunded = ord[o].refunded /\ r.step = s2
  BY <1>3, <1>4, <1>7, <1>10, ZenonT(60) DEF Order, StepStatus
<1>12. /\ e \in Event /\ e.type = "inventory.release-requested" /\ e.order = o
       /\ f \in Event /\ f.type = "order.cancelled" /\ f.order = o
  <2>1. "order.cancelled" \in EventTypes /\ "inventory.release-requested" \in EventTypes
    BY DEF EventTypes
  <2> QED BY <1>5, <1>6, <1>7, <2>1, NewEventFacts
<1>13. OrderMoves(o, r, {e, f})
  BY <1>9, <1>11, <1>12, PairFinite DEF OrderMoves
<1>14. /\ ord[o].status = "pending" /\ res[o].state # "none"
       /\ ord[o].captured = Price => Captured(o)
  BY <1>7 DEF OrderInv, OrderShape, StockShape, AwaitsPayment
<1>15. /\ r.status = "cancelled" /\ r.pay = "failed" /\ r.refunded = ord[o].refunded
       /\ r.captured = ord[o].captured
       /\ r.step["fulfillment_cancel_requested"] = ord[o].step["fulfillment_cancel_requested"]
  BY <1>10, <1>11
<1>16. PICK E : E = {e, f}
  OBVIOUS
<1>17. \A x \in E : /\ x.type \in {"order.placed", "order.paid", "order.cancelled", "fulfillment.cancel-requested",
                                     "inventory.commit-requested", "inventory.release-requested"}
                    /\ x.type # "order.placed" /\ x.type # "order.paid"
  BY <1>12, <1>16
<1>18. OrderMoves(o, r, E)
  BY <1>13, <1>16
<1> QED BY <1>14, <1>15, <1>17, <1>18, OrderMovesOn, SMTT(40)

\* payment.captured, of an intent that was captured in full.
LEMMA PaymentPaidStep ==
    ASSUME OrderAssumption, Services, NEW o \in Orders, applyPaymentPaid(o, Price), AwaitsPayment(o), Captured(o),
           UNCHANGED <<level, res, fence, intent, shipped>>
    PROVE  Services' /\ outbox \subseteq outbox'
<1>1. PICK s1 : s1 = Closed(ord[o].step, "payment_requested", "completed")
  OBVIOUS
<1>2. PICK s2 : s2 = Requested(s1, "inventory_commit_requested")
  OBVIOUS
<1>3. PICK sg : sg = IF ord[o].saga \in {"paying", "reserving"} THEN "reserving" ELSE ord[o].saga
  OBVIOUS
<1>4. PICK r : r = [ord[o] EXCEPT !.saga = sg, !.pay = "authorized", !.captured = Price, !.step = s2]
  OBVIOUS
<1>5. PICK e : e = NewEvent("inventory.commit-requested", o)
  OBVIOUS
<1>7. /\ ord[o] \in Order /\ ord[o].step \in [Steps -> StepStatus]
      /\ OrderInv(o) /\ IsFiniteSet(outbox) /\ ord \in [Orders -> Order]
  BY Rows
<1>8. [AfterPayment(o, "reserving", "completed") EXCEPT
           !.pay = "authorized",
           !.captured = IF @ = 0 THEN Price ELSE @,
           !.step = Requested(@, "inventory_commit_requested")] = r
  BY <1>1, <1>2, <1>3, <1>4, <1>7 DEF AfterPayment, Order
<1>9. ord' = [ord EXCEPT ![o] = r] /\ outbox' = outbox \cup {e}
  BY <1>5, <1>8 DEF applyPaymentPaid, InsertOutbox
<1>10. /\ s2 \in [Steps -> StepStatus]
       /\ s2["fulfillment_cancel_requested"] = ord[o].step["fulfillment_cancel_requested"]
  <2>2. /\ s1 \in [Steps -> StepStatus]
        /\ s1["fulfillment_cancel_requested"] = ord[o].step["fulfillment_cancel_requested"]
    BY <1>1, <1>7 DEF Closed, Steps, StepStatus
  <2> QED BY <1>2, <2>2, StepNames, RequestedFacts
<1>11. /\ r \in Order /\ r.status = ord[o].status /\ r.pay = "authorized"
       /\ r.captured = Price /\ r.refunded = ord[o].refunded /\ r.step = s2
  BY <1>3, <1>4, <1>7, <1>10, ZenonT(60) DEF Order, StepStatus
<1>12. e \in Event /\ e.type = "inventory.commit-requested" /\ e.order = o
  <2>1. "inventory.commit-requested" \in EventTypes
    BY DEF EventTypes
  <2> QED BY <1>5, <1>7, <2>1, NewEventFacts
<1>13. OrderMoves(o, r, {e})
  BY <1>9, <1>11, <1>12, FS_Singleton DEF OrderMoves
<1>14. ord[o].status = "pending" /\ res[o].state # "none"
  BY <1>7 DEF OrderInv, StockShape, AwaitsPayment
<1> QED BY <1>10, <1>11, <1>12, <1>13, <1>14, OrderMovesOn, SMTT(40)

\* inventory.committed, of an order whose stock is committed.
LEMMA InventoryCommittedStep ==
    ASSUME OrderAssumption, Services, NEW o \in Orders, applyInventoryCommitted(o),
           ord[o].status = "pending", ord[o].pay = "authorized", fence[o] = "committed",
           UNCHANGED <<level, res, fence, intent, shipped>>
    PROVE  Services' /\ outbox \subseteq outbox'
<1>1. PICK s1 : s1 = Closed(ord[o].step, "inventory_commit_requested", "completed")
  OBVIOUS
<1>2. PICK al : al = IF ord[o].alloc = "active" THEN "committed" ELSE ord[o].alloc
  OBVIOUS
<1>3. PICK sg : sg = IF ord[o].saga = "reserving" THEN "completed" ELSE ord[o].saga
  OBVIOUS
<1>4. PICK r : r = [ord[o] EXCEPT !.status = "confirmed", !.pay = "paid", !.alloc = al, !.saga = sg, !.step = s1]
  OBVIOUS
<1>5. PICK e : e = NewEvent("order.paid", o)
  OBVIOUS
<1>7. /\ ord[o] \in Order /\ ord[o].step \in [Steps -> StepStatus]
      /\ OrderInv(o) /\ IsFiniteSet(outbox) /\ ord \in [Orders -> Order]
  BY Rows
<1>8. [ord[o] EXCEPT !.status = "confirmed", !.pay = "paid",
                    !.alloc = IF @ = "active" THEN "committed" ELSE @,
                    !.saga = IF @ = "reserving" THEN "completed" ELSE @,
                    !.step = Closed(@, "inventory_commit_requested", "completed")] = r
  BY <1>1, <1>2, <1>3, <1>4, <1>7 DEF Order
<1>9. ord' = [ord EXCEPT ![o] = r] /\ outbox' = outbox \cup {e}
  <2>1. ord' = [ord EXCEPT ![o] =
                  [ord[o] EXCEPT !.status = "confirmed", !.pay = "paid",
                    !.alloc = IF @ = "active" THEN "committed" ELSE @,
                    !.saga = IF @ = "reserving" THEN "completed" ELSE @,
                    !.step = Closed(@, "inventory_commit_requested", "completed")]]
    BY DEF applyInventoryCommitted
  <2> QED BY <1>5, <1>8, <2>1 DEF applyInventoryCommitted, InsertOutbox
<1>10. /\ s1 \in [Steps -> StepStatus]
       /\ s1["fulfillment_cancel_requested"] = ord[o].step["fulfillment_cancel_requested"]
  BY <1>1, <1>7 DEF Closed, Steps, StepStatus
<1>11. /\ r \in Order /\ r.status = "confirmed" /\ r.pay = "paid"
       /\ r.captured = ord[o].captured /\ r.refunded = ord[o].refunded /\ r.step = s1
  BY <1>2, <1>3, <1>4, <1>7, <1>10, ZenonT(60) DEF Order, StepStatus
<1>12. e \in Event /\ e.type = "order.paid" /\ e.order = o
  <2>1. "order.paid" \in EventTypes
    BY DEF EventTypes
  <2> QED BY <1>5, <1>7, <2>1, NewEventFacts
<1>13. OrderMoves(o, r, {e})
  BY <1>9, <1>11, <1>12, FS_Singleton DEF OrderMoves
<1>14. ord[o].captured = Price /\ res[o].state # "none" /\ Captured(o)
  BY <1>7 DEF OrderInv, StockShape, OrderShape
<1> QED BY <1>10, <1>11, <1>12, <1>13, <1>14, OrderMovesOn, SMTT(40)

\* inventory.released of a cancelled order.
LEMMA InventoryReleasedStep ==
    ASSUME OrderAssumption, Services, NEW o \in Orders, applyInventoryReleased(o),
           ord[o].status = "cancelled", UNCHANGED <<level, res, fence, intent, shipped>>
    PROVE  Services' /\ outbox \subseteq outbox'
<1>1. PICK s1 : s1 = Closed(ord[o].step, "inventory_release_requested", "completed")
  OBVIOUS
<1>2. PICK al : al = IF ord[o].alloc = "none" THEN ord[o].alloc ELSE "released"
  OBVIOUS
<1>3. PICK sg : sg = IF ord[o].saga = "compensating" THEN "failed" ELSE ord[o].saga
  OBVIOUS
<1>4. PICK r : r = [ord[o] EXCEPT !.alloc = al, !.saga = sg, !.step = s1]
  OBVIOUS
<1>7. /\ ord[o] \in Order /\ ord[o].step \in [Steps -> StepStatus]
      /\ OrderInv(o) /\ IsFiniteSet(outbox) /\ ord \in [Orders -> Order]
  BY Rows
<1>8. [ord[o] EXCEPT !.alloc = IF @ = "none" THEN @ ELSE "released",
                    !.saga = IF @ = "compensating" THEN "failed" ELSE @,
                    !.step = Closed(@, "inventory_release_requested", "completed")] = r
  BY <1>1, <1>2, <1>3, <1>4, <1>7 DEF Order
<1>9. ord' = [ord EXCEPT ![o] = r] /\ outbox' = outbox \cup {}
  <2>1. ord' = [ord EXCEPT ![o] =
                  [ord[o] EXCEPT !.alloc = IF @ = "none" THEN @ ELSE "released",
                    !.saga = IF @ = "compensating" THEN "failed" ELSE @,
                    !.step = Closed(@, "inventory_release_requested", "completed")]]
    BY DEF applyInventoryReleased
  <2> QED BY <1>8, <2>1 DEF applyInventoryReleased, NoEvent
<1>10. /\ s1 \in [Steps -> StepStatus]
       /\ s1["fulfillment_cancel_requested"] = ord[o].step["fulfillment_cancel_requested"]
  BY <1>1, <1>7 DEF Closed, Steps, StepStatus
<1>11. /\ r \in Order /\ r.status = "cancelled" /\ r.pay = ord[o].pay
       /\ r.captured = ord[o].captured /\ r.refunded = ord[o].refunded /\ r.step = s1
  BY <1>2, <1>3, <1>4, <1>7, <1>10, ZenonT(60) DEF Order, StepStatus
<1>13. OrderMoves(o, r, {})
  BY <1>9, <1>11, FS_EmptySet DEF OrderMoves
<1>14. /\ ord[o].pay \in {"authorized", "paid"} => ord[o].captured = Price
       /\ res[o].state # "none" /\ ord[o].captured = Price => Captured(o)
  BY <1>7 DEF OrderInv, StockShape, OrderShape
<1>15. res[o].state # "none"
  BY <1>7 DEF OrderInv, StockShape
<1>16. /\ r.pay \in {"authorized", "paid"} => r.captured = Price
       /\ ord[o].captured = Price => r.captured = Price
       /\ r.captured = Price => Captured(o)
       /\ r.step["fulfillment_cancel_requested"] = ord[o].step["fulfillment_cancel_requested"]
  BY <1>10, <1>11, <1>14, <1>15
<1> QED BY <1>11, <1>13, <1>15, <1>16, OrderMovesOn, SMTT(40)

\* fulfillment.completed of a confirmed order.
LEMMA FulfillmentCompletedStep ==
    ASSUME OrderAssumption, Services, NEW o \in Orders, applyFulfillmentCompleted(o), ~Ignore,
           UNCHANGED <<level, res, fence, intent, shipped>>
    PROVE  Services' /\ outbox \subseteq outbox'
<1>1. PICK r : r = [ord[o] EXCEPT !.status = "completed", !.ful = "fulfilled"]
  OBVIOUS
<1>2. /\ ord[o] \in Order /\ OrderInv(o) /\ ord \in [Orders -> Order]
  BY Rows
<1>3. ord[o].status = "confirmed" /\ ord' = [ord EXCEPT ![o] = r] /\ outbox' = outbox \cup {}
  BY <1>1, <1>2 DEF applyFulfillmentCompleted, NoEvent, Order
<1>4. /\ r \in Order /\ r.status = "completed" /\ r.pay = ord[o].pay
      /\ r.captured = ord[o].captured /\ r.refunded = ord[o].refunded /\ r.step = ord[o].step
  BY <1>1, <1>2 DEF Order
<1>5. OrderMoves(o, r, {})
  BY <1>3, <1>4, FS_EmptySet DEF OrderMoves
<1>6. /\ ord[o].pay = "paid" /\ ord[o].captured = Price /\ fence[o] = "committed"
      /\ res[o].state # "none" /\ Captured(o)
  BY <1>2, <1>3 DEF OrderInv, StockShape, OrderShape
<1> QED BY <1>3, <1>4, <1>5, <1>6, OrderMovesOn, SMTT(40)

\* fulfillment.cancelled, of a cancelled order that waits for it: the refund of
\* all that was captured is requested, for the first time.
LEMMA FulfillmentCancelledStep ==
    ASSUME OrderAssumption, Services, NEW o \in Orders, applyFulfillmentCancelled(o),
           ord[o].status = "cancelled", ord[o].step["fulfillment_cancel_requested"] = "pending",
           UNCHANGED <<level, res, fence, intent, shipped>>
    PROVE  Services' /\ outbox \subseteq outbox'
<1>1. PICK s1 : s1 = Closed(ord[o].step, "fulfillment_cancel_requested", "completed")
  OBVIOUS
<1>2. PICK s2 : s2 = Requested(s1, "refund_requested")
  OBVIOUS
<1>3. PICK r : r = [ord[o] EXCEPT !.step = s2]
  OBVIOUS
<1>4. PICK e : e = WithAmount(NewEvent("payment.refund-requested", o), Price)
  OBVIOUS
<1>5. /\ ord[o] \in Order /\ ord[o].step \in [Steps -> StepStatus]
      /\ OrderInv(o) /\ IsFiniteSet(outbox) /\ ord \in [Orders -> Order]
  BY Rows
<1>6. /\ ord[o].captured = Price /\ ord[o].refunded = 0 /\ Price \in Nat /\ Price > 0
      /\ Sent("payment.refund-requested", o) = {}
  BY <1>5 DEF OrderInv, OrderShape, OrderAssumption
<1>7. PICK q : q = [ord[o] EXCEPT !.step = s1]
  OBVIOUS
<1>8. q.captured = Price /\ q.refunded = 0 /\ [q EXCEPT !.step = Requested(@, "refund_requested")] = r
  BY <1>2, <1>3, <1>5, <1>6, <1>7 DEF Order
<1>9. ord' = [ord EXCEPT ![o] = r] /\ outbox' = outbox \cup {e}
  <2>1. [ord[o] EXCEPT !.step = Closed(@, "fulfillment_cancel_requested", "completed")] = q
    BY <1>1, <1>7
  <2>2. q.captured - q.refunded = Price
    BY <1>6, <1>8
  <2>3. /\ ord' = [ord EXCEPT ![o] = [q EXCEPT !.step = Requested(@, "refund_requested")]]
        /\ outbox' = outbox \cup {WithAmount(NewEvent("payment.refund-requested", o), Price)}
    BY <2>1, <2>2, <1>6 DEF applyFulfillmentCancelled, InsertOutbox
  <2> QED BY <2>3, <1>4, <1>8
<1>10. s2 \in [Steps -> StepStatus] /\ s2["fulfillment_cancel_requested"] # "pending"
  <2>1. s1 \in [Steps -> StepStatus] /\ s1["fulfillment_cancel_requested"] # "pending"
    BY <1>1, <1>5 DEF Closed, Steps, StepStatus
  <2>2. Requested(s1, "refund_requested") \in [Steps -> StepStatus]
    BY <2>1, StepNames, RequestedFacts
  <2>3. "fulfillment_cancel_requested" # "refund_requested"
    OBVIOUS
  <2>4. Requested(s1, "refund_requested")["fulfillment_cancel_requested"] = s1["fulfillment_cancel_requested"]
    BY <2>1, <2>3, StepNames, RequestedFacts, ZenonT(60)
  <2> QED BY <1>2, <2>1, <2>2, <2>4
<1>11. /\ r \in Order /\ r.status = "cancelled" /\ r.pay = ord[o].pay
       /\ r.captured = Price /\ r.refunded = 0 /\ r.step = s2
  BY <1>3, <1>5, <1>6, <1>10 DEF Order, StepStatus
<1>12. e \in Event /\ e.type = "payment.refund-requested" /\ e.order = o /\ e.amount = Price
  <2>1. "payment.refund-requested" \in EventTypes
    BY DEF EventTypes
  <2> QED BY <1>4, <1>5, <1>6, <2>1, AmountFacts
<1>13. OrderMoves(o, r, {e})
  BY <1>9, <1>11, <1>12, FS_Singleton DEF OrderMoves
<1>14. ord'[o] = r /\ res' = res /\ fence' = fence /\ intent' = intent /\ shipped' = shipped
  BY <1>5, <1>9
<1>15. /\ Sent("payment.refund-requested", o)' = {e}
       /\ \A t : t # "payment.refund-requested" => Sent(t, o)' = Sent(t, o)
  BY <1>6, <1>9, <1>12 DEF Sent
<1>16. Captured(o)' <=> Captured(o)
  BY <1>14 DEF Captured
<1>17. StockShape(o)'
  BY <1>5, <1>11, <1>14 DEF OrderInv, StockShape
<1>18. OrderShape(o)'
  <2>1. r.captured = Price => Captured(o)
    BY <1>5, <1>6 DEF OrderInv, OrderShape
  <2>2. Price # 0
    BY <1>6
  <2> QED BY <1>10, <1>11, <1>14, <1>16, <2>1, <2>2 DEF OrderShape
<1>19. RefundShape(o)'
  <2>1. intent[o].refunds = {}
    BY <1>5, <1>6 DEF OrderInv, RefundShape
  <2> QED BY <1>5, <1>11, <1>12, <1>14, <1>15, <2>1, ZenonT(60) DEF OrderInv, RefundShape
<1>20. EventsTrue(o)'
  BY <1>5, <1>6, <1>11, <1>14, <1>15, <1>16 DEF OrderInv, EventsTrue
<1> QED BY <1>13, <1>17, <1>18, <1>19, <1>20, OrderMovesRows DEF OrderInv

\* refund.succeeded of a cancelled order that can take it: everything is given
\* back, and the order has not counted it before.
LEMMA RefundedStep ==
    ASSUME OrderAssumption, Services, NEW o \in Orders, applyRefunded(o, Price),
           ord[o].status = "cancelled", Price <= ord[o].captured - ord[o].refunded,
           intent[o].refunds # {}, UNCHANGED <<level, res, fence, intent, shipped>>
    PROVE  Services' /\ outbox \subseteq outbox'
<1>1. PICK s1 : s1 = Closed(ord[o].step, "refund_requested", "completed")
  OBVIOUS
<1>2. PICK s2 : s2 = Requested(s1, "inventory_release_requested")
  OBVIOUS
<1>3. PICK r : r = [ord[o] EXCEPT !.refunded = Price, !.pay = "refunded", !.step = s2]
  OBVIOUS
<1>4. PICK e : e = NewEvent("inventory.release-requested", o)
  OBVIOUS
<1>5. /\ ord[o] \in Order /\ ord[o].step \in [Steps -> StepStatus]
      /\ OrderInv(o) /\ IsFiniteSet(outbox) /\ ord \in [Orders -> Order]
  BY Rows
<1>6. ord[o].captured = Price /\ ord[o].refunded = 0 /\ Price \in Nat /\ Price > 0
  <2>1. ord[o].captured \in {0, Price} /\ ord[o].refunded \in 0 .. Price /\ Price \in Nat /\ Price > 0
    BY <1>5 DEF Order, OrderAssumption
  <2> QED BY <2>1
<1>7. PICK q : q = [ord[o] EXCEPT !.refunded = @ + Price]
  OBVIOUS
<1>8. /\ q.captured - q.refunded = 0
      /\ ReleaseRequested([q EXCEPT !.pay = "refunded", !.step = Closed(@, "refund_requested", "completed")]) = r
  <2>1. q = [ord[o] EXCEPT !.refunded = Price]
    BY <1>6, <1>7, SMTT(40)
  <2>2. q.captured = Price /\ q.refunded = Price
    BY <1>5, <1>6, <2>1 DEF Order
  <2>3. PICK p : p = [q EXCEPT !.pay = "refunded", !.step = Closed(@, "refund_requested", "completed")]
    OBVIOUS
  <2>4. p = [ord[o] EXCEPT !.refunded = Price, !.pay = "refunded", !.step = s1]
    BY <1>1, <1>5, <2>1, <2>3 DEF Order
  <2>5. ReleaseRequested(p) = r
    BY <1>2, <1>3, <1>5, <2>4 DEF Order, ReleaseRequested
  <2> QED BY <1>6, <2>2, <2>3, <2>5
<1>9. ord' = [ord EXCEPT ![o] = r] /\ outbox' = outbox \cup {e}
  <2>1. /\ ord' = [ord EXCEPT ![o] = ReleaseRequested([q EXCEPT !.pay = "refunded",
                                                            !.step = Closed(@, "refund_requested", "completed")])]
        /\ outbox' = outbox \cup {NewEvent("inventory.release-requested", o)}
    BY <1>7, <1>8 DEF applyRefunded, InsertOutbox
  <2> QED BY <2>1, <1>4, <1>8
<1>10. /\ s2 \in [Steps -> StepStatus]
       /\ s2["fulfillment_cancel_requested"] = ord[o].step["fulfillment_cancel_requested"]
  <2>1. /\ s1 \in [Steps -> StepStatus]
        /\ s1["fulfillment_cancel_requested"] = ord[o].step["fulfillment_cancel_requested"]
    BY <1>1, <1>5 DEF Closed, Steps, StepStatus
  <2> QED BY <1>2, <2>1, StepNames, RequestedFacts
<1>11. /\ r \in Order /\ r.status = "cancelled" /\ r.pay = "refunded"
       /\ r.captured = Price /\ r.refunded = Price /\ r.step = s2
  <2>1. Price \in 0 .. Price
    BY <1>6
  <2> QED BY <1>3, <1>5, <1>6, <1>10, <2>1 DEF Order, StepStatus
<1>12. e \in Event /\ e.type = "inventory.release-requested" /\ e.order = o
  <2>1. "inventory.release-requested" \in EventTypes
    BY DEF EventTypes
  <2> QED BY <1>4, <1>5, <2>1, NewEventFacts
<1>13. OrderMoves(o, r, {e})
  BY <1>9, <1>11, <1>12, FS_Singleton DEF OrderMoves
<1>14. ord'[o] = r /\ res' = res /\ fence' = fence /\ intent' = intent /\ shipped' = shipped
  BY <1>5, <1>9
<1>15. \A t : t # "inventory.release-requested" => Sent(t, o)' = Sent(t, o)
  BY <1>9, <1>12 DEF Sent
<1>16. Captured(o)' <=> Captured(o)
  BY <1>14 DEF Captured
<1>17. StockShape(o)'
  BY <1>5, <1>11, <1>14 DEF OrderInv, StockShape
<1>18. OrderShape(o)'
  <2>1. r.captured = Price => Captured(o)
    BY <1>5, <1>6 DEF OrderInv, OrderShape
  <2>2. ord[o].step["fulfillment_cancel_requested"] # "pending"
    BY <1>5 DEF OrderInv, OrderShape, RefundShape
  <2> QED BY <1>10, <1>11, <1>14, <1>16, <2>1, <2>2 DEF OrderShape
<1>19. RefundShape(o)'
  BY <1>5, <1>6, <1>11, <1>14, <1>15 DEF OrderInv, RefundShape
<1>20. EventsTrue(o)'
  BY <1>5, <1>6, <1>11, <1>14, <1>15, <1>16 DEF OrderInv, EventsTrue
<1> QED BY <1>13, <1>17, <1>18, <1>19, <1>20, OrderMovesRows DEF OrderInv

\* What an event of order o was sent for.
LEMMA EventSent ==
    ASSUME Services, NEW e \in outbox
    PROVE  e \in Event /\ e.order \in Orders /\ e.type \in EventTypes /\ e \in Sent(e.type, e.order)
           /\ e.amount \in Nat
BY DEF Services, ServiceTypes, Event, Sent

\* The order service handles an event.
LEMMA OrderHandlesStep ==
    ASSUME OrderAssumption, Services, NEW e \in outbox, OrderReply(e) = "ok", OrderHandles(e)
    PROVE  Services' /\ outbox \subseteq outbox'
<1>1. UNCHANGED <<level, res, fence, intent, shipped>>
  BY DEF OrderHandles, stock
<1>2. PICK o : o = e.order
  OBVIOUS
<1>3. o \in Orders /\ e \in Sent(e.type, o) /\ OrderInv(o)
  BY <1>2, EventSent, Rows
<1>4. CASE Ignore
  BY <1>1, <1>4, IgnoreStep DEF Ignore, NoEvent
<1>5. CASE e.type = "payment.failed" /\ applyPaymentFailed(o) /\ ~Ignore
  <2>1. AwaitsPayment(o)
    BY <1>5 DEF applyPaymentFailed
  <2> QED BY <1>1, <1>3, <1>5, <2>1, PaymentFailedStep
<1>6. CASE e.type = "payment.captured" /\ applyPaymentPaid(o, e.amount) /\ ~Ignore
  <2>1. AwaitsPayment(o)
    BY <1>6 DEF applyPaymentPaid
  <2>2. e.amount = Price
    BY <1>2, <1>6, <2>1 DEF OrderReply
  <2>3. Captured(o)
    BY <1>3, <1>6, <2>2 DEF OrderInv, EventsTrue
  <2> QED BY <1>1, <1>3, <1>6, <2>1, <2>2, <2>3, PaymentPaidStep
<1>7. CASE e.type = "inventory.committed" /\ applyInventoryCommitted(o) /\ ~Ignore
  <2>1. ord[o].status = "pending" /\ ord[o].pay = "authorized"
    BY <1>7 DEF applyInventoryCommitted
  <2>2. fence[o] = "committed"
    BY <1>3, <1>7 DEF OrderInv, EventsTrue
  <2> QED BY <1>1, <1>3, <1>7, <2>1, <2>2, InventoryCommittedStep
<1>8. CASE e.type = "inventory.released" /\ applyInventoryReleased(o) /\ ~Ignore
  <2>1. ord[o].status = "cancelled"
    BY <1>8 DEF applyInventoryReleased
  <2> QED BY <1>1, <1>3, <1>8, <2>1, InventoryReleasedStep
<1>9. CASE e.type = "fulfillment.cancelled" /\ applyFulfillmentCancelled(o) /\ ~Ignore
  <2>1. ord[o].status = "cancelled" /\ ord[o].step["fulfillment_cancel_requested"] = "pending"
    BY <1>9 DEF applyFulfillmentCancelled
  <2> QED BY <1>1, <1>3, <1>9, <2>1, FulfillmentCancelledStep
<1>10. CASE e.type = "fulfillment.completed" /\ applyFulfillmentCompleted(o) /\ ~Ignore
  BY <1>1, <1>3, <1>10, FulfillmentCompletedStep
<1>11. CASE e.type = "refund.succeeded" /\ applyRefunded(o, e.amount) /\ ~Ignore
  <2>1. ord[o].status = "cancelled"
    BY <1>11 DEF applyRefunded
  <2>2. e.amount = Price /\ intent[o].refunds # {}
    BY <1>3, <1>11 DEF OrderInv, RefundShape
  <2>3. ~(e.amount > ord[o].captured - ord[o].refunded)
    BY <1>2, <1>11, <2>1 DEF OrderReply
  <2>4. Price <= ord[o].captured - ord[o].refunded
    <3>1. ord[o].captured \in {0, Price} /\ ord[o].refunded \in 0 .. Price /\ Price \in Nat
      BY <1>3, Rows DEF Order, OrderAssumption
    <3> QED BY <2>2, <2>3, <3>1
  <2> QED BY <1>1, <1>3, <1>11, <2>1, <2>2, <2>4, RefundedStep
<1> QED BY <1>2, <1>4, <1>5, <1>6, <1>7, <1>8, <1>9, <1>10, <1>11 DEF OrderHandles

---------------------------------------------------------------------------
(* The payment service *)

\* The sum of the amounts of a finite set of events, as a sum of a function.
LEMMA AmountSum ==
    ASSUME NEW S, IsFiniteSet(S)
    PROVE  MapThenSumSet(LAMBDA e : e.amount, S) = SumFunctionOnSet([e \in S |-> e.amount], S)
<1> DEFINE F == [e \in S |-> e.amount]
           Body(g) == [s \in SUBSET S |-> IF s = {} THEN 0 ELSE First(s).amount + g[s \ {First(s)}]]
           h == CHOOSE g : g = Body(g)
<1>1. MapThenSumSet(LAMBDA e : e.amount, S) = h[S]
  BY DEF MapThenSumSet, MapThenFoldSet, First
<1>2. \A v \in S : F[v] = v.amount
  OBVIOUS
<1> HIDE DEF F
<1>3. \A g : Adds(F, S, g) <=> g = Body(g)
  <2>1. \A s \in SUBSET S : s # {} => F[First(s)] = First(s).amount
    BY <1>2, FirstIn
  <2> QED BY <2>1 DEF Adds
<1> HIDE DEF Body
<1>4. \E g : g = Body(g)
  BY <1>3, AddsExists
<1>5. h = Body(h)
  BY <1>4
<1> HIDE DEF h
<1>6. h[S] = SumFunctionOnSet(F, S)
  BY <1>3, <1>5, AddsSum
<1> QED BY <1>1, <1>6 DEF F

\* What was refunded of an order that was refunded once at most.
LEMMA RefundedSum ==
    ASSUME NEW o
    PROVE  /\ intent[o].refunds = {} => Refunded(o) = 0
           /\ \A e : e.amount \in Nat /\ intent[o].refunds = {e} => Refunded(o) = e.amount
<1>1. ASSUME intent[o].refunds = {}
      PROVE  Refunded(o) = 0
  <2>1. Refunded(o) = SumFunctionOnSet([e \in {} |-> e.amount], {})
    BY <1>1, AmountSum, FS_EmptySet DEF Refunded
  <2> QED BY <2>1, SumEmpty
<1>2. ASSUME NEW e, e.amount \in Nat, intent[o].refunds = {e}
      PROVE  Refunded(o) = e.amount
  <2> DEFINE F == [f \in {e} |-> f.amount]
  <2>1. Refunded(o) = SumFunctionOnSet(F, {e})
    BY <1>2, AmountSum, FS_Singleton DEF Refunded
  <2>2. F[e] = e.amount
    OBVIOUS
  <2> HIDE DEF F
  <2>3. \A x \in {} \cup {e} : F[x] \in Int
    BY <1>2, <2>2
  <2>4. SumFunctionOnSet(F, {} \cup {e}) = F[e] + SumFunctionOnSet(F, {})
    BY <2>3, SumAdd, FS_EmptySet
  <2>5. {} \cup {e} = {e}
    OBVIOUS
  <2> QED BY <1>2, <2>1, <2>2, <2>4, <2>5, SumEmpty
<1> QED BY <1>1, <1>2

\* A step of the payment service: the intent of order o becomes i.
IntentMoves(o, i, E) ==
    /\ E \subseteq Event /\ IsFiniteSet(E) /\ \A e \in E : e.order = o
    /\ i \in [status : {"none", "succeeded", "failed", "partially_refunded", "refunded"},
              amount : Nat, refunds : SUBSET (outbox \cup E)]
    /\ intent' = [intent EXCEPT ![o] = i] /\ outbox' = outbox \cup E
    /\ UNCHANGED <<ord, level, res, fence, shipped>>

\* It concerns the order only.
LEMMA IntentMovesRows ==
    ASSUME Services, NEW o \in Orders, NEW i, NEW E, IntentMoves(o, i, E), OrderInv(o)'
    PROVE  Services' /\ outbox \subseteq outbox'
<1>1. Concerns(o, E)
  BY DEF IntentMoves, Concerns, Services, ServiceTypes
<1>2. /\ ord' \in [Orders -> Order] /\ UNCHANGED <<level, res, fence>> /\ shipped' \subseteq Orders
      /\ outbox \subseteq outbox' /\ outbox' = outbox \cup E
  BY DEF IntentMoves, Services, ServiceTypes
<1>3. intent' \in [Orders -> [status : {"none", "succeeded", "failed", "partially_refunded", "refunded"},
                              amount : Nat, refunds : SUBSET outbox']]
  <2>1. \A x \in Orders : intent[x] \in [status : {"none", "succeeded", "failed", "partially_refunded", "refunded"},
                                         amount : Nat, refunds : SUBSET outbox']
    BY <1>2 DEF Services, ServiceTypes
  <2>2. i \in [status : {"none", "succeeded", "failed", "partially_refunded", "refunded"},
               amount : Nat, refunds : SUBSET outbox']
    BY <1>2 DEF IntentMoves
  <2> QED BY <2>1, <2>2 DEF IntentMoves, Services, ServiceTypes
<1> QED BY <1>1, <1>2, <1>3, StockStill

\* A capture of some amount, or a failure.
LEMMA CaptureStep ==
    ASSUME OrderAssumption, Services, NEW o \in Orders, NEW amount \in Nat, CaptureOrder(o, amount),
           intent[o].status = "none", UNCHANGED <<ord, level, res, fence, shipped>>
    PROVE  Services' /\ outbox \subseteq outbox'
<1>1. PICK st \in Charge :
         SaveCapture(o, st, amount,
                     IF st = "succeeded" THEN WithAmount(NewEvent("payment.captured", o), amount)
                     ELSE NewEvent("payment.failed", o))
  BY DEF CaptureOrder
<1>2. PICK e : e = IF st = "succeeded" THEN WithAmount(NewEvent("payment.captured", o), amount)
                                       ELSE NewEvent("payment.failed", o)
  OBVIOUS
<1>3. PICK i : i = [status |-> st, amount |-> amount, refunds |-> {}]
  OBVIOUS
<1>4. intent' = [intent EXCEPT ![o] = i] /\ outbox' = outbox \cup {e}
  BY <1>1, <1>2, <1>3, Zenon DEF SaveCapture, InsertOutbox
<1>5. /\ OrderInv(o) /\ IsFiniteSet(outbox)
      /\ intent[o] \in [status : {"none", "succeeded", "failed", "partially_refunded", "refunded"},
                        amount : Nat, refunds : SUBSET outbox]
      /\ intent \in [Orders -> [status : {"none", "succeeded", "failed", "partially_refunded", "refunded"},
                        amount : Nat, refunds : SUBSET outbox]]
  BY Rows DEF Services, ServiceTypes
<1>6. /\ i.status = st /\ st \in {"succeeded", "failed"} /\ i.refunds = {} /\ i.amount = amount
      /\ i \in [status : {"none", "succeeded", "failed", "partially_refunded", "refunded"},
                amount : Nat, refunds : SUBSET (outbox \cup {e})]
  BY <1>1, <1>3, <1>5 DEF Charge
<1>7. /\ e \in Event /\ e.order = o
      /\ st = "succeeded" => e.type = "payment.captured" /\ e.amount = amount
      /\ st # "succeeded" => e.type = "payment.failed"
  <2>1. "payment.captured" \in EventTypes /\ "payment.failed" \in EventTypes
    BY DEF EventTypes
  <2>2. CASE st = "succeeded"
    <3>1. e = WithAmount(NewEvent("payment.captured", o), amount)
      BY <1>2, <2>2
    <3> QED BY <1>5, <2>1, <2>2, <3>1, AmountFacts
  <2>3. CASE st # "succeeded"
    <3>1. e = NewEvent("payment.failed", o)
      BY <1>2, <2>3
    <3> QED BY <1>5, <2>1, <2>3, <3>1, NewEventFacts
  <2> QED BY <2>2, <2>3
<1>8. IntentMoves(o, i, {e})
  BY <1>4, <1>6, <1>7, FS_Singleton DEF IntentMoves
<1>9. intent'[o] = i /\ ord' = ord /\ res' = res /\ fence' = fence /\ shipped' = shipped
  BY <1>4, <1>5
<1>10. ~Captured(o) /\ intent[o].refunds = {}
  BY <1>5 DEF Captured, OrderInv, RefundShape
<1>11. \A t : t \notin {"payment.captured", "payment.failed"} => Sent(t, o)' = Sent(t, o)
  BY <1>4, <1>7 DEF Sent
<1>12. \A f \in Sent("payment.captured", o)' : f \in Sent("payment.captured", o) \/ (f = e /\ st = "succeeded")
  BY <1>4, <1>7 DEF Sent
<1>13. StockShape(o)'
  BY <1>5, <1>9 DEF OrderInv, StockShape
<1>14. OrderShape(o)'
  <2>1. ord[o].captured # Price /\ ord[o].refunded # Price
    BY <1>5, <1>10 DEF OrderInv, OrderShape
  <2> QED BY <1>5, <1>9, <1>11, <2>1 DEF OrderInv, OrderShape
<1>15. RefundShape(o)'
  BY <1>5, <1>6, <1>9, <1>10, <1>11, ZenonT(60) DEF OrderInv, RefundShape
<1>16. EventsTrue(o)'
  <2>1. \A f \in Sent("payment.captured", o)' : f.amount = Price => Captured(o)'
    BY <1>5, <1>6, <1>7, <1>9, <1>10, <1>12 DEF OrderInv, EventsTrue, Captured
  <2> QED BY <1>5, <1>9, <1>11, <2>1 DEF OrderInv, EventsTrue
<1> QED BY <1>8, <1>13, <1>14, <1>15, <1>16, IntentMovesRows DEF OrderInv

\* The first refund of an order takes everything back.
LEMMA RefundStep ==
    ASSUME OrderAssumption, Services, NEW o \in Orders, NEW e \in Sent("payment.refund-requested", o),
           Refund(e), PaymentReply(e) = "ok", e \notin intent[o].refunds,
           UNCHANGED <<ord, level, res, fence, shipped>>
    PROVE  Services' /\ outbox \subseteq outbox'
<1>1. /\ OrderInv(o) /\ IsFiniteSet(outbox)
      /\ intent[o] \in [status : {"none", "succeeded", "failed", "partially_refunded", "refunded"},
                        amount : Nat, refunds : SUBSET outbox]
      /\ intent \in [Orders -> [status : {"none", "succeeded", "failed", "partially_refunded", "refunded"},
                        amount : Nat, refunds : SUBSET outbox]]
  BY Rows DEF Services, ServiceTypes
<1>2. e.order = o /\ e.type = "payment.refund-requested" /\ e \in outbox
  BY DEF Sent
<1>3. e.amount = Price /\ intent[o].refunds = {} /\ ord[o].status = "cancelled" /\ ord[o].captured = Price
      /\ Sent("refund.succeeded", o) = {}
  BY <1>1 DEF OrderInv, RefundShape
<1>4. Unrefunded(o) = Price /\ intent[o].amount = Price
  <2>1. Price \in Nat /\ Refunded(o) = 0
    BY <1>3, RefundedSum DEF OrderAssumption
  <2>2. intent[o].amount = Price
    BY <1>1, <1>3 DEF OrderInv, OrderShape, Captured
  <2> QED BY <2>1, <2>2 DEF Unrefunded
<1>5. intent[o].status \in {"succeeded", "partially_refunded"}
  BY <1>2 DEF PaymentReply
<1>6. PICK i : i = [status |-> "refunded", amount |-> Price, refunds |-> {e}]
  OBVIOUS
<1>7. PICK f : f = WithAmount(NewEvent("refund.succeeded", o), Price)
  OBVIOUS
<1>8. intent' = [intent EXCEPT ![o] = i] /\ outbox' = outbox \cup {f}
  <2>1. /\ intent' = [intent EXCEPT ![o] =
                        [status |-> IF e.amount = Unrefunded(o) THEN "refunded" ELSE "partially_refunded",
                         amount |-> intent[o].amount, refunds |-> intent[o].refunds \cup {e}]]
        /\ outbox' = outbox \cup {WithAmount(NewEvent("refund.succeeded", o), e.amount)}
    BY <1>2 DEF Refund, InsertOutbox
  <2>2. [status |-> IF e.amount = Unrefunded(o) THEN "refunded" ELSE "partially_refunded",
         amount |-> intent[o].amount, refunds |-> intent[o].refunds \cup {e}] = i
    BY <1>3, <1>4, <1>6
  <2> QED BY <1>3, <1>7, <2>1, <2>2
<1>9. f \in Event /\ f.type = "refund.succeeded" /\ f.order = o /\ f.amount = Price
  <2>1. "refund.succeeded" \in EventTypes /\ Price \in Nat
    BY DEF EventTypes, OrderAssumption
  <2> QED BY <1>1, <1>7, <2>1, AmountFacts
<1>10. /\ i \in [status : {"none", "succeeded", "failed", "partially_refunded", "refunded"},
                 amount : Nat, refunds : SUBSET (outbox \cup {f})]
       /\ i.status = "refunded" /\ i.refunds = {e} /\ i.amount = Price
  BY <1>2, <1>6 DEF OrderAssumption
<1>11. IntentMoves(o, i, {f})
  BY <1>8, <1>9, <1>10, FS_Singleton DEF IntentMoves
<1>12. intent'[o] = i /\ ord' = ord /\ res' = res /\ fence' = fence /\ shipped' = shipped
  BY <1>1, <1>8
<1>13. /\ Sent("refund.succeeded", o)' = {f}
       /\ \A t : t # "refund.succeeded" => Sent(t, o)' = Sent(t, o)
  BY <1>3, <1>8, <1>9 DEF Sent
<1>14. Captured(o)'
  BY <1>10, <1>12 DEF Captured
<1>15. StockShape(o)'
  BY <1>1, <1>12 DEF OrderInv, StockShape
<1>16. OrderShape(o)'
  BY <1>1, <1>10, <1>12, <1>13, <1>14 DEF OrderInv, OrderShape
<1>17. RefundShape(o)'
  <2>1. /\ Sent("payment.refund-requested", o)' = Sent("payment.refund-requested", o)
        /\ e \in Sent("payment.refund-requested", o)
    BY <1>13
  <2>2. RefundShape(o)
    BY <1>1 DEF OrderInv
  <2>3. intent'[o].refunds = {e} /\ intent'[o].status = "refunded" /\ {e} # {}
    BY <1>10, <1>12
  <2>4. \A x \in Sent("refund.succeeded", o)' : x.amount = Price
    BY <1>9, <1>13
  <2> QED BY <1>12, <2>1, <2>2, <2>3, <2>4 DEF RefundShape
<1>18. EventsTrue(o)'
  BY <1>1, <1>12, <1>13, <1>14 DEF OrderInv, EventsTrue
<1> QED BY <1>11, <1>15, <1>16, <1>17, <1>18, IntentMovesRows DEF OrderInv

\* The payment service handles an event.
LEMMA PaymentHandlesStep ==
    ASSUME OrderAssumption, Services, NEW e \in outbox, PaymentReply(e) = "ok", PaymentHandles(e)
    PROVE  Services' /\ outbox \subseteq outbox'
<1>1. UNCHANGED <<ord, level, res, fence, shipped>>
  BY DEF PaymentHandles, stock
<1>2. PICK o : o = e.order
  OBVIOUS
<1>3. o \in Orders /\ e \in Sent(e.type, o) /\ OrderInv(o)
  BY <1>2, EventSent, Rows
<1>4. CASE UNCHANGED <<intent, outbox>>
  BY <1>1, <1>4, IgnoreStep
<1>5. CASE e.type = "order.placed" /\ CaptureOrder(o, e.amount) /\ intent[o].status = "none"
  <2>1. e.amount \in Nat
    BY <1>3, <1>5 DEF OrderInv, EventsTrue, OrderAssumption
  <2> QED BY <1>1, <1>3, <1>5, <2>1, CaptureStep
<1>6. CASE e.type = "payment.refund-requested" /\ Refund(e) /\ e \notin intent[o].refunds
  BY <1>1, <1>3, <1>6, RefundStep
<1> QED BY <1>2, <1>4, <1>5, <1>6 DEF PaymentHandles, CaptureOrder, Refund, CancelIntent, NoEvent

\* The webhook of the provider.
LEMMA WebhookStep ==
    ASSUME OrderAssumption, Services, NEW o \in Orders, Webhook(o)
    PROVE  Services' /\ outbox \subseteq outbox'
BY CaptureStep DEF Webhook, stock, OrderAssumption

---------------------------------------------------------------------------
(* The fulfillment service *)

\* A step of the fulfillment service: order o may become shipped, and only
\* fulfillment events are sent.
LEMMA ShipmentStep ==
    ASSUME OrderAssumption, Services, NEW o \in Orders,
           NEW t \in {"fulfillment.completed", "fulfillment.cancelled"},
           outbox' = outbox \cup {NewEvent(t, o)},
           shipped' = shipped \/ (shipped' = shipped \cup {o} /\ fence[o] = "committed" /\ ord[o].captured = Price),
           UNCHANGED <<ord, level, res, fence, intent>>
    PROVE  Services' /\ outbox \subseteq outbox'
<1>1. PICK e : e = NewEvent(t, o)
  OBVIOUS
<1>2. OrderInv(o) /\ IsFiniteSet(outbox) /\ shipped \subseteq Orders /\ outbox \subseteq outbox'
  BY Rows
<1>3. e \in Event /\ e.type = t /\ e.order = o
  <2>1. t \in EventTypes
    BY DEF EventTypes
  <2> QED BY <1>1, <1>2, <2>1, NewEventFacts
<1>4. Concerns(o, {e}) /\ shipped' \subseteq Orders
  BY <1>1, <1>2, <1>3, FS_Singleton DEF Concerns
<1>5. \A k : k \notin {"fulfillment.completed", "fulfillment.cancelled"} => Sent(k, o)' = Sent(k, o)
  BY <1>1, <1>3 DEF Sent
<1>6. Captured(o)' <=> Captured(o)
  BY DEF Captured
<1>7. StockShape(o)' /\ OrderShape(o)' /\ RefundShape(o)'
  BY <1>2, <1>5, <1>6, SMTT(40) DEF OrderInv, StockShape, OrderShape, RefundShape
<1>8. EventsTrue(o)'
  BY <1>2, <1>5, <1>6 DEF OrderInv, EventsTrue
<1>9. ord' \in [Orders -> Order]
  BY DEF Services, ServiceTypes
<1> QED BY <1>2, <1>4, <1>7, <1>8, <1>9, StockStill, IntentStill DEF OrderInv

\* The fulfillment service handles an event.
LEMMA FulfillmentHandlesStep ==
    ASSUME OrderAssumption, Services, NEW e \in outbox, FulfillmentHandles(e)
    PROVE  Services' /\ outbox \subseteq outbox'
<1>1. UNCHANGED <<ord, level, res, fence, intent>>
  BY DEF FulfillmentHandles, stock
<1>2. PICK o : o = e.order
  OBVIOUS
<1>3. o \in Orders /\ e \in Sent(e.type, o) /\ OrderInv(o)
  BY <1>2, EventSent, Rows
<1>4. CASE UNCHANGED <<shipped, outbox>>
  BY <1>1, <1>4, IgnoreStep
<1>5. CASE e.type = "order.paid" /\ SaveFulfill(o)
  <2>1. fence[o] = "committed" /\ ord[o].captured = Price
    BY <1>3, <1>5 DEF OrderInv, EventsTrue
  <2> QED BY <1>1, <1>3, <1>5, <2>1, ShipmentStep DEF SaveFulfill, InsertOutbox
<1>6. CASE SaveCancel(o)
  BY <1>1, <1>3, <1>6, ShipmentStep DEF SaveCancel, InsertOutbox
<1> QED BY <1>2, <1>4, <1>5, <1>6 DEF FulfillmentHandles, FulfillOrder, CancelFulfillment, NoEvent

---------------------------------------------------------------------------
(* The inventory service *)

\* The smaller of two numbers.
LEMMA SmallerOf ==
    ASSUME NEW a \in Int, NEW b \in Int, NEW m, m = Min({a, b})
    PROVE  m \in {a, b} /\ m <= a /\ m <= b
<1>1. \E x \in {a, b} : \A y \in {a, b} : x <= y
  <2>1. CASE a <= b
    BY <2>1
  <2>2. CASE ~(a <= b)
    BY <2>2
  <2> QED BY <2>1, <2>2
<1>2. m \in {a, b} /\ \A y \in {a, b} : m <= y
  BY <1>1 DEF Min
<1> QED BY <1>2

\* The larger of two numbers.
LEMMA LargerOf ==
    ASSUME NEW a \in Int, NEW b \in Int, NEW m, m = Max({a, b})
    PROVE  m \in {a, b} /\ m >= a /\ m >= b
<1>1. \E x \in {a, b} : \A y \in {a, b} : x >= y
  <2>1. CASE a >= b
    BY <2>1
  <2>2. CASE ~(a >= b)
    BY <2>2
  <2> QED BY <2>1, <2>2
<1>2. m \in {a, b} /\ \A y \in {a, b} : m >= y
  BY <1>1 DEF Max
<1> QED BY <1>2

\* The stock the earlier locations can give is a number.
LEMMA AvailableNumber ==
    ASSUME OrderAssumption, Services, NEW l \in Locations
    PROVE  AvailableBefore(l) \in Nat
<1> DEFINE S == 1 .. l - 1
           F == [k \in S |-> Available(k)]
           Body(g) == [s \in SUBSET S |-> IF s = {} THEN 0 ELSE Available(First(s)) + g[s \ {First(s)}]]
           h == CHOOSE g : g = Body(g)
<1>0. IsFiniteSet(S) /\ S \subseteq Locations
  <2>1. PICK n : n = Len(OnHand)
    OBVIOUS
  <2>2. n \in Nat /\ Locations = 1 .. n
    BY <2>1 DEF OrderAssumption, Locations
  <2>3. l \in Int /\ 1 <= l /\ l <= n
    BY <2>2
  <2>4. S \subseteq Locations
    BY <2>2, <2>3
  <2>5. 1 \in Int /\ l - 1 \in Int
    BY <2>3
  <2>6. IsFiniteSet(S)
    BY <2>5, FS_Interval
  <2> QED BY <2>4, <2>6
<1>1. AvailableBefore(l) = h[S]
  BY DEF AvailableBefore, MapThenSumSet, MapThenFoldSet, First
<1>2. \A v \in S : F[v] = Available(v)
  OBVIOUS
<1>3. \A v \in Locations : Available(v) \in Nat
  <2> SUFFICES ASSUME NEW v \in Locations
               PROVE  Available(v) \in Nat
    OBVIOUS
  <2>1. level[v].onHand \in Nat /\ level[v].reserved \in Nat /\ level[v].reserved <= level[v].onHand
    BY DEF Services, ServiceTypes, LevelBooks
  <2> QED BY <2>1 DEF Available
<1> HIDE DEF F, S
<1>4. \A g : Adds(F, S, g) <=> g = Body(g)
  <2>1. \A s \in SUBSET S : s # {} => F[First(s)] = Available(First(s))
    BY <1>2, FirstIn
  <2> QED BY <2>1 DEF Adds
<1> HIDE DEF Body
<1>5. \E g : g = Body(g)
  BY <1>0, <1>4, AddsExists
<1>6. h = Body(h)
  BY <1>5
<1> HIDE DEF h
<1>7. h[S] = SumFunctionOnSet(F, S)
  BY <1>0, <1>4, <1>6, AddsSum
<1>8. \A x \in S : F[x] \in Nat
  BY <1>0, <1>2, <1>3
<1>9. SumFunctionOnSet(F, S) \in Nat
  BY <1>0, <1>8, SumType
<1> QED BY <1>1, <1>7, <1>9

\* Reserve takes no more from a location than it can give.
LEMMA AllocationFits ==
    ASSUME OrderAssumption, Services, NEW q \in Nat, NEW l \in Locations
    PROVE  Allocation(q)[l] \in Nat /\ Allocation(q)[l] <= level[l].onHand - level[l].reserved
<1>1. level[l].onHand \in Nat /\ level[l].reserved \in Nat /\ level[l].reserved <= level[l].onHand
  BY DEF Services, ServiceTypes, LevelBooks
<1>2. PICK a : a = Available(l)
  OBVIOUS
<1>3. a \in Nat /\ a = level[l].onHand - level[l].reserved
  BY <1>1, <1>2 DEF Available
<1>4. PICK b : b = q - AvailableBefore(l)
  OBVIOUS
<1>5. b \in Int
  BY <1>4, AvailableNumber
<1>6. PICK m : m = Max({0, b})
  OBVIOUS
<1>7. m \in Int /\ m >= 0
  <2>1. PICK z : z = 0
    OBVIOUS
  <2>2. z \in Int /\ m = Max({z, b})
    BY <1>6, <2>1
  <2>3. m \in {z, b} /\ m >= z
    BY <1>5, <2>2, LargerOf
  <2> QED BY <1>5, <2>1, <2>3
<1>8. PICK n : n = Allocation(q)[l]
  OBVIOUS
<1>9. n = Min({a, m})
  BY <1>2, <1>4, <1>6, <1>8 DEF Allocation
<1>10. a \in Int
  BY <1>3
<1>11. n \in {a, m} /\ n <= a
  BY <1>7, <1>9, <1>10, SmallerOf
<1> QED BY <1>3, <1>7, <1>8, <1>11

\* The orders in a state are finitely many, and hold a number of items.
LEMMA HeldNumbers ==
    ASSUME Services, NEW l \in Locations, NEW st \in {"active", "committed"}
    PROVE  /\ IsFiniteSet(In(st)) /\ \A o \in Orders : HeldAt(l)[o] \in Nat
           /\ SumFunctionOnSet(HeldAt(l), In(st)) \in Nat
<1>1. IsFiniteSet(In(st))
  <2>1. In(st) \subseteq Reserved
    BY DEF In, Reserved
  <2> QED BY <2>1, FS_Subset DEF Services
<1>2. \A o \in Orders : HeldAt(l)[o] \in Nat
  BY DEF HeldAt, Services, ServiceTypes
<1>3. In(st) \subseteq Orders
  BY DEF In
<1> QED BY <1>1, <1>2, <1>3, SumType

\* A reservation of what each location can give.
LEMMA ReserveStep ==
    ASSUME OrderAssumption, Services, NEW o \in Orders, Reserve(o)
    PROVE  Services' /\ outbox \subseteq outbox'
<1>1. PICK held : held = Allocation(Quantity[o])
  OBVIOUS
<1>2. PICK v : v = [state |-> "active", held |-> held]
  OBVIOUS
<1>3. /\ res[o].state = "none" /\ fence[o] = "none"
      /\ res' = [res EXCEPT ![o] = v]
      /\ level' = [l \in Locations |-> [level[l] EXCEPT !.reserved = @ + held[l]]]
      /\ UNCHANGED <<ord, fence, intent, shipped, outbox>>
  BY <1>1, <1>2 DEF Reserve
<1>4. /\ held \in [Locations -> Nat]
      /\ \A l \in Locations : held[l] \in Nat /\ held[l] <= level[l].onHand - level[l].reserved
  <2>1. Quantity[o] \in Nat
    BY DEF OrderAssumption
  <2>2. \A l \in Locations : held[l] \in Nat /\ held[l] <= level[l].onHand - level[l].reserved
    BY <1>1, <2>1, AllocationFits
  <2>3. held = [l \in Locations |-> held[l]]
    BY <1>1 DEF Allocation
  <2> QED BY <2>2, <2>3
<1>5. /\ res \in [Orders -> [state : {"none", "active", "committed", "released"}, held : [Locations -> Nat]]]
      /\ level \in [Locations -> [onHand : Nat, reserved : Nat]]
      /\ OrderInv(o) /\ IsFiniteSet(Reserved)
  BY DEF Services, ServiceTypes
<1>6. /\ v \in [state : {"none", "active", "committed", "released"}, held : [Locations -> Nat]]
      /\ v.state = "active" /\ v.held = held
  BY <1>2, <1>4
<1>7. /\ res' \in [Orders -> [state : {"none", "active", "committed", "released"}, held : [Locations -> Nat]]]
      /\ res'[o] = v /\ \A x \in Orders : x # o => res'[x] = res[x]
  BY <1>3, <1>5, <1>6
<1>8. \A l \in Locations : /\ level'[l] \in [onHand : Nat, reserved : Nat]
                           /\ level'[l].onHand = level[l].onHand
                           /\ level'[l].reserved = level[l].reserved + held[l]
  <2> SUFFICES ASSUME NEW l \in Locations
               PROVE  /\ level'[l] \in [onHand : Nat, reserved : Nat]
                      /\ level'[l].onHand = level[l].onHand
                      /\ level'[l].reserved = level[l].reserved + held[l]
    OBVIOUS
  <2>1. level[l] \in [onHand : Nat, reserved : Nat] /\ held[l] \in Nat
    BY <1>4, <1>5
  <2>2. PICK w : w = level[l]
    OBVIOUS
  <2>3. level'[l] = [w EXCEPT !.reserved = w.reserved + held[l]]
    BY <1>3, <2>2
  <2>4. w.onHand \in Nat /\ w.reserved + held[l] \in Nat
    BY <2>1, <2>2
  <2>5. level'[l] = [onHand |-> w.onHand, reserved |-> w.reserved + held[l]]
    BY <2>1, <2>2, <2>3
  <2> QED BY <2>2, <2>4, <2>5
<1>9. ServiceTypes' /\ IsFiniteSet(outbox') /\ outbox \subseteq outbox'
  <2>1. level' \in [Locations -> [onHand : Nat, reserved : Nat]]
    BY <1>3, <1>8
  <2> QED BY <1>3, <1>7, <2>1 DEF Services, ServiceTypes
<1>10. IsFiniteSet(Reserved')
  <2>1. Reserved' = Reserved \cup {o}
    BY <1>6, <1>7 DEF Reserved
  <2> QED BY <1>5, <2>1, FS_AddElement
<1>11. \A x \in Orders : OrderInv(x)'
  <2>1. Concerns(o, {})
    BY <1>3, <1>7, FS_EmptySet DEF Concerns
  <2>2. OrderInv(o)'
    <3>1. \A t : Sent(t, o)' = Sent(t, o)
      BY <1>3 DEF Sent
    <3>2. Captured(o)' <=> Captured(o)
      BY <1>3 DEF Captured
    <3>3. StockShape(o)'
      BY <1>3, <1>5, <1>6, <1>7 DEF OrderInv, StockShape
    <3>4. OrderShape(o)' /\ RefundShape(o)' /\ EventsTrue(o)'
      BY <1>3, <1>5, <3>1, <3>2 DEF OrderInv, OrderShape, RefundShape, EventsTrue
    <3> QED BY <3>3, <3>4 DEF OrderInv
  <2> QED BY <2>1, <2>2, OthersKept DEF Services
<1>12. ASSUME NEW l \in Locations
       PROVE  LevelBooks(l)'
  <2>1. PICK F : F = HeldAt(l)
    OBVIOUS
  <2>2. PICK G : G = HeldAt(l)'
    OBVIOUS
  <2>3. PICK A : A = In("active")
    OBVIOUS
  <2>4. PICK C : C = In("committed")
    OBVIOUS
  <2>5. In("active")' = A \cup {o} /\ In("committed")' = C /\ o \notin A /\ o \notin C
        /\ A \subseteq Orders /\ C \subseteq Orders
    BY <1>3, <1>6, <1>7, <2>3, <2>4 DEF In
  <2>6. G[o] = held[l] /\ (\A x \in Orders : x # o => G[x] = F[x]) /\ \A x \in Orders : F[x] \in Nat
    BY <1>6, <1>7, <2>1, <2>2, HeldNumbers DEF HeldAt
  <2>7. /\ IsFiniteSet(A) /\ IsFiniteSet(C)
        /\ SumFunctionOnSet(F, A) \in Nat /\ SumFunctionOnSet(F, C) \in Nat
    BY <2>1, <2>3, <2>4, HeldNumbers
  <2>8. SumFunctionOnSet(G, A) = SumFunctionOnSet(F, A) /\ SumFunctionOnSet(G, C) = SumFunctionOnSet(F, C)
    <3>1. (\A x \in A : G[x] = F[x]) /\ (\A x \in C : G[x] = F[x])
      BY <2>5, <2>6
    <3> QED BY <2>7, <3>1, SumAgree
  <2>9. SumFunctionOnSet(G, A \cup {o}) = held[l] + SumFunctionOnSet(F, A)
    <3>1. \A x \in A \cup {o} : G[x] \in Int
      BY <1>4, <2>5, <2>6
    <3> QED BY <2>5, <2>6, <2>7, <2>8, <3>1, SumAdd
  <2>10. /\ level[l].reserved = SumFunctionOnSet(F, A) /\ level[l].onHand = OnHand[l] - SumFunctionOnSet(F, C)
         /\ level[l].reserved \in Nat /\ level[l].onHand \in Nat
    BY <1>5, <2>1, <2>3, <2>4 DEF Services, LevelBooks
  <2>11. /\ level'[l].onHand = level[l].onHand /\ level'[l].reserved = level[l].reserved + held[l]
         /\ held[l] \in Nat /\ held[l] <= level[l].onHand - level[l].reserved
    BY <1>4, <1>8
  <2>12. /\ level'[l].reserved = SumFunctionOnSet(HeldAt(l)', In("active")')
         /\ level'[l].onHand = OnHand[l] - SumFunctionOnSet(HeldAt(l)', In("committed")')
    <3>1. level'[l].reserved = SumFunctionOnSet(G, A \cup {o})
      BY <2>7, <2>9, <2>10, <2>11
    <3>2. level'[l].onHand = OnHand[l] - SumFunctionOnSet(G, C)
      BY <2>8, <2>10, <2>11
    <3> QED BY <2>2, <2>5, <3>1, <3>2
  <2>13. level'[l].reserved <= level'[l].onHand
    BY <2>10, <2>11
  <2> QED BY <2>12, <2>13 DEF LevelBooks
<1> QED BY <1>9, <1>10, <1>11, <1>12 DEF Services

\* What becomes of a level when the stock an order holds is settled.
LEMMA SettledLevel ==
    ASSUME NEW l \in Locations, level[l] \in [onHand : Nat, reserved : Nat], NEW h \in Nat,
           h <= level[l].reserved, level[l].reserved <= level[l].onHand,
           NEW to, NEW r, r = Settled(l, h, to)
    PROVE  /\ r \in [onHand : Nat, reserved : Nat]
           /\ r.reserved = level[l].reserved - h
           /\ r.onHand = IF to = "committed" THEN level[l].onHand - h ELSE level[l].onHand
           /\ r.reserved <= r.onHand
<1>1. level[l].onHand \in Nat /\ level[l].reserved \in Nat
  OBVIOUS
<1>2. /\ r.reserved = level[l].reserved - h
      /\ r.onHand = IF to = "committed" THEN level[l].onHand - h ELSE level[l].onHand
      /\ r = [onHand |-> r.onHand, reserved |-> r.reserved]
  BY DEF Settled
<1>3. r.reserved \in Nat /\ r.onHand \in Nat /\ r.reserved <= r.onHand
  BY <1>1, <1>2
<1> QED BY <1>2, <1>3

\* The stock an active order holds is settled: the books lose it.
LEMMA SettleBooks ==
    ASSUME Services, NEW o \in Orders, res[o].state = "active", NEW to \in {"committed", "released"},
           res' = [res EXCEPT ![o].state = to],
           level' = [l \in Locations |-> Settled(l, res[o].held[l], to)],
           NEW l \in Locations, OnHand[l] \in Nat
    PROVE  level'[l] \in [onHand : Nat, reserved : Nat] /\ LevelBooks(l)'
<1>0. res \in [Orders -> [state : {"none", "active", "committed", "released"}, held : [Locations -> Nat]]]
  BY DEF Services, ServiceTypes
<1>1. PICK F : F = HeldAt(l)
  OBVIOUS
<1>2. PICK A : A = In("active")
  OBVIOUS
<1>3. PICK C : C = In("committed")
  OBVIOUS
<1>4. /\ res'[o].state = to /\ res'[o].held = res[o].held
      /\ \A x \in Orders : x # o => res'[x] = res[x]
  BY <1>0
<1>5. HeldAt(l)' = F
  BY <1>1, <1>4 DEF HeldAt
<1>6. /\ o \in A /\ o \notin C /\ A \subseteq Orders /\ C \subseteq Orders
      /\ In("active")' = A \ {o}
      /\ In("committed")' = IF to = "committed" THEN C \cup {o} ELSE C
  BY <1>2, <1>3, <1>4 DEF In
<1>7. /\ IsFiniteSet(A) /\ IsFiniteSet(C) /\ \A x \in Orders : F[x] \in Nat
      /\ SumFunctionOnSet(F, A) \in Nat /\ SumFunctionOnSet(F, C) \in Nat
  BY <1>1, <1>2, <1>3, HeldNumbers
<1>8. PICK h : h = res[o].held[l]
  OBVIOUS
<1>9. h = F[o] /\ h \in Nat
  BY <1>1, <1>7, <1>8 DEF HeldAt
<1>10. SumFunctionOnSet(F, A) = h + SumFunctionOnSet(F, A \ {o}) /\ SumFunctionOnSet(F, A \ {o}) \in Nat
  <2>1. IsFiniteSet(A \ {o}) /\ \A x \in A : F[x] \in Int
    BY <1>6, <1>7, FS_Subset
  <2>2. \A x \in A \ {o} : F[x] \in Nat
    BY <1>6, <1>7
  <2>3. SumFunctionOnSet(F, A \ {o}) \in Nat
    BY <2>1, <2>2, SumType
  <2>4. SumFunctionOnSet(F, A) = F[o] + SumFunctionOnSet(F, A \ {o})
    BY <1>6, <1>7, <2>1, SumRemove
  <2> QED BY <1>9, <2>3, <2>4
<1>11. SumFunctionOnSet(F, C \cup {o}) = h + SumFunctionOnSet(F, C)
  <2>1. \A x \in C \cup {o} : F[x] \in Int
    BY <1>6, <1>7
  <2> QED BY <1>6, <1>7, <1>9, <2>1, SumAdd
<1>12. /\ level[l] \in [onHand : Nat, reserved : Nat]
       /\ level[l].reserved = SumFunctionOnSet(F, A)
       /\ level[l].onHand = OnHand[l] - SumFunctionOnSet(F, C)
       /\ level[l].reserved <= level[l].onHand
  BY <1>1, <1>2, <1>3 DEF Services, ServiceTypes, LevelBooks
<1>13. h <= level[l].reserved
  BY <1>9, <1>10, <1>12
<1>14. PICK r : r = Settled(l, h, to)
  OBVIOUS
<1>15. level'[l] = r
  BY <1>8, <1>14
<1>16. /\ r \in [onHand : Nat, reserved : Nat]
       /\ r.reserved = level[l].reserved - h
       /\ r.onHand = IF to = "committed" THEN level[l].onHand - h ELSE level[l].onHand
       /\ r.reserved <= r.onHand
  BY <1>9, <1>12, <1>13, <1>14, SettledLevel
<1>17. r.reserved = SumFunctionOnSet(F, In("active")')
  <2>1. r.reserved = SumFunctionOnSet(F, A \ {o})
    BY <1>9, <1>10, <1>12, <1>16
  <2> QED BY <1>6, <2>1
<1>18. r.onHand = OnHand[l] - SumFunctionOnSet(F, In("committed")')
  <2>1. CASE to = "committed"
    <3>1. r.onHand = OnHand[l] - SumFunctionOnSet(F, C \cup {o})
      BY <1>7, <1>9, <1>11, <1>12, <1>16, <2>1
    <3> QED BY <1>6, <2>1, <3>1
  <2>2. CASE to = "released"
    BY <1>6, <1>12, <1>16, <2>2
  <2> QED BY <2>1, <2>2
<1> QED BY <1>5, <1>15, <1>16, <1>17, <1>18 DEF LevelBooks

\* The first terminal event of an order: its stock is settled.
LEMMA TransitionFirst ==
    ASSUME OrderAssumption, Services, NEW o \in Orders, res[o].state # "none",
           NEW to \in {"committed", "released"},
           fence[o] = "none", TransitionOrder(o, to), UNCHANGED <<ord, intent, shipped>>
    PROVE  Services' /\ outbox \subseteq outbox'
<1>1. PICK e : e = NewEvent(inventoryEventType(to), o)
  OBVIOUS
<1>2. PICK t : t = inventoryEventType(to)
  OBVIOUS
<1>3. /\ t \in EventTypes /\ (to = "committed" => t = "inventory.committed")
      /\ (to = "released" => t = "inventory.released")
  BY <1>2 DEF inventoryEventType, EventTypes
<1>4. e \in Event /\ e.type = t /\ e.order = o
  BY <1>1, <1>2, <1>3, NewEventFacts, Rows
<1>5. OrderInv(o) /\ res[o].state = "active"
  BY Rows DEF OrderInv, StockShape
<1>6. /\ fence' = [fence EXCEPT ![o] = to] /\ res' = [res EXCEPT ![o].state = to]
      /\ level' = [l \in Locations |-> Settled(l, res[o].held[l], to)]
      /\ outbox' = outbox \cup {e}
  BY <1>1, <1>5 DEF TransitionOrder, InsertOutbox
<1>7. /\ res \in [Orders -> [state : {"none", "active", "committed", "released"}, held : [Locations -> Nat]]]
      /\ fence \in [Orders -> {"none", "committed", "released"}]
      /\ outbox \subseteq Event /\ IsFiniteSet(outbox) /\ IsFiniteSet(Reserved)
      /\ ord \in [Orders -> Order] /\ shipped \subseteq Orders
  BY DEF Services, ServiceTypes
<1>8. /\ res' \in [Orders -> [state : {"none", "active", "committed", "released"}, held : [Locations -> Nat]]]
      /\ res'[o].state = to /\ \A x \in Orders : x # o => res'[x] = res[x]
  BY <1>6, <1>7
<1>9. /\ fence' \in [Orders -> {"none", "committed", "released"}]
      /\ fence'[o] = to /\ \A x \in Orders : x # o => fence'[x] = fence[x]
  BY <1>6, <1>7
<1>10. \A l \in Locations : level'[l] \in [onHand : Nat, reserved : Nat] /\ LevelBooks(l)'
  <2>1. \A l \in Locations : OnHand[l] \in Nat
    BY DEF OrderAssumption, Locations
  <2> QED BY <1>5, <1>6, <2>1, SettleBooks
<1>11. level' \in [Locations -> [onHand : Nat, reserved : Nat]]
  BY <1>6, <1>10
<1>12. outbox \subseteq outbox' /\ outbox' \subseteq Event /\ IsFiniteSet(outbox')
  BY <1>4, <1>6, <1>7, FS_AddElement
<1>13. ServiceTypes'
  BY <1>7, <1>8, <1>9, <1>11, <1>12, IntentStill DEF ServiceTypes
<1>14. IsFiniteSet(Reserved')
  <2>1. Reserved' = Reserved
    BY <1>5, <1>8 DEF Reserved
  <2> QED BY <1>7, <2>1
<1>15. Concerns(o, {e})
  BY <1>4, <1>6, <1>8, <1>9, FS_Singleton DEF Concerns
<1>16. OrderInv(o)'
  <2>1. \A s : s # t => Sent(s, o)' = Sent(s, o)
    BY <1>4, <1>6 DEF Sent
  <2>2. Captured(o)' <=> Captured(o)
    BY DEF Captured
  <2>3. StockShape(o)'
    BY <1>5, <1>8, <1>9 DEF OrderInv, StockShape
  <2>4. OrderShape(o)'
    <3>1. Sent("payment.refund-requested", o)' = Sent("payment.refund-requested", o)
      BY <1>3, <2>1
    <3>2. ord[o].status \notin {"confirmed", "completed"}
      BY <1>5 DEF OrderInv, OrderShape
    <3> QED BY <1>5, <2>2, <3>1, <3>2 DEF OrderInv, OrderShape
  <2>5. RefundShape(o)'
    <3>1. /\ Sent("payment.refund-requested", o)' = Sent("payment.refund-requested", o)
          /\ Sent("refund.succeeded", o)' = Sent("refund.succeeded", o)
      BY <1>3, <2>1
    <3> QED BY <1>5, <3>1 DEF OrderInv, RefundShape
  <2>6. EventsTrue(o)'
    <3>1. /\ Sent("order.placed", o)' = Sent("order.placed", o)
          /\ Sent("payment.captured", o)' = Sent("payment.captured", o)
          /\ Sent("inventory.commit-requested", o)' = Sent("inventory.commit-requested", o)
          /\ Sent("inventory.release-requested", o)' = Sent("inventory.release-requested", o)
          /\ Sent("order.paid", o)' = Sent("order.paid", o)
      BY <1>3, <2>1
    <3>2. Sent("order.paid", o) = {} /\ o \notin shipped /\ Sent("inventory.committed", o) = {}
      BY <1>5 DEF OrderInv, EventsTrue
    <3>3. Sent("inventory.committed", o)' # {} => fence'[o] = "committed"
      <4>1. CASE to = "committed"
        BY <1>9, <4>1
      <4>2. CASE to = "released"
        <5>1. Sent("inventory.committed", o)' = Sent("inventory.committed", o)
          BY <1>3, <2>1, <4>2
        <5> QED BY <3>2, <5>1
      <4> QED BY <4>1, <4>2
    <3> QED BY <1>5, <2>2, <3>1, <3>2, <3>3 DEF OrderInv, EventsTrue
  <2> QED BY <2>3, <2>4, <2>5, <2>6 DEF OrderInv
<1>17. \A x \in Orders : OrderInv(x)'
  BY <1>15, <1>16, OthersKept DEF Services
<1> QED BY <1>10, <1>12, <1>13, <1>14, <1>17 DEF Services

\* A terminal event; the same again changes nothing.
LEMMA TransitionStep ==
    ASSUME OrderAssumption, Services, NEW o \in Orders, res[o].state # "none",
           NEW to \in {"committed", "released"},
           TransitionOrder(o, to), UNCHANGED <<ord, intent, shipped>>
    PROVE  Services' /\ outbox \subseteq outbox'
<1>1. CASE fence[o] = "none"
  BY <1>1, TransitionFirst
<1>2. CASE fence[o] # "none"
  <2>1. UNCHANGED <<ord, level, res, fence, intent, shipped, outbox>>
    BY <1>2 DEF TransitionOrder, stock, NoEvent
  <2> QED BY <2>1, IgnoreStep
<1> QED BY <1>1, <1>2

\* A checkout that failed for good releases its reservation.
LEMMA ReleaseCheckoutStep ==
    ASSUME OrderAssumption, Services, NEW o \in Orders, ReleaseCheckout(o)
    PROVE  Services' /\ outbox \subseteq outbox'
<1>1. /\ res[o].state # "none" /\ TransitionOrder(o, "released") /\ UNCHANGED <<ord, intent, shipped>>
  BY DEF ReleaseCheckout
<1> QED BY <1>1, TransitionStep

\* The inventory service handles an event: the order it names is placed, so
\* it has a reservation.
LEMMA InventoryHandlesStep ==
    ASSUME OrderAssumption, Services, NEW e \in outbox, "inventory" \in Bindings(e.type), InventoryHandles(e)
    PROVE  Services' /\ outbox \subseteq outbox'
<1>1. PICK o : o = e.order
  OBVIOUS
<1>2. o \in Orders /\ e \in Sent(e.type, o) /\ OrderInv(o)
  BY <1>1, EventSent, Rows
<1>3. e.type \in EventTypes
  BY DEF Services, ServiceTypes, Event
<1>4. e.type \in {"inventory.commit-requested", "inventory.release-requested"}
  BY <1>3, InventoryEvents
<1>5. res[o].state # "none"
  BY <1>2, <1>4 DEF OrderInv, EventsTrue, StockShape
<1>6. PICK to : to = Wanted(e)
  OBVIOUS
<1>7. to \in {"committed", "released"} /\ TransitionOrder(o, to) /\ UNCHANGED <<ord, intent, shipped>>
  BY <1>1, <1>6 DEF InventoryHandles, Wanted
<1> QED BY <1>2, <1>5, <1>7, TransitionStep

---------------------------------------------------------------------------
(* Deliveries *)

\* A consumer handles an event that it does not refuse.
LEMMA HandlesStep ==
    ASSUME OrderAssumption, Services, NEW c \in Consumers, NEW e \in outbox,
           c \in Bindings(e.type), Reply(c, e) = "ok", Handles(c, e)
    PROVE  Services' /\ outbox \subseteq outbox'
<1>1. CASE c = "order"
  BY <1>1, OrderHandlesStep DEF Reply, Handles
<1>2. CASE c = "payment"
  BY <1>2, PaymentHandlesStep DEF Reply, Handles
<1>3. CASE c = "inventory"
  BY <1>3, InventoryHandlesStep DEF Handles
<1>4. CASE c = "fulfillment"
  BY <1>4, FulfillmentHandlesStep DEF Handles
<1> QED BY <1>1, <1>2, <1>3, <1>4 DEF Consumers

\* What the broker keeps of the deliveries stays what it is when the Outbox
\* grows.
LEMMA BrokerGrows ==
    ASSUME Broker, outbox \subseteq outbox'
    PROVE  /\ settled \in [Consumers -> SUBSET outbox']
           /\ retried \subseteq [to : Consumers, ev : outbox', try : 1 .. MaxAttempts]
           /\ inbox \in [Consumers -> SUBSET outbox']
           /\ dead \in [Consumers -> SUBSET outbox']
           /\ faults \in 0 .. MaxFaults /\ IsFiniteSet(retried)
BY DEF Broker, BrokerTypes

\* An event is settled.
LEMMA SettleStep ==
    ASSUME Broker, NEW c \in Consumers, NEW e \in outbox, outbox \subseteq outbox', Settle(c, e)
    PROVE  /\ settled' \in [Consumers -> SUBSET outbox']
           /\ retried' \subseteq [to : Consumers, ev : outbox', try : 1 .. MaxAttempts]
           /\ IsFiniteSet(retried')
<1>1. retried' \subseteq retried
  BY DEF Settle
<1>2. IsFiniteSet(retried')
  BY <1>1, BrokerGrows, FS_Subset
<1>3. settled' \in [Consumers -> SUBSET outbox']
  BY BrokerGrows DEF Settle
<1> QED BY <1>1, <1>2, <1>3, BrokerGrows

\* An event is dead-lettered.
LEMMA RejectStep ==
    ASSUME Broker, NEW c \in Consumers, NEW e \in outbox, outbox \subseteq outbox', Reject(c, e)
    PROVE  /\ settled' \in [Consumers -> SUBSET outbox'] /\ dead' \in [Consumers -> SUBSET outbox']
           /\ retried' \subseteq [to : Consumers, ev : outbox', try : 1 .. MaxAttempts]
           /\ IsFiniteSet(retried')
<1>1. dead' \in [Consumers -> SUBSET outbox']
  BY BrokerGrows DEF Reject
<1> QED BY <1>1, SettleStep DEF Reject

\* A delivery goes through the retry queue while attempts are left.
LEMMA RetryStep ==
    ASSUME OrderAssumption, Broker, NEW c \in Consumers, NEW e \in outbox, outbox \subseteq outbox', Retry(c, e)
    PROVE  /\ settled' \in [Consumers -> SUBSET outbox'] /\ dead' \in [Consumers -> SUBSET outbox']
           /\ retried' \subseteq [to : Consumers, ev : outbox', try : 1 .. MaxAttempts]
           /\ IsFiniteSet(retried')
<1>1. PICK n : n = Tries(c, e)
  OBVIOUS
<1>2. n \in Nat
  <2> DEFINE S == {t \in retried : t.to = c /\ t.ev = e}
  <2>1. IsFiniteSet(S)
    BY FS_Subset DEF Broker
  <2>2. Cardinality(S) \in Nat
    BY <2>1, FS_CardinalityType
  <2> QED BY <1>1, <2>2 DEF Tries
<1>3. CASE n < MaxAttempts
  <2>1. PICK d : d = [to |-> c, ev |-> e, try |-> n + 1]
    OBVIOUS
  <2>2. retried' = retried \cup {d} /\ UNCHANGED <<settled, dead>>
    BY <1>1, <1>3, <2>1 DEF Retry
  <2>3. n + 1 \in 1 .. MaxAttempts
    BY <1>2, <1>3 DEF OrderAssumption
  <2>4. d \in [to : Consumers, ev : outbox', try : 1 .. MaxAttempts]
    BY <2>1, <2>3
  <2>5. IsFiniteSet(retried')
    BY <2>2, FS_AddElement DEF Broker
  <2> QED BY <2>2, <2>4, <2>5, BrokerGrows
<1>4. CASE ~(n < MaxAttempts)
  <2>1. Reject(c, e)
    BY <1>1, <1>4 DEF Retry
  <2> QED BY <2>1, RejectStep
<1> QED BY <1>3, <1>4

\* One more fault.
LEMMA FaultStep ==
    ASSUME OrderAssumption, Broker, Fault
    PROVE  faults' \in 0 .. MaxFaults
BY DEF OrderAssumption, Broker, BrokerTypes, Fault

\* An event that waits is one of the Outbox and bound to its consumer.
LEMMA WaitingEvent ==
    ASSUME NEW c, NEW e \in Waiting(c)
    PROVE  e \in outbox /\ c \in Bindings(e.type)
BY DEF Waiting

\* The services were left alone.
LEMMA ServicesStill ==
    ASSUME Services, UNCHANGED services
    PROVE  Services' /\ outbox \subseteq outbox'
BY IgnoreStep DEF services, stock

---------------------------------------------------------------------------
(* The steps *)

\* HandleOnce finds the inbox row.
LEMMA SkipStep ==
    ASSUME OrderAssumption, SagaInv, NEW c \in Consumers, NEW e \in Waiting(c), Skip(c, e)
    PROVE  SagaInv'
<1>1. e \in outbox
  BY WaitingEvent
<1>2. Services' /\ outbox \subseteq outbox'
  BY ServicesStill DEF SagaInv, Skip
<1>3. Settle(c, e) /\ UNCHANGED <<dead, inbox, faults>>
  BY DEF Skip, Ack, NoFault
<1> QED BY <1>1, <1>2, <1>3, SettleStep, BrokerGrows DEF SagaInv, Broker, BrokerTypes

\* A delivery is handled and acknowledged.
LEMMA HandleStep ==
    ASSUME OrderAssumption, SagaInv, NEW c \in Consumers, NEW e \in Waiting(c), Handle(c, e)
    PROVE  SagaInv'
<1>1. e \in outbox /\ c \in Bindings(e.type)
  BY WaitingEvent
<1>2. Services' /\ outbox \subseteq outbox'
  BY <1>1, HandlesStep DEF SagaInv, Handle
<1>3. /\ Settle(c, e) /\ UNCHANGED <<dead, faults>>
      /\ inbox' = [inbox EXCEPT ![c] = @ \cup {e}]
  BY DEF Handle, Ack, NoFault
<1>4. inbox' \in [Consumers -> SUBSET outbox']
  BY <1>1, <1>2, <1>3, BrokerGrows DEF SagaInv
<1> QED BY <1>1, <1>2, <1>3, <1>4, SettleStep, BrokerGrows DEF SagaInv, Broker, BrokerTypes

\* A delivery is refused.
LEMMA RefuseStep ==
    ASSUME OrderAssumption, SagaInv, NEW c \in Consumers, NEW e \in Waiting(c), Refuse(c, e)
    PROVE  SagaInv'
<1>1. e \in outbox
  BY WaitingEvent
<1>2. Services' /\ outbox \subseteq outbox'
  BY ServicesStill DEF SagaInv, Refuse
<1>3. UNCHANGED <<inbox, faults>> /\ (Retry(c, e) \/ Reject(c, e))
  BY DEF Refuse, NoFault
<1>4. CASE Retry(c, e)
  BY <1>1, <1>2, <1>3, <1>4, RetryStep, BrokerGrows DEF SagaInv, Broker, BrokerTypes
<1>5. CASE Reject(c, e)
  BY <1>1, <1>2, <1>3, <1>5, RejectStep, BrokerGrows DEF SagaInv, Broker, BrokerTypes
<1> QED BY <1>3, <1>4, <1>5

\* The effect is committed and the inbox row is not.
LEMMA InboxLostStep ==
    ASSUME OrderAssumption, SagaInv, NEW c \in Consumers, NEW e \in Waiting(c), InboxLost(c, e)
    PROVE  SagaInv'
<1>1. e \in outbox /\ c \in Bindings(e.type)
  BY WaitingEvent
<1>2. Services' /\ outbox \subseteq outbox'
  BY <1>1, HandlesStep DEF SagaInv, InboxLost
<1>3. Retry(c, e) /\ Fault /\ UNCHANGED inbox
  BY DEF InboxLost
<1> QED BY <1>1, <1>2, <1>3, RetryStep, FaultStep, BrokerGrows DEF SagaInv, Broker, BrokerTypes

\* Everything rolls back.
LEMMA DatabaseErrorStep ==
    ASSUME OrderAssumption, SagaInv, NEW c \in Consumers, NEW e \in Waiting(c), DatabaseError(c, e)
    PROVE  SagaInv'
<1>1. e \in outbox
  BY WaitingEvent
<1>2. Services' /\ outbox \subseteq outbox'
  BY ServicesStill DEF SagaInv, DatabaseError
<1>3. Retry(c, e) /\ Fault /\ UNCHANGED inbox
  BY DEF DatabaseError
<1> QED BY <1>1, <1>2, <1>3, RetryStep, FaultStep, BrokerGrows DEF SagaInv, Broker, BrokerTypes

\* A settled event is delivered again.
LEMMA RedeliverStep ==
    ASSUME OrderAssumption, SagaInv, NEW c \in Consumers, NEW e \in settled[c], Redeliver(c, e)
    PROVE  SagaInv'
<1>1. Services' /\ outbox \subseteq outbox'
  BY ServicesStill DEF SagaInv, Redeliver
<1>2. settled' = [settled EXCEPT ![c] = @ \ {e}] /\ Fault /\ UNCHANGED <<retried, inbox, dead>>
  BY DEF Redeliver
<1>3. settled' \in [Consumers -> SUBSET outbox']
  BY <1>1, <1>2, BrokerGrows DEF SagaInv
<1> QED BY <1>1, <1>2, <1>3, FaultStep, BrokerGrows DEF SagaInv, Broker, BrokerTypes

\* A request of a client.
LEMMA ClientStep ==
    ASSUME OrderAssumption, SagaInv, NEW o \in Orders,
           Reserve(o) \/ PlaceOrder(o) \/ ReleaseCheckout(o) \/ CancelOrder(o) \/ Webhook(o)
    PROVE  SagaInv'
<1>1. Services' /\ outbox \subseteq outbox'
  BY ReserveStep, PlaceOrderStep, ReleaseCheckoutStep, CancelOrderStep, WebhookStep DEF SagaInv
<1>2. UNCHANGED broker
  BY DEF Reserve, PlaceOrder, ReleaseCheckout, CancelOrder, Webhook
<1> QED BY <1>1, <1>2, BrokerGrows DEF SagaInv, Broker, BrokerTypes, broker

\* Every step keeps the invariant.
LEMMA SagaStep ==
    ASSUME OrderAssumption, SagaInv, [Next]_vars
    PROVE  SagaInv'
<1>1. CASE \E o \in Orders : Reserve(o) \/ PlaceOrder(o) \/ ReleaseCheckout(o) \/ CancelOrder(o) \/ Webhook(o)
  BY <1>1, ClientStep
<1>2. CASE \E c \in Consumers : ProcessDelivery(c)
  BY <1>2, SkipStep, HandleStep, RefuseStep DEF ProcessDelivery
<1>3. CASE \E c \in Consumers : \E e \in Waiting(c) : InboxLost(c, e) \/ DatabaseError(c, e)
  BY <1>3, InboxLostStep, DatabaseErrorStep
<1>4. CASE \E c \in Consumers : \E e \in settled[c] : Redeliver(c, e)
  BY <1>4, RedeliverStep
<1>5. CASE UNCHANGED vars
  <2>1. Services' /\ outbox \subseteq outbox' /\ UNCHANGED broker
    BY <1>5, ServicesStill DEF SagaInv, vars, services, stock, broker
  <2> QED BY <2>1, BrokerGrows DEF SagaInv, Broker, BrokerTypes, broker
<1> QED BY <1>1, <1>2, <1>3, <1>4, <1>5 DEF Next

\* Nothing is reserved or committed of an untouched level.
LEMMA UntouchedLevel ==
    ASSUME NEW l \in Locations, OnHand[l] \in Nat, In("active") = {}, In("committed") = {},
           level[l].onHand = OnHand[l], level[l].reserved = 0
    PROVE  LevelBooks(l)
BY SumEmpty DEF LevelBooks

\* It holds at the start: nothing is placed, reserved or sent.
LEMMA SagaInit ==
    ASSUME OrderAssumption, Init
    PROVE  SagaInv
<1>1. ServiceTypes
  <2>1. NoOrder \in Order
    <3>1. 0 \in 0 .. Price /\ [s \in Steps |-> "none"] \in [Steps -> StepStatus]
      BY DEF OrderAssumption, StepStatus
    <3> QED BY <3>1 DEF NoOrder, Order, StepStatus
  <2>2. NoReservation \in [state : {"none", "active", "committed", "released"}, held : [Locations -> Nat]]
    BY DEF NoReservation
  <2>3. \A l \in Locations : OnHand[l] \in Nat
    BY DEF OrderAssumption, Locations
  <2>4. NoIntent \in [status : {"none", "succeeded", "failed", "partially_refunded", "refunded"},
                      amount : Nat, refunds : SUBSET outbox]
    BY DEF NoIntent
  <2> QED BY <2>1, <2>2, <2>3, <2>4 DEF Init, ServiceTypes
<1>2. \A o \in Orders : res[o].state = "none" /\ ord[o] = NoOrder /\ intent[o] = NoIntent /\ fence[o] = "none"
  BY DEF Init, NoReservation
<1>3. Reserved = {} /\ In("active") = {} /\ In("committed") = {}
  BY <1>2 DEF Reserved, In
<1>4. IsFiniteSet(outbox) /\ IsFiniteSet(Reserved) /\ IsFiniteSet(retried)
  BY <1>3, FS_EmptySet DEF Init
<1>5. \A l \in Locations : LevelBooks(l)
  <2> SUFFICES ASSUME NEW l \in Locations
               PROVE  LevelBooks(l)
    OBVIOUS
  <2>1. OnHand[l] \in Nat
    BY DEF OrderAssumption, Locations
  <2>2. level[l].onHand = OnHand[l] /\ level[l].reserved = 0
    BY DEF Init
  <2> QED BY <1>3, <2>1, <2>2, UntouchedLevel
<1>6. \A o \in Orders : OrderInv(o)
  <2> SUFFICES ASSUME NEW o \in Orders
               PROVE  OrderInv(o)
    OBVIOUS
  <2>1. \A t : Sent(t, o) = {}
    BY DEF Init, Sent
  <2>2. /\ ord[o] = NoOrder /\ ord[o].status = "none" /\ ord[o].pay = "none" /\ ord[o].captured = 0
        /\ ord[o].refunded = 0 /\ ord[o].step["fulfillment_cancel_requested"] = "none"
    BY <1>2 DEF NoOrder, Steps
  <2>3. intent[o].status = "none" /\ intent[o].refunds = {} /\ o \notin shipped
    BY <1>2 DEF NoIntent, Init
  <2>4. Price # 0
    BY DEF OrderAssumption
  <2> QED BY <1>2, <2>1, <2>2, <2>3, <2>4 DEF OrderInv, StockShape, OrderShape, RefundShape, EventsTrue
<1>7. BrokerTypes
  BY DEF Init, BrokerTypes, OrderAssumption
<1> QED BY <1>1, <1>4, <1>5, <1>6, <1>7 DEF SagaInv, Services, Broker

---------------------------------------------------------------------------
(* The theorems *)

\* What the orders of a state hold at a location, as StockBooks adds it up.
LEMMA HeldSum ==
    ASSUME NEW l, NEW S, IsFiniteSet(S), S \subseteq Orders
    PROVE  MapThenSumSet(LAMBDA o : res[o].held[l], S) = SumFunctionOnSet(HeldAt(l), S)
<1> DEFINE F == HeldAt(l)
           Body(g) == [s \in SUBSET S |-> IF s = {} THEN 0 ELSE res[First(s)].held[l] + g[s \ {First(s)}]]
           h == CHOOSE g : g = Body(g)
<1>1. MapThenSumSet(LAMBDA o : res[o].held[l], S) = h[S]
  BY DEF MapThenSumSet, MapThenFoldSet, First
<1>2. \A v \in S : F[v] = res[v].held[l]
  BY DEF HeldAt
<1> HIDE DEF F
<1>3. \A g : Adds(F, S, g) <=> g = Body(g)
  <2>1. \A s \in SUBSET S : s # {} => F[First(s)] = res[First(s)].held[l]
    BY <1>2, FirstIn
  <2> QED BY <2>1 DEF Adds
<1> HIDE DEF Body
<1>4. \E g : g = Body(g)
  BY <1>3, AddsExists
<1>5. h = Body(h)
  BY <1>4
<1> HIDE DEF h
<1>6. h[S] = SumFunctionOnSet(F, S)
  BY <1>3, <1>5, AddsSum
<1> QED BY <1>1, <1>6 DEF F

\* The invariant says what StockBooks says.
LEMMA BooksFromInv ==
    ASSUME SagaInv
    PROVE  StockBooks
<1>1. TypeOK
  BY DEF SagaInv, Services, ServiceTypes, Broker, BrokerTypes, TypeOK
<1>2. ASSUME NEW l \in Locations, NEW st \in {"active", "committed"}
      PROVE  MapThenSumSet(LAMBDA o : res[o].held[l], {o \in Orders : res[o].state = st})
             = SumFunctionOnSet(HeldAt(l), In(st))
  <2>1. IsFiniteSet(In(st)) /\ In(st) \subseteq Orders
    BY HeldNumbers DEF SagaInv, In
  <2>2. MapThenSumSet(LAMBDA o : res[o].held[l], In(st)) = SumFunctionOnSet(HeldAt(l), In(st))
    BY <2>1, HeldSum
  <2> QED BY <2>2 DEF In
<1>3. \A l \in Locations : LevelBooks(l)
  BY DEF SagaInv, Services
<1> QED BY <1>1, <1>2, <1>3 DEF StockBooks, LevelBooks

\* It says what ConfirmedBacked says.
LEMMA BackedFromInv ==
    ASSUME OrderAssumption, SagaInv
    PROVE  ConfirmedBacked
<1> SUFFICES ASSUME NEW o \in Orders, ord[o].status \in {"confirmed", "completed"}
             PROVE  intent[o].status = "succeeded" /\ intent[o].amount = Price /\ res[o].state = "committed"
  BY DEF ConfirmedBacked
<1>1. OrderInv(o) /\ intent[o].refunds \in SUBSET outbox
  BY Rows DEF SagaInv
<1>2. ord[o].pay = "paid" /\ fence[o] = "committed" /\ ord[o].captured = Price /\ Captured(o)
  BY <1>1 DEF OrderInv, OrderShape
<1>3. intent[o].refunds = {}
  BY <1>1 DEF OrderInv, RefundShape
<1>4. intent[o].status = "succeeded"
  BY <1>1, <1>2, <1>3 DEF OrderInv, RefundShape, Captured
<1>5. res[o].state = "committed"
  BY <1>1, <1>2 DEF OrderInv, StockShape
<1> QED BY <1>2, <1>4, <1>5 DEF Captured

\* It says what MoneyMatches says.
LEMMA MoneyFromInv ==
    ASSUME OrderAssumption, SagaInv
    PROVE  MoneyMatches
<1> SUFFICES ASSUME NEW o \in Orders
             PROVE  /\ o \in shipped => intent[o].status \in {"succeeded", "refunded"} /\ res[o].state = "committed"
                    /\ intent[o].refunds # {} => ord[o].status = "cancelled" /\ Refunded(o) <= ord[o].captured
                    /\ ord[o].refunded <= Refunded(o)
  BY DEF MoneyMatches
<1>1. OrderInv(o) /\ Price \in Nat
  BY Rows DEF SagaInv, OrderAssumption
<1>2. o \in shipped => intent[o].status \in {"succeeded", "refunded"} /\ res[o].state = "committed"
  BY <1>1 DEF OrderInv, EventsTrue, OrderShape, StockShape, Captured
<1>3. CASE intent[o].refunds = {}
  <2>1. Refunded(o) = 0
    BY <1>3, RefundedSum
  <2>2. ord[o].refunded = 0
    BY <1>1, <1>3 DEF OrderInv, OrderShape
  <2> QED BY <1>2, <1>3, <2>1, <2>2
<1>4. CASE intent[o].refunds # {}
  <2>1. PICK e : e \in intent[o].refunds
    BY <1>4
  <2>2. intent[o].refunds = {e} /\ e.amount = Price
    BY <1>1, <2>1 DEF OrderInv, RefundShape
  <2>3. Refunded(o) = Price
    BY <1>1, <2>2, RefundedSum
  <2>4. ord[o].status = "cancelled" /\ ord[o].captured = Price
    BY <1>1, <2>1 DEF OrderInv, RefundShape
  <2>5. ord[o].refunded \in {0, Price}
    BY <1>1 DEF OrderInv, OrderShape
  <2> QED BY <1>1, <1>2, <2>3, <2>4, <2>5
<1> QED BY <1>3, <1>4

\* The invariant holds of every behaviour.
THEOREM SagaInvariant == Spec => []SagaInv
<1>1. Init => SagaInv
  BY OrderAssumption, SagaInit
<1>2. SagaInv /\ [Next]_vars => SagaInv'
  BY OrderAssumption, SagaStep
<1> QED BY <1>1, <1>2, PTL DEF Spec

\* The stock of every location is what its reservations and commitments
\* leave of it, whatever requests are repeated (TransitionOrder).
THEOREM StockBooksKept == Spec => []StockBooks
<1>1. SagaInv => StockBooks
  BY BooksFromInv
<1> QED BY <1>1, SagaInvariant, PTL

\* A confirmed order is paid for and its stock is committed
\* (applyInventoryCommitted).
THEOREM OrdersBacked == Spec => []ConfirmedBacked
<1>1. SagaInv => ConfirmedBacked
  BY OrderAssumption, BackedFromInv
<1> QED BY <1>1, SagaInvariant, PTL

\* What is shipped was paid for, and what is refunded was captured for an
\* order that is cancelled, and is refunded once (Refund, applyRefunded).
THEOREM MoneyKept == Spec => []MoneyMatches
<1>1. SagaInv => MoneyMatches
  BY OrderAssumption, MoneyFromInv
<1> QED BY <1>1, SagaInvariant, PTL
=============================================================================
