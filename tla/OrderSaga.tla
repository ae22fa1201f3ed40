----------------------------- MODULE OrderSaga -----------------------------
(***************************************************************************)
(* The commerce template after checkout: the order service drives payment, *)
(* inventory and fulfillment through events (internal/order/store.go), and *)
(* each service keeps its own database, Outbox and Inbox                   *)
(* (internal/platform/messaging).                                          *)
(*                                                                         *)
(* order applies an event in the transaction of its Inbox row.  payment,   *)
(* inventory and fulfillment commit the effect in a transaction of their   *)
(* own and the Inbox row after it, so an effect can be repeated.           *)
(*                                                                         *)
(* One SKU is sold, from several locations in order of priority.  An order *)
(* asks for a quantity of it.  Queues keep no order: a retried message     *)
(* goes through a delay queue and several instances consume.               *)
(***************************************************************************)
EXTENDS Integers, Sequences, FiniteSets, FiniteSetsExt

CONSTANTS
    Orders,
    Quantity,     \* Quantity[o]: what order o asks for
    OnHand,       \* OnHand[l]: stock of location l at the start, by priority
    Price,        \* total_minor of an order
    Amounts,      \* Amounts[o]: the amounts that webhooks name for order o
    MaxAttempts,  \* RetryPolicy.MaxAttempts
    MaxFaults     \* bound: crashes, lost acknowledgements, failed statements

ASSUME OrderAssumption ==
    /\ OnHand \in Seq(Nat)
    /\ Quantity \in [Orders -> Nat \ {0}]
    /\ Price \in Nat \ {0} /\ Amounts \in [Orders -> SUBSET (Nat \ {0})]
    /\ MaxAttempts \in Nat /\ MaxFaults \in Nat

VARIABLES
    ord,      \* sales_order, order_saga and its projections, by order
    level,    \* inventory_level, by location
    res,      \* reservation rows, by order
    fence,    \* reservation_order_state: the terminal event of an order
    intent,   \* payment_intent with its refunds, by order
    shipped,  \* orders with fulfillment_order rows
    outbox,   \* outbox rows of all services
    settled,  \* events acknowledged or dead-lettered, by consumer
    retried,  \* deliveries that went through a retry queue
    inbox,    \* inbox rows, by consumer
    dead,     \* events in the dead-letter queue, by consumer
    faults    \* faults so far

vars == <<ord, level, res, fence, intent, shipped, outbox, settled, retried, inbox, dead, faults>>

---------------------------------------------------------------------------
(* Types *)

Locations == 1 .. Len(OnHand)

Consumers == {"order", "payment", "inventory", "fulfillment"}

\* Which queues an event type is bound to (deploy/rabbitmq/definitions.json).
Bindings(type) ==
    CASE type \in {"payment.captured", "payment.failed", "refund.succeeded", "inventory.committed",
                   "inventory.released", "fulfillment.cancelled", "fulfillment.completed"} -> {"order"}
      [] type \in {"order.placed", "payment.refund-requested"} -> {"payment"}
      [] type \in {"order.paid", "fulfillment.cancel-requested"} -> {"fulfillment"}
      [] type = "order.cancelled" -> {"payment", "fulfillment"}
      [] type \in {"inventory.commit-requested", "inventory.release-requested"} -> {"inventory"}

EventTypes ==
    {"payment.captured", "payment.failed", "refund.succeeded", "inventory.committed",
     "inventory.released", "fulfillment.cancelled", "fulfillment.completed", "order.placed",
     "payment.refund-requested", "order.paid", "fulfillment.cancel-requested", "order.cancelled",
     "inventory.commit-requested", "inventory.release-requested"}

\* event_id is [type, order, n]; the payload may name a reason and an amount.
Event == [type : EventTypes, order : Orders, n : Nat, reason : BOOLEAN, amount : Nat]

Steps == {"payment_requested", "inventory_commit_requested", "inventory_release_requested",
          "fulfillment_cancel_requested", "refund_requested"}

Order ==
    [status : {"none", "pending", "confirmed", "completed", "cancelled"},
     pay : {"none", "pending", "authorized", "paid", "failed", "partially_refunded", "refunded"},
     ful : {"unfulfilled", "fulfilled"},
     saga : {"none", "paying", "reserving", "completed", "compensating", "failed"},
     captured : {0, Price}, refunded : 0 .. Price,
     alloc : {"none", "active", "committed", "released"},
     step : [Steps -> {"none", "pending", "completed", "failed"}]]

TypeOK ==
    /\ ord \in [Orders -> Order]
    /\ level \in [Locations -> [onHand : Nat, reserved : Nat]]
    /\ res \in [Orders -> [state : {"none", "active", "committed", "released"},
                           held : [Locations -> Nat]]]
    /\ fence \in [Orders -> {"none", "committed", "released"}]
    /\ intent \in [Orders -> [status : {"none", "succeeded", "failed", "partially_refunded", "refunded"},
                              amount : Nat, refunds : SUBSET outbox]]
    /\ shipped \subseteq Orders
    /\ outbox \subseteq Event
    /\ settled \in [Consumers -> SUBSET outbox]
    /\ retried \subseteq [to : Consumers, ev : outbox, try : 1 .. MaxAttempts]
    /\ inbox \in [Consumers -> SUBSET outbox]
    /\ dead \in [Consumers -> SUBSET outbox]
    /\ faults \in 0 .. MaxFaults

NoOrder ==
    [status |-> "none", pay |-> "none", ful |-> "unfulfilled", saga |-> "none",
     captured |-> 0, refunded |-> 0, alloc |-> "none", step |-> [s \in Steps |-> "none"]]

NoReservation == [state |-> "none", held |-> [l \in Locations |-> 0]]

NoIntent == [status |-> "none", amount |-> 0, refunds |-> {}]

Init ==
    /\ ord = [o \in Orders |-> NoOrder]
    /\ level = [l \in Locations |-> [onHand |-> OnHand[l], reserved |-> 0]]
    /\ res = [o \in Orders |-> NoReservation]
    /\ fence = [o \in Orders |-> "none"]
    /\ intent = [o \in Orders |-> NoIntent]
    /\ shipped = {} /\ outbox = {} /\ retried = {}
    /\ settled = [c \in Consumers |-> {}]
    /\ inbox = [c \in Consumers |-> {}]
    /\ dead = [c \in Consumers |-> {}]
    /\ faults = 0

stock == <<level, res, fence>>
broker == <<settled, retried, inbox, dead, faults>>

---------------------------------------------------------------------------
(* The Outbox.  A row is inserted in the transaction of the change it     *)
(* describes.                                                              *)

NewEvent(type, o) ==
    [type |-> type, order |-> o, n |-> Cardinality({e \in outbox : e.type = type /\ e.order = o}),
     reason |-> FALSE, amount |-> 0]

WithReason(e) == [e EXCEPT !.reason = TRUE]

WithAmount(e, amount) == [e EXCEPT !.amount = amount]

InsertOutbox(events) == outbox' = outbox \cup events

NoEvent == UNCHANGED outbox

---------------------------------------------------------------------------
(* Inventory *)

Available(l) == level[l].onHand - level[l].reserved

\* Reserve goes through the locations by priority and takes what each can give.
AvailableBefore(l) == MapThenSumSet(Available, 1 .. l - 1)

Allocation(q) ==
    [l \in Locations |-> Min({Available(l), Max({0, q - AvailableBefore(l)})})]

\* Reserve; a repeated key returns the first result and changes nothing.
\* inventory.reserved.v1 is bound to no queue.
Reserve(o) ==
    /\ res[o].state = "none" /\ fence[o] = "none"
    /\ MapThenSumSet(Available, Locations) >= Quantity[o]
    /\ LET held == Allocation(Quantity[o]) IN
          /\ res' = [res EXCEPT ![o] = [state |-> "active", held |-> held]]
          /\ level' = [l \in Locations |-> [level[l] EXCEPT !.reserved = @ + held[l]]]
    /\ UNCHANGED <<ord, fence, intent, shipped, outbox, broker>>

\* Level.Commit and Level.Release
Settled(l, held, to) ==
    [onHand |-> IF to = "committed" THEN level[l].onHand - held ELSE level[l].onHand,
     reserved |-> level[l].reserved - held]

inventoryEventType(to) == IF to = "committed" THEN "inventory.committed" ELSE "inventory.released"

\* Mutant: a repeated request settles the stock again.
TransitionOrder_again(o, to) ==
    /\ fence[o] \in {"none", to}
    /\ fence' = [fence EXCEPT ![o] = to]
    /\ res' = [res EXCEPT ![o].state = to]
    /\ level' = [l \in Locations |-> Settled(l, res[o].held[l], to)]
    /\ InsertOutbox({NewEvent(inventoryEventType(to), o)})

\* A terminal event of the same kind is repeated without effect.
TransitionOrder(o, to) ==
    \/ /\ fence[o] = "none"
       /\ fence' = [fence EXCEPT ![o] = to]
       /\ res' = IF res[o].state = "active" THEN [res EXCEPT ![o].state = to] ELSE res
       /\ level' = IF res[o].state = "active"
                   THEN [l \in Locations |-> Settled(l, res[o].held[l], to)] ELSE level
       /\ InsertOutbox({NewEvent(inventoryEventType(to), o)})
    \/ /\ fence[o] = to
       /\ UNCHANGED stock /\ NoEvent

Wanted(e) == IF e.type = "inventory.commit-requested" THEN "committed" ELSE "released"

\* The payload struct has order_id only and unknown fields are refused; the
\* other terminal event is ErrOrderTerminal.
InventoryReply(e) ==
    CASE e.reason -> "reject"
      [] fence[e.order] \notin {"none", Wanted(e)} -> "retry"
      [] OTHER -> "ok"

InventoryHandles(e) ==
    /\ TransitionOrder(e.order, Wanted(e))
    /\ UNCHANGED <<ord, intent, shipped>>

---------------------------------------------------------------------------
(* Payment *)

\* What the provider's scenario makes of the attempts of an intent.
Charge == {"succeeded", "failed"}

\* The intent is inserted with its outcome.
SaveCapture(o, status, amount, event) ==
    /\ intent' = [intent EXCEPT ![o] = [status |-> status, amount |-> amount, refunds |-> {}]]
    /\ InsertOutbox({event})

\* An intent that exists is replayed.
CaptureOrder(o, amount) ==
    \/ /\ intent[o].status = "none"
       /\ \E status \in Charge :
             SaveCapture(o, status, amount,
                         IF status = "succeeded" THEN WithAmount(NewEvent("payment.captured", o), amount)
                         ELSE NewEvent("payment.failed", o))
    \/ /\ intent[o].status # "none"
       /\ UNCHANGED intent /\ NoEvent

\* Rows of refund, by idempotency key: one per refund-requested event.
Refunded(o) == MapThenSumSet(LAMBDA e : e.amount, intent[o].refunds)

Unrefunded(o) == intent[o].amount - Refunded(o)

Refund(e) ==
    \/ /\ e \notin intent[e.order].refunds
       /\ intent' = [intent EXCEPT ![e.order] =
                        [status |-> IF e.amount = Unrefunded(e.order) THEN "refunded" ELSE "partially_refunded",
                         amount |-> @.amount, refunds |-> @.refunds \cup {e}]]
       /\ InsertOutbox({WithAmount(NewEvent("refund.succeeded", e.order), e.amount)})
    \/ /\ e \in intent[e.order].refunds
       /\ UNCHANGED intent /\ NoEvent

PaymentReply(e) ==
    CASE e.type = "payment.refund-requested" /\ e \notin intent[e.order].refunds
         /\ (intent[e.order].status \notin {"succeeded", "partially_refunded"}
             \/ e.amount > Unrefunded(e.order)) -> "retry"
      [] e.type = "order.cancelled" /\ intent[e.order].status = "none" -> "retry"
      [] OTHER -> "ok"

\* An intent is stored only after its outcome is known, so CancelIntent finds
\* it terminal and leaves it.
CancelIntent(o) == UNCHANGED intent /\ NoEvent

PaymentHandles(e) ==
    /\ \/ e.type = "order.placed" /\ CaptureOrder(e.order, e.amount)
       \/ e.type = "payment.refund-requested" /\ Refund(e)
       \/ e.type = "order.cancelled" /\ CancelIntent(e.order)
    /\ UNCHANGED <<ord, stock, shipped>>

\* POST /payments/webhooks races with the consumer under the same key.  The
\* caller names the order, which may not be placed yet, and the amount.
Webhook(o) ==
    /\ intent[o].status = "none"
    /\ \E amount \in Amounts[o] : CaptureOrder(o, amount)
    /\ UNCHANGED <<ord, stock, shipped, broker>>

---------------------------------------------------------------------------
(* Fulfillment *)

\* FulfillOrder asks inventory for the order's reservations, whatever their
\* status, and stores the shipments as delivered.
FulfillmentReply(e) ==
    IF e.type = "order.paid" /\ e.order \notin shipped /\ res[e.order].state = "none"
    THEN "retry" ELSE "ok"

SaveFulfill(o) ==
    /\ shipped' = shipped \cup {o}
    /\ InsertOutbox({NewEvent("fulfillment.completed", o)})

FulfillOrder(o) ==
    \/ o \notin shipped /\ SaveFulfill(o)
    \/ o \in shipped /\ UNCHANGED shipped /\ NoEvent

\* Delivered shipments are not cancelled; the order is told either way.
SaveCancel(o) ==
    /\ UNCHANGED shipped
    /\ InsertOutbox({NewEvent("fulfillment.cancelled", o)})

CancelFulfillment(o) ==
    \/ o \in shipped /\ SaveCancel(o)
    \/ o \notin shipped /\ UNCHANGED shipped /\ NoEvent

FulfillmentHandles(e) ==
    /\ IF e.type = "order.paid" THEN FulfillOrder(e.order) ELSE CancelFulfillment(e.order)
    /\ UNCHANGED <<ord, stock, intent>>

---------------------------------------------------------------------------
(* Order *)

\* A step that exists keeps its status: ON CONFLICT DO NOTHING, and
\* upsertPendingSagaStep leaves completed steps.
Requested(steps, s) ==
    IF steps[s] \in {"none", "failed"} THEN [steps EXCEPT ![s] = "pending"] ELSE steps

Closed(steps, s, status) ==
    IF steps[s] = "pending" THEN [steps EXCEPT ![s] = status] ELSE steps

Ignore == UNCHANGED ord /\ NoEvent

\* CommitCheckout with insertOrder, for a reservation of one allocation
\* (validateReservationResult).
PlaceOrder(o) ==
    /\ ord[o].status = "none" /\ res[o].state = "active"
    /\ Cardinality({l \in Locations : res[o].held[l] > 0}) = 1
    /\ ord' = [ord EXCEPT ![o] =
                  [NoOrder EXCEPT !.status = "pending", !.pay = "pending", !.saga = "paying",
                                  !.alloc = "active", !.step["payment_requested"] = "pending"]]
    /\ InsertOutbox({WithAmount(NewEvent("order.placed", o), Price)})
    /\ UNCHANGED <<stock, intent, shipped, broker>>

\* A checkout that failed for good releases its reservation and places no
\* order (module Checkout).
ReleaseCheckout(o) ==
    /\ ord[o].status = "none" /\ res[o].state = "active"
    /\ TransitionOrder(o, "released")
    /\ UNCHANGED <<ord, intent, shipped, broker>>

\* The second event of CancelOrder names the reason too.
CancelOrder(o) ==
    /\ ord[o].status \in {"pending", "confirmed"} /\ ord[o].saga # "failed"
    /\ LET paid == ord[o].pay \in {"paid", "authorized", "partially_refunded"}
           step == IF paid THEN "fulfillment_cancel_requested" ELSE "inventory_release_requested"
           type == IF paid THEN "fulfillment.cancel-requested" ELSE "inventory.release-requested"
       IN /\ ord' = [ord EXCEPT ![o].status = "cancelled", ![o].saga = "compensating",
                                ![o].step = Requested(@, step)]
          /\ InsertOutbox({WithReason(NewEvent("order.cancelled", o)), WithReason(NewEvent(type, o))})
    /\ UNCHANGED <<stock, intent, shipped, broker>>

AwaitsPayment(o) == ord[o].status = "pending" /\ ord[o].pay = "pending"

\* updateSagaForPayment
AfterPayment(o, saga, status) ==
    [ord[o] EXCEPT !.saga = IF @ \in {"paying", "reserving"} THEN saga ELSE @,
                   !.step = Closed(@, "payment_requested", status)]

applyPaymentFailed(o) ==
    IF AwaitsPayment(o)
    THEN /\ ord' = [ord EXCEPT ![o] =
                       [AfterPayment(o, "compensating", "failed") EXCEPT
                           !.status = "cancelled", !.pay = "failed",
                           !.step = Requested(@, "inventory_release_requested")]]
         /\ InsertOutbox({NewEvent("inventory.release-requested", o), NewEvent("order.cancelled", o)})
    ELSE Ignore

\* Mutants: a captured payment confirms the order, or sends it to
\* fulfillment, before the stock is committed.
applyPaymentPaid_confirms(o, amount) ==
    IF AwaitsPayment(o)
    THEN /\ ord' = [ord EXCEPT ![o] =
                       [AfterPayment(o, "reserving", "completed") EXCEPT
                           !.status = "confirmed", !.pay = "paid", !.captured = amount]]
         /\ InsertOutbox({NewEvent("inventory.commit-requested", o)})
    ELSE Ignore

applyPaymentPaid_ships(o, amount) ==
    IF AwaitsPayment(o)
    THEN /\ ord' = [ord EXCEPT ![o] =
                       [AfterPayment(o, "reserving", "completed") EXCEPT
                           !.pay = "authorized", !.captured = amount,
                           !.step = Requested(@, "inventory_commit_requested")]]
         /\ InsertOutbox({NewEvent("inventory.commit-requested", o), NewEvent("order.paid", o)})
    ELSE Ignore

applyPaymentPaid(o, amount) ==
    IF AwaitsPayment(o)
    THEN /\ ord' = [ord EXCEPT ![o] =
                       [AfterPayment(o, "reserving", "completed") EXCEPT
                           !.pay = "authorized",
                           !.captured = IF @ = 0 THEN amount ELSE @,
                           !.step = Requested(@, "inventory_commit_requested")]]
         /\ InsertOutbox({NewEvent("inventory.commit-requested", o)})
    ELSE Ignore

applyInventoryCommitted(o) ==
    IF ord[o].status = "pending" /\ ord[o].pay = "authorized"
    THEN /\ ord' = [ord EXCEPT ![o] =
                       [ord[o] EXCEPT
                                 !.status = "confirmed", !.pay = "paid",
                                 !.alloc = IF @ = "active" THEN "committed" ELSE @,
                                 !.saga = IF @ = "reserving" THEN "completed" ELSE @,
                                 !.step = Closed(@, "inventory_commit_requested", "completed")]]
         /\ InsertOutbox({NewEvent("order.paid", o)})
    ELSE Ignore

applyInventoryReleased(o) ==
    IF ord[o].status = "cancelled"
    THEN /\ ord' = [ord EXCEPT ![o] =
                       [ord[o] EXCEPT
                                 !.alloc = IF @ = "none" THEN @ ELSE "released",
                                 !.saga = IF @ = "compensating" THEN "failed" ELSE @,
                                 !.step = Closed(@, "inventory_release_requested", "completed")]]
         /\ NoEvent
    ELSE Ignore

\* requestInventoryRelease
ReleaseRequested(r) == [r EXCEPT !.step = Requested(@, "inventory_release_requested")]

applyFulfillmentCancelled(o) ==
    IF ord[o].status = "cancelled" /\ ord[o].step["fulfillment_cancel_requested"] = "pending"
    THEN LET r == [ord[o] EXCEPT !.step = Closed(@, "fulfillment_cancel_requested", "completed")]
             due == r.captured - r.refunded
         IN IF due > 0
            THEN /\ ord' = [ord EXCEPT ![o] = [r EXCEPT !.step = Requested(@, "refund_requested")]]
                 /\ InsertOutbox({WithAmount(NewEvent("payment.refund-requested", o), due)})
            ELSE /\ ord' = [ord EXCEPT ![o] = ReleaseRequested(r)]
                 /\ InsertOutbox({NewEvent("inventory.release-requested", o)})
    ELSE Ignore

applyFulfillmentCompleted(o) ==
    IF /\ ord[o].status = "confirmed" /\ ord[o].ful # "fulfilled"
       /\ ord[o].pay \in {"paid", "partially_refunded", "refunded"}
    THEN /\ ord' = [ord EXCEPT ![o].status = "completed", ![o].ful = "fulfilled"]
         /\ NoEvent
    ELSE Ignore

\* Mutant: a full refund is taken for a partial one.
applyRefunded_partial(o, amount) ==
    IF ord[o].status = "cancelled"
    THEN /\ ord' = [ord EXCEPT ![o].refunded = @ + amount, ![o].pay = "partially_refunded"]
         /\ NoEvent
    ELSE Ignore

applyRefunded(o, amount) ==
    IF ord[o].status = "cancelled"
    THEN LET r == [ord[o] EXCEPT !.refunded = @ + amount]
             due == r.captured - r.refunded
         IN IF due > 0
            THEN /\ ord' = [ord EXCEPT ![o] = [r EXCEPT !.pay = "partially_refunded"]]
                 /\ InsertOutbox({WithAmount(NewEvent("payment.refund-requested", o), due)})
            ELSE /\ ord' = [ord EXCEPT ![o] =
                               ReleaseRequested([r EXCEPT !.pay = "refunded",
                                                          !.step = Closed(@, "refund_requested", "completed")])]
                 /\ InsertOutbox({NewEvent("inventory.release-requested", o)})
    ELSE Ignore

OrderReply(e) ==
    LET r == ord[e.order] IN
    CASE e.type \in {"inventory.committed", "inventory.released"} /\ r.alloc = "none" -> "reject"
      [] e.type \notin {"inventory.committed", "inventory.released", "fulfillment.completed"}
         /\ r.status = "none" -> "retry"
      [] e.type = "payment.captured" /\ AwaitsPayment(e.order) /\ e.amount # Price -> "reject"
      [] e.type = "inventory.released" /\ r.status = "cancelled"
         /\ \E s \in {"refund_requested", "fulfillment_cancel_requested"} : r.step[s] = "pending" -> "reject"
      [] e.type = "refund.succeeded" /\ r.status = "cancelled"
         /\ e.amount > r.captured - r.refunded -> "reject"
      [] OTHER -> "ok"

OrderHandles(e) ==
    /\ \/ e.type = "payment.failed" /\ applyPaymentFailed(e.order)
       \/ e.type = "payment.captured" /\ applyPaymentPaid(e.order, e.amount)
       \/ e.type = "inventory.committed" /\ applyInventoryCommitted(e.order)
       \/ e.type = "inventory.released" /\ applyInventoryReleased(e.order)
       \/ e.type = "fulfillment.cancelled" /\ applyFulfillmentCancelled(e.order)
       \/ e.type = "fulfillment.completed" /\ applyFulfillmentCompleted(e.order)
       \/ e.type = "refund.succeeded" /\ applyRefunded(e.order, e.amount)
    /\ UNCHANGED <<stock, intent, shipped>>

---------------------------------------------------------------------------
(* Deliveries *)

Reply(c, e) ==
    CASE c = "order" -> OrderReply(e)
      [] c = "payment" -> PaymentReply(e)
      [] c = "inventory" -> InventoryReply(e)
      [] c = "fulfillment" -> FulfillmentReply(e)

Handles(c, e) ==
    \/ c = "order" /\ OrderHandles(e)
    \/ c = "payment" /\ PaymentHandles(e)
    \/ c = "inventory" /\ InventoryHandles(e)
    \/ c = "fulfillment" /\ FulfillmentHandles(e)

services == <<ord, stock, intent, shipped, outbox>>

\* The relay publishes a row at least once and the broker keeps it until it
\* is settled, so an event of the Outbox is delivered until then.
Waiting(c) == {e \in outbox : c \in Bindings(e.type) /\ e \notin settled[c]}

\* RetryCount, from the x-death header
Tries(c, e) == Cardinality({t \in retried : t.to = c /\ t.ev = e})

Fault == faults < MaxFaults /\ faults' = faults + 1

NoFault == UNCHANGED faults

Settle(c, e) ==
    /\ settled' = [settled EXCEPT ![c] = @ \cup {e}]
    /\ retried' = {t \in retried : t.to # c \/ t.ev # e}

Ack(c, e) == Settle(c, e) /\ UNCHANGED dead

Reject(c, e) == Settle(c, e) /\ dead' = [dead EXCEPT ![c] = @ \cup {e}]

\* Mutant: no attempt is repeated.
Retry_never(c, e) == Reject(c, e)

\* settleFailure: through the retry queue while attempts are left.
Retry(c, e) ==
    IF Tries(c, e) < MaxAttempts
    THEN /\ retried' = retried \cup {[to |-> c, ev |-> e, try |-> Tries(c, e) + 1]}
         /\ UNCHANGED <<settled, dead>>
    ELSE Reject(c, e)

\* HandleOnce skips an event whose inbox row exists.
Skip(c, e) ==
    /\ e \in inbox[c]
    /\ Ack(c, e) /\ NoFault
    /\ UNCHANGED <<services, inbox>>

Handle(c, e) ==
    /\ e \notin inbox[c] /\ Reply(c, e) = "ok"
    /\ Handles(c, e)
    /\ inbox' = [inbox EXCEPT ![c] = @ \cup {e}]
    /\ Ack(c, e) /\ NoFault

Refuse(c, e) ==
    /\ e \notin inbox[c] /\ Reply(c, e) # "ok"
    /\ IF Reply(c, e) = "retry" THEN Retry(c, e) ELSE Reject(c, e)
    /\ NoFault
    /\ UNCHANGED <<services, inbox>>

ProcessDelivery(c) ==
    \E e \in Waiting(c) : Skip(c, e) \/ Handle(c, e) \/ Refuse(c, e)

\* The service's transaction commits and the inbox row does not.
InboxLost(c, e) ==
    /\ c # "order"
    /\ e \notin inbox[c] /\ Reply(c, e) = "ok"
    /\ Handles(c, e) /\ Retry(c, e)
    /\ Fault /\ UNCHANGED inbox

\* A statement fails and everything rolls back.
DatabaseError(c, e) ==
    /\ e \notin inbox[c]
    /\ Retry(c, e) /\ Fault
    /\ UNCHANGED <<services, inbox>>

\* The relay stopped before MarkPublished, or an acknowledgement was lost.
Redeliver(c, e) ==
    /\ e \in settled[c]
    /\ settled' = [settled EXCEPT ![c] = @ \ {e}]
    /\ Fault
    /\ UNCHANGED <<services, retried, inbox, dead>>

Next ==
    \/ \E o \in Orders : Reserve(o) \/ PlaceOrder(o) \/ ReleaseCheckout(o) \/ CancelOrder(o) \/ Webhook(o)
    \/ \E c \in Consumers : ProcessDelivery(c)
    \/ \E c \in Consumers : \E e \in Waiting(c) : InboxLost(c, e) \/ DatabaseError(c, e)
    \/ \E c \in Consumers : \E e \in settled[c] : Redeliver(c, e)

Spec == Init /\ [][Next]_vars

\* The relays and the consumers keep running; clients promise nothing.
Fairness == \A c \in Consumers : WF_vars(ProcessDelivery(c))

FairSpec == Spec /\ Fairness

---------------------------------------------------------------------------
(* Properties *)

\* A location's reserved stock is what its active reservations hold, and
\* its stock on hand is the initial stock less what was committed, whatever
\* requests are repeated or meet each other (TransitionOrder).
StockBooks ==
    /\ TypeOK
    /\ \A l \in Locations :
          LET Held(state) == MapThenSumSet(LAMBDA o : res[o].held[l],
                                           {o \in Orders : res[o].state = state})
          IN /\ level[l].reserved = Held("active")
             /\ level[l].onHand = OnHand[l] - Held("committed")
             /\ level[l].reserved <= level[l].onHand

\* An order that is confirmed or completed is backed in the other services:
\* its price is captured and not refunded, its stock is committed, whatever
\* order and amount a webhook names and whenever it comes.
ConfirmedBacked ==
    \A o \in Orders : ord[o].status \in {"confirmed", "completed"} =>
        intent[o].status = "succeeded" /\ intent[o].amount = Price /\ res[o].state = "committed"

\* What is shipped was paid for and left the stock, and money is given back
\* only for cancelled orders and never more than was captured.
MoneyMatches ==
    \A o \in Orders :
        /\ o \in shipped => intent[o].status \in {"succeeded", "refunded"} /\ res[o].state = "committed"
        /\ intent[o].refunds # {} => ord[o].status = "cancelled" /\ Refunded(o) <= ord[o].captured
        /\ ord[o].refunded <= Refunded(o)

\* order has given up the result of the order's payment: it names another
\* amount, or it came before the order and was tried MaxAttempts times.
PaymentUnheard(o) ==
    \E e \in dead["order"] : e.order = o /\ e.type \in {"payment.captured", "payment.failed"}

\* Every placed order is completed or cancelled, except those whose payment was
\* captured by a webhook for another amount or so early that its result is
\* dead-lettered: order.placed is then a replay without an event, and the
\* order stays pending (CaptureOrder, applyPaymentPaid).
OrderSettles ==
    \A o \in Orders : ord[o].status = "pending" ~>
        ord[o].status \in {"completed", "cancelled"} \/ PaymentUnheard(o)

\* A failed payment releases the stock and ends the saga.
PaymentFailureCompensated ==
    \A o \in Orders : ord[o].pay = "failed" ~> res[o].state = "released" /\ ord[o].saga = "failed"

\* A requested refund is made and the order learns of it.
RefundArrives ==
    \A o \in Orders : ord[o].step["refund_requested"] = "pending" ~> ord[o].pay = "refunded"

\* Two of the ways back end, whatever deliveries fail or are repeated: a failed
\* payment releases the stock and closes the saga (applyPaymentFailed), and a
\* refund that applyFulfillmentCancelled requests is made and heard of
\* (applyRefunded).  Nothing is said of the requests of CancelOrder itself: its
\* release names a reason and is refused, and an order that is cancelled
\* between payment and shipment gets no refund.
UndoArrives == PaymentFailureCompensated /\ RefundArrives

=============================================================================
