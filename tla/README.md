# Verification of the Jiade templates

Jiade is a command line tool that unpacks three runnable demonstration
systems. The tool itself copies files; what can go wrong lives in the
templates, three distributed programs under `src/templates/`:

* `bank`: core banking, payments, risk and rewards as services around a
  durable workflow engine;
* `bank_dcn`: a bank in independent units (DCNs) with a coordinator for
  cross-unit transfers (RMB), a global name service and batches;
* `commerce`: order, inventory, payment and fulfillment services that run a
  choreographed saga over RabbitMQ with Outbox and Inbox tables.

This directory models the parts of them in which several processes, databases
and queues have to agree. TLC checks the models on small instances, and TLAPS
proves the safety results for every value of the constants; liveness is left to TLC. All three systems
use the same few mechanisms (idempotency keys, Outbox, Inbox, leases, row locks,
compensations). Most properties say that a combination of them works although
each one alone does not.

## 1. Inventory

| Part | State | Operations | Talks to | Module |
|---|---|---|---|---|
| bank: workflow engine (`internal/platform/workflow`) | workflow_instance, workflow_action, inbox, outbox | Start, Prepare, ApplyResult, Redispatch | participants by commands and results, recovery, operators | `WorkflowEngine`, `Saga` |
| bank: recovery loop | leases | ClaimRunnable, Prepare, Redispatch, ReleaseLease | engine | `WorkflowEngine` |
| bank: admin RPCs | audit rows | RetryCompensation, ResolveCompensation | engine | `WorkflowEngine` |
| bank: core banking | account_balance, journal, gl_balance, holds, held_transfer, voucher_reversal, inbox, outbox | PlaceHold, ReleaseHold, PostHeldTransfer, ReverseTransfer; deposit, withdraw, transfer, blue and red reversal | engine by commands and results, REST | `CoreBanking` |
| bank: risk | payment_authorization, inbox, outbox | AuthorizePayment, VoidAuthorization, outbox relay | engine by commands and results, customer service | `RiskAuthorization` |
| bank: payment intents | payment_intent, completion outbox, inbox | StartPayment, result consumer, reverse endpoint, relay | engine, reward | `PaymentIntents` |
| bank: reward | points_acct, inbox | EarnPoints | completion events | `PaymentIntents` |
| bank_dcn: RMB coordinator | tx_log, tx_step_log, attempts in memory | register, publish, receipt, advance, compensate, reopen, expire, recover | units by steps and receipts | `RmbTransfer` |
| bank_dcn: unit | account, journal | handleStep, localTransfer, createAccount, interest | coordinator, GNS, scheduler; balance events to ADM | `RmbTransfer`, `UnitLedger`, `NameService`, `InterestBatch` |
| bank_dcn: global name service | route_segment, account_route, Redis cache | Locate, open account, add segment | units over HTTP | `NameService` |
| bank_dcn: batch scheduler | batch_job, batch_unit_result | start or rerun the interest job of a date | GNS, units over HTTP | `InterestBatch` |
| bank_dcn: ADM mirror | event_log, global_balance | consume balance events | units by events | `UnitLedger`, `DcnServices` |
| commerce: checkout | cart, checkout_request with lease | claim, prepare, reserve, commit, compensate, wait | customer, catalog, inventory over HTTP | `Checkout` |
| commerce: order saga | sales_order, order_saga, steps, projections | CommitCheckout, CancelOrder, seven result events | payment, inventory, fulfillment by events | `OrderSaga` |
| commerce: inventory | inventory_level, reservation, terminal fence | Reserve, commit, release | order | `OrderSaga` |
| commerce: payment | payment_intent, attempts, refund | CaptureOrder (event and webhook), Refund, CancelIntent | order | `OrderSaga` |
| commerce: fulfillment | fulfillment_order and its children | FulfillOrder, CancelOrder | order, inventory | `OrderSaga` |
| commerce: messaging | inbox, queues, retry and dead-letter queues | ProcessDelivery, settleFailure | all four services | `OrderSaga` |
| commerce: Outbox relay and publisher | outbox_event with claims, an AMQP channel per process | InsertOutbox, Claim, Publish, MarkPublished, MarkFailed | broker, relays of other replicas | `OutboxRelay`, `AtLeastOnce` |
| commerce: HTTP client | one breaker per upstream, shared by goroutines | Do; Allow, Record, Abandon | the services' REST interfaces | `ResilientClient` |

What is hard in these parts, and what each must keep:

* **Workflow engine.** API callers, recovery workers of several replicas, result
  deliveries and operators work on one instance in separate transactions;
  `Prepare` computes outside any. Commands are lost, repeated, answered twice and
  answered late. A saga must run forward once, back in reverse order, skip
  nothing, and end with all effects or none.
* **Core banking.** A service transaction and the consumer's Inbox transaction
  commit one after the other; commands are repeated under new message ids; REST
  postings and reversals run beside payments. Journal, sub-ledger and general
  ledger must agree, a hold pays once, and what is booked is announced.
* **Risk.** The lookup by idempotency key takes no lock and a remote call follows it;
  a repeated command may be evaluated against other data and gets no second answer. A
  payment has one decision, the saga acts on that one, and it is not lost.
* **Payment intents.** The consumer reads and writes an intent in separate
  statements while another replica does the same; the reverse endpoint writes
  without looking. What a client reads must be backed by the saga, and a
  completion must not be lost by a crash.
* **RMB.** Receipts come after the timeout; compensations are refused; three
  goroutines of the coordinator work on one transaction; publication follows
  the commit. A compensation must not invent money, and a committed transaction
  must stay committed.
* **Name service.** Openings read the highest number, insert and call the unit in
  separate steps; a call that failed may have created the account, and the route is
  deleted nevertheless. Whoever was told 201 must keep the account.
* **Interest.** Two requests may both start or rerun the job of a date; a rerun
  overlaps calls that units still execute; accounts are opened and moved meanwhile.
  Interest is posted once, and a job that is called SUCCEEDED is complete.
* **ADM.** Events are published after the commit, may be lost, repeated and
  reordered. Apart from what was lost or is on the way the mirror is exact.
* **Outbox.** Relays of several replicas compete by claims that expire; returns and
  confirmations come through two channels; processes die anywhere. No event is dropped.
* **HTTP client.** Attempts end after the breaker has changed its state, and error paths
  leave Do between Allow and Record. The half-open probe must not leak.
* **Checkout.** Keys compete for a cart; owners of a key replace each other
  when a lease runs out; a remote reservation precedes the local commit, whose
  outcome may be unknown. One cart becomes one order and the order has its stock.
* **Order saga.** Four databases, unordered and repeated events, a customer who
  cancels at any moment. What is confirmed is paid and committed, refunds match
  captures, stock adds up, and every order is settled.

The hazards in `PROJECT.json` list these at their lines.

## 2. Modules

`Saga` is the abstract promise of a workflow: effects one after the other, taken
back last first, all or none in the end, possibly stuck until an operator acts.
`WorkflowEngine` implements it (`ImplementsSaga`, with the refinement mapping
`phaseOf`/`depthOf` from instance status and current action). `PaymentIntents`
uses `Saga` in place of the engine. `OrderSaga` takes the checkout as the two
actions `PlaceOrder` and `ReleaseCheckout`; that an order is placed only with an
active reservation that nobody releases is `OneOrder` of `Checkout`. The channel
between Outbox and queue that `OrderSaga` assumes is `AtLeastOnce`, which `OutboxRelay`
implements. `DcnServices` composes `NameService` and `InterestBatch` over the state of the
units and of ADM (`UnitLedger`), which both of them change.

### WorkflowEngine

One Store transaction is one step, because `WithInstance` holds the row lock from
load to commit. A goroutine in `Prepare` or in the recovery loop is a record in
`proc` with a program counter, so that the header read, the computation of the
context and the dispatch interleave with everything else. Time is two flags: a
deadline that has passed (`due`) and a lease that has not expired (`live`).
Payloads are tags that say which context or output they carry. `outbox` is the
history of all commands; `queue` is what the broker still holds. `OwnerName` gives
each worker the owner it is configured with; in the run it is payment-1 for all of them, the
default of cmd/payment/main.go:126, which no deployment of the repository changes although
compose.yaml and the k8s manifests run two replicas. `holder` and `overrun` are history
variables that no action reads: whose claim set the lease, and the instances whose lease ran
out while a worker had them in hand.

### CoreBanking

A service transaction is one step; the consumer's transaction (Inbox row, result
event) is a second. `cons` holds what a replica has in hand, and a crash between
the two transactions is a step. A voucher has one debit and one credit entry. There
is one accounting date. Account status is read outside the transaction in the code,
so whether a posting finds the account active is a free choice.

### RiskAuthorization

A replica looks the authorization up, evaluates the policy against whatever the
customer service and the blacklist say at that moment, and commits Inbox row,
authorization and event in one transaction; lookup and commit are separate steps. The
unique constraints on idempotency key and authorization id are the guard `Insertable`.
A relay reads a batch, publishes a row and marks it. `stage` is the AuthorizeRisk action
of the workflow, which accepts result events only where it waits for them.

### PaymentIntents

`handleResult` is ApplyResult, the read of the instance, the read of the intent, the
write, and the Inbox commit, each a step of a replica. The reverse endpoint is four
steps that may end between any two. The relay publishes and then marks. Reward adds
points on the pool and commits its Inbox row after that; for a payer outside `Members`, who has
no points_acct, the update changes no row.

### RmbTransfer

Every SQL statement or transaction of the coordinator is a step of the request
handler, of the receipt consumer (`rc`) or of the timeout loop (`ex`). A unit executes
a step in one transaction under a journal key that ignores the step number, so a
repeated movement has no effect. `late` is a history variable: transactions that missed a DONE
for a step called failed. There are four ways to miss one (`MissedDone`, `recover`): the step is called failed
between the first read of `handleReceipt` and its update; the transaction becomes COMPENSATED between the second
read and the end, so that it is not reopened; the DONE comes when compensations exist already (the
case of `dcn_late_done`); the coordinator dies after the update of the step and before the
reopening. A timeout alone puts nothing into `late`.

### UnitLedger, NameService, InterestBatch, DcnServices

`UnitLedger` is what a unit and ADM store: the account behind a number, its balance, the
interest posted under the key of the date, the balance events on their way, the log of
events that ADM applied and the mirror. `lost` is a history variable: what each account's
lost events amount to. `NameService` has one step per statement of an opening, and the
call to the unit is a message of its own (`post`) that may be executed after the name
service gave up. `InterestBatch` has one step per statement of the scheduler; a unit lists
its accounts and posts them one transaction after the other, on its own time. There is one
business date. `RoundBank` is the rounding of the code; whether interest is due depends on it
(`InterestFor(balance) > 0`). `budget` holds how many requests, runs, transfers, cache
changes and faults are left.

### OutboxRelay, AtLeastOnce

A relay claims a batch in one transaction and then sends, waits, and marks one event after
the other; the broker's return and confirmation are separate steps, and the publisher's
select takes either. `ClaimExpires` is the age of a claim nobody works on any more,
`ClaimOutlived` a relay slower than ClaimTTL. A retired publisher and a crash are the same
step, `RelayEnds`. `AtLeastOnce` knows three sets: committed, delivered and settled events;
the refinement mapping reads them off the rows and the queue.

### ResilientClient

A goroutine in `Do` is a record with a program counter; `Allow`, `Record` and `Abandon` are
atomic because the breaker has a mutex. Time is one flag, `cooled`. `role` is a history
variable that says as what an attempt was allowed, and several attempts may be under way as
probes. `calm` says that the upstream has
recovered and that contexts no longer end, from some moment on.

### Checkout and OrderSaga

A request of `Checkout` is a process with one step per transaction or remote call.
The request hash is the cart version it was made for. The reservation is abstracted
to none, active on one location, split over several, or released. `expired` is the clock against
the cart's expires_at: an expired cart is neither changed nor checked out, but a checkout that
has read it before goes on.

`OrderSaga` has one action per delivery outcome: `Skip` (Inbox row exists),
`Handle`, `Refuse` (retry or dead letter), and the faults `InboxLost` (the service
committed, the Inbox row did not), `DatabaseError` and `Redeliver`. Outbox relay and
broker together are a channel that delivers every row at least once, in any order:
`Waiting`. One SKU is sold from locations in order of priority. `Webhook` takes any order, placed
or not, and any amount of `Amounts[o]`, because the endpoint compares neither with an order.

## 3. Runs

All runs use two TLC workers. Deadlock is checked in `commerce_client`, where services
call for ever. Elsewhere workflows, transfers, orders, checkouts and events end, and
bounded faults and requests run out, so the system may stop.

| Run | Instance | Shows |
|---|---|---|
| `engine_saga` | one instance, three actions (the length of payment-transfer), two result events per command, one operator retry, one fault | `SagaShape`, `ReverseOrder`, `ResultAppliedOnce`, and the refinement `ImplementsSaga` |
| `engine_recovery` | two workers with the default owner name, one API caller, two contexts, two faults, one action | `OneForwardCommand`, `TerminalStable`, `LeaseReleasedByHolder`; progress `ForwardProgress` of preparing and waiting instances |
| `core_books` | two payments that compete for one account, two replicas, all commands and REST operations, one crash | `BooksBalance`, `CapturedOnce`, `HoldsCovered`; progress `HoldAnnounced` |
| `risk_decisions` | a payment and a smoke test, three command messages, two replicas, one relay, two answers of the customer service, one fault | `OneDecision`, `SagaBacked`; progress `SagaAnswered` |
| `intents_status` | one payment of two steps, one reversal, one reverse request, two replicas, one crash, one failed sync | `IntentTruthful` (statuses are backed by the sagas, and a succeeded payment was announced); progress `OutcomeReported` (completion, reversal and points) |
| `dcn_transfer` | one transfer of two steps with an account still to be opened, local transfers that spend the money, one fault, any timeout | `NothingInvented`, `CommittedStands`, `CompensatedInTime`, `FinalStays`; progress `Settles` |
| `dcn_late_done` | violation | a late DONE is answered by compensating the wrong step |
| `dcn_services` | a unit with two accounts, a second unit that may get its segment, three openings, two runs, a transfer, up to two faults | `OpenedStays`, `OpenedOwned`, `SucceededComplete`, `TotalsBounded`, `MirrorExact`; progress `JobSettles` |
| `commerce_saga` | two orders, two locations, stock for some but not all, webhooks of the right and of another amount for one of them, two attempts, one fault | `StockBooks`, `ConfirmedBacked`, `MoneyMatches`; progress `OrderSettles` (except where the payment result was dead-lettered), `UndoArrives` (failed payments are compensated, requested refunds arrive) |
| `commerce_checkout` | two keys, two requests, one change of the cart, its expiry at any moment, one fault | `OneOrder`; `KeyDecided` (decisions stay, and retries reach one unless the cart was changed, sold or expired) |
| `commerce_outbox` | two relays, two events, batches of two, three faults | `PublishedRouted`, `OncePerClaim`, and the refinement `ImplementsAtLeastOnce` with its progress |
| `commerce_client` | three goroutines, a threshold of two, two attempts | `ProbeHeld` (no leaked probe); progress `Recovers` |

Why the bounds suffice. Three actions are the shortest saga in which the walk back has
a first, a middle and a last action. Two workers, replicas or requests are enough
for every race in the code, which is between one holder and one intruder; a third
would repeat the intruder. In `commerce_client` it takes three: the probe, a late outcome that
is taken for its own, and a second probe beside the first. One webhook that errs, for one of the two
orders, is enough: orders share stock and not money. One fault at any place covers every cut between two
transactions, and each model also takes timeouts, redeliveries and repeated commands
freely, within its own bounds. Two orders of sizes 1 and 2 over a stock of 1 + 1
give competition, an order that fits one location and an order that would have to be
split. `MaxFaults <= MaxAttempts` in `commerce_saga`, so transient faults alone do not
spend the retry budget; what happens when it is spent is the dead letter, which other
refusals reach.

`dcn_services` gives each behaviour one of five budgets (openings, cache changes, runs,
transfers, faults): (3,0,0,0,0) three openings that race, (2,1,0,0,2) two openings that fail or
lose their answers while routes are cached and expire, (0,0,2,0,1) a run and its rerun with a
unit that fails, a lost or repeated event or a crash, (0,0,1,1,1) a run with a transfer, and
(1,0,1,0,0) an account that is opened during a run. All of them together in one behaviour add
no interaction: openings touch a run only through the accounts that exist and transfers only
through balances. A threshold of two and two attempts are the least that tell a first failure
from a later one. Two events are enough for a batch that is left half done.

Each module has a type invariant. It is a conjunct of one of the module's invariants
(`BooksBalance`, `IntentTruthful`, `CompensatedInTime`, `MirrorExact`, `StockBooks`, `OneOrder`,
`PublishedRouted`, `ProbeHeld`); those of `WorkflowEngine` and `RiskAuthorization` are proved and
not run.

### Fairness

* Engine: goroutines of requests and the ticker of `Recovery.Run` keep running,
  deadlines and leases expire with the clock, the broker delivers what it holds and
  participants answer. Nothing is assumed of operators, callers and faults.
* Core banking, risk, payment, reward: a replica that has a delivery goes on, and a relay
  that runs on a ticker relays. Preparation of a new instance is assumed because
  `PreparingResolved` shows it for the engine.
* RMB: the receipt consumer, the timeout ticker and the units keep running. A crash is
  followed by `recover`.
* Name service and batch: a handler and a unit go on with what they have begun. That anybody
  asks for an account, a run or a rerun is not assumed.
* Outbox: relays poll and go on (`RunRelay` has a ticker and processes are restarted), the
  broker answers, an abandoned claim ages, and consumers bind their queues some day. A relay
  is slower than ClaimTTL finitely often; see the observations.
* HTTP client: calls go on, every attempt ends (it has a time limit), time passes, and the
  services keep calling.
* Order saga: each service keeps consuming; clients promise nothing.
* Checkout: a request goes on, time passes, and a caller tries again until it is
  answered, which is what the code's comment invites it to do (strong fairness, because
  another request can occupy the two slots of the model in between).

### What the violating run shows

`dcn_late_done`: `advance` counts missing compensations and takes the last done steps,
compensated or not (coordinator.go:341); the comment at 253-255 says that totals stay
unchanged.

## 4. Proofs

All theorems hold for every value of the constants under the named assumptions of the
modules. Where they need a hypothesis beyond those, the theorem states it. Every invariant of
the runs, every action property and the safety part of both refinements is the conclusion of a
theorem. Three proof modules extend two components each; the definitions of `Checkout`,
`ResilientClient` and `RiskAuthorization` that every component has (specification, types,
variables) therefore carry a prefix.

**`WorkflowEngineProofs`**, from `EngineAssumption`, for any set of instances, number of
actions, workers, owners and faults.

* `EngineStructure`: `Spec => [](TypeOK /\ SagaShape)`. `SagaShape` says where each action
  row of an instance may be: everything below the current action has succeeded, nothing above
  it was dispatched when the saga runs forward, and nothing above it is left to undo when it
  runs back. It is what makes `lastSucceededBefore` find the action directly below, and it is
  inductive together with `TypeOK`: an action that is accepted concerns the current row, and
  the two changes of direction keep the rows below as they are.
* `SagaCorrect`: `ResultAppliedOnce`, `OneForwardCommand` and `ReverseOrder`. None is
  inductive, because none relates the history of commands and results to the rows. `SagaInv`
  adds what a row owes to its commands (`RowInv`: the command it waits for is its latest, and
  its output is that of the forward command), what each command ever sent says of its row
  (`CommandInv`) and that no applied result answers the command the current action still waits
  for (`ResultInv`). A layer of lemmas first says what each helper of the engine (dispatch,
  acceptance, the walk of `CompensateBelow`) does to rows, commands and results, so that the
  step of an action is a case of one of them.
* `TerminalInstances`: `TerminalStable`, from the same structure.
* `EngineImplementsSaga`: the refinement `ImplementsSaga`. Initial states map to initial states,
  and each step does, undoes, sticks or ends, or leaves `phaseOf` and `depthOf` alone.
  `ImplementsSaga` is the safety part of `Saga`.
* `LeaseSafety`: `Spec => LeaseReleasedByHolder`, whatever names the workers have. A worker whose
  instance is not in `overrun` holds its lease (`LeaseHeld`), and the owner in a row is the name
  of the worker whose claim set it (`LeaseNamed`), so whoever clears another's lease has its
  name and has seen its own run out.

**`RmbTransferProofs`**, theorems `NothingInventedTheorem`, `CommittedStandsTheorem` and
`FinalStaysTheorem`, for any set of transactions with any number of steps, and any
sequence of timeouts, crashes, lost messages and redeliveries, from `PlanAssumption`
(the steps of a transaction are on different accounts, as `submitRMB` makes them). None
of the three invariants is inductive. `Books` strengthens them with what the rest of
the system knows: every log row that is done, and every compensation row, is of a
movement in a journal (`LogTrue`); so is every message that compensates
(`MessagesTrue`) and every receipt that says DONE, including the one the consumer has
in hand (`ReceiptsTrue`); messages and receipts are about rows of the log (`Logged`);
only logged compensations were executed (`ReversedTrue`); registered transactions have
all rows (`Registered`); committed ones are done and have no compensation (`Committed`).
The frame lemmas treat steps that only move messages or only relabel rows; the remaining
lemmas are one per action. `FinalStays` then follows because a step that leaves
COMMITTED or FAILED would have to go through `Reopenable` or `Outcome`, which start from
other statuses.

`TransferTypes` (any number of steps) needs two facts that are no types: the row numbers of a
transaction are unique and bounded by the number of compensations (`Numbered`; `advance` numbers
from the count of rows), and a compensation is tried at most `MaxAttempts` times (`Rest`).
`CompensatedTheorem` is `NumSteps <= 2 => (Spec => []CompensatedInTime)`. The hypothesis is that of
the comment at coordinator.go:330-332 and all that `submitRMB` makes; with three steps TLC refutes
the property, because `advance` may compensate the first step and end while the last is still
open. `Undone` says that what the log calls compensated was reversed, and `InTime` that
a transaction with compensations has all its original steps decided, that a movement the log does
not know of has its message or its receipt on the way, and that the status the consumer has read
is still the one in the log or was changed by the timeout since, unless the transaction is in
`late`. Between the update of a late DONE and the reopening a transaction is COMPENSATED and not
decided; `InTime` excepts this window (`Reopening`), and `ReopeningEnds` shows that it ends in
PROCESSING or in `late`.

**`BankServicesProofs` on `RiskAuthorization`**, theorems `OneDecisionTheorem`, `SagaBackedTheorem` and
`RiskTypes`, for any set of payments, replicas, relays and faults, from
`RiskAssumption`. The inductive invariant `Books` adds to the types what ties the places
together in which a decision is recorded: a replica handles a message that was sent
(`HandlingTrue`), and the status it has read has since changed at most from authorized to
voided (`SeenTrue`); events say what is stored (`EventsTrue`, `VoidTold`), and a relay has
only rows of the outbox in hand (`RelayTrue`); only a saga that is compensating asks to
void, and only then is an authorization voided (`VoidAsked`), so a saga that goes on is
still authorized; a smoke test stores nothing (`SmokeOpen`). `SagaBacked` alone is not
inductive because it does not say that an event on its way agrees with the table, nor
`OneDecision`, because it admits an announced authorization without a stored row, which
could then be decided again. There is one lemma per action.

**`PlatformProofs` on `OutboxRelay`**, theorems `PublishedRoutedTheorem`, `OncePerClaimTheorem` and
`ChannelSafety`, for any number of events, relays and faults and any batch size, from
`RelayAssumption`. `Books` says what a relay has in hand (`InHand`: past the sending it works on
an event of its batch, and otherwise nothing is on its channel), what is on the wire
(`WireTrue`: a return precedes its confirmation, so a confirmation that no return
contradicts is of an event in a queue), that claimed rows exist and only claims that are too old
lapse (`ClaimTrue`), and who may publish (`Exclusive`: an event none of whose claims lapsed is in
the batch of its claimant only, and in no queue before that relay's message reaches the
broker). `PublishedRouted` needs `WireTrue`, because the row is marked two steps after the event
is in the queue; `OncePerClaim` needs `Exclusive`. `ChannelSafety` is the safety part of the
refinement: each step commits, delivers or settles one event, or stutters.

**`PlatformProofs` on `ResilientClient`**, theorem `ProbeHeldTheorem` (`ProbeHeld`), for any set of
goroutines, any threshold and any number of attempts, from `ClientAssumption`. `ProbeBooks` adds to it
that a call which pauses has an attempt left (`Counters`). All ends of an attempt are one lemma
(`Ended`): whatever the breaker is told while it is half-open, it knows of no probe afterwards, so
that the last admitted one is under way as long as `probing` holds.

**`OrderProofs` on `Checkout`**, theorems `CheckoutSellsOnce` (`OneOrder`) and `DecisionsStand`
(`DecidedStays`), for any number of keys, requests, cart versions and faults, from
`CheckoutAssumption`. `CheckoutInv` ties the cart, the row of a key and its reservation together (`KeyOK`,
`Sold`) and says what a request still relies on between two statements (`ReqOK`): who is about to
compensate has seen a cart that no request of its version can commit any more, and who is about
to release has closed its row, so that a reservation is never released under a key that may yet
commit. `Moves` states once what any step may do to cart, rows and reservations; a request
that did not move keeps `ReqOK` because of it, and each action has to be shown to be such a move.

**`OrderProofs` on `OrderSaga`**, theorems `SagaInvariant`, `StockBooksKept` (`StockBooks`),
`OrdersBacked` (`ConfirmedBacked`) and `MoneyKept` (`MoneyMatches`), for any set of orders and
locations, any stock and quantities, any number of attempts and faults, from `OrderAssumption`.
The three invariants compare rows of four databases that no transaction spans, so none is
inductive: what a service does next depends on an event that another one wrote some time ago and
that may be delivered late, again, or after a later one. `SagaInv` therefore says of every event
in the Outbox, handled or not, that it is still true of the services: a commit was fenced
before it is reported, a capture is in the intent, an order that is reported paid has its stock
(`EventsTrue`), and of an order at most one refund was requested, of all that was captured,
after the cancellation (`RefundShape`). `StockShape` ties reservation and terminal fence together,
so that a request that comes again finds the reservation closed, and `OrderShape` the statuses of
an order and of its saga, among them that the saga asks for a refund once. The stock of a
location is an equation between its level and two sums over reservations (`LevelBooks`); reserving,
committing and releasing move the order from one sum to the other and the level with it, and the
sums exist because only finitely many orders have reserved. The lemmas follow the handlers, one per
event type; what the broker does to queues, Inbox and dead letters is separate (`Broker`).

**`PaymentIntentsProofs`**, theorem `IntentsTruthful` (`IntentTruthful`), for any number of
payments, reversals, replicas, requests and faults, from `IntentAssumption`. The status in an
intent is written by a replica that has read the saga and the intent in earlier steps, and by a reverse
request that has checked the payment three steps before; the invariant says nothing of what they
have in hand. `IntentInv` adds that a final status a replica has read is still the saga's
(`HandlersSee`), that the payment a request has checked stays succeeded and announced
(`RequestsSee`), that only such payments are reversed (`OrigBacked`) and only succeeded ones
announced (`CompletionsBacked`). `Grows` states once what every step keeps (final phases,
announcements, links from a reversal to its payment, published and applied events); a replica or
request that did not move still sees what it saw because of it.

**`CoreBankingProofs`**, theorems `HoldsPayOnce` (`CapturedOnce`), `BooksBalanceTheorem` and
`HoldsCoveredTheorem`, for any number of accounts, payments, replicas and faults, from
`CoreAssumption`. `CoreInv` says that voucher numbers have no gaps (`JournalOK`: a new number is
unused), that hold, held_transfer, voucher, reversal and result events of a payment agree
(`PaymentOK`), and that a replica reports only failures in its own transaction (`ConsumerOK`).
The two statements about sums are proved over `LedgerMove`: every step of the system posts a
voucher, takes one back, captures, places or releases a hold, or leaves the books alone, and each
of these changes both sides of the equations by the same amount. `HoldsCovered` also needs that
amounts are positive (`Positive`).

**`BankServicesProofs` on `DcnServices`**, from `SegmentAssumption`, `OpeningAssumption` and `ServicesAssumption`, for
any number of units, accounts, customers, requests, runs and faults.

* `OpenedStaysTheorem` and `OpenedOwnedTheorem`. `NameInv` says what a request may rely on
  between its statements (`CallOK`), that two requests which hold a route share neither number
  nor request id (`Apart`), and that an account was there from the start or was created by the
  call of some request (`Origin`). `OpenedOwned` needs that a request whose call may have been
  executed when it was given up stays recognisable as such (`Abandoned`).
* `SucceededCompleteTheorem`. `BatchInv` says that a run which waits has asked every unit
  with interest due, that a unit which answered has paid all of them (`RunOK`), and that a unit at
  work has every unpaid account with interest due still on its list (`WorkOK`). It needs that
  interest does not fall when a balance grows (`InterestGrows`), which is proved of the
  rounding half to even. A transfer takes an account out of `due` when its balance no longer earns anything.
* `TotalsBoundedTheorem`. `TotalsInv` says of every call that it counts no more than its unit
  has posted (`PartOK`), of every run that its total is the sum of what the units that answered
  counted (`CountOK`), and of a job that was started once that nobody else posts
  (`FirstRun`), so that all counts are exact. `SumByUnit` splits the interest by unit.
* `MirrorExactTheorem`. `MirrorInv` adds to the equation that the key of a new event is unused
  (`KeyOK`: an account is created once, interest is posted once, a transfer has a new number).

**`SumLemmas`** is shared by `CoreBankingProofs`, `BankServicesProofs` and `OrderProofs`. Their
sums, `SumFunctionOnSet`, are folds that choose their next element. That
they do not depend on the order, and grow by what is added, is proved by taking a smallest
counterexample among the subsets (`LeastSubset`, from the well-founded order of the naturals and
the cardinality of finite sets); the library's induction theorems, which take an operator as a
parameter, are not used.

Only model-checked: the liveness properties (fairness and ENABLED are beyond TLAPS 1.4.5), with
them the fairness part of `ImplementsAtLeastOnce` and the part of `KeyDecided` that speaks of
retries. No module declares a RECURSIVE operator, so that
all of them remain open to proof.

## 5. Observations

Behaviour that the models reach, or that reading the code for them showed, and that no
run is devoted to.

Bank:
* `ReverseTransfer` looks only at voucher_reversal (held_transfer.go:328), so a voucher that
  was corrected over REST is corrected again by a payment reversal; see txn_service.go:169.
* Two replicas can emit one completion twice: `freshSucceeded` compares with an unprotected
  earlier read (payment/consumer.go:678), and the comment at 674 says exactly once.
* No service of the bank sets `RetryPolicy.RetryQueue`, so `settleDelivery` counts
  attempts for `<consumer>.retry` (rabbitmq.go:378-381), while the queues are named
  `risk.commands.retry`, `core-banking.commands.retry`, `payment-workflow.retry` and
  `reward.payment-events.retry`. The count is always 0: a message that keeps failing is
  retried without end, and only one that cannot be decoded is dead-lettered. The bank's
  README (line 273) says that exhausted retries end in the `.dlq`.
* A compensation command that is lost is not sent again: recovery claims the instance on
  every sweep, but `Redispatch` returns unless it is running (engine.go:829); the
  comment at recovery.go:38-41 counts compensating actions among those it resumes.
* A repeated authorize or void command under a new message id gets no event; the saga
  depends on the first one, which `SagaAnswered` shows to arrive.
* Withdrawals compare available_balance, which holds never change (txn_service.go:133),
  so reserved money can be withdrawn; the design document says available_balance is
  ledger_balance minus active holds. `HoldsCovered` is therefore stated for accounts that
  only payments debit.
* A reverse-transfer command handled again after a crash before the Inbox commit is
  answered with a failure after its success (corebanking/consumer.go:319; the package
  comment says no second event).
* A payment whose preparation is rejected stays pending: no result event exists to
  update the intent (payment/consumer.go:596). A failed sync of the last result is logged
  and loses the completion. A failed reversal leaves the intent reversal_pending. A
  slow replica can leave a succeeded payment as running; compensating is shown as pending.
* unknown_outcome is never dispatched again, which the bank's README (line 172) expects;
  ExecuteMaxAttempts is not used; the relays work without the claim tokens the README names.
* The reversal of a reversal is allowed over REST; a reversal on a later date starts a
  balance row at the delta (EnsureBalanceRow is not called); HasReversal looks at the first of the
  voucher's rows, whose order is not determined; gl_balance subjects follow map order.
* A hold key does not remember a rejection, so a repeated place-hold may succeed after the
  saga gave up. The reverse endpoint ignores its Idempotency-Key.
* EarnPoints is not idempotent, and does nothing for a customer without points_acct.
* Recovery's Owner defaults to one name for all replicas (cmd/payment/main.go:126), and no
  deployment sets INSTANCE_ID, while recovery.go:53-54 asks for distinct owners. A worker that is
  slower than its lease then clears the lease of the one that has taken over, and a third may claim the
  instance beside them. `LeaseReleasedByHolder` confines this to slow workers; `OneForwardCommand`
  and `ForwardProgress` hold nevertheless, because the row lock and the status check of a transaction
  decide, not the lease.

bank_dcn:
* Two stale reads lose a DONE receipt: the step's status (coordinator.go:271) and the
  transaction's status (262) may change before the conditional updates. A coordinator that dies
  between the update of the step and `reopenCompensation` (257-265) leaves the transaction
  COMPENSATED with a step done: the receipt comes again and finds the step DONE. `late` excepts
  these transactions, and those of `dcn_late_done`, from `CompensatedInTime`.
* A late DONE of a compensation after FAILED is not reopened. The retry counter is in
  memory. One coordinator process is assumed. ARCHITECTURE.md:166 says the timeout loop
  skips compensating transactions; it republishes them.

* When a unit created an account but its answer was lost, GNS deletes the route and gives the
  number out again; the next customer is told 201 and has the first one's account, because the
  unit answers "exists" (gns/server.go:143). `OpenedOwned` excepts exactly these numbers.
* A repeated requestId is answered 200 with the number as soon as the route row exists, although
  the request that inserted it may yet roll it back, or has died and left no account.
* A full segment ends an opening although another one has room. handleAddRoute does not look
  for overlapping segments.
* A rerun counts only the interest it posts itself and overwrites the result rows of the units
  (scheduler.go:162), so the total of a rerun job is less than what was posted;
  bank_dcn's ARCHITECTURE.md says that the interest of units that had succeeded is still
  counted (143) and that the balances grow by the total (222). `TotalsBounded` is therefore an
  upper bound.
* A first run that is slower than ten minutes can close the job after its rerun and turn
  SUCCEEDED into FAILED.
* A balance event that was not published is never sent again, and reconciliation compares totals
  and repairs nothing.

Commerce:
* `CancelOrder` adds a reason to the release request (order/store.go:1039), and inventory's
  strict decoder refuses it: the request of a cancelled order is dead-lettered. The comment at
  inventory/consumer.go:87-90 says the shapes are the same.
* The webhook endpoint takes order and amount as they come (payment/http.go:69-83; smoke.sh:216
  posts one for an order that does not exist). A capture of another amount is dead-lettered by order
  (store.go:1231-1235), and so is one that comes before the order and is tried too often; order.placed
  is then a replay that emits nothing, and the order stays pending for ever. `OrderSettles` excepts these
  orders (`PaymentUnheard`).
* A checkout whose owner died is not resumed after its cart has expired (service.go:864-865): the
  key stays claimed and its reservation active. `RetriesDecide` excepts it.
* A relay that is slower than ClaimTTL publishes an event beside the new claimant, while commerce's
  ARCHITECTURE.md:106-108 says that only the claimant publishes; two such relays can take a row
  from each other for ever.
* An outcome of an attempt from before the breaker opened is taken for the probe's
  (breaker.go:90), so a second probe may be sent while the first is under way; the comments at
  21-22 and 54-55 speak of the sole probe. `ProbeHeld` does not bound the number of probes.
* Attempts that run out of time are abandoned, not recorded, so an upstream that only
  hangs never opens the breaker.
* After a failed commit, the read-after-error answers 200 with an empty order
  (order/service.go:531-537); the legacy path looks at OrderID. `OneOrder` is
  about answers that name an order.
* A checkout that died between reservation and commit keeps its stock when the cart is
  then changed or sold under another key; nothing sweeps compensation_needed, and no
  process expires reservations.
* A reservation split over two locations is refused by checkout and stays reserved,
  although fulfillment is written for several locations.
* A stale owner's hard failure overwrites the progress of the owner after it.
* inventory.reserved.v1 is bound to no queue; every dead-letter queue is bound with `#`.
* A release request after a commit meets the terminal fence, is retried and
  dead-lettered: the saga of a refunded order stays compensating.
* An order cancelled after capture and before shipment is not refunded: fulfillment has
  nothing to cancel and says nothing, and order.paid still ships it. A capture that arrives
  after the cancellation is ignored and never refunded.
* fulfillment.cancelled.v1 is emitted for both cancel events; ErrNoReservations is retried
  although commented as final; payment's SaveCancel guards only against cancelled.
* ARCHITECTURE.md of commerce names events that do not exist.

## 6. Not modelled

Reads, presentation, transports, migrations, seeds and fixtures (no protocol); generated
protobuf code; the command line tool (sequential I/O); the legacy checkout of stores
without checkout rows; inventory expiry; account life cycle; cross-day balances; money
arithmetic of carts and coupons. `PROJECT.json` lists every part with its reason.

## 7. Plan

Done, in the order of importance: engine, core banking, intents, RMB, order saga, checkout,
risk; then name service, interest and ADM, the Outbox of commerce and its HTTP client; the
theorems for the invariants of all of them. Next: the composition of `WorkflowEngine` with
`CoreBanking` and `RiskAuthorization` through the definitions of payment-transfer and payment-reversal.
