------------------------- MODULE RiskAuthorization -------------------------
(***************************************************************************)
(* The risk service of the bank template (internal/risk): payment          *)
(* authorizations, the command consumer that makes and voids them, and the *)
(* relay of its result events; and on the other side of the broker the     *)
(* AuthorizeRisk action of the payment-transfer workflow                   *)
(* (workflows/risk_authorize.go), which asks and waits for the answer.     *)
(*                                                                         *)
(* Inbox row, authorization and result event are committed together.  The  *)
(* lookup by idempotency key takes no lock and a remote customer lookup    *)
(* follows it, so reading and committing are two steps of a replica.  A    *)
(* relay reads a batch, publishes a row and marks it: three steps.         *)
(*                                                                         *)
(* What GetCustomer and the blacklist say may differ from one evaluation   *)
(* to the next.  Identifiers, digests and timestamps are left out: the     *)
(* authorization id and both idempotency keys are functions of the         *)
(* workflow.                                                               *)
(***************************************************************************)
EXTENDS Integers, FiniteSets

CONSTANTS
    Workflows,     \* payments
    Amount,        \* the amount of each, in cents
    SmokeRejected, \* payments under the smoke-reject prefix, when enabled
    Consumers,     \* replicas of the risk service
    Relays,        \* their outbox relays
    Contexts,      \* what the customer service and the blacklist may say
    MaxCommands,   \* bound: command messages sent
    MaxFaults,     \* bound: failures, crashes and duplicate deliveries
    NoMessage

ASSUME RiskAssumption ==
    /\ Amount \in [Workflows -> Int]
    /\ SmokeRejected \subseteq Workflows
    /\ Contexts \subseteq [kyc : {"passed", "verified", "expired"}, blacklisted : BOOLEAN,
                            highRisk : BOOLEAN]
    /\ MaxCommands \in Nat /\ MaxFaults \in Nat

VARIABLES
    stage,      \* where the AuthorizeRisk action of a payment is
    auth,       \* payment_authorization
    sent,       \* command messages ever published
    queue,      \* command messages to deliver, in risk.commands or its retry queue
    inbox,      \* inbox_message of the risk service
    outbox,     \* outbox_message
    dispatched, \* rows with dispatched_at
    cons,       \* what each replica is handling
    relay,      \* what each relay is publishing
    results,    \* events to deliver to the payment service
    faults      \* faults so far

saga == <<stage, sent>>
riskVars == <<stage, auth, sent, queue, inbox, outbox, dispatched, cons, relay, results, faults>>

---------------------------------------------------------------------------
(* Types *)

Rules == {"KYC-INACTIVE", "BLACKLIST", "AMOUNT-NON-POSITIVE", "HIGH-RISK-TAG"}

Stages == {"idle", "waiting", "authorized", "rejected", "voiding", "voided"}

\* pending is never stored.
AuthStatus == {"none", "authorized", "rejected", "voided"}

Authorization == [status : AuthStatus, rules : SUBSET Rules]

\* n stands for the MessageID: a re-dispatched command is a new message.
Message == [kind : {"authorize", "void", "other"}, wf : Workflows, n : Nat]

Event == [type : {"authorized", "rejected", "voided", "command_rejected"}, cmd : Message,
          rules : SUBSET (Rules \cup {"SMOKE-INJECTED"})]

\* seen is the status the handler has read.
ConsumerState == [stage : {"idle", "handle", "apply"}, msg : Message \cup {NoMessage},
                  seen : AuthStatus]

RelayState == [batch : SUBSET Event, pub : Event \cup {NoMessage}]

RiskTypeOK ==
    /\ stage \in [Workflows -> Stages]
    /\ auth \in [Workflows -> Authorization]
    /\ sent \subseteq Message
    /\ queue \subseteq sent
    /\ inbox \subseteq sent
    /\ outbox \subseteq Event
    /\ dispatched \subseteq outbox
    /\ cons \in [Consumers -> ConsumerState]
    /\ relay \in [Relays -> RelayState]
    /\ results \subseteq outbox
    /\ faults \in Nat

Idle == [stage |-> "idle", msg |-> NoMessage, seen |-> "none"]

Drained == [batch |-> {}, pub |-> NoMessage]

RiskInit ==
    /\ stage = [w \in Workflows |-> "idle"]
    /\ auth = [w \in Workflows |-> [status |-> "none", rules |-> {}]]
    /\ sent = {} /\ queue = {} /\ inbox = {}
    /\ outbox = {} /\ dispatched = {} /\ results = {}
    /\ cons = [c \in Consumers |-> Idle]
    /\ relay = [r \in Relays |-> Drained]
    /\ faults = 0

---------------------------------------------------------------------------
(* The risk policy *)

kycActive(status) == status \in {"passed", "verified"}

\* The rules that fire; none means approved.
evaluateRules(amount, c) ==
    {r \in Rules :
        \/ r = "KYC-INACTIVE" /\ ~kycActive(c.kyc)
        \/ r = "BLACKLIST" /\ c.blacklisted
        \/ r = "AMOUNT-NON-POSITIVE" /\ amount <= 0
        \/ r = "HIGH-RISK-TAG" /\ c.highRisk}

\* NewPaymentAuthorization and Authorize.
Decided(rules) == [status |-> IF rules = {} THEN "authorized" ELSE "rejected", rules |-> rules]

---------------------------------------------------------------------------
(* The AuthorizeRisk action *)

Copies(kind, w) == {m \in sent : m.kind = kind /\ m.wf = w}

\* The payment's outbox relay publishes a command for w.
Send(kind, w) ==
    LET m == [kind |-> kind, wf |-> w, n |-> Cardinality(Copies(kind, w)) + 1]
    IN  /\ Cardinality(sent) < MaxCommands
        /\ sent' = sent \cup {m}
        /\ queue' = queue \cup {m}

\* The first dispatch, and the re-dispatch after the deadline: a new message
\* with the same command id and idempotency key.
Execute(w) ==
    /\ stage[w] \in {"idle", "waiting"}
    /\ Send("authorize", w)
    /\ stage' = [stage EXCEPT ![w] = "waiting"]
    /\ UNCHANGED <<auth, inbox, outbox, dispatched, cons, relay, results, faults>>

\* A later action of the saga has failed for good.
Compensate(w) ==
    /\ stage[w] = "authorized"
    /\ Send("void", w)
    /\ stage' = [stage EXCEPT ![w] = "voiding"]
    /\ UNCHANGED <<auth, inbox, outbox, dispatched, cons, relay, results, faults>>

\* Anything else that is published under risk.# reaches the queue as well.
SendOther(w) ==
    /\ Send("other", w)
    /\ UNCHANGED <<stage, auth, inbox, outbox, dispatched, cons, relay, results, faults>>

\* Mutant: the status of the action is not looked at.
NextStage_anyStage(s, type) ==
    IF type = "command_rejected" THEN s ELSE type

\* The stage an event leads to, if the action accepts it where it is.
NextStage(s, type) ==
    CASE s = "waiting" /\ type \in {"authorized", "rejected"} -> type
      [] s = "voiding" /\ type = "voided" -> "voided"
      [] OTHER -> s

\* ApplyResult and ApplyCompensationResult.  An event that is not accepted now
\* never will be; it goes round the retry queue and changes nothing.
ApplyResult(e) ==
    /\ results' = results \ {e}
    /\ stage' = [stage EXCEPT ![e.cmd.wf] = NextStage(@, e.type)]
    /\ UNCHANGED <<auth, sent, queue, inbox, outbox, dispatched, cons, relay, faults>>

---------------------------------------------------------------------------
(* The command consumer *)

\* A message whose acknowledgement or whose mark was lost comes once more.
Redeliver(m) ==
    /\ faults < MaxFaults
    /\ m \in sent \ queue
    /\ queue' = queue \cup {m}
    /\ faults' = faults + 1
    /\ UNCHANGED <<saga, auth, inbox, outbox, dispatched, cons, relay, results>>

\* ProcessDelivery inserts the Inbox row, waiting for a replica that has
\* inserted the same one; a duplicate is acknowledged.
Deliver(c, m) ==
    /\ cons[c].stage = "idle"
    /\ m \in queue
    /\ \A d \in Consumers : cons[d].msg # m
    /\ queue' = queue \ {m}
    /\ cons' = IF m \in inbox THEN cons
               ELSE [cons EXCEPT ![c] = [stage |-> "handle", msg |-> m, seen |-> "none"]]
    /\ UNCHANGED <<saga, auth, inbox, outbox, dispatched, relay, results, faults>>

isReject(m) == m.kind = "authorize" /\ m.wf \in SmokeRejected

\* GetByIdempotencyKey or GetByID, without a lock.
Lookup(c) ==
    LET m == cons[c].msg
    IN  /\ cons[c].stage = "handle"
        /\ m.kind \in {"authorize", "void"}
        /\ ~isReject(m)
        /\ cons' = [cons EXCEPT ![c].stage = "apply", ![c].seen = auth[m.wf].status]
        /\ UNCHANGED <<saga, auth, queue, inbox, outbox, dispatched, relay, results, faults>>

EventOf(m, type, rules) == [type |-> type, cmd |-> m, rules |-> rules]

\* Inbox row and result events are committed, then the delivery is acknowledged.
Commit(c, events) ==
    /\ inbox' = inbox \cup {cons[c].msg}
    /\ outbox' = outbox \cup events
    /\ cons' = [cons EXCEPT ![c] = Idle]
    /\ UNCHANGED <<saga, queue, dispatched, relay, results, faults>>

\* The gate for smoke tests: a rejection without an authorization.
SmokeReject(c) ==
    /\ cons[c].stage = "handle"
    /\ isReject(cons[c].msg)
    /\ Commit(c, {EventOf(cons[c].msg, "rejected", {"SMOKE-INJECTED"})})
    /\ UNCHANGED auth

\* processEnvelope, the default branch.
emitFailure(c) ==
    /\ cons[c].stage = "handle"
    /\ cons[c].msg.kind = "other"
    /\ Commit(c, {EventOf(cons[c].msg, "command_rejected", {})})
    /\ UNCHANGED auth

Applying(c, kind) == cons[c].stage = "apply" /\ cons[c].msg.kind = kind

\* The key was found: no second decision and no second event.
AuthorizeDuplicate(c) ==
    /\ Applying(c, "authorize")
    /\ cons[c].seen # "none"
    /\ Commit(c, {})
    /\ UNCHANGED auth

\* Mutant: the idempotency key and the authorization id are not unique.
Insertable_unconstrained(c) == cons[c].seen = "none"

\* The key was not found, and the unique constraints on it and on the
\* authorization id still let the row in.
Insertable(c) == cons[c].seen = "none" /\ auth[cons[c].msg.wf].status = "none"

AuthorizePayment(c) ==
    LET m == cons[c].msg
    IN  /\ Applying(c, "authorize")
        /\ Insertable(c)
        /\ \E ctx \in Contexts :
              LET row == Decided(evaluateRules(Amount[m.wf], ctx))
              IN  /\ auth' = [auth EXCEPT ![m.wf] = row]
                  /\ Commit(c, {EventOf(m, row.status, row.rules)})

\* authorized becomes voided and is announced; voided stays and is not.
VoidAuthorization(c) ==
    LET m == cons[c].msg
    IN  /\ Applying(c, "void")
        /\ cons[c].seen \in {"authorized", "voided"}
        /\ auth' = [auth EXCEPT ![m.wf].status = "voided"]
        /\ Commit(c, IF cons[c].seen = "authorized" THEN {EventOf(m, "voided", {})} ELSE {})

\* The insert violates a unique constraint, or there is nothing to void.
Refused(c) ==
    \/ Applying(c, "authorize") /\ cons[c].seen = "none" /\ ~Insertable(c)
    \/ Applying(c, "void") /\ cons[c].seen \in {"none", "rejected"}

\* The handler fails, or the customer service, the database or the replica
\* does: everything is rolled back and settleDelivery routes the message to
\* risk.commands.retry, from where it comes back.  The attempts it compares
\* with MaxAttempts are those through a queue named risk.retry, of which there
\* are none, so that the dead-letter queue is not reached.
settleDelivery(c) ==
    /\ cons[c].stage # "idle"
    /\ \/ Refused(c) /\ UNCHANGED faults
       \/ ~Refused(c) /\ faults < MaxFaults /\ faults' = faults + 1
    /\ queue' = queue \cup {cons[c].msg}
    /\ cons' = [cons EXCEPT ![c] = Idle]
    /\ UNCHANGED <<saga, auth, inbox, outbox, dispatched, relay, results>>

---------------------------------------------------------------------------
(* The outbox relay *)

\* Mutant: the rows are marked when they are read.
ReadBatch_marked(r) ==
    /\ relay[r] = Drained
    /\ outbox # dispatched
    /\ relay' = [relay EXCEPT ![r].batch = outbox \ dispatched]
    /\ dispatched' = outbox
    /\ UNCHANGED <<saga, auth, queue, inbox, outbox, cons, results, faults>>

\* drain reads the undispatched rows.
ReadBatch(r) ==
    /\ relay[r] = Drained
    /\ outbox # dispatched
    /\ relay' = [relay EXCEPT ![r].batch = outbox \ dispatched]
    /\ UNCHANGED <<saga, auth, queue, inbox, outbox, dispatched, cons, results, faults>>

PublishTo(r, e) ==
    /\ relay[r].pub = NoMessage
    /\ relay' = [relay EXCEPT ![r] = [batch |-> @.batch \ {e}, pub |-> e]]
    /\ results' = results \cup {e}
    /\ UNCHANGED <<saga, auth, queue, inbox, outbox, dispatched, cons, faults>>

\* dispatched_at, after the broker's confirm.
MarkDispatched(r) ==
    /\ relay[r].pub # NoMessage
    /\ dispatched' = dispatched \cup {relay[r].pub}
    /\ relay' = [relay EXCEPT ![r].pub = NoMessage]
    /\ UNCHANGED <<saga, auth, queue, inbox, outbox, cons, results, faults>>

\* A publication or a mark fails, or the process dies: the relay stops and
\* starts anew.
RelayStops(r) ==
    /\ faults < MaxFaults
    /\ relay[r] # Drained
    /\ relay' = [relay EXCEPT ![r] = Drained]
    /\ faults' = faults + 1
    /\ UNCHANGED <<saga, auth, queue, inbox, outbox, dispatched, cons, results>>

---------------------------------------------------------------------------

Handle(c) ==
    \/ Lookup(c) \/ SmokeReject(c) \/ emitFailure(c)
    \/ AuthorizeDuplicate(c) \/ AuthorizePayment(c) \/ VoidAuthorization(c)
    \/ settleDelivery(c)

Consume(c) == (\E m \in queue : Deliver(c, m)) \/ Handle(c)

Drain(r) == ReadBatch(r) \/ (\E e \in relay[r].batch : PublishTo(r, e)) \/ MarkDispatched(r)

RiskNext ==
    \/ \E w \in Workflows : Execute(w) \/ Compensate(w) \/ SendOther(w)
    \/ \E m \in sent : Redeliver(m)
    \/ \E c \in Consumers : Consume(c)
    \/ \E r \in Relays : Drain(r) \/ RelayStops(r)
    \/ \E e \in results : ApplyResult(e)

RiskSpec == RiskInit /\ [][RiskNext]_riskVars

\* Consumers and relays keep running, and so does the payment service.
FairRiskSpec ==
    /\ RiskSpec
    /\ \A c \in Consumers : WF_riskVars(Consume(c))
    /\ \A r \in Relays : WF_riskVars(Drain(r))
    /\ WF_riskVars(\E e \in results : ApplyResult(e))

---------------------------------------------------------------------------
(* Properties *)

Decisions(w) == {e \in outbox : e.cmd.wf = w /\ e.type \in {"authorized", "rejected"}}

\* One payment, one decision: however often the command is repeated, and
\* whatever the policy would say the next time, the decision that was announced
\* first is the only one announced, it is the stored one, and an authorization
\* that was voided is not made again.
OneDecision ==
    \A w \in Workflows \ SmokeRejected :
        /\ \A e, f \in Decisions(w) : e = f
        /\ \A e \in Decisions(w) :
              /\ e.rules = auth[w].rules
              /\ e.type = "rejected" <=> auth[w].status = "rejected"
        /\ auth[w].status = "voided" <=>
              \E e \in outbox : e.cmd.wf = w /\ e.type = "voided"

\* The saga and the risk service agree: what the saga goes on with is
\* authorized, what it has taken back is voided, and what it gave up as
\* rejected is rejected, or a smoke test without an authorization.
SagaBacked ==
    \A w \in Workflows :
        /\ stage[w] = "authorized" => auth[w].status = "authorized"
        /\ stage[w] = "voided" => auth[w].status = "voided"
        /\ stage[w] = "rejected" =>
              auth[w].status = IF w \in SmokeRejected THEN "none" ELSE "rejected"

\* The saga is answered, although repeated commands are not: the event of the
\* first one is published until it is marked, through crashes of the replicas
\* and of the relays.
SagaAnswered ==
    \A w \in Workflows :
        /\ stage[w] = "waiting" ~> stage[w] # "waiting"
        /\ stage[w] = "voiding" ~> stage[w] = "voided"
=============================================================================
