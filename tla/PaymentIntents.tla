--------------------------- MODULE PaymentIntents ---------------------------
(***************************************************************************)
(* The payment service around the workflow engine: starting a payment      *)
(* under an idempotency key (WorkflowStarter, PaymentIntentRepo), the      *)
(* consumer of result events that keeps payment_intent.status and emits    *)
(* payment.completed.v1 (consumer.go), the reverse endpoint                *)
(* (cmd/payment/main.go), the outbox relay and the reward service that     *)
(* earns points from the completion.                                       *)
(*                                                                         *)
(* The engine is its specification Saga, which WorkflowEngine implements:  *)
(* phase and depth are the state of all workflow instances, and a result   *)
(* event makes one Saga step when ApplyResult accepts it.                  *)
(*                                                                         *)
(* handleResult runs outside any transaction of its own: ApplyResult, the  *)
(* read of the instance, the read of the intent and the write of the       *)
(* intent are four steps, and the Inbox row commits in a fifth.            *)
(***************************************************************************)
EXTENDS Integers, FiniteSets

CONSTANTS
    Keys,           \* Idempotency-Key values
    Transfers,      \* workflow ids of payment-transfer instances
    Members,        \* those whose payer has a points_acct
    Reversals,      \* workflow ids of payment-reversal instances
    TransferSteps,  \* len(PaymentTransferDefinition.Actions())
    Requests,       \* concurrent calls of the reverse endpoint
    Replicas,       \* replicas of the payment service
    MaxCommands,    \* bound: commands per workflow
    MaxFaults,      \* bound: crashes
    MaxDbErrors,    \* bound: failed reads and writes the consumer only logs
    None

ASSUME IntentAssumption ==
    /\ Transfers \cap Reversals = {} /\ Members \subseteq Transfers
    /\ TransferSteps \in Nat \ {0}
    /\ MaxCommands \in Nat /\ MaxFaults \in Nat /\ MaxDbErrors \in Nat
    /\ None \notin Transfers \cup Reversals

VARIABLES
    phase, depth, \* the workflow instances, as in Saga
    cmd,          \* the number of commands a workflow has dispatched
    orig,         \* original_workflow_id of a reversal; None: not started
    intent,       \* payment_intent, by idempotency key
    req,          \* calls of the reverse endpoint
    queue,        \* result events to deliver
    published,    \* result events ever published
    applied,      \* the engine's Inbox
    inbox,        \* the consumer's Inbox
    cons,         \* what each replica is handling
    completions,  \* payment.completed.v1 rows per payment in outbox_message
    dispatched,   \* completion rows with dispatched_at set
    rewardQueue,  \* completion events to deliver to reward
    rewardInbox,  \* reward's Inbox
    earning,      \* the completion event reward is handling
    earned,       \* how often points were added for a payment
    faults        \* faults so far, by kind

engine == <<phase, depth, cmd>>
reward == <<rewardQueue, rewardInbox, earning, earned>>
vars == <<phase, depth, cmd, orig, intent, req, queue, published, applied, inbox,
          cons, completions, dispatched, rewardQueue, rewardInbox, earning, earned, faults>>

Instances == Transfers \cup Reversals

---------------------------------------------------------------------------
(* Types *)

IntentStatus == {"pending", "running", "succeeded", "compensated", "compensation_failed",
                 "rejected", "reversal_pending", "reversed"}

NoIntent == [wf |-> None, status |-> "pending", reversed |-> FALSE]

Intent == [wf : Transfers, status : IntentStatus, reversed : BOOLEAN]

\* A result event of a command; participants answer a command once.
ResultEvent == [wf : Instances, cmd : Nat]

Completion == [wf : Transfers, n : Nat]

Phases == {"new", "forward", "backward", "stuck", "succeeded", "rejected", "compensated"}

Stages == {"idle", "apply", "meta", "previous", "sync", "reversal", "commit"}

TypeOK ==
    /\ phase \in [Instances -> Phases]
    /\ depth \in [Instances -> 0 .. TransferSteps]
    /\ cmd \in [Instances -> Nat]
    /\ orig \in [Reversals -> Transfers \cup {None}]
    /\ intent \in [Keys -> Intent \cup {NoIntent}]
    /\ req \in [Requests -> [pc : {"idle", "start", "prepare", "mark"},
                             wf : Transfers \cup {None}, rev : Reversals \cup {None}]]
    /\ published \subseteq ResultEvent
    /\ queue \subseteq published /\ applied \subseteq published /\ inbox \subseteq applied
    /\ cons \in [Replicas -> [stage : Stages, ev : ResultEvent \cup {None},
                              status : IntentStatus, fresh : BOOLEAN]]
    /\ completions \in [Transfers -> Nat]
    /\ dispatched \subseteq Completion /\ rewardQueue \subseteq Completion
    /\ rewardInbox \subseteq Completion
    /\ earning \in Completion \cup {None}
    /\ earned \in [Transfers -> Nat]
    /\ faults \in [crash : Nat, db : Nat]

Idle == [stage |-> "idle", ev |-> None, status |-> "pending", fresh |-> FALSE]

NoRequest == [pc |-> "idle", wf |-> None, rev |-> None]

Saga == INSTANCE Saga WITH
    Workflows <- Instances,
    Steps <- [w \in Instances |-> IF w \in Transfers THEN TransferSteps ELSE 1]

Init ==
    /\ Saga!SagaInit
    /\ cmd = [w \in Instances |-> 0]
    /\ orig = [r \in Reversals |-> None]
    /\ intent = [k \in Keys |-> NoIntent]
    /\ req = [q \in Requests |-> NoRequest]
    /\ queue = {} /\ published = {} /\ applied = {} /\ inbox = {}
    /\ cons = [c \in Replicas |-> Idle]
    /\ completions = [w \in Transfers |-> 0]
    /\ dispatched = {} /\ rewardQueue = {} /\ rewardInbox = {}
    /\ earning = None
    /\ earned = [w \in Transfers |-> 0]
    /\ faults = [crash |-> 0, db |-> 0]

---------------------------------------------------------------------------
(* The intents *)

KeysOf(w) == {k \in Keys : intent[k].wf = w}

\* The instance rows: a transfer is created with its intent, a reversal by
\* the reverse endpoint.
Created == {intent[k].wf : k \in Keys} \cup {r \in Reversals : orig[r] # None}

StatusOf(w) == intent[CHOOSE k \in KeysOf(w) : TRUE].status

SetStatus(w, status) ==
    [k \in Keys |-> IF intent[k].wf = w THEN [intent[k] EXCEPT !.status = status]
                    ELSE intent[k]]

\* StartPayment of a key used for the first time: the intent and its instance
\* in one transaction.  A replay or a conflicting body changes nothing.
StartPayment(k, w) ==
    /\ intent[k] = NoIntent
    /\ w \notin Created
    /\ intent' = [intent EXCEPT ![k] = [wf |-> w, status |-> "pending", reversed |-> FALSE]]
    /\ UNCHANGED <<engine, orig, req, queue, published, applied, inbox, cons, completions,
                   dispatched, reward, faults>>

---------------------------------------------------------------------------
(* The engine and its environment *)

\* The recovery loop prepares an instance; Prepare of a reversal only
\* validates what the endpoint has filled in.
PrepareInstance(w) ==
    /\ w \in Created
    /\ \/ Saga!Begin(w) /\ cmd' = [cmd EXCEPT ![w] = 1]
       \/ w \in Transfers /\ Saga!Reject(w) /\ UNCHANGED cmd
    /\ UNCHANGED <<orig, intent, req, queue, published, applied, inbox, cons,
                   completions, dispatched, reward, faults>>

\* An operator retries or resolves a compensation: no result event.
OperatorStep(w) ==
    /\ cmd[w] <= MaxCommands
    /\ Saga!Resume(w) \/ Saga!Undo(w)
    /\ cmd' = [cmd EXCEPT ![w] = @ + 1]
    /\ UNCHANGED <<orig, intent, req, queue, published, applied, inbox, cons,
                   completions, dispatched, reward, faults>>

\* A participant answers the command the workflow is waiting for.
PublishResult(w) ==
    LET e == [wf |-> w, cmd |-> cmd[w]]
    IN  /\ phase[w] \in {"forward", "backward"}
        /\ cmd[w] <= MaxCommands
        /\ e \notin published
        /\ published' = published \cup {e}
        /\ queue' = queue \cup {e}
        /\ UNCHANGED <<engine, orig, intent, req, applied, inbox, cons, completions,
                       dispatched, reward, faults>>

---------------------------------------------------------------------------
(* The consumer of result events *)

\* ProcessDelivery: a message another replica has open waits for it; one in
\* the Inbox is acknowledged.
Deliver(c, e) ==
    /\ cons[c].stage = "idle"
    /\ e \in queue
    /\ \A d \in Replicas : cons[d].ev # e
    /\ queue' = queue \ {e}
    /\ cons' = IF e \in inbox THEN cons
               ELSE [cons EXCEPT ![c] = [Idle EXCEPT !.stage = "apply", !.ev = e]]
    /\ UNCHANGED <<engine, orig, intent, req, published, applied, inbox,
                   completions, dispatched, reward, faults>>

\* What ApplyResult makes of an accepted result: a step of the saga, a new
\* attempt of a compensation, or a forward action that just stays failed.
SagaResult(w) ==
    \/ /\ phase[w] = "forward"
       /\ Saga!Advance(w) \/ Saga!TurnBack(w)
       /\ cmd' = [cmd EXCEPT ![w] = @ + 1]
    \/ /\ phase[w] = "backward"
       /\ Saga!Undo(w) \/ UNCHANGED <<phase, depth>>
       /\ cmd' = [cmd EXCEPT ![w] = @ + 1]
    \/ Saga!GiveUp(w) /\ UNCHANGED cmd
    \/ phase[w] = "forward" /\ UNCHANGED engine

ApplyResult(c) ==
    LET e == cons[c].ev
    IN  /\ cons[c].stage = "apply"
        /\ e \notin applied
        /\ e.cmd = cmd[e.wf]
        /\ SagaResult(e.wf)
        /\ applied' = applied \cup {e}
        /\ cons' = [cons EXCEPT ![c].stage = "meta"]
        /\ UNCHANGED <<orig, intent, req, queue, published, inbox, completions,
                       dispatched, reward, faults>>

\* Mutant: a result the engine has seen before ends the handler.
AfterDuplicate_skipsSync == "commit"

\* A result the engine's Inbox holds already: ApplyResult returns nil and the
\* handler goes on to the status sync.
AfterDuplicate == "meta"

ApplyDuplicate(c) ==
    /\ cons[c].stage = "apply"
    /\ cons[c].ev \in applied
    /\ cons' = [cons EXCEPT ![c].stage = AfterDuplicate]
    /\ UNCHANGED <<engine, orig, intent, req, queue, published, applied, inbox,
                   completions, dispatched, reward, faults>>

\* A result of a command the workflow has left behind: an error on every
\* attempt.  The message goes round its retry queue and changes nothing.
RejectStale(c) ==
    LET e == cons[c].ev
    IN  /\ cons[c].stage = "apply"
        /\ e \notin applied
        /\ e.cmd # cmd[e.wf] \/ phase[e.wf] \notin {"forward", "backward"}
        /\ cons' = [cons EXCEPT ![c] = Idle]
        /\ UNCHANGED <<engine, orig, intent, req, queue, published, applied, inbox,
                       completions, dispatched, reward, faults>>

\* Mutant: compensating is reported as its good end.
mapInstanceStatusToIntent_early(p) ==
    CASE p = "forward" -> "running"
      [] p \in {"succeeded", "compensated", "rejected"} -> p
      [] p = "stuck" -> "compensation_failed"
      [] p = "backward" -> "compensated"
      [] OTHER -> "pending"

\* compensating has no status of its own and is reported as pending.
mapInstanceStatusToIntent(p) ==
    CASE p = "forward" -> "running"
      [] p \in {"succeeded", "compensated", "rejected"} -> p
      [] p = "stuck" -> "compensation_failed"
      [] OTHER -> "pending"

\* InstanceMeta; a reversal has no intent of its own.
ReadMeta(c) ==
    LET w == cons[c].ev.wf
    IN  /\ cons[c].stage = "meta"
        /\ cons' = [cons EXCEPT ![c].status = mapInstanceStatusToIntent(phase[w]),
                      ![c].stage = IF w \in Transfers THEN "previous"
                                   ELSE IF phase[w] = "succeeded" THEN "reversal"
                                   ELSE "commit"]
        /\ UNCHANGED <<engine, orig, intent, req, queue, published, applied, inbox,
                       completions, dispatched, reward, faults>>

freshSucceeded(status, previous) == status = "succeeded" /\ previous # "succeeded"

ReadPrevious(c) ==
    LET w == cons[c].ev.wf
    IN  /\ cons[c].stage = "previous"
        /\ cons' = [cons EXCEPT ![c].stage = "sync",
                                ![c].fresh = freshSucceeded(cons[c].status, StatusOf(w))]
        /\ UNCHANGED <<engine, orig, intent, req, queue, published, applied, inbox,
                       completions, dispatched, reward, faults>>

\* The status and, on a fresh success, the completion row in one transaction.
syncStatusAndEmit(c) ==
    LET w == cons[c].ev.wf
    IN  /\ cons[c].stage = "sync"
        /\ intent' = SetStatus(w, cons[c].status)
        /\ completions' = IF cons[c].fresh THEN [completions EXCEPT ![w] = @ + 1]
                          ELSE completions
        /\ cons' = [cons EXCEPT ![c].stage = "commit"]
        /\ UNCHANGED <<engine, orig, req, queue, published, applied, inbox,
                       dispatched, reward, faults>>

\* handleReversalSuccess: the original payment becomes reversed.
handleReversalSuccess(c) ==
    LET w == orig[cons[c].ev.wf]
    IN  /\ cons[c].stage = "reversal"
        /\ intent' = [k \in Keys |->
                        IF intent[k].wf = w
                        THEN [intent[k] EXCEPT !.status = "reversed", !.reversed = TRUE]
                        ELSE intent[k]]
        /\ cons' = [cons EXCEPT ![c].stage = "commit"]
        /\ UNCHANGED <<engine, orig, req, queue, published, applied, inbox,
                       completions, dispatched, reward, faults>>

\* A read or write after ApplyResult fails: logged, and the handler succeeds.
SyncFails(c) ==
    /\ faults.db < MaxDbErrors
    /\ cons[c].stage \in {"meta", "previous", "sync", "reversal"}
    /\ cons' = [cons EXCEPT ![c].stage = "commit"]
    /\ faults' = [faults EXCEPT !.db = @ + 1]
    /\ UNCHANGED <<engine, orig, intent, req, queue, published, applied, inbox,
                   completions, dispatched, reward>>

\* The Inbox row commits; when the replica dies before the acknowledgement,
\* the event is delivered once more.
CommitInbox(c) ==
    /\ cons[c].stage = "commit"
    /\ inbox' = inbox \cup {cons[c].ev}
    /\ cons' = [cons EXCEPT ![c] = Idle]
    /\ \/ UNCHANGED <<queue, faults>>
       \/ /\ faults.crash < MaxFaults
          /\ queue' = queue \cup {cons[c].ev}
          /\ faults' = [faults EXCEPT !.crash = @ + 1]
    /\ UNCHANGED <<engine, orig, intent, req, published, applied, completions, dispatched,
                   reward>>

\* The replica dies, or its Inbox transaction fails: the event is delivered
\* again.
CrashReplica(c) ==
    /\ faults.crash < MaxFaults
    /\ cons[c].stage # "idle"
    /\ cons' = [cons EXCEPT ![c] = Idle]
    /\ queue' = queue \cup {cons[c].ev}
    /\ faults' = [faults EXCEPT !.crash = @ + 1]
    /\ UNCHANGED <<engine, orig, intent, req, published, applied, inbox,
                   completions, dispatched, reward>>

---------------------------------------------------------------------------
(* The reverse endpoint *)

\* The status check on the intent and the read of the voucher number.
Reversible(w) == StatusOf(w) = "succeeded" /\ phase[w] = "succeeded"

ReverseCheck(q, w) ==
    /\ req[q].pc = "idle"
    /\ w \in Created
    /\ Reversible(w)
    /\ req' = [req EXCEPT ![q] = [pc |-> "start", wf |-> w, rev |-> None]]
    /\ UNCHANGED <<engine, orig, intent, queue, published, applied, inbox, cons,
                   completions, dispatched, reward, faults>>

\* Engine.Start under a fresh workflow id.
StartReversal(q, r) ==
    /\ req[q].pc = "start"
    /\ r \notin Created
    /\ orig' = [orig EXCEPT ![r] = req[q].wf]
    /\ req' = [req EXCEPT ![q].pc = "prepare", ![q].rev = r]
    /\ UNCHANGED <<engine, intent, queue, published, applied, inbox, cons,
                   completions, dispatched, reward, faults>>

\* Engine.Prepare from the request, unless recovery was faster.
PrepareReversal(q) ==
    LET r == req[q].rev
    IN  /\ req[q].pc = "prepare"
        /\ IF phase[r] = "new" THEN Saga!Begin(r) /\ cmd' = [cmd EXCEPT ![r] = 1]
                               ELSE UNCHANGED engine
        /\ req' = [req EXCEPT ![q].pc = "mark"]
        /\ UNCHANGED <<orig, intent, queue, published, applied, inbox, cons,
                       completions, dispatched, reward, faults>>

\* MarkReversalPendingByWorkflowID: unconditional, reversed stays as it is.
MarkReversalPending(q) ==
    /\ req[q].pc = "mark"
    /\ intent' = SetStatus(req[q].wf, "reversal_pending")
    /\ req' = [req EXCEPT ![q] = NoRequest]
    /\ UNCHANGED <<engine, orig, queue, published, applied, inbox, cons,
                   completions, dispatched, reward, faults>>

\* The request fails or its replica dies between two steps.
CrashRequest(q) ==
    /\ faults.crash < MaxFaults
    /\ req[q].pc # "idle"
    /\ req' = [req EXCEPT ![q] = NoRequest]
    /\ faults' = [faults EXCEPT !.crash = @ + 1]
    /\ UNCHANGED <<engine, orig, intent, queue, published, applied, inbox, cons,
                   completions, dispatched, reward>>

---------------------------------------------------------------------------
(* Completion events: the outbox relay and the reward service *)

\* drain: publish, then mark; two relays, or a relay that dies before the
\* mark, publish a row again.
Relay(m) ==
    /\ m.n <= completions[m.wf]
    /\ m \notin dispatched
    /\ rewardQueue' = rewardQueue \cup {m}
    /\ \/ dispatched' = dispatched \cup {m} /\ UNCHANGED faults
       \/ /\ faults.crash < MaxFaults
          /\ faults' = [faults EXCEPT !.crash = @ + 1]
          /\ UNCHANGED dispatched
    /\ UNCHANGED <<engine, orig, intent, req, queue, published, applied, inbox,
                   cons, completions, rewardInbox, earning, earned>>

\* EarnPoints runs on the pool, not in the transaction of the Inbox row.  An
\* update of no row, for a payer without points_acct, is a success.
EarnPoints(m) ==
    /\ earning = None
    /\ m \in rewardQueue
    /\ rewardQueue' = rewardQueue \ {m}
    /\ IF m \in rewardInbox THEN UNCHANGED <<earning, earned>>
       ELSE /\ earning' = m
            /\ earned' = IF m.wf \in Members THEN [earned EXCEPT ![m.wf] = @ + 1] ELSE earned
    /\ UNCHANGED <<engine, orig, intent, req, queue, published, applied, inbox,
                   cons, completions, dispatched, rewardInbox, faults>>

CommitReward ==
    /\ earning # None
    /\ rewardInbox' = rewardInbox \cup {earning}
    /\ earning' = None
    /\ UNCHANGED <<engine, orig, intent, req, queue, published, applied, inbox,
                   cons, completions, dispatched, rewardQueue, earned, faults>>

CrashReward ==
    /\ faults.crash < MaxFaults
    /\ earning # None
    /\ rewardQueue' = rewardQueue \cup {earning}
    /\ earning' = None
    /\ faults' = [faults EXCEPT !.crash = @ + 1]
    /\ UNCHANGED <<engine, orig, intent, req, queue, published, applied, inbox,
                   cons, completions, dispatched, rewardInbox, earned>>

---------------------------------------------------------------------------

\* The completion rows in the outbox.
CompletionRows == UNION {{[wf |-> w, n |-> i] : i \in 1 .. completions[w]} : w \in Transfers}

Consume(c) ==
    \/ \E e \in queue : Deliver(c, e)
    \/ ApplyResult(c) \/ ApplyDuplicate(c) \/ RejectStale(c)
    \/ ReadMeta(c) \/ ReadPrevious(c) \/ syncStatusAndEmit(c) \/ handleReversalSuccess(c)
    \/ CommitInbox(c)

Reverse(q) ==
    \/ \E r \in Reversals : StartReversal(q, r)
    \/ PrepareReversal(q) \/ MarkReversalPending(q)

RelayRows == \E m \in CompletionRows : Relay(m)

Reward == (\E m \in rewardQueue : EarnPoints(m)) \/ CommitReward

Next ==
    \/ \E k \in Keys, w \in Transfers : StartPayment(k, w)
    \/ \E w \in Instances : PrepareInstance(w) \/ OperatorStep(w) \/ PublishResult(w)
    \/ \E c \in Replicas : Consume(c) \/ SyncFails(c) \/ CrashReplica(c)
    \/ \E q \in Requests, w \in Transfers : ReverseCheck(q, w)
    \/ \E q \in Requests : Reverse(q) \/ CrashRequest(q)
    \/ RelayRows \/ Reward \/ CrashReward

Spec == Init /\ [][Next]_vars

(***************************************************************************)
(* Fairness: replicas keep consuming and relaying, and recovery prepares   *)
(* what is new (PreparingResolved of WorkflowEngine).  Nothing is assumed  *)
(* of participants, clients, operators or faults.                          *)
(***************************************************************************)
FairSpec ==
    /\ Spec
    /\ \A c \in Replicas : WF_vars(Consume(c))
    /\ \A w \in Instances : WF_vars(PrepareInstance(w))
    /\ WF_vars(\E m \in CompletionRows : Relay(m) /\ UNCHANGED faults)
    /\ WF_vars(Reward)

---------------------------------------------------------------------------
(* Safety *)

\* What GET reports is backed by the sagas, although the consumer writes
\* statuses it read earlier and the endpoint writes without looking: a final
\* status is the outcome of the workflow, only succeeded payments are
\* reversed, and reversed means that a reversal went through.
StatusBacked ==
    \A k \in Keys : intent[k] # NoIntent =>
        LET w == intent[k].wf
            undone == \E r \in Reversals : orig[r] = w /\ phase[r] = "succeeded"
        IN  /\ intent[k].status \in {"succeeded", "reversal_pending", "reversed"} =>
                  phase[w] = "succeeded"
            /\ intent[k].status = "compensated" => phase[w] = "compensated"
            /\ intent[k].status = "reversed" \/ intent[k].reversed => undone
            /\ (\E r \in Reversals : orig[r] = w) => phase[w] = "succeeded"

\* A payment that was ever reported succeeded has its completion event in the
\* outbox, and only a payment that succeeded has one.
SucceededAnnounced ==
    \A w \in Transfers :
        /\ w \in Created /\ StatusOf(w) \in {"succeeded", "reversal_pending", "reversed"} =>
              completions[w] > 0
        /\ completions[w] > 0 => phase[w] = "succeeded"

\* What clients and other services are told of a payment is true: its status
\* (GET) and its completion event (handleResult, handleReversalSuccess).
IntentTruthful == TypeOK /\ StatusBacked /\ SucceededAnnounced

---------------------------------------------------------------------------
(* Liveness, under FairSpec *)

\* The completion of a payment is not lost when the replica dies anywhere
\* between ApplyResult and its Inbox commit.  Only a failed sync loses it:
\* that one is logged and never repeated.
CompletionEmitted ==
    \A w \in Transfers :
        phase[w] = "succeeded" ~> completions[w] > 0 \/ faults.db > 0

\* A reversal that went through is reported on the payment, whatever the
\* endpoint and other events of the payment do meanwhile.
ReversalReported ==
    \A r \in Reversals :
        phase[r] = "succeeded" ~>
            (\E k \in KeysOf(orig[r]) : intent[k].reversed) \/ faults.db > 0

\* Points follow a completion, for a payer who has an account of them, although
\* relay and reward may die in between.
PointsFollow ==
    \A w \in Members : completions[w] > 0 ~> earned[w] > 0

\* The outcome of a payment gets to everyone who waits for it: the completion
\* to the outbox, the reversal to the intent, the points to the customer.
OutcomeReported == CompletionEmitted /\ ReversalReported /\ PointsFollow
=============================================================================
