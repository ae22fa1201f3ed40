---------------------------- MODULE OutboxRelay ----------------------------
(***************************************************************************)
(* The Outbox of the commerce services (platform/messaging/outbox.go) and  *)
(* its confirmed publisher (platform/messaging/rabbitmq.go).               *)
(*                                                                         *)
(* Every replica of a service runs a relay.  A relay claims a batch of     *)
(* rows in one transaction (FOR UPDATE SKIP LOCKED), publishes them one    *)
(* after the other, each as a mandatory message, and marks a row published *)
(* after a positive confirmation.  A claim is a token and a time: when it  *)
(* is older than ClaimTTL another relay may take the row, and the first    *)
(* one, if it still works on it, can no longer mark it.                    *)
(*                                                                         *)
(* The broker sends the return of an unroutable message before the         *)
(* confirmation, but the client library hands them over in two channels    *)
(* from which the publisher selects.  The publisher waits for the outcome  *)
(* of one message at a time; when the wait ends in any other way, the      *)
(* channel is retired and the relay ends with its process.                 *)
(*                                                                         *)
(* A claim token is new for each claim.  A relay works on its last batch   *)
(* only, so the relay's name stands for the token.                         *)
(***************************************************************************)
EXTENDS Integers, FiniteSets

CONSTANTS
    NumEvents,   \* events, numbered in the order of created_at
    Relays,      \* the relays of the replicas
    BatchSize,   \* RelayConfig.BatchSize
    MaxFaults,   \* bound: crashes, broken channels, refusals, relays slower than ClaimTTL
    None

ASSUME RelayAssumption ==
    /\ NumEvents \in Nat /\ BatchSize \in Nat \ {0} /\ MaxFaults \in Nat
    /\ None \notin Relays

Events == 1 .. NumEvents

VARIABLES
    row,      \* the rows of outbox_event
    relay,    \* the relays
    chan,     \* the AMQP channel of each relay and its notification channels
    bound,    \* a queue is bound for the events' types
    copies,   \* how often each event was put into a queue, up to two
    lapsed,   \* history variable: events with a claim that became too old
    faults

vars == <<row, relay, chan, bound, copies, lapsed, faults>>

NoRow == [state |-> "absent", token |-> None, claim |-> "none"]
Idle == [pc |-> "idle", batch |-> {}, cur |-> 0, returned |-> FALSE]

\* wire: the message at the broker; ret, conf: what the notification channels hold.
Fresh == [wire |-> "none", ret |-> FALSE, conf |-> "none"]

Fault == faults < MaxFaults /\ faults' = faults + 1

OneMore(n) == IF n < 2 THEN n + 1 ELSE n

Goto(r, pc) == relay' = [relay EXCEPT ![r].pc = pc]

Init ==
    /\ row = [e \in Events |-> NoRow]
    /\ relay = [r \in Relays |-> Idle]
    /\ chan = [r \in Relays |-> Fresh]
    /\ bound = FALSE
    /\ copies = [e \in Events |-> 0]
    /\ lapsed = {}
    /\ faults = 0

(***************************************************************************)
(* The rows.                                                               *)
(***************************************************************************)
\* A domain transaction with an event commits.
InsertOutbox ==
    /\ \E e \in Events :
          /\ row[e].state = "absent" /\ \A d \in 1 .. e - 1 : row[d].state # "absent"
          /\ row' = [row EXCEPT ![e].state = "pending"]
    /\ UNCHANGED <<relay, chan, bound, copies, lapsed, faults>>

\* a claim never becomes too old
Claimable_once(e) == row[e].state = "pending" /\ row[e].claim = "none"

\* claims of other relays are not looked at
Claimable_any(e) == row[e].state = "pending"

\* published_at IS NULL AND (claimed_at IS NULL OR claimed_at < now - ClaimTTL)
Claimable(e) == row[e].state = "pending" /\ row[e].claim \in {"none", "old"}

\* The oldest BatchSize of the claimable rows.
Candidates ==
    {e \in Events : Claimable(e) /\ Cardinality({d \in 1 .. e - 1 : Claimable(d)}) < BatchSize}

Claim(r) ==
    /\ relay[r].pc = "idle" /\ Candidates # {}
    /\ row' = [e \in Events |-> IF e \in Candidates THEN [row[e] EXCEPT !.token = r, !.claim = "new"] ELSE row[e]]
    /\ relay' = [relay EXCEPT ![r].batch = Candidates, ![r].pc = "publish"]
    /\ UNCHANGED <<chan, bound, copies, lapsed, faults>>

Held(r) == {e \in Events : row[e].state = "pending" /\ row[e].token = r /\ row[e].claim = "new"}

Expire(S) ==
    /\ row' = [e \in Events |-> IF e \in S THEN [row[e] EXCEPT !.claim = "old"] ELSE row[e]]
    /\ lapsed' = lapsed \cup S
    /\ UNCHANGED <<relay, chan, bound, copies>>

\* ClaimTTL has passed for rows that the relay no longer works on: they failed,
\* or it ended.
ClaimExpires(r) ==
    /\ Held(r) \ relay[r].batch # {}
    /\ Expire(Held(r) \ relay[r].batch)
    /\ UNCHANGED faults

\* The relay takes longer for its batch than ClaimTTL.
ClaimOutlived(r) ==
    /\ Held(r) \cap relay[r].batch # {}
    /\ Expire(Held(r))
    /\ Fault

(***************************************************************************)
(* Publishing.                                                             *)
(***************************************************************************)
\* The next claim (UPDATE ... RETURNING does not keep the order of the rows),
\* and Route: PublishWithContext hands the message to the channel.
Send(r) ==
    /\ relay[r].pc = "publish"
    /\ chan' = [chan EXCEPT ![r].wire = "sent"]
    /\ \E e \in relay[r].batch :
          relay' = [relay EXCEPT ![r].pc = "await", ![r].cur = e, ![r].returned = FALSE]
    /\ UNCHANGED <<row, bound, copies, lapsed, faults>>

\* The broker puts the message into the bound queue and confirms it.
BrokerAccepts(r) ==
    /\ chan[r].wire = "sent" /\ bound
    /\ copies' = [copies EXCEPT ![relay[r].cur] = OneMore(@)]
    /\ chan' = [chan EXCEPT ![r].wire = "none", ![r].conf = "ack"]
    /\ UNCHANGED <<row, relay, bound, lapsed, faults>>

\* A mandatory message without a queue: basic.return first ...
BrokerReturns(r) ==
    /\ chan[r].wire = "sent" /\ ~bound
    /\ chan' = [chan EXCEPT ![r].wire = "returned", ![r].ret = TRUE]
    /\ UNCHANGED <<row, relay, bound, copies, lapsed, faults>>

\* ... and then a positive confirmation.
BrokerConfirmsReturned(r) ==
    /\ chan[r].wire = "returned"
    /\ chan' = [chan EXCEPT ![r].wire = "none", ![r].conf = "ack"]
    /\ UNCHANGED <<row, relay, bound, copies, lapsed, faults>>

\* The broker could not take care of the message.
BrokerRefuses(r) ==
    /\ chan[r].wire = "sent"
    /\ Fault
    /\ chan' = [chan EXCEPT ![r].wire = "none", ![r].conf = "nack"]
    /\ UNCHANGED <<row, relay, bound, copies, lapsed>>

\* awaitAMQPPublishOutcome: the select takes the return ...
TakeReturn(r) ==
    /\ relay[r].pc = "await" /\ chan[r].ret
    /\ chan' = [chan EXCEPT ![r].ret = FALSE]
    /\ relay' = [relay EXCEPT ![r].returned = TRUE]
    /\ UNCHANGED <<row, bound, copies, lapsed, faults>>

\* the confirmation decides without a second look at the returns
Positive_ackOnly(r) == chan[r].conf = "ack" /\ ~relay[r].returned

\* Positively confirmed, and not returned: a return that is still in its
\* channel when the confirmation is taken counts.
Positive(r) == chan[r].conf = "ack" /\ ~relay[r].returned /\ ~chan[r].ret

\* ... or the confirmation, which settles the outcome.
TakeConfirmation(r) ==
    /\ relay[r].pc = "await" /\ chan[r].conf # "none"
    /\ chan' = [chan EXCEPT ![r] = Fresh]
    /\ Goto(r, IF Positive(r) THEN "markPublished" ELSE "markFailed")
    /\ UNCHANGED <<row, bound, copies, lapsed, faults>>

(***************************************************************************)
(* After the outcome: only a row that still has the relay's token and is   *)
(* not published is changed.                                               *)
(***************************************************************************)
Done(r) ==
    LET rest == relay[r].batch \ {relay[r].cur} IN
    relay' = [relay EXCEPT ![r].batch = rest, ![r].cur = 0, ![r].pc = IF rest = {} THEN "idle" ELSE "publish"]

MarkPublished(r) ==
    LET e == relay[r].cur IN
    /\ relay[r].pc = "markPublished"
    /\ row' = [row EXCEPT ![e].state = IF row[e].token = r THEN "published" ELSE @]
    /\ Done(r)
    /\ UNCHANGED <<chan, bound, copies, lapsed, faults>>

\* MarkFailed records the error; the row stays claimed until it is too old.
MarkFailed(r) ==
    /\ relay[r].pc = "markFailed"
    /\ Done(r)
    /\ UNCHANGED <<row, chan, bound, copies, lapsed, faults>>

\* The relay ends, with its process and channel: a crash or a shutdown, a
\* failed statement, or a publisher that was retired because publishing
\* failed, the channel closed or the context ended.  A message that was sent
\* may still reach a queue.  The process is started again.
RelayEnds(r) ==
    /\ relay[r].pc # "idle" \/ chan[r] # Fresh
    /\ Fault
    /\ relay' = [relay EXCEPT ![r] = Idle]
    /\ chan' = [chan EXCEPT ![r] = Fresh]
    /\ \/ UNCHANGED copies
       \/ /\ chan[r].wire = "sent" /\ bound
          /\ copies' = [copies EXCEPT ![relay[r].cur] = OneMore(@)]
    /\ UNCHANGED <<row, bound, lapsed>>

\* A consumer declares and binds its queue when it starts.
BindQueue ==
    /\ ~bound
    /\ bound' = TRUE
    /\ UNCHANGED <<row, relay, chan, copies, lapsed, faults>>

BrokerStep(r) == BrokerAccepts(r) \/ BrokerReturns(r) \/ BrokerConfirmsReturned(r)

RelayStep(r) ==
    \/ Claim(r) \/ Send(r) \/ TakeReturn(r) \/ TakeConfirmation(r)
    \/ MarkPublished(r) \/ MarkFailed(r)

Next ==
    \/ InsertOutbox \/ BindQueue
    \/ \E r \in Relays : RelayStep(r) \/ BrokerStep(r) \/ BrokerRefuses(r) \/ ClaimExpires(r) \/ ClaimOutlived(r)
                         \/ RelayEnds(r)

Spec == Init /\ [][Next]_vars

\* Relays poll and go on, the broker answers, the time of an abandoned claim
\* passes, and the consumers' queues are bound some day.  That a relay is
\* slower than ClaimTTL happens finitely often: otherwise two relays can take
\* a row from each other for ever.
FairSpec ==
    /\ Spec /\ WF_vars(BindQueue)
    /\ \A r \in Relays : WF_vars(RelayStep(r)) /\ WF_vars(BrokerStep(r)) /\ WF_vars(ClaimExpires(r))

OutboxRow == [state : {"absent", "pending", "published"}, token : Relays \cup {None},
              claim : {"none", "new", "old"}]
RelayState == [pc : {"idle", "publish", "await", "markPublished", "markFailed"},
               batch : SUBSET Events, cur : 0 .. NumEvents, returned : BOOLEAN]
ChannelState == [wire : {"none", "sent", "returned"}, ret : BOOLEAN, conf : {"none", "ack", "nack"}]

TypeOK ==
    /\ row \in [Events -> OutboxRow]
    /\ relay \in [Relays -> RelayState]
    /\ chan \in [Relays -> ChannelState]
    /\ bound \in BOOLEAN /\ copies \in [Events -> 0 .. 2]
    /\ lapsed \subseteq Events /\ faults \in 0 .. MaxFaults

(***************************************************************************)
(* What the Outbox promises.                                               *)
(***************************************************************************)
\* A row is marked published only when its event is in a queue: neither a
\* return that loses the race against its confirmation, nor a refused message,
\* nor a crash at any point makes the relay drop an event
\* (awaitAMQPPublishOutcome, relayOnce).
PublishedRouted == TypeOK /\ \A e \in Events : row[e].state = "published" => copies[e] > 0

\* Of two relays only the claimant publishes: an event is put into a queue
\* twice only when a claim on it became too old (postgresOutboxStore.Claim).
OncePerClaim == \A e \in Events : copies[e] > 1 => e \in lapsed

Channel == INSTANCE AtLeastOnce WITH
    committed <- {e \in Events : row[e].state # "absent"},
    delivered <- {e \in Events : copies[e] > 0},
    settled <- {e \in Events : row[e].state = "published"}

\* The Outbox is an at-least-once channel: every committed event gets into a
\* queue and is settled, also after crashes, refusals and returns, and though a
\* slow relay loses its claim to another.
ImplementsAtLeastOnce == Channel!Spec
=============================================================================
