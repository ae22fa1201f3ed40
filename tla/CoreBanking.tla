---------------------------- MODULE CoreBanking ----------------------------
(***************************************************************************)
(* The core-banking service of the bank template: funds holds              *)
(* (hold_service.go), held transfers and their reversal                    *)
(* (held_transfer.go), direct postings and voucher reversal over REST      *)
(* (txn_service.go), the ledger below them (ledger_service.go, the repos), *)
(* and the command consumer that drives the first two (consumer.go with    *)
(* messaging.ProcessDelivery).                                             *)
(*                                                                         *)
(* A service transaction is one step: PlaceHold and every posting hold the *)
(* account_balance rows FOR UPDATE, captures and releases the hold row,    *)
(* reversals the voucher's rows.  The consumer's own transaction (Inbox    *)
(* row, result event) is a second one, committed after the service's: a    *)
(* crash between the two is a step of its own.                             *)
(*                                                                         *)
(* One accounting date.  Accounts are read outside the transaction, so     *)
(* whether one is active is a free choice at each posting.  Every voucher  *)
(* has one debit and one credit entry of one amount.                       *)
(***************************************************************************)
EXTENDS Integers, FiniteSets, FiniteSetsExt

CONSTANTS
    Accounts,       \* demand accounts
    Cash,           \* the cash account, domain.CashSubject
    Workflows,      \* payments; each is one hold and one transfer
    FromAccount, ToAccount, Amount, \* the prepared context of a payment
    OpeningBalance, \* balances on the accounting date
    ApiAmounts,     \* amounts of direct postings
    Modes,          \* the REST operations that are used
    Consumers,      \* replicas of the service
    Kinds,          \* command types that are sent
    MaxVouchers,    \* bound: vouchers posted
    MaxDirect,      \* bound: vouchers posted over REST
    MaxCommands,    \* bound: command messages sent
    MaxFaults,      \* bound: crashes, failed steps and duplicate deliveries
    None

ASSUME CoreAssumption ==
    /\ Cash \notin Accounts
    /\ FromAccount \in [Workflows -> Accounts]
    /\ ToAccount \in [Workflows -> Accounts]
    /\ Amount \in [Workflows -> Int]
    /\ OpeningBalance \in [Accounts \cup {Cash} -> Nat]
    /\ ApiAmounts \subseteq Nat \ {0}
    /\ Modes \subseteq {"deposit", "withdraw", "transfer", "blue", "red"}
    /\ Kinds \subseteq {"place", "release", "post", "reverse", "unknown"}
    /\ MaxVouchers \in Nat /\ MaxDirect \in Nat /\ MaxCommands \in Nat /\ MaxFaults \in Nat
    /\ None \notin Workflows

VARIABLES
    bal,          \* account_balance
    gl,           \* gl_balance, summed over the subjects
    holds,        \* funds_hold, by workflow (one idempotency key each)
    journal,      \* acct_txn, by voucher
    heldTransfer, \* held_transfer: the voucher of a workflow's transfer, or 0
    reversal,     \* voucher_reversal: the voucher that reverses one, or 0
    sent,         \* command messages ever published
    queue,        \* command messages to deliver
    inbox,        \* inbox_message
    outbox,       \* result events appended to outbox_message
    cons,         \* what each replica is handling
    faults        \* faults so far

ledger == <<bal, gl, holds, journal, heldTransfer, reversal>>
vars == <<bal, gl, holds, journal, heldTransfer, reversal, sent, queue, inbox,
          outbox, cons, faults>>

AllAccounts == Accounts \cup {Cash}
Vouchers == 1 .. MaxVouchers

---------------------------------------------------------------------------
(* Types *)

HoldStatus == {"none", "active", "released", "captured"}

ErrorClasses == {"business_rejected", "invariant_violation", "invalid_message"}

\* ref is the voucher whose first transaction ref_txn_id names, or 0; hold is
\* the payment it belongs to (a history field).
VoucherRow == [status : {"none", "normal", "reversed"}, debit : AllAccounts,
               credit : AllAccounts, amt : Int, ref : 0 .. MaxVouchers,
               hold : Workflows \cup {None}]

\* n is the MessageID: a re-dispatched or retried command is a new message.
Message == [kind : {"place", "release", "post", "reverse", "unknown"},
            wf : Workflows, n : Nat]

Event == [kind : {"place", "release", "post", "reverse", "unknown"},
          wf : Workflows, n : Nat, result : ErrorClasses \cup {"ok"}]

TypeOK ==
    /\ bal \in [AllAccounts -> Int]
    /\ gl \in [dc : Int, cc : Int]
    /\ holds \in [Workflows -> HoldStatus]
    /\ journal \in [Vouchers -> VoucherRow]
    /\ heldTransfer \in [Workflows -> 0 .. MaxVouchers]
    /\ reversal \in [Vouchers -> 0 .. MaxVouchers]
    /\ sent \subseteq Message
    /\ queue \subseteq sent
    /\ inbox \subseteq sent
    /\ outbox \subseteq Event
    /\ cons \in [Consumers -> [stage : {"idle", "handle", "commit"},
                               msg : Message \cup {None}, result : ErrorClasses \cup {"ok", None}]]
    /\ faults \in Nat

NoVoucher == [status |-> "none", debit |-> Cash, credit |-> Cash, amt |-> 0, ref |-> 0,
              hold |-> None]

Idle == [stage |-> "idle", msg |-> None, result |-> None]

Init ==
    /\ bal = OpeningBalance
    /\ gl = [dc |-> 0, cc |-> 0]
    /\ holds = [w \in Workflows |-> "none"]
    /\ journal = [v \in Vouchers |-> NoVoucher]
    /\ heldTransfer = [w \in Workflows |-> 0]
    /\ reversal = [v \in Vouchers |-> 0]
    /\ sent = {} /\ queue = {} /\ inbox = {} /\ outbox = {}
    /\ cons = [c \in Consumers |-> Idle]
    /\ faults = 0

---------------------------------------------------------------------------
(* The ledger *)

Posted == {v \in Vouchers : journal[v].status # "none"}

\* domain.NewVoucherNo
NewVoucherNo == Cardinality(Posted) + 1

CanPost == NewVoucherNo <= MaxVouchers

\* What a debit and a credit entry add to an account.
Delta(debit, credit, amt, a) ==
    (IF a = credit THEN amt ELSE 0) - (IF a = debit THEN amt ELSE 0)

\* Bounds the vouchers posted over REST.
Direct == Cardinality({v \in Posted : journal[v].hold = None}) < MaxDirect

\* LedgerService.Post: a new voucher, balances and general ledger.
Post(debit, credit, amt, ref, hold) ==
    /\ CanPost
    /\ journal' = [journal EXCEPT ![NewVoucherNo] =
                      [status |-> "normal", debit |-> debit, credit |-> credit,
                       amt |-> amt, ref |-> ref, hold |-> hold]]
    /\ bal' = [a \in AllAccounts |-> bal[a] + Delta(debit, credit, amt, a)]
    /\ gl' = [dc |-> gl.dc + amt, cc |-> gl.cc + amt]

\* available_balance is seeded equal to balance and moves by the same deltas;
\* frozen_amount stays 0.
AvailableBalance(a) == bal[a]

\* HasReversal
HasReversal(v) == \E u \in Posted : journal[u].ref = v

---------------------------------------------------------------------------
(* Direct postings and reversals over REST *)

Deposit(a, amt) ==
    /\ "deposit" \in Modes
    /\ Direct /\ Post(Cash, a, amt, 0, None)
    /\ UNCHANGED <<holds, heldTransfer, reversal, sent, queue, inbox, outbox, cons, faults>>

\* The overdraft check of Record, under the balance lock.
Overdrawn(a, amt) == amt > AvailableBalance(a)

Withdraw(a, amt) ==
    /\ "withdraw" \in Modes
    /\ ~Overdrawn(a, amt)
    /\ Direct /\ Post(a, Cash, amt, 0, None)
    /\ UNCHANGED <<holds, heldTransfer, reversal, sent, queue, inbox, outbox, cons, faults>>

Transfer(a, b, amt) ==
    /\ "transfer" \in Modes
    /\ ~Overdrawn(a, amt)
    /\ Direct /\ Post(a, b, amt, 0, None)
    /\ UNCHANGED <<holds, heldTransfer, reversal, sent, queue, inbox, outbox, cons, faults>>

\* The checks Reverse makes under the lock on the voucher's rows.
Reversible(v) == journal[v].status = "normal" /\ ~HasReversal(v)

\* Mutant: the rollback adds the voucher's deltas again.
RollbackDelta_sameSign(v, a) == Delta(journal[v].debit, journal[v].credit, journal[v].amt, a)

\* reverseRollback: the deltas of the voucher with the opposite sign.
RollbackDelta(v, a) == Delta(journal[v].credit, journal[v].debit, journal[v].amt, a)

\* Blue: the rows become reversed, balances and general ledger roll back.
ReverseBlue(v) ==
    /\ "blue" \in Modes
    /\ Reversible(v)
    /\ journal' = [journal EXCEPT ![v].status = "reversed"]
    /\ bal' = [a \in AllAccounts |-> bal[a] + RollbackDelta(v, a)]
    /\ gl' = [dc |-> gl.dc - journal[v].amt, cc |-> gl.cc - journal[v].amt]
    /\ UNCHANGED <<holds, heldTransfer, reversal, sent, queue, inbox, outbox, cons, faults>>

\* Red: the voucher stays and a second one with flipped entries refers to it.
ReverseRed(v) ==
    /\ "red" \in Modes
    /\ Reversible(v)
    /\ Direct /\ Post(journal[v].credit, journal[v].debit, journal[v].amt, v, None)
    /\ UNCHANGED <<holds, heldTransfer, reversal, sent, queue, inbox, outbox, cons, faults>>

---------------------------------------------------------------------------
(* The command consumer *)

\* The payment engine publishes a command: the hold id and the voucher it
\* names come from earlier result events.
SendCommand(kind, w) ==
    /\ kind \in Kinds
    /\ Cardinality(sent) < MaxCommands
    /\ kind \in {"release", "post"} =>
          \E e \in outbox : e.kind = "place" /\ e.wf = w /\ e.result = "ok"
    /\ kind = "reverse" =>
          \E e \in outbox : e.kind = "post" /\ e.wf = w /\ e.result = "ok"
    /\ LET copies == {m \in sent : m.kind = kind /\ m.wf = w}
           m == [kind |-> kind, wf |-> w, n |-> Cardinality(copies) + 1]
       IN  sent' = sent \cup {m} /\ queue' = queue \cup {m}
    /\ UNCHANGED <<ledger, inbox, outbox, cons, faults>>

\* A message is published or delivered once more (its mark or its ack was lost).
Redeliver(m) ==
    /\ faults < MaxFaults
    /\ m \in sent \ queue
    /\ queue' = queue \cup {m}
    /\ faults' = faults + 1
    /\ UNCHANGED <<ledger, sent, inbox, outbox, cons>>

\* ProcessDelivery inserts the Inbox row, waiting for another replica that has
\* inserted the same one and not committed; a duplicate is acknowledged.
Deliver(c, m) ==
    /\ cons[c].stage = "idle"
    /\ m \in queue
    /\ \A d \in Consumers : cons[d].msg # m
    /\ queue' = queue \ {m}
    /\ cons' = IF m \in inbox THEN cons
               ELSE [cons EXCEPT ![c] = [stage |-> "handle", msg |-> m, result |-> None]]
    /\ UNCHANGED <<ledger, sent, inbox, outbox, faults>>

Handling(c, kind) == cons[c].stage = "handle" /\ cons[c].msg.kind = kind

\* The handler returned; the consumer will append an event with this result,
\* or none.
Returned(c, result) == cons' = [cons EXCEPT ![c].stage = "commit", ![c].result = result]

EventFor(m, result) == [kind |-> m.kind, wf |-> m.wf, n |-> m.n, result |-> result]

\* The active holds on an account.
HeldOn(a) ==
    MapThenSumSet(LAMBDA w : Amount[w],
                  {w \in Workflows : holds[w] = "active" /\ FromAccount[w] = a})

\* Mutant: the authoritative check forgets the holds already placed.
Insufficient_ledgerOnly(w) == Amount[w] > bal[FromAccount[w]]

\* available = ledger balance - active holds, under the balance lock.
Insufficient(w) == Amount[w] > bal[FromAccount[w]] - HeldOn(FromAccount[w])

\* Mutant: the unique idempotency key turns a retry into an error.
PlaceResult_noReplay(w) ==
    CASE Amount[w] <= 0 -> "invariant_violation"
      [] holds[w] # "none" -> "invariant_violation"
      [] Insufficient(w) -> "business_rejected"
      [] OTHER -> "ok"

\* What PlaceHold returns: the hold of an earlier call with the same key, a
\* new one, or an error by its class.
PlaceResult(w) ==
    CASE Amount[w] <= 0 -> "invariant_violation"
      [] Amount[w] > 0 /\ holds[w] # "none" -> "ok"
      [] Amount[w] > 0 /\ holds[w] = "none" /\ Insufficient(w) -> "business_rejected"
      [] OTHER -> "ok"

PlaceHold(c) ==
    LET w == cons[c].msg.wf
    IN  /\ Handling(c, "place")
        /\ holds' = IF PlaceResult(w) = "ok" /\ holds[w] = "none"
                    THEN [holds EXCEPT ![w] = "active"] ELSE holds
        /\ Returned(c, PlaceResult(w))
        /\ UNCHANGED <<bal, gl, journal, heldTransfer, reversal, sent, queue, inbox,
                       outbox, faults>>

\* Mutant: a captured hold can be released.
Releasable_captured(w) == holds[w] # "none"

Releasable(w) == holds[w] \in {"active", "released"}

ReleaseHold(c) ==
    LET w == cons[c].msg.wf
    IN  /\ Handling(c, "release")
        /\ holds' = IF Releasable(w) THEN [holds EXCEPT ![w] = "released"] ELSE holds
        /\ Returned(c, IF Releasable(w) THEN "ok" ELSE "invariant_violation")
        /\ UNCHANGED <<bal, gl, journal, heldTransfer, reversal, sent, queue, inbox,
                       outbox, faults>>

\* The key was used before: the existing voucher is returned and no event is
\* emitted, the first call having done so.
PostReplayed(c) ==
    /\ Handling(c, "post")
    /\ heldTransfer[cons[c].msg.wf] # 0
    /\ Returned(c, None)
    /\ UNCHANGED <<ledger, sent, queue, inbox, outbox, faults>>

\* The hold is not active, or (a free choice) one of the accounts is not.
PostRefused(c) ==
    /\ Handling(c, "post")
    /\ heldTransfer[cons[c].msg.wf] = 0
    /\ Returned(c, "invariant_violation")
    /\ UNCHANGED <<ledger, sent, queue, inbox, outbox, faults>>

\* Amount, currency and account of command and hold come from one prepared
\* context and agree.
Capturable(w) == holds[w] = "active"

\* Postings, capture, idempotency row and event in one transaction.
PostHeldTransfer(c) ==
    LET w == cons[c].msg.wf
    IN  /\ Handling(c, "post")
        /\ heldTransfer[w] = 0
        /\ Capturable(w)
        /\ heldTransfer' = [heldTransfer EXCEPT ![w] = NewVoucherNo]
        /\ Post(FromAccount[w], ToAccount[w], Amount[w], 0, w)
        /\ holds' = [holds EXCEPT ![w] = "captured"]
        /\ outbox' = outbox \cup {EventFor(cons[c].msg, "ok")}
        /\ Returned(c, None)
        /\ UNCHANGED <<reversal, sent, queue, inbox, faults>>

\* HasReversalForVoucher, and the primary key of voucher_reversal.
ReversedBefore(w) == reversal[heldTransfer[w]] # 0

ReverseRefused(c) ==
    /\ Handling(c, "reverse")
    /\ ReversedBefore(cons[c].msg.wf)
    /\ Returned(c, "invariant_violation")
    /\ UNCHANGED <<ledger, sent, queue, inbox, outbox, faults>>

\* Neither txn_status nor ref_txn_id of the voucher is looked at.
ReverseTransfer(c) ==
    LET w == cons[c].msg.wf
        v == heldTransfer[w]
    IN  /\ Handling(c, "reverse")
        /\ ~ReversedBefore(w)
        /\ reversal' = [reversal EXCEPT ![v] = NewVoucherNo]
        /\ Post(journal[v].credit, journal[v].debit, journal[v].amt, v, w)
        /\ outbox' = outbox \cup {EventFor(cons[c].msg, "ok")}
        /\ Returned(c, None)
        /\ UNCHANGED <<holds, heldTransfer, sent, queue, inbox, faults>>

RejectUnknown(c) ==
    /\ Handling(c, "unknown")
    /\ Returned(c, "invalid_message")
    /\ UNCHANGED <<ledger, sent, queue, inbox, outbox, faults>>

\* The consumer's transaction: Inbox row and result event, then the ack.
CommitDelivery(c) ==
    LET m == cons[c].msg
    IN  /\ cons[c].stage = "commit"
        /\ inbox' = inbox \cup {m}
        /\ outbox' = IF cons[c].result = None THEN outbox
                     ELSE outbox \cup {EventFor(m, cons[c].result)}
        /\ cons' = [cons EXCEPT ![c] = Idle]
        /\ UNCHANGED <<ledger, sent, queue, faults>>

\* The replica dies or its transaction fails: the Inbox row and the event are
\* rolled back, what the service committed is not.  The message is delivered
\* again, without end: settleDelivery counts the attempts of RetryPolicy's
\* default queue, "core-banking.retry", which is not the one it publishes to.
FailDelivery(c) ==
    LET m == cons[c].msg
    IN  /\ faults < MaxFaults
        /\ cons[c].stage # "idle"
        /\ cons' = [cons EXCEPT ![c] = Idle]
        /\ queue' = queue \cup {m}
        /\ faults' = faults + 1
        /\ UNCHANGED <<ledger, sent, inbox, outbox>>

---------------------------------------------------------------------------

Handle(c) ==
    \/ PlaceHold(c) \/ ReleaseHold(c) \/ RejectUnknown(c)
    \/ PostReplayed(c) \/ PostRefused(c) \/ PostHeldTransfer(c)
    \/ ReverseRefused(c) \/ ReverseTransfer(c)

Consume(c) == (\E m \in queue : Deliver(c, m)) \/ Handle(c) \/ CommitDelivery(c)

Rest ==
    \/ \E a \in Accounts, amt \in ApiAmounts : Deposit(a, amt) \/ Withdraw(a, amt)
    \/ \E a, b \in Accounts, amt \in ApiAmounts : Transfer(a, b, amt)
    \/ \E v \in Vouchers : ReverseBlue(v) \/ ReverseRed(v)

Next ==
    \/ Rest
    \/ \E kind \in Kinds, w \in Workflows : SendCommand(kind, w)
    \/ \E m \in sent : Redeliver(m)
    \/ \E c \in Consumers : Consume(c) \/ FailDelivery(c)

Spec == Init /\ [][Next]_vars

\* Replicas keep consuming what the broker delivers.
FairSpec == Spec /\ \A c \in Consumers : WF_vars(Consume(c))

---------------------------------------------------------------------------
(* Safety *)

SumOver(S, f(_)) == MapThenSumSet(f, S)

Normal == {v \in Vouchers : journal[v].status = "normal"}

\* The sub-ledger and the general ledger agree with the journal: whatever
\* mixture of postings, blue and red reversals and payment reversals ran, a
\* balance is the opening balance plus its normal entries, and debits and
\* credits of the general ledger both add up to the normal vouchers.
BooksBalance ==
    /\ TypeOK
    /\ \A a \in AllAccounts :
          bal[a] = OpeningBalance[a] +
             SumOver(Normal, LAMBDA v : Delta(journal[v].debit, journal[v].credit,
                                              journal[v].amt, a))
    /\ gl.dc = SumOver(Normal, LAMBDA v : journal[v].amt)
    /\ gl.cc = gl.dc

\* A hold pays for one transfer or for none: a captured hold has exactly one
\* voucher, the one held_transfer names, and a released hold has none, however
\* often post and release commands are repeated or race.  The saga is told of a
\* transfer or reversal if and only if it is booked: a crash between the
\* transactions of service and consumer loses neither.
CapturedOnce ==
    \A w \in Workflows :
        LET paid == {v \in Posted : journal[v].hold = w /\ journal[v].ref = 0}
            Told(kind) == \E e \in outbox : e.kind = kind /\ e.wf = w /\ e.result = "ok"
        IN  /\ paid = IF holds[w] = "captured" THEN {heldTransfer[w]} ELSE {}
            /\ (holds[w] = "captured") <=> Told("post")
            /\ (heldTransfer[w] # 0 /\ ReversedBefore(w)) <=> Told("reverse")

\* Some posting other than a payment's own transfer took money from a.
Exposed(a) ==
    \E v \in Posted :
        \/ journal[v].debit = a /\ (journal[v].hold = None \/ journal[v].ref # 0)
        \/ journal[v].credit = a /\ journal[v].status = "reversed"

\* Payments alone never promise the same money twice: as long as nothing else
\* debits an account, its balance covers its active holds (so a capture never
\* overdraws it, although PostHeldTransfer does not check the balance).
HoldsCovered ==
    \A a \in Accounts : ~Exposed(a) => HeldOn(a) <= bal[a]

---------------------------------------------------------------------------
(* Liveness, under FairSpec *)

\* A hold that is placed is reported to the saga: when the replica dies after
\* PlaceHold has committed, the redelivered command finds the hold and reports
\* it.
HoldAnnounced ==
    \A w \in Workflows :
        holds[w] = "active" ~>
            \E e \in outbox : e.kind = "place" /\ e.wf = w /\ e.result = "ok"
=============================================================================
