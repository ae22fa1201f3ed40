---------------------------- MODULE RmbTransfer ----------------------------
(***************************************************************************)
(* Cross-unit transfers of the bank_dcn template: the RMB coordinator      *)
(* (rmb/coordinator.go) registers a transaction, publishes its steps to    *)
(* the DCN units, collects receipts and compensates; the units             *)
(* (dcnapp/steps.go, transfer.go) move balances under a journal key.       *)
(*                                                                         *)
(* The coordinator is one process with three kinds of goroutine: request   *)
(* handlers, the receipt consumer and the timeout loop.  Every SQL         *)
(* statement or transaction is one step; publishing comes after the commit *)
(* and may be cut off by a crash.  Steps of a transaction are published    *)
(* together, so a credit may be executed before its debit.                 *)
(***************************************************************************)
EXTENDS Integers, FiniteSets

CONSTANTS
    Txs,          \* transaction ids
    Accounts,     \* accounts of all units
    Plan,         \* the steps of each transaction, in order
    NumSteps,     \* the number of steps of a transaction
    Initial,      \* initial balances
    Unopened,     \* accounts with a route whose unit has yet to create them
    LocalPairs,   \* accounts of one unit between which local transfers run
    MaxAttempts,  \* retries of a failed compensation (3 in the code)
    MaxLocal,     \* bound: local transfers
    MaxFaults,    \* bound: crashes and lost publications
    None

Step == [action : {"DEBIT", "CREDIT"}, acct : Accounts, amount : Nat \ {0}]

ASSUME PlanAssumption ==
    /\ NumSteps \in Nat \ {0}
    /\ Plan \in [Txs -> [1 .. NumSteps -> Step]]
    /\ \A t \in Txs : \A i, j \in 1 .. NumSteps :
           i # j => Plan[t][i].acct # Plan[t][j].acct
    /\ Initial \in [Accounts -> Nat]
    /\ Unopened \subseteq Accounts
    /\ LocalPairs \subseteq Accounts \X Accounts
    /\ \A p \in LocalPairs : p[1] # p[2]
    /\ MaxAttempts \in Nat /\ MaxLocal \in Nat /\ MaxFaults \in Nat
    /\ None \notin Txs

VARIABLES
    tx,        \* tx_log.status
    step,      \* tx_step_log: the rows of each transaction
    opened,    \* the accounts that have a row in their unit
    balance,   \* account.balance in all units
    journal,   \* the journal keys of the units
    msgs,      \* step messages to deliver
    receipts,  \* receipts to deliver
    creating,  \* transactions whose request handler has yet to publish
    rc,        \* the receipt consumer
    ex,        \* the timeout loop
    attempts,  \* Coordinator.attempts, in memory
    late,      \* history variable: transactions that missed a late DONE
    locals,    \* local transfers so far
    faults     \* faults so far

units == <<opened, balance, journal, locals>>
vars == <<tx, step, opened, balance, journal, msgs, receipts, creating, rc, ex, attempts, late,
          locals, faults>>

---------------------------------------------------------------------------
(* Types *)

TxStatus == {"none", "PROCESSING", "COMMITTED", "COMPENSATED", "FAILED"}

StepStatus == {"PENDING", "DONE", "FAILED"}

\* Step numbers: originals first, then compensations, at most one per original.
OriginalNos == 1 .. NumSteps
CompNos == (NumSteps + 1) .. (2 * NumSteps)

\* A row of tx_step_log; a compensation row is of the step it reverses.
Row == [no : OriginalNos \cup CompNos, of : OriginalNos, status : StepStatus]

\* The message of a row, built from its payload.
StepMessage == [tx : Txs, no : OriginalNos \cup CompNos, of : OriginalNos]

Receipt == [tx : Txs, no : OriginalNos \cup CompNos, status : {"DONE", "FAILED"}]

JournalKey == [tx : Txs, acct : Accounts, comp : BOOLEAN, takes : BOOLEAN]

NoReceipt == [stage |-> "idle", r |-> None, seen |-> "PENDING", reopen |-> FALSE]

NotExpiring == [stage |-> "idle", tx |-> None]

TypeOK ==
    /\ tx \in [Txs -> TxStatus]
    /\ step \in [Txs -> SUBSET Row]
    /\ \A t \in Txs : \A a, b \in step[t] : a.no = b.no => a = b
    /\ opened \subseteq Accounts
    /\ balance \in [Accounts -> Nat]
    /\ journal \subseteq JournalKey
    /\ msgs \subseteq StepMessage /\ receipts \subseteq Receipt
    /\ creating \subseteq Txs
    /\ rc \in [stage : {"idle", "status", "update", "reopen", "advance", "publish"},
               r : Receipt \cup {None}, seen : StepStatus, reopen : BOOLEAN]
    /\ ex \in [stage : {"idle", "advance", "publish"}, tx : Txs \cup {None}]
    /\ attempts \in [Txs -> [CompNos -> 0 .. MaxAttempts]]
    /\ late \subseteq Txs
    /\ locals \in Nat /\ faults \in Nat

NoAttempts == [t \in Txs |-> [n \in CompNos |-> 0]]

Init ==
    /\ tx = [t \in Txs |-> "none"]
    /\ step = [t \in Txs |-> {}]
    /\ opened = Accounts \ Unopened
    /\ balance = Initial
    /\ journal = {} /\ msgs = {} /\ receipts = {} /\ creating = {}
    /\ rc = NoReceipt
    /\ ex = NotExpiring
    /\ attempts = NoAttempts
    /\ late = {}
    /\ locals = 0 /\ faults = 0

---------------------------------------------------------------------------
(* Registration and publication *)

IsComp(r) == r.no > NumSteps

Originals(t) == {r \in step[t] : ~IsComp(r)}

Comps(t) == {r \in step[t] : IsComp(r)}

PendingMessages(t) ==
    {[tx |-> t, no |-> r.no, of |-> r.of] : r \in {s \in step[t] : s.status = "PENDING"}}

\* register, up to its commit; a known id changes nothing.
Register(t) ==
    /\ tx[t] = "none"
    /\ tx' = [tx EXCEPT ![t] = "PROCESSING"]
    /\ step' = [step EXCEPT ![t] = {[no |-> i, of |-> i, status |-> "PENDING"] :
                                        i \in OriginalNos}]
    /\ creating' = creating \cup {t}
    /\ UNCHANGED <<units, msgs, receipts, rc, ex, attempts, late, faults>>

\* publishPending: all pending steps; a failed publication is only logged.
publishPending(t) ==
    \/ msgs' = msgs \cup PendingMessages(t) /\ UNCHANGED faults
    \/ \E m \in PendingMessages(t) :
         /\ faults < MaxFaults
         /\ faults' = faults + 1
         /\ msgs' = msgs \cup (PendingMessages(t) \ {m})

PublishCreated(t) ==
    /\ t \in creating
    /\ creating' = creating \ {t}
    /\ publishPending(t)
    /\ UNCHANGED <<tx, step, units, receipts, rc, ex, attempts, late>>

---------------------------------------------------------------------------
(* A unit executes a step *)

\* StepDirection: DEBIT and COMPENSATE_CREDIT take money, CREDIT and
\* COMPENSATE_DEBIT give it.
Takes(m) == Plan[m.tx][m.of].action = IF IsComp(m) THEN "CREDIT" ELSE "DEBIT"

\* uk_tx_acct; the key of a compensation has the suffix ":comp".
StepKey(m) == [tx |-> m.tx, acct |-> Plan[m.tx][m.of].acct, comp |-> IsComp(m),
               takes |-> Takes(m)]

\* Why applyMovement refuses a new movement: no account, or not enough money.
Refused(s, takes) == s.acct \notin opened \/ (takes /\ balance[s.acct] < s.amount)

\* classifyResult of applyMovement: a known key counts as done.
StepResult(m) ==
    IF StepKey(m) \in journal \/ ~Refused(Plan[m.tx][m.of], Takes(m)) THEN "DONE"
    ELSE "FAILED"

\* applyStep: the journal row and the movement, committed together or not at all.
applyStep(m) ==
    LET s == Plan[m.tx][m.of]
    IN  IF StepKey(m) \in journal \/ StepResult(m) = "FAILED"
        THEN UNCHANGED <<balance, journal>>
        ELSE /\ journal' = journal \cup {StepKey(m)}
             /\ balance' = [balance EXCEPT ![s.acct] =
                              IF Takes(m) THEN @ - s.amount ELSE @ + s.amount]

\* handleStep: the movement, the receipt and the acknowledgement; a unit that
\* dies before the receipt or the acknowledgement gets the message again.
handleStep(m) ==
    LET receipt == [tx |-> m.tx, no |-> m.no, status |-> StepResult(m)]
    IN  /\ m \in msgs
        /\ applyStep(m)
        /\ \/ /\ msgs' = msgs \ {m}
              /\ receipts' = receipts \cup {receipt}
              /\ UNCHANGED faults
           \/ /\ faults < MaxFaults
              /\ faults' = faults + 1
              /\ receipts' \in {receipts, receipts \cup {receipt}}
              /\ UNCHANGED msgs
        /\ UNCHANGED <<tx, step, opened, creating, rc, ex, attempts, late, locals>>

\* A transfer inside a unit, one local transaction.
localTransfer(from, to) ==
    /\ locals < MaxLocal
    /\ {from, to} \subseteq opened
    /\ balance[from] >= 1
    /\ balance' = [balance EXCEPT ![from] = @ - 1, ![to] = @ + 1]
    /\ locals' = locals + 1
    /\ UNCHANGED <<tx, step, opened, journal, msgs, receipts, creating, rc, ex, attempts, late,
                   faults>>

\* The route of an account exists before the account; an existing one is kept.
handleCreateAccount(a) ==
    /\ a \notin opened
    /\ opened' = opened \cup {a}
    /\ UNCHANGED <<tx, step, balance, journal, msgs, receipts, creating, rc, ex, attempts, late,
                   locals, faults>>

---------------------------------------------------------------------------
(* advance *)

\* Mutant: a transaction is compensating only while a step is failed.
Compensating_failedOnly(t) == \E r \in Originals(t) : r.status = "FAILED"

Compensating(t) == (\E r \in Originals(t) : r.status = "FAILED") \/ Comps(t) # {}

\* Mutant: every original is compensated.
DoneOriginals_all(t) == OriginalNos

DoneOriginals(t) == {r.no : r \in {s \in Originals(t) : s.status = "DONE"}}

\* How many compensations are missing, by count.
Missing(t) == Cardinality(DoneOriginals(t)) - Cardinality(Comps(t))

\* The steps to compensate now: the last ones that are done, whether or not
\* they have a compensation already.
Targets(t) ==
    {i \in DoneOriginals(t) : Cardinality({j \in DoneOriginals(t) : j > i}) < Missing(t)}

\* Numbers go on after the highest one.
NewComps(t) ==
    LET last == NumSteps + Cardinality(Comps(t))
    IN  {[no |-> last + 1 + Cardinality({j \in Targets(t) : j > i}), of |-> i,
          status |-> "PENDING"] : i \in Targets(t)}

FailedComps(t) == {r \in Comps(t) : r.status = "FAILED"}

FirstFailed(t) == CHOOSE r \in FailedComps(t) : \A q \in FailedComps(t) : r.no <= q.no

\* Mutant: compensations are not waited for.
Outcome_early(t) ==
    IF tx[t] # "PROCESSING" THEN "stop"
    ELSE IF ~Compensating(t)
    THEN IF \A r \in step[t] : r.status = "DONE" THEN "commit" ELSE "stop"
    ELSE IF Missing(t) > 0 THEN "compensate" ELSE "compensated"

\* What advance decides, under the row lock of the transaction.
Outcome(t) ==
    IF tx[t] # "PROCESSING" THEN "stop"
    ELSE IF ~Compensating(t)
    THEN IF \A r \in step[t] : r.status = "DONE" THEN "commit" ELSE "stop"
    ELSE IF Missing(t) > 0 THEN "compensate"
    ELSE IF FailedComps(t) # {}
    THEN IF attempts[t][FirstFailed(t).no] < MaxAttempts THEN "retry" ELSE "fail"
    ELSE IF Comps(t) # {}
    THEN IF \A r \in Comps(t) : r.status = "DONE" THEN "compensated" ELSE "stop"
    ELSE IF \E r \in Originals(t) : r.status = "PENDING" THEN "stop" ELSE "compensated"

SetRow(t, no, status) ==
    {IF r.no = no THEN [r EXCEPT !.status = status] ELSE r : r \in step[t]}

advance(t) ==
    LET o == Outcome(t)
    IN  /\ tx' = CASE o = "commit" -> [tx EXCEPT ![t] = "COMMITTED"]
                   [] o = "compensated" -> [tx EXCEPT ![t] = "COMPENSATED"]
                   [] o = "fail" -> [tx EXCEPT ![t] = "FAILED"]
                   [] OTHER -> tx
        /\ step' = CASE o = "compensate" -> [step EXCEPT ![t] = @ \cup NewComps(t)]
                     [] o = "retry" -> [step EXCEPT ![t] =
                                          SetRow(t, FirstFailed(t).no, "PENDING")]
                     [] OTHER -> step
        /\ attempts' = IF o = "retry"
                       THEN [attempts EXCEPT ![t][FirstFailed(t).no] = @ + 1]
                       ELSE attempts

\* Where the caller goes on: a new or reset compensation is published.
AfterAdvance(t) == IF Outcome(t) \in {"compensate", "retry"} THEN "publish" ELSE "idle"

---------------------------------------------------------------------------
(* The receipt consumer *)

RowOf(r) == CHOOSE s \in step[r.tx] : s.no = r.no

\* The read of the step's status.
TakeReceipt(r) ==
    /\ rc.stage = "idle"
    /\ r \in receipts
    /\ receipts' = receipts \ {r}
    /\ rc' = [NoReceipt EXCEPT !.stage = "status", !.r = r, !.seen = RowOf(r).status]
    /\ UNCHANGED <<tx, step, units, msgs, creating, ex, attempts, late, faults>>

\* Mutant: a late receipt reopens any settled transaction.
Reopenable_settled(t) == tx[t] # "PROCESSING"

Reopenable(t) == tx[t] = "COMPENSATED"

\* The read of the transaction's status.
ReadTx ==
    /\ rc.stage = "status"
    /\ rc' = [rc EXCEPT !.stage = "update",
                !.reopen = rc.seen = "FAILED" /\ rc.r.status = "DONE" /\ Reopenable(rc.r.tx)]
    /\ UNCHANGED <<tx, step, units, msgs, receipts, creating, ex, attempts, late, faults>>

\* The status the branch of handleReceipt expects the step to have.
Expected == IF rc.r.status = "DONE" /\ rc.seen = "FAILED" THEN "FAILED" ELSE "PENDING"

\* A DONE for a step that was called failed has no effect, because the step
\* was called failed after the first read or the transaction closed after the
\* second one; or it comes when other steps are compensated already.
MissedDone ==
    /\ rc.r.status = "DONE" /\ ~IsComp(rc.r) /\ RowOf(rc.r).status = "FAILED"
    /\ \/ Expected = "PENDING"
       \/ tx[rc.r.tx] = "COMPENSATED" /\ ~rc.reopen
       \/ Comps(rc.r.tx) # {}

\* The update is conditional on the status the branch expects.
UpdateStep ==
    LET r == rc.r
    IN  /\ rc.stage = "update"
        /\ step' = IF RowOf(r).status = Expected
                   THEN [step EXCEPT ![r.tx] = SetRow(r.tx, r.no, r.status)] ELSE step
        /\ late' = IF MissedDone THEN late \cup {r.tx} ELSE late
        /\ rc' = [rc EXCEPT !.stage = IF rc.reopen THEN "reopen" ELSE "advance"]
        /\ UNCHANGED <<tx, units, msgs, receipts, creating, ex, attempts, faults>>

reopenCompensation ==
    LET t == rc.r.tx
    IN  /\ rc.stage = "reopen"
        /\ tx' = IF Reopenable(t) THEN [tx EXCEPT ![t] = "PROCESSING"] ELSE tx
        /\ rc' = [rc EXCEPT !.stage = "advance"]
        /\ UNCHANGED <<step, units, msgs, receipts, creating, ex, attempts, late, faults>>

AdvanceReceipt ==
    LET t == rc.r.tx
    IN  /\ rc.stage = "advance"
        /\ advance(t)
        /\ rc' = IF AfterAdvance(t) = "publish" THEN [rc EXCEPT !.stage = "publish"]
                 ELSE NoReceipt
        /\ UNCHANGED <<units, msgs, receipts, creating, ex, late, faults>>

PublishReceipt ==
    /\ rc.stage = "publish"
    /\ publishPending(rc.r.tx)
    /\ rc' = NoReceipt
    /\ UNCHANGED <<tx, step, units, receipts, creating, ex, attempts, late>>

---------------------------------------------------------------------------
(* The timeout loop and crash recovery *)

\* Mutant: a compensating transaction is left alone.
AfterExpire_skip(t) == IF Comps(t) # {} THEN "idle" ELSE "advance"

AfterExpire(t) == IF Comps(t) # {} THEN "publish" ELSE "advance"

\* expire: pending originals fail; of a compensating transaction the pending
\* compensations are only published again.
expire(t) ==
    /\ ex.stage = "idle"
    /\ tx[t] = "PROCESSING"
    /\ step' = IF Comps(t) # {} THEN step
               ELSE [step EXCEPT ![t] = {IF r.status = "PENDING"
                                         THEN [r EXCEPT !.status = "FAILED"] ELSE r : r \in @}]
    /\ ex' = [stage |-> AfterExpire(t), tx |-> t]
    /\ UNCHANGED <<tx, units, msgs, receipts, creating, rc, attempts, late, faults>>

AdvanceExpired ==
    /\ ex.stage = "advance"
    /\ advance(ex.tx)
    /\ ex' = IF AfterAdvance(ex.tx) = "publish" THEN [ex EXCEPT !.stage = "publish"]
             ELSE NotExpiring
    /\ UNCHANGED <<units, msgs, receipts, creating, rc, late, faults>>

PublishExpired ==
    /\ ex.stage = "publish"
    /\ publishPending(ex.tx)
    /\ ex' = NotExpiring
    /\ UNCHANGED <<tx, step, units, receipts, creating, rc, attempts, late>>

\* The coordinator dies: the receipt at hand is delivered again, counters are
\* lost, and recover publishes what is pending before anything else runs.
recover ==
    /\ faults < MaxFaults
    /\ faults' = faults + 1
    /\ receipts' = IF rc.stage = "idle" THEN receipts ELSE receipts \cup {rc.r}
    /\ msgs' = msgs \cup UNION {PendingMessages(t) : t \in {u \in Txs : tx[u] = "PROCESSING"}}
    /\ rc' = NoReceipt /\ ex' = NotExpiring
    /\ creating' = {}
    /\ attempts' = NoAttempts
    /\ late' = IF rc.stage = "reopen" THEN late \cup {rc.r.tx} ELSE late
    /\ UNCHANGED <<tx, step, units>>

---------------------------------------------------------------------------

Consumer ==
    \/ \E r \in receipts : TakeReceipt(r)
    \/ ReadTx \/ UpdateStep \/ reopenCompensation \/ AdvanceReceipt \/ PublishReceipt

TimeoutLoop == (\E t \in Txs : expire(t)) \/ AdvanceExpired \/ PublishExpired

Next ==
    \/ \E t \in Txs : Register(t) \/ PublishCreated(t)
    \/ \E m \in msgs : handleStep(m)
    \/ \E p \in LocalPairs : localTransfer(p[1], p[2])
    \/ \E a \in Accounts : handleCreateAccount(a)
    \/ Consumer
    \/ TimeoutLoop
    \/ recover

Spec == Init /\ [][Next]_vars

(***************************************************************************)
(* Fairness: the receipt consumer, the one-second ticker of the timeout    *)
(* loop, and the units, to which the broker delivers until they            *)
(* acknowledge.  Request handlers may die before they publish.             *)
(***************************************************************************)
FairSpec ==
    /\ Spec
    /\ WF_vars(Consumer)
    /\ WF_vars(TimeoutLoop)
    /\ WF_vars(\E m \in msgs : handleStep(m))

---------------------------------------------------------------------------
(* Properties *)

\* Whether the unit has made the movement of a step, and has undone it.
Applied(t, i) == StepKey([tx |-> t, no |-> i, of |-> i]) \in journal
Reversed(t, i) == StepKey([tx |-> t, no |-> NumSteps + 1, of |-> i]) \in journal

\* Nothing about the transaction is under way.
Quiet(t) ==
    /\ \A m \in msgs : m.tx # t
    /\ \A r \in receipts : r.tx # t
    /\ rc.stage = "idle" \/ rc.r.tx # t
    /\ ex.tx # t
    /\ t \notin creating

\* A compensation never moves money that the step had not moved: units only
\* reverse movements they have made, whatever is lost, repeated or late.
NothingInvented ==
    \A t \in Txs, i \in OriginalNos : Reversed(t, i) => Applied(t, i)

\* COMMITTED means that every movement was made and none is reversed, then or
\* later, although receipts may come after the timeout.
CommittedStands ==
    \A t \in Txs : tx[t] = "COMMITTED" =>
        \A i \in OriginalNos : Applied(t, i) /\ ~Reversed(t, i)

\* A compensated transaction leaves every balance as it was: once nothing is
\* under way, what was applied has been reversed, although units refuse steps
\* and compensations, steps time out, and a step that was called failed turns
\* out to be done.  Excepted are the transactions that missed such a late DONE:
\* one of two reads was stale, other steps had been compensated before, or the
\* coordinator died between the update of the step and the reopening.
CompensatedInTime ==
    /\ TypeOK
    /\ \A t \in Txs \ late : tx[t] = "COMPENSATED" /\ Quiet(t) =>
          \A i \in OriginalNos : Applied(t, i) => Reversed(t, i)

\* COMMITTED and FAILED are final; only COMPENSATED is ever reopened.
FinalStays ==
    [][\A t \in Txs : tx[t] \in {"COMMITTED", "FAILED"} => tx'[t] = tx[t]]_vars

\* A registered transaction is decided although publications are lost and the
\* coordinator dies.
Settles ==
    \A t \in Txs : tx[t] = "PROCESSING" ~> tx[t] # "PROCESSING"

---------------------------------------------------------------------------
(* A statement of the documentation that the code does not keep *)

\* Reverse compensations are built for the done steps, by the difference in
\* count, so that balance totals are unchanged: once there is a compensation
\* for every done step and nothing is under way, every done step is reversed.
LateDoneReversed ==
    \A t \in Txs : tx[t] = "COMPENSATED" /\ Quiet(t) /\ Missing(t) <= 0 =>
        \A i \in DoneOriginals(t) : Reversed(t, i)
=============================================================================
