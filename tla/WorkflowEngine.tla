-------------------------- MODULE WorkflowEngine --------------------------
(***************************************************************************)
(* The durable workflow engine of the bank template: Engine (engine.go),   *)
(* its Postgres Store (postgres.go), the Recovery loop (recovery.go) and   *)
(* the operator's compensation RPCs (admin_ops.go).                        *)
(*                                                                         *)
(* One Store transaction is one step: WithInstance holds the row lock      *)
(* FOR UPDATE from load to commit.  What the engine does between two       *)
(* transactions (Prepare reads the header, computes the context outside    *)
(* any transaction and then commits; a recovery worker claims, prepares,   *)
(* re-dispatches and releases in four transactions) is split into steps,   *)
(* so that workers, API callers, result deliveries and operators           *)
(* interleave there.  Wall-clock time is two flags: a deadline that has    *)
(* passed (due) and a lease that has not expired (live).                   *)
(***************************************************************************)
EXTENDS Integers, FiniteSets

CONSTANTS
    Instances,               \* workflow ids
    NumActions,              \* len(def.Actions())
    CompensationMaxAttempts, \* EngineConfig.CompensationMaxAttempts
    Workers,                 \* processes running Recovery.Run
    Callers,                 \* API requests that call Start and Prepare
    Owners,                  \* values of RecoveryConfig.Owner
    OwnerName,               \* the Owner each worker was configured with
    Contexts,                \* what Definition.Prepare may return
    Classes,                 \* ErrorClasses participants report
    MaxReplies,              \* bound: result events per command
    MaxRetries,              \* bound: RetryCompensation calls per instance
    MaxFaults,               \* bound: crashes, errors, lost or redelivered commands
    None                     \* SQL NULL

ErrorClasses == {"business_rejected", "transient_failure", "invariant_violation",
                 "invalid_message", "unknown_outcome"}

ASSUME EngineAssumption ==
    /\ NumActions \in Nat \ {0}
    /\ CompensationMaxAttempts \in Nat \ {0}
    /\ OwnerName \in [Workers -> Owners]
    /\ Workers \cap Callers = {}
    /\ None \notin Owners \cup Contexts \cup Instances
    /\ Classes \subseteq ErrorClasses
    /\ MaxReplies \in Nat /\ MaxRetries \in Nat /\ MaxFaults \in Nat

VARIABLES
    inst,     \* workflow_instance rows
    act,      \* workflow_action rows
    uuid,     \* the number of CommandIDs newUUID has produced for an instance
    outbox,   \* commands ever appended to outbox_event
    queue,    \* the commands the broker still has to deliver
    results,  \* result events the participants have published
    inbox,    \* inbox_message: the result events applied
    proc,     \* the goroutines inside Prepare or processInstance
    retries,  \* RetryCompensation calls per instance
    faults,   \* faults so far
    holder,   \* history variable: the worker whose claim set the lease
    overrun   \* history variable: instances whose lease ran out under a worker

vars == <<inst, act, uuid, outbox, queue, results, inbox, proc, retries, faults,
          holder, overrun>>

Idx == 0 .. (NumActions - 1)
Procs == Workers \cup Callers

---------------------------------------------------------------------------
(* Types *)

InstanceStatus == {"absent", "preparing", "running", "succeeded", "rejected",
                   "compensating", "compensated", "compensation_failed"}

ActionStatus == {"none", "waiting_result", "succeeded", "failed", "compensating",
                 "compensated", "compensation_failed"}

InstanceRow == [status : InstanceStatus, cur : Idx, ctx : Contexts \cup {None},
                owner : Owners \cup {None}, live : BOOLEAN]

\* out is the CommandID whose result event supplied Output, 0 when it is NULL.
ActionRow == [status : ActionStatus, dir : {"none", "forward", "compensation"},
              attempt : Nat, cmd : Nat, due : BOOLEAN, out : Nat,
              class : ErrorClasses \cup {"none"}]

\* The payload is built by Execute from the prepared context and by Compensate
\* from the forward Output; the idempotency key is <<wf, idx, dir>>.
Command == [wf : Instances, idx : Idx, dir : {"forward", "compensation"},
            cmd : Nat, ctx : Contexts \cup {None}, out : Nat]

\* (wf, cmd, n) is the MessageID; outcome is "ok" or an ErrorClass.
Result == [wf : Instances, idx : Idx, dir : {"forward", "compensation"},
           cmd : Nat, n : Nat, outcome : ErrorClasses \cup {"ok"}]

ProcState == [pc : {"idle", "sweep", "header", "commit", "redispatch", "release"},
              wf : Instances \cup {None}, ctx : Contexts \cup {None},
              batch : SUBSET Instances]

TypeOK ==
    /\ inst \in [Instances -> InstanceRow]
    /\ act \in [Instances -> [Idx -> ActionRow]]
    /\ uuid \in [Instances -> Nat]
    /\ outbox \subseteq Command
    /\ queue \subseteq outbox
    /\ results \subseteq Result
    /\ inbox \subseteq results
    /\ proc \in [Procs -> ProcState]
    /\ retries \in [Instances -> Nat]
    /\ faults \in Nat
    /\ holder \in [Instances -> Workers \cup {None}]
    /\ overrun \subseteq Instances

NoAction == [status |-> "none", dir |-> "none", attempt |-> 0, cmd |-> 0,
             due |-> FALSE, out |-> 0, class |-> "none"]

NoInstance == [status |-> "absent", cur |-> 0, ctx |-> None, owner |-> None,
               live |-> FALSE]

Idle == [pc |-> "idle", wf |-> None, ctx |-> None, batch |-> {}]

Init ==
    /\ inst = [w \in Instances |-> NoInstance]
    /\ act = [w \in Instances |-> [i \in Idx |-> NoAction]]
    /\ uuid = [w \in Instances |-> 0]
    /\ outbox = {} /\ queue = {} /\ results = {} /\ inbox = {}
    /\ proc = [p \in Procs |-> Idle]
    /\ retries = [w \in Instances |-> 0]
    /\ faults = 0
    /\ holder = [w \in Instances |-> None]
    /\ overrun = {}

---------------------------------------------------------------------------
(* Parts of a transaction on instance w *)

Cur(w) == act[w][inst[w].cur]

ForwardCommand(w, i, id, c) ==
    [wf |-> w, idx |-> i, dir |-> "forward", cmd |-> id, ctx |-> c, out |-> 0]

CompensationCommand(w, i, id) ==
    [wf |-> w, idx |-> i, dir |-> "compensation", cmd |-> id, ctx |-> inst[w].ctx,
     out |-> act[w][i].out]

AppendOutbox(c) ==
    /\ outbox' = outbox \cup {c}
    /\ queue' = queue \cup {c}

\* The ActionRecord of a fresh forward dispatch.
WaitingRow(id) ==
    [status |-> "waiting_result", dir |-> "forward", attempt |-> 1, cmd |-> id,
     due |-> FALSE, out |-> 0, class |-> "none"]

\* The ActionRecord of a compensation dispatch: Output is carried over.
CompensatingRow(old, id, attempt) ==
    [status |-> "compensating", dir |-> "compensation", attempt |-> attempt,
     cmd |-> id, due |-> FALSE, out |-> old.out, class |-> "none"]

\* Mutant: the walk starts one action too low.
lastSucceededBefore_offByOne(w, before) ==
    LET below == {i \in Idx : i < before - 1 /\ act[w][i].status = "succeeded"}
    IN  IF below = {} THEN -1 ELSE CHOOSE i \in below : \A j \in below : j <= i

\* Mutant: the walk goes from the first action up.
lastSucceededBefore_ascending(w, before) ==
    LET below == {i \in Idx : i < before /\ act[w][i].status = "succeeded"}
    IN  IF below = {} THEN -1 ELSE CHOOSE i \in below : \A j \in below : i <= j

lastSucceededBefore(w, before) ==
    LET below == {i \in Idx : i < before /\ act[w][i].status = "succeeded"}
    IN  IF below = {} THEN -1 ELSE CHOOSE i \in below : \A j \in below : j <= i

isTerminalExecutionFailure(class) ==
    class \in {"business_rejected", "invariant_violation"}

\* Saves row as action i of w and dispatches the compensation of the closest
\* succeeded action below i, or finishes the instance when there is none.
CompensateBelow(w, i, row) ==
    LET target == lastSucceededBefore(w, i)
        id == uuid[w] + 1
    IN  IF target < 0
        THEN /\ inst' = [inst EXCEPT ![w].status = "compensated"]
             /\ act' = [act EXCEPT ![w][i] = row]
             /\ UNCHANGED <<uuid, outbox, queue>>
        ELSE /\ inst' = [inst EXCEPT ![w].status = "compensating", ![w].cur = target]
             /\ act' = [act EXCEPT ![w][i] = row,
                                   ![w][target] = CompensatingRow(act[w][target], id, 1)]
             /\ uuid' = [uuid EXCEPT ![w] = id]
             /\ AppendOutbox(CompensationCommand(w, target, id))

\* Re-dispatches the compensation of the current action with a fresh CommandID.
CompensateAgain(w) ==
    LET i == inst[w].cur
        id == uuid[w] + 1
    IN  /\ inst' = [inst EXCEPT ![w].status = "compensating"]
        /\ act' = [act EXCEPT ![w][i] = CompensatingRow(act[w][i], id, act[w][i].attempt + 1)]
        /\ uuid' = [uuid EXCEPT ![w] = id]
        /\ AppendOutbox(CompensationCommand(w, i, id))

---------------------------------------------------------------------------
(* Creating and preparing an instance *)

\* WorkflowStarter.StartPayment: INSERT ... ON CONFLICT DO NOTHING, and the
\* recovery loop is left to prepare the instance.
Start(w) ==
    /\ inst[w].status = "absent"
    /\ inst' = [inst EXCEPT ![w].status = "preparing"]
    /\ UNCHANGED <<act, uuid, outbox, queue, results, inbox, proc, retries, faults, holder, overrun>>

\* The reverse endpoint: Engine.Start and then Engine.Prepare from the request
\* itself, racing the recovery loop.
StartAndPrepare(c, w) ==
    /\ proc[c].pc = "idle"
    /\ inst[w].status = "absent"
    /\ inst' = [inst EXCEPT ![w].status = "preparing"]
    /\ proc' = [proc EXCEPT ![c] = [Idle EXCEPT !.pc = "header", !.wf = w]]
    /\ UNCHANGED <<act, uuid, outbox, queue, results, inbox, retries, faults, holder, overrun>>

\* Where a process goes once Prepare has returned nil.
AfterPrepare(p) == IF p \in Workers THEN "redispatch" ELSE "idle"

Goto(p, pc) ==
    IF pc = "idle" THEN [proc EXCEPT ![p] = Idle]
                   ELSE [proc EXCEPT ![p].pc = pc, ![p].ctx = None]

\* Prepare, first half: readHeader and then Definition.Prepare outside any
\* transaction, which returns a context or a validation error (None).
ReadHeader(p) ==
    LET w == proc[p].wf
    IN  /\ proc[p].pc = "header"
        /\ IF inst[w].status # "preparing"
           THEN proc' = Goto(p, AfterPrepare(p))
           ELSE \E c \in Contexts \cup {None} :
                   proc' = [proc EXCEPT ![p].pc = "commit", ![p].ctx = c]
        /\ UNCHANGED <<inst, act, uuid, outbox, queue, results, inbox, retries, faults, holder, overrun>>

\* Mutant: Prepare commits without looking at the instance again.
StillPreparing_unchecked(w) == TRUE

\* The re-check both second halves of Prepare make under the row lock.
StillPreparing(w) == inst[w].status = "preparing"

\* Prepare, second half, when Definition.Prepare failed.
rejectInstance(p) ==
    LET w == proc[p].wf
    IN  /\ proc[p].pc = "commit" /\ proc[p].ctx = None
        /\ proc' = Goto(p, AfterPrepare(p))
        /\ inst' = IF StillPreparing(w) THEN [inst EXCEPT ![w].status = "rejected"]
                   ELSE inst
        /\ UNCHANGED <<act, uuid, outbox, queue, results, inbox, retries, faults, holder, overrun>>

\* Prepare, second half, when Definition.Prepare returned a context.
dispatchFirstAction(p) ==
    LET w == proc[p].wf
        c == proc[p].ctx
        id == uuid[w] + 1
    IN  /\ proc[p].pc = "commit" /\ c # None
        /\ proc' = Goto(p, AfterPrepare(p))
        /\ IF StillPreparing(w)
           THEN /\ inst' = [inst EXCEPT ![w].status = "running", ![w].ctx = c, ![w].cur = 0]
                /\ act' = [act EXCEPT ![w][0] = WaitingRow(id)]
                /\ uuid' = [uuid EXCEPT ![w] = id]
                /\ AppendOutbox(ForwardCommand(w, 0, id, c))
           ELSE UNCHANGED <<inst, act, uuid, outbox, queue>>
        /\ UNCHANGED <<results, inbox, retries, faults, holder, overrun>>

---------------------------------------------------------------------------
(* Applying results *)

\* Mutant: the event's command_id is not compared.
ResultAccepted_anyCommand(r) ==
    /\ r \in results \ inbox
    /\ r.idx = inst[r.wf].cur
    /\ r.dir = Cur(r.wf).dir

\* The checks ApplyResult makes before it changes anything: the event is new,
\* names the current action and command, and is of an accepted type.
ResultAccepted(r) ==
    /\ r \in results \ inbox
    /\ r.idx = inst[r.wf].cur
    /\ r.cmd = Cur(r.wf).cmd
    /\ r.dir = Cur(r.wf).dir

\* A failed forward action: the reverse walk starts, or the action just stays
\* failed in a running instance.
applyForwardFailure(r) ==
    LET w == r.wf
        i == r.idx
        row == [act[w][i] EXCEPT !.status = "failed", !.class = r.outcome]
    IN  /\ ResultAccepted(r)
        /\ inst[w].status = "running"
        /\ Cur(w).status = "waiting_result"
        /\ r.outcome # "ok"
        /\ inbox' = inbox \cup {r}
        /\ IF isTerminalExecutionFailure(r.outcome)
           THEN CompensateBelow(w, i, row)
           ELSE /\ act' = [act EXCEPT ![w][i] = row]
                /\ UNCHANGED <<inst, uuid, outbox, queue>>
        /\ UNCHANGED <<results, proc, retries, faults, holder, overrun>>

\* A succeeded forward action: dispatch the next one or finish.
applyForwardSuccess(r) ==
    LET w == r.wf
        i == r.idx
        id == uuid[w] + 1
        row == [act[w][i] EXCEPT !.status = "succeeded", !.out = r.cmd]
    IN  /\ ResultAccepted(r)
        /\ inst[w].status = "running"
        /\ Cur(w).status = "waiting_result"
        /\ r.outcome = "ok"
        /\ inbox' = inbox \cup {r}
        /\ IF i + 1 < NumActions
           THEN /\ inst' = [inst EXCEPT ![w].cur = i + 1]
                /\ act' = [act EXCEPT ![w][i] = row, ![w][i + 1] = WaitingRow(id)]
                /\ uuid' = [uuid EXCEPT ![w] = id]
                /\ AppendOutbox(ForwardCommand(w, i + 1, id, inst[w].ctx))
           ELSE /\ inst' = [inst EXCEPT ![w].status = "succeeded"]
                /\ act' = [act EXCEPT ![w][i] = row]
                /\ UNCHANGED <<uuid, outbox, queue>>
        /\ UNCHANGED <<results, proc, retries, faults, holder, overrun>>

AttemptsExhausted(w) == Cur(w).attempt >= CompensationMaxAttempts

\* A failed compensation: retry with the same key, or give up after
\* CompensationMaxAttempts.
applyCompensationFailure(r) ==
    LET w == r.wf
        i == r.idx
    IN  /\ ResultAccepted(r)
        /\ inst[w].status = "compensating"
        /\ Cur(w).status = "compensating"
        /\ r.outcome # "ok"
        /\ inbox' = inbox \cup {r}
        /\ IF AttemptsExhausted(w)
           THEN /\ inst' = [inst EXCEPT ![w].status = "compensation_failed"]
                /\ act' = [act EXCEPT ![w][i].status = "compensation_failed",
                                      ![w][i].class = r.outcome]
                /\ UNCHANGED <<uuid, outbox, queue>>
           ELSE CompensateAgain(w)
        /\ UNCHANGED <<results, proc, retries, faults, holder, overrun>>

\* A compensated action: walk to the previous succeeded one or finish.
applyCompensationSuccess(r) ==
    LET w == r.wf
        i == r.idx
    IN  /\ ResultAccepted(r)
        /\ inst[w].status = "compensating"
        /\ Cur(w).status = "compensating"
        /\ r.outcome = "ok"
        /\ inbox' = inbox \cup {r}
        /\ CompensateBelow(w, i, [act[w][i] EXCEPT !.status = "compensated", !.class = "none"])
        /\ UNCHANGED <<results, proc, retries, faults, holder, overrun>>

ApplyResult(r) ==
    \/ applyForwardFailure(r)
    \/ applyForwardSuccess(r)
    \/ applyCompensationFailure(r)
    \/ applyCompensationSuccess(r)

---------------------------------------------------------------------------
(* The recovery loop *)

\* Mutant: a claim does not look at leases.
LeaseFree_ignored(w) == TRUE

LeaseFree(w) == inst[w].owner = None \/ ~inst[w].live

\* The worker has claimed w in its sweep and not yet released it.
InHand(o, w) == proc[o].wf = w \/ w \in proc[o].batch

\* Mutant: a timed-out waiting action is not looked for.
Runnable_preparingOnly(w) == inst[w].status = "preparing"

\* Preparing, or the current action is past its deadline; never an action
\* that failed.
Runnable(w) ==
    \/ inst[w].status = "preparing"
    \/ inst[w].status = "running" /\ Cur(w).status = "waiting_result" /\ Cur(w).due
    \/ inst[w].status = "compensating" /\ Cur(w).status = "compensating" /\ Cur(w).due

\* SKIP LOCKED may leave out rows another transaction holds: any subset.
ClaimRunnable(o) ==
    /\ proc[o].pc = "idle"
    /\ \E ids \in SUBSET {w \in Instances : LeaseFree(w) /\ Runnable(w)} :
          /\ ids # {}
          /\ inst' = [w \in Instances |->
                        IF w \in ids
                        THEN [inst[w] EXCEPT !.owner = OwnerName[o], !.live = TRUE]
                        ELSE inst[w]]
          /\ holder' = [w \in Instances |-> IF w \in ids THEN o ELSE holder[w]]
          /\ proc' = [proc EXCEPT ![o] = [Idle EXCEPT !.pc = "sweep", !.batch = ids]]
    /\ UNCHANGED <<act, uuid, outbox, queue, results, inbox, retries, faults, overrun>>

\* runOnce takes the next id of its batch, or ends the sweep.
NextInBatch(o) ==
    /\ proc[o].pc = "sweep"
    /\ \/ /\ proc[o].batch = {}
          /\ proc' = Goto(o, "idle")
       \/ \E w \in proc[o].batch :
             proc' = [proc EXCEPT ![o].pc = "header", ![o].wf = w,
                                  ![o].batch = proc[o].batch \ {w}]
    /\ UNCHANGED <<inst, act, uuid, outbox, queue, results, inbox, retries, faults, holder, overrun>>

\* Mutant: the status of instance and action is not checked again.
RedispatchDue_unchecked(w) == Cur(w).due

\* The re-check Redispatch makes under the row lock.
RedispatchDue(w) ==
    inst[w].status = "running" /\ Cur(w).status = "waiting_result" /\ Cur(w).due

\* Re-emits the command of a timed-out waiting action: same CommandID, same key.
Redispatch(o) ==
    LET w == proc[o].wf
    IN  /\ proc[o].pc = "redispatch"
        /\ proc' = Goto(o, "release")
        /\ IF RedispatchDue(w)
           THEN /\ act' = [act EXCEPT ![w][inst[w].cur].due = FALSE]
                /\ AppendOutbox(ForwardCommand(w, inst[w].cur, Cur(w).cmd, inst[w].ctx))
           ELSE UNCHANGED <<act, outbox, queue>>
        /\ UNCHANGED <<inst, uuid, results, inbox, retries, faults, holder, overrun>>

OwnsLease(o, w) == inst[w].owner = OwnerName[o]

\* UPDATE ... SET lease_owner = NULL WHERE lease_owner = owner.
ReleaseLease(o) ==
    LET w == proc[o].wf
    IN  /\ proc[o].pc = "release"
        /\ proc' = [proc EXCEPT ![o].pc = "sweep", ![o].wf = None]
        /\ IF OwnsLease(o, w)
           THEN /\ inst' = [inst EXCEPT ![w].owner = None, ![w].live = FALSE]
                /\ holder' = [holder EXCEPT ![w] = None]
           ELSE UNCHANGED <<inst, holder>>
        /\ UNCHANGED <<act, uuid, outbox, queue, results, inbox, retries, faults, overrun>>

\* Prepare or Redispatch returned an error (its transaction rolled back): the
\* worker releases the lease, an API caller reports the error.
StepError(p) ==
    /\ faults < MaxFaults
    /\ proc[p].pc \in {"header", "commit", "redispatch"}
    /\ proc' = Goto(p, IF p \in Workers THEN "release" ELSE "idle")
    /\ faults' = faults + 1
    /\ UNCHANGED <<inst, act, uuid, outbox, queue, results, inbox, retries, holder, overrun>>

\* The process dies between two transactions; its leases stay behind.
Crash(p) ==
    /\ faults < MaxFaults
    /\ proc[p].pc # "idle"
    /\ proc' = Goto(p, "idle")
    /\ faults' = faults + 1
    /\ UNCHANGED <<inst, act, uuid, outbox, queue, results, inbox, retries, holder, overrun>>

---------------------------------------------------------------------------
(* Operators *)

RetryCompensation(w) ==
    /\ retries[w] < MaxRetries
    /\ inst[w].status = "compensation_failed"
    /\ Cur(w).status = "compensation_failed"
    /\ retries' = [retries EXCEPT ![w] = @ + 1]
    /\ CompensateAgain(w)
    /\ UNCHANGED <<results, inbox, proc, faults, holder, overrun>>

\* Mutant: any action the operator names is taken as resolved.
Resolvable_anyAction(w, i) == inst[w].status \in {"compensating", "compensation_failed"}

\* The operator names the action; its record, not CurrentAction, is checked.
Resolvable(w, i) ==
    /\ inst[w].status \in {"compensating", "compensation_failed"}
    /\ act[w][i].status \in {"compensating", "compensation_failed"}

ResolveCompensation(w, i) ==
    /\ Resolvable(w, i)
    /\ CompensateBelow(w, i, [act[w][i] EXCEPT !.status = "compensated", !.class = "none"])
    /\ UNCHANGED <<results, inbox, proc, retries, faults, holder, overrun>>

---------------------------------------------------------------------------
(* The rest of the system: clock, broker and participants *)

DeadlinePasses(w) ==
    /\ Cur(w).status \in {"waiting_result", "compensating"}
    /\ ~Cur(w).due
    /\ act' = [act EXCEPT ![w][inst[w].cur].due = TRUE]
    /\ UNCHANGED <<inst, uuid, outbox, queue, results, inbox, proc, retries, faults, holder, overrun>>

\* lease_until has passed.  Nobody renews a lease (RenewLease has no caller),
\* so that a worker may still have the instance in hand.
LeaseExpires(w) ==
    /\ inst[w].live
    /\ inst' = [inst EXCEPT ![w].live = FALSE]
    /\ overrun' = IF \E o \in Workers : InHand(o, w) THEN overrun \cup {w} ELSE overrun
    /\ UNCHANGED <<act, uuid, outbox, queue, results, inbox, proc, retries, faults, holder>>

\* A participant handles a delivered command and publishes a result event.
ParticipantReply(c, outcome) ==
    LET sent == {r \in results : r.wf = c.wf /\ r.cmd = c.cmd}
    IN  /\ c \in queue
        /\ Cardinality(sent) < MaxReplies
        /\ results' = results \cup {[wf |-> c.wf, idx |-> c.idx, dir |-> c.dir,
                                     cmd |-> c.cmd, n |-> Cardinality(sent) + 1,
                                     outcome |-> outcome]}
        /\ queue' = queue \ {c}
        /\ UNCHANGED <<inst, act, uuid, outbox, inbox, proc, retries, faults, holder, overrun>>

\* A command is delivered again: its ack, or its relay's mark, was lost.
Redeliver(c) ==
    /\ faults < MaxFaults
    /\ c \in outbox \ queue
    /\ queue' = queue \cup {c}
    /\ faults' = faults + 1
    /\ UNCHANGED <<inst, act, uuid, outbox, results, inbox, proc, retries, holder, overrun>>

\* The broker loses the command, for instance with the node its queue is on.
LoseCommand(c) ==
    /\ faults < MaxFaults
    /\ c \in queue
    /\ queue' = queue \ {c}
    /\ faults' = faults + 1
    /\ UNCHANGED <<inst, act, uuid, outbox, results, inbox, proc, retries, holder, overrun>>

---------------------------------------------------------------------------

Prepare(p) == ReadHeader(p) \/ rejectInstance(p) \/ dispatchFirstAction(p)

Recovery(o) == ClaimRunnable(o) \/ NextInBatch(o) \/ Redispatch(o) \/ ReleaseLease(o)

Environment ==
    \/ \E w \in Instances : DeadlinePasses(w) \/ LeaseExpires(w)
    \/ \E c \in outbox : Redeliver(c)
    \/ \E c \in queue : LoseCommand(c) \/ \E o \in Classes \cup {"ok"} : ParticipantReply(c, o)

Next ==
    \/ \E w \in Instances : Start(w)
    \/ \E c \in Callers, w \in Instances : StartAndPrepare(c, w)
    \/ \E p \in Procs : Prepare(p) \/ StepError(p) \/ Crash(p)
    \/ \E o \in Workers : Recovery(o)
    \/ \E r \in results : ApplyResult(r)
    \/ \E w \in Instances : RetryCompensation(w)
    \/ \E w \in Instances, i \in Idx : ResolveCompensation(w, i)
    \/ Environment

Spec == Init /\ [][Next]_vars

(***************************************************************************)
(* Fairness: the ticker of Recovery.Run and the goroutine of a request     *)
(* keep running, deadlines pass and leases expire with the clock, the      *)
(* broker delivers what it holds and redelivers what is not acknowledged.  *)
(* Nothing is assumed of operators, of Start, or of faults.                *)
(***************************************************************************)
Fairness ==
    /\ \A p \in Procs : WF_vars(Prepare(p))
    /\ \A o \in Workers : WF_vars(Recovery(o))
    /\ \A w \in Instances :
          /\ WF_vars(DeadlinePasses(w))
          /\ WF_vars(LeaseExpires(w))
          /\ WF_vars(\E r \in results : r.wf = w /\ ApplyResult(r))
          /\ WF_vars(\E c \in queue, o \in Classes \cup {"ok"} :
                         c.wf = w /\ ParticipantReply(c, o))

FairSpec == Spec /\ Fairness

---------------------------------------------------------------------------
(* Safety *)

\* The actions of an instance that have a forward Output.
Done(w) == {i \in Idx : act[w][i].out # 0}

\* Two result events of one command (a re-dispatched command is answered
\* again under a new MessageID) are never both applied: Inbox dedup and the
\* command_id / status checks of ApplyResult together advance a saga once.
ResultAppliedOnce ==
    \A r, s \in inbox : r.wf = s.wf /\ r.cmd = s.cmd => r = s

\* Whatever races in Prepare and Redispatch, all forward commands that carry
\* one idempotency key are the same command with the same payload, so that a
\* recipient may deduplicate them.
OneForwardCommand ==
    \A c, d \in outbox :
        c.dir = "forward" /\ d.dir = "forward" /\ c.wf = d.wf /\ c.idx = d.idx => c = d

\* Compensation runs in reverse order and skips nothing: when the undo of
\* action i has been dispatched, every later action that took effect is
\* already compensated, and the undo carries i's own forward Output.
ReverseOrder ==
    \A c \in outbox : c.dir = "compensation" =>
        /\ c.out # 0 /\ c.out = act[c.wf][c.idx].out
        /\ \A j \in Done(c.wf) : j > c.idx => act[c.wf][j].status = "compensated"

\* Succeeded, rejected and compensated instances never change again, whatever
\* late result, redelivery, recovery worker or operator touches them.
TerminalStable ==
    [][\A w \in Instances : inst[w].status \in {"succeeded", "rejected", "compensated"} =>
          inst'[w].status = inst[w].status /\ act'[w] = act[w]]_vars

\* A lease is cleared by the worker whose claim it is.  Only where replicas
\* share an owner name, as they do by default (payment-1), may another one of
\* that name clear it, and then a lease of the instance had run out before
\* while a worker still had it in hand: as long as sweeps are faster than the
\* lease, one name for all replicas does no harm.
LeaseReleasedByHolder ==
    [][\A w \in Instances : inst[w].owner # None /\ inst'[w].owner = None =>
          \E o \in Workers :
              /\ proc[o].pc = "release" /\ proc[o].wf = w
              /\ \/ o = holder[w]
                 \/ OwnerName[o] = OwnerName[holder[w]] /\ w \in overrun]_vars

\* Where a saga may be, row by row.  A running instance has succeeded below
\* its current action and dispatched nothing above it; a compensating one has
\* still to undo everything below the current action and nothing above it.
\* This is what makes lastSucceededBefore find the action just below.
Shape(w) ==
    LET s == inst[w].status
        k == inst[w].cur
        Is(S, i) == act[w][i].status \in S
        Undone == {"compensated", "failed", "none"}
    IN  /\ s \in {"absent", "preparing", "rejected"} =>
              k = 0 /\ \A i \in Idx : Is({"none"}, i)
        /\ s \in {"running", "compensating", "compensation_failed"} =>
              \A i \in Idx : i < k => Is({"succeeded"}, i)
        /\ s = "running" =>
              Is({"waiting_result", "failed"}, k) /\ \A i \in Idx : i > k => Is({"none"}, i)
        /\ s \in {"compensating", "compensation_failed"} =>
              Is({s}, k) /\ \A i \in Idx : i > k => Is(Undone, i)
        /\ s = "succeeded" => \A i \in Idx : Is({"succeeded"}, i)
        /\ s = "compensated" => \A i \in Idx : Is(Undone, i)

SagaShape == \A w \in Instances : Shape(w)

---------------------------------------------------------------------------
(* The engine implements Saga *)

phaseOf(w) ==
    CASE inst[w].status \in {"absent", "preparing"} -> "new"
      [] inst[w].status = "running" -> "forward"
      [] inst[w].status = "compensating" -> "backward"
      [] inst[w].status = "compensation_failed" -> "stuck"
      [] OTHER -> inst[w].status

depthOf(w) ==
    CASE inst[w].status = "running" -> inst[w].cur
      [] inst[w].status = "succeeded" -> NumActions
      [] inst[w].status \in {"compensating", "compensation_failed"} -> inst[w].cur + 1
      [] OTHER -> 0

Promise == INSTANCE Saga WITH
    Workflows <- Instances, Steps <- [w \in Instances |-> NumActions],
    phase <- [w \in Instances |-> phaseOf(w)],
    depth <- [w \in Instances |-> depthOf(w)]

\* Every step of the engine, of recovery and of operators is a step of Saga on
\* the phase and the position of the saga, or leaves them unchanged.
ImplementsSaga == Promise!SagaSpec

---------------------------------------------------------------------------
(* Liveness, under FairSpec *)

\* No instance is left preparing: a worker that crashes, errors or loses the
\* race in Prepare leaves a lease that expires and an instance another claims.
PreparingResolved ==
    \A w \in Instances : inst[w].status = "preparing" ~> inst[w].status # "preparing"

\* A forward action does not wait forever: a lost command is re-dispatched
\* after its deadline until some result event settles the action.
WaitingResolved ==
    \A w \in Instances, i \in Idx :
        act[w][i].status = "waiting_result" ~> act[w][i].status # "waiting_result"

\* Recovery keeps an instance going: neither its preparation nor a forward
\* action is left to itself (Recovery.Run, ClaimRunnable).
ForwardProgress == PreparingResolved /\ WaitingResolved
=============================================================================
