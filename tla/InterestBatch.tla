---------------------------- MODULE InterestBatch ----------------------------
(***************************************************************************)
(* End-of-day interest of bank_dcn for one business date: the batch        *)
(* scheduler (batch/scheduler.go) registers the job, calls all units at    *)
(* once, saves what they answer and closes the job; a unit                 *)
(* (dcnapp/interest.go) posts the interest of each of its accounts in a    *)
(* transaction of its own under the journal key interest-<date>-<account>. *)
(*                                                                         *)
(* A request that finds the job failed, or running for over ten minutes,   *)
(* runs it again; nothing stops two requests from both deciding so, or a   *)
(* slow first run from closing the job after its rerun.  A unit goes on    *)
(* with a call the scheduler has given up.                                 *)
(***************************************************************************)
EXTENDS UnitLedger, FiniteSetsExt

CONSTANTS Runs    \* handlers of POST /jobs/interest

VARIABLES
    job,      \* the batch_job row of the business date
    unitRow,  \* the interest saved in batch_unit_result, by unit
    run,      \* the handlers
    work,     \* the handlers' calls, as the units execute them
    due,      \* history variable: accounts with interest due since the job exists
    starts,   \* history variable: how often the job was started
    cut       \* history variable: a crash or a failed update cut a run off

history == <<due, starts, cut>>
batchVars == <<job, unitRow, run, work, history>>

NoJob == [status |-> "none", stale |-> FALSE, total |-> 0]
NoRun == [pc |-> "idle", res |-> [u \in Units |-> "off"], unsaved |-> {}, status |-> "FAILED", total |-> 0]
NoWork == [pc |-> "none", todo |-> {}, total |-> 0]

Live(r) == run[r].pc # "idle"

\* A unit is still executing the call.
Working(r, u) == work[r][u].pc = "list" \/ (work[r][u].pc = "post" /\ work[r][u].todo # {})

Free(r) == ~Live(r) /\ \A u \in Units : ~Working(r, u)

\* Division of two naturals, rounded half to even (decimal.RoundBank).
RoundBank(a, b) ==
    LET q == a \div b
        twice == 2 * (a % b)
    IN  IF twice > b \/ (twice = b /\ q % 2 = 1) THEN q + 1 ELSE q

InterestFor(bal) == RoundBank(bal * RateNum, RateDen)

Earning(u) == {n \in Numbers : owner[n] # None /\ UnitOf(n) = u /\ InterestFor(balance[n]) > 0}

\* What is still due when the balances are bal.
StillDue(bal) == {n \in due : InterestFor(bal[n]) > 0}

(***************************************************************************)
(* A unit: list the accounts, then post one after the other.               *)
(***************************************************************************)
ListAccounts(r, u) ==
    /\ work[r][u].pc = "list"
    /\ work' = [work EXCEPT ![r][u] =
                  [pc |-> "post", total |-> 0,
                   todo |-> {<<n, InterestFor(balance[n])>> : n \in Earning(u)}]]
    /\ UNCHANGED <<unitVars, job, unitRow, run, history>>

\* the count includes the entries a rerun skips
Counted_all(n, amount) == amount

\* Only what this call posted is counted; the rest was skipped as a duplicate.
Counted(n, amount) == IF interest[n] = 0 THEN amount ELSE 0

\* applyMovement under the journal key, commit, and the balance event.
PostInterest(r, u) ==
    LET n == Min({e[1] : e \in work[r][u].todo})
        entry == CHOOSE e \in work[r][u].todo : e[1] = n
        amount == entry[2]
    IN
    /\ work[r][u].pc = "post" /\ work[r][u].todo # {}
    /\ work' = [work EXCEPT ![r][u].todo = @ \ {entry}, ![r][u].total = @ + Counted(n, amount)]
    /\ \/ /\ interest[n] # 0
          /\ UNCHANGED unitVars
       \/ /\ interest[n] = 0
          /\ interest' = [interest EXCEPT ![n] = amount]
          /\ balance' = [balance EXCEPT ![n] = @ + amount]
          /\ PublishOne(BalanceEvent(<<"interest", n>>, n, "CREDIT", amount))
          /\ UNCHANGED owner
    /\ UNCHANGED <<job, unitRow, run, history>>

\* A statement fails (500) or the unit dies; what was posted stays.
UnitFails(r, u) ==
    /\ work[r][u].pc \in {"list", "post"}
    /\ Spend("faults")
    /\ work' = [work EXCEPT ![r][u].pc = "dead"]
    /\ UNCHANGED <<ledger, adm, job, unitRow, run, history>>

(***************************************************************************)
(* The scheduler.                                                          *)
(***************************************************************************)
\* FAILED, or RUNNING for more than ten minutes.
Rerunnable(j) == j.status = "FAILED" \/ (j.status = "RUNNING" /\ j.stale)

\* The SELECT that decides; otherwise the request is answered with the job.
ReadJob(r) ==
    /\ Free(r)
    /\ r = CHOOSE q \in Runs : Free(q)
    /\ Spend("runs")
    /\ \/ job.status = "none" /\ run' = [run EXCEPT ![r] = [NoRun EXCEPT !.pc = "insert"]]
       \/ Rerunnable(job) /\ run' = [run EXCEPT ![r] = [NoRun EXCEPT !.pc = "update"]]
    /\ work' = [work EXCEPT ![r] = [u \in Units |-> NoWork]]
    /\ UNCHANGED <<ledger, adm, job, unitRow, history>>

\* INSERT batch_job; a duplicate is answered 500.
InsertJob(r, active) ==
    /\ run[r].pc = "insert"
    /\ \/ /\ job.status # "none"
          /\ run' = [run EXCEPT ![r] = NoRun]
          /\ UNCHANGED <<job, due, starts>>
       \/ /\ job.status = "none"
          /\ job' = [job EXCEPT !.status = "RUNNING"]
          /\ run' = [run EXCEPT ![r].pc = "routes"]
          /\ due' = UNION {Earning(u) : u \in active}
          /\ starts' = 1
    /\ UNCHANGED <<unitVars, unitRow, work, cut>>

\* UPDATE batch_job, whatever its status has become.
UpdateJob(r) ==
    /\ run[r].pc = "update"
    /\ job' = [job EXCEPT !.status = "RUNNING", !.stale = FALSE]
    /\ run' = [run EXCEPT ![r].pc = "routes"]
    /\ starts' = starts + 1
    /\ UNCHANGED <<unitVars, unitRow, work, due, cut>>

\* fetchActiveRoutes and the start of runOnUnits.
FetchActiveRoutes(r, active) ==
    /\ run[r].pc = "routes"
    /\ \/ /\ run' = [run EXCEPT ![r].pc = "wait",
                                ![r].res = [u \in Units |-> IF u \in active THEN "wait" ELSE "off"],
                                ![r].unsaved = active]
          /\ work' = [work EXCEPT ![r] = [u \in Units |->
                         IF u \in active THEN [NoWork EXCEPT !.pc = "list"] ELSE NoWork]]
          /\ UNCHANGED budget
       \/ /\ run' = [run EXCEPT ![r].pc = "finish"]
          /\ Spend("faults")
          /\ UNCHANGED work
    /\ UNCHANGED <<ledger, adm, job, unitRow, history>>

\* A unit's answer, its failure, or a call that failed or took over 30 s while
\* the unit goes on.
UnitResult(r, u) ==
    /\ run[r].pc = "wait" /\ run[r].res[u] = "wait"
    /\ \/ /\ work[r][u].pc = "post" /\ work[r][u].todo = {}
          /\ run' = [run EXCEPT ![r].res[u] = "ok", ![r].total = @ + work[r][u].total]
          /\ work' = [work EXCEPT ![r][u].pc = "done"]
          /\ UNCHANGED budget
       \/ /\ work[r][u].pc = "dead"
          /\ run' = [run EXCEPT ![r].res[u] = "fail"]
          /\ UNCHANGED <<work, budget>>
       \/ /\ work[r][u].pc \in {"list", "post"}
          /\ Spend("faults")
          /\ run' = [run EXCEPT ![r].res[u] = "fail"]
          /\ UNCHANGED work
    /\ UNCHANGED <<ledger, adm, job, unitRow, history>>

Close(r, status, total) ==
    run' = [run EXCEPT ![r].pc = "finish", ![r].status = status, ![r].total = total]

Outcome_lenient(r) == IF \E u \in Units : run[r].res[u] = "ok" THEN "SUCCEEDED" ELSE "FAILED"

Outcome(r) == IF \E u \in Units : run[r].res[u] = "fail" THEN "FAILED" ELSE "SUCCEEDED"

\* Once all units have answered, batch_unit_result is written row by row, over
\* the rows of an earlier run.
SaveRow(r) ==
    LET u == CHOOSE v \in run[r].unsaved : \A w \in run[r].unsaved : Seg[v].start <= Seg[w].start
    IN
    /\ run[r].pc = "wait" /\ run[r].unsaved # {}
    /\ \A v \in Units : run[r].res[v] # "wait"
    /\ unitRow' = [unitRow EXCEPT ![u] = IF run[r].res[u] = "ok" THEN work[r][u].total ELSE 0]
    /\ run' = [run EXCEPT ![r].unsaved = @ \ {u}]
    /\ UNCHANGED <<unitVars, job, work, history>>

\* the error is returned before the job is closed
RowRefused_returns(r) ==
    /\ run[r].pc = "wait" /\ run[r].unsaved # {}
    /\ \E u \in run[r].unsaved : run[r].res[u] = "fail"
    /\ \A v \in Units : run[r].res[v] # "wait"
    /\ run' = [run EXCEPT ![r] = NoRun]
    /\ UNCHANGED <<unitVars, job, unitRow, work, history>>

\* A row is refused, which closes the job with a total of 0: the database
\* fails, or the unit failed, whose empty interest is no decimal (refused by
\* MySQL in strict mode; otherwise SaveRow stores it as 0).
RowRefused(r) ==
    /\ run[r].pc = "wait" /\ run[r].unsaved # {}
    /\ \A v \in Units : run[r].res[v] # "wait"
    /\ Close(r, "FAILED", 0)
    /\ \/ \E u \in run[r].unsaved : run[r].res[u] = "fail" /\ UNCHANGED budget
       \/ Spend("faults")
    /\ UNCHANGED <<ledger, adm, job, unitRow, work, history>>

AllSaved(r) ==
    /\ run[r].pc = "wait" /\ run[r].unsaved = {}
    /\ Close(r, Outcome(r), run[r].total)
    /\ UNCHANGED <<unitVars, job, unitRow, work, history>>

\* finishJob; a failure of the update is only logged and leaves a zombie.
finishJob(r) ==
    /\ run[r].pc = "finish"
    /\ run' = [run EXCEPT ![r] = NoRun]
    /\ \/ /\ job' = [job EXCEPT !.status = run[r].status, !.total = run[r].total]
          /\ UNCHANGED <<budget, cut>>
       \/ /\ Spend("faults")
          /\ cut' = TRUE
          /\ UNCHANGED job
    /\ UNCHANGED <<ledger, adm, unitRow, work, due, starts>>

\* The job has been running for ten minutes.
JobAges ==
    /\ job.status = "RUNNING" /\ ~job.stale
    /\ job' = [job EXCEPT !.stale = TRUE]
    /\ UNCHANGED <<unitVars, unitRow, run, work, history>>

\* The scheduler dies with its handlers; the units go on.
SchedulerCrash ==
    /\ \E r \in Runs : Live(r)
    /\ Spend("faults")
    /\ run' = [r \in Runs |-> NoRun]
    /\ cut' = TRUE
    /\ UNCHANGED <<ledger, adm, job, unitRow, work, due, starts>>

RunStep(r, active) ==
    \/ InsertJob(r, active)
    \/ UpdateJob(r)
    \/ FetchActiveRoutes(r, active)
    \/ \E u \in Units : UnitResult(r, u)
    \/ SaveRow(r)
    \/ RowRefused(r)
    \/ AllSaved(r)
    \/ finishJob(r)

UnitStep(r, u) == ListAccounts(r, u) \/ PostInterest(r, u)

InterestNext(active) ==
    \/ \E r \in Runs : ReadJob(r) \/ RunStep(r, active)
    \/ \E r \in Runs, u \in Units : UnitStep(r, u) \/ UnitFails(r, u)
    \/ JobAges
    \/ SchedulerCrash

(***************************************************************************)
(* What the batch promises.                                                *)
(***************************************************************************)
\* A job is SUCCEEDED only when every account that had interest due ever since
\* the job was registered has got it, whichever run closed the job and whoever
\* ran at the same time (handleCreateInterest, handleInterestBatch).
SucceededComplete ==
    job.status = "SUCCEEDED" => \A n \in due : interest[n] > 0

\* The total of a job never exceeds the interest that was posted, and when the
\* job was started once it is exactly that, and the sum of the units' rows.
\* After a rerun it is less: the rerun counts only what it posted itself.
TotalsBounded ==
    /\ job.total <= SumFunction(interest)
    /\ job.status = "SUCCEEDED" /\ starts = 1 =>
         job.total = SumFunction(interest) /\ SumFunction(unitRow) = job.total

\* A job that is running is closed, by SUCCEEDED or by FAILED, unless a crash
\* or a failed update cut a run off: units that fail or hang, rows that are
\* refused and a name service that does not answer do not leave it RUNNING
\* (runOnUnits, finishJob).
JobSettles == job.status = "RUNNING" ~> (job.status # "RUNNING" \/ cut)
=============================================================================
