---------------------------- MODULE DcnServices ----------------------------
(***************************************************************************)
(* The services of bank_dcn around the units, together: the name service   *)
(* opens accounts and gives out the routes, the batch scheduler asks it    *)
(* for the routes and has the units post interest on the accounts that     *)
(* exist when they list them, local transfers move the balances in         *)
(* between, and ADM mirrors all of it.                                     *)
(***************************************************************************)
EXTENDS NameService, InterestBatch

CONSTANTS
    Existing,     \* the accounts at the start: number -> customer
    FirstUnits,   \* the units with a segment at the start
    Budgets       \* bounds of a behaviour: openings, cache changes, runs, transfers, faults

ASSUME ServicesAssumption ==
    /\ IsFiniteSet(Units) /\ FirstUnits \subseteq Units
    /\ DOMAIN Existing \subseteq Numbers /\ Existing \in [DOMAIN Existing -> Customers]
    /\ Budgets \subseteq [calls : Nat, cache : Nat, runs : Nat, transfers : Nat, faults : Nat]

vars == <<unitVars, gnsVars, batchVars>>

ExistingBalance(n) == IF n \in DOMAIN Existing THEN InitBalance[Existing[n]] ELSE 0

\* The seed's accounts are open, routed and mirrored; their cache entries are gone.
Init ==
    /\ owner = [n \in Numbers |-> IF n \in DOMAIN Existing THEN Existing[n] ELSE None]
    /\ balance = [n \in Numbers |-> ExistingBalance(n)]
    /\ interest = [n \in Numbers |-> 0]
    /\ events = {}
    /\ logged = {EventKey(BalanceEvent(<<"init", n>>, n, "CREDIT", ExistingBalance(n))) : n \in DOMAIN Existing}
    /\ mirror = [n \in Numbers |-> ExistingBalance(n)]
    /\ lost = [n \in Numbers |-> 0]
    /\ budget \in Budgets
    /\ segs = FirstUnits
    /\ route = owner
    /\ cached = {}
    /\ op = [c \in Calls |-> NoOp]
    /\ post = [c \in Calls |-> "none"]
    /\ job = NoJob
    /\ unitRow = [u \in Units |-> 0]
    /\ run = [r \in Runs |-> NoRun]
    /\ work = [r \in Runs |-> [u \in Units |-> NoWork]]
    /\ due = {} /\ starts = 0 /\ cut = FALSE

\* handleTransfer within a unit: both accounts are located first, which caches
\* their routes.
Transfer(from, to) ==
    /\ Locatable(from) /\ Locatable(to)
    /\ cached' = cached \cup {from, to}
    /\ localTransfer(from, to)
    /\ due' = StillDue(balance')
    /\ UNCHANGED <<segs, route, op, post, job, unitRow, run, work, starts, cut>>

Next ==
    \/ NameServiceNext /\ UNCHANGED batchVars
    \/ InterestNext(segs) /\ UNCHANGED gnsVars
    \/ \E e \in events : handleEvent(e) /\ UNCHANGED <<gnsVars, batchVars>>
    \/ \E from, to \in Numbers : Transfer(from, to)

Spec == Init /\ [][Next]_vars

\* Handlers and units go on with what they have begun; that anybody asks for
\* an account, a run or a transfer is not assumed.
FairSpec ==
    /\ Spec
    /\ \A r \in Runs :
          /\ WF_vars(RunStep(r, segs) /\ UNCHANGED gnsVars)
          /\ \A u \in Units : WF_vars(UnitStep(r, u) /\ UNCHANGED gnsVars)

TypeOK ==
    /\ owner \in [Numbers -> Customers \cup {None}]
    /\ balance \in [Numbers -> Nat] /\ interest \in [Numbers -> Nat]
    /\ mirror \in [Numbers -> Int] /\ lost \in [Numbers -> Int]
    /\ segs \subseteq Units /\ cached \subseteq Numbers
    /\ route \in [Numbers -> Customers \cup {None}]
    /\ op \in [Calls -> [pc : {"idle", "pick", "max", "insert", "create", "rollback", "done"},
                         cust : Customers \cup {None}, unit : Units \cup {None},
                         num : Numbers \cup {0}, tries : 0 .. MaxTries, code : {0, 200, 201, 502, 503}]]
    /\ post \in [Calls -> {"none", "flying", "handled", "dropped"}]
    /\ job \in [status : {"none", "RUNNING", "SUCCEEDED", "FAILED"}, stale : BOOLEAN, total : Nat]
    /\ unitRow \in [Units -> Nat]
    /\ run \in [Runs -> [pc : {"idle", "insert", "update", "routes", "wait", "finish"},
                         res : [Units -> {"off", "wait", "ok", "fail"}], unsaved : SUBSET Units,
                         status : {"SUCCEEDED", "FAILED"}, total : Nat]]
    /\ work \in [Runs -> [Units -> [pc : {"none", "list", "post", "done", "dead"},
                                    todo : SUBSET (Numbers \X Nat), total : Nat]]]
    /\ due \subseteq Numbers /\ starts \in Nat /\ cut \in BOOLEAN

(***************************************************************************)
(* What ADM promises.                                                      *)
(***************************************************************************)
Pending(n) == {e \in events : e.acct = n /\ EventKey(e) \notin logged}

\* No event is applied twice or under another's key: at any moment the mirror
\* of an account (adm/server.go handleEvent) differs from its balance in the
\* unit by exactly the events that are on their way or lost.  Redelivery, and
\* the two events of a transfer under one transaction id, are what the unique
\* key is for.
MirrorExact ==
    /\ TypeOK
    /\ \A n \in Numbers :
          balance[n] = mirror[n] + lost[n] + SumFunctionOnSet([e \in events |-> Delta(e)], Pending(n))
=============================================================================
