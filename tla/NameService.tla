----------------------------- MODULE NameService -----------------------------
(***************************************************************************)
(* The global name service of bank_dcn (gns/server.go, gns/segment.go):    *)
(* which unit an account belongs to, and the opening of accounts.          *)
(*                                                                         *)
(* A request to open an account is a sequence of statements that other     *)
(* requests interleave with: look for an earlier request with the same     *)
(* id, choose a segment, read the highest number, insert the route (both   *)
(* the number and the request id are unique), have the unit create the     *)
(* account over HTTP, and delete the route again if that call failed.  A   *)
(* call that failed may still have created the account, or may create it   *)
(* later.                                                                  *)
(***************************************************************************)
EXTENDS UnitLedger, FiniteSetsExt

CONSTANTS
    Calls,        \* handlers of POST /accounts
    Applicants,   \* the customers that ask for an account
    Keyed,        \* those of them that send a requestId
    MaxTries      \* attempts to allocate a number (5 in the code)

ASSUME OpeningAssumption ==
    /\ Applicants \subseteq Customers /\ Keyed \subseteq Applicants
    /\ MaxTries \in Nat \ {0}

VARIABLES
    segs,    \* route_segment: the units that have a row, all of them ACTIVE
    route,   \* account_route: whose request each number was inserted for
    cached,  \* the numbers with an entry in the Redis cache
    op,      \* the handlers of POST /accounts
    post     \* the HTTP call of each handler to the unit

gnsVars == <<segs, route, cached, op, post>>

NoOp == [pc |-> "idle", cust |-> None, unit |-> None, num |-> 0, tries |-> 0, code |-> 0]

Goto(c, pc) == op' = [op EXCEPT ![c].pc = pc]
Reply(c, code) == op' = [op EXCEPT ![c].pc = "done", ![c].code = code]

Routed(u) == {n \in Numbers : route[n] # None /\ UnitOf(n) = u}

(***************************************************************************)
(* Locate: the cache, then the table, whose answer is cached for an hour.  *)
(***************************************************************************)
Locatable(n) == n \in cached \/ route[n] # None

Locate(n) ==
    /\ Locatable(n) /\ n \notin cached
    /\ Spend("cache")
    /\ cached' = cached \cup {n}
    /\ UNCHANGED <<ledger, adm, segs, route, op, post>>

CacheExpires(n) ==
    /\ n \in cached
    /\ Spend("cache")
    /\ cached' = cached \ {n}
    /\ UNCHANGED <<ledger, adm, segs, route, op, post>>

\* A second row for a unit is a duplicate and changes nothing.
handleAddRoute(u) ==
    /\ u \notin segs
    /\ segs' = segs \cup {u}
    /\ UNCHANGED <<unitVars, route, cached, op, post>>

(***************************************************************************)
(* Opening an account.                                                     *)
(***************************************************************************)
Found(q) == {n \in Numbers : q \in Keyed /\ route[n] = q}

\* A request (handlers are interchangeable) and findByRequestID: a hit is
\* answered at once, whatever became of the request that inserted the route.
Find(c, q) ==
    /\ op[c].pc = "idle"
    /\ c = CHOOSE d \in Calls : op[d].pc = "idle"
    /\ Spend("calls")
    /\ \/ /\ Found(q) = {}
          /\ op' = [op EXCEPT ![c].cust = q, ![c].pc = "pick"]
       \/ \E n \in Found(q) :
             op' = [op EXCEPT ![c].cust = q, ![c].pc = "done", ![c].code = 200, ![c].num = n]
    /\ UNCHANGED <<ledger, adm, segs, route, cached, post>>

\* The segment with the fewest accounts, the lowest of those.
PickSegment(S) ==
    CHOOSE u \in S : \A v \in S \ {u} :
        LET cu == Cardinality(Routed(u))
            cv == Cardinality(Routed(v))
        IN  cu < cv \/ (cu = cv /\ Seg[u].start < Seg[v].start)

Pick(c) ==
    /\ op[c].pc = "pick"
    /\ \/ segs = {} /\ Reply(c, 503)
       \/ segs # {} /\ op' = [op EXCEPT ![c].pc = "max", ![c].unit = PickSegment(segs)]
    /\ UNCHANGED <<unitVars, segs, route, cached, post>>

NextAccountID(u) == IF Routed(u) = {} THEN Seg[u].start + 1 ELSE Max(Routed(u)) + 1

\* SELECT MAX(account_id); a full segment ends the request, although another
\* one may have room.
ReadMax(c) ==
    LET id == NextAccountID(op[c].unit) IN
    /\ op[c].pc = "max"
    /\ \/ id > Seg[op[c].unit].end /\ Reply(c, 503)
       \/ id <= Seg[op[c].unit].end /\ op' = [op EXCEPT ![c].pc = "insert", ![c].num = id]
    /\ UNCHANGED <<unitVars, segs, route, cached, post>>

\* account_route without the unique key on request_id
KeyTaken_never(q) == FALSE

\* The unique key on request_id; rows without a request id do not conflict.
KeyTaken(q) == Found(q) # {}

InsertRoute(c) ==
    /\ route' = [route EXCEPT ![op[c].num] = op[c].cust]
    /\ post' = [post EXCEPT ![c] = "flying"]
    /\ Goto(c, "create")
    /\ UNCHANGED <<unitVars, segs, cached>>

TryAgain(c) ==
    /\ op' = [op EXCEPT ![c].tries = @ + 1,
                        ![c].pc = IF op[c].tries + 1 = MaxTries THEN "done" ELSE "max",
                        ![c].code = IF op[c].tries + 1 = MaxTries THEN 503 ELSE 0]
    /\ UNCHANGED <<unitVars, segs, route, cached, post>>

\* INSERT IGNORE: a duplicate number counts as allocated
Insert_ignore(c) ==
    /\ op[c].pc = "insert"
    /\ InsertRoute(c)

\* INSERT INTO account_route; a duplicate number or request id reads the
\* maximum again, until the attempts are used up.
Insert(c) ==
    /\ op[c].pc = "insert"
    /\ \/ route[op[c].num] = None /\ ~KeyTaken(op[c].cust) /\ InsertRoute(c)
       \/ (route[op[c].num] # None \/ KeyTaken(op[c].cust)) /\ TryAgain(c)

\* The unit's handleCreateAccount, whenever the request reaches it, even if
\* the name service has given up: an account that exists is left as it is and
\* reported as a success.
handleCreateAccount(c) ==
    LET n == op[c].num
        init == InitBalance[op[c].cust]
    IN
    /\ post[c] = "flying"
    /\ post' = [post EXCEPT ![c] = "handled"]
    /\ \/ owner[n] # None /\ UNCHANGED unitVars
       \/ /\ owner[n] = None
          /\ owner' = [owner EXCEPT ![n] = op[c].cust]
          /\ balance' = [balance EXCEPT ![n] = init]
          /\ IF init > 0 THEN PublishOne(BalanceEvent(<<"init", n>>, n, "CREDIT", init))
                         ELSE UNCHANGED <<adm, budget>>
          /\ UNCHANGED interest
    /\ UNCHANGED <<segs, route, cached, op>>

\* createInDCN returned without an error: cache the route, answer 201.
Created(c) ==
    /\ op[c].pc = "create" /\ post[c] = "handled"
    /\ Reply(c, 201)
    /\ cached' = cached \cup {op[c].num}
    /\ UNCHANGED <<unitVars, segs, route, post>>

\* createInDCN returned an error: the unit was not reached, it failed, or its
\* answer was lost or too late (5 s).
CreateFails(c) ==
    /\ op[c].pc = "create"
    /\ Spend("faults")
    /\ \/ UNCHANGED post
       \/ post[c] = "flying" /\ post' = [post EXCEPT ![c] = "dropped"]
    /\ Goto(c, "rollback")
    /\ UNCHANGED <<ledger, adm, segs, route, cached>>

\* DELETE FROM account_route, whose error is ignored, and answer 502.
Rollback(c) ==
    /\ op[c].pc = "rollback"
    /\ Reply(c, 502)
    /\ \/ route' = [route EXCEPT ![op[c].num] = None] /\ UNCHANGED budget
       \/ UNCHANGED route /\ Spend("faults")
    /\ UNCHANGED <<ledger, adm, segs, cached, post>>

\* The name service dies with its handlers; routes and cache stay.
GnsCrash ==
    /\ \E c \in Calls : op[c].pc \notin {"idle", "done"}
    /\ Spend("faults")
    /\ op' = [c \in Calls |-> IF op[c].pc \in {"idle", "done"} THEN op[c]
                              ELSE [op[c] EXCEPT !.pc = "done"]]
    /\ UNCHANGED <<ledger, adm, segs, route, cached, post>>

OpenAccount(c) ==
    \/ \E q \in Applicants : Find(c, q)
    \/ Pick(c)
    \/ ReadMax(c)
    \/ Insert(c)
    \/ handleCreateAccount(c)
    \/ Created(c)
    \/ CreateFails(c)
    \/ Rollback(c)

NameServiceNext ==
    \/ \E c \in Calls : OpenAccount(c)
    \/ \E n \in Numbers : Locate(n) \/ CacheExpires(n)
    \/ \E u \in Units : handleAddRoute(u)
    \/ GnsCrash

(***************************************************************************)
(* What the name service promises.                                         *)
(***************************************************************************)
Opened == {c \in Calls : op[c].code = 201}

\* A customer who was told that the account is open (201) keeps it: the route
\* stays the customer's, the account exists in the unit whose segment holds
\* the number, and that unit has a segment; no other 201 has the number, and
\* none is about the same requestId.  Other requests allocate and roll back
\* numbers meanwhile, and calls with one requestId race (handleOpenAccount,
\* findByRequestID, allocate).
OpenedStays ==
    \A c \in Opened :
        /\ route[op[c].num] = op[c].cust
        /\ owner[op[c].num] # None
        /\ UnitOf(op[c].num) = op[c].unit /\ op[c].unit \in segs
        /\ \A d \in Opened \ {c} :
              /\ op[c].num # op[d].num
              /\ ~(op[c].cust = op[d].cust /\ op[c].cust \in Keyed)

\* The creation of an account with this number was given up, by a rollback or
\* a crash, although its call to the unit may have been or may yet be executed.
GivenUp(n) ==
    \E d \in Calls : op[d].num = n /\ op[d].pc \in {"rollback", "done"}
                     /\ op[d].code \in {0, 502} /\ post[d] \in {"flying", "handled"}

\* The account behind a 201 is the one this request asked for, with its name
\* and first balance, unless an earlier creation under this number was given
\* up: the unit answers "exists" to both, and the rollback of the route
\* (handleOpenAccount) is not one of the account.
OpenedOwned ==
    \A c \in Opened : owner[op[c].num] = op[c].cust \/ GivenUp(op[c].num)
=============================================================================
