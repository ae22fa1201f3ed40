----------------------------- MODULE UnitLedger -----------------------------
(***************************************************************************)
(* The databases of the bank_dcn units and their mirror in the ADM zone.   *)
(* A unit (dcnapp) keeps accounts and a journal; after every committed     *)
(* change it publishes a balance event, and a crash or a failed            *)
(* publication in between loses the event.  ADM (adm/server.go) applies    *)
(* the events, which may be delivered again, to global_balance.            *)
(*                                                                         *)
(* This module has no behaviour of its own: NameService opens accounts and *)
(* InterestBatch posts interest on them, and DcnServices composes the two. *)
(***************************************************************************)
EXTENDS Integers, FiniteSets, Functions

CONSTANTS
    Units,        \* the DCN units that have or can get a segment
    Seg,          \* the segment of each unit: [start, end]
    Customers,    \* who an account was created for: its name and first balance
    InitBalance,  \* the initBalance a customer asks for
    RateNum,      \* the daily interest rate is RateNum / RateDen
    RateDen,
    None

\* handleAddRoute accepts a segment that has a number; the operator gives the
\* units disjoint ones, which it does not compare.
ASSUME SegmentAssumption ==
    /\ Seg \in [Units -> [start : Nat \ {0}, end : Nat]]
    /\ \A u \in Units : Seg[u].start <= Seg[u].end
    /\ \A u, v \in Units : u # v => (Seg[u].start .. Seg[u].end) \cap (Seg[v].start .. Seg[v].end) = {}
    /\ InitBalance \in [Customers -> Nat]
    /\ RateNum \in Nat /\ RateDen \in Nat \ {0}
    /\ None \notin Customers \cup Units

\* The numbers an account can have: segStart itself is a boundary only.
Numbers == UNION {Seg[u].start + 1 .. Seg[u].end : u \in Units}

\* The unit whose segment holds the number, which is where the GNS creates it.
UnitOf(n) == CHOOSE u \in Units : n \in Seg[u].start .. Seg[u].end

VARIABLES
    owner,     \* account rows: whom an account was created for, or None
    balance,   \* account.balance
    interest,  \* journal rows of the interest of the business date, 0 for none
    events,    \* balance events in the queue adm.events
    logged,    \* ADM: the keys of event_log
    mirror,    \* ADM: global_balance
    lost,      \* history variable: what each account's lost events amount to
    budget     \* how much of what is bounded is left

ledger == <<owner, balance, interest>>
adm == <<events, logged, mirror, lost>>
unitVars == <<ledger, adm, budget>>

\* Whatever is bounded (requests, runs, transfers, faults) costs one of its kind.
Spend(kind) ==
    /\ budget[kind] > 0
    /\ budget' = [budget EXCEPT ![kind] = @ - 1]

SpendBoth(kind, other) ==
    /\ budget[kind] > 0 /\ budget[other] > 0
    /\ budget' = [budget EXCEPT ![kind] = @ - 1, ![other] = @ - 1]

(***************************************************************************)
(* Balance events.  An event is identified by the transaction, the account *)
(* and the direction (uk_event); the transaction ids are init-<account>,   *)
(* interest-<date>-<account> and a random one for each local transfer.     *)
(***************************************************************************)
BalanceEvent(tx, n, dir, amount) == [tx |-> tx, acct |-> n, dir |-> dir, amount |-> amount]

Delta(e) == IF e.dir = "DEBIT" THEN -e.amount ELSE e.amount

\* uk_event without the account and the direction
EventKey_txOnly(e) == e.tx

\* uk_event (tx_id, account_id, direction)
EventKey(e) == <<e.tx, e.acct, e.dir>>

\* publishEvent, after the commit: an error is only logged and a crash of the
\* unit skips it, so that of the events es only those in kept arrive.
publishEvent(es, kept) ==
    /\ events' = events \cup kept
    /\ lost' = [n \in Numbers |->
                  lost[n] + SumFunctionOnSet([e \in es |-> Delta(e)], {e \in es \ kept : e.acct = n})]
    /\ UNCHANGED <<logged, mirror>>

\* The event arrives, or is lost for one fault.
PublishOne(e) ==
    \/ publishEvent({e}, {e}) /\ UNCHANGED budget
    \/ publishEvent({e}, {}) /\ Spend("faults")

\* ADM's consumer: log the event and add it to the mirror in one transaction,
\* or find it logged and ignore it; a lost acknowledgement is a fault.
handleEvent(e) ==
    /\ e \in events
    /\ \/ /\ EventKey(e) \in logged
          /\ UNCHANGED <<logged, mirror>>
       \/ /\ EventKey(e) \notin logged
          /\ logged' = logged \cup {EventKey(e)}
          /\ mirror' = [mirror EXCEPT ![e.acct] = @ + Delta(e)]
    /\ \/ events' = events \ {e} /\ UNCHANGED budget
       \/ UNCHANGED events /\ Spend("faults")
    /\ UNCHANGED <<ledger, lost>>

(***************************************************************************)
(* Local transfers: one transaction, then an event for either side.        *)
(***************************************************************************)
localTransfer(from, to) ==
    LET tx == <<"local", budget.transfers>>
        both == {BalanceEvent(tx, from, "DEBIT", 1), BalanceEvent(tx, to, "CREDIT", 1)}
    IN
    /\ UnitOf(from) = UnitOf(to)
    /\ owner[from] # None /\ owner[to] # None
    /\ balance[from] >= 1
    /\ balance' = [balance EXCEPT ![from] = @ - 1, ![to] = @ + 1]
    /\ \E kept \in SUBSET both :
          /\ publishEvent(both, kept)
          /\ \/ kept = both /\ Spend("transfers")
             \/ kept # both /\ SpendBoth("transfers", "faults")
    /\ UNCHANGED <<owner, interest>>
=============================================================================
