------------------------- MODULE RmbTransferProofs -------------------------
(***************************************************************************)
(* Proofs about RmbTransfer, for every set of transactions, every plan and *)
(* any number of crashes, lost messages and timeouts.  The invariant Books *)
(* ties the three places where a step is recorded together: a step that    *)
(* the coordinator's log, a receipt or a compensation calls done is in the *)
(* journal of its unit.                                                    *)
(***************************************************************************)
EXTENDS RmbTransfer, FiniteSetTheorems, WellFoundedInduction, TLAPS

LogRow == [no : Nat, of : OriginalNos, status : StepStatus]

Message == [tx : Txs, no : Nat, of : OriginalNos]

AnyReceipt == [tx : Txs, no : Nat, status : {"DONE", "FAILED"}]

\* The receipt consumer and the timeout loop.
ConsumerState ==
    {c \in [stage : {"idle", "status", "update", "reopen", "advance", "publish"},
            r : AnyReceipt \cup {None}, seen : StepStatus, reopen : BOOLEAN] :
        c.stage # "idle" => c.r \in AnyReceipt}

LoopState ==
    {e \in [stage : {"idle", "advance", "publish"}, tx : Txs \cup {None}] :
        e.stage # "idle" => e.tx \in Txs}

\* The types the argument needs; numbers of compensations are not bounded.
Types ==
    /\ tx \in [Txs -> TxStatus]
    /\ step \in [Txs -> SUBSET LogRow]
    /\ \A t \in Txs : IsFiniteSet(step[t])
    /\ msgs \subseteq Message
    /\ receipts \subseteq AnyReceipt
    /\ rc \in ConsumerState
    /\ ex \in LoopState
    /\ creating \subseteq Txs

\* An original row or message is of itself.
Self ==
    /\ \A t \in Txs : \A r \in step[t] : ~IsComp(r) => r.of = r.no
    /\ \A m \in msgs : ~IsComp(m) => m.of = m.no

\* What the log calls done, or compensates, was applied.
LogTrue ==
    \A t \in Txs : \A r \in step[t] :
        IsComp(r) \/ r.status = "DONE" => Applied(t, r.of)

\* A compensation message is of an applied step, and its row exists.
MessagesTrue ==
    \A m \in msgs : IsComp(m) => Applied(m.tx, m.of) /\ Comps(m.tx) # {}

\* The receipts to deliver and the one at hand.
Receipts == receipts \cup (IF rc.stage = "idle" THEN {} ELSE {rc.r})

ReceiptsTrue ==
    \A r \in Receipts : r.status = "DONE" /\ ~IsComp(r) => Applied(r.tx, r.no)

\* Messages and receipts are about rows of the log.
Logged ==
    /\ \A m \in msgs : \E s \in step[m.tx] : s.no = m.no
    /\ \A r \in Receipts : \E s \in step[r.tx] : s.no = r.no

\* Only logged compensations were executed.
ReversedTrue ==
    \A t \in Txs, i \in OriginalNos :
        Reversed(t, i) => Applied(t, i) /\ Comps(t) # {}

\* A registered transaction has its rows, another has none.
Registered ==
    \A t \in Txs : IF tx[t] = "none" THEN step[t] = {}
                   ELSE \A i \in OriginalNos : \E r \in step[t] : r.no = i

\* A committed transaction is done and has no compensation.
Committed ==
    \A t \in Txs : tx[t] = "COMMITTED" =>
        Comps(t) = {} /\ \A r \in step[t] : r.status = "DONE"

Books ==
    /\ Types /\ Self /\ LogTrue /\ MessagesTrue /\ ReceiptsTrue /\ Logged
    /\ ReversedTrue /\ Registered /\ Committed

---------------------------------------------------------------------------
(* Journal keys *)

Key(t, i, c) ==
    [tx |-> t, acct |-> Plan[t][i].acct, comp |-> c,
     takes |-> Plan[t][i].action = IF c THEN "CREDIT" ELSE "DEBIT"]

\* The key of a message depends on its step and on whether it compensates.
LEMMA MessageKey ==
    ASSUME NEW m \in Message
    PROVE  StepKey(m) = IF IsComp(m) THEN Key(m.tx, m.of, TRUE) ELSE Key(m.tx, m.of, FALSE)
<1>1. IsComp(m) \in BOOLEAN
  BY DEF IsComp
<1>2. CASE IsComp(m)
  <2>1. IsComp(m) = TRUE
    BY <1>1, <1>2
  <2> QED
    BY <2>1 DEF StepKey, Takes, Key
<1>3. CASE ~IsComp(m)
  <2>1. IsComp(m) = FALSE
    BY <1>1, <1>3
  <2> QED
    BY <2>1 DEF StepKey, Takes, Key
<1> QED
  BY <1>2, <1>3

\* The keys that Applied and Reversed look for.
LEMMA StepKeys ==
    ASSUME NEW t \in Txs, NEW i \in OriginalNos
    PROVE  /\ StepKey([tx |-> t, no |-> i, of |-> i]) = Key(t, i, FALSE)
           /\ StepKey([tx |-> t, no |-> NumSteps + 1, of |-> i]) = Key(t, i, TRUE)
<1>1. NumSteps \in Nat
  BY PlanAssumption
<1>2. ~IsComp([tx |-> t, no |-> i, of |-> i])
  BY <1>1 DEF IsComp, OriginalNos
<1>3. IsComp([tx |-> t, no |-> NumSteps + 1, of |-> i])
  BY <1>1 DEF IsComp
<1>4. /\ [tx |-> t, no |-> i, of |-> i] \in Message
      /\ [tx |-> t, no |-> NumSteps + 1, of |-> i] \in Message
  BY <1>1 DEF Message, OriginalNos
<1>5. StepKey([tx |-> t, no |-> i, of |-> i]) = Key(t, i, FALSE)
  BY <1>2, <1>4, MessageKey
<1>6. StepKey([tx |-> t, no |-> NumSteps + 1, of |-> i]) = Key(t, i, TRUE)
  BY <1>3, <1>4, MessageKey
<1> QED
  BY <1>5, <1>6

\* The accounts of a transaction differ, so keys name their step.
LEMMA KeysDiffer ==
    \A t, u \in Txs : \A i, j \in OriginalNos :
        /\ Key(t, i, TRUE) # Key(u, j, FALSE)
        /\ Key(t, i, TRUE) = Key(u, j, TRUE) => t = u /\ i = j
  BY PlanAssumption DEF Key, OriginalNos

---------------------------------------------------------------------------
(* Frames *)

\* Steps that only move messages and receipts about.
LEMMA TrafficFrame ==
    ASSUME Books,
           UNCHANGED <<tx, step, journal>>,
           \A m \in msgs' : m \in msgs \/ \E t \in Txs : m \in PendingMessages(t),
           receipts' \subseteq AnyReceipt,
           \A r \in Receipts' : r \in Receipts,
           rc' \in ConsumerState,
           ex' \in LoopState,
           creating' \subseteq Txs
    PROVE  Books'
<1>1. \A t \in Txs : \A m \in PendingMessages(t) :
        /\ m \in Message
        /\ ~IsComp(m) => m.of = m.no
        /\ IsComp(m) => Applied(m.tx, m.of) /\ Comps(m.tx) # {}
        /\ \E s \in step[m.tx] : s.no = m.no
  <2> SUFFICES ASSUME NEW t \in Txs, NEW m \in PendingMessages(t)
               PROVE  /\ m \in Message
                      /\ ~IsComp(m) => m.of = m.no
                      /\ IsComp(m) => Applied(m.tx, m.of) /\ Comps(m.tx) # {}
                      /\ \E s \in step[m.tx] : s.no = m.no
    OBVIOUS
  <2>1. PICK r \in step[t] : m = [tx |-> t, no |-> r.no, of |-> r.of]
    BY DEF PendingMessages
  <2>2. r \in LogRow
    BY <2>1 DEF Books, Types
  <2>3. m \in Message /\ m.tx = t /\ m.no = r.no /\ m.of = r.of
    BY <2>1, <2>2 DEF Message, LogRow
  <2>4. IsComp(m) <=> IsComp(r)
    BY <2>3 DEF IsComp
  <2>5. ~IsComp(r) => r.of = r.no
    BY <2>1 DEF Books, Self
  <2>6. IsComp(r) => Applied(t, r.of) /\ r \in Comps(t)
    BY <2>1 DEF Books, LogTrue, Comps
  <2> QED
    BY <2>1, <2>3, <2>4, <2>5, <2>6
<1>2. Types'
  BY <1>1 DEF Books, Types
<1>3. Self'
  BY <1>1 DEF Books, Self
<1>4. LogTrue' /\ ReversedTrue' /\ Registered' /\ Committed'
  BY DEF Books, LogTrue, ReversedTrue, Registered, Committed, Applied, Reversed, Comps
<1>5. MessagesTrue'
  BY <1>1 DEF Books, MessagesTrue, Applied, Comps
<1>6. ReceiptsTrue'
  BY DEF Books, ReceiptsTrue, Applied
<1>7. Logged'
  BY <1>1 DEF Books, Logged
<1> QED
  BY <1>2, <1>3, <1>4, <1>5, <1>6, <1>7 DEF Books

\* Steps of the coordinator on its log.
LEMMA LogFrame ==
    ASSUME Books,
           UNCHANGED <<msgs, journal>>,
           receipts' \subseteq AnyReceipt,
           \A r \in Receipts' : r \in Receipts,
           rc' \in ConsumerState,
           ex' \in LoopState,
           creating' \subseteq Txs,
           tx' \in [Txs -> TxStatus],
           step' \in [Txs -> SUBSET LogRow],
           \A t \in Txs : IsFiniteSet(step'[t]),
           \A t \in Txs : \A r \in step'[t] : ~IsComp(r) => r.of = r.no,
           \A t \in Txs : \A r \in step'[t] :
               IsComp(r) \/ r.status = "DONE" => Applied(t, r.of),
           \A t \in Txs : \A s \in step[t] : \E r \in step'[t] : r.no = s.no,
           Registered',
           \A t \in Txs : tx'[t] = "COMMITTED" =>
               \A r \in step'[t] : ~IsComp(r) /\ r.status = "DONE"
    PROVE  Books'
<1>1. \A t \in Txs : Comps(t) # {} => Comps(t)' # {}
  BY DEF Comps, IsComp
<1>2. Types'
  BY DEF Books, Types
<1>3. Self'
  BY DEF Books, Self
<1>4. LogTrue'
  BY DEF LogTrue, Applied
<1>5. MessagesTrue'
  BY <1>1 DEF Books, Types, Message, MessagesTrue, Applied
<1>6. ReceiptsTrue'
  BY DEF Books, ReceiptsTrue, Applied
<1>7. Logged'
  <2>1. \A r \in Receipts : r.tx \in Txs
    BY DEF Books, Types, Receipts, ConsumerState, AnyReceipt
  <2>2. \A m \in msgs : m.tx \in Txs
    BY DEF Books, Types, Message
  <2> QED
    BY <2>1, <2>2 DEF Books, Logged
<1>8. ReversedTrue'
  BY <1>1 DEF Books, ReversedTrue, Applied, Reversed
<1>9. Committed'
  BY DEF Committed, Comps
<1> QED
  BY <1>2, <1>3, <1>4, <1>5, <1>6, <1>7, <1>8, <1>9 DEF Books

---------------------------------------------------------------------------
(* A unit executes a step *)

\* handleStep: a key enters the journal only for a message that the log stands
\* behind, and a DONE receipt only with its key.
LEMMA HandleStepBooks ==
    ASSUME Books, NEW m \in msgs, handleStep(m)
    PROVE  Books'
<1> DEFINE receipt == [tx |-> m.tx, no |-> m.no, status |-> StepResult(m)]
<1>1. UNCHANGED <<tx, step, rc, ex, creating>>
  BY DEF handleStep
<1>2. msgs' \subseteq msgs /\ receipts' \subseteq receipts \cup {receipt}
  BY DEF handleStep
<1>3. m \in Message /\ m.tx \in Txs /\ m.of \in OriginalNos
  BY DEF Books, Types, Message
<1>4. journal' = journal \/ journal' = journal \cup {StepKey(m)}
  BY DEF handleStep, applyStep
<1>5. StepResult(m) \in {"DONE", "FAILED"}
  BY DEF StepResult
<1>6. StepResult(m) = "DONE" => StepKey(m) \in journal'
  BY DEF handleStep, applyStep
<1>7. receipt \in AnyReceipt
  BY <1>3, <1>5 DEF AnyReceipt, Message
<1>8. \A t \in Txs, i \in OriginalNos : Applied(t, i) => Applied(t, i)'
  BY <1>4 DEF Applied
<1>9. Receipts' \subseteq Receipts \cup {receipt}
  BY <1>1, <1>2 DEF Receipts
<1> HIDE DEF receipt
<1>10. Types'
  BY <1>1, <1>2, <1>7 DEF Books, Types
<1>11. Self'
  BY <1>1, <1>2 DEF Books, Self
<1>12. LogTrue'
  <2>1. \A t \in Txs : \A r \in step[t] : r.of \in OriginalNos
    BY DEF Books, Types, LogRow
  <2> QED
    BY <1>1, <1>8, <2>1 DEF Books, LogTrue
<1>13. MessagesTrue'
  <2>1. \A n \in msgs : n.tx \in Txs /\ n.of \in OriginalNos
    BY DEF Books, Types, Message
  <2> QED
    BY <1>1, <1>2, <1>8, <2>1 DEF Books, MessagesTrue, Comps
<1>14. ReceiptsTrue'
  <2>1. \A r \in Receipts : r.tx \in Txs /\ r.no \in Nat
    BY DEF Books, Types, Receipts, ConsumerState, AnyReceipt
  <2>2. ASSUME NEW r \in Receipts, r.status = "DONE", ~IsComp(r)
        PROVE  Applied(r.tx, r.no)'
    <3>1. \E s \in step[r.tx] : s.no = r.no /\ s.of \in OriginalNos /\ ~IsComp(s)
      BY <2>1, <2>2 DEF Books, Logged, Types, LogRow, IsComp
    <3>2. r.no \in OriginalNos
      BY <2>1, <3>1 DEF Books, Self
    <3> QED
      BY <1>8, <2>1, <2>2, <3>2 DEF Books, ReceiptsTrue
  <2>3. ASSUME receipt.status = "DONE", ~IsComp(receipt)
        PROVE  Applied(m.tx, m.no)'
    <3>1. ~IsComp(m) /\ StepResult(m) = "DONE"
      BY <2>3 DEF receipt, IsComp
    <3>2. m.of = m.no
      BY <3>1 DEF Books, Self
    <3>3. StepKey(m) = Key(m.tx, m.no, FALSE)
      BY <1>3, <3>1, <3>2, MessageKey
    <3>4. m.no \in OriginalNos /\ StepKey(m) \in journal'
      BY <1>3, <1>6, <3>1, <3>2
    <3>5. StepKey([tx |-> m.tx, no |-> m.no, of |-> m.no]) = Key(m.tx, m.no, FALSE)
      BY <1>3, <3>4, StepKeys
    <3> QED
      BY <3>3, <3>4, <3>5 DEF Applied
  <2> SUFFICES ASSUME NEW r \in Receipts', r.status = "DONE", ~IsComp(r)
               PROVE  Applied(r.tx, r.no)'
    BY DEF ReceiptsTrue
  <2>4. CASE r \in Receipts
    BY <2>2, <2>4
  <2>5. CASE r = receipt
    <3>1. r.tx = m.tx /\ r.no = m.no
      BY <2>5 DEF receipt
    <3> QED
      BY <2>3, <2>5, <3>1
  <2> QED
    BY <1>9, <2>4, <2>5
<1>15. Logged'
  <2>1. \E s \in step[receipt.tx] : s.no = receipt.no
    BY DEF Books, Logged, receipt
  <2> QED
    BY <1>1, <1>2, <1>9, <2>1 DEF Books, Logged
<1>16. ReversedTrue'
  <2> SUFFICES ASSUME NEW t \in Txs, NEW i \in OriginalNos, Reversed(t, i)'
               PROVE  Applied(t, i)' /\ Comps(t)' # {}
    BY DEF ReversedTrue
  <2>1. CASE Reversed(t, i)
    BY <1>1, <1>8, <2>1 DEF Books, ReversedTrue, Comps
  <2>2. CASE ~Reversed(t, i)
    <3>1. StepKey(m) = Key(t, i, TRUE)
      BY <1>4, <2>2, StepKeys DEF Reversed
    <3>2. IsComp(m) /\ m.tx = t /\ m.of = i
      <4>1. StepKey(m) = IF IsComp(m) THEN Key(m.tx, m.of, TRUE) ELSE Key(m.tx, m.of, FALSE)
        BY <1>3, MessageKey
      <4>2. /\ Key(t, i, TRUE) # Key(m.tx, m.of, FALSE)
            /\ Key(t, i, TRUE) = Key(m.tx, m.of, TRUE) => t = m.tx /\ i = m.of
        <5>1. m.tx \in Txs /\ m.of \in OriginalNos
          BY <1>3
        <5>2. \A u \in Txs : \A j \in OriginalNos :
                /\ Key(t, i, TRUE) # Key(u, j, FALSE)
                /\ Key(t, i, TRUE) = Key(u, j, TRUE) => t = u /\ i = j
          BY KeysDiffer, Zenon
        <5> QED
          BY <5>1, <5>2, Zenon
      <4> QED
        BY <3>1, <4>1, <4>2
    <3> QED
      BY <1>1, <1>8, <3>2 DEF Books, MessagesTrue, Comps
  <2> QED
    BY <2>1, <2>2
<1>17. Registered' /\ Committed'
  BY <1>1 DEF Books, Registered, Committed, Comps
<1> QED
  BY <1>10, <1>11, <1>12, <1>13, <1>14, <1>15, <1>16, <1>17 DEF Books
---------------------------------------------------------------------------
(* Steps that move messages and receipts *)

\* publishPending sends messages of pending rows only.
LEMMA PublishedMessages ==
    ASSUME NEW t \in Txs, publishPending(t)
    PROVE  \A m \in msgs' : m \in msgs \/ \E u \in Txs : m \in PendingMessages(u)
  BY DEF publishPending

\* The request handler and the two goroutines publish.
LEMMA PublishBooks ==
    ASSUME Books, (\E t \in Txs : PublishCreated(t)) \/ PublishReceipt \/ PublishExpired
    PROVE  Books'
<1>1. ASSUME NEW t \in Txs, PublishCreated(t)
      PROVE  Books'
  <2>1. \A m \in msgs' : m \in msgs \/ \E u \in Txs : m \in PendingMessages(u)
    BY <1>1, PublishedMessages DEF PublishCreated
  <2>2. UNCHANGED <<tx, step, journal, receipts, rc, ex>> /\ creating' \subseteq creating
    BY <1>1 DEF PublishCreated, units
  <2> QED
    BY <2>1, <2>2, TrafficFrame DEF Books, Types, Receipts
<1>2. CASE PublishReceipt
  <2>1. rc.r.tx \in Txs
    BY <1>2 DEF PublishReceipt, Books, Types, ConsumerState, AnyReceipt
  <2>2. \A m \in msgs' : m \in msgs \/ \E u \in Txs : m \in PendingMessages(u)
    BY <1>2, <2>1, PublishedMessages DEF PublishReceipt
  <2>3. UNCHANGED <<tx, step, journal, receipts, ex, creating>> /\ rc' = NoReceipt
    BY <1>2 DEF PublishReceipt, units
  <2>4. rc' \in ConsumerState /\ rc'.stage = "idle"
    BY <2>3 DEF NoReceipt, ConsumerState, StepStatus
  <2> QED
    BY <2>2, <2>3, <2>4, TrafficFrame DEF Books, Types, Receipts
<1>3. CASE PublishExpired
  <2>1. ex.tx \in Txs
    BY <1>3 DEF PublishExpired, Books, Types, LoopState
  <2>2. \A m \in msgs' : m \in msgs \/ \E u \in Txs : m \in PendingMessages(u)
    BY <1>3, <2>1, PublishedMessages DEF PublishExpired
  <2>3. UNCHANGED <<tx, step, journal, receipts, rc, creating>> /\ ex' = NotExpiring
    BY <1>3 DEF PublishExpired, units
  <2>4. ex' \in LoopState
    BY <2>3 DEF NotExpiring, LoopState
  <2> QED
    BY <2>2, <2>3, <2>4, TrafficFrame DEF Books, Types, Receipts
<1> QED
  BY <1>1, <1>2, <1>3

\* The row of a receipt is one of its transaction.
LEMMA RowOfReceipt ==
    ASSUME Books, NEW r \in Receipts
    PROVE  /\ r \in AnyReceipt
           /\ RowOf(r) \in step[r.tx] /\ RowOf(r).no = r.no /\ RowOf(r).status \in StepStatus
<1>1. r \in AnyReceipt /\ r.tx \in Txs
  BY DEF Books, Types, Receipts, ConsumerState, AnyReceipt
<1>2. \E s \in step[r.tx] : s.no = r.no
  BY DEF Books, Logged
<1>3. RowOf(r) \in step[r.tx] /\ RowOf(r).no = r.no
  BY <1>2 DEF RowOf
<1> QED
  BY <1>1, <1>3 DEF Books, Types, LogRow

\* Steps that leave log and journal alone.
LEMMA TrafficBooks ==
    ASSUME Books,
           \/ \E p \in LocalPairs : localTransfer(p[1], p[2])
           \/ \E a \in Accounts : handleCreateAccount(a)
           \/ \E r \in receipts : TakeReceipt(r)
           \/ ReadTx
           \/ recover
    PROVE  Books'
<1>1. ASSUME NEW p \in LocalPairs, localTransfer(p[1], p[2])
      PROVE  Books'
  <2>1. UNCHANGED <<tx, step, journal, msgs, receipts, rc, ex, creating>>
    BY <1>1 DEF localTransfer
  <2> QED
    BY <2>1, TrafficFrame DEF Books, Types, Receipts
<1>2. ASSUME NEW a \in Accounts, handleCreateAccount(a)
      PROVE  Books'
  <2>1. UNCHANGED <<tx, step, journal, msgs, receipts, rc, ex, creating>>
    BY <1>2 DEF handleCreateAccount
  <2> QED
    BY <2>1, TrafficFrame DEF Books, Types, Receipts
<1>3. ASSUME NEW r \in receipts, TakeReceipt(r)
      PROVE  Books'
  <2>1. UNCHANGED <<tx, step, journal, msgs, ex, creating>> /\ receipts' \subseteq receipts
    BY <1>3 DEF TakeReceipt, units
  <2>2. r \in AnyReceipt /\ RowOf(r).status \in StepStatus
    BY RowOfReceipt DEF Receipts
  <2>3. rc' = [stage |-> "status", r |-> r, seen |-> RowOf(r).status, reopen |-> FALSE]
    BY <1>3 DEF TakeReceipt, NoReceipt
  <2>4. rc' \in ConsumerState /\ rc'.r = r
    BY <2>2, <2>3 DEF ConsumerState
  <2>5. \A q \in Receipts' : q \in Receipts
    BY <2>1, <2>4 DEF Receipts
  <2> QED
    BY <2>1, <2>4, <2>5, TrafficFrame DEF Books, Types
<1>4. CASE ReadTx
  <2>1. UNCHANGED <<tx, step, journal, msgs, receipts, ex, creating>>
    BY <1>4 DEF ReadTx, units
  <2>2. rc \in ConsumerState /\ rc.stage = "status"
    BY <1>4 DEF ReadTx, Books, Types
  <2>3. PICK b \in BOOLEAN : rc' = [rc EXCEPT !.stage = "update", !.reopen = b]
    BY <1>4 DEF ReadTx
  <2>4. rc' \in ConsumerState /\ rc'.r = rc.r
    BY <2>2, <2>3 DEF ConsumerState
  <2> QED
    BY <2>1, <2>2, <2>4, TrafficFrame DEF Books, Types, Receipts
<1>5. CASE recover
  <2>1. UNCHANGED <<tx, step, journal>> /\ creating' = {}
    BY <1>5 DEF recover, units
  <2>2. \A m \in msgs' : m \in msgs \/ \E u \in Txs : m \in PendingMessages(u)
    BY <1>5 DEF recover
  <2>3. rc' \in ConsumerState /\ rc'.stage = "idle" /\ ex' \in LoopState
    BY <1>5 DEF recover, NoReceipt, NotExpiring, ConsumerState, LoopState, StepStatus
  <2>4. receipts' = Receipts /\ Receipts' = receipts'
    BY <1>5, <2>3 DEF recover, Receipts
  <2>5. receipts' \subseteq AnyReceipt
    BY <2>4 DEF Books, Types, Receipts, ConsumerState
  <2> QED
    BY <2>1, <2>2, <2>3, <2>4, <2>5, TrafficFrame
<1> QED
  BY <1>1, <1>2, <1>3, <1>4, <1>5

---------------------------------------------------------------------------
(* Steps on the coordinator's log *)

\* The image of a finite set under a function is finite.
LEMMA FiniteImage ==
    ASSUME NEW S, IsFiniteSet(S), NEW f, f \in [S -> {f[x] : x \in S}]
    PROVE  IsFiniteSet({f[x] : x \in S})
<1>1. f \in Surjection(S, {f[x] : x \in S})
  BY DEF Surjection
<1> QED
  BY <1>1, FS_Surjection

\* Rewriting the status of some rows keeps the log well formed.
LEMMA Relabelled ==
    ASSUME Books, NEW t \in Txs, NEW f \in [step[t] -> LogRow],
           \A r \in step[t] : f[r].no = r.no /\ f[r].of = r.of,
           \A r \in step[t] : f[r].status = "DONE" => r.status = "DONE" \/ Applied(t, r.of),
           tx[t] = "COMMITTED" => \A r \in step[t] : f[r] = r,
           step' = [step EXCEPT ![t] = {f[r] : r \in step[t]}],
           UNCHANGED <<tx, msgs, journal, receipts, creating>>,
           \A r \in Receipts' : r \in Receipts,
           rc' \in ConsumerState,
           ex' \in LoopState
    PROVE  Books'
<1>1. step \in [Txs -> SUBSET LogRow] /\ tx \in [Txs -> TxStatus]
  BY DEF Books, Types
<1>2. step'[t] = {f[r] : r \in step[t]} /\ \A u \in Txs : u # t => step'[u] = step[u]
  BY <1>1
<1>3. step' \in [Txs -> SUBSET LogRow]
  BY <1>1, <1>2
<1>4. \A u \in Txs : IsFiniteSet(step'[u])
  <2>1. IsFiniteSet(step[t])
    BY DEF Books, Types
  <2>2. f \in [step[t] -> {f[x] : x \in step[t]}]
    OBVIOUS
  <2>3. IsFiniteSet({f[x] : x \in step[t]})
    BY <2>1, <2>2, FiniteImage
  <2> QED
    BY <1>2, <2>3 DEF Books, Types
<1>5. \A u \in Txs : \A r \in step'[u] : ~IsComp(r) => r.of = r.no
  BY <1>2 DEF Books, Self, IsComp
<1>6. \A u \in Txs : \A r \in step'[u] : IsComp(r) \/ r.status = "DONE" => Applied(u, r.of)
  <2>1. ASSUME NEW r \in step[t], IsComp(f[r]) \/ f[r].status = "DONE"
        PROVE  Applied(t, f[r].of)
    <3>1. IsComp(r) \/ r.status = "DONE" \/ Applied(t, r.of)
      BY <2>1 DEF IsComp
    <3> QED
      BY <3>1 DEF Books, LogTrue
  <2> QED
    BY <1>2, <2>1 DEF Books, LogTrue
<1>7. \A u \in Txs : \A s \in step[u] : \E r \in step'[u] : r.no = s.no
  BY <1>2
<1>8. Registered'
  <2> SUFFICES ASSUME NEW u \in Txs
               PROVE  IF tx[u] = "none" THEN step'[u] = {}
                      ELSE \A i \in OriginalNos : \E r \in step'[u] : r.no = i
    BY DEF Registered
  <2>1. IF tx[u] = "none" THEN step[u] = {}
        ELSE \A i \in OriginalNos : \E r \in step[u] : r.no = i
    BY DEF Books, Registered
  <2>2. step[u] = {} => step'[u] = {}
    BY <1>2
  <2> QED
    BY <1>7, <2>1, <2>2
<1>9. \A u \in Txs : tx'[u] = "COMMITTED" =>
        \A r \in step'[u] : ~IsComp(r) /\ r.status = "DONE"
  BY <1>2 DEF Books, Committed, Comps
<1>10. receipts' \subseteq AnyReceipt /\ creating' \subseteq Txs /\ tx' \in [Txs -> TxStatus]
  BY DEF Books, Types
<1> QED
  BY <1>3, <1>4, <1>5, <1>6, <1>7, <1>8, <1>9, <1>10, LogFrame

\* register: the rows of a new transaction.
LEMMA RegisterBooks ==
    ASSUME Books, NEW t \in Txs, Register(t)
    PROVE  Books'
<1> DEFINE row == [i \in OriginalNos |-> [no |-> i, of |-> i, status |-> "PENDING"]]
<1>1. step' = [step EXCEPT ![t] = {row[i] : i \in OriginalNos}]
  BY DEF Register
<1>2. tx[t] = "none" /\ tx' = [tx EXCEPT ![t] = "PROCESSING"]
  BY DEF Register
<1>3. UNCHANGED <<msgs, journal, receipts, rc, ex>> /\ creating' = creating \cup {t}
  BY DEF Register, units
<1>4. NumSteps \in Nat /\ \A i \in OriginalNos : i \in Nat /\ ~(i > NumSteps)
  BY PlanAssumption DEF OriginalNos
<1>5. /\ \A i \in OriginalNos : row[i] \in LogRow /\ row[i].no = i /\ row[i].of = i
      /\ \A i \in OriginalNos : ~IsComp(row[i]) /\ row[i].status = "PENDING"
  BY <1>4 DEF LogRow, StepStatus, IsComp
<1>6. IsFiniteSet(OriginalNos) /\ row \in [OriginalNos -> {row[i] : i \in OriginalNos}]
  BY <1>4, FS_Interval DEF OriginalNos
<1> HIDE DEF row
<1>7. step \in [Txs -> SUBSET LogRow] /\ tx \in [Txs -> TxStatus]
  BY DEF Books, Types
<1>8. step'[t] = {row[i] : i \in OriginalNos} /\ \A u \in Txs : u # t => step'[u] = step[u]
  BY <1>1, <1>7
<1>9. tx'[t] = "PROCESSING" /\ \A u \in Txs : u # t => tx'[u] = tx[u]
  BY <1>2, <1>7
<1>10. step' \in [Txs -> SUBSET LogRow] /\ tx' \in [Txs -> TxStatus]
  BY <1>1, <1>2, <1>5, <1>7 DEF TxStatus
<1>11. step[t] = {}
  BY <1>2 DEF Books, Registered
<1>12. \A u \in Txs : IsFiniteSet(step'[u])
  <2>1. IsFiniteSet({row[i] : i \in OriginalNos})
    BY <1>6, FiniteImage
  <2> QED
    BY <1>8, <2>1 DEF Books, Types
<1>13. \A u \in Txs : \A r \in step'[u] : ~IsComp(r) => r.of = r.no
  BY <1>5, <1>8 DEF Books, Self
<1>14. \A u \in Txs : \A r \in step'[u] : IsComp(r) \/ r.status = "DONE" => Applied(u, r.of)
  BY <1>5, <1>8 DEF Books, LogTrue
<1>15. \A u \in Txs : \A s \in step[u] : \E r \in step'[u] : r.no = s.no
  BY <1>8, <1>11
<1>16. Registered'
  BY <1>5, <1>8, <1>9 DEF Books, Registered
<1>17. \A u \in Txs : tx'[u] = "COMMITTED" =>
         \A r \in step'[u] : ~IsComp(r) /\ r.status = "DONE"
  BY <1>8, <1>9 DEF Books, Committed, Comps
<1> QED
  BY <1>3, <1>10, <1>12, <1>13, <1>14, <1>15, <1>16, <1>17, LogFrame DEF Books, Types, Receipts

\* A transaction's rows with one of them relabelled.
Labelled(t, n, v) == [r \in step[t] |-> IF r.no = n THEN [r EXCEPT !.status = v] ELSE r]

\* SetRow relabels one row and keeps the others.
LEMMA SetRowFunction ==
    ASSUME NEW t \in Txs, step[t] \subseteq LogRow, NEW n \in Nat, NEW v \in StepStatus
    PROVE  /\ SetRow(t, n, v) = {Labelled(t, n, v)[r] : r \in step[t]}
           /\ Labelled(t, n, v) \in [step[t] -> LogRow]
           /\ \A r \in step[t] : /\ Labelled(t, n, v)[r].no = r.no
                                /\ Labelled(t, n, v)[r].of = r.of
           /\ \A r \in step[t] : IF r.no = n THEN Labelled(t, n, v)[r].status = v
                                ELSE Labelled(t, n, v)[r] = r
<1>1. \A r \in step[t] : [r EXCEPT !.status = v] \in LogRow
  BY DEF LogRow
<1>2. Labelled(t, n, v) \in [step[t] -> LogRow]
  BY <1>1 DEF Labelled
<1>3. \A r \in step[t] : Labelled(t, n, v)[r].no = r.no /\ Labelled(t, n, v)[r].of = r.of
  BY DEF LogRow, Labelled
<1>4. \A r \in step[t] : IF r.no = n THEN Labelled(t, n, v)[r].status = v
                        ELSE Labelled(t, n, v)[r] = r
  BY DEF LogRow, Labelled
<1>5. SetRow(t, n, v) = {Labelled(t, n, v)[r] : r \in step[t]}
  BY DEF SetRow, Labelled
<1> QED
  BY <1>2, <1>3, <1>4, <1>5

\* The conditional update of handleReceipt: a row becomes DONE on a true receipt.
LEMMA UpdateStepBooks ==
    ASSUME Books, UpdateStep
    PROVE  Books'
<1>1. PICK r : r = rc.r
  OBVIOUS
<1>2. rc \in ConsumerState /\ rc.stage = "update"
  BY DEF UpdateStep, Books, Types
<1>3. r \in Receipts
  BY <1>1, <1>2 DEF Receipts
<1>4. r \in AnyReceipt /\ RowOf(r) \in step[r.tx] /\ RowOf(r).no = r.no
  BY <1>3, RowOfReceipt
<1>5. r.tx \in Txs /\ r.no \in Nat /\ r.status \in {"DONE", "FAILED"} /\ r.status \in StepStatus
  BY <1>4 DEF AnyReceipt, StepStatus
<1>6. UNCHANGED <<tx, msgs, journal, receipts, ex, creating>>
  BY DEF UpdateStep, units
<1>7. rc' \in ConsumerState /\ rc'.r = rc.r
  <2>1. PICK z \in {"reopen", "advance"} : rc' = [rc EXCEPT !.stage = z]
    BY DEF UpdateStep
  <2> QED
    BY <1>2, <2>1 DEF ConsumerState
<1>8. \A q \in Receipts' : q \in Receipts
  BY <1>2, <1>6, <1>7 DEF Receipts
<1>9. CASE step' = step
  BY <1>6, <1>7, <1>8, <1>9, TrafficFrame DEF Books, Types
<1>10. CASE step' # step
  <2>1. /\ step' = [step EXCEPT ![r.tx] = SetRow(r.tx, r.no, r.status)]
        /\ RowOf(r).status \in {"FAILED", "PENDING"}
    BY <1>1, <1>10 DEF UpdateStep, Expected
  <2>2. PICK f : f = Labelled(r.tx, r.no, r.status)
    OBVIOUS
  <2>3. step[r.tx] \subseteq LogRow
    BY <1>5 DEF Books, Types
  <2>4. /\ SetRow(r.tx, r.no, r.status) = {f[s] : s \in step[r.tx]}
        /\ f \in [step[r.tx] -> LogRow]
        /\ \A s \in step[r.tx] : f[s].no = s.no /\ f[s].of = s.of
        /\ \A s \in step[r.tx] : IF s.no = r.no THEN f[s].status = r.status ELSE f[s] = s
    BY <1>5, <2>2, <2>3, SetRowFunction
  <2>5. tx[r.tx] # "COMMITTED"
    BY <1>4, <1>5, <2>1 DEF Books, Committed
  <2>6. ASSUME NEW s \in step[r.tx], f[s].status = "DONE"
        PROVE  s.status = "DONE" \/ Applied(r.tx, s.of)
    <3>1. CASE s.no # r.no
      BY <2>4, <2>6, <3>1
    <3>2. CASE s.no = r.no /\ IsComp(s)
      BY <1>5, <3>2 DEF Books, LogTrue
    <3>3. CASE s.no = r.no /\ ~IsComp(s)
      <4>1. ~IsComp(r) /\ r.status = "DONE"
        BY <2>4, <2>6, <3>3 DEF IsComp
      <4>2. Applied(r.tx, r.no)
        BY <1>3, <4>1 DEF Books, ReceiptsTrue
      <4>3. s.of = r.no
        BY <1>5, <3>3 DEF Books, Self
      <4> QED
        BY <4>2, <4>3
    <3> QED
      BY <3>1, <3>2, <3>3
  <2> QED
    BY <1>5, <1>6, <1>7, <1>8, <2>1, <2>4, <2>5, <2>6, Relabelled DEF Books, Types
<1> QED
  BY <1>9, <1>10

\* reopenCompensation touches no committed transaction.
LEMMA ReopenBooks ==
    ASSUME Books, reopenCompensation
    PROVE  Books'
<1>1. rc \in ConsumerState /\ rc.stage = "reopen" /\ rc' = [rc EXCEPT !.stage = "advance"]
  BY DEF reopenCompensation, Books, Types
<1>2. rc' \in ConsumerState /\ rc'.r = rc.r /\ rc.r.tx \in Txs
  BY <1>1 DEF ConsumerState, AnyReceipt
<1>3. UNCHANGED <<step, msgs, journal, receipts, ex, creating>>
  BY DEF reopenCompensation, units
<1>4. \A q \in Receipts' : q \in Receipts
  BY <1>1, <1>2, <1>3 DEF Receipts
<1>5. tx' \in [Txs -> TxStatus]
  BY DEF reopenCompensation, Books, Types, TxStatus
<1>6. \A t \in Txs : /\ tx'[t] = "none" <=> tx[t] = "none"
                     /\ tx'[t] = "COMMITTED" => tx[t] = "COMMITTED"
  BY <1>2 DEF reopenCompensation, Reopenable, Books, Types
<1>7. Registered'
  <2> SUFFICES ASSUME NEW t \in Txs
               PROVE  IF tx'[t] = "none" THEN step[t] = {}
                      ELSE \A i \in OriginalNos : \E r \in step[t] : r.no = i
    BY <1>3 DEF Registered
  <2>1. (tx'[t] = "none") <=> (tx[t] = "none")
    BY <1>6
  <2>2. IF tx[t] = "none" THEN step[t] = {}
        ELSE \A i \in OriginalNos : \E r \in step[t] : r.no = i
    BY DEF Books, Registered
  <2> QED
    BY <2>1, <2>2
<1>8. \A t \in Txs : tx'[t] = "COMMITTED" =>
        \A r \in step'[t] : ~IsComp(r) /\ r.status = "DONE"
  <2> SUFFICES ASSUME NEW t \in Txs, tx'[t] = "COMMITTED", NEW r \in step[t]
               PROVE  ~IsComp(r) /\ r.status = "DONE"
    BY <1>3
  <2>1. tx[t] = "COMMITTED"
    BY <1>6
  <2> QED
    BY <2>1 DEF Books, Committed, Comps
<1>9. /\ \A t \in Txs : \A r \in step'[t] : ~IsComp(r) => r.of = r.no
      /\ \A t \in Txs : \A r \in step'[t] : IsComp(r) \/ r.status = "DONE" => Applied(t, r.of)
      /\ \A t \in Txs : \A s \in step[t] : \E r \in step'[t] : r.no = s.no
  BY <1>3 DEF Books, Self, LogTrue
<1> QED
  BY <1>2, <1>3, <1>4, <1>5, <1>7, <1>8, <1>9, LogFrame DEF Books, Types

\* expire calls pending rows failed.
LEMMA ExpireBooks ==
    ASSUME Books, NEW t \in Txs, expire(t)
    PROVE  Books'
<1>1. UNCHANGED <<tx, msgs, journal, receipts, rc, creating>> /\ tx[t] = "PROCESSING"
  BY DEF expire, units
<1>2. ex' \in LoopState
  BY DEF expire, AfterExpire, LoopState
<1>3. CASE step' = step
  BY <1>1, <1>2, <1>3, TrafficFrame DEF Books, Types, Receipts
<1>4. CASE step' # step
  <2>1. PICK f : f = [r \in step[t] |-> IF r.status = "PENDING"
                                       THEN [r EXCEPT !.status = "FAILED"] ELSE r]
    OBVIOUS
  <2>2. step \in [Txs -> SUBSET LogRow] /\ \A r \in step[t] : r \in LogRow
    BY DEF Books, Types
  <2>3. step' = [step EXCEPT ![t] = {IF r.status = "PENDING"
                                     THEN [r EXCEPT !.status = "FAILED"] ELSE r : r \in step[t]}]
    BY <1>4, <2>2 DEF expire
  <2>4. step' = [step EXCEPT ![t] = {f[r] : r \in step[t]}]
    BY <2>1, <2>3
  <2>5. \A r \in step[t] : /\ f[r] \in LogRow /\ f[r].no = r.no /\ f[r].of = r.of
                           /\ f[r].status = "DONE" => r.status = "DONE"
    BY <2>1, <2>2 DEF LogRow, StepStatus
  <2>6. f \in [step[t] -> LogRow]
    BY <2>1, <2>5
  <2> QED
    BY <1>1, <1>2, <2>4, <2>5, <2>6, Relabelled DEF Books, Types, Receipts
<1> QED
  BY <1>3, <1>4

---------------------------------------------------------------------------
(* advance *)

\* New compensations are numbered after the originals and are of done steps.
LEMMA NewCompensations ==
    ASSUME Books, NEW t \in Txs
    PROVE  /\ NewComps(t) \subseteq LogRow /\ IsFiniteSet(NewComps(t))
           /\ \A r \in NewComps(t) : IsComp(r) /\ Applied(t, r.of)
           /\ \A r \in NewComps(t) : r.status = "PENDING" /\ r.of \in Targets(t)
           /\ \A i \in Targets(t) : \E r \in NewComps(t) : r.of = i
<1>1. NumSteps \in Nat
  BY PlanAssumption
<1>2. IsFiniteSet(step[t]) /\ step[t] \subseteq LogRow
  BY DEF Books, Types
<1>3. IsFiniteSet(DoneOriginals(t))
  <2>1. PICK S : S = {s \in Originals(t) : s.status = "DONE"}
    OBVIOUS
  <2>2. S \subseteq step[t]
    BY <2>1 DEF Originals
  <2>3. IsFiniteSet(S)
    BY <1>2, <2>2, FS_Subset
  <2>4. PICK f : f = [s \in S |-> s.no]
    OBVIOUS
  <2>5. f \in [S -> {f[x] : x \in S}]
    BY <2>4
  <2>6. IsFiniteSet({f[x] : x \in S})
    BY <2>3, <2>5, FiniteImage
  <2>7. DoneOriginals(t) = {f[x] : x \in S}
    BY <2>1, <2>4 DEF DoneOriginals
  <2> QED
    BY <2>6, <2>7
<1>4. \A i \in DoneOriginals(t) : i \in OriginalNos /\ Applied(t, i)
  <2> SUFFICES ASSUME NEW i \in DoneOriginals(t)
               PROVE  i \in OriginalNos /\ Applied(t, i)
    OBVIOUS
  <2>1. PICK s \in step[t] : ~IsComp(s) /\ s.status = "DONE" /\ s.no = i
    BY DEF DoneOriginals, Originals
  <2>2. s.of = i /\ s.of \in OriginalNos
    BY <1>2, <2>1 DEF Books, Self, LogRow
  <2> QED
    BY <2>1, <2>2 DEF Books, LogTrue
<1>5. Cardinality(Comps(t)) \in Nat
  <2>1. Comps(t) \subseteq step[t]
    BY DEF Comps
  <2> QED
    BY <1>2, <2>1, FS_Subset, FS_CardinalityType
<1>6. Targets(t) \subseteq DoneOriginals(t)
  BY DEF Targets
<1>7. IsFiniteSet(Targets(t))
  BY <1>3, <1>6, FS_Subset
<1>8. \A i \in Targets(t) : Cardinality({j \in Targets(t) : j > i}) \in Nat
  <2> SUFFICES ASSUME NEW i \in Targets(t)
               PROVE  Cardinality({j \in Targets(t) : j > i}) \in Nat
    OBVIOUS
  <2>1. IsFiniteSet({j \in Targets(t) : j > i})
    BY <1>7, FS_Subset
  <2> QED
    BY <2>1, FS_CardinalityType
<1> DEFINE no(i) == NumSteps + Cardinality(Comps(t)) + 1 + Cardinality({j \in Targets(t) : j > i})
<1>9. NewComps(t) = {[no |-> no(i), of |-> i, status |-> "PENDING"] : i \in Targets(t)}
  BY DEF NewComps
<1>10. \A i \in Targets(t) : no(i) \in Nat /\ no(i) > NumSteps
  BY <1>1, <1>5, <1>8
<1> HIDE DEF no
<1>11. NewComps(t) \subseteq LogRow
  BY <1>4, <1>6, <1>9, <1>10 DEF LogRow, StepStatus
<1>12. \A r \in NewComps(t) : IsComp(r) /\ Applied(t, r.of)
  BY <1>4, <1>6, <1>9, <1>10 DEF IsComp
<1>13. \A r \in NewComps(t) : r.status = "PENDING" /\ r.of \in Targets(t)
  BY <1>9
<1>14. ASSUME NEW i \in Targets(t)
       PROVE  \E r \in NewComps(t) : r.of = i
  <2>1. PICK r : r = [no |-> no(i), of |-> i, status |-> "PENDING"]
    OBVIOUS
  <2>2. r \in NewComps(t) /\ r.of = i
    BY <1>9, <2>1
  <2> QED
    BY <2>2
<1>15. IsFiniteSet(NewComps(t))
  <2>1. PICK f : f = [i \in Targets(t) |-> [no |-> no(i), of |-> i, status |-> "PENDING"]]
    OBVIOUS
  <2>2. f \in [Targets(t) -> {f[x] : x \in Targets(t)}]
    BY <2>1
  <2>3. IsFiniteSet({f[x] : x \in Targets(t)})
    BY <1>7, <2>2, FiniteImage
  <2>4. NewComps(t) = {f[x] : x \in Targets(t)}
    BY <1>9, <2>1
  <2> QED
    BY <2>3, <2>4
<1> QED
  BY <1>11, <1>12, <1>13, <1>14, <1>15

\* What advance does to the log keeps Books, whoever calls it.
LEMMA AdvanceBooks ==
    ASSUME Books, NEW t \in Txs, advance(t),
           UNCHANGED <<msgs, journal, receipts, creating>>,
           \A r \in Receipts' : r \in Receipts,
           rc' \in ConsumerState,
           ex' \in LoopState
    PROVE  Books'
<1>1. step \in [Txs -> SUBSET LogRow] /\ tx \in [Txs -> TxStatus]
  BY DEF Books, Types
<1>2. receipts' \subseteq AnyReceipt /\ creating' \subseteq Txs
  BY DEF Books, Types
<1>3. CASE Outcome(t) = "compensate"
  <2>1. tx' = tx /\ step' = [step EXCEPT ![t] = step[t] \cup NewComps(t)]
    BY <1>1, <1>3 DEF advance
  <2>2. /\ NewComps(t) \subseteq LogRow /\ IsFiniteSet(NewComps(t))
        /\ \A r \in NewComps(t) : IsComp(r) /\ Applied(t, r.of)
    BY NewCompensations
  <2>3. tx[t] = "PROCESSING"
    BY <1>3 DEF Outcome
  <2>4. step'[t] = step[t] \cup NewComps(t) /\ \A u \in Txs : u # t => step'[u] = step[u]
    BY <1>1, <2>1
  <2>5. step' \in [Txs -> SUBSET LogRow]
    BY <1>1, <2>1, <2>2
  <2>6. \A u \in Txs : IsFiniteSet(step'[u])
    BY <2>2, <2>4, FS_Union DEF Books, Types
  <2>7. \A u \in Txs : \A r \in step'[u] : ~IsComp(r) => r.of = r.no
    BY <2>2, <2>4 DEF Books, Self
  <2>8. \A u \in Txs : \A r \in step'[u] : IsComp(r) \/ r.status = "DONE" => Applied(u, r.of)
    BY <2>2, <2>4 DEF Books, LogTrue
  <2>9. \A u \in Txs : \A s \in step[u] : \E r \in step'[u] : r.no = s.no
    BY <2>4
  <2>10. Registered'
    <3> SUFFICES ASSUME NEW u \in Txs
                 PROVE  IF tx[u] = "none" THEN step'[u] = {}
                        ELSE \A i \in OriginalNos : \E r \in step'[u] : r.no = i
      BY <2>1 DEF Registered
    <3>1. IF tx[u] = "none" THEN step[u] = {}
          ELSE \A i \in OriginalNos : \E r \in step[u] : r.no = i
      BY DEF Books, Registered
    <3> QED
      BY <2>3, <2>4, <2>9, <3>1
  <2>11. \A u \in Txs : tx'[u] = "COMMITTED" =>
           \A r \in step'[u] : ~IsComp(r) /\ r.status = "DONE"
    BY <2>1, <2>3, <2>4 DEF Books, Committed, Comps
  <2> QED
    BY <1>1, <1>2, <2>1, <2>5, <2>6, <2>7, <2>8, <2>9, <2>10, <2>11, LogFrame
<1>4. CASE Outcome(t) = "retry"
  <2>1. PICK q : q = FirstFailed(t)
    OBVIOUS
  <2>2. tx' = tx /\ step' = [step EXCEPT ![t] = SetRow(t, q.no, "PENDING")]
    BY <1>4, <2>1 DEF advance
  <2>3. tx[t] = "PROCESSING"
    BY <1>4 DEF Outcome
  <2>4. CASE q.no \in Nat
    <3>1. PICK f : f = Labelled(t, q.no, "PENDING")
      OBVIOUS
    <3>2. /\ SetRow(t, q.no, "PENDING") = {f[s] : s \in step[t]}
          /\ f \in [step[t] -> LogRow]
          /\ \A s \in step[t] : f[s].no = s.no /\ f[s].of = s.of
          /\ \A s \in step[t] : IF s.no = q.no THEN f[s].status = "PENDING" ELSE f[s] = s
      BY <1>1, <2>4, <3>1, SetRowFunction DEF StepStatus
    <3>3. \A s \in step[t] : f[s].status = "DONE" => s.status = "DONE" \/ Applied(t, s.of)
      BY <3>2
    <3>4. step' = [step EXCEPT ![t] = {f[s] : s \in step[t]}]
      BY <2>2, <3>2
    <3> QED
      BY <2>2, <2>3, <3>2, <3>3, <3>4, Relabelled
  <2>5. CASE q.no \notin Nat
    <3>1. SetRow(t, q.no, "PENDING") = step[t]
      BY <1>1, <2>5 DEF SetRow, LogRow
    <3>2. step' = step
      BY <1>1, <2>2, <3>1
    <3> QED
      BY <1>2, <2>2, <3>2, TrafficFrame
  <2> QED
    BY <2>4, <2>5
<1>5. CASE Outcome(t) \notin {"compensate", "retry"}
  <2>1. step' = step
    BY <1>5 DEF advance
  <2>2. tx' = tx \/ (/\ tx[t] = "PROCESSING"
                    /\ \/ tx' = [tx EXCEPT ![t] = "COMPENSATED"]
                       \/ tx' = [tx EXCEPT ![t] = "FAILED"]
                       \/ /\ tx' = [tx EXCEPT ![t] = "COMMITTED"]
                          /\ Comps(t) = {}
                          /\ \A r \in step[t] : r.status = "DONE")
    BY <1>5 DEF advance, Outcome, Compensating
  <2>3. tx' \in [Txs -> TxStatus]
    BY <1>1, <2>2 DEF TxStatus
  <2>4. \A u \in Txs : tx'[u] = "none" <=> tx[u] = "none"
    BY <1>1, <2>2
  <2>5. Registered'
    <3> SUFFICES ASSUME NEW u \in Txs
                 PROVE  IF tx'[u] = "none" THEN step[u] = {}
                        ELSE \A i \in OriginalNos : \E r \in step[u] : r.no = i
      BY <2>1 DEF Registered
    <3>1. IF tx[u] = "none" THEN step[u] = {}
          ELSE \A i \in OriginalNos : \E r \in step[u] : r.no = i
      BY DEF Books, Registered
    <3> QED
      BY <2>4, <3>1
  <2>6. \A u \in Txs : tx'[u] = "COMMITTED" =>
          Comps(u) = {} /\ \A r \in step[u] : r.status = "DONE"
    BY <1>1, <2>2 DEF Books, Committed
  <2>7. \A u \in Txs : tx'[u] = "COMMITTED" =>
          \A r \in step'[u] : ~IsComp(r) /\ r.status = "DONE"
    BY <2>1, <2>6 DEF Comps
  <2>8. /\ \A u \in Txs : \A r \in step'[u] : ~IsComp(r) => r.of = r.no
        /\ \A u \in Txs : \A r \in step'[u] : IsComp(r) \/ r.status = "DONE" => Applied(u, r.of)
        /\ \A u \in Txs : \A s \in step[u] : \E r \in step'[u] : r.no = s.no
    BY <2>1 DEF Books, Self, LogTrue
  <2> QED
    BY <1>1, <1>2, <2>1, <2>3, <2>5, <2>7, <2>8, LogFrame DEF Books, Types
<1> QED
  BY <1>3, <1>4, <1>5

\* Both callers of advance.
LEMMA AdvancersBooks ==
    ASSUME Books, AdvanceReceipt \/ AdvanceExpired
    PROVE  Books'
<1>1. CASE AdvanceReceipt
  <2>1. PICK t : t = rc.r.tx
    OBVIOUS
  <2>2. rc \in ConsumerState /\ rc.stage = "advance" /\ advance(t)
    BY <1>1, <2>1 DEF AdvanceReceipt, Books, Types
  <2>3. t \in Txs
    BY <2>1, <2>2 DEF ConsumerState, AnyReceipt
  <2>4. UNCHANGED <<msgs, journal, receipts, creating, ex>>
    BY <1>1 DEF AdvanceReceipt, units
  <2>5. rc' = [rc EXCEPT !.stage = "publish"] \/ rc' = NoReceipt
    BY <1>1 DEF AdvanceReceipt
  <2>6. rc' \in ConsumerState /\ (rc'.stage = "idle" \/ rc'.r = rc.r)
    <3>1. CASE rc' = [rc EXCEPT !.stage = "publish"]
      BY <2>2, <3>1 DEF ConsumerState
    <3>2. CASE rc' = NoReceipt
      BY <3>2 DEF ConsumerState, NoReceipt, StepStatus
    <3> QED
      BY <2>5, <3>1, <3>2
  <2>7. \A r \in Receipts' : r \in Receipts
    BY <2>2, <2>4, <2>6 DEF Receipts
  <2> QED
    BY <2>2, <2>3, <2>4, <2>6, <2>7, AdvanceBooks DEF Books, Types
<1>2. CASE AdvanceExpired
  <2>1. ex \in LoopState /\ ex.stage = "advance" /\ advance(ex.tx)
    BY <1>2 DEF AdvanceExpired, Books, Types
  <2>2. ex.tx \in Txs
    BY <2>1 DEF LoopState
  <2>3. UNCHANGED <<msgs, journal, receipts, creating, rc>>
    BY <1>2 DEF AdvanceExpired, units
  <2>4. ex' = [ex EXCEPT !.stage = "publish"] \/ ex' = NotExpiring
    BY <1>2 DEF AdvanceExpired
  <2>5. ex' \in LoopState
    BY <2>1, <2>4 DEF LoopState, NotExpiring
  <2>6. Receipts' = Receipts
    BY <2>3 DEF Receipts
  <2> QED
    BY <2>1, <2>2, <2>3, <2>5, <2>6, AdvanceBooks DEF Books, Types
<1> QED
  BY <1>1, <1>2

---------------------------------------------------------------------------
(* The theorems *)

\* Books holds at the start,
LEMMA InitBooks ==
    ASSUME Init
    PROVE  Books
<1>1. Types
  BY FS_EmptySet DEF Init, Types, TxStatus, NoReceipt, NotExpiring, ConsumerState, LoopState,
     StepStatus
<1>2. Receipts = {}
  BY DEF Init, Receipts, NoReceipt
<1>3. Self /\ LogTrue /\ MessagesTrue /\ ReversedTrue
  BY DEF Init, Self, LogTrue, MessagesTrue, ReversedTrue, Reversed
<1>4. ReceiptsTrue /\ Logged
  BY <1>2 DEF Init, ReceiptsTrue, Logged
<1>5. Registered /\ Committed
  BY DEF Init, Registered, Committed
<1> QED
  BY <1>1, <1>3, <1>4, <1>5 DEF Books

\* is kept by every step,
LEMMA NextBooks ==
    ASSUME Books, [Next]_vars
    PROVE  Books'
<1>1. ASSUME NEW t \in Txs, Register(t)
      PROVE  Books'
  BY <1>1, RegisterBooks
<1>2. ASSUME NEW t \in Txs, PublishCreated(t)
      PROVE  Books'
  BY <1>2, PublishBooks
<1>3. ASSUME NEW m \in msgs, handleStep(m)
      PROVE  Books'
  BY <1>3, HandleStepBooks
<1>4. ASSUME NEW p \in LocalPairs, localTransfer(p[1], p[2])
      PROVE  Books'
  BY <1>4, TrafficBooks
<1>5. ASSUME NEW a \in Accounts, handleCreateAccount(a)
      PROVE  Books'
  BY <1>5, TrafficBooks
<1>6. CASE Consumer
  BY <1>6, TrafficBooks, UpdateStepBooks, ReopenBooks, AdvancersBooks, PublishBooks DEF Consumer
<1>7. CASE TimeoutLoop
  BY <1>7, ExpireBooks, AdvancersBooks, PublishBooks DEF TimeoutLoop
<1>8. CASE recover
  BY <1>8, TrafficBooks
<1>9. CASE UNCHANGED vars
  <2>1. UNCHANGED <<tx, step, journal, msgs, receipts, creating, rc, ex>>
    BY <1>9 DEF vars
  <2> QED
    BY <2>1, TrafficFrame DEF Books, Types, Receipts
<1> QED
  BY <1>1, <1>2, <1>3, <1>4, <1>5, <1>6, <1>7, <1>8, <1>9 DEF Next

\* and is therefore an invariant.
LEMMA BooksInvariant == Spec => []Books
<1>1. Init => Books
  BY InitBooks
<1>2. Books /\ [Next]_vars => Books'
  BY NextBooks
<1> QED
  BY <1>1, <1>2, PTL DEF Spec

\* handleStep under uk_tx_acct and advance together never let a unit reverse
\* a movement that was not made: for any number of transactions and steps and
\* any sequence of timeouts, crashes, lost publications and redeliveries.
THEOREM NothingInventedTheorem == Spec => []NothingInvented
<1>1. Books => NothingInvented
  BY DEF Books, ReversedTrue, NothingInvented
<1> QED
  BY <1>1, BooksInvariant, PTL

\* transition to COMMITTED in advance: every movement of a committed
\* transaction is in its unit's journal and no compensation of it ever is.
THEOREM CommittedStandsTheorem == Spec => []CommittedStands
<1>1. Books => CommittedStands
  <2> SUFFICES ASSUME Books, NEW t \in Txs, tx[t] = "COMMITTED", NEW i \in OriginalNos
               PROVE  Applied(t, i) /\ ~Reversed(t, i)
    BY DEF CommittedStands
  <2>1. Comps(t) = {} /\ \A r \in step[t] : r.status = "DONE"
    BY DEF Books, Committed
  <2>2. PICK r \in step[t] : r.no = i
    BY DEF Books, Registered
  <2>3. ~IsComp(r)
    BY <2>1 DEF Comps
  <2>4. r.of = i
    BY <2>2, <2>3 DEF Books, Self
  <2>5. Applied(t, i)
    BY <2>1, <2>4 DEF Books, LogTrue
  <2>6. ~Reversed(t, i)
    BY <2>1 DEF Books, ReversedTrue
  <2> QED
    BY <2>5, <2>6
<1> QED
  BY <1>1, BooksInvariant, PTL

\* COMMITTED and FAILED are final: advance and expire check the status under
\* the row lock and reopenCompensation updates COMPENSATED rows only.
THEOREM FinalStaysTheorem == Spec => FinalStays
<1>1. ASSUME Books, [Next]_vars
      PROVE  \A t \in Txs : tx[t] \in {"COMMITTED", "FAILED"} => tx'[t] = tx[t]
  <2> SUFFICES ASSUME NEW t \in Txs, tx[t] \in {"COMMITTED", "FAILED"}
               PROVE  tx'[t] = tx[t]
    OBVIOUS
  <2>1. tx \in [Txs -> TxStatus]
    BY <1>1 DEF Books, Types
  <2>2. ASSUME NEW u \in Txs, Register(u)
        PROVE  tx'[t] = tx[t]
    BY <2>1, <2>2 DEF Register
  <2>3. CASE reopenCompensation
    BY <2>1, <2>3 DEF reopenCompensation, Reopenable
  <2>4. ASSUME NEW u, advance(u)
        PROVE  tx'[t] = tx[t]
    <3>1. tx' = tx \/ (tx[u] = "PROCESSING" /\ \E v \in TxStatus : tx' = [tx EXCEPT ![u] = v])
      BY <2>4 DEF advance, Outcome, TxStatus
    <3> QED
      BY <2>1, <3>1
  <2>5. CASE AdvanceReceipt \/ AdvanceExpired
    BY <2>4, <2>5 DEF AdvanceReceipt, AdvanceExpired
  <2>6. CASE UNCHANGED tx
    BY <2>6
  <2>7. \/ UNCHANGED tx \/ reopenCompensation \/ AdvanceReceipt \/ AdvanceExpired
        \/ \E u \in Txs : Register(u)
    BY <1>1 DEF Next, vars, PublishCreated, handleStep, localTransfer, handleCreateAccount,
       Consumer, TakeReceipt, ReadTx, UpdateStep, PublishReceipt, TimeoutLoop, expire,
       PublishExpired, recover
  <2> QED
    BY <2>2, <2>3, <2>5, <2>6, <2>7
<1> QED
  BY <1>1, BooksInvariant, PTL DEF Spec, FinalStays

---------------------------------------------------------------------------
(* How a step may change the log of a transaction *)

\* register writes the rows.
Registers(t) ==
    /\ tx[t] = "none" /\ tx'[t] = "PROCESSING"
    /\ step'[t] = {[no |-> i, of |-> i, status |-> "PENDING"] : i \in OriginalNos}

\* The consumer writes an answer over a row that is not done.  Over an
\* original that was called failed it writes DONE, which may be missed.
Answers(t) ==
    /\ UpdateStep
    /\ rc.stage = "update" /\ rc.r.tx = t
    /\ RowOf(rc.r).status # "DONE"
    /\ RowOf(rc.r).status = "FAILED" => rc.r.status = "DONE"
    /\ MissedDone => t \in late'
    /\ tx'[t] = tx[t]
    /\ step'[t] = SetRow(t, rc.r.no, rc.r.status)

\* The timeout loop gives pending originals up.
Expires(t) ==
    /\ Comps(t) = {} /\ tx[t] = "PROCESSING" /\ tx'[t] = tx[t]
    /\ step'[t] = {IF r.status = "PENDING" THEN [r EXCEPT !.status = "FAILED"] ELSE r :
                      r \in step[t]}

\* advance tries a failed compensation again.
Retries(t) ==
    /\ tx[t] = "PROCESSING" /\ tx'[t] = "PROCESSING"
    /\ FailedComps(t) # {}
    /\ step'[t] = SetRow(t, FirstFailed(t).no, "PENDING")

\* advance begins to compensate.
Compensates(t) ==
    /\ tx[t] = "PROCESSING" /\ tx'[t] = "PROCESSING"
    /\ Compensating(t) /\ Missing(t) > 0
    /\ step'[t] = step[t] \cup NewComps(t)

LogMove(t) ==
    \/ step'[t] = step[t]
    \/ Registers(t) \/ Answers(t) \/ Expires(t) \/ Retries(t) \/ Compensates(t)

\* advance changes the log of its transaction in one of two ways.
LEMMA AdvanceMoves ==
    ASSUME Books, NEW u \in Txs, advance(u), NEW t \in Txs
    PROVE  LogMove(t)
<1>1. step \in [Txs -> SUBSET LogRow] /\ tx \in [Txs -> TxStatus]
  BY DEF Books, Types
<1>2. CASE Outcome(u) = "compensate"
  <2>1. tx' = tx /\ step' = [step EXCEPT ![u] = step[u] \cup NewComps(u)]
    BY <1>1, <1>2 DEF advance
  <2>2. tx[u] = "PROCESSING" /\ Compensating(u) /\ Missing(u) > 0
    BY <1>2 DEF Outcome
  <2> QED
    BY <1>1, <2>1, <2>2 DEF LogMove, Compensates
<1>3. CASE Outcome(u) = "retry"
  <2>1. tx' = tx /\ step' = [step EXCEPT ![u] = SetRow(u, FirstFailed(u).no, "PENDING")]
    BY <1>1, <1>3 DEF advance
  <2>2. tx[u] = "PROCESSING" /\ FailedComps(u) # {}
    BY <1>3 DEF Outcome
  <2> QED
    BY <1>1, <2>1, <2>2 DEF LogMove, Retries
<1>4. CASE Outcome(u) \notin {"compensate", "retry"}
  BY <1>4 DEF advance, LogMove
<1> QED
  BY <1>2, <1>3, <1>4

\* Every step of the system changes the log of a transaction in one of these ways.
LEMMA LogMoves ==
    ASSUME Books, [Next]_vars, NEW t \in Txs
    PROVE  LogMove(t)
<1>1. step \in [Txs -> SUBSET LogRow] /\ tx \in [Txs -> TxStatus]
  BY DEF Books, Types
<1>2. ASSUME NEW u \in Txs, Register(u)
      PROVE  LogMove(t)
  BY <1>1, <1>2 DEF Register, LogMove, Registers
<1>3. CASE UpdateStep
  <2>1. PICK r : r = rc.r
    OBVIOUS
  <2>2. rc.stage = "update" /\ tx' = tx
    BY <1>3 DEF UpdateStep
  <2>3. r \in Receipts
    BY <2>1, <2>2 DEF Receipts
  <2>4. r.tx \in Txs /\ RowOf(r).status \in StepStatus
    BY <2>3, RowOfReceipt DEF AnyReceipt
  <2>5. CASE step' = step
    BY <2>5 DEF LogMove
  <2>6. CASE step' # step
    <3>1. step' = [step EXCEPT ![r.tx] = SetRow(r.tx, r.no, r.status)]
      BY <1>3, <2>1, <2>6 DEF UpdateStep
    <3>2. RowOf(r).status # "DONE" /\ (RowOf(r).status = "FAILED" => r.status = "DONE")
      BY <1>3, <2>1, <2>6 DEF UpdateStep, Expected
    <3>3. MissedDone => r.tx \in late'
      BY <1>3, <2>1 DEF UpdateStep
    <3> QED
      BY <1>1, <1>3, <2>1, <2>2, <2>4, <3>1, <3>2, <3>3 DEF LogMove, Answers
  <2> QED
    BY <2>5, <2>6
<1>4. ASSUME NEW u \in Txs, expire(u)
      PROVE  LogMove(t)
  <2>1. CASE step' = step
    BY <2>1 DEF LogMove
  <2>2. CASE step' # step
    <3>1. Comps(u) = {} /\ tx' = tx /\ tx[u] = "PROCESSING"
      BY <1>4, <2>2 DEF expire
    <3>2. step' = [step EXCEPT ![u] = {IF r.status = "PENDING"
                                       THEN [r EXCEPT !.status = "FAILED"] ELSE r : r \in step[u]}]
      BY <1>1, <1>4, <3>1 DEF expire
    <3> QED
      BY <1>1, <3>1, <3>2 DEF LogMove, Expires
  <2> QED
    BY <2>1, <2>2
<1>5. CASE AdvanceReceipt
  <2>1. rc.r.tx \in Txs
    BY <1>5 DEF AdvanceReceipt, Books, Types, ConsumerState, AnyReceipt
  <2> QED
    BY <1>5, <2>1, AdvanceMoves DEF AdvanceReceipt
<1>6. CASE AdvanceExpired
  <2>1. ex.tx \in Txs
    BY <1>6 DEF AdvanceExpired, Books, Types, LoopState
  <2> QED
    BY <1>6, <2>1, AdvanceMoves DEF AdvanceExpired
<1>7. CASE UNCHANGED step
  BY <1>7 DEF LogMove
<1>8. \/ UNCHANGED step \/ UpdateStep \/ AdvanceReceipt \/ AdvanceExpired
      \/ \E u \in Txs : Register(u) \/ expire(u)
  BY DEF Next, vars, PublishCreated, handleStep, localTransfer, handleCreateAccount,
     Consumer, TakeReceipt, ReadTx, reopenCompensation, PublishReceipt, TimeoutLoop,
     PublishExpired, recover
<1> QED
  BY <1>2, <1>3, <1>4, <1>5, <1>6, <1>7, <1>8

---------------------------------------------------------------------------
(* Row numbers *)

\* A set of numbers that is not empty has a least one.
LEMMA LeastNumber ==
    ASSUME NEW S \in SUBSET Nat, S # {}
    PROVE  \E n \in S : \A k \in S : n <= k
<1>1. \E R : IsWellFoundedOn(R, Nat) /\ \A k, n \in Nat : k < n => <<k, n>> \in R
  <2>1. \A k, n \in Nat : k < n => <<k, n>> \in OpToRel(<, Nat)
    BY DEF OpToRel
  <2> QED
    BY <2>1, NatLessThanWellFounded, Zenon
<1>2. PICK R : IsWellFoundedOn(R, Nat) /\ \A k, n \in Nat : k < n => <<k, n>> \in R
  BY <1>1
<1>3. PICK n \in S : \A k \in S : ~(<<k, n>> \in R)
  <2>1. S \subseteq Nat /\ IsWellFoundedOn(R, Nat)
    BY <1>2
  <2> QED
    BY <2>1, WFMin, Zenon
<1>4. \A k \in S : ~(k < n)
  BY <1>2, <1>3
<1> QED
  BY <1>4

\* retryCompensate finds the first failed compensation if there is one.
LEMMA FirstFailedRow ==
    ASSUME Books, NEW t \in Txs, FailedComps(t) # {}
    PROVE  /\ FirstFailed(t) \in step[t] /\ IsComp(FirstFailed(t))
           /\ FirstFailed(t).status = "FAILED" /\ FirstFailed(t).no \in Nat
<1>1. PICK S : S = {r.no : r \in FailedComps(t)}
  OBVIOUS
<1>2. FailedComps(t) \subseteq step[t] /\ step[t] \subseteq LogRow
  BY DEF FailedComps, Comps, Books, Types
<1>3. S \subseteq Nat /\ S # {}
  BY <1>1, <1>2 DEF LogRow
<1>4. PICK n \in S : \A k \in S : n <= k
  BY <1>3, LeastNumber
<1>5. \E r \in FailedComps(t) : \A q \in FailedComps(t) : r.no <= q.no
  BY <1>1, <1>4
<1>6. FirstFailed(t) \in FailedComps(t)
  BY <1>5 DEF FirstFailed
<1> QED
  BY <1>2, <1>6 DEF FailedComps, Comps, LogRow

\* The rows of a log are numbered without repetition, and compensations come
\* directly after the originals.
CompRows(S) == {r \in S : IsComp(r)}

NumberedRows(S) ==
    /\ \A a, b \in S : a.no = b.no => a = b
    /\ \A r \in S : /\ r.no \in 1 .. 2 * NumSteps
                    /\ r.no <= NumSteps + Cardinality(CompRows(S))

Numbered == \A t \in Txs : NumberedRows(step[t])

\* Relabelling keeps the numbers.
LEMMA RelabelledNumbers ==
    ASSUME NEW S, S \subseteq LogRow, IsFiniteSet(S), NumberedRows(S),
           NEW f \in [S -> LogRow], \A r \in S : f[r].no = r.no /\ f[r].of = r.of
    PROVE  NumberedRows({f[r] : r \in S})
<1> DEFINE T == {f[r] : r \in S}
<1>1. \A a, b \in T : a.no = b.no => a = b
  BY DEF NumberedRows
<1>2. PICK g : g = [r \in CompRows(S) |-> f[r]]
  OBVIOUS
<1>3. g \in Bijection(CompRows(S), CompRows(T))
  <2>1. \A r \in S : IsComp(f[r]) <=> IsComp(r)
    BY DEF IsComp
  <2>2. g \in [CompRows(S) -> CompRows(T)]
    BY <1>2, <2>1 DEF CompRows
  <2>3. \A r, q \in CompRows(S) : g[r] = g[q] => r = q
    BY <1>2 DEF NumberedRows, CompRows
  <2>4. \A c \in CompRows(T) : \E r \in CompRows(S) : g[r] = c
    BY <1>2, <2>1 DEF CompRows
  <2> HIDE DEF T
  <2>5. g \in Injection(CompRows(S), CompRows(T))
    BY <2>2, <2>3 DEF Injection, IsInjective
  <2>6. g \in Surjection(CompRows(S), CompRows(T))
    BY <2>2, <2>4 DEF Surjection
  <2> QED
    BY <2>5, <2>6 DEF Bijection
<1>4. IsFiniteSet(CompRows(S))
  <2>1. CompRows(S) \subseteq S
    BY DEF CompRows
  <2> QED
    BY <2>1, FS_Subset
<1>5. Cardinality(CompRows(T)) = Cardinality(CompRows(S))
  <2>1. ExistsBijection(CompRows(S), CompRows(T))
    BY <1>3 DEF ExistsBijection
  <2> QED
    BY <1>4, <2>1, FS_Bijection
<1>6. \A r \in T : r.no \in 1 .. 2 * NumSteps /\ r.no <= NumSteps + Cardinality(CompRows(T))
  BY <1>5 DEF NumberedRows
<1> QED
  BY <1>1, <1>6 DEF NumberedRows

\* The sets advance counts are finite, and at most every original is done.
LEMMA CountedRows ==
    ASSUME Books, NEW t \in Txs
    PROVE  /\ DoneOriginals(t) \subseteq OriginalNos /\ IsFiniteSet(DoneOriginals(t))
           /\ Cardinality(DoneOriginals(t)) \in Nat /\ Cardinality(DoneOriginals(t)) <= NumSteps
           /\ IsFiniteSet(Comps(t)) /\ Cardinality(Comps(t)) \in Nat
           /\ Missing(t) = Cardinality(DoneOriginals(t)) - Cardinality(Comps(t))
<1>1. NumSteps \in Nat
  BY PlanAssumption
<1>2. IsFiniteSet(step[t]) /\ step[t] \subseteq LogRow
  BY DEF Books, Types
<1>3. DoneOriginals(t) \subseteq OriginalNos
  BY <1>2 DEF DoneOriginals, Originals, Books, Self, LogRow
<1>4. IsFiniteSet(OriginalNos) /\ Cardinality(OriginalNos) = NumSteps
  BY <1>1, FS_Interval DEF OriginalNos
<1>5. IsFiniteSet(DoneOriginals(t)) /\ Cardinality(DoneOriginals(t)) <= NumSteps
  BY <1>3, <1>4, FS_Subset
<1>6. Comps(t) \subseteq step[t]
  BY DEF Comps
<1>7. IsFiniteSet(Comps(t))
  BY <1>2, <1>6, FS_Subset
<1> QED
  BY <1>3, <1>5, <1>7, FS_CardinalityType DEF Missing

\* Of finitely many numbers, fewer than all are above one of them, and fewer
\* above the greater of two.
LEMMA CountAbove ==
    ASSUME NEW S \in SUBSET Nat, IsFiniteSet(S)
    PROVE  /\ \A i \in S : /\ Cardinality({j \in S : j > i}) \in Nat
                           /\ Cardinality({j \in S : j > i}) < Cardinality(S)
           /\ \A i, k \in S : i < k =>
                 Cardinality({j \in S : j > k}) < Cardinality({j \in S : j > i})
<1>1. \A T \in SUBSET S : IsFiniteSet(T) /\ Cardinality(T) \in Nat /\ Cardinality(T) <= Cardinality(S)
  BY FS_Subset, FS_CardinalityType
<1>2. ASSUME NEW T \in SUBSET S, NEW U \in SUBSET T, NEW x \in T, x \notin U
      PROVE  Cardinality(U) < Cardinality(T)
  <2>1. IsFiniteSet(T) /\ Cardinality(T) \in Nat /\ Cardinality(U) \in Nat
    BY <1>1
  <2>2. Cardinality(U) <= Cardinality(T) /\ (Cardinality(T) = Cardinality(U) => T = U)
    BY <2>1, FS_Subset
  <2> QED
    BY <1>2, <2>1, <2>2
<1>3. ASSUME NEW i \in S
      PROVE  /\ Cardinality({j \in S : j > i}) \in Nat
             /\ Cardinality({j \in S : j > i}) < Cardinality(S)
  <2>1. PICK U : U = {j \in S : j > i}
    OBVIOUS
  <2>2. U \in SUBSET S /\ i \notin U
    BY <2>1
  <2> QED
    BY <1>1, <1>2, <2>1, <2>2
<1>4. ASSUME NEW i \in S, NEW k \in S, i < k
      PROVE  Cardinality({j \in S : j > k}) < Cardinality({j \in S : j > i})
  <2>1. PICK U : U = {j \in S : j > k}
    OBVIOUS
  <2>2. PICK T : T = {j \in S : j > i}
    OBVIOUS
  <2>3. \A j \in S : j > k => j > i
    BY <1>4
  <2>4. T \in SUBSET S /\ U \in SUBSET T
    BY <2>1, <2>2, <2>3
  <2>5. k \in T /\ k \notin U
    BY <1>4, <2>1, <2>2
  <2> QED
    BY <1>2, <2>1, <2>2, <2>4, <2>5
<1> QED
  BY <1>3, <1>4

\* compensate numbers the new rows after all others, each once, and never
\* past the numbers the log has room for.
LEMMA NewNumbers ==
    ASSUME Books, NEW t \in Txs, NumberedRows(step[t])
    PROVE  /\ NumberedRows(step[t] \cup NewComps(t))
           /\ \A n \in NewComps(t) : \A r \in step[t] : n.no > r.no
<1>1. NumSteps \in Nat
  BY PlanAssumption
<1>2. PICK D : D = DoneOriginals(t)
  OBVIOUS
<1>3. PICK c : c = Cardinality(Comps(t))
  OBVIOUS
<1>4. /\ D \subseteq 1 .. NumSteps /\ IsFiniteSet(D)
      /\ Cardinality(D) \in Nat /\ Cardinality(D) <= NumSteps
      /\ c \in Nat /\ Missing(t) = Cardinality(D) - c /\ IsFiniteSet(Comps(t))
  BY <1>2, <1>3, CountedRows DEF OriginalNos
<1>5. PICK T : T = Targets(t)
  OBVIOUS
<1>6. T \subseteq D /\ T \subseteq Nat /\ IsFiniteSet(T)
  <2>1. T \subseteq D
    BY <1>2, <1>5 DEF Targets
  <2>2. IsFiniteSet(T)
    BY <1>4, <2>1, FS_Subset
  <2>3. T \subseteq Nat
    BY <1>1, <1>4, <2>1
  <2> QED
    BY <2>1, <2>2, <2>3
<1>7. PICK above : above = [i \in T |-> Cardinality({j \in T : j > i})]
  OBVIOUS
<1>8. /\ \A i \in T : above[i] \in Nat /\ above[i] < Cardinality(T)
      /\ \A i, k \in T : i < k => above[k] < above[i]
  BY <1>6, <1>7, CountAbove
<1>9. \A i \in T : above[i] < Cardinality(D) - c
  <2> SUFFICES ASSUME NEW i \in T
               PROVE  above[i] < Cardinality(D) - c
    OBVIOUS
  <2>1. PICK U : U = {j \in D : j > i}
    OBVIOUS
  <2>2. PICK V : V = {j \in T : j > i}
    OBVIOUS
  <2>3. Cardinality(U) < Cardinality(D) - c
    BY <1>2, <1>4, <1>5, <2>1 DEF Targets
  <2>4. IsFiniteSet(U) /\ Cardinality(U) \in Nat
    BY <1>4, <2>1, FS_Subset, FS_CardinalityType
  <2>5. V \subseteq U
    BY <1>6, <2>1, <2>2
  <2>6. Cardinality(V) <= Cardinality(U) /\ Cardinality(V) \in Nat
    BY <2>4, <2>5, FS_Subset, FS_CardinalityType
  <2> QED
    BY <1>4, <1>7, <2>2, <2>3, <2>4, <2>6
<1>10. PICK row : row = [i \in T |-> [no |-> NumSteps + c + 1 + above[i], of |-> i,
                                     status |-> "PENDING"]]
  OBVIOUS
<1>11. NewComps(t) = {row[i] : i \in T}
  BY <1>3, <1>5, <1>7, <1>10 DEF NewComps
<1>12. \A i \in T : /\ row[i].no = NumSteps + c + 1 + above[i] /\ row[i].of = i
                    /\ row[i].no \in 1 .. 2 * NumSteps /\ row[i].no > NumSteps + c
                    /\ row[i].no <= NumSteps + c + Cardinality(T)
  <2>1. \A i \in T : row[i].no = NumSteps + c + 1 + above[i] /\ row[i].of = i
    BY <1>10
  <2>2. \A i \in T : above[i] \in Nat /\ above[i] + 1 <= Cardinality(T) /\ above[i] + 1 + c <= NumSteps
    <3>1. Cardinality(T) \in Nat
      BY <1>6, FS_CardinalityType
    <3> QED
      BY <1>1, <1>4, <1>8, <1>9, <3>1
  <2>3. Cardinality(T) \in Nat
    BY <1>6, FS_CardinalityType
  <2> QED
    BY <1>1, <1>4, <2>1, <2>2, <2>3
<1>13. \A r \in step[t] : r.no \in Nat /\ r.no <= NumSteps + c
  BY <1>1, <1>3 DEF NumberedRows, Comps, CompRows
<1>14. \A n \in NewComps(t) : \A r \in step[t] : n.no > r.no
  BY <1>1, <1>4, <1>11, <1>12, <1>13
<1>15. PICK S : S = step[t] \cup NewComps(t)
  OBVIOUS
<1>16. \A a, b \in S : a.no = b.no => a = b
  <2>1. \A a, b \in step[t] : a.no = b.no => a = b
    BY DEF NumberedRows
  <2>2. \A a, b \in NewComps(t) : a.no = b.no => a = b
    <3> SUFFICES ASSUME NEW i \in T, NEW k \in T, row[i].no = row[k].no
                 PROVE  i = k
      BY <1>11
    <3>1. above[i] = above[k]
      BY <1>1, <1>4, <1>8, <1>12
    <3>2. ~(i < k) /\ ~(k < i)
      BY <1>8, <3>1
    <3> QED
      BY <1>6, <3>2
  <2>3. \A a \in NewComps(t), b \in step[t] : a.no # b.no
    BY <1>1, <1>4, <1>11, <1>12, <1>13, <1>14
  <2> QED
    BY <1>15, <2>1, <2>2, <2>3
<1>17. Cardinality(CompRows(S)) = c + Cardinality(T)
  <2>1. NewComps(t) \cap Comps(t) = {}
    BY <1>1, <1>4, <1>11, <1>12, <1>13, <1>14 DEF Comps
  <2>2. CompRows(S) = Comps(t) \cup NewComps(t)
    BY <1>15, NewCompensations DEF CompRows, Comps
  <2>3. row \in Bijection(T, NewComps(t))
    <3>1. row \in [T -> NewComps(t)]
      BY <1>10, <1>11
    <3>2. row \in Injection(T, NewComps(t))
      BY <1>12, <3>1 DEF Injection, IsInjective
    <3>3. row \in Surjection(T, NewComps(t))
      BY <1>11, <3>1 DEF Surjection
    <3> QED
      BY <3>2, <3>3 DEF Bijection
  <2>4. IsFiniteSet(NewComps(t)) /\ Cardinality(NewComps(t)) = Cardinality(T)
    BY <1>6, <2>3, FS_Bijection DEF ExistsBijection
  <2>5. Cardinality(Comps(t) \cap NewComps(t)) = 0
    BY <2>1, FS_EmptySet
  <2>6. Cardinality(Comps(t) \cup NewComps(t)) = c + Cardinality(T) - 0
    BY <1>3, <1>4, <2>4, <2>5, FS_Union
  <2>7. Cardinality(T) \in Nat
    BY <1>6, FS_CardinalityType
  <2> QED
    BY <1>4, <2>2, <2>6, <2>7
<1>18. \A r \in S : r.no \in 1 .. 2 * NumSteps /\ r.no <= NumSteps + Cardinality(CompRows(S))
  <2>1. Cardinality(T) \in Nat
    BY <1>6, FS_CardinalityType
  <2>2. \A r \in step[t] : r.no \in 1 .. 2 * NumSteps
    BY DEF NumberedRows
  <2>3. \A r \in step[t] : r.no <= NumSteps + (c + Cardinality(T))
    BY <1>1, <1>4, <1>13, <2>1
  <2>4. \A i \in T : row[i].no \in 1 .. 2 * NumSteps /\ row[i].no <= NumSteps + (c + Cardinality(T))
    BY <1>1, <1>4, <1>12, <2>1
  <2> QED
    BY <1>11, <1>15, <1>17, <2>2, <2>3, <2>4
<1>19. NumberedRows(S)
  BY <1>16, <1>18 DEF NumberedRows
<1> QED
  BY <1>14, <1>15, <1>19

\* Only the status of rows changes.
Relabels(t) ==
    \E f \in [step[t] -> LogRow] :
        /\ \A r \in step[t] : f[r].no = r.no /\ f[r].of = r.of
        /\ step'[t] = {f[r] : r \in step[t]}

\* Answers, timeouts and retries only relabel rows.
LEMMA MovesRelabel ==
    ASSUME Books, NEW t \in Txs, Answers(t) \/ Expires(t) \/ Retries(t)
    PROVE  Relabels(t)
<1>1. step[t] \subseteq LogRow
  BY DEF Books, Types
<1>2. ASSUME NEW n \in Nat, NEW v \in StepStatus, step'[t] = SetRow(t, n, v)
      PROVE  Relabels(t)
  <2>1. PICK f : f = Labelled(t, n, v)
    OBVIOUS
  <2>2. /\ SetRow(t, n, v) = {f[r] : r \in step[t]} /\ f \in [step[t] -> LogRow]
        /\ \A r \in step[t] : f[r].no = r.no /\ f[r].of = r.of
    BY <1>1, <2>1, SetRowFunction
  <2> QED
    BY <1>2, <2>2 DEF Relabels
<1>3. CASE Answers(t)
  <2>1. rc.r \in AnyReceipt
    BY <1>3 DEF Answers, Books, Types, ConsumerState
  <2>2. rc.r.no \in Nat /\ rc.r.status \in StepStatus
    BY <2>1 DEF AnyReceipt, StepStatus
  <2> QED
    BY <1>2, <1>3, <2>2 DEF Answers
<1>4. CASE Expires(t)
  <2>1. PICK f : f = [r \in step[t] |-> IF r.status = "PENDING"
                                       THEN [r EXCEPT !.status = "FAILED"] ELSE r]
    OBVIOUS
  <2>2. f \in [step[t] -> LogRow] /\ \A r \in step[t] : f[r].no = r.no /\ f[r].of = r.of
    BY <1>1, <2>1 DEF LogRow, StepStatus
  <2>3. step'[t] = {f[r] : r \in step[t]}
    BY <1>4, <2>1 DEF Expires
  <2> QED
    BY <2>2, <2>3 DEF Relabels
<1>5. CASE Retries(t)
  <2>1. FirstFailed(t).no \in Nat /\ "PENDING" \in StepStatus
    BY <1>5, FirstFailedRow DEF Retries, StepStatus
  <2> QED
    BY <1>2, <1>5, <2>1 DEF Retries
<1> QED
  BY <1>3, <1>4, <1>5

\* Every move of the log keeps its numbers.
LEMMA NextNumbered ==
    ASSUME Books, Numbered, [Next]_vars
    PROVE  Numbered'
<1> SUFFICES ASSUME NEW t \in Txs
             PROVE  NumberedRows(step'[t])
  BY DEF Numbered, NumberedRows, CompRows, IsComp
<1>1. LogMove(t) /\ NumberedRows(step[t]) /\ NumSteps \in Nat
  BY LogMoves, PlanAssumption DEF Numbered
<1>2. step[t] \subseteq LogRow /\ IsFiniteSet(step[t])
  BY DEF Books, Types
<1>3. CASE step'[t] = step[t]
  BY <1>1, <1>3
<1>4. CASE Registers(t)
  <2>1. PICK S : S = {[no |-> i, of |-> i, status |-> "PENDING"] : i \in OriginalNos}
    OBVIOUS
  <2>2. \A r \in S : r.no \in 1 .. NumSteps /\ r.no <= NumSteps
    BY <1>1, <2>1 DEF OriginalNos
  <2>3. CompRows(S) = {}
    BY <1>1, <2>2 DEF CompRows, IsComp
  <2>4. Cardinality(CompRows(S)) = 0
    BY <2>3, FS_EmptySet
  <2>5. \A a, b \in S : a.no = b.no => a = b
    BY <2>1
  <2>6. \A r \in S : r.no \in 1 .. 2 * NumSteps /\ r.no <= NumSteps + 0
    BY <1>1, <2>2
  <2>7. NumberedRows(S)
    BY <2>4, <2>5, <2>6 DEF NumberedRows
  <2> QED
    BY <1>4, <2>1, <2>7 DEF Registers
<1>5. CASE Answers(t) \/ Expires(t) \/ Retries(t)
  <2>1. PICK f \in [step[t] -> LogRow] :
          /\ \A r \in step[t] : f[r].no = r.no /\ f[r].of = r.of
          /\ step'[t] = {f[r] : r \in step[t]}
    BY <1>5, MovesRelabel DEF Relabels
  <2>2. NumberedRows({f[r] : r \in step[t]})
    BY <1>1, <1>2, <2>1, RelabelledNumbers
  <2> QED
    BY <2>1, <2>2
<1>6. CASE Compensates(t)
  BY <1>1, <1>6, NewNumbers DEF Compensates
<1> QED
  BY <1>1, <1>3, <1>4, <1>5, <1>6 DEF LogMove

\* What the types of the units, of the counters and of the idle consumer
\* add to the rest.
Rest ==
    /\ opened \subseteq Accounts
    /\ balance \in [Accounts -> Nat]
    /\ journal \subseteq JournalKey
    /\ attempts \in [Txs -> [CompNos -> 0 .. MaxAttempts]]
    /\ late \subseteq Txs
    /\ locals \in Nat /\ faults \in Nat
    /\ rc.stage = "idle" => rc = NoReceipt

\* A unit never overdraws an account.
LEMMA HandleStepRest ==
    ASSUME Books, Rest, NEW m \in msgs, handleStep(m)
    PROVE  Rest'
<1>1. UNCHANGED <<opened, rc, attempts, late, locals>>
  BY DEF handleStep
<1>2. faults' \in Nat
  BY PlanAssumption DEF handleStep, Rest
<1>3. m \in Message /\ m.tx \in Txs /\ m.of \in 1 .. NumSteps
  BY DEF Books, Types, Message, OriginalNos
<1>4. PICK s : s = Plan[m.tx][m.of]
  OBVIOUS
<1>5. s \in Step /\ s.acct \in Accounts /\ s.amount \in Nat
  BY <1>3, <1>4, PlanAssumption DEF Step
<1>6. StepKey(m) \in JournalKey
  BY <1>3, <1>4, <1>5 DEF StepKey, JournalKey, Takes, IsComp
<1>7. journal' \subseteq JournalKey
  BY <1>6 DEF handleStep, applyStep, Rest
<1>8. balance' \in [Accounts -> Nat]
  <2>1. CASE balance' = balance
    BY <2>1 DEF Rest
  <2>2. CASE balance' # balance
    <3>1. /\ StepKey(m) \notin journal /\ StepResult(m) # "FAILED"
          /\ balance' = [balance EXCEPT ![s.acct] = IF Takes(m) THEN @ - s.amount ELSE @ + s.amount]
      BY <1>4, <2>2 DEF handleStep, applyStep
    <3>2. ~Refused(s, Takes(m))
      BY <1>4, <3>1 DEF StepResult
    <3>3. balance \in [Accounts -> Nat]
      BY DEF Rest
    <3>4. CASE Takes(m)
      <4>1. balance[s.acct] - s.amount \in Nat
        BY <1>5, <3>2, <3>3, <3>4 DEF Refused
      <4> QED
        BY <1>5, <3>1, <3>3, <3>4, <4>1
    <3>5. CASE ~Takes(m)
      BY <1>5, <3>1, <3>3, <3>5
    <3> QED
      BY <3>4, <3>5
  <2> QED
    BY <2>1, <2>2
<1> QED
  BY <1>1, <1>2, <1>7, <1>8 DEF Rest

\* advance counts the attempts of a compensation up to the maximum.
LEMMA AdvanceAttempts ==
    ASSUME Books, Numbered, Rest, NEW t \in Txs, advance(t)
    PROVE  attempts' \in [Txs -> [CompNos -> 0 .. MaxAttempts]]
<1>1. NumSteps \in Nat /\ MaxAttempts \in Nat
  BY PlanAssumption
<1>2. CASE Outcome(t) # "retry"
  BY <1>2 DEF advance, Rest
<1>3. CASE Outcome(t) = "retry"
  <2>1. PICK n : n = FirstFailed(t).no
    OBVIOUS
  <2>2. FailedComps(t) # {} /\ attempts[t][n] < MaxAttempts
    BY <1>3, <2>1 DEF Outcome
  <2>3. FirstFailed(t) \in step[t] /\ n > NumSteps
    BY <2>1, <2>2, FirstFailedRow DEF IsComp
  <2>4. n \in 1 .. 2 * NumSteps
    BY <2>1, <2>3 DEF Numbered, NumberedRows
  <2>5. n \in CompNos
    BY <1>1, <2>3, <2>4 DEF CompNos
  <2>6. attempts' = [attempts EXCEPT ![t][n] = @ + 1]
    BY <1>3, <2>1 DEF advance
  <2>7. attempts \in [Txs -> [CompNos -> 0 .. MaxAttempts]]
    BY DEF Rest
  <2>8. attempts[t][n] + 1 \in 0 .. MaxAttempts
    BY <1>1, <2>2, <2>5, <2>7
  <2> QED
    BY <2>5, <2>6, <2>7, <2>8
<1> QED
  BY <1>2, <1>3

\* The units, the counters and the idle consumer keep their types.
LEMMA NextRest ==
    ASSUME Books, Numbered, Rest, [Next]_vars
    PROVE  Rest'
<1>1. rc \in ConsumerState /\ MaxFaults \in Nat /\ MaxLocal \in Nat
  BY PlanAssumption DEF Books, Types
<1> DEFINE Same == UNCHANGED <<opened, balance, journal, attempts, late, locals>>
           Idle == rc' = rc \/ rc' = NoReceipt \/ rc'.stage # "idle"
<1>2. ASSUME Same, Idle, faults' = faults \/ faults' = faults + 1
      PROVE  Rest'
  BY <1>2 DEF Rest
<1>3. ASSUME NEW t \in Txs, publishPending(t)
      PROVE  faults' = faults \/ faults' = faults + 1
  BY <1>3 DEF publishPending
<1>4. ASSUME NEW t \in Txs, Register(t) \/ PublishCreated(t)
      PROVE  Rest'
  BY <1>2, <1>3, <1>4 DEF Register, PublishCreated, units
<1>5. ASSUME NEW m \in msgs, handleStep(m)
      PROVE  Rest'
  BY <1>5, HandleStepRest
<1>6. ASSUME NEW p \in LocalPairs, localTransfer(p[1], p[2])
      PROVE  Rest'
  <2>1. PICK from, to : from = p[1] /\ to = p[2]
    OBVIOUS
  <2>2. from \in Accounts /\ to \in Accounts /\ from # to
    BY <2>1, PlanAssumption
  <2>3. /\ balance[from] >= 1 /\ locals' = locals + 1
        /\ balance' = [balance EXCEPT ![from] = @ - 1, ![to] = @ + 1]
        /\ UNCHANGED <<opened, journal, attempts, late, rc, faults>>
    BY <1>6, <2>1 DEF localTransfer
  <2>4. balance' \in [Accounts -> Nat]
    BY <2>2, <2>3 DEF Rest
  <2> QED
    BY <2>3, <2>4 DEF Rest
<1>7. ASSUME NEW a \in Accounts, handleCreateAccount(a)
      PROVE  Rest'
  BY <1>7 DEF handleCreateAccount, Rest
<1>8. CASE (\E r \in receipts : TakeReceipt(r)) \/ ReadTx \/ reopenCompensation
  <2>1. Same /\ faults' = faults
    BY <1>8 DEF TakeReceipt, ReadTx, reopenCompensation, units
  <2>2. rc'.stage # "idle"
    BY <1>1, <1>8 DEF TakeReceipt, ReadTx, reopenCompensation, NoReceipt, ConsumerState
  <2> QED
    BY <1>2, <2>1, <2>2
<1>9. CASE UpdateStep
  <2>1. UNCHANGED <<opened, balance, journal, attempts, locals, faults>>
    BY <1>9 DEF UpdateStep, units
  <2>2. rc'.stage # "idle"
    BY <1>1, <1>9 DEF UpdateStep, ConsumerState
  <2>3. late' = late \/ late' = late \cup {rc.r.tx}
    BY <1>9 DEF UpdateStep
  <2>4. rc.r.tx \in Txs
    BY <1>1, <1>9 DEF UpdateStep, ConsumerState, AnyReceipt
  <2> QED
    BY <2>1, <2>2, <2>3, <2>4 DEF Rest
<1>10. CASE AdvanceReceipt
  <2>1. rc.r.tx \in Txs /\ advance(rc.r.tx)
    BY <1>10 DEF AdvanceReceipt, Books, Types, ConsumerState, AnyReceipt
  <2>2. UNCHANGED <<opened, balance, journal, late, locals, faults>>
    BY <1>10 DEF AdvanceReceipt, units
  <2>3. Idle
    BY <1>1, <1>10 DEF AdvanceReceipt, ConsumerState
  <2> QED
    BY <2>1, <2>2, <2>3, AdvanceAttempts DEF Rest
<1>11. CASE AdvanceExpired
  <2>1. ex.tx \in Txs /\ advance(ex.tx)
    BY <1>11 DEF AdvanceExpired, Books, Types, LoopState
  <2>2. UNCHANGED <<opened, balance, journal, late, locals, faults, rc>>
    BY <1>11 DEF AdvanceExpired, units
  <2> QED
    BY <2>1, <2>2, AdvanceAttempts DEF Rest
<1>12. CASE PublishReceipt
  <2>1. rc.r.tx \in Txs
    BY <1>12 DEF PublishReceipt, Books, Types, ConsumerState, AnyReceipt
  <2> QED
    BY <1>2, <1>3, <1>12, <2>1 DEF PublishReceipt, units
<1>13. CASE PublishExpired
  <2>1. ex.tx \in Txs
    BY <1>13 DEF PublishExpired, Books, Types, LoopState
  <2> QED
    BY <1>2, <1>3, <1>13, <2>1 DEF PublishExpired, units
<1>14. ASSUME NEW t \in Txs, expire(t)
      PROVE  Rest'
  <2>1. UNCHANGED <<opened, balance, journal, attempts, late, locals, faults, rc>>
    BY <1>14 DEF expire, units
  <2> QED
    BY <2>1 DEF Rest
<1>15. CASE recover
  <2>1. UNCHANGED <<opened, balance, journal, locals>> /\ faults' = faults + 1 /\ rc' = NoReceipt
    BY <1>15 DEF recover, units
  <2>2. attempts' \in [Txs -> [CompNos -> 0 .. MaxAttempts]]
    BY <1>15, PlanAssumption DEF recover, NoAttempts
  <2>3. rc.stage = "reopen" => rc.r.tx \in Txs
    BY <1>1 DEF ConsumerState, AnyReceipt
  <2>4. late' \subseteq Txs
    BY <1>15, <2>3 DEF recover, Rest
  <2> QED
    BY <2>1, <2>2, <2>4 DEF Rest
<1>16. CASE UNCHANGED vars
  BY <1>2, <1>16 DEF vars
<1> QED
  BY <1>4, <1>5, <1>6, <1>7, <1>8, <1>9, <1>10, <1>11, <1>12, <1>13, <1>14, <1>15, <1>16
     DEF Next, Consumer, TimeoutLoop

\* Together they give the type invariant of the module.
LEMMA TypesFollow ==
    ASSUME Books, Numbered, Rest
    PROVE  TypeOK
<1>1. NumSteps \in Nat
  BY PlanAssumption
<1>2. 1 .. 2 * NumSteps = OriginalNos \cup CompNos
  BY <1>1 DEF OriginalNos, CompNos
<1>3. \A t \in Txs : \A r \in step[t] : r.no \in OriginalNos \cup CompNos
  BY <1>2 DEF Numbered, NumberedRows
<1>4. step \in [Txs -> SUBSET Row]
  BY <1>3 DEF Books, Types, LogRow, Row
<1>5. \A t \in Txs : \A a, b \in step[t] : a.no = b.no => a = b
  BY DEF Numbered, NumberedRows
<1>6. msgs \subseteq StepMessage
  BY <1>3 DEF Books, Types, Logged, Message, StepMessage
<1>7. \A r \in Receipts : r \in Receipt
  <2>1. \A r \in Receipts : r \in AnyReceipt
    BY RowOfReceipt
  <2> QED
    BY <1>3, <2>1 DEF Books, Logged, AnyReceipt, Receipt
<1>8. receipts \subseteq Receipt
  BY <1>7 DEF Receipts
<1>9. rc.r \in Receipt \cup {None}
  BY <1>7 DEF Receipts, Rest, NoReceipt
<1>10. rc \in [stage : {"idle", "status", "update", "reopen", "advance", "publish"},
               r : Receipt \cup {None}, seen : StepStatus, reopen : BOOLEAN]
  BY <1>9 DEF Books, Types, ConsumerState
<1>11. ex \in [stage : {"idle", "advance", "publish"}, tx : Txs \cup {None}]
  BY DEF Books, Types, LoopState
<1>12. tx \in [Txs -> TxStatus] /\ creating \subseteq Txs
  BY DEF Books, Types
<1> QED
  BY <1>4, <1>5, <1>6, <1>8, <1>10, <1>11, <1>12 DEF TypeOK, Rest

---------------------------------------------------------------------------
(* Compensations that are called done *)

\* A compensation that the log or a receipt calls done was executed, a
\* message is of the step its row is of, and nothing is executed before it is
\* registered.
Undone ==
    /\ \A t \in Txs : \A r \in step[t] : IsComp(r) /\ r.status = "DONE" => Reversed(t, r.of)
    /\ \A m \in msgs : \A s \in step[m.tx] : s.no = m.no => s.of = m.of
    /\ \A r \in Receipts : IsComp(r) /\ r.status = "DONE" =>
          \A s \in step[r.tx] : s.no = r.no => Reversed(r.tx, s.of)
    /\ \A t \in Txs : tx[t] = "none" => \A i \in OriginalNos : ~Applied(t, i)

\* What a unit did stays done.
LEMMA JournalStays ==
    ASSUME journal \subseteq journal', NEW t, NEW i
    PROVE  /\ Applied(t, i) => Applied(t, i)'
           /\ Reversed(t, i) => Reversed(t, i)'
  BY DEF Applied, Reversed, StepKey, Takes, IsComp

\* Where messages, receipts and journal keys come from.
LEMMA TrafficMoves ==
    ASSUME Books, [Next]_vars
    PROVE  /\ \A m \in msgs' : m \in msgs \/ (UNCHANGED step /\ \E t \in Txs : m \in PendingMessages(t))
           /\ \A r \in Receipts' :
                 r \in Receipts \/ \E m \in msgs : /\ handleStep(m)
                                                   /\ r = [tx |-> m.tx, no |-> m.no, status |-> StepResult(m)]
           /\ journal' = journal \/ \E m \in msgs : handleStep(m) /\ journal' = journal \cup {StepKey(m)}
<1> DEFINE MsgsFrom == \A m \in msgs' : m \in msgs \/ (UNCHANGED step /\ \E t \in Txs : m \in PendingMessages(t))
           ReceiptsFrom == \A r \in Receipts' : r \in Receipts
<1>1. ASSUME NEW m \in msgs, handleStep(m)
      PROVE  /\ msgs' \subseteq msgs
             /\ \A r \in Receipts' :
                   r \in Receipts \/ r = [tx |-> m.tx, no |-> m.no, status |-> StepResult(m)]
             /\ journal' = journal \/ journal' = journal \cup {StepKey(m)}
  <2>1. rc' = rc /\ msgs' \subseteq msgs
    BY <1>1 DEF handleStep
  <2>2. receipts' \subseteq receipts \cup {[tx |-> m.tx, no |-> m.no, status |-> StepResult(m)]}
    BY <1>1 DEF handleStep
  <2>3. journal' = journal \/ journal' = journal \cup {StepKey(m)}
    BY <1>1 DEF handleStep, applyStep
  <2> QED
    BY <2>1, <2>2, <2>3 DEF Receipts
<1>2. ASSUME NEW t \in Txs, publishPending(t), UNCHANGED <<step, journal, receipts>>,
             rc' = rc \/ rc' = NoReceipt
      PROVE  MsgsFrom /\ ReceiptsFrom /\ journal' = journal
  <2>1. MsgsFrom
    BY <1>2, PublishedMessages
  <2>2. ReceiptsFrom
    BY <1>2 DEF Receipts, NoReceipt
  <2> QED
    BY <1>2, <2>1, <2>2
<1>3. ASSUME UNCHANGED <<msgs, journal, receipts>>,
             rc'.stage = "idle" \/ (rc.stage # "idle" /\ rc'.r = rc.r)
      PROVE  MsgsFrom /\ ReceiptsFrom /\ journal' = journal
  <2>1. ReceiptsFrom
    BY <1>3 DEF Receipts
  <2> QED
    BY <1>3, <2>1
<1>4. ASSUME NEW t \in Txs, Register(t)
      PROVE  MsgsFrom /\ ReceiptsFrom /\ journal' = journal
  BY <1>3, <1>4 DEF Register, units
<1>5. ASSUME NEW t \in Txs, PublishCreated(t)
      PROVE  MsgsFrom /\ ReceiptsFrom /\ journal' = journal
  BY <1>2, <1>5 DEF PublishCreated, units
<1>6. ASSUME NEW p \in LocalPairs, localTransfer(p[1], p[2])
      PROVE  MsgsFrom /\ ReceiptsFrom /\ journal' = journal
  BY <1>3, <1>6 DEF localTransfer
<1>7. ASSUME NEW a \in Accounts, handleCreateAccount(a)
      PROVE  MsgsFrom /\ ReceiptsFrom /\ journal' = journal
  BY <1>3, <1>7 DEF handleCreateAccount
<1>8. ASSUME NEW r \in receipts, TakeReceipt(r)
      PROVE  MsgsFrom /\ ReceiptsFrom /\ journal' = journal
  <2>1. rc'.r = r /\ receipts' \subseteq receipts
    BY <1>8 DEF TakeReceipt, NoReceipt
  <2>2. msgs' = msgs /\ journal' = journal
    BY <1>8 DEF TakeReceipt, units
  <2> QED
    BY <2>1, <2>2 DEF Receipts
<1>9. CASE ReadTx \/ UpdateStep \/ reopenCompensation
  <2>1. rc \in ConsumerState
    BY DEF Books, Types
  <2>2. rc'.r = rc.r /\ rc.stage # "idle"
    BY <1>9, <2>1 DEF ReadTx, UpdateStep, reopenCompensation, ConsumerState
  <2> QED
    BY <1>3, <1>9, <2>2 DEF ReadTx, UpdateStep, reopenCompensation, units
<1>10. CASE AdvanceReceipt
  <2>1. rc \in ConsumerState
    BY DEF Books, Types
  <2>2. rc'.stage = "idle" \/ (rc.stage # "idle" /\ rc'.r = rc.r)
    BY <1>10, <2>1 DEF AdvanceReceipt, ConsumerState, NoReceipt
  <2> QED
    BY <1>3, <1>10, <2>2 DEF AdvanceReceipt, units
<1>11. CASE AdvanceExpired
  BY <1>3, <1>11 DEF AdvanceExpired, units
<1>12. CASE PublishReceipt
  <2>1. rc.r.tx \in Txs
    BY <1>12 DEF PublishReceipt, Books, Types, ConsumerState, AnyReceipt
  <2> QED
    BY <1>2, <1>12, <2>1 DEF PublishReceipt, units
<1>13. CASE PublishExpired
  <2>1. ex.tx \in Txs
    BY <1>13 DEF PublishExpired, Books, Types, LoopState
  <2> QED
    BY <1>2, <1>13, <2>1 DEF PublishExpired, units
<1>14. ASSUME NEW t \in Txs, expire(t)
      PROVE  MsgsFrom /\ ReceiptsFrom /\ journal' = journal
  BY <1>3, <1>14 DEF expire, units
<1>15. CASE recover
  <2>1. rc' = NoReceipt /\ UNCHANGED <<step, journal>>
    BY <1>15 DEF recover, units
  <2>2. receipts' \subseteq Receipts
    BY <1>15 DEF recover, Receipts
  <2>3. MsgsFrom
    BY <1>15, <2>1 DEF recover
  <2> QED
    BY <2>1, <2>2, <2>3 DEF Receipts, NoReceipt
<1>16. CASE UNCHANGED vars
  BY <1>3, <1>16 DEF vars
<1>17. \/ MsgsFrom /\ ReceiptsFrom /\ journal' = journal
       \/ \E m \in msgs : handleStep(m)
  BY <1>4, <1>5, <1>6, <1>7, <1>8, <1>9, <1>10, <1>11, <1>12, <1>13, <1>14, <1>15, <1>16
     DEF Next, Consumer, TimeoutLoop
<1> QED
  BY <1>1, <1>17

\* A number goes on to mean the same step.
LEMMA NumbersStand ==
    ASSUME Books, Numbered, [Next]_vars, NEW t \in Txs
    PROVE  \A s \in step'[t] : \A r \in step[t] : s.no = r.no => s.of = r.of
<1>1. LogMove(t) /\ NumberedRows(step[t])
  BY LogMoves DEF Numbered
<1>2. CASE step'[t] = step[t]
  BY <1>1, <1>2 DEF NumberedRows
<1>3. CASE Registers(t)
  BY <1>3 DEF Registers, Books, Registered
<1>4. CASE Answers(t) \/ Expires(t) \/ Retries(t)
  <2>1. PICK f \in [step[t] -> LogRow] :
          /\ \A r \in step[t] : f[r].no = r.no /\ f[r].of = r.of
          /\ step'[t] = {f[r] : r \in step[t]}
    BY <1>4, MovesRelabel DEF Relabels
  <2> QED
    BY <1>1, <2>1 DEF NumberedRows
<1>5. CASE Compensates(t)
  <2>1. \A n \in NewComps(t) : \A r \in step[t] : n.no > r.no
    BY <1>1, NewNumbers
  <2>2. \A n \in NewComps(t) : \A r \in step[t] : n.no # r.no
    <3>1. NewComps(t) \subseteq LogRow /\ step[t] \subseteq LogRow
      BY NewCompensations DEF Books, Types
    <3> QED
      BY <2>1, <3>1 DEF LogRow
  <2>3. step'[t] = step[t] \cup NewComps(t)
    BY <1>5 DEF Compensates
  <2> QED
    BY <1>1, <2>2, <2>3 DEF NumberedRows
<1> QED
  BY <1>1, <1>2, <1>3, <1>4, <1>5 DEF LogMove

\* A compensation becomes done only by a receipt that says so.
LEMMA DoneByReceipt ==
    ASSUME Books, Numbered, [Next]_vars, NEW t \in Txs,
           NEW s \in step'[t], IsComp(s), s.status = "DONE"
    PROVE  \/ s \in step[t]
           \/ /\ rc.stage = "update" /\ rc.r.tx = t /\ rc.r.no = s.no /\ rc.r.status = "DONE"
              /\ \E r \in step[t] : r.no = s.no /\ r.of = s.of
<1>1. LogMove(t) /\ step[t] \subseteq LogRow /\ NumSteps \in Nat
  BY LogMoves, PlanAssumption DEF Books, Types
<1>2. CASE Registers(t)
  BY <1>1, <1>2 DEF Registers
<1>3. CASE Answers(t)
  <2>1. rc.r \in AnyReceipt
    BY <1>3 DEF Answers, Books, Types, ConsumerState
  <2>2. rc.r.no \in Nat /\ rc.r.status \in StepStatus
    BY <2>1 DEF AnyReceipt, StepStatus
  <2>3. PICK f : f = Labelled(t, rc.r.no, rc.r.status)
    OBVIOUS
  <2>4. /\ step'[t] = {f[r] : r \in step[t]}
        /\ \A r \in step[t] : f[r].no = r.no /\ f[r].of = r.of
        /\ \A r \in step[t] : IF r.no = rc.r.no THEN f[r].status = rc.r.status ELSE f[r] = r
    BY <1>1, <1>3, <2>2, <2>3, SetRowFunction DEF Answers
  <2>5. PICK r \in step[t] : s = f[r]
    BY <2>4
  <2> QED
    BY <1>3, <2>4, <2>5 DEF Answers
<1>4. CASE Expires(t)
  BY <1>1, <1>4 DEF Expires, LogRow
<1>5. CASE Retries(t)
  <2>1. FirstFailed(t).no \in Nat /\ "PENDING" \in StepStatus
    BY <1>5, FirstFailedRow DEF Retries, StepStatus
  <2>2. PICK f : f = Labelled(t, FirstFailed(t).no, "PENDING")
    OBVIOUS
  <2>3. /\ step'[t] = {f[r] : r \in step[t]}
        /\ \A r \in step[t] : IF r.no = FirstFailed(t).no THEN f[r].status = "PENDING" ELSE f[r] = r
    BY <1>1, <1>5, <2>1, <2>2, SetRowFunction DEF Retries
  <2> QED
    BY <2>3
<1>6. CASE Compensates(t)
  <2>1. \A n \in NewComps(t) : n.status = "PENDING"
    BY NewCompensations
  <2> QED
    BY <1>6, <2>1 DEF Compensates
<1> QED
  BY <1>1, <1>2, <1>3, <1>4, <1>5, <1>6 DEF LogMove

\* The claims of Undone hold after every step.
LEMMA NextUndone ==
    ASSUME Books, Books', Numbered, Numbered', Undone, [Next]_vars
    PROVE  Undone'
<1>1. /\ \A m \in msgs' : m \in msgs \/ (UNCHANGED step /\ \E t \in Txs : m \in PendingMessages(t))
      /\ \A r \in Receipts' :
            r \in Receipts \/ \E m \in msgs : /\ handleStep(m)
                                              /\ r = [tx |-> m.tx, no |-> m.no, status |-> StepResult(m)]
      /\ journal' = journal \/ \E m \in msgs : handleStep(m) /\ journal' = journal \cup {StepKey(m)}
  BY TrafficMoves
<1>2. journal \subseteq journal'
  BY <1>1
<1>3. ASSUME NEW t \in Txs, NEW s \in step'[t], IsComp(s), s.status = "DONE"
      PROVE  Reversed(t, s.of)'
  <2>1. CASE s \in step[t]
    BY <1>2, <1>3, <2>1, JournalStays DEF Undone
  <2>2. CASE s \notin step[t]
    <3>1. /\ rc.stage = "update" /\ rc.r.tx = t /\ rc.r.no = s.no /\ rc.r.status = "DONE"
          /\ \E r \in step[t] : r.no = s.no /\ r.of = s.of
      BY <1>3, <2>2, DoneByReceipt
    <3>2. rc.r \in Receipts /\ IsComp(rc.r)
      BY <1>3, <3>1 DEF Receipts, IsComp
    <3>3. Reversed(t, s.of)
      BY <3>1, <3>2 DEF Undone
    <3> QED
      BY <1>2, <3>3, JournalStays
  <2> QED
    BY <2>1, <2>2
<1>4. ASSUME NEW m \in msgs', NEW s \in step'[m.tx], s.no = m.no
      PROVE  s.of = m.of
  <2>1. CASE m \in msgs
    <3>1. m.tx \in Txs
      BY <2>1 DEF Books, Types, Message
    <3>2. PICK r \in step[m.tx] : r.no = m.no
      BY <2>1 DEF Books, Logged
    <3>3. r.of = m.of
      BY <2>1, <3>2 DEF Undone
    <3> QED
      BY <1>4, <3>1, <3>2, <3>3, NumbersStand
  <2>2. CASE m \notin msgs
    <3>1. PICK t \in Txs : m \in PendingMessages(t)
      BY <1>1, <2>2
    <3>2. PICK r \in step[t] : m = [tx |-> t, no |-> r.no, of |-> r.of]
      BY <3>1 DEF PendingMessages
    <3>3. step'[t] = step[t]
      BY <1>1, <2>2
    <3> QED
      BY <1>4, <3>2, <3>3 DEF Numbered, NumberedRows
  <2> QED
    BY <2>1, <2>2
<1>5. ASSUME NEW r \in Receipts', IsComp(r), r.status = "DONE", NEW s \in step'[r.tx], s.no = r.no
      PROVE  Reversed(r.tx, s.of)'
  <2>1. CASE r \in Receipts
    <3>1. r.tx \in Txs /\ RowOf(r) \in step[r.tx] /\ RowOf(r).no = r.no
      BY <2>1, RowOfReceipt DEF AnyReceipt
    <3>2. Reversed(r.tx, RowOf(r).of)
      BY <1>5, <2>1, <3>1 DEF Undone
    <3>3. s.of = RowOf(r).of
      BY <1>5, <3>1, NumbersStand
    <3> QED
      BY <1>2, <3>2, <3>3, JournalStays
  <2>2. CASE r \notin Receipts
    <3>1. PICK m \in msgs : handleStep(m) /\ r = [tx |-> m.tx, no |-> m.no, status |-> StepResult(m)]
      BY <1>1, <2>2
    <3>2. m \in Message /\ m.tx \in Txs /\ m.of \in OriginalNos /\ IsComp(m)
      BY <1>5, <3>1 DEF Books, Types, Message, IsComp
    <3>3. StepKey(m) \in journal'
      BY <1>5, <3>1 DEF handleStep, applyStep
    <3>4. StepKey(m) = Key(m.tx, m.of, TRUE)
      BY <3>2, MessageKey
    <3>5. s.of = m.of
      <4>1. step' = step
        BY <3>1 DEF handleStep
      <4> QED
        BY <1>5, <3>1, <4>1 DEF Undone
    <3>6. StepKey([tx |-> m.tx, no |-> NumSteps + 1, of |-> m.of]) \in journal'
      BY <3>2, <3>3, <3>4, StepKeys
    <3>7. Reversed(m.tx, m.of)'
      BY <3>6 DEF Reversed, StepKey, Takes, IsComp
    <3> QED
      BY <3>1, <3>5, <3>7
  <2> QED
    BY <2>1, <2>2
<1>6. ASSUME NEW t \in Txs, tx'[t] = "none", NEW i \in OriginalNos, Applied(t, i)'
      PROVE  FALSE
  <2>1. step'[t] = {}
    BY <1>6 DEF Books, Registered
  <2>2. step[t] = {} /\ tx[t] = "none"
    <3>1. \A u \in Txs : tx[u] = "none" \/ tx'[u] # "none"
      BY <1>6 DEF Books, Types, Next, vars, Register, PublishCreated, handleStep, localTransfer,
         handleCreateAccount, Consumer, TakeReceipt, ReadTx, UpdateStep, reopenCompensation,
         AdvanceReceipt, PublishReceipt, TimeoutLoop, expire, AdvanceExpired, PublishExpired,
         recover, advance
    <3> QED
      BY <1>6, <3>1 DEF Books, Registered
  <2>3. ~Applied(t, i)
    BY <2>2 DEF Undone
  <2>4. PICK m \in msgs : handleStep(m) /\ journal' = journal \cup {StepKey(m)}
    BY <1>1, <1>6, <2>3 DEF Applied, StepKey, Takes, IsComp
  <2>5. StepKey(m) = StepKey([tx |-> t, no |-> i, of |-> i])
    BY <1>6, <2>3, <2>4 DEF Applied, StepKey, Takes, IsComp
  <2>6. m.tx = t
    BY <2>5 DEF StepKey
  <2> QED
    BY <2>2, <2>6 DEF Books, Logged
<1> QED
  BY <1>3, <1>4, <1>5, <1>6 DEF Undone, IsComp

---------------------------------------------------------------------------
(* Compensation of two steps *)

\* No original is open, and the done ones have their compensation.
Decided(t) ==
    \A r \in step[t] : ~IsComp(r) =>
        /\ r.status # "PENDING"
        /\ r.status = "DONE" => \E c \in step[t] : IsComp(c) /\ c.of = r.no

\* The consumer has an answer for step i and has yet to write it.
AtHand(t, i) == rc.stage \in {"status", "update"} /\ rc.r.tx = t /\ rc.r.no = i

\* The coordinator will learn that step i is done.
OnItsWay(t, i) ==
    \/ [tx |-> t, no |-> i, of |-> i] \in msgs
    \/ [tx |-> t, no |-> i, status |-> "DONE"] \in receipts
    \/ AtHand(t, i) /\ rc.r.status = "DONE"

\* The consumer has written a late DONE and has yet to reopen the transaction.
Reopening(t) == rc.stage = "reopen" /\ rc.r.tx = t

\* A transaction that missed no late DONE: once a compensation exists the
\* originals are decided; compensated means that the compensations are done as
\* well, unless the transaction is about to be reopened; what was executed is
\* known or will be; and the status the consumer has read is still in the log,
\* or the timeout loop has called the step failed since.
InTime(t) ==
    /\ Comps(t) # {} => Decided(t)
    /\ tx[t] = "COMPENSATED" /\ ~Reopening(t) =>
          Decided(t) /\ \A c \in step[t] : IsComp(c) => c.status = "DONE"
    /\ \A r \in step[t] : ~IsComp(r) /\ Applied(t, r.no) /\ r.status # "DONE" => OnItsWay(t, r.no)
    /\ \A r \in step[t] : ~IsComp(r) /\ AtHand(t, r.no) =>
          r.status = rc.seen \/ (rc.seen = "PENDING" /\ r.status = "FAILED")

Settled == \A t \in Txs \ late : InTime(t)

\* The log of the originals changes only when they are registered, when a
\* pending one is given up, and when an open or failed one is answered.
LEMMA OriginalsMove ==
    ASSUME Books, Numbered, [Next]_vars, NEW t \in Txs, NEW s \in step'[t], ~IsComp(s)
    PROVE  \/ s \in step[t]
           \/ Registers(t) /\ s.status = "PENDING"
           \/ /\ Expires(t) /\ s.status = "FAILED"
              /\ \E r \in step[t] : r.no = s.no /\ r.status = "PENDING"
           \/ /\ Answers(t) /\ s.no = rc.r.no /\ s.status = rc.r.status /\ ~IsComp(rc.r)
              /\ RowOf(rc.r) \in step[t] /\ RowOf(rc.r).no = s.no
              /\ RowOf(rc.r).status \in {"PENDING", "FAILED"}
<1>1. LogMove(t) /\ step[t] \subseteq LogRow /\ NumSteps \in Nat
  BY LogMoves, PlanAssumption DEF Books, Types
<1>2. CASE Registers(t)
  BY <1>2 DEF Registers
<1>3. CASE Answers(t)
  <2>1. rc.r \in AnyReceipt /\ rc.r \in Receipts
    BY <1>3 DEF Answers, Books, Types, ConsumerState, Receipts
  <2>2. rc.r.no \in Nat /\ rc.r.status \in StepStatus
    BY <2>1 DEF AnyReceipt, StepStatus
  <2>3. PICK f : f = Labelled(t, rc.r.no, rc.r.status)
    OBVIOUS
  <2>4. /\ step'[t] = {f[r] : r \in step[t]}
        /\ \A r \in step[t] : f[r].no = r.no /\ f[r].of = r.of
        /\ \A r \in step[t] : IF r.no = rc.r.no THEN f[r].status = rc.r.status ELSE f[r] = r
    BY <1>1, <1>3, <2>2, <2>3, SetRowFunction DEF Answers
  <2>5. PICK r \in step[t] : s = f[r]
    BY <2>4
  <2>6. CASE r.no # rc.r.no
    BY <2>4, <2>5, <2>6
  <2>7. CASE r.no = rc.r.no
    <3>1. RowOf(rc.r) \in step[t] /\ RowOf(rc.r).no = rc.r.no /\ RowOf(rc.r).status \in StepStatus
      BY <1>3, <2>1, RowOfReceipt DEF Answers
    <3>2. ~IsComp(rc.r)
      BY <2>4, <2>5, <2>7 DEF IsComp
    <3>3. RowOf(rc.r).status \in {"PENDING", "FAILED"}
      BY <1>3, <3>1 DEF Answers, StepStatus
    <3> QED
      BY <1>3, <2>4, <2>5, <2>7, <3>1, <3>2, <3>3
  <2> QED
    BY <2>6, <2>7
<1>4. CASE Expires(t)
  <2>1. PICK r \in step[t] : s = IF r.status = "PENDING" THEN [r EXCEPT !.status = "FAILED"] ELSE r
    BY <1>4 DEF Expires
  <2>2. r \in LogRow
    BY <1>1
  <2> QED
    BY <1>4, <2>1, <2>2 DEF LogRow
<1>5. CASE Retries(t)
  <2>1. FirstFailed(t).no \in Nat /\ "PENDING" \in StepStatus /\ IsComp(FirstFailed(t))
    BY <1>5, FirstFailedRow DEF Retries, StepStatus
  <2>2. PICK f : f = Labelled(t, FirstFailed(t).no, "PENDING")
    OBVIOUS
  <2>3. /\ step'[t] = {f[r] : r \in step[t]}
        /\ \A r \in step[t] : f[r].no = r.no /\ f[r].of = r.of
        /\ \A r \in step[t] : IF r.no = FirstFailed(t).no THEN f[r].status = "PENDING" ELSE f[r] = r
    BY <1>1, <1>5, <2>1, <2>2, SetRowFunction DEF Retries
  <2>4. PICK r \in step[t] : s = f[r]
    BY <2>3
  <2>5. r.no # FirstFailed(t).no
    BY <2>1, <2>3, <2>4 DEF IsComp
  <2> QED
    BY <2>3, <2>4, <2>5
<1>6. CASE Compensates(t)
  <2>1. \A n \in NewComps(t) : IsComp(n)
    BY NewCompensations
  <2> QED
    BY <1>6, <2>1 DEF Compensates
<1> QED
  BY <1>1, <1>2, <1>3, <1>4, <1>5, <1>6 DEF LogMove

\* Compensations keep what they are of.
LEMMA CompensationsStay ==
    ASSUME Books, [Next]_vars, NEW t \in Txs
    PROVE  /\ \A c \in step[t] : IsComp(c) => \E d \in step'[t] : IsComp(d) /\ d.of = c.of
           /\ \A d \in step'[t] : IsComp(d) => Comps(t) # {} \/ Compensates(t)
<1>1. LogMove(t) /\ NumSteps \in Nat
  BY LogMoves, PlanAssumption
<1>2. CASE step'[t] = step[t]
  BY <1>2 DEF Comps
<1>3. CASE Registers(t)
  <2>1. step[t] = {}
    BY <1>3 DEF Registers, Books, Registered
  <2>2. \A d \in step'[t] : ~IsComp(d)
    BY <1>1, <1>3 DEF Registers, OriginalNos, IsComp
  <2> QED
    BY <2>1, <2>2
<1>4. CASE Answers(t) \/ Expires(t) \/ Retries(t)
  <2>1. PICK f \in [step[t] -> LogRow] :
          /\ \A r \in step[t] : f[r].no = r.no /\ f[r].of = r.of
          /\ step'[t] = {f[r] : r \in step[t]}
    BY <1>4, MovesRelabel DEF Relabels
  <2> QED
    BY <2>1 DEF Comps, IsComp
<1>5. CASE Compensates(t)
  BY <1>5 DEF Compensates
<1> QED
  BY <1>1, <1>2, <1>3, <1>4, <1>5 DEF LogMove

\* With two steps, advance compensates at once everything it will ever have
\* to: one step has failed, so the other is done.
LEMMA CompensatesAll ==
    ASSUME NumSteps <= 2, Books, Numbered, NEW t \in Txs, Compensates(t),
           Comps(t) # {} => Decided(t)
    PROVE  Decided(t)'
<1>1. PICK D : D = DoneOriginals(t)
  OBVIOUS
<1>2. /\ D \subseteq 1 .. NumSteps /\ IsFiniteSet(D) /\ Cardinality(D) \in Nat
      /\ IsFiniteSet(Comps(t)) /\ Cardinality(Comps(t)) \in Nat
      /\ Missing(t) = Cardinality(D) - Cardinality(Comps(t))
  BY <1>1, CountedRows DEF OriginalNos
<1>3. NumSteps \in Nat /\ step[t] \subseteq LogRow /\ NumberedRows(step[t])
  BY PlanAssumption DEF Books, Types, Numbered
<1>4. \A i \in D : \E r \in step[t] : ~IsComp(r) /\ r.no = i /\ r.status = "DONE"
  BY <1>1 DEF DoneOriginals, Originals
<1>5. Cardinality(D) > Cardinality(Comps(t))
  BY <1>2 DEF Compensates
<1>6. Comps(t) = {}
  <2> SUFFICES ASSUME Decided(t)
               PROVE  FALSE
    OBVIOUS
  <2>1. \A i \in D : \E c \in Comps(t) : c.of = i
    BY <1>4 DEF Decided, Comps
  <2>2. PICK f : f = [i \in D |-> CHOOSE c \in Comps(t) : c.of = i]
    OBVIOUS
  <2>3. \A i \in D : f[i] \in Comps(t) /\ f[i].of = i
    BY <2>1, <2>2
  <2>4. f \in Injection(D, Comps(t))
    BY <2>2, <2>3 DEF Injection, IsInjective
  <2>5. Cardinality(D) <= Cardinality(Comps(t))
    BY <1>2, <2>4, FS_Injection
  <2> QED
    BY <1>2, <1>5, <2>5
<1>7. Cardinality(Comps(t)) = 0
  BY <1>6, FS_EmptySet
<1>8. Targets(t) = D
  <2>1. \A i \in D : Cardinality({j \in D : j > i}) < Cardinality(D)
    <3>1. D \subseteq Nat
      BY <1>2, <1>3
    <3> QED
      BY <1>2, <3>1, CountAbove
  <2> QED
    BY <1>1, <1>2, <1>7, <2>1 DEF Targets
<1>9. D # {}
  BY <1>5, <1>7, FS_EmptySet
<1>10. PICK d \in step[t] : ~IsComp(d) /\ d.status = "DONE"
  BY <1>4, <1>9
<1>11. PICK a \in step[t] : ~IsComp(a) /\ a.status = "FAILED"
  BY <1>6 DEF Compensates, Compensating, Originals
<1>12. \A r \in step[t] : ~IsComp(r) => r = a \/ r = d
  <2>1. \A r \in step[t] : ~IsComp(r) => r.no \in 1 .. NumSteps
    BY <1>3 DEF NumberedRows, IsComp
  <2>2. a.no \in 1 .. NumSteps /\ d.no \in 1 .. NumSteps /\ a.no # d.no
    BY <1>3, <1>10, <1>11, <2>1 DEF NumberedRows
  <2>3. \A r \in step[t] : ~IsComp(r) => r.no = a.no \/ r.no = d.no
    BY <1>3, <2>1, <2>2
  <2> QED
    BY <1>3, <2>3 DEF NumberedRows
<1>13. step'[t] = step[t] \cup NewComps(t) /\ \A n \in NewComps(t) : IsComp(n)
  BY NewCompensations DEF Compensates
<1>14. \E c \in step'[t] : IsComp(c) /\ c.of = d.no
  <2>1. d.no \in Targets(t)
    BY <1>1, <1>8, <1>10 DEF DoneOriginals, Originals
  <2> QED
    BY <1>13, <2>1, NewCompensations
<1>15. \A r \in step'[t] : ~IsComp(r) => r.status # "PENDING" /\
          (r.status = "DONE" => \E c \in step'[t] : IsComp(c) /\ c.of = r.no)
  BY <1>10, <1>11, <1>12, <1>13, <1>14
<1> QED
  BY <1>15 DEF Decided, IsComp

\* A transaction is called compensated by advance only.
LEMMA CompensatedBy ==
    ASSUME Books, [Next]_vars, NEW t \in Txs, tx'[t] = "COMPENSATED"
    PROVE  tx[t] = "COMPENSATED" \/ (Outcome(t) = "compensated" /\ step' = step)
<1>1. tx \in [Txs -> TxStatus]
  BY DEF Books, Types
<1>2. ASSUME NEW u \in Txs, Register(u)
      PROVE  tx[t] = "COMPENSATED"
  BY <1>1, <1>2 DEF Register
<1>3. CASE reopenCompensation
  BY <1>1, <1>3 DEF reopenCompensation
<1>4. ASSUME NEW u \in Txs, advance(u)
      PROVE  tx[t] = "COMPENSATED" \/ (Outcome(t) = "compensated" /\ step' = step)
  <2>1. CASE Outcome(u) = "compensated"
    <3>1. tx' = [tx EXCEPT ![u] = "COMPENSATED"] /\ step' = step
      BY <1>4, <2>1 DEF advance
    <3> QED
      BY <1>1, <2>1, <3>1
  <2>2. CASE Outcome(u) # "compensated"
    <3>1. tx' = tx \/ tx' = [tx EXCEPT ![u] = "COMMITTED"] \/ tx' = [tx EXCEPT ![u] = "FAILED"]
      BY <1>4, <2>2 DEF advance
    <3> QED
      BY <1>1, <3>1
  <2> QED
    BY <2>1, <2>2
<1>5. CASE AdvanceReceipt
  <2>1. rc.r.tx \in Txs
    BY <1>5 DEF AdvanceReceipt, Books, Types, ConsumerState, AnyReceipt
  <2> QED
    BY <1>4, <1>5, <2>1 DEF AdvanceReceipt
<1>6. CASE AdvanceExpired
  <2>1. ex.tx \in Txs
    BY <1>6 DEF AdvanceExpired, Books, Types, LoopState
  <2> QED
    BY <1>4, <1>6, <2>1 DEF AdvanceExpired
<1>7. CASE UNCHANGED tx
  BY <1>7
<1>8. \/ UNCHANGED tx \/ reopenCompensation \/ AdvanceReceipt \/ AdvanceExpired
      \/ \E u \in Txs : Register(u)
  BY DEF Next, vars, PublishCreated, handleStep, localTransfer, handleCreateAccount,
     Consumer, TakeReceipt, ReadTx, UpdateStep, PublishReceipt, TimeoutLoop, expire,
     PublishExpired, recover
<1> QED
  BY <1>2, <1>3, <1>5, <1>6, <1>7, <1>8

\* What the consumer has at hand it has just taken, or had before.
LEMMA AtHandMoves ==
    ASSUME Books, [Next]_vars, NEW t, NEW i, AtHand(t, i)'
    PROVE  \/ \E r \in receipts : TakeReceipt(r) /\ r.tx = t /\ r.no = i
           \/ AtHand(t, i) /\ rc'.seen = rc.seen /\ rc'.r = rc.r /\ ~UpdateStep
<1>1. rc \in ConsumerState
  BY DEF Books, Types
<1>2. rc'.stage \in {"status", "update"} /\ rc'.r.tx = t /\ rc'.r.no = i
  BY DEF AtHand
<1>3. ASSUME NEW r \in receipts, TakeReceipt(r)
      PROVE  r.tx = t /\ r.no = i
  BY <1>2, <1>3 DEF TakeReceipt, NoReceipt
<1>4. CASE ReadTx
  <2>1. rc.stage = "status" /\ rc'.r = rc.r /\ rc'.seen = rc.seen
    BY <1>1, <1>4 DEF ReadTx, ConsumerState
  <2> QED
    BY <1>2, <2>1 DEF AtHand, UpdateStep
<1>5. CASE UpdateStep \/ reopenCompensation \/ AdvanceReceipt \/ PublishReceipt \/ recover
  BY <1>1, <1>2, <1>5 DEF UpdateStep, reopenCompensation, AdvanceReceipt, PublishReceipt, recover,
     NoReceipt, ConsumerState
<1>6. CASE UNCHANGED rc
  <2>1. ~UpdateStep
    BY <1>1, <1>6 DEF UpdateStep, ConsumerState
  <2> QED
    BY <1>2, <1>6, <2>1 DEF AtHand
<1>7. \/ UNCHANGED rc \/ ReadTx \/ UpdateStep \/ reopenCompensation \/ AdvanceReceipt
      \/ PublishReceipt \/ recover \/ \E r \in receipts : TakeReceipt(r)
  BY DEF Next, vars, Register, PublishCreated, handleStep, localTransfer, handleCreateAccount,
     Consumer, TimeoutLoop, expire, AdvanceExpired, PublishExpired
<1> QED
  BY <1>3, <1>4, <1>5, <1>6, <1>7

\* A unit that executes an original step answers, or gets the message again.
LEMMA ExecutionAnswered ==
    ASSUME Books, NEW t \in Txs, NEW i \in OriginalNos, NEW m \in msgs, handleStep(m),
           m = [tx |-> t, no |-> i, of |-> i], StepKey(m) \in journal'
    PROVE  OnItsWay(t, i)'
<1>1. StepResult(m) = "DONE"
  BY DEF handleStep, applyStep, StepResult
<1>2. \/ [tx |-> t, no |-> i, status |-> "DONE"] \in receipts'
      \/ m \in msgs'
  BY <1>1 DEF handleStep
<1> QED
  BY <1>2 DEF OnItsWay

\* Only its own message executes an original step.
LEMMA NewlyApplied ==
    ASSUME Books, [Next]_vars, NEW t \in Txs, NEW i \in OriginalNos, ~Applied(t, i), Applied(t, i)'
    PROVE  OnItsWay(t, i)'
<1>1. PICK m \in msgs : handleStep(m) /\ journal' = journal \cup {StepKey(m)}
  BY TrafficMoves DEF Applied, StepKey, Takes, IsComp
<1>2. StepKey(m) = StepKey([tx |-> t, no |-> i, of |-> i])
  BY <1>1 DEF Applied, StepKey, Takes, IsComp
<1>3. m \in Message /\ m.tx \in Txs /\ m.of \in OriginalNos
  BY DEF Books, Types, Message
<1>4. StepKey(m).comp = FALSE
  <2>1. StepKey(m) = Key(t, i, FALSE)
    BY <1>2, StepKeys
  <2> QED
    BY <2>1 DEF Key
<1>5. ~IsComp(m)
  BY <1>4 DEF StepKey
<1>6. m.tx = t /\ Plan[t][m.of].acct = Plan[t][i].acct
  BY <1>2 DEF StepKey
<1>7. m.of = i
  BY <1>3, <1>6, PlanAssumption DEF OriginalNos
<1>8. m = [tx |-> t, no |-> i, of |-> i]
  BY <1>3, <1>5, <1>6, <1>7 DEF Books, Self, Message
<1> QED
  BY <1>1, <1>8, ExecutionAnswered

\* An answer on its way stays on its way until the consumer writes it.
LEMMA OnItsWayMoves ==
    ASSUME Books, [Next]_vars, NEW t \in Txs, NEW i \in OriginalNos, Applied(t, i), OnItsWay(t, i)
    PROVE  \/ OnItsWay(t, i)'
           \/ UpdateStep /\ rc.r.tx = t /\ rc.r.no = i /\ rc.r.status = "DONE"
<1>1. rc \in ConsumerState
  BY DEF Books, Types
<1>2. CASE [tx |-> t, no |-> i, of |-> i] \in msgs
  <2>1. PICK q : q = [tx |-> t, no |-> i, of |-> i]
    OBVIOUS
  <2>2. CASE q \in msgs'
    BY <2>1, <2>2 DEF OnItsWay
  <2>3. ASSUME q \notin msgs', NEW m \in msgs, handleStep(m)
        PROVE  OnItsWay(t, i)'
    <3>1. m = q
      BY <1>2, <2>1, <2>3 DEF handleStep
    <3>2. StepKey(m) \in journal'
      BY <2>1, <2>3, <3>1 DEF Applied, handleStep, applyStep
    <3> QED
      BY <2>1, <2>3, <3>1, <3>2, ExecutionAnswered
  <2>4. msgs \subseteq msgs' \/ \E m \in msgs : handleStep(m)
    BY DEF Next, vars, Register, PublishCreated, localTransfer, handleCreateAccount, Consumer,
       TakeReceipt, ReadTx, UpdateStep, reopenCompensation, AdvanceReceipt, PublishReceipt,
       TimeoutLoop, expire, AdvanceExpired, PublishExpired, recover, publishPending
  <2> QED
    BY <1>2, <2>1, <2>2, <2>3, <2>4
<1>3. CASE [tx |-> t, no |-> i, status |-> "DONE"] \in receipts
  <2>1. PICK q : q = [tx |-> t, no |-> i, status |-> "DONE"]
    OBVIOUS
  <2>2. CASE q \in receipts'
    BY <2>1, <2>2 DEF OnItsWay
  <2>3. ASSUME q \notin receipts', NEW r \in receipts, TakeReceipt(r)
        PROVE  OnItsWay(t, i)'
    <3>1. r = q
      BY <1>3, <2>1, <2>3 DEF TakeReceipt
    <3>2. rc'.stage = "status" /\ rc'.r = q
      BY <2>3, <3>1 DEF TakeReceipt, NoReceipt
    <3> QED
      BY <2>1, <3>2 DEF OnItsWay, AtHand
  <2>4. receipts \subseteq receipts' \/ \E r \in receipts : TakeReceipt(r)
    BY DEF Next, vars, Register, PublishCreated, handleStep, localTransfer, handleCreateAccount,
       Consumer, ReadTx, UpdateStep, reopenCompensation, AdvanceReceipt, PublishReceipt,
       TimeoutLoop, expire, AdvanceExpired, PublishExpired, recover
  <2> QED
    BY <1>3, <2>1, <2>2, <2>3, <2>4
<1>4. CASE AtHand(t, i) /\ rc.r.status = "DONE"
  <2>1. rc.stage \in {"status", "update"} /\ rc.r.tx = t /\ rc.r.no = i
    BY <1>4 DEF AtHand
  <2>2. rc.r = [tx |-> t, no |-> i, status |-> "DONE"]
    BY <1>1, <1>4, <2>1 DEF ConsumerState, AnyReceipt
  <2>3. CASE UpdateStep
    BY <1>4, <2>1, <2>3
  <2>4. CASE ReadTx
    <3>1. rc'.stage = "update" /\ rc'.r = rc.r
      BY <1>1, <2>4 DEF ReadTx, ConsumerState
    <3> QED
      BY <1>4, <2>1, <3>1 DEF OnItsWay, AtHand
  <2>5. CASE recover
    BY <2>1, <2>2, <2>5 DEF recover, OnItsWay
  <2>6. CASE UNCHANGED rc
    BY <1>4, <2>1, <2>6 DEF OnItsWay, AtHand
  <2>7. UNCHANGED rc \/ UpdateStep \/ ReadTx \/ recover
    BY <2>1 DEF Next, vars, Register, PublishCreated, handleStep, localTransfer,
       handleCreateAccount, Consumer, TakeReceipt, reopenCompensation, AdvanceReceipt,
       PublishReceipt, TimeoutLoop, expire, AdvanceExpired, PublishExpired
  <2> QED
    BY <2>3, <2>4, <2>5, <2>6, <2>7
<1> QED
  BY <1>2, <1>3, <1>4 DEF OnItsWay

\* The window before the reopening ends with the reopening, or with the
\* coordinator, and then the DONE is missed.
LEMMA ReopeningEnds ==
    ASSUME Books, [Next]_vars, NEW t \in Txs, Reopening(t), tx[t] = "COMPENSATED"
    PROVE  Reopening(t)' \/ tx'[t] = "PROCESSING" \/ t \in late'
<1>1. rc.stage = "reopen" /\ rc.r.tx = t /\ tx \in [Txs -> TxStatus]
  BY DEF Reopening, Books, Types
<1>2. CASE reopenCompensation
  BY <1>1, <1>2 DEF reopenCompensation, Reopenable
<1>3. CASE recover
  BY <1>1, <1>3 DEF recover
<1>4. CASE UNCHANGED rc
  BY <1>1, <1>4 DEF Reopening
<1>5. UNCHANGED rc \/ reopenCompensation \/ recover
  BY <1>1 DEF Next, vars, Register, PublishCreated, handleStep, localTransfer,
     handleCreateAccount, Consumer, TakeReceipt, ReadTx, UpdateStep, AdvanceReceipt,
     PublishReceipt, TimeoutLoop, expire, AdvanceExpired, PublishExpired
<1> QED
  BY <1>2, <1>3, <1>4, <1>5

\* A transaction that misses no late DONE stays in time.
LEMMA NextInTime ==
    ASSUME NumSteps <= 2, Books, Books', Numbered, Numbered', Undone, [Next]_vars,
           NEW t \in Txs, t \notin late', InTime(t)
    PROVE  InTime(t)'
<1>1. NumSteps \in Nat /\ tx \in [Txs -> TxStatus] /\ NumberedRows(step[t])
  BY PlanAssumption DEF Books, Types, Numbered
<1>2. \A s \in step'[t] : ~IsComp(s) =>
        \/ s \in step[t]
        \/ Registers(t) /\ s.status = "PENDING"
        \/ /\ Expires(t) /\ s.status = "FAILED"
           /\ \E r \in step[t] : r.no = s.no /\ r.status = "PENDING"
        \/ /\ Answers(t) /\ s.no = rc.r.no /\ s.status = rc.r.status /\ ~IsComp(rc.r)
           /\ RowOf(rc.r) \in step[t] /\ RowOf(rc.r).no = s.no
           /\ RowOf(rc.r).status \in {"PENDING", "FAILED"}
  BY OriginalsMove
<1>3. ASSUME Decided(t), Comps(t) # {}, ~Registers(t)
      PROVE  Decided(t)'
  <2>1. \A r \in step[t] : r.status = "PENDING" => IsComp(r)
    BY <1>3 DEF Decided
  <2>2. ASSUME NEW s \in step'[t], ~IsComp(s)
        PROVE  s \in step[t]
    <3>1. ~Expires(t)
      BY <1>3 DEF Expires
    <3>2. ASSUME Answers(t), s.no = rc.r.no, ~IsComp(rc.r), RowOf(rc.r) \in step[t],
                 RowOf(rc.r).no = s.no, RowOf(rc.r).status \in {"PENDING", "FAILED"}
          PROVE  FALSE
      <4>1. RowOf(rc.r).status = "FAILED"
        BY <2>1, <2>2, <3>2 DEF IsComp
      <4> QED
        BY <1>3, <3>2, <4>1 DEF Answers, MissedDone
    <3> QED
      BY <1>2, <1>3, <2>2, <3>1, <3>2
  <2>3. \A c \in step[t] : IsComp(c) => \E d \in step'[t] : IsComp(d) /\ d.of = c.of
    BY CompensationsStay
  <2>4. \A s \in step'[t] : ~IsComp(s) =>
           /\ s.status # "PENDING"
           /\ s.status = "DONE" => \E d \in step'[t] : IsComp(d) /\ d.of = s.no
    BY <1>3, <2>2, <2>3 DEF Decided
  <2> QED
    BY <2>4 DEF Decided, IsComp
<1>4. Comps(t)' # {} => Decided(t)'
  <2> SUFFICES ASSUME Comps(t)' # {}
               PROVE  Decided(t)'
    OBVIOUS
  <2>1. Comps(t) # {} \/ Compensates(t)
    BY CompensationsStay DEF Comps, IsComp
  <2>2. CASE Compensates(t)
    BY <2>2, CompensatesAll DEF InTime
  <2>3. CASE Comps(t) # {}
    <3>1. ~Registers(t)
      BY <2>3 DEF Registers, Comps, Books, Registered
    <3> QED
      BY <1>3, <2>3, <3>1 DEF InTime
  <2> QED
    BY <2>1, <2>2, <2>3
<1>5. tx'[t] = "COMPENSATED" /\ ~Reopening(t)' =>
        Decided(t)' /\ \A c \in step'[t] : IsComp(c) => c.status = "DONE"
  <2> SUFFICES ASSUME tx'[t] = "COMPENSATED", ~Reopening(t)'
               PROVE  Decided(t)' /\ \A c \in step'[t] : IsComp(c) => c.status = "DONE"
    OBVIOUS
  <2>1. CASE tx[t] = "COMPENSATED"
    <3>1. Decided(t) /\ \A c \in step[t] : IsComp(c) => c.status = "DONE"
      BY <2>1, ReopeningEnds DEF InTime
    <3>2. ~Registers(t) /\ ~Retries(t) /\ ~Compensates(t) /\ ~Expires(t)
      BY <2>1 DEF Registers, Retries, Compensates, Expires
    <3>3. ~Answers(t)
      <4> SUFFICES ASSUME Answers(t)
                   PROVE  FALSE
        OBVIOUS
      <4>1. rc.r \in Receipts
        BY DEF Answers, Receipts
      <4>2. RowOf(rc.r) \in step[t] /\ RowOf(rc.r).no = rc.r.no /\ RowOf(rc.r).status \in StepStatus
        BY <4>1, RowOfReceipt DEF Answers
      <4>3. ~IsComp(RowOf(rc.r)) /\ ~IsComp(rc.r)
        BY <3>1, <4>2 DEF Answers, IsComp
      <4>4. RowOf(rc.r).status = "FAILED"
        BY <3>1, <4>2, <4>3 DEF Answers, Decided, StepStatus
      <4>5. rc.r.status = "DONE" /\ rc.r.tx = t /\ rc.reopen
        BY <2>1, <4>3, <4>4 DEF Answers, MissedDone
      <4>6. rc' = [rc EXCEPT !.stage = "reopen"] /\ rc \in ConsumerState
        BY <4>5 DEF Answers, UpdateStep, Books, Types
      <4> QED
        BY <4>5, <4>6 DEF Reopening, ConsumerState
    <3>4. step'[t] = step[t]
      BY <3>2, <3>3, LogMoves DEF LogMove
    <3> QED
      BY <3>1, <3>4 DEF Decided, IsComp
  <2>2. CASE Outcome(t) = "compensated" /\ step' = step
    <3>1. Compensating(t) /\ ~(Missing(t) > 0) /\ FailedComps(t) = {}
      BY <2>2 DEF Outcome
    <3>2. IF Comps(t) # {} THEN \A r \in Comps(t) : r.status = "DONE"
          ELSE \A r \in Originals(t) : r.status # "PENDING"
      BY <2>2, <3>1 DEF Outcome
    <3>3. CASE Comps(t) # {}
      BY <1>4, <2>2, <3>2, <3>3 DEF Comps, IsComp
    <3>4. CASE Comps(t) = {}
      <4>1. Cardinality(Comps(t)) = 0
        BY <3>4, FS_EmptySet
      <4>2. Cardinality(DoneOriginals(t)) = 0 /\ IsFiniteSet(DoneOriginals(t))
        BY <3>1, <4>1, CountedRows
      <4>3. DoneOriginals(t) = {}
        BY <4>2, FS_EmptySet
      <4>4. \A r \in step[t] : ~IsComp(r) => r.status # "PENDING" /\ r.status # "DONE"
        BY <3>2, <3>4, <4>3 DEF DoneOriginals, Originals
      <4>5. Decided(t)'
        BY <2>2, <4>4 DEF Decided, IsComp
      <4> QED
        BY <2>2, <3>4, <4>5 DEF Comps
    <3> QED
      BY <3>3, <3>4
  <2> QED
    BY <2>1, <2>2, CompensatedBy
<1>6. ASSUME NEW s \in step'[t], ~IsComp(s), Applied(t, s.no)', s.status # "DONE"
      PROVE  OnItsWay(t, s.no)'
  <2>1. s.no \in OriginalNos
    BY <1>6 DEF Books, Self, Types, LogRow
  <2>2. CASE ~Applied(t, s.no)
    BY <1>6, <2>1, <2>2, NewlyApplied
  <2>3. CASE Applied(t, s.no)
    <3>1. ~Registers(t)
      BY <2>1, <2>3 DEF Registers, Undone
    <3>2. PICK q \in step[t] : q.no = s.no /\ ~IsComp(q) /\ q.status # "DONE"
      BY <1>2, <1>6, <3>1 DEF IsComp
    <3>3. OnItsWay(t, s.no)
      BY <2>3, <3>2 DEF InTime
    <3>4. ASSUME UpdateStep, rc.r.tx = t, rc.r.no = s.no, rc.r.status = "DONE"
          PROVE  FALSE
      <4>1. rc.stage = "update" /\ rc.r \in Receipts
        BY <3>4 DEF UpdateStep, Receipts
      <4>2. q.status = rc.seen \/ (rc.seen = "PENDING" /\ q.status = "FAILED")
        BY <3>2, <3>4, <4>1 DEF InTime, AtHand
      <4>3. RowOf(rc.r) \in step[t] /\ RowOf(rc.r).no = s.no /\ RowOf(rc.r).status \in StepStatus
        BY <3>4, <4>1, RowOfReceipt
      <4>4. RowOf(rc.r) = q
        BY <1>1, <3>2, <4>3 DEF NumberedRows
      <4>5. ~IsComp(rc.r)
        BY <1>6, <3>4 DEF IsComp
      <4>6. q.status = Expected
        <5>1. ~MissedDone
          BY <3>4 DEF UpdateStep
        <5> QED
          BY <3>2, <3>4, <4>2, <4>3, <4>4, <4>5, <5>1 DEF MissedDone, Expected, StepStatus
      <4>7. step' = [step EXCEPT ![t] = SetRow(t, s.no, "DONE")]
        BY <3>4, <4>4, <4>6 DEF UpdateStep
      <4>8. step'[t] = SetRow(t, s.no, "DONE")
        BY <4>7 DEF Books, Types
      <4> QED
        BY <1>6, <4>8 DEF SetRow, Books, Types, LogRow
    <3> QED
      BY <2>1, <2>3, <3>3, <3>4, OnItsWayMoves
  <2> QED
    BY <2>2, <2>3
<1>7. ASSUME NEW s \in step'[t], ~IsComp(s), AtHand(t, s.no)'
      PROVE  s.status = rc'.seen \/ (rc'.seen = "PENDING" /\ s.status = "FAILED")
  <2>1. ASSUME NEW r \in receipts, TakeReceipt(r), r.tx = t, r.no = s.no
        PROVE  s.status = rc'.seen
    <3>1. step' = step /\ rc'.seen = RowOf(r).status
      BY <2>1 DEF TakeReceipt, NoReceipt
    <3>2. r \in Receipts
      BY DEF Receipts
    <3>3. RowOf(r) \in step[t] /\ RowOf(r).no = s.no
      BY <2>1, <3>2, RowOfReceipt
    <3> QED
      BY <1>1, <1>7, <3>1, <3>3 DEF NumberedRows
  <2>2. ASSUME AtHand(t, s.no), rc'.seen = rc.seen, rc'.r = rc.r, ~UpdateStep
        PROVE  s.status = rc'.seen \/ (rc'.seen = "PENDING" /\ s.status = "FAILED")
    <3>1. rc.r \in Receipts /\ rc.r.tx = t
      BY <2>2 DEF AtHand, Receipts
    <3>2. step[t] # {}
      BY <3>1, RowOfReceipt
    <3>3. ~Registers(t)
      BY <3>2 DEF Registers, Books, Registered
    <3>4. ~Answers(t)
      BY <2>2 DEF Answers
    <3>5. CASE s \in step[t]
      BY <1>7, <2>2, <3>5 DEF InTime
    <3>6. ASSUME s.status = "FAILED", NEW r \in step[t], r.no = s.no, r.status = "PENDING"
          PROVE  rc.seen = "PENDING"
      BY <1>7, <2>2, <3>6 DEF InTime, IsComp
    <3> QED
      BY <1>2, <1>7, <2>2, <3>3, <3>4, <3>5, <3>6
  <2> QED
    BY <1>7, <2>1, <2>2, AtHandMoves
<1> QED
  BY <1>4, <1>5, <1>6, <1>7 DEF InTime, IsComp

\* The log numbers its rows, the types hold, and compensations are real, with
\* any number of steps.
LEMMA LogInvariant == Spec => [](Books /\ Numbered /\ Rest /\ Undone)
<1>1. Init => Books /\ Numbered /\ Rest /\ Undone
  <2> SUFFICES ASSUME Init
               PROVE  Books /\ Numbered /\ Rest /\ Undone
    OBVIOUS
  <2>1. Books
    BY InitBooks
  <2>2. Numbered
    BY DEF Init, Numbered, NumberedRows
  <2>3. Rest
    BY PlanAssumption DEF Init, Rest, NoAttempts, NoReceipt
  <2>4. Receipts = {}
    BY DEF Init, Receipts, NoReceipt
  <2>5. Undone
    BY <2>4 DEF Init, Undone, Applied
  <2> QED
    BY <2>1, <2>2, <2>3, <2>5
<1>2. (Books /\ Numbered /\ Rest /\ Undone) /\ [Next]_vars => (Books /\ Numbered /\ Rest /\ Undone)'
  BY NextBooks, NextNumbered, NextRest, NextUndone
<1> QED
  BY <1>1, <1>2, PTL DEF Spec

\* The types of RmbTransfer, with them that the units never overdraw an
\* account, that advance numbers a compensation twice never and tries it again
\* no more than MaxAttempts times.
THEOREM TransferTypes == Spec => []TypeOK
<1>1. Books /\ Numbered /\ Rest /\ Undone => TypeOK
  BY TypesFollow
<1> QED
  BY <1>1, LogInvariant, PTL

\* What the transactions of two steps that nothing is under way for come to.
LEMMA SettledReversed ==
    ASSUME Books, Numbered, Undone, NEW t \in Txs, InTime(t), tx[t] = "COMPENSATED", Quiet(t),
           NEW i \in OriginalNos, Applied(t, i)
    PROVE  Reversed(t, i)
<1>1. NumSteps \in Nat /\ i \in 1 .. NumSteps
  BY PlanAssumption DEF OriginalNos
<1>2. PICK r \in step[t] : r.no = i
  BY DEF Books, Registered
<1>3. ~IsComp(r) /\ ~Reopening(t)
  BY <1>1, <1>2 DEF IsComp, Quiet, Reopening
<1>4. ~OnItsWay(t, i)
  <2>1. [tx |-> t, no |-> i, of |-> i] \notin msgs
    BY DEF Quiet
  <2>2. [tx |-> t, no |-> i, status |-> "DONE"] \notin receipts
    BY DEF Quiet
  <2>3. ~AtHand(t, i)
    BY DEF Quiet, AtHand
  <2> QED
    BY <2>1, <2>2, <2>3 DEF OnItsWay
<1>5. r.status = "DONE"
  BY <1>2, <1>3, <1>4 DEF InTime
<1>6. PICK c \in step[t] : IsComp(c) /\ c.of = i /\ c.status = "DONE"
  BY <1>2, <1>3, <1>5 DEF InTime, Decided
<1> QED
  BY <1>6 DEF Undone

\* handleReceipt, expire and advance leave a compensated transfer without
\* effect, steps called failed by the timeout and answered DONE afterwards
\* included: for any number of transfers of at most two steps, which is what
\* submitRMB makes, and any crashes, losses, refusals, timeouts and retries.
\* Excepted are the transfers in late, which missed a late DONE in one of the
\* four ways that MissedDone and recover name.  With a third step advance may
\* compensate the first while the last is open, and end before its answer.
THEOREM CompensatedTheorem == NumSteps <= 2 => (Spec => []CompensatedInTime)
<1> SUFFICES ASSUME NumSteps <= 2
             PROVE  Spec => []CompensatedInTime
  OBVIOUS
<1> DEFINE Log == Books /\ Numbered /\ Rest /\ Undone
<1>1. Init => Settled
  BY DEF Init, Settled, InTime, Comps
<1>2. Log /\ Log' /\ Settled /\ [Next]_vars => Settled'
  <2> SUFFICES ASSUME Log, Log', Settled, [Next]_vars, NEW t \in Txs, t \notin late'
               PROVE  InTime(t)'
    BY DEF Settled
  <2>1. late \subseteq late'
    BY DEF Next, vars, Register, PublishCreated, handleStep, localTransfer, handleCreateAccount,
       Consumer, TakeReceipt, ReadTx, UpdateStep, reopenCompensation, AdvanceReceipt,
       PublishReceipt, TimeoutLoop, expire, AdvanceExpired, PublishExpired, recover
  <2>2. InTime(t)
    BY <2>1 DEF Settled
  <2> QED
    BY <2>2, NextInTime
<1>3. Log /\ Settled => CompensatedInTime
  <2> SUFFICES ASSUME Log, Settled
               PROVE  CompensatedInTime
    OBVIOUS
  <2>1. TypeOK
    BY TypesFollow
  <2>2. \A t \in Txs \ late : tx[t] = "COMPENSATED" /\ Quiet(t) =>
          \A i \in OriginalNos : Applied(t, i) => Reversed(t, i)
    BY SettledReversed DEF Settled
  <2> QED
    BY <2>1, <2>2 DEF CompensatedInTime
<1> HIDE DEF Log
<1>4. Spec => []Log
  BY LogInvariant DEF Log
<1> QED
  BY <1>1, <1>2, <1>3, <1>4, PTL DEF Spec
=============================================================================
