------------------------- MODULE CoreBankingProofs -------------------------
(***************************************************************************)
(* Theorems about CoreBanking for any number of accounts, payments,        *)
(* replicas, vouchers, commands and faults.                                *)
(***************************************************************************)
EXTENDS CoreBanking, SumLemmas

\* Voucher v moved the money of payment w.
PaidBy(v, w) == v \in Posted /\ journal[v].hold = w /\ journal[v].ref = 0

\* The saga was told that the transfer, or the reversal, of w is booked.
Told(kind, w) == \E e \in outbox : e.kind = kind /\ e.wf = w /\ e.result = "ok"

\* Hold, held_transfer row, voucher, voucher_reversal row and result events of
\* a payment agree.
PaymentOK(w) ==
    /\ holds[w] = "captured" <=> heldTransfer[w] # 0
    /\ heldTransfer[w] # 0 => PaidBy(heldTransfer[w], w)
    /\ \A v \in Vouchers : PaidBy(v, w) => v = heldTransfer[w]
    /\ Told("post", w) <=> heldTransfer[w] # 0
    /\ Told("reverse", w) <=> heldTransfer[w] # 0 /\ reversal[heldTransfer[w]] # 0

\* The events of transfers and reversals that succeed are appended by the
\* service; the consumer's own transaction reports only their failures.
ConsumerOK(c) ==
    /\ cons[c].stage # "idle" => cons[c].msg \in sent
    /\ cons[c].stage = "commit" /\ cons[c].msg.kind \in {"post", "reverse"} =>
          cons[c].result \in {None, "invariant_violation"}

\* Voucher numbers are used without gaps, and only posted vouchers are reversed.
JournalOK ==
    /\ \E n \in 0 .. MaxVouchers : Posted = 1 .. n
    /\ \A v \in Vouchers : reversal[v] # 0 => v \in Posted

\* A reversal is only asked for when the transfer is booked.
SentOK ==
    /\ IsFiniteSet(sent)
    /\ \A m \in sent : m.kind = "reverse" => heldTransfer[m.wf] # 0

ConsumerState == [stage : {"idle", "handle", "commit"}, msg : Message \cup {None},
                  result : ErrorClasses \cup {"ok", None}]

CoreInv ==
    /\ TypeOK
    /\ JournalOK
    /\ SentOK
    /\ \A w \in Workflows : PaymentOK(w)
    /\ \A c \in Consumers : ConsumerOK(c)

---------------------------------------------------------------------------
(* The ledger *)

\* Without gaps, the next number is the first free one.
LEMMA NextVoucher ==
    ASSUME NEW n \in 0 .. MaxVouchers, Posted = 1 .. n
    PROVE  NewVoucherNo = n + 1
<1>1. n \in Nat /\ 1 \in Int
  BY CoreAssumption
<1>2. Cardinality(1 .. n) = IF 1 > n THEN 0 ELSE n - 1 + 1
  BY <1>1, FS_Interval
<1>3. Cardinality(1 .. n) = n
  BY <1>1, <1>2
<1> QED BY <1>3 DEF NewVoucherNo

\* What a posting does: one more voucher, of which the rest of the journal
\* knows nothing.
LEMMA PostFacts ==
    ASSUME TypeOK, NEW n \in 0 .. MaxVouchers, Posted = 1 .. n,
           NEW d \in AllAccounts, NEW cr \in AllAccounts, NEW amt \in Int,
           NEW ref \in 0 .. MaxVouchers, NEW hold \in Workflows \cup {None},
           Post(d, cr, amt, ref, hold)
    PROVE  /\ NewVoucherNo = n + 1 /\ n + 1 \in Vouchers /\ n + 1 # 0 /\ n + 1 \notin Posted
           /\ n + 1 \in 0 .. MaxVouchers
           /\ journal' \in [Vouchers -> VoucherRow]
           /\ journal'[n + 1].status = "normal" /\ journal'[n + 1].hold = hold /\ journal'[n + 1].ref = ref
           /\ \A v \in Vouchers : v # n + 1 => journal'[v] = journal[v]
           /\ Posted' = 1 .. (n + 1)
           /\ bal' \in [AllAccounts -> Int] /\ gl' \in [dc : Int, cc : Int]
<1> DEFINE new == [status |-> "normal", debit |-> d, credit |-> cr, amt |-> amt, ref |-> ref, hold |-> hold]
<1>1. NewVoucherNo = n + 1
  BY NextVoucher
<1>2. n + 1 \in Vouchers /\ n + 1 # 0 /\ n + 1 \notin Posted /\ n + 1 \in 0 .. MaxVouchers
  <2>1. n + 1 <= MaxVouchers /\ n \in Nat /\ MaxVouchers \in Nat
    BY <1>1, CoreAssumption DEF Post, CanPost
  <2> QED BY <2>1 DEF Vouchers
<1>3. new \in VoucherRow /\ new.status = "normal" /\ new.hold = hold /\ new.ref = ref
  BY DEF VoucherRow
<1>4. journal' = [journal EXCEPT ![n + 1] = new]
  BY <1>1 DEF Post
<1> HIDE DEF new
<1>5. /\ journal' \in [Vouchers -> VoucherRow] /\ journal'[n + 1] = new
      /\ \A v \in Vouchers : v # n + 1 => journal'[v] = journal[v]
  BY <1>2, <1>3, <1>4 DEF TypeOK
<1>6. Posted' = 1 .. (n + 1)
  <2>1. \A v \in Vouchers : v \in Posted' <=> v \in Posted \/ v = n + 1
    BY <1>2, <1>3, <1>5 DEF Posted
  <2>2. \A v : v \in 1 .. (n + 1) <=> v \in 1 .. n \/ v = n + 1
    BY <1>2, CoreAssumption
  <2>3. Posted' \subseteq Vouchers /\ Posted \subseteq Vouchers
    BY DEF Posted
  <2> QED BY <1>2, <2>1, <2>2, <2>3
<1>7. bal' \in [AllAccounts -> Int]
  <2>1. \A a \in AllAccounts : Delta(d, cr, amt, a) \in Int /\ bal[a] \in Int
    BY DEF Delta, TypeOK
  <2>2. bal' = [a \in AllAccounts |-> bal[a] + Delta(d, cr, amt, a)]
    BY DEF Post
  <2> QED BY <2>1, <2>2
<1>8. gl' \in [dc : Int, cc : Int]
  BY DEF Post, TypeOK
<1> QED BY <1>1, <1>2, <1>3, <1>5, <1>6, <1>7, <1>8

\* A posting that is not the transfer of w.
LEMMA NotPaid ==
    ASSUME TypeOK, NEW n \in 0 .. MaxVouchers, Posted = 1 .. n, Posted' = 1 .. (n + 1), n + 1 \notin Posted,
           \A v \in Vouchers : v # n + 1 => journal'[v] = journal[v],
           NEW w \in Workflows, journal'[n + 1].hold # w \/ journal'[n + 1].ref # 0
    PROVE  \A v \in Vouchers : PaidBy(v, w)' <=> PaidBy(v, w)
<1> TAKE v \in Vouchers
<1>1. CASE v = n + 1
  BY <1>1 DEF PaidBy
<1>2. CASE v # n + 1
  <2>1. v \in Posted' <=> v \in Posted
    BY <1>2, CoreAssumption DEF Vouchers
  <2> QED BY <1>2, <2>1 DEF PaidBy
<1> QED BY <1>1, <1>2

\* A payment whose hold, rows, vouchers and events stay as they are.
LEMMA PaymentFrame ==
    ASSUME NEW w \in Workflows, PaymentOK(w),
           holds'[w] = "captured" <=> holds[w] = "captured",
           heldTransfer'[w] = heldTransfer[w],
           heldTransfer[w] # 0 => (reversal'[heldTransfer[w]] # 0 <=> reversal[heldTransfer[w]] # 0),
           \A v \in Vouchers : PaidBy(v, w)' <=> PaidBy(v, w),
           Told("post", w)' <=> Told("post", w), Told("reverse", w)' <=> Told("reverse", w)
    PROVE  PaymentOK(w)'
<1>1. PaidBy(heldTransfer[w], w) => heldTransfer[w] \in Vouchers
  BY DEF PaidBy, Posted
<1>2. heldTransfer'[w] # 0 => PaidBy(heldTransfer[w], w)'
  <2>1. heldTransfer[w] # 0 => heldTransfer[w] \in Vouchers /\ PaidBy(heldTransfer[w], w)
    BY <1>1 DEF PaymentOK
  <2>2. PICK v : v = heldTransfer[w]
    OBVIOUS
  <2>3. v # 0 => PaidBy(v, w)'
    BY <2>1, <2>2
  <2> QED BY <2>2, <2>3 DEF PaidBy
<1>3. \A v \in Vouchers : PaidBy(v, w)' => v = heldTransfer'[w]
  BY DEF PaymentOK
<1> QED BY <1>2, <1>3 DEF PaymentOK

\* Steps that leave the ledger alone, and tell nothing new of transfers.
LEMMA LedgerStill ==
    ASSUME CoreInv, UNCHANGED ledger,
           \A w \in Workflows : (Told("post", w)' <=> Told("post", w)) /\ (Told("reverse", w)' <=> Told("reverse", w))
    PROVE  JournalOK' /\ \A w \in Workflows : PaymentOK(w)'
<1>1. Posted' = Posted
  BY DEF Posted, ledger
<1>2. JournalOK'
  BY <1>1 DEF CoreInv, JournalOK, ledger
<1>3. ASSUME NEW w \in Workflows PROVE PaymentOK(w)'
  <2>1. \A v \in Vouchers : PaidBy(v, w)' <=> PaidBy(v, w)
    BY <1>1 DEF PaidBy, ledger
  <2> QED BY <2>1, PaymentFrame DEF CoreInv, ledger
<1> QED BY <1>2, <1>3

---------------------------------------------------------------------------
(* Postings and reversals over REST *)

\* A posting without a hold concerns no payment.
LEMMA RestPost ==
    ASSUME CoreInv, NEW d \in AllAccounts, NEW cr \in AllAccounts, NEW amt \in Int,
           NEW ref \in 0 .. MaxVouchers, Post(d, cr, amt, ref, None),
           UNCHANGED <<holds, heldTransfer, reversal, sent, queue, inbox, outbox, cons, faults>>
    PROVE  CoreInv'
<1>0. TypeOK /\ JournalOK /\ SentOK
  BY DEF CoreInv
<1>1. PICK n \in 0 .. MaxVouchers : Posted = 1 .. n
  BY <1>0 DEF JournalOK
<1>n. None \in Workflows \cup {None}
  OBVIOUS
<1>2. /\ n + 1 \in Vouchers /\ n + 1 \notin Posted /\ n + 1 \in 0 .. MaxVouchers
      /\ journal' \in [Vouchers -> VoucherRow] /\ journal'[n + 1].hold = None
      /\ \A v \in Vouchers : v # n + 1 => journal'[v] = journal[v]
      /\ Posted' = 1 .. (n + 1)
      /\ bal' \in [AllAccounts -> Int] /\ gl' \in [dc : Int, cc : Int]
  BY <1>0, <1>1, <1>n, PostFacts
<1>3. ASSUME NEW w \in Workflows PROVE PaymentOK(w)'
  <2>1. \A v \in Vouchers : PaidBy(v, w)' <=> PaidBy(v, w)
    BY <1>0, <1>1, <1>2, NotPaid, CoreAssumption
  <2>2. (Told("post", w)' <=> Told("post", w)) /\ (Told("reverse", w)' <=> Told("reverse", w))
    BY DEF Told
  <2> QED BY <2>1, <2>2, PaymentFrame DEF CoreInv
<1>4. JournalOK'
  <2>1. \A v \in Posted : v \in Posted'
    BY <1>1, <1>2, CoreAssumption
  <2> QED BY <1>0, <1>2, <2>1 DEF JournalOK
<1>5. TypeOK'
  BY <1>0, <1>2 DEF TypeOK
<1>6. SentOK' /\ \A c \in Consumers : ConsumerOK(c)'
  BY DEF CoreInv, SentOK, ConsumerOK
<1> QED BY <1>3, <1>4, <1>5, <1>6 DEF CoreInv

\* A blue reversal changes the status of a row.
LEMMA BlueStep ==
    ASSUME CoreInv, NEW v \in Vouchers, ReverseBlue(v)
    PROVE  CoreInv'
<1>0. TypeOK /\ JournalOK
  BY DEF CoreInv
<1> DEFINE new == [journal[v] EXCEPT !.status = "reversed"]
<1>1. /\ journal[v].status = "normal" /\ journal' = [journal EXCEPT ![v] = new]
      /\ UNCHANGED <<holds, heldTransfer, reversal, sent, queue, inbox, outbox, cons, faults>>
  BY <1>0 DEF ReverseBlue, Reversible, TypeOK
<1>2. /\ new \in VoucherRow /\ new.status = "reversed" /\ new.hold = journal[v].hold /\ new.ref = journal[v].ref
      /\ journal[v].amt \in Int
  BY <1>0 DEF TypeOK, VoucherRow
<1> HIDE DEF new
<1>3. /\ journal' \in [Vouchers -> VoucherRow] /\ journal'[v] = new
      /\ \A u \in Vouchers : u # v => journal'[u] = journal[u]
  BY <1>0, <1>1, <1>2 DEF TypeOK
<1>4. Posted' = Posted
  <2>1. \A u \in Vouchers : journal'[u].status # "none" <=> journal[u].status # "none"
    BY <1>1, <1>2, <1>3
  <2> QED BY <2>1 DEF Posted
<1>5. ASSUME NEW w \in Workflows PROVE PaymentOK(w)'
  <2>1. \A u \in Vouchers : PaidBy(u, w)' <=> PaidBy(u, w)
    BY <1>2, <1>3, <1>4 DEF PaidBy
  <2>2. (Told("post", w)' <=> Told("post", w)) /\ (Told("reverse", w)' <=> Told("reverse", w))
    BY <1>1 DEF Told
  <2> QED BY <1>1, <2>1, <2>2, PaymentFrame DEF CoreInv
<1>6. JournalOK'
  BY <1>0, <1>1, <1>4 DEF JournalOK
<1>7. bal' \in [AllAccounts -> Int] /\ gl' \in [dc : Int, cc : Int]
  <2>1. \A a \in AllAccounts : RollbackDelta(v, a) \in Int /\ bal[a] \in Int
    BY <1>0, <1>2 DEF RollbackDelta, Delta, TypeOK
  <2>2. /\ bal' = [a \in AllAccounts |-> bal[a] + RollbackDelta(v, a)]
        /\ gl' = [dc |-> gl.dc - journal[v].amt, cc |-> gl.cc - journal[v].amt]
    BY DEF ReverseBlue
  <2>3. gl.dc \in Int /\ gl.cc \in Int
    BY <1>0 DEF TypeOK
  <2> QED BY <1>2, <2>1, <2>2, <2>3
<1>8. TypeOK'
  BY <1>0, <1>1, <1>3, <1>7 DEF TypeOK
<1>9. SentOK' /\ \A c \in Consumers : ConsumerOK(c)'
  BY <1>1 DEF CoreInv, SentOK, ConsumerOK
<1> QED BY <1>5, <1>6, <1>8, <1>9 DEF CoreInv

\* Every REST operation.
LEMMA RestStep ==
    ASSUME CoreInv, Rest PROVE CoreInv'
<1>0. TypeOK /\ Cash \in AllAccounts /\ Accounts \subseteq AllAccounts /\ 0 \in 0 .. MaxVouchers
      /\ \A amt \in ApiAmounts : amt \in Int
  BY CoreAssumption DEF CoreInv, AllAccounts
<1>1. ASSUME NEW a \in Accounts, NEW amt \in ApiAmounts, Deposit(a, amt) \/ Withdraw(a, amt) PROVE CoreInv'
  BY <1>0, <1>1, RestPost DEF Deposit, Withdraw
<1>2. ASSUME NEW a \in Accounts, NEW b \in Accounts, NEW amt \in ApiAmounts, Transfer(a, b, amt) PROVE CoreInv'
  BY <1>0, <1>2, RestPost DEF Transfer
<1>3. ASSUME NEW v \in Vouchers, ReverseRed(v) PROVE CoreInv'
  <2>1. journal[v].credit \in AllAccounts /\ journal[v].debit \in AllAccounts /\ journal[v].amt \in Int
        /\ v \in 0 .. MaxVouchers
    BY <1>0, CoreAssumption DEF TypeOK, VoucherRow, Vouchers
  <2> QED BY <1>3, <2>1, RestPost DEF ReverseRed
<1> QED BY <1>1, <1>2, <1>3, BlueStep DEF Rest

---------------------------------------------------------------------------
(* Messages *)

\* A command is sent.
LEMMA SendStep ==
    ASSUME CoreInv, NEW kind \in Kinds, NEW w \in Workflows, SendCommand(kind, w)
    PROVE  CoreInv'
<1> DEFINE copies == {m \in sent : m.kind = kind /\ m.wf = w}
           m == [kind |-> kind, wf |-> w, n |-> Cardinality(copies) + 1]
<1>0. TypeOK /\ SentOK /\ PaymentOK(w)
  BY DEF CoreInv
<1>1. /\ sent' = sent \cup {m} /\ queue' = queue \cup {m}
      /\ UNCHANGED <<ledger, inbox, outbox, cons, faults>>
  BY DEF SendCommand
<1>2. m \in Message /\ m.kind = kind /\ m.wf = w
  <2>1. IsFiniteSet(copies)
    BY <1>0, FS_Subset DEF SentOK
  <2>2. Cardinality(copies) \in Nat
    BY <2>1, FS_CardinalityType
  <2> HIDE DEF copies
  <2>3. Cardinality(copies) + 1 \in Nat
    BY <2>2
  <2>4. kind \in {"place", "release", "post", "reverse", "unknown"}
    BY CoreAssumption
  <2> QED BY <2>3, <2>4 DEF Message
<1>3. kind = "reverse" => heldTransfer[w] # 0
  BY <1>0 DEF SendCommand, PaymentOK, Told
<1> HIDE DEF m
<1>4. SentOK'
  <2>1. IsFiniteSet(sent')
    BY <1>0, <1>1, FS_AddElement DEF SentOK
  <2> QED BY <1>0, <1>1, <1>2, <1>3, <2>1 DEF SentOK, ledger
<1>5. TypeOK'
  BY <1>0, <1>1, <1>2 DEF TypeOK, ledger
<1>6. JournalOK' /\ \A u \in Workflows : PaymentOK(u)'
  BY <1>1, LedgerStill DEF Told
<1>7. \A c \in Consumers : ConsumerOK(c)'
  BY <1>1 DEF CoreInv, ConsumerOK
<1> QED BY <1>4, <1>5, <1>6, <1>7 DEF CoreInv

\* A replica got, gave back or dropped a message; only its own state moved.
LEMMA DeliveryStep ==
    ASSUME CoreInv,
           \/ \E m \in sent : Redeliver(m)
           \/ \E c \in Consumers : (\E m \in queue : Deliver(c, m)) \/ FailDelivery(c)
    PROVE  CoreInv'
<1>0. TypeOK /\ SentOK
  BY DEF CoreInv
<1>1. UNCHANGED <<ledger, sent, inbox, outbox>>
  BY DEF Redeliver, Deliver, FailDelivery
<1>2. JournalOK' /\ \A u \in Workflows : PaymentOK(u)'
  BY <1>1, LedgerStill DEF Told
<1>3. SentOK'
  BY <1>0, <1>1 DEF SentOK, ledger
<1>i. Idle.stage = "idle" /\ Idle \in ConsumerState
  BY DEF Idle, ConsumerState
<1> DEFINE Kept == /\ queue' \subseteq sent /\ faults' \in Nat
                   /\ cons' \in [Consumers -> ConsumerState]
                   /\ \A c \in Consumers : ConsumerOK(c)'
<1>4. Kept
  <2>1. CASE \E m \in sent : Redeliver(m)
    BY <2>1, <1>0, <1>1 DEF Redeliver, TypeOK, CoreInv, ConsumerOK, ConsumerState
  <2>2. ASSUME NEW c \in Consumers, NEW m \in queue, Deliver(c, m) PROVE Kept
    <3> DEFINE new == [stage |-> "handle", msg |-> m, result |-> None]
    <3>1. queue' = queue \ {m} /\ faults' = faults /\ (cons' = cons \/ cons' = [cons EXCEPT ![c] = new])
      BY <2>2 DEF Deliver
    <3>2. /\ new \in ConsumerState
          /\ new.stage = "handle" /\ new.msg = m /\ m \in sent
      BY <1>0 DEF TypeOK, ConsumerState
    <3> HIDE DEF new
    <3>3. CASE cons' = cons
      BY <1>0, <1>1, <3>1, <3>3 DEF TypeOK, CoreInv, ConsumerOK, ConsumerState
    <3>4. CASE cons' = [cons EXCEPT ![c] = new]
      <4>1. \A d \in Consumers : ConsumerOK(d)'
        <5> TAKE d \in Consumers
        <5>1. CASE d = c
          <6>1. cons'[d] = new
            BY <3>4, <5>1, <1>0 DEF TypeOK
          <6> QED BY <6>1, <3>2, <1>1 DEF ConsumerOK
        <5>2. CASE d # c
          <6>1. cons'[d] = cons[d]
            BY <3>4, <5>2, <1>0 DEF TypeOK
          <6> QED BY <6>1, <1>1 DEF ConsumerOK, CoreInv
        <5> QED BY <5>1, <5>2
      <4>2. cons \in [Consumers -> ConsumerState]
        BY <1>0 DEF TypeOK, ConsumerState
      <4> QED BY <1>0, <3>1, <3>2, <3>4, <4>1, <4>2 DEF TypeOK
    <3> QED BY <3>1, <3>3, <3>4
  <2>3. ASSUME NEW c \in Consumers, FailDelivery(c) PROVE Kept
    <3>1. /\ queue' = queue \cup {cons[c].msg} /\ faults' = faults + 1 /\ cons' = [cons EXCEPT ![c] = Idle]
          /\ cons[c].msg \in sent
      BY <2>3 DEF FailDelivery, CoreInv, ConsumerOK
    <3>2. \A d \in Consumers : ConsumerOK(d)'
      <4> TAKE d \in Consumers
      <4>1. CASE d = c
        <5>1. cons'[d] = Idle
          BY <3>1, <4>1, <1>0 DEF TypeOK
        <5> QED BY <5>1, <1>i DEF ConsumerOK
      <4>2. CASE d # c
        <5>1. cons'[d] = cons[d]
          BY <3>1, <4>2, <1>0 DEF TypeOK
        <5> QED BY <5>1, <1>1 DEF ConsumerOK, CoreInv
      <4> QED BY <4>1, <4>2
    <3>3. cons \in [Consumers -> ConsumerState]
      BY <1>0 DEF TypeOK, ConsumerState
    <3> QED BY <1>0, <1>i, <3>1, <3>2, <3>3 DEF TypeOK
  <2> QED BY <2>1, <2>2, <2>3
<1>5. TypeOK'
  BY <1>0, <1>1, <1>4 DEF TypeOK, ledger, ConsumerState
<1> QED BY <1>2, <1>3, <1>4, <1>5 DEF CoreInv

---------------------------------------------------------------------------
(* The handlers *)

\* A handler that returned: its replica is about to commit.
LEMMA ReturnedFacts ==
    ASSUME CoreInv, NEW c \in Consumers, NEW kind, Handling(c, kind),
           NEW result \in ErrorClasses \cup {"ok", None}, Returned(c, result), sent' = sent,
           kind \in {"post", "reverse"} => result \in {None, "invariant_violation"}
    PROVE  /\ cons' \in [Consumers -> ConsumerState]
           /\ \A d \in Consumers : ConsumerOK(d)'
           /\ cons[c].msg \in sent /\ cons[c].msg \in Message
           /\ cons[c].msg.wf \in Workflows /\ cons[c].msg.kind = kind
<1> DEFINE new == [cons[c] EXCEPT !.stage = "commit", !.result = result]
<1>0. TypeOK /\ ConsumerOK(c) /\ cons \in [Consumers -> ConsumerState]
  BY DEF CoreInv, TypeOK, ConsumerState
<1>1. cons[c].msg \in sent /\ cons[c].msg \in Message /\ cons[c].msg.wf \in Workflows /\ cons[c].msg.kind = kind
  BY <1>0 DEF Handling, ConsumerOK, TypeOK, Message
<1>2. new \in ConsumerState /\ new.stage = "commit" /\ new.msg = cons[c].msg /\ new.result = result
  BY <1>0 DEF ConsumerState
<1>3. cons' = [cons EXCEPT ![c] = new]
  BY <1>0 DEF Returned, ConsumerState
<1> HIDE DEF new
<1>4. /\ cons' \in [Consumers -> ConsumerState] /\ cons'[c] = new
      /\ \A d \in Consumers : d # c => cons'[d] = cons[d]
  BY <1>0, <1>2, <1>3
<1>5. ConsumerOK(c)'
  BY <1>1, <1>2, <1>4 DEF ConsumerOK
<1>6. \A d \in Consumers : d # c => ConsumerOK(d)'
  BY <1>4 DEF CoreInv, ConsumerOK
<1> QED BY <1>1, <1>4, <1>5, <1>6

\* A handler that changes no table.
LEMMA QuietHandler ==
    ASSUME CoreInv, NEW c \in Consumers,
           PostReplayed(c) \/ PostRefused(c) \/ ReverseRefused(c) \/ RejectUnknown(c)
    PROVE  CoreInv'
<1>0. TypeOK /\ SentOK
  BY DEF CoreInv
<1>1. UNCHANGED <<ledger, sent, queue, inbox, outbox, faults>>
  BY DEF PostReplayed, PostRefused, ReverseRefused, RejectUnknown
<1>2. \E kind \in {"post", "reverse", "unknown"}, result \in ErrorClasses \cup {"ok", None} :
         /\ Handling(c, kind) /\ Returned(c, result)
         /\ kind \in {"post", "reverse"} => result \in {None, "invariant_violation"}
  <2>1. {"invariant_violation", "invalid_message"} \subseteq ErrorClasses
    BY DEF ErrorClasses
  <2> QED BY <2>1 DEF PostReplayed, PostRefused, ReverseRefused, RejectUnknown
<1>3. cons' \in [Consumers -> ConsumerState] /\ \A d \in Consumers : ConsumerOK(d)'
  BY <1>1, <1>2, ReturnedFacts
<1>4. JournalOK' /\ \A u \in Workflows : PaymentOK(u)'
  BY <1>1, LedgerStill DEF Told
<1>5. TypeOK' /\ SentOK'
  BY <1>0, <1>1, <1>3 DEF TypeOK, SentOK, ledger, ConsumerState
<1> QED BY <1>3, <1>4, <1>5 DEF CoreInv

\* PlaceHold and ReleaseHold never make or unmake a captured hold.
LEMMA HoldStep ==
    ASSUME CoreInv, NEW c \in Consumers, PlaceHold(c) \/ ReleaseHold(c)
    PROVE  CoreInv'
<1>0. TypeOK /\ SentOK /\ JournalOK
  BY DEF CoreInv
<1>1. UNCHANGED <<bal, gl, journal, heldTransfer, reversal, sent, queue, inbox, outbox, faults>>
  BY DEF PlaceHold, ReleaseHold
<1>2. \E kind \in {"place", "release"}, result \in ErrorClasses \cup {"ok", None} :
         Handling(c, kind) /\ Returned(c, result)
  <2>1. CASE PlaceHold(c)
    <3>1. PlaceResult(cons[c].msg.wf) \in ErrorClasses \cup {"ok", None}
      BY DEF PlaceResult, ErrorClasses
    <3> QED BY <2>1, <3>1 DEF PlaceHold
  <2>2. CASE ReleaseHold(c)
    BY <2>2 DEF ReleaseHold, ErrorClasses
  <2> QED BY <2>1, <2>2
<1>3. /\ cons' \in [Consumers -> ConsumerState] /\ \A d \in Consumers : ConsumerOK(d)'
      /\ cons[c].msg.wf \in Workflows
  BY <1>1, <1>2, ReturnedFacts
<1>4. PICK u \in Workflows : u = cons[c].msg.wf
  BY <1>3
<1>5. \/ holds' = holds
      \/ holds[u] = "none" /\ holds' = [holds EXCEPT ![u] = "active"]
      \/ holds[u] \in {"active", "released"} /\ holds' = [holds EXCEPT ![u] = "released"]
  <2>1. CASE PlaceHold(c)
    BY <2>1, <1>4 DEF PlaceHold
  <2>2. CASE ReleaseHold(c)
    BY <2>2, <1>4 DEF ReleaseHold, Releasable
  <2> QED BY <2>1, <2>2
<1>6. /\ holds' \in [Workflows -> HoldStatus]
      /\ \A w \in Workflows : holds'[w] = "captured" <=> holds[w] = "captured"
  <2>1. CASE holds' = holds
    BY <1>0, <2>1 DEF TypeOK
  <2>2. CASE holds[u] = "none" /\ holds' = [holds EXCEPT ![u] = "active"]
    BY <1>0, <2>2 DEF TypeOK, HoldStatus
  <2>3. CASE holds[u] \in {"active", "released"} /\ holds' = [holds EXCEPT ![u] = "released"]
    BY <1>0, <2>3 DEF TypeOK, HoldStatus
  <2> QED BY <1>5, <2>1, <2>2, <2>3
<1>7. Posted' = Posted
  BY <1>1 DEF Posted
<1>8. ASSUME NEW w \in Workflows PROVE PaymentOK(w)'
  <2>1. \A v \in Vouchers : PaidBy(v, w)' <=> PaidBy(v, w)
    BY <1>1, <1>7 DEF PaidBy
  <2>2. (Told("post", w)' <=> Told("post", w)) /\ (Told("reverse", w)' <=> Told("reverse", w))
    BY <1>1 DEF Told
  <2> QED BY <1>1, <1>6, <2>1, <2>2, PaymentFrame DEF CoreInv
<1>9. JournalOK' /\ SentOK'
  BY <1>0, <1>1, <1>7 DEF JournalOK, SentOK
<1>10. TypeOK'
  BY <1>0, <1>1, <1>3, <1>6 DEF TypeOK, ConsumerState
<1> QED BY <1>3, <1>8, <1>9, <1>10 DEF CoreInv

\* One event more.
LEMMA EventFacts ==
    ASSUME NEW m \in Message, NEW result \in ErrorClasses \cup {"ok"}
    PROVE  /\ EventFor(m, result) \in Event /\ EventFor(m, result).kind = m.kind
           /\ EventFor(m, result).wf = m.wf /\ EventFor(m, result).result = result
BY DEF Message, Event, EventFor

\* The transfer of a payment: voucher, capture, idempotency row and event.
LEMMA PostHeldStep ==
    ASSUME CoreInv, NEW c \in Consumers, PostHeldTransfer(c)
    PROVE  CoreInv'
<1>0. TypeOK /\ SentOK /\ JournalOK
  BY DEF CoreInv
<1>1. /\ Handling(c, "post") /\ Returned(c, None) /\ UNCHANGED <<reversal, sent, queue, inbox, faults>>
  BY DEF PostHeldTransfer
<1>2. /\ cons' \in [Consumers -> ConsumerState] /\ \A d \in Consumers : ConsumerOK(d)'
      /\ cons[c].msg \in Message /\ cons[c].msg.wf \in Workflows /\ cons[c].msg.kind = "post"
  BY <1>1, ReturnedFacts
<1>3. PICK m \in Message : m = cons[c].msg
  BY <1>2
<1>4. PICK w \in Workflows : w = m.wf
  BY <1>2, <1>3
<1>5. /\ heldTransfer[w] = 0 /\ holds[w] = "active"
      /\ heldTransfer' = [heldTransfer EXCEPT ![w] = NewVoucherNo]
      /\ Post(FromAccount[w], ToAccount[w], Amount[w], 0, w)
      /\ holds' = [holds EXCEPT ![w] = "captured"]
      /\ outbox' = outbox \cup {EventFor(m, "ok")}
  BY <1>3, <1>4 DEF PostHeldTransfer, Capturable
<1>6. PICK n \in 0 .. MaxVouchers : Posted = 1 .. n
  BY <1>0 DEF JournalOK
<1>7. /\ FromAccount[w] \in AllAccounts /\ ToAccount[w] \in AllAccounts /\ Amount[w] \in Int
      /\ 0 \in 0 .. MaxVouchers /\ w \in Workflows \cup {None}
  BY CoreAssumption DEF AllAccounts
<1>8. /\ NewVoucherNo = n + 1 /\ n + 1 \in Vouchers /\ n + 1 # 0 /\ n + 1 \notin Posted
      /\ n + 1 \in 0 .. MaxVouchers
      /\ journal' \in [Vouchers -> VoucherRow]
      /\ journal'[n + 1].status = "normal" /\ journal'[n + 1].hold = w /\ journal'[n + 1].ref = 0
      /\ \A v \in Vouchers : v # n + 1 => journal'[v] = journal[v]
      /\ Posted' = 1 .. (n + 1)
      /\ bal' \in [AllAccounts -> Int] /\ gl' \in [dc : Int, cc : Int]
  BY <1>0, <1>5, <1>6, <1>7, PostFacts
<1>9. /\ heldTransfer' \in [Workflows -> 0 .. MaxVouchers] /\ heldTransfer'[w] = n + 1
      /\ \A u \in Workflows : u # w => heldTransfer'[u] = heldTransfer[u]
      /\ holds' \in [Workflows -> HoldStatus] /\ holds'[w] = "captured"
      /\ \A u \in Workflows : u # w => holds'[u] = holds[u]
  BY <1>0, <1>5, <1>8 DEF TypeOK, HoldStatus
<1>10. /\ EventFor(m, "ok") \in Event /\ EventFor(m, "ok").kind = "post"
       /\ EventFor(m, "ok").wf = w /\ EventFor(m, "ok").result = "ok"
  BY <1>2, <1>3, <1>4, EventFacts
<1>11. /\ Told("post", w)' /\ (Told("reverse", w)' <=> Told("reverse", w))
       /\ \A u \in Workflows : u # w =>
             (Told("post", u)' <=> Told("post", u)) /\ (Told("reverse", u)' <=> Told("reverse", u))
  BY <1>5, <1>10 DEF Told
<1>12. PaymentOK(w)'
  <2>0. PaymentOK(w)
    BY DEF CoreInv
  <2>1. n + 1 \in Posted'
    BY <1>8, CoreAssumption
  <2>2. PaidBy(n + 1, w)'
    BY <2>1, <1>8 DEF PaidBy
  <2>3. ASSUME NEW v \in Vouchers, PaidBy(v, w)' PROVE v = n + 1
    <3>1. CASE v # n + 1
      <4>1. v \in Posted
        BY <1>6, <1>8, <2>3, <3>1, CoreAssumption DEF PaidBy, Vouchers
      <4>2. PaidBy(v, w)
        BY <1>8, <2>3, <3>1, <4>1 DEF PaidBy
      <4>3. v = 0
        BY <2>0, <4>2, <1>5 DEF PaymentOK
      <4> QED BY <4>3 DEF Vouchers
    <3> QED BY <3>1
  <2>4. reversal'[n + 1] = 0
    BY <1>0, <1>1, <1>8 DEF JournalOK
  <2>5. ~Told("reverse", w)
    BY <2>0, <1>5 DEF PaymentOK
  <2>6. PaidBy(heldTransfer[w], w)'
    BY <2>2, <1>9 DEF PaidBy
  <2>7. \A v \in Vouchers : PaidBy(v, w)' => v = heldTransfer'[w]
    BY <2>3, <1>9
  <2> QED BY <2>4, <2>5, <2>6, <2>7, <1>8, <1>9, <1>11 DEF PaymentOK
<1>13. ASSUME NEW u \in Workflows, u # w PROVE PaymentOK(u)'
  <2>1. \A v \in Vouchers : PaidBy(v, u)' <=> PaidBy(v, u)
    BY <1>0, <1>6, <1>8, <1>13, NotPaid
  <2> QED BY <1>1, <1>9, <1>11, <1>13, <2>1, PaymentFrame DEF CoreInv
<1>14. JournalOK'
  <2>1. \A v \in Posted : v \in Posted'
    BY <1>6, <1>8, CoreAssumption
  <2> QED BY <1>0, <1>1, <1>8, <2>1 DEF JournalOK
<1>15. SentOK'
  <2>1. ASSUME NEW k \in sent, k.kind = "reverse" PROVE heldTransfer'[k.wf] # 0
    <3>1. k.wf \in Workflows /\ heldTransfer[k.wf] # 0
      BY <1>0, <2>1 DEF SentOK, TypeOK, Message
    <3> QED BY <3>1, <1>8, <1>9
  <2> QED BY <1>0, <1>1, <2>1 DEF SentOK
<1>16. TypeOK'
  BY <1>0, <1>1, <1>2, <1>5, <1>8, <1>9, <1>10 DEF TypeOK, ConsumerState
<1> QED BY <1>2, <1>12, <1>13, <1>14, <1>15, <1>16 DEF CoreInv

\* The reversal of a transfer: flipped voucher, voucher_reversal row and event.
LEMMA ReverseTransferStep ==
    ASSUME CoreInv, NEW c \in Consumers, ReverseTransfer(c)
    PROVE  CoreInv'
<1>0. TypeOK /\ SentOK /\ JournalOK
  BY DEF CoreInv
<1>1. /\ Handling(c, "reverse") /\ Returned(c, None)
      /\ UNCHANGED <<holds, heldTransfer, sent, queue, inbox, faults>>
  BY DEF ReverseTransfer
<1>2. /\ cons' \in [Consumers -> ConsumerState] /\ \A d \in Consumers : ConsumerOK(d)'
      /\ cons[c].msg \in Message /\ cons[c].msg.wf \in Workflows /\ cons[c].msg.kind = "reverse"
      /\ cons[c].msg \in sent
  BY <1>1, ReturnedFacts
<1>3. PICK m \in Message : m = cons[c].msg
  BY <1>2
<1>4. PICK w \in Workflows : w = m.wf
  BY <1>2, <1>3
<1>p. PaymentOK(w) /\ heldTransfer[w] # 0
  BY <1>0, <1>2, <1>3, <1>4 DEF CoreInv, SentOK
<1>5. PICK v \in Vouchers : v = heldTransfer[w]
  BY <1>p DEF PaymentOK, PaidBy, Posted
<1>6. /\ reversal' = [reversal EXCEPT ![v] = NewVoucherNo]
      /\ Post(journal[v].credit, journal[v].debit, journal[v].amt, v, w)
      /\ outbox' = outbox \cup {EventFor(m, "ok")}
  BY <1>3, <1>4, <1>5 DEF ReverseTransfer
<1>7. PICK n \in 0 .. MaxVouchers : Posted = 1 .. n
  BY <1>0 DEF JournalOK
<1>8. /\ journal[v].credit \in AllAccounts /\ journal[v].debit \in AllAccounts /\ journal[v].amt \in Int
      /\ v \in 0 .. MaxVouchers /\ v # 0 /\ w \in Workflows \cup {None}
  BY <1>0, CoreAssumption DEF TypeOK, VoucherRow, Vouchers
<1>9. /\ NewVoucherNo = n + 1 /\ n + 1 \in Vouchers /\ n + 1 # 0 /\ n + 1 \notin Posted
      /\ n + 1 \in 0 .. MaxVouchers
      /\ journal' \in [Vouchers -> VoucherRow]
      /\ journal'[n + 1].hold = w /\ journal'[n + 1].ref = v
      /\ \A u \in Vouchers : u # n + 1 => journal'[u] = journal[u]
      /\ Posted' = 1 .. (n + 1)
      /\ bal' \in [AllAccounts -> Int] /\ gl' \in [dc : Int, cc : Int]
  BY <1>0, <1>6, <1>7, <1>8, PostFacts
<1>10. /\ reversal' \in [Vouchers -> 0 .. MaxVouchers] /\ reversal'[v] = n + 1
       /\ \A u \in Vouchers : u # v => reversal'[u] = reversal[u]
  BY <1>0, <1>6, <1>9 DEF TypeOK
<1>11. /\ EventFor(m, "ok") \in Event /\ EventFor(m, "ok").kind = "reverse"
       /\ EventFor(m, "ok").wf = w /\ EventFor(m, "ok").result = "ok"
  BY <1>2, <1>3, <1>4, EventFacts
<1>12. /\ Told("reverse", w)' /\ (Told("post", w)' <=> Told("post", w))
       /\ \A u \in Workflows : u # w =>
             (Told("post", u)' <=> Told("post", u)) /\ (Told("reverse", u)' <=> Told("reverse", u))
  BY <1>6, <1>11 DEF Told
<1>13. \A u \in Workflows : \A x \in Vouchers : PaidBy(x, u)' <=> PaidBy(x, u)
  BY <1>0, <1>7, <1>8, <1>9, NotPaid
<1>14. PaymentOK(w)'
  <2>1. PaidBy(v, w)' /\ heldTransfer'[w] = v
    BY <1>1, <1>p, <1>5, <1>13 DEF PaymentOK
  <2>2. PaidBy(heldTransfer[w], w)'
    BY <2>1 DEF PaidBy
  <2>3. \A x \in Vouchers : PaidBy(x, w)' => x = heldTransfer'[w]
    BY <1>1, <1>p, <1>13 DEF PaymentOK
  <2> QED BY <1>1, <1>p, <1>8, <1>9, <1>10, <1>12, <2>1, <2>2, <2>3 DEF PaymentOK
<1>15. ASSUME NEW u \in Workflows, u # w PROVE PaymentOK(u)'
  <2>1. heldTransfer[u] # 0 => heldTransfer[u] # v /\ heldTransfer[u] \in Vouchers
    BY <1>5, <1>p, <1>15 DEF CoreInv, PaymentOK, PaidBy, Posted
  <2>2. heldTransfer[u] # 0 => reversal'[heldTransfer[u]] = reversal[heldTransfer[u]]
    BY <2>1, <1>10
  <2> QED BY <1>1, <1>12, <1>13, <1>15, <2>2, PaymentFrame DEF CoreInv
<1>16. JournalOK'
  <2>1. \A x \in Posted : x \in Posted'
    BY <1>7, <1>9, CoreAssumption
  <2>2. v \in Posted
    BY <1>5, <1>p DEF PaymentOK, PaidBy
  <2> QED BY <1>0, <1>9, <1>10, <2>1, <2>2 DEF JournalOK
<1>17. SentOK' /\ TypeOK'
  BY <1>0, <1>1, <1>2, <1>6, <1>9, <1>10, <1>11 DEF SentOK, TypeOK, ConsumerState
<1> QED BY <1>2, <1>14, <1>15, <1>16, <1>17 DEF CoreInv

\* The consumer's own transaction tells nothing of transfers and reversals
\* that succeeded.
LEMMA CommitStep ==
    ASSUME CoreInv, NEW c \in Consumers, CommitDelivery(c)
    PROVE  CoreInv'
<1>0. TypeOK /\ SentOK /\ ConsumerOK(c) /\ cons \in [Consumers -> ConsumerState]
  BY DEF CoreInv, TypeOK, ConsumerState
<1>1. /\ cons[c].stage = "commit" /\ inbox' = inbox \cup {cons[c].msg}
      /\ outbox' = IF cons[c].result = None THEN outbox
                   ELSE outbox \cup {EventFor(cons[c].msg, cons[c].result)}
      /\ cons' = [cons EXCEPT ![c] = Idle] /\ UNCHANGED <<ledger, sent, queue, faults>>
  BY DEF CommitDelivery
<1>2. PICK m \in Message : m = cons[c].msg /\ m \in sent
  BY <1>0, <1>1 DEF ConsumerOK, TypeOK
<1>3. /\ outbox' \subseteq Event
      /\ \A w \in Workflows : (Told("post", w)' <=> Told("post", w)) /\ (Told("reverse", w)' <=> Told("reverse", w))
  <2>1. CASE cons[c].result = None
    BY <1>0, <1>1, <2>1 DEF TypeOK, Told
  <2>2. CASE cons[c].result # None
    <3>1. PICK r \in ErrorClasses \cup {"ok"} : r = cons[c].result
      BY <1>0, <2>2 DEF ConsumerState
    <3>2. outbox' = outbox \cup {EventFor(m, r)}
      BY <1>1, <1>2, <2>2, <3>1
    <3>3. m.kind \in {"post", "reverse"} => r = "invariant_violation"
      BY <1>0, <1>1, <1>2, <2>2, <3>1 DEF ConsumerOK
    <3>4. /\ EventFor(m, r) \in Event /\ EventFor(m, r).kind = m.kind /\ EventFor(m, r).result = r
      BY EventFacts
    <3> QED BY <1>0, <3>2, <3>3, <3>4 DEF TypeOK, Told
  <2> QED BY <2>1, <2>2
<1>4. JournalOK' /\ \A u \in Workflows : PaymentOK(u)'
  BY <1>1, <1>3, LedgerStill
<1>5. Idle.stage = "idle" /\ Idle \in ConsumerState
  BY DEF Idle, ConsumerState
<1>6. /\ cons' \in [Consumers -> ConsumerState] /\ cons'[c] = Idle
      /\ \A d \in Consumers : d # c => cons'[d] = cons[d]
  BY <1>0, <1>1, <1>5
<1>7. \A d \in Consumers : ConsumerOK(d)'
  <2> TAKE d \in Consumers
  <2>1. CASE d = c
    BY <2>1, <1>5, <1>6 DEF ConsumerOK
  <2>2. CASE d # c
    BY <2>2, <1>1, <1>6 DEF ConsumerOK, CoreInv
  <2> QED BY <2>1, <2>2
<1>8. TypeOK' /\ SentOK'
  BY <1>0, <1>1, <1>2, <1>3, <1>6 DEF TypeOK, SentOK, ledger, ConsumerState
<1> QED BY <1>4, <1>7, <1>8 DEF CoreInv

---------------------------------------------------------------------------

\* The invariant holds at the start.
LEMMA CoreInit == Init => CoreInv
<1> SUFFICES ASSUME Init PROVE CoreInv
  OBVIOUS
<1>1. NoVoucher \in VoucherRow /\ NoVoucher.status = "none"
  BY CoreAssumption DEF NoVoucher, VoucherRow, AllAccounts
<1>2. Posted = {} /\ \A v \in Vouchers : reversal[v] = 0
  BY <1>1 DEF Init, Posted
<1>3. JournalOK
  <2>1. 0 \in 0 .. MaxVouchers /\ 1 .. 0 = {}
    BY CoreAssumption
  <2> QED BY <1>2, <2>1 DEF JournalOK
<1>4. SentOK
  BY FS_EmptySet DEF Init, SentOK
<1>5. \A w \in Workflows : PaymentOK(w)
  BY <1>2 DEF Init, PaymentOK, PaidBy, Told
<1>6. \A c \in Consumers : ConsumerOK(c)
  BY DEF Init, ConsumerOK, Idle
<1>7. TypeOK
  <2>1. Idle \in ConsumerState
    BY DEF Idle, ConsumerState
  <2>2. bal \in [AllAccounts -> Int]
    BY CoreAssumption DEF Init, AllAccounts
  <2> QED BY <1>1, <2>1, <2>2, CoreAssumption DEF Init, TypeOK, HoldStatus, ConsumerState
<1> QED BY <1>3, <1>4, <1>5, <1>6, <1>7 DEF CoreInv

\* Every step keeps it.
LEMMA CoreNext == CoreInv /\ [Next]_vars => CoreInv'
<1> SUFFICES ASSUME CoreInv, [Next]_vars PROVE CoreInv'
  OBVIOUS
<1>1. ASSUME NEW c \in Consumers, Handle(c) PROVE CoreInv'
  BY <1>1, QuietHandler, HoldStep, PostHeldStep, ReverseTransferStep DEF Handle
<1>2. CASE UNCHANGED vars
  <2>1. UNCHANGED ledger /\ UNCHANGED <<sent, queue, inbox, outbox, cons, faults>>
    BY <1>2 DEF vars, ledger
  <2>2. JournalOK' /\ \A w \in Workflows : PaymentOK(w)'
    BY <2>1, LedgerStill DEF Told
  <2> QED BY <2>1, <2>2 DEF CoreInv, TypeOK, SentOK, ConsumerOK, ledger
<1>3. CASE Next
  BY <1>1, <1>3, RestStep, SendStep, DeliveryStep, CommitStep DEF Next, Consume
<1> QED BY <1>2, <1>3

\* A hold pays for one transfer or for none, and the saga is told of a
\* transfer or a reversal if and only if it is booked (PostHeldTransfer,
\* ReverseTransfer, ProcessDelivery): for every number of payments, replicas,
\* repeated commands, REST postings and reversals, and crashes between the
\* transactions of service and consumer.
THEOREM HoldsPayOnce == Spec => []CapturedOnce
<1>1. CoreInv => CapturedOnce
  <2> SUFFICES ASSUME CoreInv, NEW w \in Workflows
               PROVE  /\ {v \in Posted : journal[v].hold = w /\ journal[v].ref = 0} =
                            IF holds[w] = "captured" THEN {heldTransfer[w]} ELSE {}
                      /\ (holds[w] = "captured") <=> Told("post", w)
                      /\ (heldTransfer[w] # 0 /\ ReversedBefore(w)) <=> Told("reverse", w)
    BY DEF CapturedOnce, Told
  <2>1. PaymentOK(w)
    BY DEF CoreInv
  <2>2. \A v \in Posted : v \in Vouchers /\ v # 0
    BY DEF Posted, Vouchers
  <2> QED BY <2>1, <2>2 DEF PaymentOK, PaidBy, ReversedBefore
<1>2. CoreInv /\ [Next]_vars => CoreInv'
  BY CoreNext
<1> QED BY <1>1, <1>2, CoreInit, PTL DEF Spec

---------------------------------------------------------------------------
(* What the journal adds up to *)

\* What each voucher adds to account a.
Entries(a) == [v \in Vouchers |-> Delta(journal[v].debit, journal[v].credit, journal[v].amt, a)]

Amounts == [v \in Vouchers |-> journal[v].amt]

ActiveHolds == {w \in Workflows : holds[w] = "active"}

ActiveOn(a) == {w \in Workflows : holds[w] = "active" /\ FromAccount[w] = a}

\* Balances and general ledger are sums over the vouchers that count.
Balanced ==
    /\ \A a \in AllAccounts : bal[a] = OpeningBalance[a] + SumFunctionOnSet(Entries(a), Normal)
    /\ gl.dc = SumFunctionOnSet(Amounts, Normal)
    /\ gl.cc = gl.dc

\* What is held and what was posted is positive, and finitely much is held.
Positive ==
    /\ \A v \in Posted : journal[v].amt > 0
    /\ \A w \in ActiveHolds : Amount[w] > 0
    /\ IsFiniteSet(ActiveHolds)

\* The vouchers are finitely many, and their entries integers.
LEMMA JournalSums ==
    ASSUME TypeOK
    PROVE  /\ IsFiniteSet(Vouchers) /\ IsFiniteSet(Normal)
           /\ \A a \in AllAccounts, v \in Vouchers : Entries(a)[v] \in Int
           /\ \A v \in Vouchers : Amounts[v] \in Int
<1>1. IsFiniteSet(Vouchers)
  BY FS_Interval, CoreAssumption DEF Vouchers
<1>2. IsFiniteSet(Normal)
  BY <1>1, FS_Subset DEF Normal
<1>3. \A v \in Vouchers : journal[v].amt \in Int
  BY DEF TypeOK, VoucherRow
<1> QED BY <1>1, <1>2, <1>3 DEF Entries, Amounts, Delta

\* The sums of BooksBalance and of HeldOn, as sums of functions.
LEMMA BookSums ==
    ASSUME TypeOK
    PROVE  /\ \A a \in AllAccounts :
                 SumOver(Normal, LAMBDA v : Delta(journal[v].debit, journal[v].credit, journal[v].amt, a)) =
                    SumFunctionOnSet(Entries(a), Normal)
           /\ SumOver(Normal, LAMBDA v : journal[v].amt) = SumFunctionOnSet(Amounts, Normal)
<1>1. IsFiniteSet(Normal) /\ Normal \subseteq Vouchers
  BY JournalSums DEF Normal
<1>2. ASSUME NEW a \in AllAccounts
      PROVE  SumOver(Normal, LAMBDA v : Delta(journal[v].debit, journal[v].credit, journal[v].amt, a)) =
                SumFunctionOnSet(Entries(a), Normal)
  <2> DEFINE Row(v) == Delta(journal[v].debit, journal[v].credit, journal[v].amt, a)
             Body(g) == [s \in SUBSET Normal |-> IF s = {} THEN 0 ELSE Row(First(s)) + g[s \ {First(s)}]]
             h == CHOOSE g : g = Body(g)
  <2>1. SumOver(Normal, LAMBDA v : Delta(journal[v].debit, journal[v].credit, journal[v].amt, a)) = h[Normal]
    BY DEF SumOver, MapThenSumSet, MapThenFoldSet, First
  <2>2. \A v \in Normal : Entries(a)[v] = Row(v)
    BY <1>1 DEF Entries
  <2> HIDE DEF Row
  <2>3. \A g : Adds(Entries(a), Normal, g) <=> g = Body(g)
    <3>1. \A s \in SUBSET Normal : s # {} => Entries(a)[First(s)] = Row(First(s))
      BY <2>2, FirstIn
    <3> QED BY <3>1 DEF Adds
  <2> HIDE DEF Body
  <2>4. \E g : g = Body(g)
    BY <1>1, <2>3, AddsExists
  <2>5. h = Body(h)
    BY <2>4
  <2> HIDE DEF h
  <2> QED BY <1>1, <2>1, <2>3, <2>5, AddsSum
<1>3. SumOver(Normal, LAMBDA v : journal[v].amt) = SumFunctionOnSet(Amounts, Normal)
  <2> DEFINE Body(g) == [s \in SUBSET Normal |-> IF s = {} THEN 0 ELSE journal[First(s)].amt + g[s \ {First(s)}]]
             h == CHOOSE g : g = Body(g)
  <2>1. SumOver(Normal, LAMBDA v : journal[v].amt) = h[Normal]
    BY DEF SumOver, MapThenSumSet, MapThenFoldSet, First
  <2>2. \A v \in Normal : Amounts[v] = journal[v].amt
    BY <1>1 DEF Amounts
  <2>3. \A g : Adds(Amounts, Normal, g) <=> g = Body(g)
    <3>1. \A s \in SUBSET Normal : s # {} => Amounts[First(s)] = journal[First(s)].amt
      BY <2>2, FirstIn
    <3> QED BY <3>1 DEF Adds
  <2> HIDE DEF Body
  <2>4. \E g : g = Body(g)
    BY <1>1, <2>3, AddsExists
  <2>5. h = Body(h)
    BY <2>4
  <2> HIDE DEF h
  <2> QED BY <1>1, <2>1, <2>3, <2>5, AddsSum
<1> QED BY <1>2, <1>3

\* The holds on an account.
LEMMA HeldSum ==
    ASSUME NEW a
    PROVE  HeldOn(a) = SumFunctionOnSet(Amount, ActiveOn(a))
BY DEF HeldOn, ActiveOn, MapThenSumSet, MapThenFoldSet, SumFunctionOnSet, FoldFunctionOnSet

---------------------------------------------------------------------------
(* How a step may change the ledger *)

\* A posting of new money or a correction, which no hold pays for.
Posts ==
    \E d, cr \in AllAccounts, amt \in Nat \ {0}, ref \in 0 .. MaxVouchers, hold \in Workflows \cup {None} :
        /\ hold = None \/ ref # 0
        /\ Post(d, cr, amt, ref, hold)
        /\ holds' = holds

Rolls == \E v \in Vouchers : ReverseBlue(v)

Captures ==
    \E w \in Workflows :
        /\ holds[w] = "active"
        /\ Post(FromAccount[w], ToAccount[w], Amount[w], 0, w)
        /\ holds' = [holds EXCEPT ![w] = "captured"]

Places ==
    \E w \in Workflows :
        /\ holds[w] = "none" /\ Amount[w] > 0 /\ ~Insufficient(w)
        /\ holds' = [holds EXCEPT ![w] = "active"]
        /\ UNCHANGED <<bal, gl, journal>>

Releases ==
    \E w \in Workflows :
        /\ holds[w] \in {"active", "released"}
        /\ holds' = [holds EXCEPT ![w] = "released"]
        /\ UNCHANGED <<bal, gl, journal>>

LedgerMove == UNCHANGED <<bal, gl, journal, holds>> \/ Posts \/ Rolls \/ Captures \/ Places \/ Releases

\* Every step is one of these.
LEMMA LedgerMoves ==
    ASSUME CoreInv, Positive, [Next]_vars
    PROVE  LedgerMove
<1>0. /\ TypeOK /\ Cash \in AllAccounts /\ Accounts \subseteq AllAccounts /\ 0 \in 0 .. MaxVouchers
      /\ ApiAmounts \subseteq Nat \ {0}
  BY CoreAssumption DEF CoreInv, AllAccounts
<1>1. ASSUME NEW a \in Accounts, NEW amt \in ApiAmounts, Deposit(a, amt) \/ Withdraw(a, amt) PROVE Posts
  <2>1. amt \in Nat \ {0} /\ a \in AllAccounts /\ holds' = holds
    BY <1>0, <1>1 DEF Deposit, Withdraw
  <2>2. Post(Cash, a, amt, 0, None) \/ Post(a, Cash, amt, 0, None)
    BY <1>1 DEF Deposit, Withdraw
  <2> QED BY <1>0, <2>1, <2>2 DEF Posts
<1>2. ASSUME NEW a \in Accounts, NEW b \in Accounts, NEW amt \in ApiAmounts, Transfer(a, b, amt) PROVE Posts
  BY <1>0, <1>2 DEF Transfer, Posts
<1>3. ASSUME NEW v \in Vouchers, v \in Posted
      PROVE  /\ journal[v].credit \in AllAccounts /\ journal[v].debit \in AllAccounts
             /\ journal[v].amt \in Nat \ {0} /\ v \in 0 .. MaxVouchers /\ v # 0
  BY <1>0, <1>3, CoreAssumption DEF TypeOK, VoucherRow, Vouchers, Positive
<1>4. ASSUME NEW v \in Vouchers, ReverseRed(v) PROVE Posts
  <2>1. v \in Posted
    BY <1>4 DEF ReverseRed, Reversible, Posted
  <2>2. Post(journal[v].credit, journal[v].debit, journal[v].amt, v, None) /\ holds' = holds
    BY <1>4 DEF ReverseRed
  <2> QED BY <1>3, <2>1, <2>2 DEF Posts
<1>5. ASSUME NEW c \in Consumers, Handle(c) PROVE LedgerMove
  <2>0. cons[c].stage = "handle" => cons[c].msg \in sent /\ cons[c].msg.wf \in Workflows
    BY <1>0 DEF CoreInv, ConsumerOK, TypeOK, Message
  <2>w. PICK w : w = cons[c].msg.wf
    OBVIOUS
  <2>1. CASE PlaceHold(c)
    <3>1. w \in Workflows
      BY <2>0, <2>1, <2>w DEF PlaceHold, Handling
    <3>2. UNCHANGED <<bal, gl, journal>>
      BY <2>1 DEF PlaceHold
    <3>3. CASE PlaceResult(w) = "ok" /\ holds[w] = "none"
      <4>1. Amount[w] > 0 /\ ~Insufficient(w)
        <5>1. Amount[w] \in Int
          BY <3>1, CoreAssumption
        <5> QED BY <3>3, <5>1 DEF PlaceResult
      <4>2. holds' = [holds EXCEPT ![w] = "active"]
        BY <2>1, <2>w, <3>3 DEF PlaceHold
      <4> QED BY <3>1, <3>2, <3>3, <4>1, <4>2 DEF LedgerMove, Places
    <3>4. CASE ~(PlaceResult(w) = "ok" /\ holds[w] = "none")
      BY <2>1, <2>w, <3>2, <3>4 DEF PlaceHold, LedgerMove
    <3> QED BY <3>3, <3>4
  <2>2. CASE ReleaseHold(c)
    <3>1. w \in Workflows /\ UNCHANGED <<bal, gl, journal>>
      BY <2>0, <2>2, <2>w DEF ReleaseHold, Handling
    <3> QED BY <2>2, <2>w, <3>1 DEF ReleaseHold, Releasable, LedgerMove, Releases
  <2>3. CASE PostHeldTransfer(c)
    <3>1. w \in Workflows
      BY <2>0, <2>3, <2>w DEF PostHeldTransfer, Handling
    <3>2. /\ holds[w] = "active" /\ holds' = [holds EXCEPT ![w] = "captured"]
          /\ Post(FromAccount[w], ToAccount[w], Amount[w], 0, w)
      BY <2>3, <2>w DEF PostHeldTransfer, Capturable
    <3> QED BY <3>1, <3>2 DEF LedgerMove, Captures
  <2>4. CASE ReverseTransfer(c)
    <3>1. w \in Workflows /\ PaymentOK(w) /\ heldTransfer[w] # 0
      BY <2>0, <2>4, <2>w DEF ReverseTransfer, Handling, CoreInv, SentOK
    <3>2. PICK v \in Vouchers : v = heldTransfer[w] /\ v \in Posted
      BY <3>1 DEF PaymentOK, PaidBy, Posted
    <3>3. Post(journal[v].credit, journal[v].debit, journal[v].amt, v, w) /\ holds' = holds
      BY <2>4, <2>w, <3>2 DEF ReverseTransfer
    <3>4. Posts
      BY <1>3, <3>1, <3>2, <3>3 DEF Posts
    <3> QED BY <3>4 DEF LedgerMove
  <2>5. CASE RejectUnknown(c) \/ PostReplayed(c) \/ PostRefused(c) \/ ReverseRefused(c)
    BY <2>5 DEF RejectUnknown, PostReplayed, PostRefused, ReverseRefused, ledger, LedgerMove
  <2> QED BY <1>5, <2>1, <2>2, <2>3, <2>4, <2>5 DEF Handle
<1>6. ASSUME NEW c \in Consumers, (\E m \in queue : Deliver(c, m)) \/ CommitDelivery(c) \/ FailDelivery(c)
      PROVE LedgerMove
  BY <1>6 DEF Deliver, CommitDelivery, FailDelivery, ledger, LedgerMove
<1>7. ASSUME \/ \E kind \in Kinds, w \in Workflows : SendCommand(kind, w)
             \/ \E m \in sent : Redeliver(m)
             \/ UNCHANGED vars
      PROVE  LedgerMove
  BY <1>7 DEF SendCommand, Redeliver, vars, ledger, LedgerMove
<1>8. CASE Rest
  BY <1>1, <1>2, <1>4, <1>8 DEF Rest, LedgerMove, Rolls
<1> QED BY <1>5, <1>6, <1>7, <1>8 DEF Next, Consume

\* One more voucher counts.
LEMMA PostedRow ==
    ASSUME TypeOK, JournalOK, NEW d \in AllAccounts, NEW cr \in AllAccounts, NEW amt \in Int,
           NEW ref \in 0 .. MaxVouchers, NEW hold \in Workflows \cup {None}, Post(d, cr, amt, ref, hold)
    PROVE  \E n \in Vouchers :
              /\ n \notin Posted /\ Posted' = Posted \cup {n}
              /\ n \notin Normal /\ Normal' = Normal \cup {n}
              /\ journal' \in [Vouchers -> VoucherRow]
              /\ \A v \in Vouchers : v # n => journal'[v] = journal[v]
              /\ journal'[n] = [status |-> "normal", debit |-> d, credit |-> cr, amt |-> amt,
                                ref |-> ref, hold |-> hold]
<1>1. PICK k \in 0 .. MaxVouchers : Posted = 1 .. k
  BY DEF JournalOK
<1>2. /\ NewVoucherNo = k + 1 /\ k + 1 \in Vouchers /\ k + 1 \notin Posted
      /\ journal' \in [Vouchers -> VoucherRow]
      /\ \A v \in Vouchers : v # k + 1 => journal'[v] = journal[v]
      /\ Posted' = 1 .. (k + 1)
  BY <1>1, PostFacts
<1>3. PICK n \in Vouchers : n = k + 1
  BY <1>2
<1> DEFINE row == [status |-> "normal", debit |-> d, credit |-> cr, amt |-> amt, ref |-> ref, hold |-> hold]
<1>4. journal' = [journal EXCEPT ![n] = row]
  BY <1>2, <1>3 DEF Post
<1>5. row.status = "normal"
  OBVIOUS
<1> HIDE DEF row
<1>6. journal'[n] = row
  BY <1>4 DEF TypeOK
<1>7. Posted' = Posted \cup {n}
  BY <1>1, <1>2, <1>3, CoreAssumption
<1>8. n \notin Normal /\ Normal' = Normal \cup {n}
  <2>1. journal[n].status = "none"
    BY <1>2, <1>3 DEF Posted
  <2> QED BY <1>2, <1>3, <1>5, <1>6, <2>1 DEF Normal
<1> QED BY <1>2, <1>3, <1>6, <1>7, <1>8 DEF row

\* A posting is added to the sums.
LEMMA PostBalanced ==
    ASSUME TypeOK, JournalOK, Balanced, NEW d \in AllAccounts, NEW cr \in AllAccounts, NEW amt \in Int,
           NEW ref \in 0 .. MaxVouchers, NEW hold \in Workflows \cup {None}, Post(d, cr, amt, ref, hold)
    PROVE  Balanced'
<1>1. PICK n \in Vouchers :
         /\ n \notin Normal /\ Normal' = Normal \cup {n}
         /\ journal' \in [Vouchers -> VoucherRow]
         /\ \A v \in Vouchers : v # n => journal'[v] = journal[v]
         /\ journal'[n] = [status |-> "normal", debit |-> d, credit |-> cr, amt |-> amt,
                           ref |-> ref, hold |-> hold]
  BY PostedRow
<1>2. IsFiniteSet(Normal) /\ Normal \subseteq Vouchers
  BY JournalSums DEF Normal
<1>3. \A v \in Vouchers : journal[v].amt \in Int /\ journal'[v].amt \in Int
  BY <1>1 DEF TypeOK, VoucherRow
<1>4. ASSUME NEW a \in AllAccounts
      PROVE  bal'[a] = OpeningBalance[a] + SumFunctionOnSet(Entries(a), Normal)'
  <2>1. PICK f, g : f = Entries(a) /\ g = Entries(a)'
    OBVIOUS
  <2>2. /\ \A v \in Vouchers : f[v] \in Int /\ g[v] \in Int /\ (v # n => g[v] = f[v])
        /\ g[n] = Delta(d, cr, amt, a)
    BY <1>1, <1>3, <2>1 DEF Entries, Delta
  <2>3. \A v \in Normal \cup {n} : g[v] \in Int
    BY <1>2, <2>2
  <2>4. SumFunctionOnSet(g, Normal \cup {n}) = g[n] + SumFunctionOnSet(g, Normal)
    BY <1>1, <1>2, <2>3, SumAdd
  <2>5. SumFunctionOnSet(g, Normal) = SumFunctionOnSet(f, Normal)
    <3>1. \A v \in Normal : g[v] = f[v]
      BY <1>1, <1>2, <2>2
    <3> QED BY <1>2, <3>1, SumAgree
  <2>6. SumFunctionOnSet(f, Normal) \in Int
    <3>1. \A v \in Normal : f[v] \in Int
      BY <1>2, <2>2
    <3> QED BY <1>2, <3>1, SumType
  <2>7. bal[a] = OpeningBalance[a] + SumFunctionOnSet(f, Normal) /\ OpeningBalance[a] \in Int
    BY <2>1, CoreAssumption DEF Balanced, AllAccounts
  <2>8. bal'[a] = bal[a] + g[n]
    BY <2>2 DEF Post
  <2>9. SumFunctionOnSet(Entries(a), Normal)' = SumFunctionOnSet(g, Normal \cup {n})
    BY <1>1, <2>1
  <2>10. g[n] \in Int
    BY <2>2
  <2> QED BY <2>4, <2>5, <2>6, <2>7, <2>8, <2>9, <2>10
<1>5. gl'.dc = SumFunctionOnSet(Amounts, Normal)' /\ gl'.cc = gl'.dc
  <2>1. PICK f, g : f = Amounts /\ g = Amounts'
    OBVIOUS
  <2>2. /\ \A v \in Vouchers : f[v] \in Int /\ g[v] \in Int /\ (v # n => g[v] = f[v])
        /\ g[n] = amt
    BY <1>1, <1>3, <2>1 DEF Amounts
  <2>3. \A v \in Normal \cup {n} : g[v] \in Int
    BY <1>2, <2>2
  <2>4. SumFunctionOnSet(g, Normal \cup {n}) = g[n] + SumFunctionOnSet(g, Normal)
    BY <1>1, <1>2, <2>3, SumAdd
  <2>5. SumFunctionOnSet(g, Normal) = SumFunctionOnSet(f, Normal)
    <3>1. \A v \in Normal : g[v] = f[v]
      BY <1>1, <1>2, <2>2
    <3> QED BY <1>2, <3>1, SumAgree
  <2>6. SumFunctionOnSet(f, Normal) \in Int
    <3>1. \A v \in Normal : f[v] \in Int
      BY <1>2, <2>2
    <3> QED BY <1>2, <3>1, SumType
  <2>7. gl.dc = SumFunctionOnSet(f, Normal) /\ gl.cc = gl.dc
    BY <2>1 DEF Balanced
  <2>8. gl'.dc = gl.dc + amt /\ gl'.cc = gl.cc + amt
    BY DEF Post
  <2>9. SumFunctionOnSet(Amounts, Normal)' = SumFunctionOnSet(g, Normal \cup {n})
    BY <1>1, <2>1
  <2> QED BY <2>2, <2>4, <2>5, <2>6, <2>7, <2>8, <2>9
<1> QED BY <1>4, <1>5 DEF Balanced

\* A blue reversal takes the voucher out of the sums.
LEMMA RollBalanced ==
    ASSUME TypeOK, Balanced, NEW n \in Vouchers, ReverseBlue(n)
    PROVE  Balanced'
<1>1. n \in Normal /\ journal' = [journal EXCEPT ![n].status = "reversed"]
  BY DEF ReverseBlue, Reversible, Normal
<1>2. \A v \in Vouchers : /\ journal'[v].debit = journal[v].debit /\ journal'[v].credit = journal[v].credit
                          /\ journal'[v].amt = journal[v].amt /\ journal[v].amt \in Int
                          /\ journal'[v].status = IF v = n THEN "reversed" ELSE journal[v].status
  BY <1>1 DEF TypeOK, VoucherRow
<1>3. Normal' = Normal \ {n}
  BY <1>1, <1>2 DEF Normal
<1>4. IsFiniteSet(Normal) /\ Normal \subseteq Vouchers
  BY JournalSums DEF Normal
<1>5. Amounts' = Amounts /\ \A a \in AllAccounts : Entries(a)' = Entries(a)
  BY <1>2 DEF Amounts, Entries
<1>6. ASSUME NEW a \in AllAccounts
      PROVE  bal'[a] = OpeningBalance[a] + SumFunctionOnSet(Entries(a), Normal)'
  <2>1. PICK f : f = Entries(a)
    OBVIOUS
  <2>2. /\ \A v \in Normal : f[v] \in Int
        /\ bal'[a] = bal[a] - f[n] /\ bal[a] \in Int
    <3>1. \A v \in Normal : f[v] \in Int
      BY <1>2, <1>4, <2>1 DEF Entries, Delta
    <3>2. bal'[a] = bal[a] + RollbackDelta(n, a) /\ bal[a] \in Int
      BY DEF ReverseBlue, TypeOK
    <3>3. RollbackDelta(n, a) = -f[n]
      BY <1>2, <2>1 DEF RollbackDelta, Entries, Delta
    <3>4. f[n] \in Int
      BY <1>1, <3>1
    <3> QED BY <3>1, <3>2, <3>3, <3>4
  <2>3. SumFunctionOnSet(f, Normal) = f[n] + SumFunctionOnSet(f, Normal \ {n})
    BY <1>1, <1>4, <2>2, SumRemove
  <2>4. SumFunctionOnSet(f, Normal \ {n}) \in Int
    <3>1. IsFiniteSet(Normal \ {n}) /\ \A v \in Normal \ {n} : f[v] \in Int
      BY <1>4, <2>2, FS_Subset
    <3> QED BY <3>1, SumType
  <2>5. bal[a] = OpeningBalance[a] + SumFunctionOnSet(f, Normal) /\ OpeningBalance[a] \in Int
    BY <2>1, CoreAssumption DEF Balanced, AllAccounts
  <2>6. SumFunctionOnSet(Entries(a), Normal)' = SumFunctionOnSet(f, Normal \ {n})
    BY <1>3, <1>5, <2>1
  <2>7. f[n] \in Int
    BY <1>1, <2>2
  <2> QED BY <2>2, <2>3, <2>4, <2>5, <2>6, <2>7
<1>7. gl'.dc = SumFunctionOnSet(Amounts, Normal)' /\ gl'.cc = gl'.dc
  <2>1. PICK f : f = Amounts /\ f = Amounts'
    BY <1>5
  <2>2. (\A v \in Normal : f[v] \in Int) /\ f[n] = journal[n].amt
    BY <1>2, <1>4, <2>1 DEF Amounts
  <2>3. SumFunctionOnSet(f, Normal) = f[n] + SumFunctionOnSet(f, Normal \ {n})
    BY <1>1, <1>4, <2>2, SumRemove
  <2>4. SumFunctionOnSet(f, Normal \ {n}) \in Int
    <3>1. IsFiniteSet(Normal \ {n}) /\ \A v \in Normal \ {n} : f[v] \in Int
      BY <1>4, <2>2, FS_Subset
    <3> QED BY <3>1, SumType
  <2>5. gl.dc = SumFunctionOnSet(f, Normal) /\ gl.cc = gl.dc
    BY <2>1 DEF Balanced
  <2>6. gl'.dc = gl.dc - f[n] /\ gl'.cc = gl.cc - f[n]
    BY <2>2 DEF ReverseBlue
  <2>7. SumFunctionOnSet(Amounts, Normal)' = SumFunctionOnSet(f, Normal \ {n})
    BY <1>3, <2>1
  <2>8. f[n] \in Int
    BY <1>1, <2>2
  <2> QED BY <2>3, <2>4, <2>5, <2>6, <2>7, <2>8
<1> QED BY <1>6, <1>7 DEF Balanced

\* Every step keeps the books in balance.
LEMMA BalancedStep ==
    ASSUME CoreInv, Balanced, LedgerMove
    PROVE  Balanced'
<1>0. TypeOK /\ JournalOK
  BY DEF CoreInv
<1>1. CASE UNCHANGED <<bal, gl, journal>>
  <2>1. Normal' = Normal /\ Amounts' = Amounts /\ \A a \in AllAccounts : Entries(a)' = Entries(a)
    BY <1>1 DEF Normal, Amounts, Entries
  <2> QED BY <1>1, <2>1 DEF Balanced
<1>2. CASE Posts
  <2>1. PICK d, cr \in AllAccounts, amt \in Nat \ {0}, ref \in 0 .. MaxVouchers, hold \in Workflows \cup {None} :
           Post(d, cr, amt, ref, hold)
    BY <1>2 DEF Posts
  <2>2. amt \in Int
    OBVIOUS
  <2> QED BY <1>0, <2>1, <2>2, PostBalanced
<1>3. CASE Rolls
  BY <1>0, <1>3, RollBalanced DEF Rolls
<1>4. CASE Captures
  <2>1. PICK w \in Workflows : Post(FromAccount[w], ToAccount[w], Amount[w], 0, w)
    BY <1>4 DEF Captures
  <2>2. /\ FromAccount[w] \in AllAccounts /\ ToAccount[w] \in AllAccounts /\ Amount[w] \in Int
        /\ 0 \in 0 .. MaxVouchers /\ w \in Workflows \cup {None}
    BY CoreAssumption DEF AllAccounts
  <2> QED BY <1>0, <2>1, <2>2, PostBalanced
<1> QED BY <1>1, <1>2, <1>3, <1>4 DEF LedgerMove, Places, Releases

\* Amounts stay positive.
LEMMA PositiveStep ==
    ASSUME CoreInv, Positive, LedgerMove
    PROVE  Positive'
<1>0. TypeOK /\ JournalOK
  BY DEF CoreInv
<1>1. CASE UNCHANGED <<journal, holds>>
  BY <1>1 DEF Positive, Posted, ActiveHolds
<1>2. ASSUME NEW d \in AllAccounts, NEW cr \in AllAccounts, NEW amt \in Int, amt > 0,
             NEW ref \in 0 .. MaxVouchers, NEW hold \in Workflows \cup {None}, Post(d, cr, amt, ref, hold)
      PROVE  \A v \in Posted' : journal'[v].amt > 0
  <2>1. PICK n \in Vouchers :
           /\ Posted' = Posted \cup {n}
           /\ \A v \in Vouchers : v # n => journal'[v] = journal[v]
           /\ journal'[n] = [status |-> "normal", debit |-> d, credit |-> cr, amt |-> amt,
                             ref |-> ref, hold |-> hold]
    BY <1>0, <1>2, PostedRow
  <2>2. journal'[n].amt = amt /\ Posted \subseteq Vouchers
    BY <2>1 DEF Posted
  <2> QED BY <1>2, <2>1, <2>2 DEF Positive
<1>3. CASE Posts
  <2>1. PICK d, cr \in AllAccounts, amt \in Nat \ {0}, ref \in 0 .. MaxVouchers, hold \in Workflows \cup {None} :
           Post(d, cr, amt, ref, hold) /\ holds' = holds
    BY <1>3 DEF Posts
  <2>2. amt \in Int /\ amt > 0
    OBVIOUS
  <2>3. ActiveHolds' = ActiveHolds
    BY <2>1 DEF ActiveHolds
  <2> QED BY <1>2, <2>1, <2>2, <2>3 DEF Positive
<1>4. CASE Rolls
  <2>1. PICK n \in Vouchers : ReverseBlue(n)
    BY <1>4 DEF Rolls
  <2>2. /\ journal[n].status = "normal" /\ journal' = [journal EXCEPT ![n].status = "reversed"]
        /\ holds' = holds
    BY <2>1 DEF ReverseBlue, Reversible
  <2>3. \A v \in Vouchers : journal'[v].amt = journal[v].amt
    BY <2>2, <1>0 DEF TypeOK, VoucherRow
  <2>4. \A v \in Vouchers : v # n => journal'[v].status = journal[v].status
    BY <2>2, <1>0 DEF TypeOK
  <2>5. Posted' \subseteq Posted
    BY <2>2, <2>4 DEF Posted
  <2>6. ActiveHolds' = ActiveHolds
    BY <2>2 DEF ActiveHolds
  <2> QED BY <2>3, <2>5, <2>6 DEF Positive, Posted
<1>5. ASSUME NEW w \in Workflows, NEW s, holds' = [holds EXCEPT ![w] = s], s = "active" => Amount[w] > 0
      PROVE  (\A u \in ActiveHolds' : Amount[u] > 0) /\ IsFiniteSet(ActiveHolds')
  <2>1. \A u \in Workflows : holds'[u] = IF u = w THEN s ELSE holds[u]
    BY <1>0, <1>5 DEF TypeOK
  <2>2. ActiveHolds' \subseteq ActiveHolds \cup {w}
    BY <2>1 DEF ActiveHolds
  <2>3. IsFiniteSet(ActiveHolds \cup {w})
    BY FS_AddElement DEF Positive
  <2>4. IsFiniteSet(ActiveHolds')
    BY <2>2, <2>3, FS_Subset
  <2> QED BY <1>5, <2>1, <2>4 DEF ActiveHolds, Positive
<1>6. CASE Captures
  <2>1. PICK w \in Workflows : /\ holds[w] = "active" /\ holds' = [holds EXCEPT ![w] = "captured"]
                               /\ Post(FromAccount[w], ToAccount[w], Amount[w], 0, w)
    BY <1>6 DEF Captures
  <2>2. /\ FromAccount[w] \in AllAccounts /\ ToAccount[w] \in AllAccounts /\ Amount[w] \in Int
        /\ 0 \in 0 .. MaxVouchers /\ w \in Workflows \cup {None}
    BY CoreAssumption DEF AllAccounts
  <2>3. Amount[w] > 0
    BY <2>1 DEF Positive, ActiveHolds
  <2> QED BY <1>2, <1>5, <2>1, <2>2, <2>3 DEF Positive
<1>7. CASE Places \/ Releases
  <2>1. PICK w \in Workflows, s \in {"active", "released"} :
           holds' = [holds EXCEPT ![w] = s] /\ (s = "active" => Amount[w] > 0) /\ journal' = journal
    BY <1>7 DEF Places, Releases
  <2>2. Posted' = Posted
    BY <2>1 DEF Posted
  <2> QED BY <1>5, <2>1, <2>2 DEF Positive
<1> QED BY <1>1, <1>3, <1>4, <1>6, <1>7 DEF LedgerMove

---------------------------------------------------------------------------
(* Holds and balances *)

\* What is held on an account is the sum of finitely many integers.
LEMMA HeldFacts ==
    ASSUME Positive, NEW a
    PROVE  /\ IsFiniteSet(ActiveOn(a)) /\ (\A w \in ActiveOn(a) : Amount[w] \in Int /\ Amount[w] > 0)
           /\ HeldOn(a) = SumFunctionOnSet(Amount, ActiveOn(a)) /\ HeldOn(a) \in Int
<1>1. ActiveOn(a) \subseteq ActiveHolds /\ ActiveHolds \subseteq Workflows
  BY DEF ActiveOn, ActiveHolds
<1>2. IsFiniteSet(ActiveOn(a))
  BY <1>1, FS_Subset DEF Positive
<1>3. \A w \in ActiveOn(a) : Amount[w] \in Int /\ Amount[w] > 0
  BY <1>1, CoreAssumption DEF Positive
<1>4. HeldOn(a) = SumFunctionOnSet(Amount, ActiveOn(a))
  BY HeldSum
<1>5. SumFunctionOnSet(Amount, ActiveOn(a)) \in Int
  BY <1>2, <1>3, SumType
<1> QED BY <1>2, <1>3, <1>4, <1>5

\* A new hold is held in addition, and one that is captured or released no more.
LEMMA HeldChange ==
    ASSUME TypeOK, Positive, NEW w \in Workflows, NEW s \in HoldStatus, holds' = [holds EXCEPT ![w] = s], NEW a
    PROVE  /\ s = "active" /\ holds[w] # "active" =>
                HeldOn(a)' = HeldOn(a) + (IF FromAccount[w] = a THEN Amount[w] ELSE 0)
           /\ s # "active" /\ holds[w] = "active" =>
                HeldOn(a) = HeldOn(a)' + (IF FromAccount[w] = a THEN Amount[w] ELSE 0)
           /\ s # "active" /\ holds[w] # "active" => HeldOn(a)' = HeldOn(a)
           /\ HeldOn(a)' \in Int
<1>1. \A u \in Workflows : holds'[u] = IF u = w THEN s ELSE holds[u]
  BY DEF TypeOK
<1>2. /\ IsFiniteSet(ActiveOn(a)) /\ (\A u \in ActiveOn(a) : Amount[u] \in Int)
      /\ HeldOn(a) = SumFunctionOnSet(Amount, ActiveOn(a)) /\ HeldOn(a) \in Int
  BY HeldFacts
<1>3. HeldOn(a)' = SumFunctionOnSet(Amount, ActiveOn(a)')
  <2>1. HeldOn(a)' = SumFunctionOnSet(Amount, {u \in Workflows : holds'[u] = "active" /\ FromAccount[u] = a})
    BY DEF HeldOn, MapThenSumSet, MapThenFoldSet, SumFunctionOnSet, FoldFunctionOnSet
  <2> QED BY <2>1 DEF ActiveOn
<1>4. Amount[w] \in Int
  BY CoreAssumption
<1>5. ASSUME s = "active", holds[w] # "active", FromAccount[w] = a
      PROVE  HeldOn(a)' = HeldOn(a) + Amount[w]
  <2>1. w \notin ActiveOn(a) /\ ActiveOn(a)' = ActiveOn(a) \cup {w}
    BY <1>1, <1>5 DEF ActiveOn
  <2>2. \A u \in ActiveOn(a) \cup {w} : Amount[u] \in Int
    BY <1>2, <1>4
  <2>3. SumFunctionOnSet(Amount, ActiveOn(a) \cup {w}) = Amount[w] + SumFunctionOnSet(Amount, ActiveOn(a))
    BY <1>2, <2>1, <2>2, SumAdd
  <2> QED BY <1>2, <1>3, <1>4, <2>1, <2>3
<1>6. ASSUME s # "active", holds[w] = "active", FromAccount[w] = a
      PROVE  HeldOn(a)' \in Int /\ HeldOn(a) = HeldOn(a)' + Amount[w]
  <2>1. w \in ActiveOn(a) /\ ActiveOn(a)' = ActiveOn(a) \ {w}
    BY <1>1, <1>6 DEF ActiveOn
  <2>2. SumFunctionOnSet(Amount, ActiveOn(a)) = Amount[w] + SumFunctionOnSet(Amount, ActiveOn(a) \ {w})
    <3>1. IsFiniteSet(ActiveOn(a)) /\ \A u \in ActiveOn(a) : Amount[u] \in Int
      BY <1>2
    <3>2. w \in ActiveOn(a)
      BY <2>1
    <3> QED BY <3>1, <3>2, SumRemove
  <2>3. SumFunctionOnSet(Amount, ActiveOn(a) \ {w}) \in Int
    <3>1. IsFiniteSet(ActiveOn(a) \ {w}) /\ \A u \in ActiveOn(a) \ {w} : Amount[u] \in Int
      BY <1>2, FS_Subset
    <3> QED BY <3>1, SumType
  <2> QED BY <1>2, <1>3, <1>4, <2>1, <2>2, <2>3
<1>7. ASSUME FromAccount[w] # a \/ (s = "active" <=> holds[w] = "active")
      PROVE  HeldOn(a)' = HeldOn(a)
  <2>1. ActiveOn(a)' = ActiveOn(a)
    BY <1>1, <1>7 DEF ActiveOn
  <2> QED BY <1>2, <1>3, <2>1
<1>8. HeldOn(a)' \in Int
  BY <1>2, <1>4, <1>5, <1>6, <1>7
<1> QED BY <1>2, <1>5, <1>6, <1>7, <1>8

\* An account that something other than a payment debited stays so.
LEMMA ExposedStays ==
    ASSUME NEW a, Posted \subseteq Posted',
           \A v \in Posted : /\ journal'[v].debit = journal[v].debit /\ journal'[v].credit = journal[v].credit
                             /\ journal'[v].hold = journal[v].hold /\ journal'[v].ref = journal[v].ref
                             /\ (journal[v].status = "reversed" => journal'[v].status = "reversed"),
           Exposed(a)
    PROVE  Exposed(a)'
BY DEF Exposed

\* A hold is placed on what is free, and only its own transfer takes it away.
LEMMA CoveredStep ==
    ASSUME CoreInv, Positive, HoldsCovered, LedgerMove
    PROVE  HoldsCovered'
<1> SUFFICES ASSUME NEW a \in Accounts, ~Exposed(a)'
             PROVE  HeldOn(a)' <= bal'[a]
  BY DEF HoldsCovered
<1>0. /\ TypeOK /\ JournalOK /\ HeldOn(a) \in Int /\ a \in AllAccounts
      /\ bal[a] \in Int
  BY HeldFacts DEF CoreInv, TypeOK, AllAccounts
<1>1. ASSUME NEW d \in AllAccounts, NEW cr \in AllAccounts, NEW amt \in Int, amt > 0,
             NEW ref \in 0 .. MaxVouchers, NEW hold \in Workflows \cup {None}, Post(d, cr, amt, ref, hold)
      PROVE  /\ HeldOn(a) <= bal[a]
             /\ hold = None \/ ref # 0 => d # a
             /\ bal'[a] = bal[a] + (IF a = cr THEN amt ELSE 0) - (IF a = d THEN amt ELSE 0)
  <2>1. PICK n \in Vouchers :
           /\ n \notin Posted /\ Posted' = Posted \cup {n}
           /\ \A v \in Vouchers : v # n => journal'[v] = journal[v]
           /\ journal'[n] = [status |-> "normal", debit |-> d, credit |-> cr, amt |-> amt,
                             ref |-> ref, hold |-> hold]
    BY <1>0, <1>1, PostedRow
  <2>2. \A v \in Posted : journal'[v] = journal[v]
    BY <2>1 DEF Posted
  <2>3. ~Exposed(a)
    BY <2>1, <2>2, ExposedStays
  <2>4. HeldOn(a) <= bal[a]
    BY <2>3 DEF HoldsCovered
  <2>5. hold = None \/ ref # 0 => d # a
    <3>1. n \in Posted' /\ journal'[n].debit = d /\ journal'[n].hold = hold /\ journal'[n].ref = ref
      BY <2>1
    <3> QED BY <3>1 DEF Exposed
  <2>6. bal'[a] = bal[a] + (IF a = cr THEN amt ELSE 0) - (IF a = d THEN amt ELSE 0)
    BY <1>0, <1>1 DEF Post, Delta
  <2> QED BY <2>4, <2>5, <2>6
<1>2. CASE UNCHANGED <<bal, gl, journal, holds>>
  <2>1. Exposed(a)' = Exposed(a) /\ HeldOn(a)' = HeldOn(a)
    BY <1>2 DEF Exposed, Posted, HeldOn, MapThenSumSet, MapThenFoldSet
  <2> QED BY <1>2, <2>1 DEF HoldsCovered
<1>3. CASE Posts
  <2>1. PICK d, cr \in AllAccounts, amt \in Nat \ {0}, ref \in 0 .. MaxVouchers, hold \in Workflows \cup {None} :
           Post(d, cr, amt, ref, hold) /\ holds' = holds /\ (hold = None \/ ref # 0)
    BY <1>3 DEF Posts
  <2>2. amt \in Int /\ amt > 0
    OBVIOUS
  <2>3. /\ HeldOn(a) <= bal[a] /\ d # a
        /\ bal'[a] = bal[a] + (IF a = cr THEN amt ELSE 0) - (IF a = d THEN amt ELSE 0)
    BY <1>1, <2>1, <2>2
  <2>4. HeldOn(a)' = HeldOn(a)
    BY <2>1 DEF HeldOn, MapThenSumSet, MapThenFoldSet
  <2> QED BY <1>0, <2>2, <2>3, <2>4
<1>4. CASE Rolls
  <2>1. PICK n \in Vouchers : ReverseBlue(n)
    BY <1>4 DEF Rolls
  <2>2. /\ journal[n].status = "normal" /\ journal' = [journal EXCEPT ![n].status = "reversed"]
        /\ holds' = holds /\ bal'[a] = bal[a] + RollbackDelta(n, a)
    BY <1>0, <2>1 DEF ReverseBlue, Reversible
  <2>3. \A v \in Vouchers : /\ journal'[v].debit = journal[v].debit /\ journal'[v].credit = journal[v].credit
                            /\ journal'[v].hold = journal[v].hold /\ journal'[v].ref = journal[v].ref
                            /\ journal'[v].status = IF v = n THEN "reversed" ELSE journal[v].status
    BY <1>0, <2>2 DEF TypeOK, VoucherRow
  <2>4. Posted' = Posted /\ n \in Posted
    BY <2>2, <2>3 DEF Posted
  <2>5. ~Exposed(a)
    BY <2>3, <2>4, ExposedStays DEF Posted
  <2>6. journal[n].credit # a
    BY <2>3, <2>4 DEF Exposed
  <2>7. journal[n].amt \in Int /\ journal[n].amt > 0
    BY <1>0, <2>4 DEF TypeOK, VoucherRow, Positive
  <2>8. bal'[a] >= bal[a]
    BY <1>0, <2>2, <2>6, <2>7 DEF RollbackDelta, Delta
  <2>9. HeldOn(a)' = HeldOn(a)
    BY <2>2 DEF HeldOn, MapThenSumSet, MapThenFoldSet
  <2>10. bal'[a] \in Int
    BY <1>0, <2>2, <2>7 DEF RollbackDelta, Delta
  <2> QED BY <1>0, <2>5, <2>8, <2>9, <2>10 DEF HoldsCovered
<1>5. CASE Captures
  <2>1. PICK w \in Workflows : /\ holds[w] = "active" /\ holds' = [holds EXCEPT ![w] = "captured"]
                               /\ Post(FromAccount[w], ToAccount[w], Amount[w], 0, w)
    BY <1>5 DEF Captures
  <2>2. /\ FromAccount[w] \in AllAccounts /\ ToAccount[w] \in AllAccounts /\ Amount[w] \in Int
        /\ 0 \in 0 .. MaxVouchers /\ w \in Workflows \cup {None}
    BY CoreAssumption DEF AllAccounts
  <2>3. Amount[w] > 0
    BY <2>1 DEF Positive, ActiveHolds
  <2>4. /\ HeldOn(a) <= bal[a]
        /\ bal'[a] = bal[a] + (IF a = ToAccount[w] THEN Amount[w] ELSE 0)
                            - (IF a = FromAccount[w] THEN Amount[w] ELSE 0)
    BY <1>1, <2>1, <2>2, <2>3
  <2>5. HeldOn(a)' \in Int /\ HeldOn(a) = HeldOn(a)' + (IF FromAccount[w] = a THEN Amount[w] ELSE 0)
    <3>1. PICK s \in HoldStatus : s # "active" /\ holds[w] = "active" /\ holds' = [holds EXCEPT ![w] = s]
      BY <2>1 DEF HoldStatus
    <3> QED BY <1>0, <3>1, HeldChange
  <2> QED BY <1>0, <2>2, <2>3, <2>4, <2>5
<1>6. ASSUME UNCHANGED <<bal, journal>> PROVE HeldOn(a) <= bal[a]
  BY <1>6 DEF HoldsCovered, Exposed, Posted
<1>7. CASE Places
  <2>1. PICK w \in Workflows : /\ holds[w] = "none" /\ ~Insufficient(w) /\ Amount[w] > 0
                               /\ holds' = [holds EXCEPT ![w] = "active"] /\ UNCHANGED <<bal, journal>>
    BY <1>7 DEF Places
  <2>2. HeldOn(a)' = HeldOn(a) + (IF FromAccount[w] = a THEN Amount[w] ELSE 0)
    <3>1. PICK s \in HoldStatus : s = "active" /\ holds[w] # s /\ holds' = [holds EXCEPT ![w] = s]
      BY <2>1 DEF HoldStatus
    <3> QED BY <1>0, <3>1, HeldChange
  <2>3. Amount[w] \in Int /\ HeldOn(a) <= bal[a]
    BY <1>6, <2>1, CoreAssumption
  <2>4. FromAccount[w] = a => Amount[w] <= bal[a] - HeldOn(a)
    BY <1>0, <2>1, <2>3 DEF Insufficient
  <2> QED BY <1>0, <2>1, <2>2, <2>3, <2>4
<1>8. CASE Releases
  <2>1. PICK w \in Workflows : /\ holds' = [holds EXCEPT ![w] = "released"] /\ UNCHANGED <<bal, journal>>
    BY <1>8 DEF Releases
  <2>2. /\ HeldOn(a)' \in Int
        /\ holds[w] = "active" => HeldOn(a) = HeldOn(a)' + (IF FromAccount[w] = a THEN Amount[w] ELSE 0)
        /\ holds[w] # "active" => HeldOn(a)' = HeldOn(a)
    <3>1. PICK s \in HoldStatus : s # "active" /\ holds' = [holds EXCEPT ![w] = s]
      BY <2>1 DEF HoldStatus
    <3> QED BY <1>0, <3>1, HeldChange
  <2>3. Amount[w] \in Int /\ HeldOn(a) <= bal[a]
    BY <1>6, <2>1, CoreAssumption
  <2>4. holds[w] = "active" => Amount[w] > 0
    BY DEF Positive, ActiveHolds
  <2> QED BY <1>0, <2>1, <2>2, <2>3, <2>4
<1> QED BY <1>2, <1>3, <1>4, <1>5, <1>7, <1>8 DEF LedgerMove

---------------------------------------------------------------------------

\* Books and holds, together.
LEMMA BooksInvariant == Spec => [](CoreInv /\ Positive /\ Balanced /\ HoldsCovered)
<1> DEFINE I == CoreInv /\ Positive /\ Balanced /\ HoldsCovered
<1>1. Init => I
  <2> SUFFICES ASSUME Init PROVE I
    OBVIOUS
  <2>1. CoreInv
    BY CoreInit
  <2>2. Posted = {} /\ Normal = {} /\ ActiveHolds = {} /\ \A a : ActiveOn(a) = {}
    BY DEF Init, Posted, Normal, ActiveHolds, ActiveOn, NoVoucher
  <2>3. Positive
    BY <2>2, FS_EmptySet DEF Positive
  <2>4. Balanced
    <3>1. \A a \in AllAccounts : SumFunctionOnSet(Entries(a), {}) = 0
      BY SumEmpty
    <3>2. SumFunctionOnSet(Amounts, {}) = 0
      BY SumEmpty
    <3>3. \A a \in AllAccounts : bal[a] = OpeningBalance[a] /\ OpeningBalance[a] \in Int
      BY CoreAssumption DEF Init, AllAccounts
    <3>4. gl.dc = 0 /\ gl.cc = 0
      BY DEF Init
    <3> QED BY <2>2, <3>1, <3>2, <3>3, <3>4 DEF Balanced
  <2>5. HoldsCovered
    <3>1. \A a \in Accounts : HeldOn(a) = 0
      BY <2>2, HeldSum, SumEmpty
    <3>2. \A a \in Accounts : bal[a] >= 0
      BY CoreAssumption DEF Init
    <3> QED BY <3>1, <3>2 DEF HoldsCovered
  <2> QED BY <2>1, <2>3, <2>4, <2>5
<1>2. I /\ [Next]_vars => I'
  BY CoreNext, LedgerMoves, BalancedStep, PositiveStep, CoveredStep
<1> QED BY <1>1, <1>2, PTL DEF Spec

\* Sub-ledger, general ledger and journal agree (LedgerService.Post,
\* reverseRollback): whatever postings, reversals, transfers and repeated
\* commands, for any number of accounts, vouchers and replicas.
THEOREM BooksBalanceTheorem == Spec => []BooksBalance
<1>1. CoreInv /\ Balanced => BooksBalance
  BY BookSums DEF CoreInv, Balanced, BooksBalance
<1> QED BY <1>1, BooksInvariant, PTL

\* Payments alone never promise the same money twice (PlaceHold,
\* PostHeldTransfer): an account that nothing else debits has at least what is
\* held on it, although a capture does not look at the balance.
THEOREM HoldsCoveredTheorem == Spec => []HoldsCovered
BY BooksInvariant, PTL
====
