------------------------- MODULE BankServicesProofs -------------------------
(***************************************************************************)
(* Theorems about the services beside the transfers: the name service, the *)
(* interest batch and the mirror of bank_dcn (DcnServices), for any number *)
(* of units, accounts, customers, requests, runs and faults, and the risk  *)
(* service of bank (RiskAuthorization), for any payments, replicas, relays *)
(* and outcomes of the policy.                                             *)
(***************************************************************************)
EXTENDS DcnServices, RiskAuthorization, SumLemmas

---------------------------------------------------------------------------
(* Least elements *)

\* A set of naturals that is not empty has a least element.
LEMMA LeastNumber ==
    ASSUME NEW S \in SUBSET Nat, S # {}
    PROVE  \E n \in S : \A k \in S : n <= k
<1>1. \E R : IsWellFoundedOn(R, Nat) /\ \A k, n \in Nat : k < n => <<k, n>> \in R
  <2>1. \A k, n \in Nat : k < n => <<k, n>> \in OpToRel(<, Nat)
    BY DEF OpToRel
  <2> QED BY <2>1, NatLessThanWellFounded, Zenon
<1>2. PICK R : IsWellFoundedOn(R, Nat) /\ \A k, n \in Nat : k < n => <<k, n>> \in R
  BY <1>1
<1>3. PICK n \in S : \A k \in S : ~(<<k, n>> \in R)
  <2>1. S \subseteq Nat /\ IsWellFoundedOn(R, Nat)
    BY <1>2
  <2> QED BY <2>1, WFMin, Zenon
<1>4. \A k \in S : ~(k < n)
  BY <1>2, <1>3
<1> QED BY <1>4

\* Some element of a set has the least value.
LEMMA LeastValue ==
    ASSUME NEW S, S # {}, NEW f, \A x \in S : f[x] \in Nat
    PROVE  \E x \in S : \A y \in S : f[x] <= f[y]
<1> DEFINE V == {f[x] : x \in S}
<1>1. V \in SUBSET Nat /\ V # {}
  OBVIOUS
<1> HIDE DEF V
<1>2. PICK n \in V : \A k \in V : n <= k
  BY <1>1, LeastNumber
<1> QED BY <1>2 DEF V

\* A bounded set of naturals that is not empty has a maximum.
LEMMA MaxIn ==
    ASSUME NEW S \in SUBSET Nat, S # {}, NEW b \in Nat, \A x \in S : x <= b
    PROVE  Max(S) \in S /\ \A x \in S : x <= Max(S)
<1> DEFINE f == [x \in S |-> b - x]
<1>1. \A x \in S : f[x] \in Nat
  OBVIOUS
<1>2. PICK x \in S : \A y \in S : f[x] <= f[y]
  BY <1>1, LeastValue
<1>3. \A y \in S : x >= y
  BY <1>2
<1> QED BY <1>3 DEF Max

\* A set of naturals that is not empty has a minimum.
LEMMA MinIn ==
    ASSUME NEW S \in SUBSET Nat, S # {}
    PROVE  Min(S) \in S /\ \A x \in S : Min(S) <= x
<1>1. PICK n \in S : \A k \in S : n <= k
  BY LeastNumber
<1> QED BY <1>1 DEF Min

---------------------------------------------------------------------------
(* Segments *)

\* A number belongs to one unit.
LEMMA UnitFacts ==
    /\ \A n \in Numbers : UnitOf(n) \in Units /\ n \in Seg[UnitOf(n)].start + 1 .. Seg[UnitOf(n)].end
    /\ \A u \in Units : \A n \in Seg[u].start + 1 .. Seg[u].end : n \in Numbers /\ UnitOf(n) = u
    /\ \A n \in Numbers : n \in Nat /\ n # 0
<1>1. \A u \in Units : Seg[u].start \in Nat /\ Seg[u].end \in Nat
  BY SegmentAssumption
<1>2. ASSUME NEW u \in Units, NEW n \in Seg[u].start + 1 .. Seg[u].end
      PROVE  n \in Numbers /\ UnitOf(n) = u /\ n \in Nat /\ n # 0
  <2>1. n \in Numbers
    BY DEF Numbers
  <2>2. n \in Seg[u].start .. Seg[u].end
    BY <1>1
  <2>3. \A v \in Units : n \in Seg[v].start .. Seg[v].end => v = u
    BY <2>2, SegmentAssumption
  <2>4. UnitOf(n) = u
    BY <2>2, <2>3 DEF UnitOf
  <2> QED BY <1>1, <2>1, <2>4
<1>3. ASSUME NEW n \in Numbers
      PROVE  UnitOf(n) \in Units /\ n \in Seg[UnitOf(n)].start + 1 .. Seg[UnitOf(n)].end /\ n \in Nat /\ n # 0
  <2>1. PICK u \in Units : n \in Seg[u].start + 1 .. Seg[u].end
    BY DEF Numbers
  <2> QED BY <1>2, <2>1
<1> QED BY <1>2, <1>3

\* PickSegment finds one: the fewest accounts, and among those the lowest start.
LEMMA PickedSegment ==
    ASSUME NEW S \in SUBSET Units, S # {}
    PROVE  PickSegment(S) \in S
<1>1. \A u \in Units : Seg[u].start \in Nat /\ Cardinality(Routed(u)) \in Nat
  <2>1. ASSUME NEW u \in Units PROVE Cardinality(Routed(u)) \in Nat
    <3>1. Seg[u].start + 1 \in Int /\ Seg[u].end \in Int
      BY SegmentAssumption
    <3>2. IsFiniteSet(Seg[u].start + 1 .. Seg[u].end)
      BY <3>1, FS_Interval
    <3>3. Routed(u) \subseteq Seg[u].start + 1 .. Seg[u].end
      BY UnitFacts DEF Routed
    <3> QED BY <3>2, <3>3, FS_Subset, FS_CardinalityType
  <2> QED BY <2>1, SegmentAssumption
<1> DEFINE count == [u \in S |-> Cardinality(Routed(u))]
<1>2. PICK u \in S : \A v \in S : count[u] <= count[v]
  <2>1. \A v \in S : count[v] \in Nat
    BY <1>1
  <2> HIDE DEF count
  <2> QED BY <2>1, LeastValue
<1> DEFINE T == {v \in S : count[v] = count[u]}
           start == [v \in T |-> Seg[v].start]
<1>3. PICK w \in T : \A v \in T : start[w] <= start[v]
  <2>1. T # {} /\ \A v \in T : start[v] \in Nat
    BY <1>1
  <2> HIDE DEF T, start
  <2> QED BY <2>1, LeastValue
<1>4. ASSUME NEW v \in S \ {w}
      PROVE  \/ Cardinality(Routed(w)) < Cardinality(Routed(v))
             \/ Cardinality(Routed(w)) = Cardinality(Routed(v)) /\ Seg[w].start < Seg[v].start
  <2>1. Seg[v].start # Seg[w].start
    BY SegmentAssumption
  <2> QED BY <1>1, <1>2, <1>3, <2>1
<1> QED BY <1>4 DEF PickSegment
---------------------------------------------------------------------------
(* Opening an account *)

OpState == [pc : {"idle", "pick", "max", "insert", "create", "rollback", "done"},
            cust : Customers \cup {None}, unit : Units \cup {None},
            num : Numbers \cup {0}, tries : 0 .. MaxTries, code : {0, 200, 201, 502, 503}]

PostState == {"none", "flying", "handled", "dropped"}

NameTypes ==
    /\ owner \in [Numbers -> Customers \cup {None}]
    /\ segs \subseteq Units /\ cached \subseteq Numbers
    /\ route \in [Numbers -> Customers \cup {None}]
    /\ op \in [Calls -> OpState]
    /\ post \in [Calls -> PostState]

\* The request's route is in the table and nobody else may take it away.
Holding(c) == op[c].pc \in {"create", "rollback"} \/ op[c].code = 201

\* The request was given up, and its call to the unit may have been executed.
Abandoned(c) ==
    op[c].pc \in {"rollback", "done"} /\ op[c].code \in {0, 502} /\ post[c] \in {"flying", "handled"}

\* What a request knows between its statements.
CallOK(c) ==
    /\ op[c].pc # "done" => op[c].code = 0 /\ op[c].tries < MaxTries
    /\ op[c].pc # "idle" => op[c].cust \in Applicants
    /\ op[c].pc \in {"max", "insert"} \/ Holding(c) => op[c].unit \in segs
    /\ op[c].pc = "insert" \/ Holding(c) => op[c].num \in Numbers /\ UnitOf(op[c].num) = op[c].unit
    /\ post[c] # "none" => /\ op[c].pc \in {"create", "rollback", "done"}
                           /\ op[c].num \in Numbers \ DOMAIN Existing
                           /\ op[c].code \in {0, 201, 502}
    /\ Holding(c) => post[c] # "none" /\ route[op[c].num] = op[c].cust
    /\ post[c] = "handled" => owner[op[c].num] # None
    /\ op[c].code = 201 => post[c] = "handled"
    /\ Holding(c) /\ op[c].pc # "rollback" /\ post[c] = "handled" =>
          owner[op[c].num] = op[c].cust \/ GivenUp(op[c].num)

\* Two requests have neither a number nor a request id in common.
Apart(c, d) == op[c].num # op[d].num /\ ~(op[c].cust = op[d].cust /\ op[c].cust \in Keyed)

\* An account was there from the start, or a request had it created.
Origin == \A n \in Numbers : owner[n] # None =>
             n \in DOMAIN Existing \/ \E d \in Calls : post[d] = "handled" /\ op[d].num = n

NameInv ==
    /\ NameTypes
    /\ \A c \in Calls : CallOK(c)
    /\ \A c, d \in Calls : c # d /\ Holding(c) /\ Holding(d) => Apart(c, d)
    /\ Origin
    /\ \A n \in DOMAIN Existing : route[n] # None

Others(c) == \A d \in Calls : d # c => op'[d] = op[d] /\ post'[d] = post[d]

OwnerStays == \A n \in Numbers : owner[n] # None => owner'[n] = owner[n]

\* Who gave up stays so.
AbandonedStays(c) == Abandoned(c) => Abandoned(c)' /\ op'[c].num = op[c].num

\* GivenUp, with a name for what it says of a request.
LEMMA GivenUpBy == \A n : GivenUp(n) <=> \E d \in Calls : op[d].num = n /\ Abandoned(d)
BY DEF GivenUp, Abandoned

\* A number that was given up stays so.
LEMMA GivenUpStays ==
    ASSUME \A d \in Calls : AbandonedStays(d), NEW n, GivenUp(n)
    PROVE  GivenUp(n)'
<1>1. PICK d \in Calls : op[d].num = n /\ Abandoned(d)
  BY GivenUpBy
<1>2. op'[d].num = n /\ Abandoned(d)'
  BY <1>1 DEF AbandonedStays
<1> QED BY <1>2 DEF GivenUp, Abandoned

\* A request that does not move, while others do.
LEMMA CallFrame ==
    ASSUME NameTypes, NEW c \in Calls, CallOK(c), op'[c] = op[c], post'[c] = post[c],
           segs \subseteq segs', OwnerStays, \A d \in Calls : AbandonedStays(d),
           Holding(c) => route'[op[c].num] = route[op[c].num]
    PROVE  CallOK(c)'
<1>1. Holding(c)' <=> Holding(c)
  BY DEF Holding
<1>2. post[c] = "handled" => op[c].num \in Numbers /\ owner'[op[c].num] = owner[op[c].num]
  BY DEF CallOK, OwnerStays
<1>3. GivenUp(op[c].num) => GivenUp(op[c].num)'
  <2>1. PICK n : n = op[c].num /\ n = op'[c].num
    OBVIOUS
  <2>2. GivenUp(n) => GivenUp(n)'
    BY GivenUpStays
  <2> QED BY <2>1, <2>2 DEF GivenUp
<1> QED BY <1>1, <1>2, <1>3 DEF CallOK

\* A step of one request.
LEMMA CallStep ==
    ASSUME NameInv, NameTypes', NEW c \in Calls, Others(c), segs \subseteq segs', OwnerStays,
           AbandonedStays(c), CallOK(c)',
           \A d \in Calls : d # c /\ Holding(d) => route'[op[d].num] = route[op[d].num],
           \A d \in Calls : d # c /\ Holding(c)' /\ Holding(d) => Apart(c, d)',
           \A n \in Numbers : owner'[n] # None => owner[n] # None \/ (post'[c] = "handled" /\ op'[c].num = n),
           post[c] = "handled" => post'[c] = "handled" /\ op'[c].num = op[c].num,
           \A n \in DOMAIN Existing : route'[n] # None
    PROVE  NameInv'
<1>1. \A d \in Calls : AbandonedStays(d)
  <2> TAKE d \in Calls
  <2>1. CASE d # c
    BY <2>1 DEF Others, AbandonedStays, Abandoned
  <2> QED BY <2>1
<1>2. \A d \in Calls : CallOK(d)'
  <2> TAKE d \in Calls
  <2>1. CASE d # c
    <3>1. op'[d] = op[d] /\ post'[d] = post[d] /\ CallOK(d) /\ NameTypes
      BY <2>1 DEF Others, NameInv
    <3> QED BY <1>1, <2>1, <3>1, CallFrame
  <2> QED BY <2>1
<1>3. \A d \in Calls : d # c => (Holding(d)' <=> Holding(d))
  BY DEF Others, Holding
<1>4. ASSUME NEW d \in Calls, NEW e \in Calls, d # e, Holding(d)', Holding(e)'
      PROVE  Apart(d, e)'
  <2>1. CASE d = c
    BY <1>3, <1>4, <2>1
  <2>2. CASE e = c
    <3>1. Apart(c, d)'
      BY <1>3, <1>4, <2>2
    <3> QED BY <2>2, <3>1 DEF Apart
  <2>3. CASE d # c /\ e # c
    <3>1. Apart(d, e)
      BY <1>3, <1>4, <2>3 DEF NameInv
    <3> QED BY <2>3, <3>1 DEF Apart, Others
  <2> QED BY <2>1, <2>2, <2>3
<1>5. Origin'
  <2> SUFFICES ASSUME NEW n \in Numbers, owner'[n] # None, n \notin DOMAIN Existing
               PROVE  \E d \in Calls : post'[d] = "handled" /\ op'[d].num = n
    BY DEF Origin
  <2>1. CASE owner[n] # None
    <3>1. PICK d \in Calls : post[d] = "handled" /\ op[d].num = n
      BY <2>1 DEF NameInv, Origin
    <3>2. post'[d] = "handled" /\ op'[d].num = n
      BY <3>1 DEF Others
    <3> QED BY <3>2
  <2> QED BY <2>1
<1> QED BY <1>2, <1>4, <1>5 DEF NameInv

\* Steps in which requests neither move nor lose anything.
LEMMA NameStill ==
    ASSUME NameInv, UNCHANGED <<owner, route, op, post>>, segs \subseteq segs', segs' \subseteq Units,
           cached' \subseteq Numbers
    PROVE  NameInv'
<1>1. \A d \in Calls : AbandonedStays(d)
  BY DEF AbandonedStays, Abandoned
<1>2. \A d \in Calls : CallOK(d)'
  BY <1>1, CallFrame DEF NameInv, OwnerStays
<1>3. NameTypes'
  BY DEF NameInv, NameTypes
<1> QED BY <1>2, <1>3 DEF NameInv, Origin, Holding, Apart

\* Of the requests only one changes its record.
Moved(c) == op' \in [Calls -> OpState] /\ \A d \in Calls : d # c => op'[d] = op[d]

\* A step in which a request changes only its own record, and holds no more than before.
LEMMA OwnStep ==
    ASSUME NameInv, NEW c \in Calls, Moved(c),
           UNCHANGED <<owner, segs, route, post>>, cached' \subseteq Numbers,
           post[c] # "none" => op'[c].num = op[c].num /\ (op[c].pc # "create" => Abandoned(c)') /\ op[c].code # 201,
           op'[c].pc \in {"create", "rollback"} \/ op'[c].code = 201 =>
              Holding(c) /\ op'[c].num = op[c].num /\ op'[c].cust = op[c].cust,
           CallOK(c)'
    PROVE  NameInv'
<1>1. op' \in [Calls -> OpState] /\ \A d \in Calls : d # c => op'[d] = op[d]
  BY DEF Moved
<1>2. NameTypes'
  BY <1>1 DEF NameInv, NameTypes
<1>3. Others(c) /\ OwnerStays
  BY <1>1 DEF Others, OwnerStays
<1>4. AbandonedStays(c)
  BY <1>1 DEF AbandonedStays, Abandoned
<1>5. \A d \in Calls : d # c /\ Holding(c)' /\ Holding(d) => Apart(c, d)'
  <2> SUFFICES ASSUME NEW d \in Calls, d # c, Holding(c)', Holding(d)
               PROVE  Apart(c, d)'
    OBVIOUS
  <2>1. Holding(c) /\ op'[c].num = op[c].num /\ op'[c].cust = op[c].cust
    BY <1>1 DEF Holding
  <2>2. Apart(c, d)
    BY <2>1 DEF NameInv
  <2> QED BY <1>1, <2>1, <2>2 DEF Apart
<1> QED BY <1>1, <1>2, <1>3, <1>4, <1>5, CallStep DEF NameInv

\* A request arrives, and findByRequestID answers it or not.
LEMMA FindStep ==
    ASSUME NameInv, NEW c \in Calls, NEW q \in Applicants, Find(c, q)
    PROVE  NameInv'
<1>0. op[c].pc = "idle"
  BY DEF Find
<1>1. NameTypes /\ CallOK(c) /\ op[c] \in OpState /\ op[c].pc = "idle" /\ op[c].code = 0 /\ post[c] = "none"
  BY <1>0 DEF NameInv, NameTypes, CallOK
<1>2. q \in Customers
  BY OpeningAssumption
<1>3. CASE op' = [op EXCEPT ![c].cust = q, ![c].pc = "pick"]
  <2>1. Moved(c) /\ op'[c].pc = "pick" /\ op'[c].code = 0 /\ op'[c].cust = q
        /\ op'[c].tries = op[c].tries
    BY <1>1, <1>2, <1>3 DEF OpState, NameTypes, Moved
  <2>2. UNCHANGED <<owner, segs, route, post, cached>>
    BY DEF Find, ledger
  <2>3. CallOK(c)'
    BY <1>1, <2>1, <2>2 DEF CallOK, Holding
  <2>9. cached' \subseteq Numbers
    BY <1>1, <1>2, <2>2 DEF NameTypes
  <2> QED BY <1>1, <2>1, <2>2, <2>3, <2>9, OwnStep
<1>4. CASE \E n \in Found(q) :
             op' = [op EXCEPT ![c].cust = q, ![c].pc = "done", ![c].code = 200, ![c].num = n]
  <2>0. PICK n \in Found(q) :
             op' = [op EXCEPT ![c].cust = q, ![c].pc = "done", ![c].code = 200, ![c].num = n]
    BY <1>4
  <2>1. Moved(c) /\ op'[c].pc = "done" /\ op'[c].code = 200 /\ op'[c].cust = q
    BY <1>1, <1>2, <2>0 DEF OpState, NameTypes, Moved, Found
  <2>2. UNCHANGED <<owner, segs, route, post, cached>>
    BY DEF Find, ledger
  <2>3. CallOK(c)'
    BY <1>1, <2>1, <2>2 DEF CallOK, Holding
  <2>9. cached' \subseteq Numbers
    BY <1>1, <1>2, <2>2 DEF NameTypes
  <2> QED BY <1>1, <2>1, <2>2, <2>3, <2>9, OwnStep
<1> QED BY <1>3, <1>4 DEF Find

\* The request ends without having inserted a route.
LEMMA RefuseStep ==
    ASSUME NameInv, NEW c \in Calls, op[c].pc \in {"pick", "max", "insert"}, Moved(c),
           op'[c].pc = "done", op'[c].code = 503, op'[c].cust = op[c].cust,
           UNCHANGED <<owner, segs, route, post, cached>>
    PROVE  NameInv'
<1>1. NameTypes /\ CallOK(c) /\ post[c] = "none" 
  BY DEF NameInv, NameTypes, CallOK
<1>2. CallOK(c)'
  BY <1>1 DEF CallOK, Holding
<1>3. cached' \subseteq Numbers
  BY <1>1 DEF NameTypes
<1> QED BY <1>1, <1>2, <1>3, OwnStep

\* A request that goes on with a unit or a number.
LEMMA GoesOn ==
    /\ \A x \in OpState : \A u \in Units : [x EXCEPT !.pc = "max", !.unit = u] \in OpState
    /\ \A x \in OpState : \A n \in Numbers : [x EXCEPT !.pc = "insert", !.num = n] \in OpState
<1>1. \A x \in OpState : [x EXCEPT !.pc = "max"] \in OpState /\ [x EXCEPT !.pc = "insert"] \in OpState
  BY DEF OpState
<1>2. \A x \in OpState : \A u \in Units : [x EXCEPT !.unit = u] \in OpState
  BY DEF OpState
<1>3. \A x \in OpState : \A n \in Numbers : [x EXCEPT !.num = n] \in OpState
  BY DEF OpState
<1> QED BY <1>1, <1>2, <1>3

\* The choice of a segment.
LEMMA PickStep ==
    ASSUME NameInv, NEW c \in Calls, Pick(c)
    PROVE  NameInv'
<1>1. NameTypes /\ CallOK(c) /\ op[c] \in OpState /\ op[c].pc = "pick" /\ op[c].code = 0 /\ post[c] = "none"
  BY DEF NameInv, NameTypes, CallOK, Pick
<1>2. UNCHANGED <<owner, segs, route, post, cached>>
  BY DEF Pick, unitVars, ledger
<1>3. CASE Reply(c, 503)
  <2>1. Moved(c) /\ op'[c].pc = "done" /\ op'[c].code = 503 /\ op'[c].cust = op[c].cust
    BY <1>1, <1>3 DEF OpState, NameTypes, Moved, Reply
  <2> QED BY <1>1, <1>2, <2>1, RefuseStep
<1>4. CASE segs # {} /\ op' = [op EXCEPT ![c].pc = "max", ![c].unit = PickSegment(segs)]
  <2>1. PickSegment(segs) \in segs
    BY <1>1, <1>4, PickedSegment DEF NameTypes
  <2>0. PICK u \in segs : op' = [op EXCEPT ![c].pc = "max", ![c].unit = u]
    BY <1>4, <2>1
  <2>4. u \in Units
    BY <1>1 DEF NameTypes
  <2>2. /\ Moved(c) /\ op'[c].pc = "max" /\ op'[c].code = 0 /\ op'[c].cust = op[c].cust
        /\ op'[c].tries = op[c].tries /\ op'[c].unit = u
    <3>1. [op[c] EXCEPT !.pc = "max", !.unit = u] \in OpState
      BY <1>1, <2>4, GoesOn
    <3>2. op' \in [Calls -> OpState]
      BY <1>1, <2>0, <3>1 DEF NameTypes
    <3> QED BY <1>1, <2>0, <2>4, <3>2 DEF OpState, NameTypes, Moved
  <2>3. CallOK(c)'
    BY <1>1, <1>2, <2>2 DEF CallOK, Holding
  <2>9. cached' \subseteq Numbers
    BY <1>1, <1>2, <2>2 DEF NameTypes
  <2> QED BY <1>1, <1>2, <2>2, <2>3, <2>9, OwnStep
<1> QED BY <1>3, <1>4 DEF Pick

\* The number after the highest one is above the segment, or belongs to it.
LEMMA NextNumber ==
    ASSUME NEW u \in Units, NextAccountID(u) <= Seg[u].end
    PROVE  NextAccountID(u) \in Numbers /\ UnitOf(NextAccountID(u)) = u
<1>1. Seg[u].start \in Nat /\ Seg[u].end \in Nat
  BY SegmentAssumption
<1>2. NextAccountID(u) \in Seg[u].start + 1 .. Seg[u].end
  <2>1. CASE Routed(u) = {}
    BY <1>1, <2>1 DEF NextAccountID
  <2>2. CASE Routed(u) # {}
    <3>1. \A n \in Routed(u) : n \in Nat /\ n \in Seg[u].start + 1 .. Seg[u].end
      BY UnitFacts DEF Routed
    <3>2. Routed(u) \in SUBSET Nat /\ \A n \in Routed(u) : n <= Seg[u].end
      BY <1>1, <3>1
    <3>3. Max(Routed(u)) \in Routed(u)
      BY <1>1, <2>2, <3>2, MaxIn
    <3>4. NextAccountID(u) = Max(Routed(u)) + 1
      BY <2>2 DEF NextAccountID
    <3> HIDE DEF NextAccountID
    <3> QED BY <1>1, <3>1, <3>3, <3>4
  <2> QED BY <2>1, <2>2
<1> QED BY <1>2, UnitFacts

\* SELECT MAX(account_id).
LEMMA ReadMaxStep ==
    ASSUME NameInv, NEW c \in Calls, ReadMax(c)
    PROVE  NameInv'
<1>1. /\ NameTypes /\ CallOK(c) /\ op[c] \in OpState /\ op[c].pc = "max" /\ op[c].code = 0 /\ post[c] = "none"
      /\ op[c].unit \in segs /\ op[c].unit \in Units
  BY DEF NameInv, NameTypes, CallOK, ReadMax
<1>2. UNCHANGED <<owner, segs, route, post, cached>>
  BY DEF ReadMax, unitVars, ledger
<1>3. CASE Reply(c, 503)
  <2>1. Moved(c) /\ op'[c].pc = "done" /\ op'[c].code = 503 /\ op'[c].cust = op[c].cust
    BY <1>1, <1>3 DEF OpState, NameTypes, Moved, Reply
  <2> QED BY <1>1, <1>2, <2>1, RefuseStep
<1>4. CASE /\ NextAccountID(op[c].unit) <= Seg[op[c].unit].end
           /\ op' = [op EXCEPT ![c].pc = "insert", ![c].num = NextAccountID(op[c].unit)]
  <2>1. NextAccountID(op[c].unit) \in Numbers /\ UnitOf(NextAccountID(op[c].unit)) = op[c].unit
    BY <1>1, <1>4, NextNumber
  <2>0. PICK n \in Numbers : UnitOf(n) = op[c].unit /\ op' = [op EXCEPT ![c].pc = "insert", ![c].num = n]
    BY <1>4, <2>1
  <2>4. op' = [op EXCEPT ![c].pc = "insert", ![c].num = n]
    BY <2>0
  <2>2. /\ Moved(c) /\ op'[c].num = n /\ op'[c].pc = "insert" /\ op'[c].code = 0 /\ op'[c].cust = op[c].cust
        /\ op'[c].tries = op[c].tries /\ op'[c].unit = op[c].unit
    <3>1. [op[c] EXCEPT !.pc = "insert", !.num = n] \in OpState
      BY <1>1, GoesOn
    <3>2. op' \in [Calls -> OpState]
      BY <1>1, <2>4, <3>1 DEF NameTypes
    <3> QED BY <1>1, <2>4, <3>2 DEF OpState, NameTypes, Moved
  <2>3. CallOK(c)'
    BY <1>1, <1>2, <2>0, <2>2 DEF CallOK, Holding
  <2>9. cached' \subseteq Numbers
    BY <1>1, <1>2, <2>2 DEF NameTypes
  <2> QED BY <1>1, <1>2, <2>2, <2>3, <2>9, OwnStep
<1> QED BY <1>3, <1>4 DEF ReadMax

\* The insertion, or another attempt.
LEMMA InsertStep ==
    ASSUME NameInv, NEW c \in Calls, Insert(c)
    PROVE  NameInv'
<1>1. /\ NameTypes /\ CallOK(c) /\ op[c] \in OpState /\ op[c].pc = "insert" /\ op[c].code = 0 /\ post[c] = "none"
      /\ op[c].unit \in segs /\ op[c].num \in Numbers /\ UnitOf(op[c].num) = op[c].unit
      /\ op[c].tries < MaxTries /\ op[c].cust \in Applicants /\ op[c].cust \in Customers
  BY OpeningAssumption DEF NameInv, NameTypes, CallOK, Insert
<1>2. CASE TryAgain(c)
  <2>0. UNCHANGED <<owner, segs, route, post, cached>>
    BY <1>2 DEF TryAgain, unitVars, ledger
  <2>1. op[c].tries + 1 \in 0 .. MaxTries /\ (op[c].tries + 1 # MaxTries => op[c].tries + 1 < MaxTries)
    BY <1>1, OpeningAssumption DEF OpState
  <2>2. CASE op[c].tries + 1 = MaxTries
    <3>1. Moved(c) /\ op'[c].pc = "done" /\ op'[c].code = 503 /\ op'[c].cust = op[c].cust
      BY <1>1, <1>2, <2>1, <2>2 DEF OpState, NameTypes, Moved, TryAgain
    <3> QED BY <1>1, <2>0, <3>1, RefuseStep
  <2>3. CASE op[c].tries + 1 # MaxTries
    <3>1. /\ Moved(c) /\ op'[c].unit = op[c].unit
          /\ op'[c].pc = "max" /\ op'[c].code = 0 /\ op'[c].cust = op[c].cust /\ op'[c].tries = op[c].tries + 1
      BY <1>1, <1>2, <2>1, <2>3 DEF OpState, NameTypes, Moved, TryAgain
    <3>2. CallOK(c)'
      BY <1>1, <2>0, <2>1, <2>3, <3>1 DEF CallOK, Holding
    <3>3. cached' \subseteq Numbers
      BY <1>1, <2>0 DEF NameTypes
    <3> QED BY <1>1, <2>0, <3>1, <3>2, <3>3, OwnStep
  <2> QED BY <2>2, <2>3
<1>3. CASE route[op[c].num] = None /\ ~KeyTaken(op[c].cust) /\ InsertRoute(c)
  <2>0. UNCHANGED <<owner, segs, cached>>
    BY <1>3 DEF InsertRoute, unitVars, ledger
  <2>1. /\ op' \in [Calls -> OpState] /\ post' \in [Calls -> PostState]
        /\ route' \in [Numbers -> Customers \cup {None}]
        /\ op'[c].pc = "create" /\ op'[c].code = 0 /\ op'[c].num = op[c].num /\ op'[c].cust = op[c].cust
        /\ op'[c].unit = op[c].unit /\ op'[c].tries = op[c].tries /\ post'[c] = "flying"
        /\ route'[op[c].num] = op[c].cust
        /\ \A n \in Numbers : n # op[c].num => route'[n] = route[n]
    BY <1>1, <1>3 DEF InsertRoute, Goto, NameTypes, OpState, PostState
  <2>2. Others(c)
    BY <1>1, <1>3 DEF InsertRoute, Goto, NameTypes, Others
  <2>3. NameTypes' /\ OwnerStays /\ AbandonedStays(c)
    BY <1>1, <2>0, <2>1 DEF NameTypes, OwnerStays, AbandonedStays, Abandoned
  <2>4. op[c].num \notin DOMAIN Existing
    BY <1>3 DEF NameInv
  <2>5. CallOK(c)'
    BY <1>1, <2>0, <2>1, <2>4 DEF CallOK, Holding
  <2>6. ASSUME NEW d \in Calls, d # c, Holding(d)
        PROVE  op[d].num # op[c].num /\ ~(op[c].cust = op[d].cust /\ op[c].cust \in Keyed) /\ op[d].num \in Numbers
    <3>1. op[d].num \in Numbers /\ route[op[d].num] = op[d].cust /\ op[d].cust \in Customers
      BY <2>6, OpeningAssumption DEF NameInv, CallOK, Holding
    <3>2. None \notin Customers
      BY SegmentAssumption
    <3>3. Found(op[c].cust) = {}
      BY <1>3 DEF KeyTaken
    <3> QED BY <1>3, <3>1, <3>2, <3>3 DEF Found
  <2>7. \A d \in Calls : d # c /\ Holding(c)' /\ Holding(d) => Apart(c, d)'
    BY <2>1, <2>2, <2>6 DEF Apart, Others
  <2>8. \A d \in Calls : d # c /\ Holding(d) => route'[op[d].num] = route[op[d].num]
    BY <2>1, <2>6
  <2>9. \A n \in DOMAIN Existing : route'[n] # None
    BY <2>1, <2>4, ServicesAssumption DEF NameInv
  <2> QED BY <1>1, <2>0, <2>2, <2>3, <2>5, <2>7, <2>8, <2>9, CallStep
<1> QED BY <1>2, <1>3 DEF Insert

\* The unit creates the account, or has it already.
LEMMA CreateStep ==
    ASSUME NameInv, NEW c \in Calls, handleCreateAccount(c)
    PROVE  NameInv'
<1>1. /\ NameTypes /\ CallOK(c) /\ op[c] \in OpState /\ post[c] = "flying"
      /\ op[c].num \in Numbers \ DOMAIN Existing /\ op[c].cust \in Customers
      /\ op[c].pc \in {"create", "rollback", "done"} /\ op[c].code \in {0, 502}
  BY OpeningAssumption DEF NameInv, NameTypes, CallOK, handleCreateAccount
<1>2. UNCHANGED <<segs, route, cached, op>>
  BY DEF handleCreateAccount
<1>3. post' \in [Calls -> PostState] /\ post'[c] = "handled" /\ \A d \in Calls : d # c => post'[d] = post[d]
  BY <1>1 DEF handleCreateAccount, NameTypes, PostState
<1>4. None \notin Customers
  BY SegmentAssumption
<1>5. /\ owner' \in [Numbers -> Customers \cup {None}] /\ OwnerStays /\ owner'[op[c].num] # None
      /\ \A n \in Numbers : n # op[c].num => owner'[n] = owner[n]
      /\ owner[op[c].num] = None => owner'[op[c].num] = op[c].cust
  <2>1. CASE owner[op[c].num] # None /\ UNCHANGED unitVars
    BY <1>1, <2>1 DEF unitVars, ledger, OwnerStays, NameTypes
  <2>2. CASE owner[op[c].num] = None /\ owner' = [owner EXCEPT ![op[c].num] = op[c].cust]
    BY <1>1, <1>4, <2>2 DEF OwnerStays, NameTypes
  <2> QED BY <2>1, <2>2 DEF handleCreateAccount
<1>6. NameTypes' /\ Others(c) /\ AbandonedStays(c)
  BY <1>1, <1>2, <1>3, <1>5 DEF NameTypes, Others, AbandonedStays, Abandoned
<1>7. ASSUME Holding(c), owner[op[c].num] # None
      PROVE  GivenUp(op[c].num)'
  <2>1. PICK d \in Calls : post[d] = "handled" /\ op[d].num = op[c].num
    BY <1>1, <1>7 DEF NameInv, Origin
  <2>2. ~Holding(d)
    BY <1>1, <1>7, <2>1 DEF NameInv, Apart
  <2>3. op[d].pc = "done" /\ op[d].code \in {0, 502}
    BY <2>1, <2>2 DEF NameInv, CallOK, Holding
  <2>4. op'[d].num = op'[c].num /\ op'[d].pc = "done" /\ op'[d].code \in {0, 502} /\ post'[d] = "handled"
    BY <1>1, <1>2, <1>3, <2>1, <2>3
  <2> QED BY <2>4 DEF GivenUp
<1>8. CallOK(c)'
  BY <1>1, <1>2, <1>3, <1>5, <1>7 DEF CallOK, Holding
<1>9. \A d \in Calls : d # c /\ Holding(c)' /\ Holding(d) => Apart(c, d)'
  BY <1>2 DEF NameInv, Apart, Holding
<1>10. \A n \in Numbers : owner'[n] # None => owner[n] # None \/ (post'[c] = "handled" /\ op'[c].num = n)
  BY <1>2, <1>3, <1>5
<1>11. \A n \in DOMAIN Existing : route'[n] # None
  BY <1>2 DEF NameInv
<1> QED BY <1>1, <1>2, <1>3, <1>5, <1>6, <1>8, <1>9, <1>10, <1>11, CallStep

\* The unit has answered: 201.
LEMMA CreatedStep ==
    ASSUME NameInv, NEW c \in Calls, Created(c)
    PROVE  NameInv'
<1>1. /\ NameTypes /\ CallOK(c) /\ op[c] \in OpState /\ op[c].pc = "create" /\ op[c].code = 0
      /\ post[c] = "handled" /\ Holding(c) /\ op[c].num \in Numbers
  BY DEF NameInv, NameTypes, CallOK, Holding, Created
<1>2. UNCHANGED <<owner, segs, route, post>> /\ cached' \subseteq Numbers
  BY <1>1 DEF Created, unitVars, ledger, NameTypes
<1>3. /\ Moved(c) /\ op'[c].pc = "done" /\ op'[c].code = 201 /\ op'[c].num = op[c].num
      /\ op'[c].cust = op[c].cust /\ op'[c].unit = op[c].unit
  BY <1>1 DEF Created, Reply, NameTypes, OpState, Moved
<1>4. \A d \in Calls : AbandonedStays(d)
  BY <1>1, <1>2, <1>3 DEF Moved, AbandonedStays, Abandoned
<1>5. GivenUp(op[c].num) => GivenUp(op[c].num)'
  <2>1. PICK n : n = op[c].num /\ n = op'[c].num
    BY <1>3
  <2>2. GivenUp(n) => GivenUp(n)'
    BY <1>4, GivenUpStays
  <2> QED BY <2>1, <2>2 DEF GivenUp
<1>6. CallOK(c)'
  BY <1>1, <1>2, <1>3, <1>5 DEF CallOK, Holding
<1> QED BY <1>1, <1>2, <1>3, <1>6, OwnStep

\* The call to the unit failed, or its answer is lost.
LEMMA CreateFailsStep ==
    ASSUME NameInv, NEW c \in Calls, CreateFails(c)
    PROVE  NameInv'
<1>1. /\ NameTypes /\ CallOK(c) /\ op[c] \in OpState /\ op[c].pc = "create" /\ op[c].code = 0 /\ Holding(c)
      /\ post[c] # "none"
  BY DEF NameInv, NameTypes, CallOK, Holding, CreateFails
<1>2. UNCHANGED <<owner, segs, route, cached>>
  BY DEF CreateFails, ledger
<1>3. /\ Moved(c) /\ op'[c].pc = "rollback" /\ op'[c].code = 0 /\ op'[c].num = op[c].num
      /\ op'[c].cust = op[c].cust /\ op'[c].unit = op[c].unit /\ op'[c].tries = op[c].tries
  BY <1>1 DEF CreateFails, Goto, NameTypes, OpState, Moved
<1>4. /\ post' \in [Calls -> PostState] /\ \A d \in Calls : d # c => post'[d] = post[d]
      /\ post'[c] # "none" /\ (post'[c] = "handled" <=> post[c] = "handled")
  BY <1>1 DEF CreateFails, NameTypes, PostState
<1>5. NameTypes' /\ Others(c) /\ AbandonedStays(c) /\ OwnerStays
  BY <1>1, <1>2, <1>3, <1>4 DEF NameTypes, Moved, Others, AbandonedStays, Abandoned, OwnerStays
<1>6. CallOK(c)'
  BY <1>1, <1>2, <1>3, <1>4 DEF CallOK, Holding
<1>7. \A d \in Calls : d # c /\ Holding(d) => Apart(c, d)'
  BY <1>1, <1>3 DEF NameInv, Apart, Moved
<1>8. \A n \in DOMAIN Existing : route'[n] # None
  BY <1>2 DEF NameInv
<1> QED BY <1>1, <1>2, <1>3, <1>4, <1>5, <1>6, <1>7, <1>8, CallStep

\* The route is deleted, or stays.
LEMMA RollbackStep ==
    ASSUME NameInv, NEW c \in Calls, Rollback(c)
    PROVE  NameInv'
<1>1. /\ NameTypes /\ CallOK(c) /\ op[c] \in OpState /\ op[c].pc = "rollback" /\ op[c].code = 0 /\ Holding(c)
      /\ post[c] # "none" /\ op[c].num \in Numbers \ DOMAIN Existing
  BY DEF NameInv, NameTypes, CallOK, Holding, Rollback
<1>2. UNCHANGED <<owner, segs, post, cached>>
  BY DEF Rollback, ledger
<1>3. /\ Moved(c) /\ op'[c].pc = "done" /\ op'[c].code = 502 /\ op'[c].num = op[c].num
      /\ op'[c].cust = op[c].cust /\ op'[c].unit = op[c].unit
  BY <1>1 DEF Rollback, Reply, NameTypes, OpState, Moved
<1>4. /\ route' \in [Numbers -> Customers \cup {None}]
      /\ \A n \in Numbers : n # op[c].num => route'[n] = route[n]
  BY <1>1 DEF Rollback, NameTypes
<1>5. NameTypes' /\ Others(c) /\ AbandonedStays(c) /\ OwnerStays
  BY <1>1, <1>2, <1>3, <1>4 DEF NameTypes, Moved, Others, AbandonedStays, Abandoned, OwnerStays
<1>6. CallOK(c)' /\ ~Holding(c)'
  BY <1>1, <1>2, <1>3 DEF CallOK, Holding
<1>7. \A d \in Calls : d # c /\ Holding(d) => route'[op[d].num] = route[op[d].num]
  <2> SUFFICES ASSUME NEW d \in Calls, d # c, Holding(d)
               PROVE  route'[op[d].num] = route[op[d].num]
    OBVIOUS
  <2>1. op[d].num # op[c].num /\ op[d].num \in Numbers
    BY <1>1 DEF NameInv, Apart, CallOK
  <2> QED BY <1>4, <2>1
<1>8. \A n \in DOMAIN Existing : route'[n] # None
  BY <1>1, <1>4, ServicesAssumption DEF NameInv
<1> QED BY <1>1, <1>2, <1>3, <1>5, <1>6, <1>7, <1>8, CallStep

\* The handlers die.
LEMMA GnsCrashStep ==
    ASSUME NameInv, GnsCrash
    PROVE  NameInv'
<1>1. UNCHANGED <<owner, segs, route, cached, post>>
  BY DEF GnsCrash, ledger
<1>2. ASSUME NEW c \in Calls
      PROVE  /\ op'[c] \in OpState /\ op'[c].code = op[c].code /\ op'[c].num = op[c].num
             /\ op'[c].cust = op[c].cust /\ op'[c].unit = op[c].unit
             /\ op[c].pc \in {"idle", "done"} => op'[c] = op[c]
             /\ op[c].pc \notin {"idle", "done"} => op'[c].pc = "done"
  <2>1. op[c] \in OpState
    BY DEF NameInv, NameTypes
  <2> QED BY <2>1 DEF GnsCrash, OpState
<1>3. NameTypes'
  <2>1. op' \in [Calls -> OpState]
    BY <1>2 DEF GnsCrash
  <2> QED BY <1>1, <2>1 DEF NameInv, NameTypes
<1>4. \A c \in Calls : AbandonedStays(c)
  BY <1>1, <1>2 DEF NameInv, CallOK, AbandonedStays, Abandoned
<1>5. \A c \in Calls : Holding(c)' => Holding(c)
  BY <1>2 DEF Holding
<1>6. ASSUME NEW c \in Calls PROVE CallOK(c)'
  <2>0. CallOK(c) /\ NameTypes
    BY DEF NameInv
  <2>1. CASE op[c].pc \in {"idle", "done"}
    <3>1. op'[c] = op[c] /\ post'[c] = post[c]
      BY <1>1, <1>2, <2>1
    <3> QED BY <1>1, <1>4, <2>0, <3>1, CallFrame DEF OwnerStays
  <2>2. CASE op[c].pc \notin {"idle", "done"}
    <3>1. op'[c].pc = "done" /\ op'[c].code = 0
      BY <1>2, <2>0, <2>2 DEF CallOK
    <3> QED BY <1>1, <1>2, <2>0, <2>2, <3>1 DEF CallOK, Holding
  <2> QED BY <2>1, <2>2
<1>7. \A c, d \in Calls : c # d /\ Holding(c)' /\ Holding(d)' => Apart(c, d)'
  BY <1>2, <1>5 DEF NameInv, Apart
<1>8. Origin'
  BY <1>1, <1>2 DEF NameInv, Origin
<1> QED BY <1>1, <1>3, <1>6, <1>7, <1>8 DEF NameInv

\* The other steps do not touch the requests.
LEMMA NameInvStep ==
    ASSUME NameInv, [Next]_vars
    PROVE  NameInv'
<1>1. CASE NameServiceNext
  <2>1. ASSUME NEW c \in Calls, OpenAccount(c) PROVE NameInv'
    BY <2>1, FindStep, PickStep, ReadMaxStep, InsertStep, CreateStep, CreatedStep, CreateFailsStep, RollbackStep
       DEF OpenAccount
  <2>2. ASSUME NEW n \in Numbers, Locate(n) \/ CacheExpires(n) PROVE NameInv'
    <3>1. UNCHANGED <<owner, route, op, post, segs>>
      BY <2>2 DEF Locate, CacheExpires, ledger
    <3>2. cached' \subseteq Numbers /\ segs' \subseteq Units
      BY <2>2, <3>1 DEF Locate, CacheExpires, NameInv, NameTypes
    <3> QED BY <3>1, <3>2, NameStill
  <2>3. ASSUME NEW u \in Units, handleAddRoute(u) PROVE NameInv'
    <3>1. UNCHANGED <<owner, route, op, post, cached>>
      BY <2>3 DEF handleAddRoute, unitVars, ledger
    <3>2. cached' \subseteq Numbers /\ segs' \subseteq Units /\ segs \subseteq segs'
      BY <2>3, <3>1 DEF handleAddRoute, NameInv, NameTypes
    <3> QED BY <3>1, <3>2, NameStill
  <2> QED BY <1>1, <2>1, <2>2, <2>3, GnsCrashStep DEF NameServiceNext
<1>2. ASSUME UNCHANGED owner, UNCHANGED gnsVars PROVE NameInv'
  <2>1. UNCHANGED <<owner, route, op, post, segs, cached>>
    BY <1>2 DEF gnsVars
  <2>2. cached' \subseteq Numbers /\ segs' \subseteq Units
    BY <2>1 DEF NameInv, NameTypes
  <2> QED BY <2>1, <2>2, NameStill
<1>3. CASE InterestNext(segs) /\ UNCHANGED gnsVars
  <2>1. ASSUME NEW r \in Runs, ReadJob(r) \/ RunStep(r, segs) PROVE UNCHANGED owner
    BY <2>1 DEF RunStep, ReadJob, InsertJob, UpdateJob, FetchActiveRoutes, UnitResult, SaveRow, RowRefused,
       AllSaved, finishJob, unitVars, ledger
  <2>2. ASSUME NEW r \in Runs, NEW u \in Units, UnitStep(r, u) \/ UnitFails(r, u) PROVE UNCHANGED owner
    BY <2>2 DEF UnitStep, ListAccounts, PostInterest, UnitFails, unitVars, ledger
  <2>3. CASE JobAges \/ SchedulerCrash
    BY <1>2, <1>3, <2>3 DEF JobAges, SchedulerCrash, unitVars, ledger
  <2> QED BY <1>2, <1>3, <2>1, <2>2, <2>3 DEF InterestNext
<1>4. CASE \E e \in events : handleEvent(e) /\ UNCHANGED <<gnsVars, batchVars>>
  <2>1. UNCHANGED owner
    BY <1>4 DEF handleEvent, ledger
  <2> QED BY <1>2, <1>4, <2>1
<1>5. ASSUME NEW from \in Numbers, NEW to \in Numbers, Transfer(from, to) PROVE NameInv'
  <2>1. UNCHANGED <<owner, route, op, post, segs>>
    BY <1>5 DEF Transfer, localTransfer
  <2>2. cached' \subseteq Numbers /\ segs' \subseteq Units
    BY <1>5, <2>1 DEF Transfer, NameInv, NameTypes
  <2> QED BY <2>1, <2>2, NameStill
<1>6. CASE UNCHANGED vars
  BY <1>2, <1>6 DEF vars, unitVars, ledger
<1> QED BY <1>1, <1>3, <1>4, <1>5, <1>6 DEF Next

\* At the start the seed's accounts are open and routed.
LEMMA NameInvInit == Init => NameInv
<1> SUFFICES ASSUME Init PROVE NameInv
  OBVIOUS
<1>1. NameTypes
  <2>1. NoOp \in OpState
    BY OpeningAssumption DEF NoOp, OpState
  <2> QED BY <2>1, ServicesAssumption DEF Init, NameTypes, PostState
<1>2. \A c \in Calls : op[c] = NoOp /\ post[c] = "none"
  BY DEF Init
<1>3. \A c \in Calls : CallOK(c) /\ ~Holding(c)
  BY <1>2, OpeningAssumption DEF CallOK, Holding, NoOp
<1>4. Origin /\ \A n \in DOMAIN Existing : route[n] # None
  BY ServicesAssumption, SegmentAssumption DEF Init, Origin
<1> QED BY <1>1, <1>3, <1>4 DEF NameInv

\* What holds of the requests and the routes in every state.
LEMMA NameInvariant == Spec => []NameInv
BY NameInvInit, NameInvStep, PTL DEF Spec

\* A customer who was told that the account is open keeps the number, its route, its unit and the account, and
\* shares neither the number nor the request id with another 201 (handleOpenAccount, findByRequestID, allocate).
THEOREM OpenedStaysTheorem == Spec => []OpenedStays
<1>1. NameInv => OpenedStays
  <2> SUFFICES ASSUME NameInv, NEW c \in Opened
               PROVE  /\ route[op[c].num] = op[c].cust
                      /\ owner[op[c].num] # None
                      /\ UnitOf(op[c].num) = op[c].unit /\ op[c].unit \in segs
                      /\ \A d \in Opened \ {c} :
                            /\ op[c].num # op[d].num
                            /\ ~(op[c].cust = op[d].cust /\ op[c].cust \in Keyed)
    BY DEF OpenedStays
  <2>1. c \in Calls /\ CallOK(c) /\ Holding(c) /\ op[c].code = 201
    BY DEF NameInv, Opened, Holding
  <2>2. \A d \in Opened \ {c} : Apart(c, d)
    BY <2>1 DEF NameInv, Opened, Holding
  <2> QED BY <2>1, <2>2 DEF CallOK, Apart
<1> QED BY <1>1, NameInvariant, PTL

\* The account behind a 201 is the one the request asked for, unless an earlier creation under the number was
\* given up while its call may have been executed (handleOpenAccount, handleCreateAccount).
THEOREM OpenedOwnedTheorem == Spec => []OpenedOwned
<1>1. NameInv => OpenedOwned
  <2> SUFFICES ASSUME NameInv, NEW c \in Opened
               PROVE  owner[op[c].num] = op[c].cust \/ GivenUp(op[c].num)
    BY DEF OpenedOwned
  <2>1. c \in Calls /\ CallOK(c) /\ Holding(c) /\ op[c].code = 201 /\ post[c] = "handled" /\ op[c].pc = "done"
    BY DEF NameInv, Opened, Holding, CallOK
  <2> QED BY <2>1 DEF CallOK
<1> QED BY <1>1, NameInvariant, PTL

---------------------------------------------------------------------------
(* The interest of the day *)

\* What is posted: half of a unit of money or less is nothing.
LEMMA RoundPositive ==
    ASSUME NEW a \in Nat, NEW b \in Nat \ {0}
    PROVE  RoundBank(a, b) \in Nat /\ (RoundBank(a, b) > 0 <=> 2 * a > b)
<1> DEFINE q == a \div b
           m == a % b
<1>1. q \in Nat /\ m \in Nat /\ m < b /\ a = b * q + m
  OBVIOUS
<1>2. RoundBank(a, b) = IF 2 * m > b \/ (2 * m = b /\ q % 2 = 1) THEN q + 1 ELSE q
  BY DEF RoundBank
<1> HIDE DEF q, m
<1>3. CASE q = 0
  <2>1. a = m /\ q % 2 = 0
    BY <1>1, <1>3
  <2> QED BY <1>1, <1>2, <1>3, <2>1
<1>4. CASE q > 0
  <2>1. b * q >= b
    BY <1>1, <1>4
  <2>2. 2 * a > b
    BY <1>1, <2>1
  <2>3. RoundBank(a, b) = q + 1 \/ RoundBank(a, b) = q
    BY <1>2
  <2> QED BY <1>1, <1>4, <2>2, <2>3
<1> QED BY <1>1, <1>3, <1>4

\* Interest is due on every balance above one on which it is due.
LEMMA InterestGrows ==
    /\ \A a \in Nat : InterestFor(a) \in Nat
    /\ \A a, b \in Nat : a <= b /\ InterestFor(a) > 0 => InterestFor(b) > 0
<1>1. RateNum \in Nat /\ RateDen \in Nat \ {0}
  BY SegmentAssumption
<1>2. \A a \in Nat : a * RateNum \in Nat
  BY <1>1
<1>3. \A a \in Nat : InterestFor(a) \in Nat /\ (InterestFor(a) > 0 <=> 2 * (a * RateNum) > RateDen)
  BY <1>1, <1>2, RoundPositive DEF InterestFor
<1>4. \A a, b \in Nat : a <= b => a * RateNum <= b * RateNum
  BY <1>1
<1>5. \A x, y \in Nat : x <= y /\ 2 * x > RateDen => 2 * y > RateDen
  BY <1>1
<1> QED BY <1>2, <1>3, <1>4, <1>5

RunState == [pc : {"idle", "insert", "update", "routes", "wait", "finish"},
             res : [Units -> {"off", "wait", "ok", "fail"}], unsaved : SUBSET Units,
             status : {"SUCCEEDED", "FAILED"}, total : Nat]

WorkState == [pc : {"none", "list", "post", "done", "dead"}, todo : SUBSET (Numbers \X Nat), total : Nat]

BatchTypes ==
    /\ balance \in [Numbers -> Nat] /\ interest \in [Numbers -> Nat]
    /\ job \in [status : {"none", "RUNNING", "SUCCEEDED", "FAILED"}, stale : BOOLEAN, total : Nat]
    /\ unitRow \in [Units -> Nat]
    /\ run \in [Runs -> RunState]
    /\ work \in [Runs -> [Units -> WorkState]]
    /\ due \subseteq Numbers /\ starts \in Nat /\ cut \in BOOLEAN

\* Whoever had interest due in the unit has got it.
Paid(u) == \A n \in due : UnitOf(n) = u => interest[n] > 0

\* A run that waits has asked every unit with interest due.
RunOK(r) ==
    /\ run[r].pc \in {"update", "routes", "wait", "finish"} => job.status # "none"
    /\ run[r].pc = "wait" => \A u \in Units :
          /\ run[r].res[u] = "wait" => u \in run[r].unsaved
          /\ run[r].res[u] \in {"ok", "off"} => Paid(u)
    /\ run[r].status = "SUCCEEDED" => run[r].pc = "finish" /\ \A u \in Units : Paid(u)

WorkOK(r, u) ==
    /\ work[r][u].pc # "none" => job.status # "none"
    /\ \A e \in work[r][u].todo : owner[e[1]] # None /\ e[2] > 0 /\ UnitOf(e[1]) = u
    /\ work[r][u].pc = "post" =>
          \A n \in due : UnitOf(n) = u => interest[n] > 0 \/ \E e \in work[r][u].todo : e[1] = n

DueOK == \A n \in due : owner[n] # None /\ InterestFor(balance[n]) > 0 /\ UnitOf(n) \in segs

BatchInv ==
    /\ BatchTypes
    /\ \A r \in Runs : RunOK(r)
    /\ \A r \in Runs, u \in Units : WorkOK(r, u)
    /\ DueOK
    /\ job.status = "none" => due = {}
    /\ job.status = "SUCCEEDED" => \A u \in Units : Paid(u)

\* What no step takes back, except that a transfer may end an account's claim.
Kept ==
    /\ \A n \in Numbers : owner[n] # None => owner'[n] # None
    /\ \A n \in Numbers : interest[n] > 0 => interest'[n] > 0
    /\ segs \subseteq segs' /\ due' \subseteq due
    /\ job.status # "none" => job'.status # "none"

\* A unit that has paid has done so for good.
LEMMA PaidStays ==
    ASSUME BatchTypes, Kept, NEW u \in Units, Paid(u)
    PROVE  Paid(u)'
BY DEF BatchTypes, Kept, Paid

\* A run that does not move.
LEMMA RunFrame ==
    ASSUME BatchTypes, Kept, NEW r \in Runs, RunOK(r), run'[r] = run[r]
    PROVE  RunOK(r)'
<1>1. \A u \in Units : Paid(u) => Paid(u)'
  BY PaidStays
<1> QED BY <1>1 DEF RunOK, Kept

\* A call to a unit that does not move.
LEMMA WorkFrame ==
    ASSUME BatchTypes, Kept, NEW r \in Runs, NEW u \in Units, WorkOK(r, u), work'[r][u] = work[r][u]
    PROVE  WorkOK(r, u)'
<1>1. \A e \in work[r][u].todo : e[1] \in Numbers
  BY DEF BatchTypes, WorkState
<1>2. \A n \in due' : n \in due /\ n \in Numbers
  BY DEF BatchTypes, Kept
<1> QED BY <1>1, <1>2 DEF WorkOK, Kept

\* A step, by what it changes.
LEMMA BatchStep ==
    ASSUME BatchInv, BatchTypes', Kept, \A n \in due' : InterestFor(balance'[n]) > 0,
           \A r \in Runs : run'[r] = run[r] \/ RunOK(r)',
           \A r \in Runs : \A u \in Units : work'[r][u] = work[r][u] \/ WorkOK(r, u)',
           job'.status = "SUCCEEDED" => job.status = "SUCCEEDED" \/ \A u \in Units : Paid(u)
    PROVE  BatchInv'
<1>1. \A r \in Runs : RunOK(r)'
  BY RunFrame DEF BatchInv
<1>2. \A r \in Runs : \A u \in Units : WorkOK(r, u)'
  BY WorkFrame DEF BatchInv
<1>3. DueOK'
  <2>1. \A n \in due' : n \in due /\ n \in Numbers
    BY DEF BatchInv, BatchTypes, Kept
  <2> QED BY <2>1 DEF BatchInv, DueOK, Kept
<1>4. job'.status = "none" => due' = {}
  BY DEF BatchInv, Kept
<1>5. job'.status = "SUCCEEDED" => \A u \in Units : Paid(u)'
  <2>1. \A u \in Units : Paid(u) => Paid(u)'
    BY PaidStays DEF BatchInv
  <2> QED BY <2>1 DEF BatchInv
<1> QED BY <1>1, <1>2, <1>3, <1>4, <1>5 DEF BatchInv

\* Steps of the name service, of ADM and of accounts.
LEMMA BatchStill ==
    ASSUME BatchInv, UNCHANGED <<job, unitRow, run, work, starts, cut>>, due' \subseteq due,
           balance' \in [Numbers -> Nat], interest' \in [Numbers -> Nat],
           \A n \in Numbers : owner[n] # None => owner'[n] # None,
           \A n \in Numbers : interest[n] > 0 => interest'[n] > 0,
           segs \subseteq segs', \A n \in due' : InterestFor(balance'[n]) > 0
    PROVE  BatchInv'
<1>1. BatchTypes'
  BY DEF BatchInv, BatchTypes
<1>2. Kept
  BY DEF Kept
<1> QED BY <1>1, <1>2, BatchStep DEF BatchInv

\* Steps of the scheduler.
LEMMA BatchSame ==
    ASSUME BatchInv, BatchTypes', UNCHANGED <<owner, balance, interest, segs, due>>,
           \A r \in Runs : run'[r] = run[r] \/ RunOK(r)',
           \A r \in Runs : \A u \in Units : work'[r][u] = work[r][u] \/ WorkOK(r, u)',
           job.status # "none" => job'.status # "none",
           job'.status = "SUCCEEDED" => job.status = "SUCCEEDED" \/ \A u \in Units : Paid(u)
    PROVE  BatchInv'
<1>1. Kept
  BY DEF Kept
<1>2. \A n \in due' : InterestFor(balance'[n]) > 0
  BY DEF BatchInv, DueOK
<1> QED BY <1>1, <1>2, BatchStep

\* The empty records of a run and of a call.
LEMMA EmptyRecords ==
    /\ NoRun \in RunState /\ NoWork \in WorkState
    /\ NoRun.pc = "idle" /\ NoRun.status = "FAILED"
    /\ NoWork.pc = "none" /\ NoWork.todo = {}
BY DEF NoRun, NoWork, RunState, WorkState

\* The request that reads the job.
LEMMA ReadJobStep ==
    ASSUME BatchInv, NEW r \in Runs, ReadJob(r), UNCHANGED gnsVars
    PROVE  BatchInv'
<1>1. UNCHANGED <<owner, balance, interest, segs, due, job, unitRow, starts, cut>>
  BY DEF ReadJob, gnsVars, ledger, history
<1>2. PICK pc \in {"insert", "update"} :
         run' = [run EXCEPT ![r] = [NoRun EXCEPT !.pc = pc]] /\ (pc = "update" => Rerunnable(job))
  BY DEF ReadJob
<1>3. [NoRun EXCEPT !.pc = pc] \in RunState
  BY EmptyRecords DEF RunState
<1>4. run' \in [Runs -> RunState] /\ run'[r].pc = pc /\ run'[r].status = "FAILED"
      /\ \A q \in Runs : q # r => run'[q] = run[q]
  BY <1>2, <1>3, EmptyRecords DEF BatchInv, BatchTypes, NoRun
<1>5. /\ work' \in [Runs -> [Units -> WorkState]] /\ \A u \in Units : work'[r][u] = NoWork
      /\ \A q \in Runs : q # r => work'[q] = work[q]
  BY EmptyRecords DEF ReadJob, BatchInv, BatchTypes
<1>6. BatchTypes'
  BY <1>1, <1>4, <1>5 DEF BatchInv, BatchTypes
<1>7. RunOK(r)'
  BY <1>1, <1>2, <1>4 DEF RunOK, Rerunnable
<1>8. \A u \in Units : WorkOK(r, u)'
  BY <1>5, EmptyRecords DEF WorkOK
<1> QED BY <1>1, <1>4, <1>5, <1>6, <1>7, <1>8, BatchSame

\* The job is registered, with what is due now.
LEMMA InsertJobStep ==
    ASSUME BatchInv, NameTypes, NEW r \in Runs, InsertJob(r, segs), UNCHANGED gnsVars
    PROVE  BatchInv'
<1>1. UNCHANGED <<owner, balance, interest, segs, unitRow, work, cut>> /\ run[r].pc = "insert" /\ run[r] \in RunState
  BY DEF InsertJob, gnsVars, unitVars, ledger, BatchInv, BatchTypes
<1>2. CASE job.status # "none" /\ run' = [run EXCEPT ![r] = NoRun] /\ UNCHANGED <<job, due, starts>>
  <2>1. run' \in [Runs -> RunState] /\ run'[r] = NoRun /\ \A q \in Runs : q # r => run'[q] = run[q]
    BY <1>2, EmptyRecords DEF BatchInv, BatchTypes
  <2>2. BatchTypes'
    BY <1>1, <1>2, <2>1 DEF BatchInv, BatchTypes
  <2>3. RunOK(r)'
    BY <2>1, EmptyRecords DEF RunOK
  <2> QED BY <1>1, <1>2, <2>1, <2>2, <2>3, BatchSame
<1>3. CASE /\ job.status = "none"
           /\ job' = [job EXCEPT !.status = "RUNNING"]
           /\ run' = [run EXCEPT ![r].pc = "routes"]
           /\ due' = UNION {Earning(u) : u \in segs}
           /\ starts' = 1
  <2>1. /\ run' \in [Runs -> RunState] /\ run'[r].pc = "routes" /\ run'[r].status = run[r].status
        /\ \A q \in Runs : q # r => run'[q] = run[q]
    BY <1>1, <1>3 DEF BatchInv, BatchTypes, RunState
  <2>2. \A n \in due' : n \in Numbers /\ owner[n] # None /\ InterestFor(balance[n]) > 0 /\ UnitOf(n) \in segs
    BY <1>3 DEF Earning
  <2>3. BatchTypes' /\ job'.status = "RUNNING"
    BY <1>1, <1>3, <2>1, <2>2 DEF BatchInv, BatchTypes
  <2>4. \A q \in Runs : run[q].pc \in {"idle", "insert"} /\ run[q].status # "SUCCEEDED"
    BY <1>3 DEF BatchInv, RunOK, BatchTypes, RunState
  <2>5. \A q \in Runs : RunOK(q)'
    BY <2>1, <2>3, <2>4 DEF RunOK
  <2>6. \A q \in Runs : \A u \in Units : WorkOK(q, u)'
    BY <1>1, <1>3, <2>3 DEF BatchInv, WorkOK
  <2>7. DueOK'
    BY <1>1, <2>2 DEF DueOK
  <2> QED BY <2>3, <2>5, <2>6, <2>7 DEF BatchInv
<1> QED BY <1>2, <1>3 DEF InsertJob

\* The failed or overdue job is started again.
LEMMA UpdateJobStep ==
    ASSUME BatchInv, NEW r \in Runs, UpdateJob(r), UNCHANGED gnsVars
    PROVE  BatchInv'
<1>1. UNCHANGED <<owner, balance, interest, segs, due, unitRow, work, cut>> /\ run[r].pc = "update"
  BY DEF UpdateJob, gnsVars, unitVars, ledger
<1>2. /\ run' \in [Runs -> RunState] /\ run'[r].pc = "routes" /\ run'[r].status = run[r].status
      /\ \A q \in Runs : q # r => run'[q] = run[q]
  BY ZenonT(60) DEF UpdateJob, BatchInv, BatchTypes, RunState
<1>3. BatchTypes' /\ job'.status = "RUNNING"
  <2>1. /\ job' \in [status : {"none", "RUNNING", "SUCCEEDED", "FAILED"}, stale : BOOLEAN, total : Nat]
        /\ job'.status = "RUNNING"
    BY DEF UpdateJob, BatchInv, BatchTypes
  <2>2. starts' \in Nat
    BY DEF UpdateJob, BatchInv, BatchTypes
  <2> QED BY <1>1, <1>2, <2>1, <2>2 DEF BatchInv, BatchTypes
<1>4. RunOK(r)'
  BY <1>1, <1>2, <1>3 DEF RunOK, BatchInv
<1> QED BY <1>1, <1>2, <1>3, <1>4, BatchSame

\* The routes are fetched: every unit with interest due is called.
LEMMA FetchStep ==
    ASSUME BatchInv, NameTypes, NEW r \in Runs, FetchActiveRoutes(r, segs), UNCHANGED gnsVars
    PROVE  BatchInv'
<1>1. UNCHANGED <<owner, balance, interest, segs, due, job, unitRow, starts, cut>> /\ run[r].pc = "routes"
  BY DEF FetchActiveRoutes, gnsVars, ledger, history
<1>2. run[r] \in RunState /\ RunOK(r) /\ run[r].status = "FAILED" /\ job.status # "none"
  BY <1>1 DEF BatchInv, BatchTypes, RunOK, RunState
<1>3. CASE /\ run' = [run EXCEPT ![r].pc = "wait",
                                 ![r].res = [u \in Units |-> IF u \in segs THEN "wait" ELSE "off"],
                                 ![r].unsaved = segs]
           /\ work' = [work EXCEPT ![r] = [u \in Units |->
                         IF u \in segs THEN [NoWork EXCEPT !.pc = "list"] ELSE NoWork]]
  <2>0. PICK res : res = [u \in Units |-> IF u \in segs THEN "wait" ELSE "off"]
    OBVIOUS
  <2>1. res \in [Units -> {"off", "wait", "ok", "fail"}] /\ segs \in SUBSET Units
        /\ \A u \in Units : res[u] = (IF u \in segs THEN "wait" ELSE "off")
    BY <2>0 DEF NameTypes
  <2>2. run' = [run EXCEPT ![r].pc = "wait", ![r].res = res, ![r].unsaved = segs]
    BY <1>3, <2>0
  <2>3. /\ run' \in [Runs -> RunState] /\ run'[r].pc = "wait" /\ run'[r].status = "FAILED" /\ run'[r].res = res
        /\ run'[r].unsaved = segs
        /\ \A q \in Runs : q # r => run'[q] = run[q]
    BY <1>2, <2>1, <2>2 DEF BatchInv, BatchTypes, RunState
  <2>4. [NoWork EXCEPT !.pc = "list"] \in WorkState /\ [NoWork EXCEPT !.pc = "list"].todo = {}
        /\ [NoWork EXCEPT !.pc = "list"].pc = "list"
    BY DEF NoWork, WorkState
  <2>5. /\ work' \in [Runs -> [Units -> WorkState]] /\ \A q \in Runs : q # r => work'[q] = work[q]
        /\ \A u \in Units : work'[r][u] = NoWork \/ work'[r][u] = [NoWork EXCEPT !.pc = "list"]
    BY <1>3, <2>4, EmptyRecords DEF BatchInv, BatchTypes
  <2>6. BatchTypes'
    BY <1>1, <2>3, <2>5 DEF BatchInv, BatchTypes
  <2>7. \A u \in Units : u \notin segs => Paid(u)'
    BY <1>1 DEF BatchInv, DueOK, Paid
  <2>8. RunOK(r)'
    BY <1>1, <1>2, <2>1, <2>3, <2>7 DEF RunOK
  <2>9. \A u \in Units : WorkOK(r, u)'
    BY <1>1, <1>2, <2>4, <2>5, EmptyRecords DEF WorkOK
  <2> QED BY <1>1, <2>3, <2>5, <2>6, <2>8, <2>9, BatchSame
<1>4. CASE run' = [run EXCEPT ![r].pc = "finish"] /\ UNCHANGED work
  <2>1. /\ run' \in [Runs -> RunState] /\ run'[r].pc = "finish" /\ run'[r].status = "FAILED"
        /\ \A q \in Runs : q # r => run'[q] = run[q]
    BY <1>2, <1>4 DEF BatchInv, BatchTypes, RunState
  <2>2. BatchTypes'
    BY <1>1, <1>4, <2>1 DEF BatchInv, BatchTypes
  <2>3. RunOK(r)'
    BY <1>1, <1>2, <2>1 DEF RunOK
  <2> QED BY <1>1, <1>4, <2>1, <2>2, <2>3, BatchSame
<1> QED BY <1>3, <1>4 DEF FetchActiveRoutes

\* A unit has answered or failed, or the call has.
LEMMA UnitResultStep ==
    ASSUME BatchInv, NEW r \in Runs, NEW u \in Units, UnitResult(r, u), UNCHANGED gnsVars
    PROVE  BatchInv'
<1>1. /\ UNCHANGED <<owner, balance, interest, segs, due, job, unitRow, starts, cut>>
      /\ run[r].pc = "wait" /\ run[r].res[u] = "wait"
  BY DEF UnitResult, gnsVars, ledger, history
<1>2. run[r] \in RunState /\ work[r][u] \in WorkState /\ RunOK(r) /\ WorkOK(r, u) /\ run[r].status = "FAILED"
  BY <1>1 DEF BatchInv, BatchTypes, RunOK, RunState
<1>3. \A v \in Units : Paid(v)' <=> Paid(v)
  BY <1>1 DEF Paid
<1>4. CASE /\ work[r][u].pc = "post" /\ work[r][u].todo = {}
           /\ run' = [run EXCEPT ![r].res[u] = "ok", ![r].total = @ + work[r][u].total]
           /\ work' = [work EXCEPT ![r][u].pc = "done"]
  <2>0. run[r].total + work[r][u].total \in Nat
    BY <1>2 DEF RunState, WorkState
  <2>1. /\ run' \in [Runs -> RunState] /\ run'[r].pc = "wait" /\ run'[r].status = "FAILED"
        /\ run'[r].unsaved = run[r].unsaved /\ run'[r].res[u] = "ok"
        /\ \A v \in Units : v # u => run'[r].res[v] = run[r].res[v]
        /\ \A q \in Runs : q # r => run'[q] = run[q]
    BY <1>1, <1>2, <1>4, <2>0 DEF BatchInv, BatchTypes, RunState
  <2>2. /\ work' \in [Runs -> [Units -> WorkState]]
        /\ work'[r][u].pc = "done" /\ work'[r][u].todo = {}
        /\ \A q \in Runs : \A v \in Units : q # r \/ v # u => work'[q][v] = work[q][v]
    BY <1>2, <1>4 DEF BatchInv, BatchTypes, WorkState
  <2>3. BatchTypes'
    BY <1>1, <2>1, <2>2 DEF BatchInv, BatchTypes
  <2>4. Paid(u)
    BY <1>2, <1>4 DEF WorkOK, Paid
  <2>5. RunOK(r)'
    BY <1>1, <1>2, <1>3, <2>1, <2>4 DEF RunOK
  <2>6. WorkOK(r, u)'
    BY <1>1, <1>2, <1>4, <2>2 DEF WorkOK
  <2> QED BY <1>1, <2>1, <2>2, <2>3, <2>5, <2>6, BatchSame
<1>5. CASE run' = [run EXCEPT ![r].res[u] = "fail"] /\ UNCHANGED work
  <2>1. /\ run' \in [Runs -> RunState] /\ run'[r].pc = "wait" /\ run'[r].status = "FAILED"
        /\ run'[r].unsaved = run[r].unsaved /\ run'[r].res[u] = "fail"
        /\ \A v \in Units : v # u => run'[r].res[v] = run[r].res[v]
        /\ \A q \in Runs : q # r => run'[q] = run[q]
    BY <1>1, <1>2, <1>5 DEF BatchInv, BatchTypes, RunState
  <2>3. BatchTypes'
    BY <1>1, <1>5, <2>1 DEF BatchInv, BatchTypes
  <2>5. RunOK(r)'
    BY <1>1, <1>2, <1>3, <2>1 DEF RunOK
  <2> QED BY <1>1, <1>5, <2>1, <2>3, <2>5, BatchSame
<1> QED BY <1>4, <1>5 DEF UnitResult

\* The row that is saved next is one of those left.
LEMMA SavedRow ==
    ASSUME BatchInv, NEW r \in Runs, SaveRow(r)
    PROVE  \E u \in run[r].unsaved :
             /\ run' = [run EXCEPT ![r].unsaved = @ \ {u}]
             /\ unitRow' = [unitRow EXCEPT ![u] = IF run[r].res[u] = "ok" THEN work[r][u].total ELSE 0]
<1> DEFINE S == run[r].unsaved
           first == CHOOSE v \in S : \A w \in S : Seg[v].start <= Seg[w].start
           start == [v \in S |-> Seg[v].start]
<1>1. S \subseteq Units /\ S # {}
  BY DEF SaveRow, BatchInv, BatchTypes, RunState
<1>2. \A v \in S : start[v] \in Nat
  BY <1>1, SegmentAssumption
<1>3. PICK v \in S : \A w \in S : start[v] <= start[w]
  <2> HIDE DEF start
  <2> QED BY <1>1, <1>2, LeastValue
<1>4. first \in S
  BY <1>3
<1>5. /\ run' = [run EXCEPT ![r].unsaved = @ \ {first}]
      /\ unitRow' = [unitRow EXCEPT ![first] = IF run[r].res[first] = "ok" THEN work[r][first].total ELSE 0]
  BY DEF SaveRow
<1> HIDE DEF first
<1> QED BY <1>4, <1>5

\* A row of batch_unit_result.
LEMMA SaveRowStep ==
    ASSUME BatchInv, NEW r \in Runs, SaveRow(r), UNCHANGED gnsVars
    PROVE  BatchInv'
<1>1. /\ UNCHANGED <<owner, balance, interest, segs, due, job, work, starts, cut>>
      /\ run[r].pc = "wait" /\ \A v \in Units : run[r].res[v] # "wait"
  BY DEF SaveRow, gnsVars, unitVars, ledger, history
<1>2. run[r] \in RunState /\ RunOK(r) /\ run[r].status = "FAILED"
  BY <1>1 DEF BatchInv, BatchTypes, RunOK, RunState
<1>3. \A v \in Units : Paid(v)' <=> Paid(v)
  BY <1>1 DEF Paid
<1>4. PICK u \in run[r].unsaved :
         /\ run' = [run EXCEPT ![r].unsaved = @ \ {u}]
         /\ unitRow' = [unitRow EXCEPT ![u] = IF run[r].res[u] = "ok" THEN work[r][u].total ELSE 0]
  BY SavedRow
<1>5. /\ run' \in [Runs -> RunState] /\ run'[r].pc = "wait" /\ run'[r].status = "FAILED"
      /\ run'[r].res = run[r].res
      /\ \A q \in Runs : q # r => run'[q] = run[q]
  BY <1>1, <1>2, <1>4 DEF BatchInv, BatchTypes, RunState
<1>6. unitRow' \in [Units -> Nat]
  <2>1. u \in Units => work[r][u].total \in Nat
    BY DEF BatchInv, BatchTypes, WorkState
  <2> QED BY <1>4, <2>1 DEF BatchInv, BatchTypes
<1>7. BatchTypes'
  BY <1>1, <1>5, <1>6 DEF BatchInv, BatchTypes
<1>8. RunOK(r)'
  BY <1>1, <1>2, <1>3, <1>5 DEF RunOK
<1> QED BY <1>1, <1>5, <1>7, <1>8, BatchSame

\* The run decides how to close the job.
LEMMA CloseStep ==
    ASSUME BatchInv, NEW r \in Runs, RowRefused(r) \/ AllSaved(r), UNCHANGED gnsVars
    PROVE  BatchInv'
<1>1. /\ UNCHANGED <<owner, balance, interest, segs, due, job, unitRow, work, starts, cut>>
      /\ run[r].pc = "wait" /\ run[r] \in RunState /\ RunOK(r)
  BY DEF RowRefused, AllSaved, gnsVars, unitVars, ledger, history, BatchInv, BatchTypes
<1>2. PICK status \in {"SUCCEEDED", "FAILED"}, total \in Nat :
         Close(r, status, total) /\ (status = "SUCCEEDED" => \A u \in Units : Paid(u))
  <2>1. CASE RowRefused(r)
    BY <2>1 DEF RowRefused
  <2>2. CASE AllSaved(r)
    <3>1. Outcome(r) \in {"SUCCEEDED", "FAILED"} /\ run[r].total \in Nat
      BY <1>1 DEF Outcome, RunState
    <3>2. Outcome(r) = "SUCCEEDED" => \A u \in Units : Paid(u)
      BY <1>1, <2>2 DEF AllSaved, Outcome, RunOK, RunState
    <3> QED BY <2>2, <3>1, <3>2 DEF AllSaved
  <2> QED BY <2>1, <2>2
<1>3. /\ run' \in [Runs -> RunState] /\ run'[r].pc = "finish" /\ run'[r].status = status
      /\ \A q \in Runs : q # r => run'[q] = run[q]
  BY <1>1, <1>2 DEF Close, BatchInv, BatchTypes, RunState
<1>4. BatchTypes'
  BY <1>1, <1>3 DEF BatchInv, BatchTypes
<1>5. RunOK(r)'
  <2>1. \A v \in Units : Paid(v)' <=> Paid(v)
    BY <1>1 DEF Paid
  <2> QED BY <1>1, <1>2, <1>3, <2>1 DEF RunOK
<1> QED BY <1>1, <1>3, <1>4, <1>5, BatchSame

\* The job is closed, or its update fails.
LEMMA FinishStep ==
    ASSUME BatchInv, NEW r \in Runs, finishJob(r), UNCHANGED gnsVars
    PROVE  BatchInv'
<1>1. /\ UNCHANGED <<owner, balance, interest, segs, due, unitRow, work, starts>>
      /\ run[r].pc = "finish" /\ run[r] \in RunState /\ RunOK(r)
  BY DEF finishJob, gnsVars, ledger, BatchInv, BatchTypes
<1>2. run' \in [Runs -> RunState] /\ run'[r] = NoRun /\ \A q \in Runs : q # r => run'[q] = run[q]
  BY EmptyRecords DEF finishJob, BatchInv, BatchTypes
<1>3. /\ job' \in [status : {"none", "RUNNING", "SUCCEEDED", "FAILED"}, stale : BOOLEAN, total : Nat]
      /\ job'.status = run[r].status \/ job' = job
      /\ cut' \in BOOLEAN
  <2>1. CASE job' = [job EXCEPT !.status = run[r].status, !.total = run[r].total] /\ UNCHANGED cut
    BY <1>1, <2>1 DEF BatchInv, BatchTypes, RunState
  <2>2. CASE cut' = TRUE /\ UNCHANGED job
    BY <2>2 DEF BatchInv, BatchTypes
  <2> QED BY <2>1, <2>2 DEF finishJob
<1>4. BatchTypes'
  BY <1>1, <1>2, <1>3 DEF BatchInv, BatchTypes
<1>5. RunOK(r)'
  BY <1>2, EmptyRecords DEF RunOK
<1>6. /\ job'.status = "SUCCEEDED" => job.status = "SUCCEEDED" \/ \A u \in Units : Paid(u)
      /\ job.status # "none" => job'.status # "none"
  BY <1>1, <1>3 DEF RunOK, RunState
<1> QED BY <1>1, <1>2, <1>4, <1>5, <1>6, BatchSame

\* Time passes, or the scheduler dies.
LEMMA AgesOrCrashes ==
    ASSUME BatchInv, JobAges \/ SchedulerCrash, UNCHANGED gnsVars
    PROVE  BatchInv'
<1>1. UNCHANGED <<owner, balance, interest, segs, due, unitRow, work, starts>>
  BY DEF JobAges, SchedulerCrash, gnsVars, unitVars, ledger, history
<1>2. CASE JobAges
  <2>1. UNCHANGED <<run, cut>> /\ job'.status = job.status
        /\ job' \in [status : {"none", "RUNNING", "SUCCEEDED", "FAILED"}, stale : BOOLEAN, total : Nat]
    BY <1>2 DEF JobAges, history, BatchInv, BatchTypes
  <2>2. BatchTypes'
    BY <1>1, <2>1 DEF BatchInv, BatchTypes
  <2> QED BY <1>1, <2>1, <2>2, BatchSame
<1>3. CASE SchedulerCrash
  <2>1. UNCHANGED job /\ cut' = TRUE /\ run' = [q \in Runs |-> NoRun]
    BY <1>3 DEF SchedulerCrash
  <2>2. BatchTypes'
    BY <1>1, <2>1, EmptyRecords DEF BatchInv, BatchTypes
  <2>3. \A q \in Runs : RunOK(q)'
    BY <2>1, EmptyRecords DEF RunOK
  <2> QED BY <1>1, <2>1, <2>2, <2>3, BatchSame
<1> QED BY <1>2, <1>3

\* A unit lists its accounts: everyone with interest due is among them.
LEMMA ListStep ==
    ASSUME BatchInv, NEW r \in Runs, NEW u \in Units, ListAccounts(r, u), UNCHANGED gnsVars
    PROVE  BatchInv'
<1>1. /\ UNCHANGED <<owner, balance, interest, segs, due, job, unitRow, run, starts, cut>>
      /\ work[r][u].pc = "list" /\ WorkOK(r, u) /\ job.status # "none"
  BY DEF ListAccounts, gnsVars, unitVars, ledger, history, BatchInv, WorkOK
<1> DEFINE todo == {<<n, InterestFor(balance[n])>> : n \in Earning(u)}
<1>2. \A n \in Earning(u) : n \in Numbers /\ owner[n] # None /\ UnitOf(n) = u /\ InterestFor(balance[n]) > 0
                            /\ InterestFor(balance[n]) \in Nat
  BY InterestGrows DEF Earning, BatchInv, BatchTypes
<1>3. /\ todo \in SUBSET (Numbers \X Nat)
      /\ \A e \in todo : owner[e[1]] # None /\ e[2] > 0 /\ UnitOf(e[1]) = u
      /\ \A n \in Earning(u) : \E e \in todo : e[1] = n
  <2>1. \A e \in todo : \E n \in Earning(u) : e = <<n, InterestFor(balance[n])>>
    OBVIOUS
  <2>2. \A n \in Earning(u) : <<n, InterestFor(balance[n])>> \in todo
    OBVIOUS
  <2> HIDE DEF todo
  <2>3. ASSUME NEW e \in todo
        PROVE  e \in Numbers \X Nat /\ owner[e[1]] # None /\ e[2] > 0 /\ UnitOf(e[1]) = u
    <3>1. PICK n \in Earning(u) : e = <<n, InterestFor(balance[n])>>
      BY <2>1
    <3>2. PICK a : a = InterestFor(balance[n])
      OBVIOUS
    <3>3. e = <<n, a>> /\ n \in Numbers /\ a \in Nat /\ a > 0 /\ owner[n] # None /\ UnitOf(n) = u
      BY <1>2, <3>1, <3>2
    <3> QED BY <3>3
  <2>4. ASSUME NEW n \in Earning(u) PROVE \E e \in todo : e[1] = n
    <3>1. <<n, InterestFor(balance[n])>> \in todo
      BY <2>2
    <3>2. <<n, InterestFor(balance[n])>>[1] = n
      OBVIOUS
    <3> QED BY <3>1, <3>2
  <2> QED BY <2>3, <2>4
<1>4. work' = [work EXCEPT ![r][u] = [pc |-> "post", total |-> 0, todo |-> todo]]
  BY DEF ListAccounts
<1> HIDE DEF todo
<1>5. /\ work' \in [Runs -> [Units -> WorkState]]
      /\ work'[r][u].pc = "post" /\ work'[r][u].todo = todo
      /\ \A q \in Runs : \A v \in Units : q # r \/ v # u => work'[q][v] = work[q][v]
  BY <1>3, <1>4 DEF BatchInv, BatchTypes, WorkState
<1>6. BatchTypes'
  BY <1>1, <1>5 DEF BatchInv, BatchTypes
<1>7. \A n \in due : UnitOf(n) = u => n \in Earning(u)
  BY DEF BatchInv, BatchTypes, DueOK, Earning
<1>8. WorkOK(r, u)'
  BY <1>1, <1>3, <1>5, <1>7 DEF WorkOK
<1> QED BY <1>1, <1>5, <1>6, <1>8, BatchSame

\* The entry that a unit posts next.
LEMMA NextEntry ==
    ASSUME NEW todo \in SUBSET (Numbers \X Nat), todo # {}
    PROVE  LET n == Min({e[1] : e \in todo})
           IN  (CHOOSE e \in todo : e[1] = n) \in todo /\ (CHOOSE e \in todo : e[1] = n)[1] = n
<1> DEFINE ns == {e[1] : e \in todo}
<1>1. ns \in SUBSET Nat /\ ns # {}
  BY UnitFacts
<1> HIDE DEF ns
<1>2. Min(ns) \in ns
  BY <1>1, MinIn
<1>3. \E e \in todo : e[1] = Min(ns)
  BY <1>2 DEF ns
<1> QED BY <1>3 DEF ns

\* What PostInterest does, by the entry it takes.
LEMMA PostCases ==
    ASSUME BatchInv, NEW r \in Runs, NEW u \in Units, PostInterest(r, u)
    PROVE  \E n \in Numbers, amount \in Nat \ {0} :
             /\ work[r][u].pc = "post" /\ <<n, amount>> \in work[r][u].todo /\ owner[n] # None /\ UnitOf(n) = u
             /\ work' = [work EXCEPT ![r][u].todo = @ \ {<<n, amount>>}, ![r][u].total = @ + Counted(n, amount)]
             /\ \/ /\ interest[n] # 0
                   /\ UNCHANGED unitVars
                \/ /\ interest[n] = 0
                   /\ interest' = [interest EXCEPT ![n] = amount]
                   /\ balance' = [balance EXCEPT ![n] = @ + amount]
                   /\ PublishOne(BalanceEvent(<<"interest", n>>, n, "CREDIT", amount))
                   /\ UNCHANGED owner
             /\ UNCHANGED <<job, unitRow, run, history>>
<1> DEFINE todo == work[r][u].todo
           m == Min({e[1] : e \in todo})
           entry == CHOOSE e \in todo : e[1] = m
<1>1. todo \in SUBSET (Numbers \X Nat) /\ todo # {} /\ work[r][u].pc = "post"
  <2>1. work[r][u].todo # {} /\ work[r][u].pc = "post"
    BY DEF PostInterest
  <2>2. work[r][u].todo \in SUBSET (Numbers \X Nat)
    BY DEF BatchInv, BatchTypes, WorkState
  <2> QED BY <2>1, <2>2
<1>2. entry \in todo /\ entry[1] = m
  BY <1>1, NextEntry
<1>3. m \in Numbers /\ entry[2] \in Nat /\ entry = <<m, entry[2]>>
  <2> HIDE DEF todo, m, entry
  <2> QED BY <1>1, <1>2
<1>4. owner[m] # None /\ entry[2] > 0 /\ UnitOf(m) = u
  BY <1>2 DEF BatchInv, WorkOK
<1>5. /\ work' = [work EXCEPT ![r][u].todo = @ \ {entry}, ![r][u].total = @ + Counted(m, entry[2])]
      /\ \/ /\ interest[m] # 0
            /\ UNCHANGED unitVars
         \/ /\ interest[m] = 0
            /\ interest' = [interest EXCEPT ![m] = entry[2]]
            /\ balance' = [balance EXCEPT ![m] = @ + entry[2]]
            /\ PublishOne(BalanceEvent(<<"interest", m>>, m, "CREDIT", entry[2]))
            /\ UNCHANGED owner
      /\ UNCHANGED <<job, unitRow, run, history>>
  BY DEF PostInterest
<1> HIDE DEF todo, m, entry
<1>6. PICK amount : amount = entry[2]
  OBVIOUS
<1>7. entry = <<m, amount>> /\ amount \in Nat \ {0} /\ <<m, amount>> \in work[r][u].todo
  BY <1>2, <1>3, <1>4, <1>6 DEF todo
<1> QED BY <1>1, <1>3, <1>4, <1>5, <1>6, <1>7

\* A unit posts an entry, or finds it posted.
LEMMA PostStep ==
    ASSUME BatchInv, NEW r \in Runs, NEW u \in Units, PostInterest(r, u), UNCHANGED gnsVars
    PROVE  BatchInv'
<1>1. PICK n \in Numbers, amount \in Nat \ {0} :
             /\ work[r][u].pc = "post" /\ <<n, amount>> \in work[r][u].todo /\ owner[n] # None /\ UnitOf(n) = u
             /\ work' = [work EXCEPT ![r][u].todo = @ \ {<<n, amount>>}, ![r][u].total = @ + Counted(n, amount)]
             /\ \/ /\ interest[n] # 0
                   /\ UNCHANGED unitVars
                \/ /\ interest[n] = 0
                   /\ interest' = [interest EXCEPT ![n] = amount]
                   /\ balance' = [balance EXCEPT ![n] = @ + amount]
                   /\ PublishOne(BalanceEvent(<<"interest", n>>, n, "CREDIT", amount))
                   /\ UNCHANGED owner
             /\ UNCHANGED <<job, unitRow, run, history>>
  BY PostCases
<1>2. /\ owner' = owner /\ balance' \in [Numbers -> Nat] /\ interest' \in [Numbers -> Nat] /\ interest'[n] > 0
      /\ \A k \in Numbers : balance[k] <= balance'[k] /\ (interest[k] > 0 => interest'[k] > 0)
  <2>1. CASE interest[n] # 0 /\ UNCHANGED unitVars
    BY <2>1 DEF unitVars, ledger, BatchInv, BatchTypes
  <2>2. CASE /\ interest[n] = 0
             /\ interest' = [interest EXCEPT ![n] = amount]
             /\ balance' = [balance EXCEPT ![n] = @ + amount]
             /\ UNCHANGED owner
    BY <2>2 DEF BatchInv, BatchTypes
  <2> QED BY <1>1, <2>1, <2>2
<1>3. UNCHANGED <<segs, due, job, unitRow, run, starts, cut>>
  BY <1>1 DEF gnsVars, history
<1>4. work[r][u] \in WorkState /\ Counted(n, amount) \in Nat /\ WorkOK(r, u)
  BY DEF BatchInv, BatchTypes, Counted
<1>5. work[r][u].total + Counted(n, amount) \in Nat
  BY <1>4 DEF WorkState
<1>6. /\ work' \in [Runs -> [Units -> WorkState]]
      /\ work'[r][u].pc = "post" /\ work'[r][u].todo = work[r][u].todo \ {<<n, amount>>}
      /\ \A q \in Runs : \A v \in Units : q # r \/ v # u => work'[q][v] = work[q][v]
  <2>1. work' = [work EXCEPT ![r][u].todo = @ \ {<<n, amount>>}, ![r][u].total = @ + Counted(n, amount)]
        /\ work[r][u].pc = "post"
    BY <1>1
  <2> QED BY <1>4, <1>5, <2>1 DEF BatchInv, BatchTypes, WorkState
<1>7. BatchTypes'
  BY <1>2, <1>3, <1>6 DEF BatchInv, BatchTypes
<1>8. Kept
  BY <1>2, <1>3 DEF Kept
<1>9. \A k \in due' : InterestFor(balance'[k]) > 0
  BY <1>2, <1>3, InterestGrows DEF BatchInv, BatchTypes, DueOK
<1>10. WorkOK(r, u)'
  <2>1. job'.status # "none"
    BY <1>1, <1>3, <1>4 DEF WorkOK
  <2>2. \A e \in work'[r][u].todo : owner'[e[1]] # None /\ e[2] > 0 /\ UnitOf(e[1]) = u
    BY <1>2, <1>4, <1>6 DEF WorkOK
  <2>3. ASSUME NEW k \in due, UnitOf(k) = u
        PROVE  interest'[k] > 0 \/ \E e \in work'[r][u].todo : e[1] = k
    <3>1. CASE k = n
      BY <1>2, <3>1
    <3>2. CASE interest[k] > 0
      BY <1>2, <3>2 DEF BatchInv, BatchTypes
    <3>3. CASE k # n /\ ~(interest[k] > 0)
      <4>1. PICK e \in work[r][u].todo : e[1] = k
        BY <1>1, <1>4, <2>3, <3>3 DEF WorkOK
      <4>2. e # <<n, amount>>
        BY <3>3, <4>1
      <4> QED BY <1>6, <4>1, <4>2
    <3> QED BY <3>1, <3>2, <3>3
  <2> QED BY <1>3, <1>6, <2>1, <2>2, <2>3 DEF WorkOK
<1> QED BY <1>3, <1>6, <1>7, <1>8, <1>9, <1>10, BatchStep

\* A unit fails.
LEMMA UnitFailsStep ==
    ASSUME BatchInv, NEW r \in Runs, NEW u \in Units, UnitFails(r, u), UNCHANGED gnsVars
    PROVE  BatchInv'
<1>1. /\ UNCHANGED <<owner, balance, interest, segs, due, job, unitRow, run, starts, cut>>
      /\ work[r][u].pc \in {"list", "post"} /\ WorkOK(r, u) /\ work[r][u] \in WorkState
  BY DEF UnitFails, gnsVars, ledger, history, BatchInv, BatchTypes
<1>2. /\ work' \in [Runs -> [Units -> WorkState]]
      /\ work'[r][u].pc = "dead" /\ work'[r][u].todo = work[r][u].todo
      /\ \A q \in Runs : \A v \in Units : q # r \/ v # u => work'[q][v] = work[q][v]
  BY <1>1 DEF UnitFails, BatchInv, BatchTypes, WorkState
<1>3. BatchTypes'
  BY <1>1, <1>2 DEF BatchInv, BatchTypes
<1>4. WorkOK(r, u)'
  BY <1>1, <1>2 DEF WorkOK
<1> QED BY <1>1, <1>2, <1>3, <1>4, BatchSame

\* An account is created: nobody had interest due on it.
LEMMA CreateKeepsBatch ==
    ASSUME BatchInv, NameInv, NEW c \in Calls, handleCreateAccount(c), UNCHANGED batchVars
    PROVE  BatchInv'
<1>1. op[c].num \in Numbers /\ op[c].cust \in Customers
  BY OpeningAssumption DEF handleCreateAccount, NameInv, CallOK
<1>2. /\ interest' = interest /\ balance' \in [Numbers -> Nat]
      /\ \A n \in Numbers : owner[n] # None => owner'[n] # None /\ balance'[n] = balance[n]
  <2>1. CASE owner[op[c].num] # None /\ UNCHANGED unitVars
    BY <2>1 DEF unitVars, ledger, BatchInv, BatchTypes
  <2>2. CASE /\ owner[op[c].num] = None
             /\ owner' = [owner EXCEPT ![op[c].num] = op[c].cust]
             /\ balance' = [balance EXCEPT ![op[c].num] = InitBalance[op[c].cust]]
             /\ UNCHANGED interest
    BY <1>1, <2>2, SegmentAssumption DEF BatchInv, BatchTypes, NameInv, NameTypes
  <2> QED BY <2>1, <2>2 DEF handleCreateAccount
<1>3. UNCHANGED <<segs, job, unitRow, run, work, due, starts, cut>>
  BY DEF handleCreateAccount, batchVars, history
<1>4. \A n \in due' : InterestFor(balance'[n]) > 0
  BY <1>2, <1>3 DEF BatchInv, BatchTypes, DueOK
<1> QED BY <1>2, <1>3, <1>4, BatchStill DEF BatchInv, BatchTypes

\* A transfer may take an account's claim, but no other.
LEMMA TransferKeepsBatch ==
    ASSUME BatchInv, NEW from \in Numbers, NEW to \in Numbers, Transfer(from, to)
    PROVE  BatchInv'
<1>1. UNCHANGED <<owner, interest, segs, job, unitRow, run, work, starts, cut>>
  BY DEF Transfer, localTransfer
<1>2. balance' \in [Numbers -> Nat]
  <2>1. balance' = [balance EXCEPT ![from] = @ - 1, ![to] = @ + 1] /\ balance[from] >= 1
    BY DEF Transfer, localTransfer
  <2> QED BY <2>1 DEF BatchInv, BatchTypes
<1>3. due' \subseteq due /\ \A n \in due' : InterestFor(balance'[n]) > 0
  BY DEF Transfer, StillDue
<1> QED BY <1>1, <1>2, <1>3, BatchStill DEF BatchInv, BatchTypes

\* The accounts are as they were.
LEMMA LedgerStill ==
    ASSUME BatchInv, UNCHANGED <<ledger, batchVars>>, segs \subseteq segs'
    PROVE  BatchInv'
<1>1. UNCHANGED <<owner, balance, interest, job, unitRow, run, work, due, starts, cut>>
  BY DEF ledger, batchVars, history
<1>2. \A n \in due' : InterestFor(balance'[n]) > 0
  BY <1>1 DEF BatchInv, DueOK
<1> QED BY <1>1, <1>2, BatchStill DEF BatchInv, BatchTypes

\* A step of the composition.
LEMMA BatchInvStep ==
    ASSUME BatchInv, NameInv, [Next]_vars
    PROVE  BatchInv'
<1>1. CASE NameServiceNext /\ UNCHANGED batchVars
  <2>1. ASSUME NEW c \in Calls, OpenAccount(c) PROVE BatchInv'
    <3>1. CASE handleCreateAccount(c)
      BY <1>1, <3>1, CreateKeepsBatch
    <3>2. CASE ~handleCreateAccount(c)
      <4>1. UNCHANGED <<ledger, segs>>
        BY <2>1, <3>2 DEF OpenAccount, Find, Pick, ReadMax, Insert, InsertRoute, TryAgain, Created, CreateFails,
           Rollback, unitVars
      <4> QED BY <1>1, <4>1, LedgerStill
    <3> QED BY <3>1, <3>2
  <2>2. ASSUME NEW n \in Numbers, Locate(n) \/ CacheExpires(n) PROVE BatchInv'
    BY <1>1, <2>2, LedgerStill DEF Locate, CacheExpires
  <2>3. ASSUME NEW u \in Units, handleAddRoute(u) PROVE BatchInv'
    BY <1>1, <2>3, LedgerStill DEF handleAddRoute, unitVars
  <2>4. CASE GnsCrash
    BY <1>1, <2>4, LedgerStill DEF GnsCrash
  <2> QED BY <1>1, <2>1, <2>2, <2>3, <2>4 DEF NameServiceNext
<1>2. CASE InterestNext(segs) /\ UNCHANGED gnsVars
  <2>0. NameTypes
    BY DEF NameInv
  <2>1. ASSUME NEW r \in Runs, RunStep(r, segs) PROVE BatchInv'
    BY <1>2, <2>0, <2>1, InsertJobStep, UpdateJobStep, FetchStep, UnitResultStep, SaveRowStep, CloseStep, FinishStep
       DEF RunStep
  <2>2. ASSUME NEW r \in Runs, NEW u \in Units, UnitStep(r, u) \/ UnitFails(r, u) PROVE BatchInv'
    BY <1>2, <2>2, ListStep, PostStep, UnitFailsStep DEF UnitStep
  <2> QED BY <1>2, <2>1, <2>2, ReadJobStep, AgesOrCrashes DEF InterestNext
<1>3. CASE \E e \in events : handleEvent(e) /\ UNCHANGED <<gnsVars, batchVars>>
  BY <1>3, LedgerStill DEF handleEvent, gnsVars
<1>4. ASSUME NEW from \in Numbers, NEW to \in Numbers, Transfer(from, to) PROVE BatchInv'
  BY <1>4, TransferKeepsBatch
<1>5. CASE UNCHANGED vars
  BY <1>5, LedgerStill DEF vars, unitVars, gnsVars
<1> QED BY <1>1, <1>2, <1>3, <1>4, <1>5 DEF Next

\* At the start there is no job.
LEMMA BatchInvInit == Init => BatchInv
<1> SUFFICES ASSUME Init PROVE BatchInv
  OBVIOUS
<1>1. \A n \in Numbers : ExistingBalance(n) \in Nat
  BY ServicesAssumption, SegmentAssumption DEF ExistingBalance
<1>2. NoJob \in [status : {"none", "RUNNING", "SUCCEEDED", "FAILED"}, stale : BOOLEAN, total : Nat]
      /\ NoJob.status = "none"
  BY DEF NoJob
<1>3. BatchTypes
  BY <1>1, <1>2, EmptyRecords DEF Init, BatchTypes
<1>4. \A r \in Runs : RunOK(r)
  BY EmptyRecords DEF Init, RunOK
<1>5. \A r \in Runs : \A u \in Units : WorkOK(r, u)
  BY EmptyRecords DEF Init, WorkOK
<1>6. DueOK /\ job.status = "none" /\ due = {}
  BY <1>2 DEF Init, DueOK
<1> QED BY <1>3, <1>4, <1>5, <1>6 DEF BatchInv

\* What holds of the requests and of the batch in every state.
LEMMA BatchInvariant == Spec => [](NameInv /\ BatchInv)
<1>1. Init => NameInv /\ BatchInv
  BY NameInvInit, BatchInvInit
<1>2. NameInv /\ BatchInv /\ [Next]_vars => (NameInv /\ BatchInv)'
  BY NameInvStep, BatchInvStep
<1> QED BY <1>1, <1>2, PTL DEF Spec

\* A job is SUCCEEDED only when every account with interest due ever since the job was registered has got it,
\* whichever of the runs closed it (handleCreateInterest, handleInterestBatch).
THEOREM SucceededCompleteTheorem == Spec => []SucceededComplete
<1>1. NameInv /\ BatchInv => SucceededComplete
  <2> SUFFICES ASSUME BatchInv, job.status = "SUCCEEDED", NEW n \in due
               PROVE  interest[n] > 0
    BY DEF SucceededComplete
  <2>1. UnitOf(n) \in Units
    BY UnitFacts DEF BatchInv, BatchTypes
  <2> QED BY <2>1 DEF BatchInv, Paid
<1> QED BY <1>1, BatchInvariant, PTL

---------------------------------------------------------------------------
(* The mirror *)

\* What a set of events amounts to.
DeltaSum(S) == SumFunctionOnSet([e \in S |-> Delta(e)], S)

\* It does not depend on the set they are taken from.
LEMMA DeltaSumOver ==
    ASSUME NEW E, IsFiniteSet(E), NEW S \in SUBSET E
    PROVE  SumFunctionOnSet([e \in E |-> Delta(e)], S) = DeltaSum(S)
<1>1. IsFiniteSet(S)
  BY FS_Subset
<1>2. \A e \in S : [x \in E |-> Delta(x)][e] = [x \in S |-> Delta(x)][e]
  OBVIOUS
<1> QED BY <1>1, <1>2, SumAgree DEF DeltaSum

\* Events that have nothing in common, taken together.
LEMMA DeltaSumUnion ==
    ASSUME NEW S, NEW T, IsFiniteSet(S), IsFiniteSet(T), S \cap T = {}, \A x \in S \cup T : Delta(x) \in Int
    PROVE  /\ DeltaSum(S) \in Int /\ DeltaSum(T) \in Int
           /\ DeltaSum(S \cup T) = DeltaSum(S) + DeltaSum(T)
<1> DEFINE f == [e \in S \cup T |-> Delta(e)]
<1>1. IsFiniteSet(S \cup T) /\ \A x \in S \cup T : f[x] \in Int
  BY FS_Union
<1>2. /\ SumFunctionOnSet(f, S) = DeltaSum(S) /\ SumFunctionOnSet(f, T) = DeltaSum(T)
      /\ SumFunctionOnSet(f, S \cup T) = DeltaSum(S \cup T)
  BY <1>1, DeltaSumOver
<1> HIDE DEF f
<1>3. SumFunctionOnSet(f, S) \in Int /\ SumFunctionOnSet(f, T) \in Int
  BY <1>1, SumType
<1>4. SumFunctionOnSet(f, S \cup T) = SumFunctionOnSet(f, S) + SumFunctionOnSet(f, T)
  BY <1>1, SumUnion
<1> QED BY <1>2, <1>3, <1>4

\* None and one.
LEMMA DeltaSumOne ==
    /\ DeltaSum({}) = 0
    /\ \A e : Delta(e) \in Int => DeltaSum({e}) = Delta(e)
<1>1. DeltaSum({}) = 0
  BY SumEmpty DEF DeltaSum
<1>2. ASSUME NEW e, Delta(e) \in Int PROVE DeltaSum({e}) = Delta(e)
  <2> DEFINE f == [x \in {e} |-> Delta(x)]
  <2>1. f[e] = Delta(e) /\ {e} = {} \cup {e} /\ IsFiniteSet({}) /\ e \notin {}
    BY FS_EmptySet
  <2>2. DeltaSum({e}) = SumFunctionOnSet(f, {e})
    BY DEF DeltaSum
  <2> HIDE DEF f
  <2>3. SumFunctionOnSet(f, {} \cup {e}) = f[e] + SumFunctionOnSet(f, {})
    BY <1>2, <2>1, SumAdd
  <2>4. SumFunctionOnSet(f, {e}) = f[e] + 0
    BY <2>1, <2>3, SumEmpty
  <2> QED BY <1>2, <2>1, <2>2, <2>4
<1> QED BY <1>1, <1>2

BudgetState == [calls : Nat, cache : Nat, runs : Nat, transfers : Nat, faults : Nat]

\* The keys of the events that were ever published.
KeyOK(k) ==
    \/ \E n \in Numbers : k = <<<<"init", n>>, n, "CREDIT">> /\ owner[n] # None
    \/ \E n \in Numbers : k = <<<<"interest", n>>, n, "CREDIT">> /\ interest[n] # 0
    \/ \E t \in Nat, n \in Numbers, dir \in {"DEBIT", "CREDIT"} :
          k = <<<<"local", t>>, n, dir>> /\ t > budget.transfers

MirrorInv ==
    /\ mirror \in [Numbers -> Int] /\ lost \in [Numbers -> Int]
    /\ budget \in BudgetState
    /\ IsFiniteSet(events) /\ \A e \in events : e.acct \in Numbers /\ Delta(e) \in Int
    /\ \A e, f \in events : EventKey(e) = EventKey(f) => e = f
    /\ \A k \in logged \cup {EventKey(e) : e \in events} : KeyOK(k)
    /\ \A n \in Numbers : owner[n] = None => balance[n] = 0
    /\ \A n \in Numbers :
          balance[n] = mirror[n] + lost[n] + SumFunctionOnSet([e \in events |-> Delta(e)], Pending(n))

\* Once an event is published, its key stays one that was.
KeysKept ==
    /\ \A n \in Numbers : owner[n] # None => owner'[n] # None
    /\ \A n \in Numbers : interest[n] # 0 => interest'[n] # 0
    /\ budget' \in BudgetState /\ budget'.transfers <= budget.transfers

\* Keys of old events.
LEMMA KeyStays ==
    ASSUME budget \in BudgetState, KeysKept, NEW k, KeyOK(k)
    PROVE  KeyOK(k)'
<1>1. budget.transfers \in Nat /\ budget'.transfers \in Nat /\ budget'.transfers <= budget.transfers
  BY DEF KeysKept, BudgetState
<1>2. \A t \in Nat : t > budget.transfers => t > budget'.transfers
  BY <1>1
<1> QED BY <1>2 DEF KeyOK, KeysKept

\* What is spent.
LEMMA Spending ==
    ASSUME budget \in BudgetState,
           \/ UNCHANGED budget
           \/ Spend("calls") \/ Spend("cache") \/ Spend("runs") \/ Spend("faults")
    PROVE  budget' \in BudgetState /\ budget'.transfers = budget.transfers
<1>1. CASE UNCHANGED budget
  BY <1>1
<1>2. CASE Spend("calls")
  BY <1>2 DEF Spend, BudgetState
<1>3. CASE Spend("cache")
  BY <1>3 DEF Spend, BudgetState
<1>4. CASE Spend("runs")
  BY <1>4 DEF Spend, BudgetState
<1>5. CASE Spend("faults")
  BY <1>5 DEF Spend, BudgetState
<1> QED BY <1>1, <1>2, <1>3, <1>4, <1>5

\* Steps that move no money and publish nothing.
LEMMA MirrorStill ==
    ASSUME MirrorInv, KeysKept, UNCHANGED <<balance, adm>>
    PROVE  MirrorInv'
<1>1. UNCHANGED <<balance, events, logged, mirror, lost>>
  BY DEF adm
<1>2. \A k : KeyOK(k) => KeyOK(k)'
  BY KeyStays DEF MirrorInv
<1>3. \A n \in Numbers : Pending(n)' = Pending(n)
  BY <1>1 DEF Pending, EventKey
<1>4. \A n \in Numbers : owner'[n] = None => balance'[n] = 0
  BY <1>1 DEF MirrorInv, KeysKept
<1>5. \A k \in logged' \cup {EventKey(e) : e \in events'} : KeyOK(k)'
  BY <1>1, <1>2 DEF MirrorInv
<1>6. \A n \in Numbers : balance'[n] = mirror'[n] + lost'[n]
                                       + SumFunctionOnSet([e \in events' |-> Delta(e)], Pending(n)')
  BY <1>1, <1>3 DEF MirrorInv
<1> QED BY <1>1, <1>4, <1>5, <1>6 DEF MirrorInv, KeysKept, Delta, EventKey

\* The sums that MirrorExact compares, without the set that they are taken from.
LEMMA PendingSum ==
    ASSUME MirrorInv, NEW n \in Numbers
    PROVE  /\ balance[n] = mirror[n] + lost[n] + DeltaSum(Pending(n))
           /\ IsFiniteSet(Pending(n)) /\ \A e \in Pending(n) : Delta(e) \in Int
<1>1. IsFiniteSet(events) /\ Pending(n) \in SUBSET events /\ \A e \in events : Delta(e) \in Int
  BY DEF MirrorInv, Pending
<1>2. SumFunctionOnSet([e \in events |-> Delta(e)], Pending(n)) = DeltaSum(Pending(n))
  BY <1>1, DeltaSumOver
<1> QED BY <1>1, <1>2, FS_Subset DEF MirrorInv

\* A committed change and its events: what does not arrive is in the books as lost.
LEMMA PublishStep ==
    ASSUME MirrorInv, KeysKept, NEW es, NEW kept \in SUBSET es, publishEvent(es, kept), IsFiniteSet(es),
           \A e \in es : e.acct \in Numbers /\ Delta(e) \in Int,
           \A e \in es : ~KeyOK(EventKey(e)) /\ KeyOK(EventKey(e))',
           \A e, f \in es : EventKey(e) = EventKey(f) => e = f,
           \A n \in Numbers : owner'[n] = None => balance'[n] = 0,
           \A n \in Numbers : balance'[n] = balance[n] + DeltaSum({e \in es : e.acct = n})
    PROVE  MirrorInv'
<1>1. events' = events \cup kept /\ UNCHANGED <<logged, mirror>>
  BY DEF publishEvent
<1>2. /\ IsFiniteSet(events) /\ \A e \in events : e.acct \in Numbers /\ Delta(e) \in Int
      /\ \A e, f \in events : EventKey(e) = EventKey(f) => e = f
      /\ \A k \in logged \cup {EventKey(e) : e \in events} : KeyOK(k)
      /\ mirror \in [Numbers -> Int] /\ lost \in [Numbers -> Int] /\ budget \in BudgetState
  BY DEF MirrorInv
<1>3. IsFiniteSet(kept) /\ IsFiniteSet(events')
  BY <1>1, <1>2, FS_Subset, FS_Union
<1>4. \A e \in events' : e.acct \in Numbers /\ Delta(e) \in Int
  BY <1>1, <1>2
<1>5. \A e \in kept : EventKey(e) \notin logged /\ \A f \in events : EventKey(e) # EventKey(f)
  BY <1>2
<1>6. \A e, f \in events' : EventKey(e) = EventKey(f) => e = f
  BY <1>1, <1>2, <1>5
<1>7. \A k \in logged' \cup {EventKey(e) : e \in events'} : KeyOK(k)'
  <2>1. \A k : KeyOK(k) => KeyOK(k)'
    BY <1>2, KeyStays
  <2>2. \A k \in logged : KeyOK(k)'
    BY <1>2, <2>1
  <2>3. \A e \in events : KeyOK(EventKey(e))'
    BY <1>2, <2>1
  <2> QED BY <1>1, <2>2, <2>3
<1>8. ASSUME NEW n \in Numbers
      PROVE  /\ lost'[n] \in Int
             /\ balance'[n] = mirror'[n] + lost'[n] + SumFunctionOnSet([e \in events' |-> Delta(e)], Pending(n)')
  <2> DEFINE K == {e \in kept : e.acct = n}
             L == {e \in es \ kept : e.acct = n}
             P == Pending(n)
             both == {e \in es : e.acct = n}
  <2>1. lost'[n] = lost[n] + DeltaSum(L)
    <3>1. L \in SUBSET es
      OBVIOUS
    <3>2. lost'[n] = lost[n] + SumFunctionOnSet([e \in es |-> Delta(e)], L)
      BY DEF publishEvent
    <3> HIDE DEF L
    <3> QED BY <3>1, <3>2, DeltaSumOver
  <2>2. both = K \cup L /\ K \cap L = {} /\ IsFiniteSet(K) /\ IsFiniteSet(L)
        /\ \A e \in K \cup L : Delta(e) \in Int
    <3>1. K \in SUBSET es /\ L \in SUBSET es /\ both = K \cup L /\ K \cap L = {}
      OBVIOUS
    <3> QED BY <3>1, FS_Subset
  <2>3. Pending(n)' = P \cup K
    BY <1>1, <1>5 DEF Pending
  <2>4. P \cap K = {}
    BY <1>5 DEF Pending
  <2>5. balance[n] = mirror[n] + lost[n] + DeltaSum(P) /\ IsFiniteSet(P) /\ \A e \in P : Delta(e) \in Int
    BY PendingSum
  <2>6. Pending(n)' \in SUBSET events'
    BY <1>1 DEF Pending
  <2>7. balance'[n] = balance[n] + DeltaSum(both)
    OBVIOUS
  <2> HIDE DEF K, L, P, both
  <2>8. DeltaSum(both) = DeltaSum(K) + DeltaSum(L) /\ DeltaSum(K) \in Int /\ DeltaSum(L) \in Int
    BY <2>2, DeltaSumUnion
  <2>9. DeltaSum(P \cup K) = DeltaSum(P) + DeltaSum(K) /\ DeltaSum(P) \in Int
    BY <2>2, <2>4, <2>5, DeltaSumUnion
  <2>10. SumFunctionOnSet([e \in events' |-> Delta(e)], Pending(n)') = DeltaSum(P \cup K)
    BY <1>3, <2>3, <2>6, DeltaSumOver
  <2>11. mirror[n] \in Int /\ lost[n] \in Int /\ mirror'[n] = mirror[n]
    BY <1>1, <1>2
  <2> QED BY <2>1, <2>5, <2>7, <2>8, <2>9, <2>10, <2>11
<1>9. lost' \in [Numbers -> Int]
  <2>1. lost' = [n \in Numbers |-> lost'[n]]
    BY DEF publishEvent
  <2> QED BY <1>8, <2>1
<1> QED BY <1>1, <1>2, <1>3, <1>4, <1>6, <1>7, <1>8, <1>9 DEF MirrorInv, KeysKept, Delta, EventKey

\* One credit, which arrives or is lost.
LEMMA CreditStep ==
    ASSUME MirrorInv, KeysKept, NEW tx, NEW n \in Numbers, NEW amount \in Nat,
           PublishOne(BalanceEvent(tx, n, "CREDIT", amount)),
           ~KeyOK(<<tx, n, "CREDIT">>), KeyOK(<<tx, n, "CREDIT">>)',
           \A m \in Numbers : owner'[m] = None => balance'[m] = 0,
           balance \in [Numbers -> Nat], balance' = [balance EXCEPT ![n] = @ + amount]
    PROVE  MirrorInv'
<1>1. PICK e : e = BalanceEvent(tx, n, "CREDIT", amount)
  OBVIOUS
<1>2. e.acct = n /\ Delta(e) = amount /\ EventKey(e) = <<tx, n, "CREDIT">>
  BY <1>1 DEF BalanceEvent, Delta, EventKey
<1>3. \A m \in Numbers : balance'[m] = balance[m] + DeltaSum({x \in {e} : x.acct = m})
  <2> TAKE m \in Numbers
  <2>1. CASE m = n
    <3>1. {x \in {e} : x.acct = m} = {e}
      BY <1>2, <2>1
    <3>2. DeltaSum({e}) = amount
      BY <1>2, DeltaSumOne
    <3> QED BY <2>1, <3>1, <3>2
  <2>2. CASE m # n
    <3>1. {x \in {e} : x.acct = m} = {}
      BY <1>2, <2>2
    <3>2. DeltaSum({}) = 0
      BY DeltaSumOne
    <3> QED BY <2>2, <3>1, <3>2, SMTT(40)
  <2> QED BY <2>1, <2>2
<1>4. PICK kept \in SUBSET {e} : publishEvent({e}, kept)
  BY <1>1 DEF PublishOne
<1>5. IsFiniteSet({e})
  BY FS_Singleton
<1>6. \A x \in {e} : x.acct \in Numbers /\ Delta(x) \in Int
  BY <1>2
<1>7. ~KeyOK(EventKey(e)) /\ KeyOK(EventKey(e))'
  BY <1>2 DEF EventKey, KeyOK
<1> QED BY <1>3, <1>4, <1>5, <1>6, <1>7, PublishStep

\* ADM logs and applies an event, or finds it logged.
LEMMA EventStep ==
    ASSUME MirrorInv, NEW e \in events, handleEvent(e)
    PROVE  MirrorInv'
<1>1. UNCHANGED <<owner, balance, interest, lost>> /\ (events' = events \ {e} \/ events' = events)
  BY DEF handleEvent, ledger
<1>2. /\ IsFiniteSet(events) /\ \A x \in events : x.acct \in Numbers /\ Delta(x) \in Int
      /\ \A x, y \in events : EventKey(x) = EventKey(y) => x = y
      /\ \A k \in logged \cup {EventKey(x) : x \in events} : KeyOK(k)
      /\ mirror \in [Numbers -> Int] /\ lost \in [Numbers -> Int] /\ budget \in BudgetState
      /\ \A n \in Numbers : owner[n] = None => balance[n] = 0
  BY DEF MirrorInv
<1>3. KeysKept
  <2>1. budget' \in BudgetState /\ budget'.transfers = budget.transfers
    BY <1>2, Spending DEF handleEvent
  <2> QED BY <1>1, <1>2, <2>1 DEF KeysKept, BudgetState
<1>4. \A k : KeyOK(k) => KeyOK(k)'
  BY <1>2, <1>3, KeyStays
<1>5. events' \subseteq events /\ IsFiniteSet(events')
  BY <1>1, <1>2, FS_Subset
<1>6. logged' = logged \/ logged' = logged \cup {EventKey(e)}
  BY DEF handleEvent
<1>7. \A k \in logged' \cup {EventKey(x) : x \in events'} : KeyOK(k)'
  <2>1. \A k \in logged : KeyOK(k)'
    BY <1>2, <1>4
  <2>2. \A x \in events : KeyOK(EventKey(x))'
    BY <1>2, <1>4
  <2> QED BY <1>5, <1>6, <2>1, <2>2
<1>8. /\ mirror' \in [Numbers -> Int]
      /\ \A n \in Numbers :
            balance'[n] = mirror'[n] + lost'[n] + SumFunctionOnSet([x \in events' |-> Delta(x)], Pending(n)')
  <2>0. ASSUME NEW n \in Numbers
        PROVE  SumFunctionOnSet([x \in events' |-> Delta(x)], Pending(n)') = DeltaSum(Pending(n)')
    <3>1. Pending(n)' \in SUBSET events'
      BY DEF Pending
    <3> QED BY <1>5, <3>1, DeltaSumOver
  <2>1. CASE EventKey(e) \in logged /\ UNCHANGED <<logged, mirror>>
    <3>1. \A n \in Numbers : Pending(n)' = Pending(n)
      BY <1>1, <2>1 DEF Pending, EventKey
    <3>2. \A n \in Numbers : balance[n] = mirror[n] + lost[n] + DeltaSum(Pending(n))
      BY PendingSum
    <3> QED BY <1>1, <1>2, <2>0, <2>1, <3>1, <3>2
  <2>2. CASE /\ EventKey(e) \notin logged
             /\ logged' = logged \cup {EventKey(e)}
             /\ mirror' = [mirror EXCEPT ![e.acct] = @ + Delta(e)]
    <3>1. \A n \in Numbers : Pending(n)' = Pending(n) \ {e}
      BY <1>1, <1>2, <2>2 DEF Pending
    <3>2. e.acct \in Numbers /\ Delta(e) \in Int
      BY <1>2
    <3>3. mirror' \in [Numbers -> Int]
      BY <1>2, <2>2, <3>2
    <3>4. ASSUME NEW n \in Numbers
          PROVE  balance'[n] = mirror'[n] + lost'[n] + DeltaSum(Pending(n)')
      <4>1. balance[n] = mirror[n] + lost[n] + DeltaSum(Pending(n)) /\ IsFiniteSet(Pending(n))
            /\ \A x \in Pending(n) : Delta(x) \in Int
        BY PendingSum
      <4>2. mirror[n] \in Int /\ lost[n] \in Int
        BY <1>2
      <4>3. CASE n = e.acct
        <5> DEFINE rest == Pending(n) \ {e}
        <5>1. e \in Pending(n)
          BY <2>2, <4>3 DEF Pending
        <5>2. Pending(n) = {e} \cup rest /\ {e} \cap rest = {} /\ IsFiniteSet({e}) /\ IsFiniteSet(rest)
          BY <4>1, <5>1, FS_Singleton, FS_Subset
        <5>3. \A x \in {e} \cup rest : Delta(x) \in Int
          BY <3>2, <4>1
        <5>4. Pending(n)' = rest
          BY <3>1
        <5> HIDE DEF rest
        <5>5. /\ DeltaSum({e} \cup rest) = DeltaSum({e}) + DeltaSum(rest)
              /\ DeltaSum(rest) \in Int /\ DeltaSum({e}) = Delta(e)
          BY <3>2, <5>2, <5>3, DeltaSumUnion, DeltaSumOne
        <5>6. mirror'[n] = mirror[n] + Delta(e)
          BY <1>2, <2>2, <4>3
        <5> QED BY <1>1, <3>2, <4>1, <4>2, <5>2, <5>4, <5>5, <5>6
      <4>4. CASE n # e.acct
        <5>1. Pending(n)' = Pending(n)
          BY <3>1, <4>4 DEF Pending
        <5>2. mirror'[n] = mirror[n]
          BY <1>2, <2>2, <4>4
        <5> QED BY <1>1, <4>1, <5>1, <5>2
      <4> QED BY <4>3, <4>4
    <3> QED BY <2>0, <3>3, <3>4
  <2> QED BY <2>1, <2>2 DEF handleEvent
<1> QED BY <1>1, <1>2, <1>3, <1>5, <1>7, <1>8 DEF MirrorInv, KeysKept, Delta, EventKey

\* An account is created with its first balance.
LEMMA CreateKeepsMirror ==
    ASSUME MirrorInv, NameInv, BatchInv, NEW c \in Calls, handleCreateAccount(c)
    PROVE  MirrorInv'
<1>1. PICK n \in Numbers, q \in Customers : n = op[c].num /\ q = op[c].cust
  BY OpeningAssumption DEF handleCreateAccount, NameInv, CallOK
<1>2. CASE UNCHANGED unitVars
  <2>1. KeysKept
    BY <1>2 DEF unitVars, ledger, KeysKept, MirrorInv, BudgetState
  <2> QED BY <1>2, <2>1, MirrorStill DEF unitVars, ledger
<1>3. CASE /\ owner[n] = None
           /\ owner' = [owner EXCEPT ![n] = q]
           /\ balance' = [balance EXCEPT ![n] = InitBalance[q]]
           /\ IF InitBalance[q] > 0 THEN PublishOne(BalanceEvent(<<"init", n>>, n, "CREDIT", InitBalance[q]))
                                    ELSE UNCHANGED <<adm, budget>>
           /\ UNCHANGED interest
  <2>1. /\ InitBalance[q] \in Nat /\ q # None /\ balance \in [Numbers -> Nat] /\ balance[n] = 0
        /\ owner \in [Numbers -> Customers \cup {None}]
    BY <1>3, SegmentAssumption DEF MirrorInv, NameInv, NameTypes, BatchInv, BatchTypes
  <2>2. UNCHANGED budget \/ Spend("faults")
    BY <1>3 DEF PublishOne
  <2>3. KeysKept
    <3>1. budget' \in BudgetState /\ budget'.transfers = budget.transfers /\ budget.transfers \in Nat
      BY <2>2, Spending DEF MirrorInv, BudgetState
    <3> QED BY <1>3, <2>1, <3>1 DEF KeysKept
  <2>4. CASE InitBalance[q] > 0
    <3>1. ~KeyOK(<<<<"init", n>>, n, "CREDIT">>)
      BY <1>3 DEF KeyOK
    <3>2. KeyOK(<<<<"init", n>>, n, "CREDIT">>)'
      <4>1. owner'[n] # None
        BY <1>3, <2>1
      <4> QED BY <4>1 DEF KeyOK
    <3>3. \A m \in Numbers : owner'[m] = None => balance'[m] = 0
      BY <1>3, <2>1 DEF MirrorInv
    <3>4. balance' = [balance EXCEPT ![n] = @ + InitBalance[q]]
      <4>1. balance[n] + InitBalance[q] = InitBalance[q]
        BY <2>1
      <4>2. balance' = [balance EXCEPT ![n] = InitBalance[q]]
        BY <1>3
      <4> QED BY <4>1, <4>2
    <3>5. PublishOne(BalanceEvent(<<"init", n>>, n, "CREDIT", InitBalance[q]))
      BY <1>3, <2>4
    <3> QED BY <2>1, <2>3, <3>1, <3>2, <3>3, <3>4, <3>5, CreditStep
  <2>5. CASE ~(InitBalance[q] > 0)
    <3>1. balance' = balance /\ UNCHANGED adm
      BY <1>3, <2>1, <2>5
    <3> QED BY <2>3, <3>1, MirrorStill
  <2> QED BY <2>4, <2>5
<1> QED BY <1>1, <1>2, <1>3 DEF handleCreateAccount

\* Interest is posted once.
LEMMA PostKeepsMirror ==
    ASSUME MirrorInv, BatchInv, NEW r \in Runs, NEW u \in Units, PostInterest(r, u)
    PROVE  MirrorInv'
<1>1. PICK n \in Numbers, amount \in Nat \ {0} :
         /\ owner[n] # None
         /\ \/ UNCHANGED unitVars
            \/ /\ interest[n] = 0
               /\ interest' = [interest EXCEPT ![n] = amount]
               /\ balance' = [balance EXCEPT ![n] = @ + amount]
               /\ PublishOne(BalanceEvent(<<"interest", n>>, n, "CREDIT", amount))
               /\ UNCHANGED owner
  BY PostCases
<1>2. CASE UNCHANGED unitVars
  <2>1. KeysKept
    BY <1>2 DEF unitVars, ledger, KeysKept, MirrorInv, BudgetState
  <2> QED BY <1>2, <2>1, MirrorStill DEF unitVars, ledger
<1>3. CASE /\ interest[n] = 0
           /\ interest' = [interest EXCEPT ![n] = amount]
           /\ balance' = [balance EXCEPT ![n] = @ + amount]
           /\ PublishOne(BalanceEvent(<<"interest", n>>, n, "CREDIT", amount))
           /\ UNCHANGED owner
  <2>1. interest \in [Numbers -> Nat] /\ balance \in [Numbers -> Nat]
    BY DEF BatchInv, BatchTypes
  <2>2. UNCHANGED budget \/ Spend("faults")
    BY <1>3 DEF PublishOne
  <2>3. KeysKept
    <3>1. budget' \in BudgetState /\ budget'.transfers = budget.transfers /\ budget.transfers \in Nat
      BY <2>2, Spending DEF MirrorInv, BudgetState
    <3> QED BY <1>3, <2>1, <3>1 DEF KeysKept
  <2>4. ~KeyOK(<<<<"interest", n>>, n, "CREDIT">>)
    BY <1>3 DEF KeyOK
  <2>5. KeyOK(<<<<"interest", n>>, n, "CREDIT">>)'
    <3>1. interest'[n] # 0
      BY <1>3, <2>1
    <3> QED BY <3>1 DEF KeyOK
  <2>6. \A m \in Numbers : owner'[m] = None => balance'[m] = 0
    BY <1>1, <1>3, <2>1 DEF MirrorInv
  <2> QED BY <1>3, <2>1, <2>3, <2>4, <2>5, <2>6, CreditStep
<1> QED BY <1>1, <1>2, <1>3

\* A transfer and its two events.
LEMMA TransferKeepsMirror ==
    ASSUME MirrorInv, BatchInv, NEW from \in Numbers, NEW to \in Numbers, Transfer(from, to)
    PROVE  MirrorInv'
<1>1. PICK debit, credit :
        /\ debit = BalanceEvent(<<"local", budget.transfers>>, from, "DEBIT", 1)
        /\ credit = BalanceEvent(<<"local", budget.transfers>>, to, "CREDIT", 1)
  OBVIOUS
<1>2. /\ debit.acct = from /\ Delta(debit) = -1
      /\ EventKey(debit) = <<<<"local", budget.transfers>>, from, "DEBIT">>
      /\ credit.acct = to /\ Delta(credit) = 1
      /\ EventKey(credit) = <<<<"local", budget.transfers>>, to, "CREDIT">>
      /\ debit # credit
  BY <1>1 DEF BalanceEvent, Delta, EventKey
<1> DEFINE es == {debit, credit}
<1>3. PICK kept \in SUBSET es : /\ publishEvent(es, kept)
                                /\ Spend("transfers") \/ SpendBoth("transfers", "faults")
  BY <1>1 DEF Transfer, localTransfer
<1>4. /\ owner[from] # None /\ owner[to] # None /\ UNCHANGED <<owner, interest>>
      /\ balance' = [balance EXCEPT ![from] = @ - 1, ![to] = @ + 1]
  BY DEF Transfer, localTransfer
<1>5. budget \in BudgetState /\ budget' \in BudgetState /\ budget.transfers \in Nat
      /\ budget'.transfers = budget.transfers - 1 /\ budget.transfers > 0
  <2>1. CASE Spend("transfers")
    BY <2>1 DEF Spend, MirrorInv, BudgetState
  <2>2. CASE SpendBoth("transfers", "faults")
    BY <2>2 DEF SpendBoth, MirrorInv, BudgetState
  <2> QED BY <1>3, <2>1, <2>2
<1>6. KeysKept
  BY <1>4, <1>5 DEF KeysKept
<1>7. \A e \in es : e.acct \in Numbers /\ Delta(e) \in Int
  BY <1>2
<1>8. \A e \in es : ~KeyOK(EventKey(e)) /\ KeyOK(EventKey(e))'
  <2>1. \A n \in Numbers : \A dir \in {"DEBIT", "CREDIT"} : ~KeyOK(<<<<"local", budget.transfers>>, n, dir>>)
    BY <1>5 DEF KeyOK
  <2>2. \A t \in Nat : \A n \in Numbers : \A dir \in {"DEBIT", "CREDIT"} :
           t > budget'.transfers => KeyOK(<<<<"local", t>>, n, dir>>)'
    BY DEF KeyOK
  <2>3. budget.transfers > budget'.transfers
    BY <1>5
  <2>4. PICK t \in Nat : t = budget.transfers
    BY <1>5
  <2>5. \A n \in Numbers : \A dir \in {"DEBIT", "CREDIT"} :
           ~KeyOK(<<<<"local", t>>, n, dir>>) /\ KeyOK(<<<<"local", t>>, n, dir>>)'
    BY <2>1, <2>2, <2>3, <2>4
  <2>6. PICK k, l : /\ k = <<<<"local", t>>, from, "DEBIT">> /\ l = <<<<"local", t>>, to, "CREDIT">>
                    /\ EventKey(debit) = k /\ EventKey(credit) = l
    BY <1>2, <2>4
  <2>7. ~KeyOK(k) /\ KeyOK(k)' /\ ~KeyOK(l) /\ KeyOK(l)'
    <3>1. ~KeyOK(k) /\ ~KeyOK(l)
      BY <2>5, <2>6
    <3>2. KeyOK(k)' /\ KeyOK(l)'
      BY <2>5, <2>6 DEF KeyOK
    <3> QED BY <3>1, <3>2
  <2> QED BY <2>6, <2>7 DEF EventKey
<1>9. \A e, f \in es : EventKey(e) = EventKey(f) => e = f
  BY <1>2
<1>10. \A n \in Numbers : owner'[n] = None => balance'[n] = 0
  BY <1>4 DEF MirrorInv, BatchInv, BatchTypes
<1>11. ASSUME NEW n \in Numbers
       PROVE  balance'[n] = balance[n] + DeltaSum({e \in es : e.acct = n})
  <2>0. balance[n] \in Nat /\ balance \in [Numbers -> Nat] /\ -1 \in Int
    BY DEF BatchInv, BatchTypes
  <2>1. DeltaSum({debit}) = -1 /\ DeltaSum({credit}) = 1 /\ DeltaSum({}) = 0
    BY <1>2, <2>0, DeltaSumOne
  <2>2. CASE n = from /\ n = to
    <3>1. {e \in es : e.acct = n} = {debit} \cup {credit} /\ {debit} \cap {credit} = {}
      BY <1>2, <2>2
    <3>2. IsFiniteSet({debit}) /\ IsFiniteSet({credit})
      BY FS_Singleton
    <3>3. \A e \in {debit} \cup {credit} : Delta(e) \in Int
      BY <1>2
    <3>4. DeltaSum({debit} \cup {credit}) = DeltaSum({debit}) + DeltaSum({credit})
      BY <3>1, <3>2, <3>3, DeltaSumUnion
    <3>5. balance'[n] = balance[n]
      BY <1>4, <2>0, <2>2
    <3>6. DeltaSum({debit} \cup {credit}) = 0
      BY <2>1, <3>4
    <3>7. PICK both : both = {e \in es : e.acct = n} /\ both = {debit} \cup {credit}
      BY <3>1
    <3>8. DeltaSum(both) = 0
      BY <3>6, <3>7
    <3>9. balance'[n] = balance[n] + DeltaSum(both)
      BY <2>0, <3>5, <3>8
    <3> HIDE DEF es
    <3> QED BY <3>7, <3>9
  <2>3. CASE n = from /\ n # to
    <3>1. {e \in es : e.acct = n} = {debit}
      BY <1>2, <2>3
    <3>2. balance'[n] = balance[n] - 1
      BY <1>4, <2>0, <2>3
    <3> QED BY <2>0, <2>1, <3>1, <3>2
  <2>4. CASE n # from /\ n = to
    <3>1. {e \in es : e.acct = n} = {credit}
      BY <1>2, <2>4
    <3>2. balance'[n] = balance[n] + 1
      BY <1>4, <2>0, <2>4
    <3> QED BY <2>0, <2>1, <3>1, <3>2
  <2>5. CASE n # from /\ n # to
    <3>1. {e \in es : e.acct = n} = {}
      BY <1>2, <2>5
    <3>2. balance'[n] = balance[n]
      BY <1>4, <2>0, <2>5
    <3> QED BY <2>0, <2>1, <3>1, <3>2
  <2> QED BY <2>2, <2>3, <2>4, <2>5
<1>12. IsFiniteSet(es)
  <2>1. IsFiniteSet({debit}) /\ IsFiniteSet({credit})
    BY FS_Singleton
  <2>2. IsFiniteSet({debit} \cup {credit})
    BY <2>1, FS_Union
  <2>3. es = {debit} \cup {credit}
    OBVIOUS
  <2> HIDE DEF es
  <2> QED BY <2>2, <2>3
<1>13. publishEvent(es, kept) /\ kept \in SUBSET es
  BY <1>3
<1> HIDE DEF es
<1> QED BY <1>6, <1>7, <1>8, <1>9, <1>10, <1>11, <1>12, <1>13, PublishStep

\* Steps that move no money.
LEMMA MoneyStill ==
    ASSUME MirrorInv, UNCHANGED <<ledger, adm>>,
           \/ UNCHANGED budget
           \/ Spend("calls") \/ Spend("cache") \/ Spend("runs") \/ Spend("faults")
    PROVE  MirrorInv'
<1>1. budget' \in BudgetState /\ budget'.transfers = budget.transfers /\ budget.transfers \in Nat
  BY Spending DEF MirrorInv, BudgetState
<1>2. KeysKept /\ UNCHANGED balance
  BY <1>1 DEF KeysKept, ledger
<1> QED BY <1>2, MirrorStill

\* A step of the composition.
LEMMA MirrorInvStep ==
    ASSUME MirrorInv, NameInv, BatchInv, [Next]_vars
    PROVE  MirrorInv'
<1>1. CASE NameServiceNext
  <2>1. ASSUME NEW c \in Calls, OpenAccount(c) PROVE MirrorInv'
    <3>1. CASE handleCreateAccount(c)
      BY <3>1, CreateKeepsMirror
    <3>2. CASE ~handleCreateAccount(c)
      BY <2>1, <3>2, MoneyStill DEF OpenAccount, Find, Pick, ReadMax, Insert, InsertRoute, TryAgain, Created,
         CreateFails, Rollback, unitVars
    <3> QED BY <3>1, <3>2
  <2>2. ASSUME NEW n \in Numbers, Locate(n) \/ CacheExpires(n) PROVE MirrorInv'
    BY <2>2, MoneyStill DEF Locate, CacheExpires
  <2>3. ASSUME NEW u \in Units, handleAddRoute(u) PROVE MirrorInv'
    BY <2>3, MoneyStill DEF handleAddRoute, unitVars
  <2>4. CASE GnsCrash
    BY <2>4, MoneyStill DEF GnsCrash
  <2> QED BY <1>1, <2>1, <2>2, <2>3, <2>4 DEF NameServiceNext
<1>2. CASE InterestNext(segs)
  <2>1. ASSUME NEW r \in Runs, ReadJob(r) \/ RunStep(r, segs) PROVE MirrorInv'
    BY <2>1, MoneyStill DEF RunStep, ReadJob, InsertJob, UpdateJob, FetchActiveRoutes, UnitResult, SaveRow,
       RowRefused, AllSaved, finishJob, unitVars
  <2>2. ASSUME NEW r \in Runs, NEW u \in Units, ListAccounts(r, u) \/ UnitFails(r, u) PROVE MirrorInv'
    BY <2>2, MoneyStill DEF ListAccounts, UnitFails, unitVars
  <2>3. CASE JobAges \/ SchedulerCrash
    BY <2>3, MoneyStill DEF JobAges, SchedulerCrash, unitVars
  <2> QED BY <1>2, <2>1, <2>2, <2>3, PostKeepsMirror DEF InterestNext, UnitStep
<1>3. CASE \E e \in events : handleEvent(e)
  BY <1>3, EventStep
<1>4. ASSUME NEW from \in Numbers, NEW to \in Numbers, Transfer(from, to) PROVE MirrorInv'
  BY <1>4, TransferKeepsMirror
<1>5. CASE UNCHANGED vars
  BY <1>5, MoneyStill DEF vars, unitVars
<1> QED BY <1>1, <1>2, <1>3, <1>4, <1>5 DEF Next

\* At the start the seed's accounts are mirrored and nothing is on its way.
LEMMA MirrorInvInit == Init => MirrorInv
<1> SUFFICES ASSUME Init PROVE MirrorInv
  OBVIOUS
<1>1. \A n \in Numbers : ExistingBalance(n) \in Nat
  BY ServicesAssumption, SegmentAssumption DEF ExistingBalance
<1>2. events = {} /\ \A n \in Numbers : Pending(n) = {} /\ mirror[n] = ExistingBalance(n) /\ lost[n] = 0
                                        /\ balance[n] = ExistingBalance(n)
  BY DEF Init, Pending
<1>3. mirror \in [Numbers -> Int] /\ lost \in [Numbers -> Int]
  BY <1>1 DEF Init
<1>4. \A n \in Numbers :
          balance[n] = mirror[n] + lost[n] + SumFunctionOnSet([e \in events |-> Delta(e)], Pending(n))
  <2> TAKE n \in Numbers
  <2>1. SumFunctionOnSet([e \in events |-> Delta(e)], Pending(n)) = 0
    BY <1>2, SumEmpty
  <2> QED BY <1>1, <1>2, <2>1
<1>5. \A k \in logged : KeyOK(k)
  <2> SUFFICES ASSUME NEW k \in logged PROVE KeyOK(k)
    OBVIOUS
  <2>1. PICK n \in DOMAIN Existing :
           k = EventKey(BalanceEvent(<<"init", n>>, n, "CREDIT", ExistingBalance(n)))
    BY DEF Init
  <2>2. k = <<<<"init", n>>, n, "CREDIT">> /\ n \in Numbers
    BY <2>1, ServicesAssumption DEF EventKey, BalanceEvent
  <2>3. owner[n] # None
    BY <2>2, ServicesAssumption, SegmentAssumption DEF Init
  <2> QED BY <2>2, <2>3 DEF KeyOK
<1>6. \A n \in Numbers : owner[n] = None => balance[n] = 0
  <2> SUFFICES ASSUME NEW n \in Numbers, owner[n] = None PROVE balance[n] = 0
    OBVIOUS
  <2>1. n \notin DOMAIN Existing
    BY ServicesAssumption, SegmentAssumption DEF Init
  <2> QED BY <1>2, <2>1 DEF ExistingBalance
<1>7. budget \in BudgetState
  BY ServicesAssumption DEF Init, BudgetState
<1> QED BY <1>2, <1>3, <1>4, <1>5, <1>6, <1>7, FS_EmptySet DEF MirrorInv

\* What holds of the three services in every state.
LEMMA MirrorInvariant == Spec => [](NameInv /\ BatchInv /\ MirrorInv)
<1>1. Init => NameInv /\ BatchInv /\ MirrorInv
  BY NameInvInit, BatchInvInit, MirrorInvInit
<1>2. NameInv /\ BatchInv /\ MirrorInv /\ [Next]_vars => (NameInv /\ BatchInv /\ MirrorInv)'
  BY NameInvStep, BatchInvStep, MirrorInvStep
<1> QED BY <1>1, <1>2, PTL DEF Spec

\* The mirror of an account differs from its balance by exactly the events on their way or lost: none is applied
\* twice or under another's key, whatever is delivered again (adm/server.go handleEvent).
THEOREM MirrorExactTheorem == Spec => []MirrorExact
<1>1. NameInv /\ BatchInv /\ MirrorInv => MirrorExact
  BY DEF NameInv, NameTypes, OpState, PostState, BatchInv, BatchTypes, RunState, WorkState, MirrorInv, MirrorExact,
     TypeOK
<1> QED BY <1>1, MirrorInvariant, PTL

---------------------------------------------------------------------------
(* The totals of a job *)

\* The numbers of some units, and what a function adds up to on those of one.
NumbersOf(V) == {n \in Numbers : UnitOf(n) \in V}
PartSum(f, u) == SumFunctionOnSet(f, NumbersOf({u}))

\* A unit has finitely many numbers.
LEMMA NumbersFinite == \A V \in SUBSET Units : IsFiniteSet(NumbersOf(V))
<1> DEFINE B == {V \in SUBSET Units : ~IsFiniteSet(NumbersOf(V))}
<1>1. CASE B # {}
  <2>0. B \subseteq SUBSET Units /\ IsFiniteSet(Units)
    BY ServicesAssumption
  <2> HIDE DEF B
  <2>1. PICK V \in B : \A W \in B : W \subseteq V => W = V
    BY <1>1, <2>0, LeastSubset
  <2> USE DEF B
  <2>2. V # {}
    <3>1. NumbersOf({}) = {}
      BY DEF NumbersOf
    <3> QED BY <3>1, FS_EmptySet
  <2>3. PICK u : u \in V /\ u \in Units
    BY <2>2
  <2>4. V \ {u} \in SUBSET Units /\ V \ {u} \notin B
    BY <2>1, <2>3
  <2>5. NumbersOf(V) = NumbersOf(V \ {u}) \cup NumbersOf({u})
    BY <2>3 DEF NumbersOf
  <2>6. IsFiniteSet(NumbersOf({u}))
    <3>1. Seg[u].start + 1 \in Int /\ Seg[u].end \in Int
      BY <2>3, SegmentAssumption
    <3>2. IsFiniteSet(Seg[u].start + 1 .. Seg[u].end)
      BY <3>1, FS_Interval
    <3>3. NumbersOf({u}) \subseteq Seg[u].start + 1 .. Seg[u].end
      BY UnitFacts DEF NumbersOf
    <3> QED BY <3>2, <3>3, FS_Subset
  <2>7. IsFiniteSet(NumbersOf(V \ {u})) /\ ~IsFiniteSet(NumbersOf(V))
    BY <2>4
  <2> HIDE DEF B
  <2> QED BY <2>5, <2>6, <2>7, FS_Union
<1> QED BY <1>1

\* All numbers are the numbers of all units.
LEMMA AllNumbers == NumbersOf(Units) = Numbers /\ IsFiniteSet(Numbers)
<1>1. NumbersOf(Units) = Numbers
  BY UnitFacts DEF NumbersOf
<1> QED BY <1>1, NumbersFinite

\* What a function adds up to, unit by unit.
LEMMA SumByUnit ==
    ASSUME NEW f \in [Numbers -> Nat]
    PROVE  /\ \A u \in Units : PartSum(f, u) \in Nat
           /\ SumFunction(f) \in Nat
           /\ SumFunction(f) = SumFunctionOnSet([u \in Units |-> PartSum(f, u)], Units)
<1> DEFINE p == [u \in Units |-> PartSum(f, u)]
           B == {V \in SUBSET Units : SumFunctionOnSet(f, NumbersOf(V)) # SumFunctionOnSet(p, V)}
<1>1. \A V \in SUBSET Units : IsFiniteSet(V) /\ IsFiniteSet(NumbersOf(V)) /\ SumFunctionOnSet(f, NumbersOf(V)) \in Nat
                              /\ \A n \in NumbersOf(V) : f[n] \in Nat
  <2> TAKE V \in SUBSET Units
  <2>1. IsFiniteSet(V) /\ IsFiniteSet(NumbersOf(V)) /\ \A n \in NumbersOf(V) : f[n] \in Nat
    BY NumbersFinite, FS_Subset, ServicesAssumption DEF NumbersOf
  <2> QED BY <2>1, SumType
<1>2. \A u \in Units : p[u] = PartSum(f, u) /\ PartSum(f, u) \in Nat
  BY <1>1 DEF PartSum
<1> HIDE DEF p
<1>3. CASE B # {}
  <2>0. B \subseteq SUBSET Units /\ IsFiniteSet(Units)
    BY ServicesAssumption
  <2> HIDE DEF B
  <2>1. PICK V \in B : \A W \in B : W \subseteq V => W = V
    BY <1>3, <2>0, LeastSubset
  <2>2. V \in SUBSET Units /\ IsFiniteSet(V)
    BY <1>1, <2>0
  <2>3. CASE V = {}
    <3>1. NumbersOf({}) = {}
      BY DEF NumbersOf
    <3> QED BY <2>3, <3>1, SumEmpty DEF B
  <2>4. CASE V # {}
    <3>1. PICK u : u \in V /\ u \in Units
      BY <2>2, <2>4
    <3>2. PICK W \in SUBSET Units : W = V \ {u} /\ W \notin B
      <4>1. V \ {u} \in SUBSET Units /\ V \ {u} # V /\ V \ {u} \subseteq V
        BY <2>2, <3>1
      <4> QED BY <2>1, <4>1
    <3>3. NumbersOf(V) = NumbersOf(W) \cup NumbersOf({u}) /\ NumbersOf(W) \cap NumbersOf({u}) = {}
      BY <3>1, <3>2 DEF NumbersOf
    <3>4. {u} \in SUBSET Units
      BY <3>1
    <3>5. /\ IsFiniteSet(NumbersOf(W)) /\ IsFiniteSet(NumbersOf({u}))
          /\ \A n \in NumbersOf(W) \cup NumbersOf({u}) : f[n] \in Int
      BY <1>1, <3>4
    <3>6. SumFunctionOnSet(f, NumbersOf(V)) = SumFunctionOnSet(f, NumbersOf(W)) + PartSum(f, u)
      <4>1. SumFunctionOnSet(f, NumbersOf(W) \cup NumbersOf({u}))
               = SumFunctionOnSet(f, NumbersOf(W)) + SumFunctionOnSet(f, NumbersOf({u}))
        BY <3>3, <3>5, SumUnion
      <4> QED BY <3>3, <4>1 DEF PartSum
    <3>7. \A v \in V : p[v] \in Int
      BY <1>2, <2>2
    <3>8. SumFunctionOnSet(p, V) = p[u] + SumFunctionOnSet(p, W)
      BY <2>2, <3>1, <3>2, <3>7, SumRemove
    <3>9. SumFunctionOnSet(f, NumbersOf(W)) = SumFunctionOnSet(p, W) /\ SumFunctionOnSet(f, NumbersOf(W)) \in Nat
      BY <1>1, <3>2 DEF B
    <3>10. p[u] = PartSum(f, u) /\ PartSum(f, u) \in Nat
      BY <1>2, <3>1
    <3>11. SumFunctionOnSet(f, NumbersOf(V)) = SumFunctionOnSet(p, V)
      BY <3>6, <3>8, <3>9, <3>10
    <3> QED BY <3>11 DEF B
  <2> QED BY <2>3, <2>4
<1>4. CASE B = {}
  <2>1. Units \notin B
    BY <1>4
  <2>2. SumFunctionOnSet(f, NumbersOf(Units)) = SumFunctionOnSet(p, Units)
    BY <2>1
  <2>3. SumFunction(f) = SumFunctionOnSet(f, NumbersOf(Units))
    BY AllNumbers DEF SumFunction
  <2> QED BY <1>1, <1>2, <2>2, <2>3 DEF p
<1> QED BY <1>3, <1>4

\* What a unit has posted.
InterestOf(u) == PartSum(interest, u)

\* What the calls of a run have counted.
Totals(r) == [u \in Units |-> work[r][u].total]

\* The units whose answer a run has added up.
Answered(r) == {u \in Units : run[r].res[u] = "ok"}

\* The run has started the job and not closed it.
Started(r) == run[r].pc \in {"routes", "wait", "finish"}

\* The run has called units, or is about to.
Fetched(r) == Started(r) \/ \E u \in Units : work[r][u].pc # "none"

\* What a call counts was posted in its unit.
PartOK(r, u) ==
    /\ work[r][u].total <= InterestOf(u)
    /\ work[r][u].pc \in {"none", "list"} => work[r][u].total = 0
    /\ run[r].pc \in {"insert", "update", "routes"} => work[r][u].pc = "none"

\* What a run counts was posted.
CountOK(r) ==
    /\ \A u \in Units : PartOK(r, u)
    /\ run[r].pc = "wait" =>
          /\ \A u \in Units : run[r].res[u] = "ok" => work[r][u].pc = "done"
          /\ run[r].total = SumFunctionOnSet(Totals(r), Answered(r))
    /\ run[r].total <= SumFunction(interest)
    /\ run[r].pc \in {"idle", "insert", "update", "routes"} => run[r].total = 0

\* The only run of a job posts everything.
FirstRun(r) ==
    Started(r) =>
        /\ \A u \in Units : InterestOf(u) = work[r][u].total
        /\ run[r].pc = "routes" => \A u \in Units : unitRow[u] = 0
        /\ run[r].pc = "wait" =>
              \A u \in Units : /\ run[r].res[u] = "off" => work[r][u].pc = "none" /\ unitRow[u] = 0
                               /\ run[r].res[u] = "ok" /\ u \notin run[r].unsaved => unitRow[u] = work[r][u].total
        /\ run[r].pc = "finish" /\ run[r].status = "SUCCEEDED" =>
              /\ run[r].total = SumFunction(interest) /\ SumFunction(unitRow) = run[r].total
              /\ \A u \in Units : work[r][u].pc \in {"none", "done"}

\* The run has ended, and so have its calls.
Resting(r) == ~Started(r) /\ \A u \in Units : work[r][u].pc \in {"none", "done"}

\* The counts are right; those of a job that was started once are exact.
TotalsInv ==
    /\ \A r \in Runs : CountOK(r)
    /\ job.total <= SumFunction(interest)
    /\ starts = 0 <=> job.status = "none"
    /\ starts = 0 => /\ \A r \in Runs : ~Fetched(r)
                     /\ \A n \in Numbers : interest[n] = 0
                     /\ \A u \in Units : unitRow[u] = 0
    /\ starts = 1 => /\ \A r, q \in Runs : Fetched(r) /\ Fetched(q) => r = q
                     /\ \A r \in Runs : FirstRun(r)
                     /\ job.status = "SUCCEEDED" =>
                          /\ job.total = SumFunction(interest) /\ SumFunction(unitRow) = job.total
                          /\ \A r \in Runs : Resting(r)

\* Interest adds up to naturals.
LEMMA InterestTypes ==
    ASSUME BatchInv
    PROVE  (\A u \in Units : InterestOf(u) \in Nat) /\ SumFunction(interest) \in Nat
BY SumByUnit DEF BatchInv, BatchTypes, InterestOf

\* One account more has got its interest.
LEMMA PostedInterest ==
    ASSUME BatchInv, NEW n \in Numbers, NEW a \in Nat, interest[n] = 0, interest' = [interest EXCEPT ![n] = a]
    PROVE  /\ InterestOf(UnitOf(n))' = InterestOf(UnitOf(n)) + a
           /\ \A u \in Units : u # UnitOf(n) => InterestOf(u)' = InterestOf(u)
           /\ SumFunction(interest)' = SumFunction(interest) + a
<1>1. /\ interest \in [Numbers -> Nat] /\ interest' \in [Numbers -> Nat] /\ interest'[n] = a
      /\ \A m \in Numbers : m # n => interest'[m] = interest[m]
  BY DEF BatchInv, BatchTypes
<1>0. PICK f, g : f = interest /\ g = interest'
  OBVIOUS
<1>6. /\ f[n] = 0 /\ g[n] = a /\ \A m \in Numbers : f[m] \in Nat
      /\ \A m \in Numbers : m # n => g[m] = f[m]
  BY <1>0, <1>1
<1>2. PICK u \in Units : u = UnitOf(n)
  BY UnitFacts
<1>3. InterestOf(u)' = InterestOf(u) + a
  <2>1. IsFiniteSet(NumbersOf({u})) /\ n \in NumbersOf({u}) /\ NumbersOf({u}) \subseteq Numbers
    BY <1>2, NumbersFinite DEF NumbersOf
  <2>2. /\ \A x \in NumbersOf({u}) : f[x] \in Nat
        /\ \A x \in NumbersOf({u}) : x # n => g[x] = f[x]
    BY <1>6, <2>1
  <2>3. PICK S : S = NumbersOf({u})
    OBVIOUS
  <2>4. IsFiniteSet(S) /\ n \in S /\ (\A x \in S : f[x] \in Nat) /\ \A x \in S : x # n => g[x] = f[x]
    BY <2>1, <2>2, <2>3
  <2>5. SumFunctionOnSet(g, S) = SumFunctionOnSet(f, S) + a
    BY <1>6, <2>4, SumChange
  <2> QED BY <1>0, <2>3, <2>5 DEF InterestOf, PartSum
<1>4. ASSUME NEW v \in Units, v # u PROVE InterestOf(v)' = InterestOf(v)
  <2>1. IsFiniteSet(NumbersOf({v})) /\ \A x \in NumbersOf({v}) : interest'[x] = interest[x]
    BY <1>1, <1>2, <1>4, NumbersFinite DEF NumbersOf
  <2>2. SumFunctionOnSet(interest', NumbersOf({v})) = SumFunctionOnSet(interest, NumbersOf({v}))
    BY <2>1, SumAgree, ZenonT(60)
  <2> QED BY <2>2 DEF InterestOf, PartSum
<1>5. SumFunction(interest)' = SumFunction(interest) + a
  <2>1. IsFiniteSet(Numbers)
    BY AllNumbers
  <2>2. SumFunctionOnSet(g, Numbers) = SumFunctionOnSet(f, Numbers) + a
    BY <1>6, <2>1, SumChange
  <2> QED BY <1>0, <1>1, <2>2 DEF SumFunction
<1> QED BY <1>2, <1>3, <1>4, <1>5

\* What the calls of a run count together was posted.
LEMMA TotalsBelow ==
    ASSUME BatchInv, NEW r \in Runs, \A u \in Units : work[r][u].total <= InterestOf(u), NEW T \in SUBSET Units
    PROVE  /\ SumFunctionOnSet(Totals(r), T) \in Nat
           /\ SumFunctionOnSet(Totals(r), T) <= SumFunction(interest)
<1> DEFINE p == [u \in Units |-> InterestOf(u)]
<1>1. \A u \in Units : Totals(r)[u] \in Nat /\ p[u] \in Nat /\ Totals(r)[u] <= p[u]
  BY InterestTypes DEF Totals, BatchInv, BatchTypes, WorkState
<1>2. IsFiniteSet(Units)
  BY ServicesAssumption
<1>3. SumFunction(interest) = SumFunctionOnSet(p, Units) /\ SumFunction(interest) \in Nat
  BY SumByUnit DEF BatchInv, BatchTypes, InterestOf
<1> HIDE DEF p
<1>4. SumFunctionOnSet(Totals(r), Units) <= SumFunctionOnSet(p, Units)
  BY <1>1, <1>2, SumLess
<1>5. /\ SumFunctionOnSet(Totals(r), T) \in Nat /\ SumFunctionOnSet(Totals(r), Units) \in Nat
      /\ SumFunctionOnSet(Totals(r), T) <= SumFunctionOnSet(Totals(r), Units)
  BY <1>1, <1>2, SumPart
<1> QED BY <1>3, <1>4, <1>5

\* Nothing that was posted is taken back.
Growing ==
    /\ \A u \in Units : InterestOf(u) \in Nat /\ InterestOf(u)' \in Nat /\ InterestOf(u) <= InterestOf(u)'
    /\ SumFunction(interest) \in Nat /\ SumFunction(interest)' \in Nat
    /\ SumFunction(interest) <= SumFunction(interest)'

\* A run that does not move.
LEMMA CountFrame ==
    ASSUME BatchInv, Growing, NEW r \in Runs, CountOK(r), run'[r] = run[r], work'[r] = work[r]
    PROVE  CountOK(r)'
<1>1. \A u \in Units : work[r][u].total \in Nat
  BY DEF BatchInv, BatchTypes, WorkState
<1>2. run[r].total \in Nat
  BY DEF BatchInv, BatchTypes, RunState
<1>3. \A u \in Units : PartOK(r, u)'
  BY <1>1 DEF CountOK, PartOK, Growing
<1>4. Totals(r)' = Totals(r) /\ Answered(r)' = Answered(r)
  BY DEF Totals, Answered
<1>5. run[r].total <= SumFunction(interest)'
  BY <1>2 DEF CountOK, Growing
<1> QED BY <1>3, <1>4, <1>5 DEF CountOK

\* The only run, while neither it nor what it counts changes.
LEMMA FirstFrame ==
    ASSUME NEW r \in Runs, FirstRun(r), run'[r] = run[r], work'[r] = work[r], UNCHANGED <<interest, unitRow>>
    PROVE  FirstRun(r)'
<1>1. \A u \in Units : InterestOf(u)' = InterestOf(u)
  BY DEF InterestOf
<1>2. Started(r)' <=> Started(r)
  BY DEF Started
<1> QED BY <1>1, <1>2 DEF FirstRun

\* Interest does not change.
LEMMA InterestSame ==
    ASSUME BatchInv, UNCHANGED interest
    PROVE  /\ Growing /\ \A u \in Units : InterestOf(u)' = InterestOf(u)
           /\ SumFunction(interest)' = SumFunction(interest)
<1>1. \A u \in Units : InterestOf(u)' = InterestOf(u)
  BY DEF InterestOf
<1>2. SumFunction(interest)' = SumFunction(interest)
  OBVIOUS
<1> QED BY <1>1, <1>2, InterestTypes DEF Growing

\* No other run moves.
Alone(r) == \A q \in Runs : q # r => run'[q] = run[q] /\ work'[q] = work[q]

\* A step of one run that posts nothing and does not start the job.
LEMMA TotalsStep ==
    ASSUME BatchInv, TotalsInv, NEW r \in Runs, Alone(r), UNCHANGED <<interest, starts>>,
           job'.status = "none" <=> job.status = "none", job'.total <= SumFunction(interest),
           CountOK(r)', unitRow' # unitRow => Fetched(r), Fetched(r)' => Fetched(r),
           starts = 1 => FirstRun(r)',
           starts = 1 /\ job'.status = "SUCCEEDED" =>
              /\ Resting(r)'
              /\ \/ job' = job /\ unitRow' = unitRow
                 \/ job'.total = SumFunction(interest) /\ SumFunction(unitRow') = job'.total /\ Started(r)
    PROVE  TotalsInv'
<1>0. Growing /\ SumFunction(interest)' = SumFunction(interest)
  BY InterestSame
<1>1. \A q \in Runs : CountOK(q)'
  <2> TAKE q \in Runs
  <2>1. CASE q # r
    BY <1>0, <2>1, CountFrame DEF TotalsInv, Alone
  <2> QED BY <2>1
<1>2. \A q \in Runs : q # r => (Started(q)' <=> Started(q)) /\ (Fetched(q)' <=> Fetched(q)) /\ (Resting(q)' <=> Resting(q))
  BY DEF Alone, Started, Fetched, Resting
<1>3. starts = 0 => /\ \A q \in Runs : ~Fetched(q)'
                    /\ \A n \in Numbers : interest'[n] = 0
                    /\ \A u \in Units : unitRow'[u] = 0
  BY <1>2 DEF TotalsInv
<1>4. ASSUME starts = 1
      PROVE  /\ \A p, q \in Runs : Fetched(p)' /\ Fetched(q)' => p = q
             /\ \A q \in Runs : FirstRun(q)'
             /\ job'.status = "SUCCEEDED" =>
                  /\ job'.total = SumFunction(interest)' /\ SumFunction(unitRow)' = job'.total
                  /\ \A q \in Runs : Resting(q)'
  <2>1. \A p, q \in Runs : Fetched(p) /\ Fetched(q) => p = q
    BY <1>4 DEF TotalsInv
  <2>2. \A q \in Runs : Fetched(q)' => Fetched(q)
    BY <1>2
  <2>3. ASSUME NEW q \in Runs PROVE FirstRun(q)'
    <3>1. CASE q = r
      BY <1>4, <3>1
    <3>2. CASE q # r /\ ~Started(q)
      BY <1>2, <3>2 DEF FirstRun
    <3>3. CASE q # r /\ Started(q)
      <4>1. unitRow' = unitRow
        BY <2>1, <3>3 DEF Fetched
      <4>2. FirstRun(q) /\ run'[q] = run[q] /\ work'[q] = work[q]
        BY <1>4, <3>3 DEF TotalsInv, Alone
      <4> QED BY <4>1, <4>2, FirstFrame
    <3> QED BY <3>1, <3>2, <3>3
  <2>4. ASSUME job'.status = "SUCCEEDED"
        PROVE  /\ job'.total = SumFunction(interest)' /\ SumFunction(unitRow)' = job'.total
               /\ \A q \in Runs : Resting(q)'
    <3>1. CASE job' = job /\ unitRow' = unitRow
      <4>1. \A q \in Runs : q # r => Resting(q)'
        BY <1>2, <1>4, <2>4, <3>1 DEF TotalsInv
      <4>2. job'.total = SumFunction(interest)' /\ SumFunction(unitRow)' = job'.total
        BY <1>4, <2>4, <3>1 DEF TotalsInv
      <4> QED BY <1>4, <2>4, <4>1, <4>2
    <3>2. CASE job'.total = SumFunction(interest) /\ SumFunction(unitRow') = job'.total /\ Started(r)
      <4>1. \A q \in Runs : q # r => ~Fetched(q)
        BY <2>1, <3>2 DEF Fetched
      <4>2. \A q \in Runs : q # r => Resting(q)'
        BY <1>2, <4>1 DEF Fetched, Resting
      <4> QED BY <1>0, <1>4, <2>4, <3>2, <4>2
    <3> QED BY <1>4, <2>4, <3>1, <3>2
  <2> QED BY <2>1, <2>2, <2>3, <2>4
<1>5. job'.total <= SumFunction(interest)'
  BY <1>0
<1>6. starts' = 0 <=> job'.status = "none"
  BY DEF TotalsInv
<1> QED BY <1>1, <1>3, <1>4, <1>5, <1>6 DEF TotalsInv

\* What a run knows while the counts are right.
LEMMA CountTypes ==
    ASSUME BatchInv, TotalsInv, NEW r \in Runs
    PROVE  /\ run[r] \in RunState /\ RunOK(r) /\ CountOK(r) /\ run[r].total \in Nat
           /\ \A u \in Units : work[r][u] \in WorkState /\ work[r][u].total \in Nat /\ PartOK(r, u)
           /\ starts = 1 => FirstRun(r)
           /\ starts = 1 /\ job.status = "SUCCEEDED" => Resting(r)
           /\ job.total <= SumFunction(interest)
BY DEF BatchInv, BatchTypes, RunState, WorkState, TotalsInv, CountOK

\* A run that has not called anybody counts nothing.
LEMMA IdleCount ==
    ASSUME BatchInv, TotalsInv, NEW r \in Runs, UNCHANGED interest, run'[r].pc \in {"idle", "insert", "update", "routes"},
           run'[r].total = 0, \A u \in Units : PartOK(r, u)'
    PROVE  CountOK(r)'
<1>1. SumFunction(interest)' = SumFunction(interest) /\ SumFunction(interest) \in Nat
  BY InterestSame, InterestTypes
<1> QED BY <1>1 DEF CountOK

\* The request that reads the job.
LEMMA ReadJobTotals ==
    ASSUME BatchInv, TotalsInv, NEW r \in Runs, ReadJob(r)
    PROVE  TotalsInv'
<1>1. UNCHANGED <<interest, job, unitRow, starts>>
  BY DEF ReadJob, ledger, history
<1>2. PICK pc \in {"insert", "update"} : run' = [run EXCEPT ![r] = [NoRun EXCEPT !.pc = pc]]
  BY DEF ReadJob
<1>3. run'[r].pc = pc /\ run'[r].total = 0
  BY <1>2 DEF BatchInv, BatchTypes, NoRun
<1>4. \A u \in Units : work'[r][u] = NoWork
  BY DEF ReadJob, BatchInv, BatchTypes
<1>5. Alone(r)
  BY <1>2 DEF ReadJob, BatchInv, BatchTypes, Alone
<1>6. \A u \in Units : work'[r][u].pc = "none" /\ work'[r][u].total = 0
  BY <1>4 DEF NoWork
<1>7. \A u \in Units : PartOK(r, u)'
  <2>1. \A u \in Units : InterestOf(u)' \in Nat
    BY <1>1, InterestSame, InterestTypes
  <2> QED BY <1>6, <2>1 DEF PartOK
<1>8. CountOK(r)'
  BY <1>1, <1>3, <1>7, IdleCount
<1>9. ~Started(r)' /\ ~Fetched(r)' /\ Resting(r)' /\ FirstRun(r)'
  BY <1>3, <1>6 DEF Started, Fetched, Resting, FirstRun
<1> QED BY <1>1, <1>5, <1>8, <1>9, CountTypes, TotalsStep

\* The handler ends; its calls go on.
LEMMA EndCount ==
    ASSUME BatchInv, TotalsInv, NEW r \in Runs, UNCHANGED interest, run'[r] = NoRun, work'[r] = work[r]
    PROVE  /\ CountOK(r)' /\ ~Started(r)' /\ (Fetched(r)' => Fetched(r)) /\ FirstRun(r)'
           /\ (\A u \in Units : work[r][u].pc \in {"none", "done"}) => Resting(r)'
<1>1. run'[r].pc = "idle" /\ run'[r].total = 0
  BY DEF NoRun
<1>2. \A u \in Units : PartOK(r, u)'
  BY <1>1, CountTypes, InterestSame DEF PartOK
<1>3. CountOK(r)'
  BY <1>1, <1>2, IdleCount
<1> QED BY <1>1, <1>3 DEF Started, Fetched, FirstRun, Resting

\* The job is registered, or is found there.
LEMMA InsertJobTotals ==
    ASSUME BatchInv, TotalsInv, NEW r \in Runs, InsertJob(r, segs)
    PROVE  TotalsInv'
<1>1. UNCHANGED <<interest, unitRow, work>> /\ run[r].pc = "insert"
  BY DEF InsertJob, unitVars, ledger
<1>2. CASE run' = [run EXCEPT ![r] = NoRun] /\ UNCHANGED <<job, starts>>
  <2>1. run'[r] = NoRun /\ work'[r] = work[r] /\ Alone(r)
    BY <1>1, <1>2 DEF BatchInv, BatchTypes, Alone
  <2>2. CountOK(r)' /\ ~Started(r)' /\ (Fetched(r)' => Fetched(r)) /\ FirstRun(r)'
        /\ ((\A u \in Units : work[r][u].pc \in {"none", "done"}) => Resting(r)')
    BY <1>1, <2>1, EndCount
  <2>3. \A u \in Units : work[r][u].pc = "none"
    BY <1>1, CountTypes DEF PartOK
  <2> QED BY <1>1, <1>2, <2>1, <2>2, <2>3, CountTypes, TotalsStep
<1>3. CASE /\ job.status = "none"
           /\ job' = [job EXCEPT !.status = "RUNNING"]
           /\ run' = [run EXCEPT ![r].pc = "routes"]
           /\ starts' = 1
  <2>1. run'[r].pc = "routes" /\ run'[r].total = run[r].total /\ Alone(r)
    BY <1>1, <1>3 DEF BatchInv, BatchTypes, RunState, Alone
  <2>2. job'.status = "RUNNING" /\ job'.total = job.total
    BY <1>3 DEF BatchInv, BatchTypes
  <2>3. \A u \in Units : work[r][u].pc = "none" /\ work[r][u].total = 0
    BY <1>1, CountTypes DEF PartOK
  <2>4. starts = 0
    BY <1>3 DEF TotalsInv
  <2>5. Growing /\ SumFunction(interest)' = SumFunction(interest) /\ \A u \in Units : InterestOf(u)' = InterestOf(u)
    BY <1>1, InterestSame
  <2>6. CountOK(r)'
    <3>1. \A u \in Units : PartOK(r, u)'
      BY <1>1, <2>3, <2>5, CountTypes DEF PartOK
    <3>2. run'[r].total = 0
      BY <1>1, <2>1, CountTypes DEF CountOK
    <3> QED BY <1>1, <2>1, <3>1, <3>2, IdleCount
  <2>7. \A q \in Runs : CountOK(q)'
    <3> TAKE q \in Runs
    <3>1. CASE q # r
      BY <2>1, <2>5, <3>1, CountFrame DEF TotalsInv, Alone
    <3> QED BY <2>6, <3>1
  <2>8. \A q \in Runs : q # r => ~Fetched(q)' /\ ~Started(q)'
    BY <2>1, <2>4 DEF TotalsInv, Alone, Fetched, Started
  <2>9. FirstRun(r)'
    <3>1. \A u \in Units : InterestOf(u) = 0
      <4> SUFFICES ASSUME NEW u \in Units PROVE InterestOf(u) = 0
        OBVIOUS
      <4>1. \A n \in NumbersOf({u}) : interest[n] = 0
        BY <2>4 DEF TotalsInv, NumbersOf
      <4>2. IsFiniteSet(NumbersOf({u}))
        BY NumbersFinite
      <4> QED BY <4>1, <4>2, SumZero DEF InterestOf, PartSum
    <3>2. \A u \in Units : unitRow'[u] = 0 /\ InterestOf(u)' = work'[r][u].total
      BY <1>1, <2>3, <2>4, <2>5, <3>1 DEF TotalsInv
    <3> QED BY <2>1, <3>2 DEF FirstRun
  <2>10. \A q \in Runs : FirstRun(q)'
    BY <2>8, <2>9 DEF FirstRun
  <2>11. job'.total <= SumFunction(interest)'
    BY <2>2, <2>5 DEF TotalsInv
  <2>12. starts' = 1 /\ job'.status # "none" /\ job'.status # "SUCCEEDED"
    BY <1>3, <2>2
  <2> QED BY <2>7, <2>8, <2>10, <2>11, <2>12 DEF TotalsInv
<1> QED BY <1>2, <1>3 DEF InsertJob

\* The job is started again: from now on nothing is said of the exact total.
LEMMA UpdateJobTotals ==
    ASSUME BatchInv, TotalsInv, NEW r \in Runs, UpdateJob(r)
    PROVE  TotalsInv'
<1>1. UNCHANGED <<interest, unitRow, work>> /\ run[r].pc = "update" /\ starts' = starts + 1
  BY DEF UpdateJob, unitVars, ledger
<1>2. run'[r].pc = "routes" /\ run'[r].total = run[r].total /\ Alone(r)
  BY <1>1 DEF UpdateJob, BatchInv, BatchTypes, RunState, Alone
<1>3. job'.status = "RUNNING" /\ job'.total = job.total
  BY DEF UpdateJob, BatchInv, BatchTypes
<1>4. Growing /\ SumFunction(interest)' = SumFunction(interest) /\ \A u \in Units : InterestOf(u)' = InterestOf(u)
  BY <1>1, InterestSame
<1>5. starts # 0 /\ starts \in Nat
  BY <1>1 DEF TotalsInv, BatchInv, BatchTypes, RunOK
<1>6. CountOK(r)'
  <2>1. \A u \in Units : PartOK(r, u)'
    BY <1>1, <1>4, CountTypes DEF PartOK
  <2>2. run'[r].total = 0
    BY <1>1, <1>2, CountTypes DEF CountOK
  <2> QED BY <1>1, <1>2, <2>1, <2>2, IdleCount
<1>7. \A q \in Runs : CountOK(q)'
  <2> TAKE q \in Runs
  <2>1. CASE q # r
    BY <1>2, <1>4, <2>1, CountFrame DEF TotalsInv, Alone
  <2> QED BY <1>6, <2>1
<1>8. starts' # 0 /\ starts' # 1
  BY <1>1, <1>5
<1>9. job'.total <= SumFunction(interest)' /\ job'.status # "none"
  BY <1>3, <1>4 DEF TotalsInv
<1> QED BY <1>7, <1>8, <1>9 DEF TotalsInv

\* A job that was started once and has succeeded has no run under way.
LEMMA NotSucceeded ==
    ASSUME BatchInv, TotalsInv, NEW r \in Runs,
           Started(r) \/ \E u \in Units : work[r][u].pc \in {"list", "post"}
    PROVE  ~(starts = 1 /\ job.status = "SUCCEEDED") /\ Fetched(r)
<1>1. Fetched(r) /\ ~Resting(r)
  BY DEF Fetched, Resting
<1> QED BY <1>1, CountTypes

\* A step of a run that goes on and leaves the job alone.
LEMMA RunGoesOn ==
    ASSUME BatchInv, TotalsInv, NEW r \in Runs, Alone(r), UNCHANGED <<interest, job, starts>>,
           Started(r) \/ \E u \in Units : work[r][u].pc \in {"list", "post"},
           CountOK(r)', starts = 1 => FirstRun(r)'
    PROVE  TotalsInv'
<1>1. ~(starts = 1 /\ job.status = "SUCCEEDED") /\ Fetched(r)
  BY NotSucceeded
<1>2. job'.total <= SumFunction(interest)
  BY CountTypes
<1> QED BY <1>1, <1>2, TotalsStep

\* The routes are fetched.
LEMMA FetchTotals ==
    ASSUME BatchInv, TotalsInv, NEW r \in Runs, FetchActiveRoutes(r, segs)
    PROVE  TotalsInv'
<1>1. UNCHANGED <<interest, job, unitRow, starts>> /\ run[r].pc = "routes" /\ Started(r)
  BY DEF FetchActiveRoutes, ledger, history, Started
<1>2. /\ run[r] \in RunState /\ run[r].total = 0 /\ run[r].status = "FAILED"
      /\ \A u \in Units : work[r][u].pc = "none" /\ work[r][u].total = 0
  BY <1>1, CountTypes DEF CountOK, PartOK, RunOK, RunState
<1>3. /\ SumFunction(interest)' = SumFunction(interest) /\ SumFunction(interest) \in Nat
      /\ \A u \in Units : InterestOf(u)' = InterestOf(u) /\ InterestOf(u) \in Nat
  BY <1>1, InterestSame, InterestTypes
<1>4. starts = 1 => \A u \in Units : InterestOf(u) = 0 /\ unitRow[u] = 0
  BY <1>1, <1>2, CountTypes DEF FirstRun
<1>5. CASE /\ run' = [run EXCEPT ![r].pc = "wait",
                                 ![r].res = [u \in Units |-> IF u \in segs THEN "wait" ELSE "off"],
                                 ![r].unsaved = segs]
           /\ work' = [work EXCEPT ![r] = [u \in Units |->
                         IF u \in segs THEN [NoWork EXCEPT !.pc = "list"] ELSE NoWork]]
  <2>0. PICK res : res = [u \in Units |-> IF u \in segs THEN "wait" ELSE "off"]
    OBVIOUS
  <2>1. run' = [run EXCEPT ![r].pc = "wait", ![r].res = res, ![r].unsaved = segs]
    BY <1>5, <2>0
  <2>2. run'[r].pc = "wait" /\ run'[r].total = 0 /\ run'[r].res = res /\ \A q \in Runs : q # r => run'[q] = run[q]
    BY <1>2, <2>1 DEF BatchInv, BatchTypes, RunState
  <2>3. \A u \in Units : work'[r][u] = (IF u \in segs THEN [NoWork EXCEPT !.pc = "list"] ELSE NoWork)
    BY <1>5 DEF BatchInv, BatchTypes
  <2>4. /\ \A u \in Units : work'[r][u].pc \in {"none", "list"} /\ work'[r][u].total = 0
        /\ \A u \in Units : u \notin segs => work'[r][u].pc = "none"
    BY <2>3 DEF NoWork
  <2>5. Alone(r)
    BY <1>5, <2>2 DEF BatchInv, BatchTypes, Alone
  <2>6. \A u \in Units : run'[r].res[u] # "ok" /\ (run'[r].res[u] = "off" => u \notin segs)
    BY <2>0, <2>2
  <2>7. CountOK(r)'
    <3>1. Answered(r)' = {}
      BY <2>6 DEF Answered
    <3>2. SumFunctionOnSet(Totals(r)', Answered(r)') = 0
      BY <3>1, SumEmpty
    <3>3. \A u \in Units : PartOK(r, u)'
      BY <1>3, <2>2, <2>4 DEF PartOK
    <3> QED BY <1>3, <2>2, <2>6, <3>2, <3>3 DEF CountOK
  <2>8. starts = 1 => FirstRun(r)'
    BY <1>1, <1>3, <1>4, <2>2, <2>4, <2>6 DEF FirstRun
  <2> QED BY <1>1, <2>5, <2>7, <2>8, RunGoesOn
<1>6. CASE run' = [run EXCEPT ![r].pc = "finish"] /\ UNCHANGED work
  <2>1. run'[r].pc = "finish" /\ run'[r].total = 0 /\ run'[r].status = "FAILED" /\ Alone(r)
    BY <1>2, <1>6 DEF BatchInv, BatchTypes, RunState, Alone
  <2>2. \A u \in Units : PartOK(r, u)'
    BY <1>2, <1>3, <1>6, <2>1 DEF PartOK
  <2>3. CountOK(r)'
    BY <1>3, <2>1, <2>2 DEF CountOK
  <2>4. starts = 1 => FirstRun(r)'
    BY <1>2, <1>3, <1>4, <1>6, <2>1 DEF FirstRun
  <2> QED BY <1>1, <2>1, <2>3, <2>4, RunGoesOn
<1> QED BY <1>5, <1>6 DEF FetchActiveRoutes

\* A unit has answered or failed, or the call has.
LEMMA UnitResultTotals ==
    ASSUME BatchInv, TotalsInv, NEW r \in Runs, NEW u \in Units, UnitResult(r, u)
    PROVE  TotalsInv'
<1>1. /\ UNCHANGED <<interest, job, unitRow, starts>> /\ Started(r)
      /\ run[r].pc = "wait" /\ run[r].res[u] = "wait"
  BY DEF UnitResult, ledger, history, Started
<1>2. /\ run[r] \in RunState /\ work[r][u] \in WorkState /\ CountOK(r) /\ run[r].total \in Nat
      /\ u \in run[r].unsaved
      /\ \A v \in Units : work[r][v] \in WorkState /\ work[r][v].total \in Nat /\ PartOK(r, v)
  BY <1>1, CountTypes DEF RunOK
<1>3. /\ SumFunction(interest)' = SumFunction(interest) /\ SumFunction(interest) \in Nat
      /\ \A v \in Units : InterestOf(v)' = InterestOf(v) /\ InterestOf(v) \in Nat
  BY <1>1, InterestSame, InterestTypes
<1>4. CASE /\ work[r][u].pc = "post"
           /\ run' = [run EXCEPT ![r].res[u] = "ok", ![r].total = @ + work[r][u].total]
           /\ work' = [work EXCEPT ![r][u].pc = "done"]
  <2>1. /\ run'[r].pc = "wait" /\ run'[r].status = run[r].status /\ run'[r].unsaved = run[r].unsaved
        /\ run'[r].res[u] = "ok" /\ run'[r].total = run[r].total + work[r][u].total
        /\ \A v \in Units : v # u => run'[r].res[v] = run[r].res[v]
    BY <1>1, <1>2, <1>4 DEF BatchInv, BatchTypes, RunState
  <2>2. /\ work'[r][u].pc = "done" /\ work'[r][u].total = work[r][u].total
        /\ \A v \in Units : v # u => work'[r][v] = work[r][v]
    BY <1>2, <1>4 DEF BatchInv, BatchTypes, WorkState
  <2>3. Alone(r)
    BY <1>4 DEF BatchInv, BatchTypes, Alone
  <2>4. Totals(r)' = Totals(r) /\ Answered(r)' = Answered(r) \cup {u} /\ u \notin Answered(r)
    BY <1>1, <2>1, <2>2 DEF Totals, Answered
  <2>5. run'[r].total = SumFunctionOnSet(Totals(r)', Answered(r)') /\ run'[r].total <= SumFunction(interest)
    <3>1. PICK f : f = Totals(r)
      OBVIOUS
    <3>2. \A v \in Units : f[v] = work[r][v].total /\ f[v] \in Int
      BY <1>2, <3>1 DEF Totals
    <3>3. Answered(r) \in SUBSET Units /\ Answered(r) \cup {u} \in SUBSET Units /\ IsFiniteSet(Answered(r))
      BY FS_Subset, ServicesAssumption DEF Answered
    <3>4. SumFunctionOnSet(f, Answered(r) \cup {u}) = f[u] + SumFunctionOnSet(f, Answered(r))
      BY <2>4, <3>2, <3>3, SumAdd
    <3>5. run[r].total = SumFunctionOnSet(f, Answered(r))
      BY <1>1, <1>2, <3>1 DEF CountOK
    <3>6. run'[r].total = SumFunctionOnSet(f, Answered(r) \cup {u})
      BY <1>2, <2>1, <3>2, <3>4, <3>5
    <3>7. SumFunctionOnSet(Totals(r), Answered(r) \cup {u}) <= SumFunction(interest)
      BY <1>2, <3>3, TotalsBelow DEF PartOK
    <3> QED BY <2>4, <3>1, <3>6, <3>7
  <2>6. \A v \in Units : PartOK(r, v)'
    BY <1>2, <1>3, <2>1, <2>2 DEF PartOK
  <2>7. \A v \in Units : run'[r].res[v] = "ok" => work'[r][v].pc = "done"
    BY <1>1, <1>2, <2>1, <2>2 DEF CountOK
  <2>8. CountOK(r)'
    BY <1>3, <2>1, <2>5, <2>6, <2>7 DEF CountOK
  <2>9. starts = 1 => FirstRun(r)'
    <3> SUFFICES ASSUME starts = 1 PROVE FirstRun(r)'
      OBVIOUS
    <3>1. FirstRun(r)
      BY CountTypes
    <3> QED BY <1>1, <1>2, <1>3, <2>1, <2>2, <3>1 DEF FirstRun
  <2> QED BY <1>1, <2>3, <2>8, <2>9, RunGoesOn
<1>5. CASE run' = [run EXCEPT ![r].res[u] = "fail"] /\ UNCHANGED work
  <2>1. /\ run'[r].pc = "wait" /\ run'[r].status = run[r].status /\ run'[r].unsaved = run[r].unsaved
        /\ run'[r].res[u] = "fail" /\ run'[r].total = run[r].total /\ Alone(r)
        /\ \A v \in Units : v # u => run'[r].res[v] = run[r].res[v]
    BY <1>1, <1>2, <1>5 DEF BatchInv, BatchTypes, RunState, Alone
  <2>2. Totals(r)' = Totals(r) /\ Answered(r)' = Answered(r)
    BY <1>1, <1>5, <2>1 DEF Totals, Answered
  <2>3. \A v \in Units : PartOK(r, v)'
    BY <1>2, <1>3, <1>5, <2>1 DEF PartOK
  <2>4. \A v \in Units : run'[r].res[v] = "ok" => work'[r][v].pc = "done"
    BY <1>1, <1>2, <1>5, <2>1 DEF CountOK
  <2>5. CountOK(r)'
    BY <1>1, <1>2, <1>3, <2>1, <2>2, <2>3, <2>4 DEF CountOK
  <2>6. starts = 1 => FirstRun(r)'
    <3> SUFFICES ASSUME starts = 1 PROVE FirstRun(r)'
      OBVIOUS
    <3>1. FirstRun(r)
      BY CountTypes
    <3> QED BY <1>1, <1>3, <1>5, <2>1, <3>1 DEF FirstRun
  <2> QED BY <1>1, <2>1, <2>5, <2>6, RunGoesOn
<1> QED BY <1>4, <1>5 DEF UnitResult

\* A row of batch_unit_result.
LEMMA SaveRowTotals ==
    ASSUME BatchInv, TotalsInv, NEW r \in Runs, SaveRow(r)
    PROVE  TotalsInv'
<1>1. UNCHANGED <<interest, job, work, starts>> /\ Started(r) /\ run[r].pc = "wait"
  BY DEF SaveRow, unitVars, ledger, history, Started
<1>2. PICK u \in run[r].unsaved :
         /\ run' = [run EXCEPT ![r].unsaved = @ \ {u}]
         /\ unitRow' = [unitRow EXCEPT ![u] = IF run[r].res[u] = "ok" THEN work[r][u].total ELSE 0]
  BY SavedRow
<1>3. u \in Units /\ run[r] \in RunState /\ CountOK(r) /\ unitRow \in [Units -> Nat]
  BY CountTypes DEF RunState, BatchInv, BatchTypes
<1>4. /\ run'[r].pc = "wait" /\ run'[r].status = run[r].status /\ run'[r].unsaved = run[r].unsaved \ {u}
      /\ run'[r].res = run[r].res /\ run'[r].total = run[r].total /\ Alone(r)
  BY <1>1, <1>2, <1>3 DEF BatchInv, BatchTypes, RunState, Alone
<1>5. /\ unitRow'[u] = (IF run[r].res[u] = "ok" THEN work[r][u].total ELSE 0)
      /\ \A v \in Units : v # u => unitRow'[v] = unitRow[v]
  BY <1>2, <1>3
<1>6. /\ SumFunction(interest)' = SumFunction(interest)
      /\ \A v \in Units : InterestOf(v)' = InterestOf(v)
  BY <1>1, InterestSame
<1>7. CountOK(r)'
  <2>1. Totals(r)' = Totals(r) /\ Answered(r)' = Answered(r)
    BY <1>1, <1>4 DEF Totals, Answered
  <2>2. \A v \in Units : PartOK(r, v)'
    BY <1>1, <1>3, <1>4, <1>6 DEF PartOK, CountOK
  <2> QED BY <1>1, <1>3, <1>4, <1>6, <2>1, <2>2 DEF CountOK
<1>8. starts = 1 => FirstRun(r)'
  <2> SUFFICES ASSUME starts = 1 PROVE FirstRun(r)'
    OBVIOUS
  <2>1. FirstRun(r)
    BY CountTypes
  <2> QED BY <1>1, <1>3, <1>4, <1>5, <1>6, <2>1 DEF FirstRun
<1> QED BY <1>1, <1>4, <1>7, <1>8, RunGoesOn

\* The only run adds up what its units posted, and so do the rows.
LEMMA AllCounted ==
    ASSUME BatchInv, TotalsInv, NEW r \in Runs, starts = 1, run[r].pc = "wait", run[r].unsaved = {},
           \A u \in Units : run[r].res[u] \in {"ok", "off"}
    PROVE  /\ run[r].total = SumFunction(interest) /\ SumFunction(unitRow) = run[r].total
           /\ \A u \in Units : work[r][u].pc \in {"none", "done"}
<1>1. CountOK(r) /\ FirstRun(r) /\ Started(r)
  BY CountTypes DEF Started
<1>2. \A u \in Units : work[r][u].total \in Nat /\ PartOK(r, u) /\ InterestOf(u) = work[r][u].total
  BY <1>1, CountTypes DEF FirstRun
<1>3. \A u \in Units : IF u \in Answered(r) THEN work[r][u].pc = "done" /\ unitRow[u] = work[r][u].total
                       ELSE work[r][u].pc = "none" /\ unitRow[u] = 0 /\ work[r][u].total = 0
  BY <1>1, <1>2 DEF CountOK, FirstRun, PartOK, Answered
<1>4. PICK f : f = Totals(r)
  OBVIOUS
<1>5. \A u \in Units : f[u] = work[r][u].total /\ f[u] \in Nat
  BY <1>2, <1>4 DEF Totals
<1>6. IsFiniteSet(Units) /\ Answered(r) \in SUBSET Units
  BY ServicesAssumption DEF Answered
<1>7. SumFunctionOnSet(f, Answered(r)) = SumFunctionOnSet(f, Units)
  <2>1. \A u \in Units \ Answered(r) : f[u] = 0
    BY <1>3, <1>5
  <2> QED BY <1>5, <1>6, <2>1, SumPart
<1>8. run[r].total = SumFunctionOnSet(f, Units)
  BY <1>1, <1>4, <1>7 DEF CountOK
<1>9. SumFunction(interest) = SumFunctionOnSet(f, Units)
  <2>1. PICK p : p = [u \in Units |-> PartSum(interest, u)]
    OBVIOUS
  <2>2. \A u \in Units : p[u] = f[u]
    BY <1>2, <1>5, <2>1 DEF InterestOf
  <2>3. SumFunction(interest) = SumFunctionOnSet(p, Units)
    BY <2>1, SumByUnit DEF BatchInv, BatchTypes
  <2>4. SumFunctionOnSet(p, Units) = SumFunctionOnSet(f, Units)
    BY <1>6, <2>2, SumAgree
  <2> QED BY <2>3, <2>4
<1>10. SumFunction(unitRow) = SumFunctionOnSet(f, Units)
  <2>1. DOMAIN unitRow = Units
    BY DEF BatchInv, BatchTypes
  <2>2. \A u \in Units : unitRow[u] = f[u]
    BY <1>3, <1>5
  <2>3. SumFunctionOnSet(unitRow, Units) = SumFunctionOnSet(f, Units)
    BY <1>6, <2>2, SumAgree
  <2> QED BY <2>1, <2>3 DEF SumFunction
<1> QED BY <1>3, <1>8, <1>9, <1>10

\* The run decides how to close the job.
LEMMA CloseTotals ==
    ASSUME BatchInv, TotalsInv, NEW r \in Runs, RowRefused(r) \/ AllSaved(r)
    PROVE  TotalsInv'
<1>1. UNCHANGED <<interest, job, unitRow, work, starts>> /\ Started(r) /\ run[r].pc = "wait"
  BY DEF RowRefused, AllSaved, unitVars, ledger, history, Started
<1>2. run[r] \in RunState /\ CountOK(r) /\ RunOK(r) /\ run[r].total \in Nat
  BY CountTypes
<1>3. /\ SumFunction(interest)' = SumFunction(interest) /\ SumFunction(interest) \in Nat
      /\ \A v \in Units : InterestOf(v)' = InterestOf(v)
  BY <1>1, InterestSame, InterestTypes
<1>4. PICK status \in {"SUCCEEDED", "FAILED"}, total \in Nat :
         /\ Close(r, status, total) /\ total <= SumFunction(interest)
         /\ starts = 1 /\ status = "SUCCEEDED" =>
              /\ total = SumFunction(interest) /\ SumFunction(unitRow) = total
              /\ \A u \in Units : work[r][u].pc \in {"none", "done"}
  <2>1. CASE RowRefused(r)
    BY <1>3, <2>1 DEF RowRefused
  <2>2. CASE AllSaved(r)
    <3>1. Outcome(r) \in {"SUCCEEDED", "FAILED"} /\ run[r].total <= SumFunction(interest)
      BY <1>2 DEF Outcome, CountOK
    <3>2. Outcome(r) = "SUCCEEDED" => \A u \in Units : run[r].res[u] \in {"ok", "off"}
      BY <1>1, <1>2, <2>2 DEF AllSaved, Outcome, RunOK, RunState
    <3>3. starts = 1 /\ Outcome(r) = "SUCCEEDED" =>
              /\ run[r].total = SumFunction(interest) /\ SumFunction(unitRow) = run[r].total
              /\ \A u \in Units : work[r][u].pc \in {"none", "done"}
      BY <1>1, <2>2, <3>2, AllCounted DEF AllSaved
    <3> QED BY <1>2, <2>2, <3>1, <3>3 DEF AllSaved
  <2> QED BY <2>1, <2>2
<1>5. run'[r].pc = "finish" /\ run'[r].status = status /\ run'[r].total = total /\ Alone(r)
  BY <1>1, <1>2, <1>4 DEF Close, BatchInv, BatchTypes, RunState, Alone
<1>6. CountOK(r)'
  <2>1. \A v \in Units : PartOK(r, v)'
    BY <1>1, <1>2, <1>3, <1>5 DEF PartOK, CountOK
  <2> QED BY <1>3, <1>4, <1>5, <2>1 DEF CountOK
<1>7. starts = 1 => FirstRun(r)'
  <2> SUFFICES ASSUME starts = 1 PROVE FirstRun(r)'
    OBVIOUS
  <2>1. FirstRun(r)
    BY CountTypes
  <2> QED BY <1>1, <1>3, <1>4, <1>5, <2>1 DEF FirstRun
<1> QED BY <1>1, <1>5, <1>6, <1>7, RunGoesOn

\* The job is closed, or its update fails.
LEMMA FinishTotals ==
    ASSUME BatchInv, TotalsInv, NEW r \in Runs, finishJob(r)
    PROVE  TotalsInv'
<1>1. UNCHANGED <<interest, unitRow, work, starts>> /\ run[r].pc = "finish" /\ Started(r)
  BY DEF finishJob, ledger, Started
<1>2. run'[r] = NoRun /\ work'[r] = work[r] /\ Alone(r)
  BY <1>1 DEF finishJob, BatchInv, BatchTypes, Alone
<1>3. /\ CountOK(r)' /\ ~Started(r)' /\ (Fetched(r)' => Fetched(r)) /\ FirstRun(r)'
      /\ (\A u \in Units : work[r][u].pc \in {"none", "done"}) => Resting(r)'
  BY <1>1, <1>2, EndCount
<1>4. ~(starts = 1 /\ job.status = "SUCCEEDED") /\ Fetched(r)
  BY <1>1, NotSucceeded
<1>5. /\ run[r] \in RunState /\ run[r].total <= SumFunction(interest) /\ job.total <= SumFunction(interest)
      /\ job.status # "none"
      /\ starts = 1 => FirstRun(r)
  BY <1>1, CountTypes DEF CountOK, RunOK
<1>6. CASE UNCHANGED job
  BY <1>1, <1>2, <1>3, <1>4, <1>5, <1>6, TotalsStep
<1>7. CASE job' = [job EXCEPT !.status = run[r].status, !.total = run[r].total]
  <2>1. job'.status = run[r].status /\ job'.total = run[r].total
    BY <1>7 DEF BatchInv, BatchTypes
  <2>2. job'.status # "none"
    BY <1>5, <2>1 DEF RunState
  <2>3. starts = 1 /\ job'.status = "SUCCEEDED" =>
          /\ Resting(r)' /\ Started(r)
          /\ job'.total = SumFunction(interest) /\ SumFunction(unitRow') = job'.total
    BY <1>1, <1>3, <1>5, <2>1 DEF FirstRun
  <2> QED BY <1>1, <1>2, <1>3, <1>5, <2>1, <2>2, <2>3, TotalsStep
<1> QED BY <1>6, <1>7 DEF finishJob

\* A call under way that counts nothing new.
LEMMA CallGoesOn ==
    ASSUME BatchInv, TotalsInv, NEW r \in Runs, NEW u \in Units, UNCHANGED <<interest, job, unitRow, starts, run>>,
           work[r][u].pc \in {"list", "post"}, work'[r][u].pc \in {"post", "dead"},
           work'[r][u].total = work[r][u].total,
           \A q \in Runs : q # r => work'[q] = work[q],
           \A v \in Units : v # u => work'[r][v] = work[r][v]
    PROVE  TotalsInv'
<1>1. Alone(r) /\ CountOK(r) /\ \A v \in Units : PartOK(r, v)
  BY CountTypes DEF Alone
<1>2. /\ SumFunction(interest)' = SumFunction(interest)
      /\ \A v \in Units : InterestOf(v)' = InterestOf(v)
  BY InterestSame
<1>3. Totals(r)' = Totals(r) /\ Answered(r)' = Answered(r)
  BY DEF Totals, Answered
<1>4. \A v \in Units : PartOK(r, v)'
  BY <1>1, <1>2 DEF PartOK
<1>5. CountOK(r)'
  <2>1. run[r].pc = "wait" => \A v \in Units : run[r].res[v] = "ok" => work'[r][v].pc = "done"
    BY <1>1 DEF CountOK
  <2> QED BY <1>1, <1>2, <1>3, <1>4, <2>1 DEF CountOK
<1>6. starts = 1 => FirstRun(r)'
  <2> SUFFICES ASSUME starts = 1 PROVE FirstRun(r)'
    OBVIOUS
  <2>1. FirstRun(r)
    BY CountTypes
  <2>2. Started(r)' <=> Started(r)
    BY DEF Started
  <2>3. \A v \in Units : work'[r][v].total = work[r][v].total
    OBVIOUS
  <2>4. \A v \in Units : work[r][v].pc = "none" => work'[r][v].pc = "none"
    OBVIOUS
  <2>5. ~\A v \in Units : work[r][v].pc \in {"none", "done"}
    OBVIOUS
  <2> QED BY <1>2, <2>1, <2>2, <2>3, <2>4, <2>5 DEF FirstRun
<1> QED BY <1>1, <1>5, <1>6, RunGoesOn

\* A unit lists its accounts, or fails.
LEMMA ListTotals ==
    ASSUME BatchInv, TotalsInv, NEW r \in Runs, NEW u \in Units, ListAccounts(r, u) \/ UnitFails(r, u)
    PROVE  TotalsInv'
<1>1. UNCHANGED <<interest, job, unitRow, starts, run>> /\ work[r][u].pc \in {"list", "post"}
  BY DEF ListAccounts, UnitFails, unitVars, ledger, history
<1>2. work[r][u] \in WorkState /\ PartOK(r, u)
  BY CountTypes
<1>3. PICK w : /\ work' = [work EXCEPT ![r][u] = w] /\ w.pc \in {"post", "dead"} /\ w.total = work[r][u].total
  <2>1. CASE ListAccounts(r, u)
    <3>1. PICK v : /\ work' = [work EXCEPT ![r][u] = v]
                   /\ v = [pc |-> "post", total |-> 0,
                           todo |-> {<<n, InterestFor(balance[n])>> : n \in Earning(u)}]
      BY <2>1 DEF ListAccounts
    <3>2. work[r][u].total = 0
      BY <1>2, <2>1 DEF ListAccounts, PartOK
    <3>3. v.pc = "post" /\ v.total = 0
      BY <3>1
    <3> QED BY <3>1, <3>2, <3>3
  <2>2. CASE UnitFails(r, u)
    <3>1. work' = [work EXCEPT ![r][u] = [work[r][u] EXCEPT !.pc = "dead"]]
      BY <2>2 DEF UnitFails
    <3>2. [work[r][u] EXCEPT !.pc = "dead"].pc = "dead" /\ [work[r][u] EXCEPT !.pc = "dead"].total = work[r][u].total
      BY <1>2 DEF WorkState
    <3> QED BY <3>1, <3>2
  <2> QED BY <2>1, <2>2
<1>4. /\ work'[r][u] = w
      /\ \A q \in Runs : q # r => work'[q] = work[q]
      /\ \A v \in Units : v # u => work'[r][v] = work[r][v]
  BY <1>3 DEF BatchInv, BatchTypes
<1> QED BY <1>1, <1>3, <1>4, CallGoesOn

\* A unit posts an entry and counts it, or finds it posted and does not.
LEMMA PostTotals ==
    ASSUME BatchInv, TotalsInv, NEW r \in Runs, NEW u \in Units, PostInterest(r, u)
    PROVE  TotalsInv'
<1>1. PICK n \in Numbers, amount \in Nat \ {0} :
             /\ work[r][u].pc = "post" /\ UnitOf(n) = u
             /\ work' = [work EXCEPT ![r][u].todo = @ \ {<<n, amount>>}, ![r][u].total = @ + Counted(n, amount)]
             /\ \/ interest[n] # 0 /\ UNCHANGED unitVars
                \/ interest[n] = 0 /\ interest' = [interest EXCEPT ![n] = amount]
             /\ UNCHANGED <<job, unitRow, run, history>>
  BY PostCases, ZenonT(60)
<1>2. UNCHANGED <<job, unitRow, run, starts>>
  BY <1>1 DEF history
<1>3. /\ \A v \in Units : work[r][v] \in WorkState /\ work[r][v].total \in Nat /\ PartOK(r, v)
      /\ CountOK(r) /\ run[r].total \in Nat
  BY CountTypes
<1>4. /\ work'[r][u].pc = "post" /\ work'[r][u].total = work[r][u].total + Counted(n, amount)
      /\ \A q \in Runs : q # r => work'[q] = work[q]
      /\ \A v \in Units : v # u => work'[r][v] = work[r][v]
  <2>1. work' = [work EXCEPT ![r][u].todo = @ \ {<<n, amount>>}, ![r][u].total = @ + Counted(n, amount)]
        /\ work[r][u].pc = "post"
    BY <1>1
  <2> QED BY <1>3, <2>1 DEF BatchInv, BatchTypes, WorkState
<1>5. CASE interest[n] # 0 /\ UNCHANGED unitVars
  <2>1. UNCHANGED interest /\ Counted(n, amount) = 0
    BY <1>5 DEF unitVars, ledger, Counted
  <2>2. work'[r][u].total = work[r][u].total
    BY <1>3, <1>4, <2>1
  <2> QED BY <1>1, <1>2, <1>4, <2>1, <2>2, CallGoesOn
<1>6. CASE interest[n] = 0 /\ interest' = [interest EXCEPT ![n] = amount]
  <2>1. /\ InterestOf(u)' = InterestOf(u) + amount
        /\ \A v \in Units : v # u => InterestOf(v)' = InterestOf(v)
        /\ SumFunction(interest)' = SumFunction(interest) + amount
    BY <1>1, <1>6, PostedInterest
  <2>2. (\A v \in Units : InterestOf(v) \in Nat) /\ SumFunction(interest) \in Nat
    BY InterestTypes
  <2>3. Growing
    <3>1. \A v \in Units : InterestOf(v)' \in Nat /\ InterestOf(v) <= InterestOf(v)'
      BY <2>1, <2>2
    <3> QED BY <2>1, <2>2, <3>1 DEF Growing
  <2>4. work'[r][u].total = work[r][u].total + amount
    BY <1>4, <1>6 DEF Counted
  <2>5. CountOK(r)'
    <3>1. \A v \in Units : PartOK(r, v)'
      <4> TAKE v \in Units
      <4>1. CASE v = u
        <5>1. work'[r][u].total <= InterestOf(u)'
          BY <1>3, <2>1, <2>2, <2>4 DEF PartOK
        <5> QED BY <1>1, <1>2, <1>3, <1>4, <4>1, <5>1 DEF PartOK
      <4>2. CASE v # u
        BY <1>2, <1>3, <1>4, <2>1, <4>2 DEF PartOK
      <4> QED BY <4>1, <4>2
    <3>2. ASSUME run[r].pc = "wait"
          PROVE  /\ \A v \in Units : run[r].res[v] = "ok" => work'[r][v].pc = "done"
                 /\ run[r].total = SumFunctionOnSet(Totals(r)', Answered(r)')
      <4>1. /\ \A v \in Units : run[r].res[v] = "ok" => work[r][v].pc = "done"
            /\ run[r].total = SumFunctionOnSet(Totals(r), Answered(r))
        BY <1>3, <3>2 DEF CountOK
      <4>2. run[r].res[u] # "ok"
        BY <1>1, <4>1
      <4>3. Answered(r)' = Answered(r) /\ u \notin Answered(r) /\ Answered(r) \subseteq Units
        BY <1>2, <4>2 DEF Answered
      <4>4. PICK f, g : f = Totals(r) /\ g = Totals(r)'
        OBVIOUS
      <4>5. \A v \in Answered(r) : f[v] = g[v]
        BY <1>4, <4>3, <4>4 DEF Totals
      <4>6. IsFiniteSet(Answered(r))
        BY <4>3, FS_Subset, ServicesAssumption
      <4>7. SumFunctionOnSet(f, Answered(r)) = SumFunctionOnSet(g, Answered(r))
        BY <4>5, <4>6, SumAgree
      <4>8. \A v \in Units : run[r].res[v] = "ok" => work'[r][v].pc = "done"
        BY <1>4, <4>1, <4>2
      <4> QED BY <4>1, <4>3, <4>4, <4>7, <4>8
    <3>3. run[r].total <= SumFunction(interest)'
      BY <1>3, <2>1, <2>2 DEF CountOK
    <3> QED BY <1>2, <1>3, <3>1, <3>2, <3>3 DEF CountOK
  <2>6. \A q \in Runs : CountOK(q)'
    <3> TAKE q \in Runs
    <3>1. CASE q # r
      BY <1>2, <1>4, <2>3, <3>1, CountFrame DEF TotalsInv
    <3> QED BY <2>5, <3>1
  <2>7. job'.total <= SumFunction(interest)'
    <3>1. job.total \in Nat /\ job.total <= SumFunction(interest)
      BY CountTypes DEF BatchInv, BatchTypes
    <3> QED BY <1>2, <2>1, <2>2, <3>1
  <2>8. job'.status # "none" /\ starts' # 0 /\ Fetched(r)
    <3>1. job.status # "none"
      BY <1>1 DEF BatchInv, WorkOK
    <3>2. starts # 0
      BY <3>1 DEF TotalsInv
    <3> QED BY <1>1, <1>2, <3>1, <3>2 DEF Fetched
  <2>9. ~(starts = 1 /\ job.status = "SUCCEEDED")
    BY <1>1, NotSucceeded
  <2>10. ASSUME starts = 1
         PROVE  /\ \A p, q \in Runs : Fetched(p)' /\ Fetched(q)' => p = q
                /\ \A q \in Runs : FirstRun(q)'
    <3>1. \A q \in Runs : q # r => ~Fetched(q)
      BY <2>8, <2>10 DEF TotalsInv
    <3>2. \A q \in Runs : q # r => ~Fetched(q)' /\ ~Started(q)'
      BY <1>2, <1>4, <3>1 DEF Fetched, Started
    <3>3. FirstRun(r)'
      <4>1. FirstRun(r) /\ (Started(r)' <=> Started(r))
        BY <1>2, <2>10, CountTypes DEF Started
      <4>2. Started(r) => \A v \in Units : InterestOf(v)' = work'[r][v].total
        BY <1>3, <1>4, <2>1, <2>4, <4>1 DEF FirstRun
      <4>3. run[r].pc = "wait" => run[r].res[u] # "ok"
        BY <1>1, <1>3 DEF CountOK
      <4>4. ~(Started(r) /\ run[r].pc = "finish" /\ run[r].status = "SUCCEEDED")
        BY <1>1, <4>1 DEF FirstRun
      <4>5. Started(r) /\ run[r].pc = "wait" =>
              \A v \in Units : /\ run[r].res[v] = "off" => work'[r][v].pc = "none" /\ unitRow[v] = 0
                               /\ run[r].res[v] = "ok" /\ v \notin run[r].unsaved => unitRow[v] = work'[r][v].total
        <5> SUFFICES ASSUME Started(r), run[r].pc = "wait", NEW v \in Units
                     PROVE  /\ run[r].res[v] = "off" => work'[r][v].pc = "none" /\ unitRow[v] = 0
                            /\ run[r].res[v] = "ok" /\ v \notin run[r].unsaved => unitRow[v] = work'[r][v].total
          OBVIOUS
        <5>1. /\ run[r].res[v] = "off" => work[r][v].pc = "none" /\ unitRow[v] = 0
              /\ run[r].res[v] = "ok" /\ v \notin run[r].unsaved => unitRow[v] = work[r][v].total
          BY <4>1 DEF FirstRun
        <5>2. CASE v = u
          BY <1>1, <4>3, <5>1, <5>2
        <5>3. CASE v # u
          BY <1>4, <5>1, <5>3
        <5> QED BY <5>2, <5>3
      <4>6. Started(r) /\ run[r].pc = "routes" => \A v \in Units : unitRow[v] = 0
        BY <4>1 DEF FirstRun
      <4> QED BY <1>2, <4>1, <4>2, <4>4, <4>5, <4>6 DEF FirstRun
    <3>4. \A q \in Runs : FirstRun(q)'
      BY <3>2, <3>3 DEF FirstRun
    <3> QED BY <3>2, <3>4
  <2> QED BY <1>2, <2>6, <2>7, <2>8, <2>9, <2>10 DEF TotalsInv
<1> QED BY <1>1, <1>5, <1>6

\* Neither interest nor the batch changes, except that time passes.
LEMMA TotalsStill ==
    ASSUME BatchInv, TotalsInv, UNCHANGED <<interest, unitRow, run, work, starts>>,
           job'.status = job.status, job'.total = job.total
    PROVE  TotalsInv'
<1>1. Growing /\ SumFunction(interest)' = SumFunction(interest)
  BY InterestSame
<1>2. \A r \in Runs : CountOK(r)'
  BY <1>1, CountFrame DEF TotalsInv
<1>3. \A r \in Runs : /\ (Started(r)' <=> Started(r)) /\ (Fetched(r)' <=> Fetched(r))
                      /\ (Resting(r)' <=> Resting(r)) /\ (FirstRun(r) => FirstRun(r)')
  <2> TAKE r \in Runs
  <2>1. FirstRun(r) => FirstRun(r)'
    BY FirstFrame
  <2> QED BY <2>1 DEF Started, Fetched, Resting
<1> QED BY <1>1, <1>2, <1>3 DEF TotalsInv

\* The scheduler dies; the units go on.
LEMMA CrashTotals ==
    ASSUME BatchInv, TotalsInv, SchedulerCrash
    PROVE  TotalsInv'
<1>1. UNCHANGED <<interest, job, unitRow, work, starts>> /\ run' = [q \in Runs |-> NoRun]
  BY DEF SchedulerCrash, ledger
<1>2. \A r \in Runs : run'[r] = NoRun /\ work'[r] = work[r]
  BY <1>1
<1>3. \A r \in Runs : /\ CountOK(r)' /\ ~Started(r)' /\ (Fetched(r)' => Fetched(r)) /\ FirstRun(r)'
                      /\ (\A u \in Units : work[r][u].pc \in {"none", "done"}) => Resting(r)'
  BY <1>1, <1>2, EndCount
<1>4. \A r \in Runs : Resting(r) => Resting(r)'
  BY <1>3 DEF Resting
<1>5. SumFunction(interest)' = SumFunction(interest)
  BY <1>1, InterestSame
<1> QED BY <1>1, <1>3, <1>4, <1>5 DEF TotalsInv

\* A step of the composition.
LEMMA TotalsInvStep ==
    ASSUME TotalsInv, NameInv, BatchInv, [Next]_vars
    PROVE  TotalsInv'
<1>0. UNCHANGED <<interest, batchVars>> => TotalsInv'
  BY TotalsStill DEF batchVars, history
<1>1. CASE NameServiceNext /\ UNCHANGED batchVars
  <2>1. ASSUME NEW c \in Calls, OpenAccount(c) PROVE UNCHANGED interest
    <3>1. CASE handleCreateAccount(c)
      BY <3>1 DEF handleCreateAccount, unitVars, ledger
    <3>2. CASE ~handleCreateAccount(c)
      BY <2>1, <3>2 DEF OpenAccount, Find, Pick, ReadMax, Insert, InsertRoute, TryAgain, Created, CreateFails,
         Rollback, unitVars, ledger
    <3> QED BY <3>1, <3>2
  <2>2. ASSUME NEW n \in Numbers, Locate(n) \/ CacheExpires(n) PROVE UNCHANGED interest
    BY <2>2 DEF Locate, CacheExpires, ledger
  <2>3. ASSUME NEW u \in Units, handleAddRoute(u) PROVE UNCHANGED interest
    BY <2>3 DEF handleAddRoute, unitVars, ledger
  <2>4. CASE GnsCrash
    BY <1>0, <1>1, <2>4 DEF GnsCrash, ledger
  <2> QED BY <1>0, <1>1, <2>1, <2>2, <2>3, <2>4 DEF NameServiceNext
<1>2. CASE InterestNext(segs)
  <2>1. ASSUME NEW r \in Runs, RunStep(r, segs) PROVE TotalsInv'
    BY <2>1, InsertJobTotals, UpdateJobTotals, FetchTotals, UnitResultTotals, SaveRowTotals, CloseTotals, FinishTotals
       DEF RunStep
  <2>2. ASSUME NEW r \in Runs, NEW u \in Units, UnitStep(r, u) \/ UnitFails(r, u) PROVE TotalsInv'
    BY <2>2, ListTotals, PostTotals DEF UnitStep
  <2>3. CASE JobAges
    <3>1. UNCHANGED <<interest, unitRow, run, work, starts>> /\ job'.status = job.status /\ job'.total = job.total
      BY <2>3 DEF JobAges, unitVars, ledger, history, BatchInv, BatchTypes
    <3> QED BY <3>1, TotalsStill
  <2> QED BY <1>2, <2>1, <2>2, <2>3, ReadJobTotals, CrashTotals DEF InterestNext
<1>3. CASE \E e \in events : handleEvent(e) /\ UNCHANGED <<gnsVars, batchVars>>
  BY <1>0, <1>3 DEF handleEvent, ledger
<1>4. ASSUME NEW from \in Numbers, NEW to \in Numbers, Transfer(from, to) PROVE TotalsInv'
  BY <1>4, TotalsStill DEF Transfer, localTransfer
<1>5. CASE UNCHANGED vars
  BY <1>0, <1>5 DEF vars, unitVars, ledger
<1> QED BY <1>1, <1>2, <1>3, <1>4, <1>5 DEF Next

\* At the start nothing is posted and nothing counted.
LEMMA TotalsInvInit == Init => TotalsInv
<1> SUFFICES ASSUME Init PROVE TotalsInv
  OBVIOUS
<1>1. BatchInv
  BY BatchInvInit
<1>2. (\A u \in Units : InterestOf(u) \in Nat) /\ SumFunction(interest) \in Nat
  BY <1>1, InterestTypes
<1>3. /\ \A r \in Runs : run[r].pc = "idle" /\ run[r].total = 0
      /\ \A r \in Runs : \A u \in Units : work[r][u].pc = "none" /\ work[r][u].total = 0
  BY DEF Init, NoRun, NoWork
<1>4. \A r \in Runs : CountOK(r)
  <2> TAKE r \in Runs
  <2>1. \A u \in Units : PartOK(r, u)
    BY <1>2, <1>3 DEF PartOK
  <2> QED BY <1>2, <1>3, <2>1 DEF CountOK
<1>5. \A r \in Runs : ~Fetched(r)
  BY <1>3 DEF Fetched, Started
<1>6. job.total = 0 /\ job.status = "none" /\ starts = 0
  BY DEF Init, NoJob
<1>7. (\A n \in Numbers : interest[n] = 0) /\ \A u \in Units : unitRow[u] = 0
  BY DEF Init
<1> QED BY <1>2, <1>4, <1>5, <1>6, <1>7 DEF TotalsInv

\* What holds of the totals in every state.
LEMMA TotalsInvariant == Spec => [](NameInv /\ BatchInv /\ TotalsInv)
<1>1. Init => NameInv /\ BatchInv /\ TotalsInv
  BY NameInvInit, BatchInvInit, TotalsInvInit
<1>2. NameInv /\ BatchInv /\ TotalsInv /\ [Next]_vars => (NameInv /\ BatchInv /\ TotalsInv)'
  BY NameInvStep, BatchInvStep, TotalsInvStep
<1> QED BY <1>1, <1>2, PTL DEF Spec

\* The total of a job never exceeds the interest posted; when the job was started once and succeeded it is exactly
\* that, and the sum of the units' rows (handleCreateInterest, finishJob, handleInterestBatch).
THEOREM TotalsBoundedTheorem == Spec => []TotalsBounded
<1>1. NameInv /\ BatchInv /\ TotalsInv => TotalsBounded
  BY DEF TotalsInv, TotalsBounded
<1> QED BY <1>1, TotalsInvariant, PTL

---------------------------------------------------------------------------
(* The risk service.  OneDecision and SagaBacked are not inductive: Books  *)
(* adds what a replica, a relay and the two sides of the broker know.      *)

\* A replica handles a message that was sent, and the smoke gate comes first.
HandlingTrue ==
    \A c \in Consumers : cons[c].stage # "idle" =>
        /\ cons[c].msg \in sent
        /\ cons[c].stage = "apply" => ~isReject(cons[c].msg)

\* What a handler has read was so, and has since changed at most as a status
\* may change.
SeenTrue ==
    \A c \in Consumers : cons[c].stage = "apply" =>
        LET s == auth[cons[c].msg.wf].status
        IN  /\ cons[c].seen = "authorized" => s \in {"authorized", "voided"}
            /\ cons[c].seen = "voided" => s = "voided"

\* A relay has only rows of the outbox in hand.
RelayTrue == \A r \in Relays : relay[r].batch \subseteq outbox /\ relay[r].pub \in outbox \cup {NoMessage}

\* Only a saga that is compensating asks to void, and only then is it done.
VoidAsked ==
    /\ \A m \in sent : m.kind = "void" => stage[m.wf] \in {"voiding", "voided"}
    /\ \A w \in Workflows : auth[w].status = "voided" => stage[w] \in {"voiding", "voided"}

\* Events say what is stored.
EventTrue(e, a) ==
    /\ e.type = "authorized" => a.status \in {"authorized", "voided"} /\ e.rules = a.rules
    /\ e.type = "rejected" /\ e.cmd.wf \notin SmokeRejected =>
          a.status = "rejected" /\ e.rules = a.rules
    /\ e.type = "voided" => a.status = "voided"

EventsTrue == \A e \in outbox : EventTrue(e, auth[e.cmd.wf])

DecidedOnce == \A w \in Workflows \ SmokeRejected : \A e, f \in Decisions(w) : e = f

VoidTold ==
    \A w \in Workflows : auth[w].status = "voided" =>
        \E e \in outbox : e.cmd.wf = w /\ e.type = "voided"

SmokeOpen == \A w \in SmokeRejected : auth[w].status = "none"

Books ==
    /\ RiskTypeOK /\ IsFiniteSet(sent)
    /\ HandlingTrue /\ SeenTrue /\ RelayTrue /\ VoidAsked
    /\ EventsTrue /\ DecidedOnce /\ VoidTold /\ SmokeOpen
    /\ SagaBacked

---------------------------------------------------------------------------

LEMMA BooksInit == RiskInit => Books
<1> SUFFICES ASSUME RiskInit PROVE Books
  OBVIOUS
<1>1. RiskTypeOK /\ IsFiniteSet(sent)
  BY FS_EmptySet, RiskAssumption
  DEF RiskInit, RiskTypeOK, Stages, Authorization, AuthStatus, ConsumerState, RelayState, Idle, Drained
<1>2. HandlingTrue /\ SeenTrue /\ RelayTrue
  BY DEF RiskInit, HandlingTrue, SeenTrue, RelayTrue, Idle, Drained
<1>3. VoidAsked /\ EventsTrue /\ DecidedOnce /\ VoidTold /\ SmokeOpen /\ SagaBacked
  BY RiskAssumption
  DEF RiskInit, VoidAsked, EventsTrue, DecidedOnce, Decisions, VoidTold, SmokeOpen, SagaBacked
<1> QED BY <1>1, <1>2, <1>3 DEF Books

\* A command that is sent is a message.
LEMMA SendMessage ==
  ASSUME Books, NEW kind \in {"authorize", "void", "other"}, NEW w \in Workflows, Send(kind, w)
  PROVE  /\ sent' \subseteq Message /\ IsFiniteSet(sent')
         /\ sent \subseteq sent' /\ queue' \subseteq sent'
         /\ \A m \in sent' : m \in sent \/ (m.kind = kind /\ m.wf = w)
<1> DEFINE m == [kind |-> kind, wf |-> w, n |-> Cardinality(Copies(kind, w)) + 1]
<1>1. Copies(kind, w) \subseteq sent /\ IsFiniteSet(sent)
  BY DEF Copies, Books
<1>2. Cardinality(Copies(kind, w)) \in Nat
  BY <1>1, FS_Subset, FS_CardinalityType
<1>3. m \in Message
  BY <1>2 DEF Message
<1>4. sent' = sent \cup {m} /\ queue' = queue \cup {m}
  BY DEF Send
<1>5. IsFiniteSet(sent')
  BY <1>1, <1>4, FS_AddElement
<1> QED BY <1>3, <1>4, <1>5 DEF Books, RiskTypeOK

---------------------------------------------------------------------------
(* Steps that move messages or events *)

\* What is stored, announced and known to the sagas is left as it is.
LEMMA FrameTrue ==
  ASSUME Books, UNCHANGED <<auth, outbox, stage, sent>>
  PROVE  VoidAsked' /\ EventsTrue' /\ DecidedOnce' /\ VoidTold' /\ SmokeOpen' /\ SagaBacked'
BY DEF Books, VoidAsked, EventsTrue, EventTrue, DecidedOnce, Decisions, VoidTold, SmokeOpen, SagaBacked

LEMMA RedeliverStep == ASSUME Books, NEW m \in sent, Redeliver(m) PROVE Books'
<1>1. RiskTypeOK' /\ IsFiniteSet(sent)'
  BY DEF Books, RiskTypeOK, Redeliver, saga
<1>2. HandlingTrue' /\ SeenTrue' /\ RelayTrue'
  BY DEF Books, Redeliver, saga, HandlingTrue, SeenTrue, RelayTrue, isReject
<1> QED BY <1>1, <1>2, FrameTrue DEF Books, Redeliver, saga

LEMMA DeliverStep == ASSUME Books, NEW c \in Consumers, NEW m \in queue, Deliver(c, m) PROVE Books'
<1>1. m \in Message /\ m \in sent
  BY DEF Books, RiskTypeOK
<1>2. cons' \in [Consumers -> ConsumerState]
  BY <1>1 DEF Books, RiskTypeOK, Deliver, ConsumerState, AuthStatus
<1>3. RiskTypeOK' /\ IsFiniteSet(sent)'
  BY <1>2 DEF Books, RiskTypeOK, Deliver, saga
<1>4. HandlingTrue'
  BY <1>1 DEF Books, RiskTypeOK, Deliver, saga, HandlingTrue, isReject
<1>5. SeenTrue' /\ RelayTrue'
  BY <1>1 DEF Books, RiskTypeOK, Deliver, saga, SeenTrue, RelayTrue
<1> QED BY <1>3, <1>4, <1>5, FrameTrue DEF Books, Deliver, saga

LEMMA LookupStep == ASSUME Books, NEW c \in Consumers, Lookup(c) PROVE Books'
<1>1. cons[c].msg \in sent /\ cons[c].msg \in Message
  BY DEF Books, RiskTypeOK, Lookup, HandlingTrue
<1>2. auth[cons[c].msg.wf].status \in AuthStatus
  BY <1>1 DEF Books, RiskTypeOK, Message, Authorization
<1>3. cons' \in [Consumers -> ConsumerState]
  BY <1>1, <1>2 DEF Books, RiskTypeOK, Lookup, ConsumerState
<1>4. RiskTypeOK' /\ IsFiniteSet(sent)'
  BY <1>3 DEF Books, RiskTypeOK, Lookup, saga
<1>5. HandlingTrue' /\ RelayTrue'
  BY <1>1 DEF Books, RiskTypeOK, Lookup, saga, HandlingTrue, RelayTrue, isReject
<1>6. SeenTrue'
  BY <1>1 DEF Books, RiskTypeOK, Lookup, saga, SeenTrue
<1> QED BY <1>4, <1>5, <1>6, FrameTrue DEF Books, Lookup, saga

LEMMA settleDeliveryStep == ASSUME Books, NEW c \in Consumers, settleDelivery(c) PROVE Books'
<1>1. cons[c].msg \in sent
  BY DEF Books, settleDelivery, HandlingTrue
<1>2. Idle \in ConsumerState
  BY DEF Idle, ConsumerState, AuthStatus
<1>3. faults' \in Nat
  BY DEF Books, RiskTypeOK, settleDelivery
<1>4. RiskTypeOK' /\ IsFiniteSet(sent)'
  BY <1>1, <1>2, <1>3 DEF Books, RiskTypeOK, settleDelivery, saga
<1>5. HandlingTrue' /\ SeenTrue' /\ RelayTrue'
  BY DEF Books, RiskTypeOK, settleDelivery, saga, HandlingTrue, SeenTrue, RelayTrue, isReject, Idle
<1> QED BY <1>4, <1>5, FrameTrue DEF Books, settleDelivery, saga

LEMMA DrainStep == ASSUME Books, NEW r \in Relays, Drain(r) \/ RelayStops(r) PROVE Books'
<1>0. UNCHANGED <<auth, outbox, stage, sent, cons>>
  BY DEF Drain, ReadBatch, PublishTo, MarkDispatched, RelayStops, saga
<1>1. HandlingTrue' /\ SeenTrue'
  BY <1>0 DEF Books, HandlingTrue, SeenTrue, isReject
<1>2. /\ relay' \in [Relays -> RelayState] /\ dispatched' \subseteq outbox
      /\ results' \subseteq outbox /\ faults' \in Nat /\ RelayTrue'
      /\ UNCHANGED <<queue, inbox>>
  <2>1. CASE ReadBatch(r)
    BY <2>1 DEF ReadBatch, Books, RiskTypeOK, RelayState, RelayTrue, saga
  <2>2. ASSUME NEW e \in relay[r].batch, PublishTo(r, e)
        PROVE  <1>2!:
    <3>1. e \in outbox /\ e \in Event
      BY DEF Books, RiskTypeOK, RelayTrue
    <3>2. relay[r].batch \ {e} \in SUBSET Event
      BY DEF Books, RiskTypeOK, RelayState
    <3> QED BY <2>2, <3>1, <3>2 DEF PublishTo, Books, RiskTypeOK, RelayState, RelayTrue, saga
  <2>3. CASE MarkDispatched(r)
    BY <2>3 DEF MarkDispatched, Books, RiskTypeOK, RelayState, RelayTrue, saga
  <2>4. CASE RelayStops(r)
    BY <2>4 DEF RelayStops, Books, RiskTypeOK, RelayState, RelayTrue, saga, Drained
  <2> QED BY <2>1, <2>2, <2>3, <2>4 DEF Drain
<1>3. RiskTypeOK' /\ IsFiniteSet(sent)'
  BY <1>0, <1>2 DEF Books, RiskTypeOK
<1> QED BY <1>0, <1>1, <1>2, <1>3, FrameTrue DEF Books

---------------------------------------------------------------------------
(* Steps of the saga *)

LEMMA SendStep ==
  ASSUME Books, NEW w \in Workflows, Execute(w) \/ Compensate(w) \/ SendOther(w)
  PROVE  Books'
<1>1. PICK kind \in {"authorize", "void", "other"} :
        /\ Send(kind, w)
        /\ kind = "void" => stage[w] = "authorized" /\ stage' = [stage EXCEPT ![w] = "voiding"]
        /\ kind = "authorize" =>
              stage[w] \in {"idle", "waiting"} /\ stage' = [stage EXCEPT ![w] = "waiting"]
        /\ kind = "other" => stage' = stage
  BY DEF Execute, Compensate, SendOther
<1>2. UNCHANGED <<auth, inbox, outbox, dispatched, cons, relay, results, faults>>
  BY DEF Execute, Compensate, SendOther
<1>3. /\ sent' \subseteq Message /\ IsFiniteSet(sent')
      /\ sent \subseteq sent' /\ queue' \subseteq sent'
      /\ \A m \in sent' : m \in sent \/ (m.kind = kind /\ m.wf = w)
  BY <1>1, SendMessage
<1>4. stage' \in [Workflows -> Stages]
  BY <1>1 DEF Books, RiskTypeOK, Stages
<1>5. RiskTypeOK' /\ IsFiniteSet(sent)'
  BY <1>2, <1>3, <1>4 DEF Books, RiskTypeOK
<1>6. HandlingTrue' /\ SeenTrue' /\ RelayTrue'
  BY <1>2, <1>3 DEF Books, HandlingTrue, SeenTrue, RelayTrue, isReject
<1>7. EventsTrue' /\ DecidedOnce' /\ VoidTold' /\ SmokeOpen'
  BY <1>2 DEF Books, EventsTrue, EventTrue, DecidedOnce, Decisions, VoidTold, SmokeOpen
<1>8. VoidAsked'
  <2>1. ASSUME NEW m \in sent', m.kind = "void" PROVE stage'[m.wf] \in {"voiding", "voided"}
    <3>1. m.wf \in Workflows
      BY <1>3 DEF Message
    <3> QED BY <2>1, <3>1, <1>1, <1>3 DEF Books, RiskTypeOK, VoidAsked
  <2>2. ASSUME NEW v \in Workflows, auth[v].status = "voided"
        PROVE  stage'[v] \in {"voiding", "voided"}
    BY <2>2, <1>1 DEF Books, RiskTypeOK, VoidAsked
  <2> QED BY <2>1, <2>2, <1>2 DEF VoidAsked
<1>9. SagaBacked'
  BY <1>1, <1>2 DEF Books, RiskTypeOK, SagaBacked
<1> QED BY <1>5, <1>6, <1>7, <1>8, <1>9 DEF Books

LEMMA ApplyResultStep == ASSUME Books, NEW e \in results, ApplyResult(e) PROVE Books'
<1> DEFINE w == e.cmd.wf
<1>1. e \in outbox /\ e \in Event /\ w \in Workflows
  BY DEF Books, RiskTypeOK, Event, Message
<1>2. /\ stage' = [stage EXCEPT ![w] = NextStage(stage[w], e.type)]
      /\ UNCHANGED <<auth, sent, queue, inbox, outbox, dispatched, cons, relay, faults>>
      /\ results' \subseteq results
  BY DEF ApplyResult
<1>3. /\ stage[w] \in {"voiding", "voided"} => NextStage(stage[w], e.type) \in {"voiding", "voided"}
      /\ NextStage(stage[w], e.type) \in Stages
      /\ NextStage(stage[w], e.type) # stage[w] =>
            /\ stage[w] = "waiting" \/ e.type = "voided"
            /\ NextStage(stage[w], e.type) = e.type
  BY <1>1 DEF NextStage, Books, RiskTypeOK, Stages
<1>4. RiskTypeOK' /\ IsFiniteSet(sent)'
  BY <1>1, <1>2, <1>3 DEF Books, RiskTypeOK
<1>5. HandlingTrue' /\ SeenTrue' /\ RelayTrue'
  BY <1>2 DEF Books, HandlingTrue, SeenTrue, RelayTrue, isReject
<1>6. EventsTrue' /\ DecidedOnce' /\ VoidTold' /\ SmokeOpen'
  BY <1>2 DEF Books, EventsTrue, EventTrue, DecidedOnce, Decisions, VoidTold, SmokeOpen
<1>7. VoidAsked'
  <2>1. \A v \in Workflows : stage[v] \in {"voiding", "voided"} => stage'[v] \in {"voiding", "voided"}
    BY <1>1, <1>2, <1>3 DEF Books, RiskTypeOK
  <2>2. \A m \in sent : m.wf \in Workflows
    BY DEF Books, RiskTypeOK, Message
  <2> QED BY <2>1, <2>2, <1>2 DEF Books, VoidAsked
<1>8. SagaBacked'
  <2>1. EventTrue(e, auth[w])
    BY <1>1 DEF Books, EventsTrue
  <2>2. NextStage(stage[w], e.type) # stage[w] =>
          /\ e.type = "authorized" => auth[w].status = "authorized"
          /\ e.type = "voided" => auth[w].status = "voided"
          /\ e.type = "rejected" =>
                auth[w].status = IF w \in SmokeRejected THEN "none" ELSE "rejected"
    BY <1>1, <1>3, <2>1 DEF EventTrue, Books, VoidAsked, SmokeOpen
  <2>3. ASSUME NEW v \in Workflows
        PROVE  /\ stage'[v] = "authorized" => auth[v].status = "authorized"
               /\ stage'[v] = "voided" => auth[v].status = "voided"
               /\ stage'[v] = "rejected" =>
                     auth[v].status = IF v \in SmokeRejected THEN "none" ELSE "rejected"
    <3>1. CASE stage'[v] = stage[v]
      BY <3>1 DEF Books, SagaBacked
    <3>2. CASE stage'[v] # stage[v]
      <4>1. v = w /\ stage'[v] = NextStage(stage[w], e.type)
        BY <3>2, <1>1, <1>2 DEF Books, RiskTypeOK
      <4> QED BY <4>1, <3>2, <2>2, <1>3
    <3> QED BY <3>1, <3>2
  <2> QED BY <2>3, <1>2 DEF SagaBacked
<1> QED BY <1>4, <1>5, <1>6, <1>7, <1>8 DEF Books

---------------------------------------------------------------------------
(* Commits of a replica *)

\* The part of a commit that does not depend on what is decided.
LEMMA CommitTypes ==
  ASSUME Books, NEW c \in Consumers, cons[c].stage # "idle",
         NEW issued \in SUBSET Event, Commit(c, issued),
         auth' \in [Workflows -> Authorization]
  PROVE  /\ RiskTypeOK' /\ IsFiniteSet(sent)' /\ HandlingTrue' /\ RelayTrue'
         /\ UNCHANGED <<stage, sent>> /\ outbox' = outbox \cup issued
         /\ \A d \in Consumers : cons'[d].stage = "apply" => cons'[d] = cons[d]
<1>1. cons[c].msg \in sent
  BY DEF Books, HandlingTrue
<1>2. Idle \in ConsumerState /\ Idle.stage = "idle"
  BY DEF Idle, ConsumerState, AuthStatus
<1>3. RiskTypeOK' /\ IsFiniteSet(sent)'
  BY <1>1, <1>2 DEF Books, RiskTypeOK, Commit, saga
<1>4. HandlingTrue' /\ RelayTrue'
  BY <1>2 DEF Books, RiskTypeOK, Commit, saga, HandlingTrue, RelayTrue, isReject
<1> QED BY <1>2, <1>3, <1>4 DEF Books, RiskTypeOK, Commit, saga

\* Smoke rejections, failures and duplicates store nothing.
LEMMA QuietStep ==
  ASSUME Books, NEW c \in Consumers,
         SmokeReject(c) \/ emitFailure(c) \/ AuthorizeDuplicate(c)
  PROVE  Books'
<1> DEFINE m == cons[c].msg
<1>0. cons[c].stage # "idle" /\ UNCHANGED auth
  BY DEF SmokeReject, emitFailure, AuthorizeDuplicate, Applying
<1>1. m \in Message
  BY <1>0 DEF Books, RiskTypeOK, HandlingTrue
<1>2. PICK issued \in SUBSET Event :
        /\ Commit(c, issued)
        /\ \A e \in issued : \/ e.type = "command_rejected"
                             \/ e.type = "rejected" /\ e.cmd.wf \in SmokeRejected
  <2>1. CASE SmokeReject(c)
    <3>1. EventOf(m, "rejected", {"SMOKE-INJECTED"}) \in Event
      BY <1>1 DEF EventOf, Event
    <3> QED BY <2>1, <3>1 DEF SmokeReject, EventOf, isReject
  <2>2. CASE emitFailure(c)
    <3>1. EventOf(m, "command_rejected", {}) \in Event
      BY <1>1 DEF EventOf, Event
    <3> QED BY <2>2, <3>1 DEF emitFailure, EventOf
  <2>3. CASE AuthorizeDuplicate(c)
    BY <2>3 DEF AuthorizeDuplicate
  <2> QED BY <2>1, <2>2, <2>3
<1>3. auth' \in [Workflows -> Authorization]
  BY <1>0 DEF Books, RiskTypeOK
<1>4. /\ RiskTypeOK' /\ IsFiniteSet(sent)' /\ HandlingTrue' /\ RelayTrue'
      /\ UNCHANGED <<stage, sent>> /\ outbox' = outbox \cup issued
      /\ \A d \in Consumers : cons'[d].stage = "apply" => cons'[d] = cons[d]
  BY <1>0, <1>2, <1>3, CommitTypes
<1>5. SeenTrue'
  BY <1>0, <1>4 DEF Books, SeenTrue
<1>6. VoidAsked' /\ SmokeOpen' /\ SagaBacked'
  BY <1>0, <1>4 DEF Books, VoidAsked, SmokeOpen, SagaBacked
<1>7. EventsTrue' /\ VoidTold'
  BY <1>0, <1>2, <1>4 DEF Books, EventsTrue, EventTrue, VoidTold
<1>8. DecidedOnce'
  BY <1>2, <1>4 DEF Books, DecidedOnce, Decisions
<1> QED BY <1>4, <1>5, <1>6, <1>7, <1>8 DEF Books

LEMMA AuthorizeStep == ASSUME Books, NEW c \in Consumers, AuthorizePayment(c) PROVE Books'
<1> DEFINE m == cons[c].msg
           w == m.wf
<1>0. cons[c].stage = "apply" /\ m.kind = "authorize" /\ auth[w].status = "none"
  BY DEF AuthorizePayment, Applying, Insertable
<1>1. m \in Message /\ m \in sent /\ w \in Workflows
  BY <1>0 DEF Books, RiskTypeOK, HandlingTrue, Message
<1>2. w \notin SmokeRejected
  BY <1>0 DEF Books, HandlingTrue, isReject
<1>3. PICK rules \in SUBSET Rules :
        /\ auth' = [auth EXCEPT ![w] = Decided(rules)]
        /\ Commit(c, {EventOf(m, Decided(rules).status, Decided(rules).rules)})
  BY DEF AuthorizePayment, evaluateRules
<1> DEFINE row == Decided(rules)
           e == EventOf(m, row.status, row.rules)
<1>4. /\ row \in Authorization /\ row.status \in {"authorized", "rejected"} /\ row.rules = rules
      /\ auth' \in [Workflows -> Authorization]
      /\ auth'[w] = row /\ \A v \in Workflows \ {w} : auth'[v] = auth[v]
  BY <1>1, <1>3 DEF Decided, Authorization, AuthStatus, Books, RiskTypeOK
<1>5. e \in Event /\ e.type = row.status /\ e.cmd.wf = w /\ e.rules = row.rules
  BY <1>1, <1>4 DEF EventOf, Event, Authorization
<1>6. /\ RiskTypeOK' /\ IsFiniteSet(sent)' /\ HandlingTrue' /\ RelayTrue'
      /\ UNCHANGED <<stage, sent>> /\ outbox' = outbox \cup {e}
      /\ \A d \in Consumers : cons'[d].stage = "apply" => cons'[d] = cons[d]
  BY <1>0, <1>3, <1>4, <1>5, CommitTypes
<1> HIDE DEF e, row
<1>7. \A f \in outbox : f.cmd.wf \in Workflows /\
          (f.cmd.wf = w => f.type \notin {"authorized", "rejected", "voided"})
  BY <1>0, <1>2 DEF Books, RiskTypeOK, EventsTrue, EventTrue, Event, Message
<1>8. SeenTrue'
  <2>1. ASSUME NEW d \in Consumers, cons'[d].stage = "apply"
        PROVE  LET s == auth'[cons'[d].msg.wf].status
               IN  /\ cons'[d].seen = "authorized" => s \in {"authorized", "voided"}
                   /\ cons'[d].seen = "voided" => s = "voided"
    <3>1. cons'[d] = cons[d] /\ cons[d].stage = "apply"
      BY <2>1, <1>6
    <3>2. cons[d].msg.wf \in Workflows
      BY <3>1 DEF Books, RiskTypeOK, HandlingTrue, Message
    <3>3. cons[d].msg.wf = w => cons[d].seen \notin {"authorized", "voided"}
      BY <3>1, <1>0 DEF Books, SeenTrue
    <3> QED BY <3>1, <3>2, <3>3, <1>4 DEF Books, SeenTrue
  <2> QED BY <2>1 DEF SeenTrue
<1>9. SmokeOpen'
  BY <1>2, <1>4, RiskAssumption DEF Books, SmokeOpen
<1>10. VoidAsked'
  BY <1>4, <1>6 DEF Books, VoidAsked
<1>11. EventsTrue'
  <2>1. \A f \in outbox : EventTrue(f, auth'[f.cmd.wf])
    BY <1>4, <1>7 DEF Books, EventsTrue, EventTrue
  <2>2. EventTrue(e, auth'[e.cmd.wf])
    BY <1>4, <1>5 DEF EventTrue
  <2> QED BY <2>1, <2>2, <1>6 DEF EventsTrue
<1>12. DecidedOnce'
  BY <1>5, <1>6, <1>7 DEF Books, DecidedOnce, Decisions
<1>13. VoidTold'
  BY <1>4, <1>6 DEF Books, VoidTold
<1>14. SagaBacked'
  <2>1. stage[w] \notin {"authorized", "voided", "rejected"}
    BY <1>0, <1>1, <1>2 DEF Books, SagaBacked
  <2> QED BY <2>1, <1>4, <1>6 DEF Books, SagaBacked
<1> QED BY <1>6, <1>8, <1>9, <1>10, <1>11, <1>12, <1>13, <1>14 DEF Books

LEMMA VoidStep == ASSUME Books, NEW c \in Consumers, VoidAuthorization(c) PROVE Books'
<1> DEFINE m == cons[c].msg
           w == m.wf
           e == EventOf(m, "voided", {})
<1>0. /\ cons[c].stage = "apply" /\ m.kind = "void"
      /\ auth' = [auth EXCEPT ![w].status = "voided"]
  BY DEF VoidAuthorization, Applying
<1>1. m \in Message /\ m \in sent /\ w \in Workflows
  BY <1>0 DEF Books, RiskTypeOK, HandlingTrue, Message
<1>2. auth[w].status \in {"authorized", "voided"}
  BY <1>0 DEF VoidAuthorization, Books, SeenTrue
<1>3. stage[w] \in {"voiding", "voided"}
  BY <1>0, <1>1 DEF Books, VoidAsked
<1>4. /\ auth' \in [Workflows -> Authorization]
      /\ auth'[w].status = "voided" /\ auth'[w].rules = auth[w].rules
      /\ \A v \in Workflows \ {w} : auth'[v] = auth[v]
  BY <1>0, <1>1 DEF Books, RiskTypeOK, Authorization, AuthStatus
<1>5. e \in Event /\ e.type = "voided" /\ e.cmd.wf = w
  BY <1>1 DEF EventOf, Event
<1>6. PICK issued \in SUBSET Event :
        /\ Commit(c, issued)
        /\ \A f \in issued : f.type = "voided" /\ f.cmd.wf = w
        /\ issued = {} => auth[w].status = "voided"
  <2>1. CASE cons[c].seen = "authorized"
    <3>1. Commit(c, {e})
      BY <2>1 DEF VoidAuthorization
    <3> QED BY <3>1, <1>5
  <2>2. CASE cons[c].seen # "authorized"
    <3>1. Commit(c, {}) /\ cons[c].seen = "voided"
      BY <2>2 DEF VoidAuthorization
    <3> QED BY <3>1, <1>0 DEF Books, SeenTrue
  <2> QED BY <2>1, <2>2
<1> HIDE DEF e
<1>7. /\ RiskTypeOK' /\ IsFiniteSet(sent)' /\ HandlingTrue' /\ RelayTrue'
      /\ UNCHANGED <<stage, sent>> /\ outbox' = outbox \cup issued
      /\ \A d \in Consumers : cons'[d].stage = "apply" => cons'[d] = cons[d]
  BY <1>0, <1>4, <1>6, CommitTypes
<1>8. \A f \in outbox : f.cmd.wf \in Workflows /\ (f.cmd.wf = w => f.type # "rejected")
  BY <1>2 DEF Books, RiskTypeOK, EventsTrue, EventTrue, Event, Message, SmokeOpen
<1>9. w \notin SmokeRejected
  BY <1>2 DEF Books, SmokeOpen
<1>10. SeenTrue'
  <2>1. ASSUME NEW d \in Consumers, cons'[d].stage = "apply"
        PROVE  LET s == auth'[cons'[d].msg.wf].status
               IN  /\ cons'[d].seen = "authorized" => s \in {"authorized", "voided"}
                   /\ cons'[d].seen = "voided" => s = "voided"
    <3>1. cons'[d] = cons[d] /\ cons[d].stage = "apply"
      BY <2>1, <1>7
    <3>2. cons[d].msg.wf \in Workflows
      BY <3>1 DEF Books, RiskTypeOK, HandlingTrue, Message
    <3> QED BY <3>1, <3>2, <1>4 DEF Books, SeenTrue
  <2> QED BY <2>1 DEF SeenTrue
<1>11. SmokeOpen'
  BY <1>4, <1>9, RiskAssumption DEF Books, SmokeOpen
<1>12. VoidAsked'
  BY <1>3, <1>4, <1>7 DEF Books, VoidAsked
<1>13. EventsTrue'
  <2>1. \A f \in outbox : EventTrue(f, auth'[f.cmd.wf])
    BY <1>4, <1>8 DEF Books, EventsTrue, EventTrue
  <2>2. \A f \in issued : EventTrue(f, auth'[f.cmd.wf])
    BY <1>4, <1>6 DEF EventTrue
  <2> QED BY <2>1, <2>2, <1>7 DEF EventsTrue
<1>14. DecidedOnce'
  BY <1>6, <1>7 DEF Books, DecidedOnce, Decisions
<1>15. VoidTold'
  BY <1>1, <1>4, <1>6, <1>7 DEF Books, VoidTold
<1>16. SagaBacked'
  BY <1>3, <1>4, <1>7 DEF Books, SagaBacked
<1> QED BY <1>7, <1>10, <1>11, <1>12, <1>13, <1>14, <1>15, <1>16 DEF Books

---------------------------------------------------------------------------

LEMMA StutterStep == ASSUME Books, UNCHANGED riskVars PROVE Books'
BY FrameTrue DEF riskVars, Books, RiskTypeOK, HandlingTrue, isReject, SeenTrue, RelayTrue

\* Books holds in every state the service can reach.
LEMMA BooksInvariant == RiskSpec => []Books
<1>1. Books /\ [RiskNext]_riskVars => Books'
  <2> SUFFICES ASSUME Books, [RiskNext]_riskVars PROVE Books'
    OBVIOUS
  <2>1. ASSUME NEW c \in Consumers, Consume(c) PROVE Books'
    BY <2>1, DeliverStep, LookupStep, QuietStep, AuthorizeStep, VoidStep, settleDeliveryStep
    DEF Consume, Handle
  <2> QED BY <2>1, SendStep, RedeliverStep, DrainStep, ApplyResultStep, StutterStep DEF RiskNext
<1> QED BY <1>1, BooksInit, PTL DEF RiskSpec

\* Types, for every value of the constants.
THEOREM RiskTypes == RiskSpec => []RiskTypeOK
<1>1. Books => RiskTypeOK
  BY DEF Books
<1> QED BY <1>1, BooksInvariant, PTL

\* One payment has one decision, whatever is repeated, raced or lost between
\* the consumer's lookup and its commit.
THEOREM OneDecisionTheorem == RiskSpec => []OneDecision
<1>1. Books => OneDecision
  BY DEF Books, OneDecision, DecidedOnce, EventsTrue, EventTrue, VoidTold, Decisions
<1> QED BY <1>1, BooksInvariant, PTL

\* The saga's view of an authorization is the risk service's.
THEOREM SagaBackedTheorem == RiskSpec => []SagaBacked
<1>1. Books => SagaBacked
  BY DEF Books
<1> QED BY <1>1, BooksInvariant, PTL
=============================================================================
