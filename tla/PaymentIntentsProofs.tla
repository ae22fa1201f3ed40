------------------------ MODULE PaymentIntentsProofs ------------------------
(***************************************************************************)
(* IntentTruthful of PaymentIntents, for every number of keys, workflows,  *)
(* requests and replicas.                                                  *)
(***************************************************************************)
EXTENDS PaymentIntents, TLAPS

---------------------------------------------------------------------------
(* The inductive invariant *)

\* A forward instance has a step to go, a compensating one a step to undo,
\* and the engine works on rows that exist.
EngineShape ==
    \A w \in Instances :
        /\ phase[w] = "new" => depth[w] = 0
        /\ phase[w] = "forward" => depth[w] < (IF w \in Transfers THEN TransferSteps ELSE 1)
        /\ phase[w] \in {"backward", "stuck"} => depth[w] >= 1
        /\ phase[w] # "new" => w \in Created

\* Only commands of instances under way are answered.
EventsKnown == \A e \in published : phase[e.wf] # "new"

\* StatusBacked and the first half of SucceededAnnounced, key by key.
IntentBacked(k) ==
    intent[k] # NoIntent =>
        LET w == intent[k].wf
        IN  /\ intent[k].status \in {"succeeded", "reversal_pending", "reversed"} =>
                  phase[w] = "succeeded" /\ completions[w] > 0
            /\ intent[k].status = "compensated" => phase[w] = "compensated"
            /\ intent[k].status = "reversed" \/ intent[k].reversed =>
                  \E r \in Reversals : orig[r] = w /\ phase[r] = "succeeded"

IntentsBacked == \A k \in Keys : IntentBacked(k)

\* Only a payment that succeeded and was announced is reversed.
OrigBacked ==
    \A r \in Reversals : orig[r] # None =>
        phase[orig[r]] = "succeeded" /\ completions[orig[r]] > 0

\* Only a payment that succeeded is announced.
CompletionsBacked == \A w \in Transfers : completions[w] > 0 => phase[w] = "succeeded"

\* What a replica that handles an event has read is still true when it is
\* final, whatever the others have done since.
HandlerSees(c) ==
    LET e == cons[c].ev
        s == cons[c].stage
    IN  /\ s # "idle" => e \in published
        /\ s \notin {"idle", "apply"} => e \in applied
        /\ s \in {"previous", "sync"} =>
              /\ e.wf \in Transfers
              /\ cons[c].status \notin {"reversal_pending", "reversed"}
              /\ cons[c].status \in {"succeeded", "compensated"} =>
                    phase[e.wf] = cons[c].status
        /\ s = "sync" =>
              /\ cons[c].fresh => cons[c].status = "succeeded"
              /\ cons[c].status = "succeeded" /\ ~cons[c].fresh => completions[e.wf] > 0
        /\ s = "reversal" => e.wf \in Reversals /\ phase[e.wf] = "succeeded"

HandlersSee == \A c \in Replicas : HandlerSees(c)

\* The payment a reverse request has checked stays succeeded and announced.
RequestSees(q) ==
    /\ req[q].pc # "idle" =>
          /\ req[q].wf \in Transfers
          /\ phase[req[q].wf] = "succeeded"
          /\ completions[req[q].wf] > 0
    /\ req[q].pc \in {"prepare", "mark"} =>
          req[q].rev \in Reversals /\ orig[req[q].rev] = req[q].wf

RequestsSee == \A q \in Requests : RequestSees(q)

IntentInv ==
    /\ TypeOK /\ EngineShape /\ EventsKnown /\ IntentsBacked
    /\ OrigBacked /\ CompletionsBacked /\ HandlersSee /\ RequestsSee

---------------------------------------------------------------------------
(* What every step keeps *)

\* What a replica has open.
Handling == [stage : Stages, ev : ResultEvent \cup {None}, status : IntentStatus, fresh : BOOLEAN]

\* What is final stays, and rows are never taken back.
Grows ==
    /\ \A v \in Instances :
          /\ phase[v] \in {"succeeded", "compensated"} => phase'[v] = phase[v]
          /\ phase[v] # "new" => phase'[v] # "new"
    /\ \A w \in Transfers : completions[w] > 0 => completions'[w] > 0
    /\ \A r \in Reversals : orig[r] # None => orig'[r] = orig[r]
    /\ published \subseteq published' /\ applied \subseteq applied'

\* A step that leaves the engine and the rows of payments alone keeps them.
LEMMA GrowsSame ==
    ASSUME UNCHANGED <<phase, completions, orig, published, applied>>
    PROVE  Grows
BY DEF Grows

\* A replica that does nothing still sees what it saw.
LEMMA HandlerKept ==
    ASSUME TypeOK, Grows, NEW c \in Replicas, HandlerSees(c), cons'[c] = cons[c]
    PROVE  HandlerSees(c)'
<1>1. cons[c] \in Handling
  BY DEF Handling, TypeOK
<1>2. cons[c].ev \in published => cons[c].ev \in ResultEvent /\ cons[c].ev.wf \in Instances
  BY DEF TypeOK, ResultEvent
<1>3. cons[c].stage \in {"previous", "sync"} => cons[c].stage # "idle"
  OBVIOUS
<1> QED BY <1>1, <1>2 DEF HandlerSees, Grows, Instances, Stages

\* A request that does nothing still sees what it saw.
LEMMA RequestKept ==
    ASSUME TypeOK, IntentAssumption, Grows, NEW q \in Requests, RequestSees(q), req'[q] = req[q]
    PROVE  RequestSees(q)'
BY DEF RequestSees, Grows, Instances, TypeOK, IntentAssumption

\* The intent of a payment is no field of the empty row.
LEMMA IntentRow ==
    ASSUME TypeOK, IntentAssumption, NEW k \in Keys
    PROVE  /\ intent[k] # NoIntent => intent[k] \in Intent /\ intent[k].wf \in Transfers
           /\ intent[k].wf # None => intent[k] # NoIntent
           /\ intent[k].wf = None => intent[k] = NoIntent
BY DEF TypeOK, IntentAssumption, Intent, NoIntent

\* The intent of a payment that is not written stays backed.
LEMMA IntentKept ==
    ASSUME TypeOK, IntentAssumption, Grows, NEW k \in Keys, IntentBacked(k), intent'[k] = intent[k]
    PROVE  IntentBacked(k)'
<1>1. CASE intent[k] = NoIntent
  BY <1>1 DEF IntentBacked
<1>2. CASE intent[k] # NoIntent
  <2> DEFINE w == intent[k].wf
  <2>1. w \in Transfers /\ w \in Instances /\ w # None
    BY <1>2, IntentRow DEF Instances, IntentAssumption
  <2>2. \A r \in Reversals : orig[r] = w /\ phase[r] = "succeeded" =>
            orig'[r] = w /\ phase'[r] = "succeeded"
    BY <2>1 DEF Grows, Instances
  <2>3. phase[w] \in {"succeeded", "compensated"} => phase'[w] = phase[w]
    BY <2>1 DEF Grows
  <2>4. completions[w] > 0 => completions'[w] > 0
    BY <2>1 DEF Grows
  <2> QED BY <1>2, <2>2, <2>3, <2>4 DEF IntentBacked
<1> QED BY <1>1, <1>2

\* The key of a created payment is one of its keys.
LEMMA StatusOfKey ==
    ASSUME TypeOK, IntentAssumption, NEW w \in Transfers, w \in Created
    PROVE  \E k \in Keys : /\ intent[k].wf = w /\ intent[k] # NoIntent
                           /\ StatusOf(w) = intent[k].status
<1>1. \E k \in Keys : intent[k].wf = w
  BY DEF Created, IntentAssumption
<1> DEFINE k == CHOOSE k \in KeysOf(w) : TRUE
<1>2. k \in KeysOf(w)
  BY <1>1 DEF KeysOf
<1>3. k \in Keys /\ intent[k].wf = w
  BY <1>2 DEF KeysOf
<1>4. intent[k] # NoIntent
  BY <1>3 DEF NoIntent, IntentAssumption
<1> QED BY <1>3, <1>4 DEF StatusOf

\* A step that only concerns others keeps the invariant's rows.
LEMMA RowsKept ==
    ASSUME TypeOK, IntentAssumption, IntentInv, Grows,
           UNCHANGED <<phase, depth, orig, intent, published, completions>>
    PROVE  /\ EngineShape' /\ EventsKnown' /\ IntentsBacked' /\ OrigBacked' /\ CompletionsBacked'
<1>1. EngineShape'
  BY DEF IntentInv, EngineShape, Created
<1>2. EventsKnown' /\ OrigBacked' /\ CompletionsBacked'
  BY DEF IntentInv, EventsKnown, OrigBacked, CompletionsBacked
<1>3. IntentsBacked'
  BY IntentKept DEF IntentInv, IntentsBacked
<1> QED BY <1>1, <1>2, <1>3

---------------------------------------------------------------------------
(* The engine *)

\* A step of the saga of an instance that exists keeps the engine's shape and
\* what is final.
LEMMA SagaMove ==
    ASSUME IntentAssumption, IntentInv, NEW w \in Instances, w \in Created,
           \/ Saga!SagaStep(w)
           \/ UNCHANGED <<phase, depth>>,
           UNCHANGED <<intent, orig, completions, published>>, applied \subseteq applied'
    PROVE  /\ phase' \in [Instances -> Phases]
           /\ depth' \in [Instances -> 0 .. TransferSteps]
           /\ EngineShape' /\ EventsKnown' /\ IntentsBacked' /\ OrigBacked' /\ CompletionsBacked'
           /\ Grows
<1> DEFINE S == [v \in Instances |-> IF v \in Transfers THEN TransferSteps ELSE 1]
<1>1. /\ phase \in [Instances -> Phases] /\ depth \in [Instances -> 0 .. TransferSteps]
      /\ S[w] \in Nat /\ S[w] <= TransferSteps /\ S[w] >= 1 /\ TransferSteps \in Nat
  BY DEF IntentInv, TypeOK, IntentAssumption
<1>2. /\ phase[w] = "new" => depth[w] = 0
      /\ phase[w] = "forward" => depth[w] < S[w]
      /\ phase[w] \in {"backward", "stuck"} => depth[w] >= 1
  BY DEF IntentInv, EngineShape
<1>3. \E p \in Phases, d \in 0 .. TransferSteps :
         /\ phase' = [phase EXCEPT ![w] = p] /\ depth' = [depth EXCEPT ![w] = d]
         /\ p = "new" => d = 0
         /\ p = "forward" => d < S[w]
         /\ p \in {"backward", "stuck"} => d >= 1
         /\ phase[w] \in {"succeeded", "compensated"} => p = phase[w]
         /\ phase[w] # "new" => p # "new"
  <2>1. CASE UNCHANGED <<phase, depth>>
    <3>1. phase' = [phase EXCEPT ![w] = phase[w]] /\ depth' = [depth EXCEPT ![w] = depth[w]]
      BY <2>1, <1>1
    <3>2. phase[w] \in Phases /\ depth[w] \in 0 .. TransferSteps
      BY <1>1
    <3> QED BY <3>1, <3>2, <1>2
  <2>2. CASE Saga!Reject(w)
    <3>1. phase' = [phase EXCEPT ![w] = "rejected"] /\ depth' = [depth EXCEPT ![w] = depth[w]]
      BY <2>2, <1>1 DEF Saga!Reject
    <3>2. depth[w] \in 0 .. TransferSteps /\ "rejected" \in Phases /\ phase[w] = "new"
      BY <2>2, <1>1 DEF Phases, Saga!Reject
    <3> QED BY <3>1, <3>2
  <2>3. CASE Saga!Begin(w)
    <3>1. phase' = [phase EXCEPT ![w] = "forward"] /\ depth' = [depth EXCEPT ![w] = depth[w]]
      BY <2>3, <1>1 DEF Saga!Begin
    <3>2. depth[w] \in 0 .. TransferSteps /\ "forward" \in Phases /\ phase[w] = "new" /\ depth[w] < S[w]
      BY <2>3, <1>1, <1>2 DEF Phases, Saga!Begin
    <3> QED BY <3>1, <3>2
  <2>4. CASE Saga!Advance(w)
    <3>1. PICK p : p = IF depth[w] + 1 = S[w] THEN "succeeded" ELSE "forward"
      OBVIOUS
    <3>2. phase' = [phase EXCEPT ![w] = p] /\ depth' = [depth EXCEPT ![w] = depth[w] + 1]
      BY <2>4, <3>1 DEF Saga!Advance
    <3>3. depth[w] < S[w] /\ phase[w] = "forward" /\ depth[w] \in Nat
      BY <2>4, <1>1, <1>2 DEF Saga!Advance
    <3>4. depth[w] + 1 \in 0 .. TransferSteps /\ p \in Phases /\ (p = "forward" => depth[w] + 1 < S[w])
          /\ p \in {"succeeded", "forward"}
      BY <3>1, <3>3, <1>1 DEF Phases
    <3> QED BY <3>2, <3>3, <3>4
  <2>5. CASE Saga!TurnBack(w)
    <3>1. PICK p : p = IF depth[w] = 0 THEN "compensated" ELSE "backward"
      OBVIOUS
    <3>2. phase' = [phase EXCEPT ![w] = p] /\ depth' = [depth EXCEPT ![w] = depth[w]] /\ phase[w] = "forward"
      BY <2>5, <3>1, <1>1 DEF Saga!TurnBack
    <3>3. depth[w] \in 0 .. TransferSteps /\ p \in Phases /\ p \in {"compensated", "backward"}
          /\ (p = "backward" => depth[w] >= 1)
      BY <3>1, <1>1 DEF Phases
    <3> QED BY <3>2, <3>3
  <2>6. CASE Saga!Undo(w)
    <3>1. PICK p : p = IF depth[w] = 1 THEN "compensated" ELSE "backward"
      OBVIOUS
    <3>2. /\ phase' = [phase EXCEPT ![w] = p] /\ depth' = [depth EXCEPT ![w] = depth[w] - 1]
          /\ phase[w] \in {"backward", "stuck"}
      BY <2>6, <3>1 DEF Saga!Undo
    <3>3. depth[w] - 1 \in 0 .. TransferSteps /\ p \in Phases /\ p \in {"compensated", "backward"}
          /\ (p = "backward" => depth[w] - 1 >= 1)
      BY <3>1, <3>2, <1>1, <1>2 DEF Phases
    <3> QED BY <3>2, <3>3
  <2>7. CASE Saga!GiveUp(w)
    <3>1. /\ phase' = [phase EXCEPT ![w] = "stuck"] /\ depth' = [depth EXCEPT ![w] = depth[w]]
          /\ phase[w] = "backward"
      BY <2>7, <1>1 DEF Saga!GiveUp
    <3>2. depth[w] \in 0 .. TransferSteps /\ "stuck" \in Phases /\ depth[w] >= 1
      BY <3>1, <1>1, <1>2 DEF Phases
    <3> QED BY <3>1, <3>2
  <2>8. CASE Saga!Resume(w)
    <3>1. /\ phase' = [phase EXCEPT ![w] = "backward"] /\ depth' = [depth EXCEPT ![w] = depth[w]]
          /\ phase[w] = "stuck"
      BY <2>8, <1>1 DEF Saga!Resume
    <3>2. depth[w] \in 0 .. TransferSteps /\ "backward" \in Phases /\ depth[w] >= 1
      BY <3>1, <1>1, <1>2 DEF Phases
    <3> QED BY <3>1, <3>2
  <2> QED BY <2>1, <2>2, <2>3, <2>4, <2>5, <2>6, <2>7, <2>8 DEF Saga!SagaStep
<1>4. PICK p \in Phases, d \in 0 .. TransferSteps :
         /\ phase' = [phase EXCEPT ![w] = p] /\ depth' = [depth EXCEPT ![w] = d]
         /\ p = "new" => d = 0
         /\ p = "forward" => d < S[w]
         /\ p \in {"backward", "stuck"} => d >= 1
         /\ phase[w] \in {"succeeded", "compensated"} => p = phase[w]
         /\ phase[w] # "new" => p # "new"
  BY <1>3
<1>5. phase' \in [Instances -> Phases] /\ depth' \in [Instances -> 0 .. TransferSteps]
  BY <1>1, <1>4
<1>6. EngineShape'
  <2>1. Created' = Created
    BY DEF Created
  <2>2. phase'[w] = p /\ depth'[w] = d
    BY <1>1, <1>4
  <2> SUFFICES ASSUME NEW v \in Instances
               PROVE  /\ phase'[v] = "new" => depth'[v] = 0
                      /\ phase'[v] = "forward" => depth'[v] < S[v]
                      /\ phase'[v] \in {"backward", "stuck"} => depth'[v] >= 1
                      /\ phase'[v] # "new" => v \in Created'
    BY DEF EngineShape
  <2>3. CASE v = w
    BY <2>1, <2>2, <2>3, <1>4
  <2>4. CASE v # w
    <3>1. phase'[v] = phase[v] /\ depth'[v] = depth[v]
      BY <2>4, <1>1, <1>4
    <3> QED BY <3>1, <2>1 DEF IntentInv, EngineShape
  <2> QED BY <2>3, <2>4
<1>7. Grows
  BY <1>1, <1>4 DEF Grows
<1>8. \A e \in published : e.wf \in Instances
  BY DEF IntentInv, TypeOK, ResultEvent
<1>9. EventsKnown'
  BY <1>7, <1>8 DEF EventsKnown, IntentInv, Grows
<1>10. \A r \in Reversals : orig[r] # None => orig[r] \in Instances
  BY DEF IntentInv, TypeOK, Instances
<1>11. OrigBacked'
  BY <1>7, <1>10 DEF OrigBacked, IntentInv, Grows
<1>12. CompletionsBacked'
  BY <1>7 DEF CompletionsBacked, IntentInv, Grows, Instances
<1>13. IntentsBacked'
  BY <1>7, IntentKept DEF IntentInv, IntentsBacked
<1> QED BY <1>5, <1>6, <1>7, <1>9, <1>11, <1>12, <1>13

\* The recovery loop prepares or rejects an instance.
LEMMA PrepareInstanceInv ==
    ASSUME IntentAssumption, IntentInv, NEW w \in Instances, PrepareInstance(w)
    PROVE  IntentInv'
<1>1. /\ Saga!SagaStep(w) /\ w \in Created /\ cmd' \in [Instances -> Nat]
      /\ UNCHANGED <<orig, intent, req, queue, published, applied, inbox, cons, completions,
                     dispatched, rewardQueue, rewardInbox, earning, earned, faults>>
  BY DEF PrepareInstance, Saga!SagaStep, IntentInv, TypeOK, reward
<1>2. /\ phase' \in [Instances -> Phases] /\ depth' \in [Instances -> 0 .. TransferSteps]
      /\ EngineShape' /\ EventsKnown' /\ IntentsBacked' /\ OrigBacked' /\ CompletionsBacked'
      /\ Grows
  BY <1>1, SagaMove
<1>3. TypeOK'
  BY <1>1, <1>2 DEF IntentInv, TypeOK
<1>4. HandlersSee' /\ RequestsSee'
  BY <1>1, <1>2, HandlerKept, RequestKept DEF IntentInv, HandlersSee, RequestsSee
<1> QED BY <1>2, <1>3, <1>4 DEF IntentInv

\* An operator moves a compensation on.
LEMMA OperatorStepInv ==
    ASSUME IntentAssumption, IntentInv, NEW w \in Instances, OperatorStep(w)
    PROVE  IntentInv'
<1>1. /\ Saga!SagaStep(w) /\ cmd' \in [Instances -> Nat] /\ phase[w] # "new"
      /\ UNCHANGED <<orig, intent, req, queue, published, applied, inbox, cons, completions,
                     dispatched, rewardQueue, rewardInbox, earning, earned, faults>>
  BY DEF OperatorStep, Saga!SagaStep, Saga!Resume, Saga!Undo, IntentInv, TypeOK, reward
<1>2. w \in Created
  BY <1>1 DEF IntentInv, EngineShape
<1>3. /\ phase' \in [Instances -> Phases] /\ depth' \in [Instances -> 0 .. TransferSteps]
      /\ EngineShape' /\ EventsKnown' /\ IntentsBacked' /\ OrigBacked' /\ CompletionsBacked'
      /\ Grows
  BY <1>1, <1>2, SagaMove
<1>4. TypeOK'
  BY <1>1, <1>3 DEF IntentInv, TypeOK
<1>5. HandlersSee' /\ RequestsSee'
  BY <1>1, <1>3, HandlerKept, RequestKept DEF IntentInv, HandlersSee, RequestsSee
<1> QED BY <1>3, <1>4, <1>5 DEF IntentInv

\* A participant answers.
LEMMA PublishResultInv ==
    ASSUME IntentAssumption, IntentInv, NEW w \in Instances, PublishResult(w)
    PROVE  IntentInv'
<1>1. PICK e : e = [wf |-> w, cmd |-> cmd[w]]
  OBVIOUS
<1>2. /\ published' = published \cup {e} /\ queue' = queue \cup {e} /\ phase[w] # "new"
      /\ UNCHANGED <<phase, depth, cmd, orig, intent, req, applied, inbox, cons, completions,
                     dispatched, rewardQueue, rewardInbox, earning, earned, faults>>
  BY <1>1 DEF PublishResult, engine, reward
<1>3. e \in ResultEvent /\ e.wf = w
  BY <1>1 DEF ResultEvent, IntentInv, TypeOK
<1>4. Grows
  BY <1>2 DEF Grows
<1>5. TypeOK'
  BY <1>2, <1>3 DEF IntentInv, TypeOK
<1>6. HandlersSee' /\ RequestsSee'
  BY <1>2, <1>4, HandlerKept, RequestKept DEF IntentInv, HandlersSee, RequestsSee
<1>7. EventsKnown'
  BY <1>2, <1>3 DEF IntentInv, EventsKnown
<1>8. EngineShape' /\ OrigBacked' /\ CompletionsBacked'
  BY <1>2 DEF IntentInv, EngineShape, OrigBacked, CompletionsBacked, Created
<1>9. IntentsBacked'
  BY <1>2, <1>4, IntentKept DEF IntentInv, IntentsBacked
<1> QED BY <1>5, <1>6, <1>7, <1>8, <1>9 DEF IntentInv

---------------------------------------------------------------------------
(* The intents *)

\* A new payment and its instance.
LEMMA StartPaymentInv ==
    ASSUME IntentAssumption, IntentInv, NEW k \in Keys, NEW w \in Transfers, StartPayment(k, w)
    PROVE  IntentInv'
<1>1. PICK i : i = [wf |-> w, status |-> "pending", reversed |-> FALSE]
  OBVIOUS
<1>2. /\ intent' = [intent EXCEPT ![k] = i] /\ intent[k] = NoIntent
      /\ UNCHANGED <<phase, depth, cmd, orig, req, queue, published, applied, inbox, cons,
                     completions, dispatched, rewardQueue, rewardInbox, earning, earned, faults>>
  BY <1>1 DEF StartPayment, engine, reward
<1>3. i \in Intent /\ i.wf = w /\ i.status = "pending" /\ i.reversed = FALSE
  BY <1>1 DEF Intent, IntentStatus
<1>4. Grows
  BY <1>2, GrowsSame
<1>5. TypeOK'
  BY <1>2, <1>3 DEF IntentInv, TypeOK
<1>6. HandlersSee' /\ RequestsSee'
  BY <1>2, <1>4, HandlerKept, RequestKept DEF IntentInv, HandlersSee, RequestsSee
<1>7. EventsKnown' /\ OrigBacked' /\ CompletionsBacked'
  BY <1>2 DEF IntentInv, EventsKnown, OrigBacked, CompletionsBacked
<1>8. intent \in [Keys -> Intent \cup {NoIntent}] /\ TypeOK
  BY DEF IntentInv, TypeOK
<1>9. EngineShape'
  <2>1. \A v \in Instances : v \in Created => v \in Created'
    <3> SUFFICES ASSUME NEW v \in Instances, v \in Created
                 PROVE  v \in Created'
      OBVIOUS
    <3>1. CASE \E j \in Keys : intent[j].wf = v
      <4>1. PICK j \in Keys : intent[j].wf = v
        BY <3>1
      <4>2. j # k
        BY <4>1, <1>2 DEF NoIntent, Instances, IntentAssumption
      <4>3. intent'[j].wf = v
        BY <4>1, <4>2, <1>2, <1>8
      <4> QED BY <4>3 DEF Created
    <3>2. CASE v \in {r \in Reversals : orig[r] # None}
      BY <3>2, <1>2 DEF Created
    <3> QED BY <3>1, <3>2 DEF Created
  <2> QED BY <2>1, <1>2 DEF IntentInv, EngineShape
<1>10. IntentsBacked'
  <2> SUFFICES ASSUME NEW j \in Keys
               PROVE  IntentBacked(j)'
    BY DEF IntentsBacked
  <2>1. CASE j = k
    <3>1. intent'[j] = i
      BY <2>1, <1>2, <1>8
    <3> QED BY <3>1, <1>3 DEF IntentBacked
  <2>2. CASE j # k
    <3>1. intent'[j] = intent[j]
      BY <2>2, <1>2, <1>8
    <3> QED BY <3>1, <1>4, <1>8, IntentKept DEF IntentInv, IntentsBacked
  <2> QED BY <2>1, <2>2
<1> QED BY <1>5, <1>6, <1>7, <1>9, <1>10 DEF IntentInv

---------------------------------------------------------------------------
(* The consumer *)

\* A step of replica c that changes what it handles, and in which what it has
\* read is right.
LEMMA ConsumerStep ==
    ASSUME IntentAssumption, IntentInv, NEW c \in Replicas,
           NEW m \in Handling,
           cons' = [cons EXCEPT ![c] = m],
           m.stage # "idle" => HandlerSees(c)',
           queue' \subseteq published, inbox' \subseteq applied, faults' \in [crash : Nat, db : Nat],
           UNCHANGED <<phase, depth, cmd, orig, intent, req, published, applied, completions,
                       dispatched, rewardQueue, rewardInbox, earning, earned>>
    PROVE  IntentInv'
<1>1. Grows
  BY GrowsSame
<1>2. TypeOK'
  BY DEF Handling, IntentInv, TypeOK
<1>3. EngineShape' /\ EventsKnown' /\ IntentsBacked' /\ OrigBacked' /\ CompletionsBacked'
  BY <1>1, RowsKept DEF IntentInv
<1>4. RequestsSee'
  BY <1>1, RequestKept DEF IntentInv, RequestsSee
<1>5. HandlersSee'
  <2> SUFFICES ASSUME NEW d \in Replicas
               PROVE  HandlerSees(d)'
    BY DEF HandlersSee
  <2>1. CASE d = c
    <3>1. cons'[c] = m
      BY DEF IntentInv, TypeOK
    <3>2. m.stage = "idle" => HandlerSees(c)'
      BY <3>1 DEF HandlerSees
    <3> QED BY <2>1, <3>2
  <2>2. CASE d # c
    <3>1. cons'[d] = cons[d]
      BY <2>2 DEF IntentInv, TypeOK
    <3> QED BY <3>1, <1>1, HandlerKept DEF IntentInv, HandlersSee
  <2> QED BY <2>1, <2>2
<1> QED BY <1>2, <1>3, <1>4, <1>5 DEF IntentInv

\* What replica c has open, and that an idle one is Idle in type.
LEMMA Open ==
    ASSUME IntentInv, NEW c \in Replicas
    PROVE  /\ cons[c] \in Handling
           /\ cons \in [Replicas -> Handling]
           /\ cons[c].stage # "idle" => /\ cons[c].ev \in published /\ cons[c].ev \in ResultEvent
                                        /\ cons[c].ev.wf \in Instances /\ cons[c].ev.wf \in Created
                                        /\ phase[cons[c].ev.wf] # "new"
           /\ Idle \in Handling
           /\ queue \subseteq published /\ inbox \subseteq applied /\ applied \subseteq published
           /\ faults \in [crash : Nat, db : Nat]
           /\ HandlerSees(c)
<1>1. cons[c] \in Handling
  BY DEF Handling, IntentInv, TypeOK
<1>2. HandlerSees(c)
  BY DEF IntentInv, HandlersSee
<1>3. cons[c].stage # "idle" => cons[c].ev \in published
  BY <1>2 DEF HandlerSees
<1>4. cons[c].ev \in published => /\ cons[c].ev \in ResultEvent /\ cons[c].ev.wf \in Instances
                                  /\ phase[cons[c].ev.wf] # "new"
  BY DEF IntentInv, TypeOK, ResultEvent, EventsKnown
<1>5. cons[c].ev \in published => cons[c].ev.wf \in Created
  BY <1>4 DEF IntentInv, EngineShape
<1>6. Idle \in Handling
  BY DEF Handling, Idle, Stages, IntentStatus
<1> QED BY <1>1, <1>2, <1>3, <1>4, <1>5, <1>6 DEF Handling, IntentInv, TypeOK

\* A delivery begins, or is acknowledged at once.
LEMMA DeliverInv ==
    ASSUME IntentAssumption, IntentInv, NEW c \in Replicas, NEW e \in queue, Deliver(c, e)
    PROVE  IntentInv'
<1>1. /\ queue' = queue \ {e}
      /\ UNCHANGED <<phase, depth, cmd, orig, intent, req, published, applied, inbox, completions,
                     dispatched, rewardQueue, rewardInbox, earning, earned, faults>>
  BY DEF Deliver, engine, reward
<1>2. e \in published /\ e \in ResultEvent /\ queue' \subseteq published
  BY <1>1 DEF IntentInv, TypeOK
<1>3. CASE e \in inbox
  <2>1. cons' = [cons EXCEPT ![c] = cons[c]]
    BY <1>3, Open DEF Deliver
  <2>2. HandlerSees(c)'
    <3>1. Grows /\ cons'[c] = cons[c] /\ TypeOK
      BY <1>1, <2>1, GrowsSame, Open DEF IntentInv
    <3> QED BY <3>1, Open, HandlerKept
  <2> QED BY <1>1, <1>2, <2>1, <2>2, Open, ConsumerStep
<1>4. CASE e \notin inbox
  <2>1. PICK m : m = [Idle EXCEPT !.stage = "apply", !.ev = e]
    OBVIOUS
  <2>2. /\ m \in Handling
        /\ m.stage = "apply" /\ m.ev = e
    BY <2>1, <1>2 DEF Handling, Idle, Stages, IntentStatus
  <2>3. cons' = [cons EXCEPT ![c] = m]
    BY <1>4, <2>1 DEF Deliver
  <2>4. cons'[c] = m
    BY <2>3, Open
  <2>5. HandlerSees(c)'
    BY <2>2, <2>4, <1>1, <1>2 DEF HandlerSees
  <2> QED BY <1>1, <1>2, <2>2, <2>3, <2>5, Open, ConsumerStep
<1> QED BY <1>3, <1>4

\* A handler that goes on with a stage that needs nothing new.
LEMMA StageStep ==
    ASSUME IntentAssumption, IntentInv, NEW c \in Replicas, cons[c].stage # "idle",
           NEW s \in {"meta", "commit"}, cons[c].ev \in applied,
           cons' = [cons EXCEPT ![c].stage = s],
           queue' \subseteq published, inbox' \subseteq applied, faults' \in [crash : Nat, db : Nat],
           UNCHANGED <<phase, depth, cmd, orig, intent, req, published, applied, completions,
                       dispatched, rewardQueue, rewardInbox, earning, earned>>
    PROVE  IntentInv'
<1>1. PICK m : m = [cons[c] EXCEPT !.stage = s]
  OBVIOUS
<1>2. m \in Handling /\ m.stage = s /\ m.ev = cons[c].ev
  BY <1>1, Open DEF Handling, Stages
<1>3. cons' = [cons EXCEPT ![c] = m]
  BY <1>1
<1>4. cons'[c] = m
  BY <1>3, Open
<1>5. HandlerSees(c)'
  BY <1>2, <1>4, Open DEF HandlerSees
<1> QED BY <1>2, <1>3, <1>5, ConsumerStep

\* A handler that ends.
LEMMA IdleStep ==
    ASSUME IntentAssumption, IntentInv, NEW c \in Replicas,
           cons' = [cons EXCEPT ![c] = Idle],
           queue' \subseteq published, inbox' \subseteq applied, faults' \in [crash : Nat, db : Nat],
           UNCHANGED <<phase, depth, cmd, orig, intent, req, published, applied, completions,
                       dispatched, rewardQueue, rewardInbox, earning, earned>>
    PROVE  IntentInv'
<1>1. Idle \in Handling /\ Idle.stage = "idle"
  BY Open DEF Idle
<1> QED BY <1>1, ConsumerStep

\* A repeated result goes on to the status sync.
LEMMA ApplyDuplicateInv ==
    ASSUME IntentAssumption, IntentInv, NEW c \in Replicas, ApplyDuplicate(c)
    PROVE  IntentInv'
<1>1. /\ cons[c].stage # "idle" /\ cons[c].ev \in applied
      /\ cons' = [cons EXCEPT ![c].stage = "meta"]
      /\ UNCHANGED <<queue, inbox, faults>>
      /\ UNCHANGED <<phase, depth, cmd, orig, intent, req, published, applied, completions,
                     dispatched, rewardQueue, rewardInbox, earning, earned>>
  BY DEF ApplyDuplicate, AfterDuplicate, engine, reward
<1> QED BY <1>1, Open, StageStep

\* A stale result is dropped.
LEMMA RejectStaleInv ==
    ASSUME IntentAssumption, IntentInv, NEW c \in Replicas, RejectStale(c)
    PROVE  IntentInv'
<1>1. /\ cons' = [cons EXCEPT ![c] = Idle]
      /\ UNCHANGED <<queue, inbox, faults>>
      /\ UNCHANGED <<phase, depth, cmd, orig, intent, req, published, applied, completions,
                     dispatched, rewardQueue, rewardInbox, earning, earned>>
  BY DEF RejectStale, engine, reward
<1> QED BY <1>1, Open, IdleStep

\* A failed read or write is logged and the handler goes on to its commit.
LEMMA SyncFailsInv ==
    ASSUME IntentAssumption, IntentInv, NEW c \in Replicas, SyncFails(c)
    PROVE  IntentInv'
<1>1. /\ cons[c].stage \in {"meta", "previous", "sync", "reversal"}
      /\ cons' = [cons EXCEPT ![c].stage = "commit"]
      /\ faults' = [faults EXCEPT !.db = @ + 1]
      /\ UNCHANGED <<queue, inbox>>
      /\ UNCHANGED <<phase, depth, cmd, orig, intent, req, published, applied, completions,
                     dispatched, rewardQueue, rewardInbox, earning, earned>>
  BY DEF SyncFails, engine, reward
<1>2. cons[c].ev \in applied /\ cons[c].stage # "idle"
  BY <1>1, Open DEF HandlerSees
<1>3. faults' \in [crash : Nat, db : Nat]
  BY <1>1, Open
<1> QED BY <1>1, <1>2, <1>3, Open, StageStep

\* The Inbox row of an event commits.
LEMMA CommitInboxInv ==
    ASSUME IntentAssumption, IntentInv, NEW c \in Replicas, CommitInbox(c)
    PROVE  IntentInv'
<1>1. /\ cons[c].stage = "commit" /\ inbox' = inbox \cup {cons[c].ev}
      /\ cons' = [cons EXCEPT ![c] = Idle]
      /\ queue' \subseteq queue \cup {cons[c].ev}
      /\ faults' = faults \/ faults' = [faults EXCEPT !.crash = @ + 1]
      /\ UNCHANGED <<phase, depth, cmd, orig, intent, req, published, applied, completions,
                     dispatched, rewardQueue, rewardInbox, earning, earned>>
  BY DEF CommitInbox, engine, reward
<1>2. cons[c].ev \in applied /\ cons[c].ev \in published
  BY <1>1, Open DEF HandlerSees
<1>3. faults' \in [crash : Nat, db : Nat] /\ queue' \subseteq published /\ inbox' \subseteq applied
  BY <1>1, <1>2, Open
<1> QED BY <1>1, <1>3, IdleStep

\* A replica dies and its event is delivered again.
LEMMA CrashReplicaInv ==
    ASSUME IntentAssumption, IntentInv, NEW c \in Replicas, CrashReplica(c)
    PROVE  IntentInv'
<1>1. /\ cons[c].stage # "idle" /\ inbox' = inbox
      /\ cons' = [cons EXCEPT ![c] = Idle]
      /\ queue' = queue \cup {cons[c].ev}
      /\ faults' = [faults EXCEPT !.crash = @ + 1]
      /\ UNCHANGED <<phase, depth, cmd, orig, intent, req, published, applied, completions,
                     dispatched, rewardQueue, rewardInbox, earning, earned>>
  BY DEF CrashReplica, engine, reward
<1>2. faults' \in [crash : Nat, db : Nat] /\ queue' \subseteq published /\ inbox' \subseteq applied
  BY <1>1, Open
<1> QED BY <1>1, <1>2, IdleStep

\* The instance is read: what is final of it stays so.
LEMMA ReadMetaInv ==
    ASSUME IntentAssumption, IntentInv, NEW c \in Replicas, ReadMeta(c)
    PROVE  IntentInv'
<1> DEFINE w == cons[c].ev.wf
<1>1. PICK s : s = mapInstanceStatusToIntent(phase[w])
  OBVIOUS
<1>2. PICK t : t = IF w \in Transfers THEN "previous"
                   ELSE IF phase[w] = "succeeded" THEN "reversal" ELSE "commit"
  OBVIOUS
<1>3. PICK m : m = [cons[c] EXCEPT !.status = s, !.stage = t]
  OBVIOUS
<1>4. /\ cons[c].stage = "meta" /\ cons' = [cons EXCEPT ![c] = m]
      /\ UNCHANGED <<queue, inbox, faults>>
      /\ UNCHANGED <<phase, depth, cmd, orig, intent, req, published, applied, completions,
                     dispatched, rewardQueue, rewardInbox, earning, earned>>
  BY <1>1, <1>2, <1>3 DEF ReadMeta, engine, reward
<1>5. w \in Instances /\ phase[w] \in Phases /\ cons[c].ev \in applied /\ cons[c].ev \in published
  BY <1>4, Open DEF HandlerSees, IntentInv, TypeOK
<1>6. /\ s \in IntentStatus /\ s \notin {"reversal_pending", "reversed"}
      /\ s \in {"succeeded", "compensated"} => phase[w] = s
  BY <1>1, <1>5 DEF mapInstanceStatusToIntent, Phases, IntentStatus
<1>7. m \in Handling /\ m.stage = t /\ m.ev = cons[c].ev /\ m.status = s
  BY <1>2, <1>3, <1>6, Open DEF Handling, Stages
<1>8. cons'[c] = m
  BY <1>4, Open
<1>9. /\ t \in {"previous", "reversal", "commit"}
      /\ t = "previous" => w \in Transfers
      /\ t = "reversal" => w \in Reversals /\ phase[w] = "succeeded"
  BY <1>2, <1>5 DEF Instances
<1>10. HandlerSees(c)'
  <2>1. cons'[c].stage = t /\ cons'[c].ev = cons[c].ev /\ cons'[c].status = s
    BY <1>7, <1>8
  <2>2. phase' = phase /\ applied' = applied /\ published' = published
    BY <1>4
  <2> QED BY <2>1, <2>2, <1>5, <1>6, <1>9 DEF HandlerSees
<1>11. queue' \subseteq published /\ inbox' \subseteq applied /\ faults' \in [crash : Nat, db : Nat]
  BY <1>4, Open
<1> QED BY <1>4, <1>7, <1>10, <1>11, ConsumerStep

\* The intent is read: one reported succeeded is announced already.
LEMMA ReadPreviousInv ==
    ASSUME IntentAssumption, IntentInv, NEW c \in Replicas, ReadPrevious(c)
    PROVE  IntentInv'
<1> DEFINE w == cons[c].ev.wf
<1>1. PICK f : f = freshSucceeded(cons[c].status, StatusOf(w))
  OBVIOUS
<1>2. PICK m : m = [cons[c] EXCEPT !.stage = "sync", !.fresh = f]
  OBVIOUS
<1>3. /\ cons[c].stage = "previous" /\ cons' = [cons EXCEPT ![c] = m]
      /\ UNCHANGED <<queue, inbox, faults>>
      /\ UNCHANGED <<phase, depth, cmd, orig, intent, req, published, applied, completions,
                     dispatched, rewardQueue, rewardInbox, earning, earned>>
  BY <1>1, <1>2 DEF ReadPrevious, engine, reward
<1>4. /\ w \in Transfers /\ w \in Created /\ cons[c].ev \in applied /\ cons[c].ev \in published
      /\ cons[c].status \notin {"reversal_pending", "reversed"}
      /\ cons[c].status \in {"succeeded", "compensated"} => phase[w] = cons[c].status
  BY <1>3, Open DEF HandlerSees
<1>5. f \in BOOLEAN /\ (f => cons[c].status = "succeeded")
      /\ (cons[c].status = "succeeded" /\ ~f => StatusOf(w) = "succeeded")
  BY <1>1 DEF freshSucceeded
<1>6. StatusOf(w) = "succeeded" => completions[w] > 0
  <2>1. PICK k \in Keys : /\ intent[k].wf = w /\ intent[k] # NoIntent
                          /\ StatusOf(w) = intent[k].status
    BY <1>4, StatusOfKey DEF IntentInv
  <2> QED BY <2>1 DEF IntentInv, IntentsBacked, IntentBacked
<1>7. m \in Handling /\ m.stage = "sync" /\ m.ev = cons[c].ev /\ m.status = cons[c].status /\ m.fresh = f
  BY <1>2, <1>5, Open DEF Handling, Stages
<1>8. cons'[c] = m
  BY <1>3, Open
<1>9. HandlerSees(c)'
  <2>1. /\ cons'[c].stage = "sync" /\ cons'[c].ev = cons[c].ev
        /\ cons'[c].status = cons[c].status /\ cons'[c].fresh = f
    BY <1>7, <1>8
  <2>2. phase' = phase /\ applied' = applied /\ published' = published /\ completions' = completions
    BY <1>3
  <2> QED BY <2>1, <2>2, <1>4, <1>5, <1>6 DEF HandlerSees
<1>10. queue' \subseteq published /\ inbox' \subseteq applied /\ faults' \in [crash : Nat, db : Nat]
  BY <1>3, Open
<1> QED BY <1>3, <1>7, <1>9, <1>10, ConsumerStep

\* An accepted result moves the saga of its workflow.
LEMMA ApplyResultInv ==
    ASSUME IntentAssumption, IntentInv, NEW c \in Replicas, ApplyResult(c)
    PROVE  IntentInv'
<1> DEFINE e == cons[c].ev
<1>1. /\ cons[c].stage = "apply" /\ SagaResult(e.wf) /\ applied' = applied \cup {e}
      /\ cons' = [cons EXCEPT ![c].stage = "meta"]
      /\ UNCHANGED <<orig, intent, req, queue, published, inbox, completions,
                     dispatched, rewardQueue, rewardInbox, earning, earned, faults>>
  BY DEF ApplyResult, reward
<1>2. e \in published /\ e \in ResultEvent /\ e.wf \in Instances /\ e.wf \in Created
  BY <1>1, Open
<1>3. cmd' \in [Instances -> Nat] /\ (Saga!SagaStep(e.wf) \/ UNCHANGED <<phase, depth>>)
  <2>1. cmd \in [Instances -> Nat]
    BY DEF IntentInv, TypeOK
  <2> QED BY <1>1, <1>2, <2>1 DEF SagaResult, Saga!SagaStep, engine
<1>4. /\ phase' \in [Instances -> Phases] /\ depth' \in [Instances -> 0 .. TransferSteps]
      /\ EngineShape' /\ EventsKnown' /\ IntentsBacked' /\ OrigBacked' /\ CompletionsBacked'
      /\ Grows
  BY <1>1, <1>2, <1>3, SagaMove
<1>5. PICK m : m = [cons[c] EXCEPT !.stage = "meta"]
  OBVIOUS
<1>6. m \in Handling /\ m.stage = "meta" /\ m.ev = e /\ cons' = [cons EXCEPT ![c] = m] /\ cons'[c] = m
  BY <1>1, <1>5, Open DEF Handling, Stages
<1>7. TypeOK'
  BY <1>1, <1>2, <1>3, <1>4, <1>6 DEF IntentInv, TypeOK, Handling
<1>8. RequestsSee'
  BY <1>1, <1>4, RequestKept DEF IntentInv, RequestsSee
<1>9. HandlersSee'
  <2> SUFFICES ASSUME NEW d \in Replicas
               PROVE  HandlerSees(d)'
    BY DEF HandlersSee
  <2>1. CASE d = c
    BY <2>1, <1>1, <1>2, <1>6 DEF HandlerSees
  <2>2. CASE d # c
    <3>1. cons'[d] = cons[d]
      BY <2>2, <1>6, Open
    <3> QED BY <3>1, <1>4, HandlerKept DEF IntentInv, HandlersSee
  <2> QED BY <2>1, <2>2
<1> QED BY <1>4, <1>7, <1>8, <1>9 DEF IntentInv

---------------------------------------------------------------------------
(* Writes of the status *)

\* A write by workflow id changes the intents of that payment only.
Writes(w, s, undone) ==
    /\ intent' \in [Keys -> Intent \cup {NoIntent}]
    /\ \A k \in Keys : intent'[k].wf = intent[k].wf
    /\ \A k \in Keys : intent[k].wf # w => intent'[k] = intent[k]
    /\ \A k \in Keys : intent[k].wf = w =>
          /\ intent[k] # NoIntent
          /\ intent'[k].status = s
          /\ intent'[k].reversed => undone \/ intent[k].reversed

\* UpdateStatusByWorkflowID and MarkReversalPendingByWorkflowID.
LEMMA SetStatusWrites ==
    ASSUME IntentAssumption, TypeOK, NEW w \in Transfers, NEW s \in IntentStatus,
           intent' = SetStatus(w, s)
    PROVE  Writes(w, s, FALSE)
<1>1. intent \in [Keys -> Intent \cup {NoIntent}]
  BY DEF TypeOK
<1>2. ASSUME NEW k \in Keys, intent[k].wf = w
      PROVE  /\ intent[k] # NoIntent /\ intent[k] \in Intent
             /\ intent'[k] = [intent[k] EXCEPT !.status = s]
             /\ intent'[k] \in Intent /\ intent'[k].wf = w /\ intent'[k].status = s
             /\ intent'[k].reversed = intent[k].reversed
  <2>1. intent[k] # NoIntent /\ intent[k] \in Intent
    BY <1>2, <1>1, IntentRow DEF IntentAssumption
  <2>2. intent'[k] = [intent[k] EXCEPT !.status = s]
    BY <1>2 DEF SetStatus
  <2> QED BY <1>2, <2>1, <2>2 DEF Intent
<1>3. ASSUME NEW k \in Keys, intent[k].wf # w
      PROVE  intent'[k] = intent[k]
  BY <1>3 DEF SetStatus
<1>4. intent' \in [Keys -> Intent \cup {NoIntent}]
  <2>1. \A k \in Keys : intent'[k] \in Intent \cup {NoIntent}
    BY <1>1, <1>2, <1>3
  <2> QED BY <2>1 DEF SetStatus
<1> QED BY <1>2, <1>3, <1>4 DEF Writes

\* The write of handleReversalSuccess.
LEMMA ReversedWrites ==
    ASSUME IntentAssumption, TypeOK, NEW w \in Transfers,
           intent' = [k \in Keys |->
                        IF intent[k].wf = w
                        THEN [intent[k] EXCEPT !.status = "reversed", !.reversed = TRUE]
                        ELSE intent[k]]
    PROVE  Writes(w, "reversed", TRUE)
<1>1. intent \in [Keys -> Intent \cup {NoIntent}]
  BY DEF TypeOK
<1>2. ASSUME NEW k \in Keys, intent[k].wf = w
      PROVE  /\ intent[k] # NoIntent /\ intent[k] \in Intent
             /\ intent'[k] = [intent[k] EXCEPT !.status = "reversed", !.reversed = TRUE]
             /\ intent'[k] \in Intent /\ intent'[k].wf = w /\ intent'[k].status = "reversed"
  <2>1. intent[k] # NoIntent /\ intent[k] \in Intent
    BY <1>2, <1>1, IntentRow DEF IntentAssumption
  <2>2. intent'[k] = [intent[k] EXCEPT !.status = "reversed", !.reversed = TRUE]
    BY <1>2
  <2> QED BY <1>2, <2>1, <2>2 DEF Intent, IntentStatus
<1>3. ASSUME NEW k \in Keys, intent[k].wf # w
      PROVE  intent'[k] = intent[k]
  BY <1>3
<1>4. intent' \in [Keys -> Intent \cup {NoIntent}]
  <2>1. \A k \in Keys : intent'[k] \in Intent \cup {NoIntent}
    BY <1>1, <1>2, <1>3
  <2> QED BY <2>1
<1> QED BY <1>2, <1>3, <1>4 DEF Writes

\* A write the sagas back keeps every intent backed.
LEMMA WriteBacked ==
    ASSUME IntentAssumption, IntentInv, Grows, NEW w \in Transfers, NEW s \in IntentStatus,
           NEW undone \in BOOLEAN, Writes(w, s, undone),
           s \in {"succeeded", "reversal_pending", "reversed"} =>
              phase'[w] = "succeeded" /\ completions'[w] > 0,
           s = "compensated" => phase'[w] = "compensated",
           s = "reversed" \/ undone => \E r \in Reversals : orig'[r] = w /\ phase'[r] = "succeeded",
           UNCHANGED <<phase, depth, orig>>
    PROVE  IntentsBacked' /\ EngineShape' /\ Created' = Created
<1>1. TypeOK /\ IntentsBacked /\ EngineShape
  BY DEF IntentInv
<1>2. ASSUME NEW k \in Keys
      PROVE  IntentBacked(k)'
  <2>1. CASE intent[k].wf = w
    <3>1. /\ intent'[k].wf = w /\ intent[k] # NoIntent /\ intent'[k].status = s
          /\ intent'[k].reversed => undone \/ intent[k].reversed
      BY <2>1 DEF Writes
    <3>2. IntentBacked(k)
      BY <1>1 DEF IntentsBacked
    <3>3. intent[k].reversed => \E r \in Reversals : orig[r] = w /\ phase[r] = "succeeded"
      BY <3>1, <3>2, <2>1 DEF IntentBacked
    <3>4. intent'[k].status = "reversed" \/ intent'[k].reversed =>
              \E r \in Reversals : orig'[r] = w /\ phase'[r] = "succeeded"
      BY <3>1, <3>3
    <3> QED BY <3>1, <3>4 DEF IntentBacked
  <2>2. CASE intent[k].wf # w
    <3>1. intent'[k] = intent[k]
      BY <2>2 DEF Writes
    <3> QED BY <3>1, <1>1, IntentKept DEF IntentsBacked
  <2> QED BY <2>1, <2>2
<1>3. Created' = Created
  BY DEF Writes, Created
<1>4. EngineShape'
  BY <1>1, <1>3 DEF EngineShape
<1> QED BY <1>2, <1>3, <1>4 DEF IntentsBacked

\* The consumer writes what it has read, and announces a fresh success.
LEMMA SyncInv ==
    ASSUME IntentAssumption, IntentInv, NEW c \in Replicas, syncStatusAndEmit(c)
    PROVE  IntentInv'
<1>w. PICK w : w = cons[c].ev.wf
  OBVIOUS
<1>s. PICK s : s = cons[c].status
  OBVIOUS
<1>1. /\ cons[c].stage = "sync" /\ intent' = SetStatus(w, s)
      /\ completions' = IF cons[c].fresh THEN [completions EXCEPT ![w] = @ + 1] ELSE completions
      /\ cons' = [cons EXCEPT ![c].stage = "commit"]
      /\ UNCHANGED <<phase, depth, cmd, orig, req, queue, published, applied, inbox,
                     dispatched, rewardQueue, rewardInbox, earning, earned, faults>>
  BY <1>w, <1>s DEF syncStatusAndEmit, engine, reward
<1>2. /\ w \in Transfers /\ w \in Instances /\ cons[c].ev \in applied /\ cons[c].ev \in published
      /\ s \in IntentStatus /\ s \notin {"reversal_pending", "reversed"}
      /\ s \in {"succeeded", "compensated"} => phase[w] = s
      /\ cons[c].fresh => s = "succeeded"
      /\ s = "succeeded" /\ ~cons[c].fresh => completions[w] > 0
      /\ cons[c].fresh \in BOOLEAN
  BY <1>1, <1>w, <1>s, Open DEF HandlerSees, Handling, Instances
<1>3. completions \in [Transfers -> Nat] /\ TypeOK
  BY DEF IntentInv, TypeOK
<1>4. /\ completions' \in [Transfers -> Nat]
      /\ \A v \in Transfers : completions[v] > 0 => completions'[v] > 0
      /\ \A v \in Transfers : v # w => completions'[v] = completions[v]
      /\ s = "succeeded" => completions'[w] > 0
      /\ s # "succeeded" => completions'[w] = completions[w]
  <2>1. CASE cons[c].fresh
    <3>1. completions' = [completions EXCEPT ![w] = @ + 1] /\ s = "succeeded"
      BY <2>1, <1>1, <1>2
    <3> QED BY <3>1, <1>2, <1>3
  <2>2. CASE ~cons[c].fresh
    BY <2>2, <1>1, <1>2, <1>3
  <2> QED BY <2>1, <2>2, <1>2
<1>5. Grows
  BY <1>1, <1>4 DEF Grows
<1>6. Writes(w, s, FALSE)
  BY <1>1, <1>2, <1>3, SetStatusWrites
<1>7. IntentsBacked' /\ EngineShape'
  BY <1>1, <1>2, <1>4, <1>5, <1>6, WriteBacked
<1>8. PICK m : m = [cons[c] EXCEPT !.stage = "commit"]
  OBVIOUS
<1>9. /\ m \in Handling /\ m.stage = "commit" /\ m.ev = cons[c].ev
      /\ cons' = [cons EXCEPT ![c] = m] /\ cons'[c] = m
  BY <1>1, <1>8, Open DEF Handling, Stages
<1>10. TypeOK'
  <2>1. intent' \in [Keys -> Intent \cup {NoIntent}]
    BY <1>6 DEF Writes
  <2> QED BY <1>1, <1>3, <1>4, <1>9, <2>1 DEF TypeOK, Handling
<1>11. EventsKnown' /\ OrigBacked'
  <2>1. EventsKnown'
    BY <1>1 DEF IntentInv, EventsKnown
  <2>2. \A r \in Reversals : orig[r] # None => orig[r] \in Transfers
    BY <1>3 DEF TypeOK
  <2>3. OrigBacked'
    BY <1>1, <1>4, <2>2 DEF IntentInv, OrigBacked
  <2> QED BY <2>1, <2>3
<1>12. CompletionsBacked'
  <2>1. \A v \in Transfers : completions[v] > 0 => phase[v] = "succeeded"
    BY DEF IntentInv, CompletionsBacked
  <2> QED BY <2>1, <1>1, <1>2, <1>4 DEF CompletionsBacked
<1>13. RequestsSee'
  BY <1>1, <1>3, <1>5, RequestKept DEF IntentInv, RequestsSee
<1>14. HandlersSee'
  <2> SUFFICES ASSUME NEW d \in Replicas
               PROVE  HandlerSees(d)'
    BY DEF HandlersSee
  <2>1. CASE d = c
    BY <2>1, <1>1, <1>2, <1>9 DEF HandlerSees
  <2>2. CASE d # c
    <3>1. cons'[d] = cons[d]
      BY <2>2, <1>9, Open
    <3> QED BY <3>1, <1>3, <1>5, HandlerKept DEF IntentInv, HandlersSee
  <2> QED BY <2>1, <2>2
<1> QED BY <1>7, <1>10, <1>11, <1>12, <1>13, <1>14 DEF IntentInv

\* The original of a reversal that went through becomes reversed.
LEMMA ReversalSuccessInv ==
    ASSUME IntentAssumption, IntentInv, NEW c \in Replicas, handleReversalSuccess(c)
    PROVE  IntentInv'
<1>r. PICK r : r = cons[c].ev.wf
  OBVIOUS
<1>w. PICK w : w = orig[r]
  OBVIOUS
<1>1. /\ cons[c].stage = "reversal"
      /\ intent' = [k \in Keys |->
                        IF intent[k].wf = w
                        THEN [intent[k] EXCEPT !.status = "reversed", !.reversed = TRUE]
                        ELSE intent[k]]
      /\ cons' = [cons EXCEPT ![c].stage = "commit"]
      /\ UNCHANGED <<phase, depth, cmd, orig, req, queue, published, applied, inbox, completions,
                     dispatched, rewardQueue, rewardInbox, earning, earned, faults>>
  BY <1>w, <1>r DEF handleReversalSuccess, engine, reward
<1>2. /\ r \in Reversals /\ r \in Created /\ phase[r] = "succeeded"
      /\ cons[c].ev \in applied /\ cons[c].ev \in published
  BY <1>1, <1>r, Open DEF HandlerSees
<1>3. TypeOK /\ completions \in [Transfers -> Nat]
  BY DEF IntentInv, TypeOK
<1>4. w # None
  <2>1. \A k \in Keys : intent[k].wf \in Transfers \cup {None}
    BY <1>3 DEF TypeOK, Intent, NoIntent
  <2> QED BY <2>1, <1>2, <1>w DEF Created, IntentAssumption
<1>5. w \in Transfers /\ phase[w] = "succeeded" /\ completions[w] > 0
  BY <1>2, <1>3, <1>4, <1>w DEF TypeOK, IntentInv, OrigBacked
<1>6. Grows
  BY <1>1, GrowsSame
<1>7. Writes(w, "reversed", TRUE)
  BY <1>1, <1>3, <1>5, ReversedWrites
<1>8. IntentsBacked' /\ EngineShape'
  <2>1. "reversed" \in IntentStatus
    BY DEF IntentStatus
  <2>2. orig'[r] = w /\ phase'[r] = "succeeded" /\ phase'[w] = "succeeded" /\ completions'[w] > 0
    BY <1>1, <1>2, <1>5, <1>w
  <2>3. UNCHANGED <<phase, depth, orig>>
    BY <1>1
  <2> QED BY <2>1, <2>2, <2>3, <1>2, <1>5, <1>6, <1>7, WriteBacked
<1>9. PICK m : m = [cons[c] EXCEPT !.stage = "commit"]
  OBVIOUS
<1>10. /\ m \in Handling /\ m.stage = "commit" /\ m.ev = cons[c].ev
       /\ cons' = [cons EXCEPT ![c] = m] /\ cons'[c] = m
  BY <1>1, <1>9, Open DEF Handling, Stages
<1>11. TypeOK'
  <2>1. intent' \in [Keys -> Intent \cup {NoIntent}]
    BY <1>7 DEF Writes
  <2>2. cons' \in [Replicas -> Handling]
    BY <1>10, Open
  <2> QED BY <1>1, <1>3, <2>1, <2>2 DEF TypeOK, Handling
<1>12. EventsKnown' /\ OrigBacked' /\ CompletionsBacked'
  BY <1>1 DEF IntentInv, EventsKnown, OrigBacked, CompletionsBacked
<1>13. RequestsSee'
  BY <1>1, <1>3, <1>6, RequestKept DEF IntentInv, RequestsSee
<1>14. HandlersSee'
  <2> SUFFICES ASSUME NEW d \in Replicas
               PROVE  HandlerSees(d)'
    BY DEF HandlersSee
  <2>1. CASE d = c
    BY <2>1, <1>1, <1>2, <1>10 DEF HandlerSees
  <2>2. CASE d # c
    <3>1. cons'[d] = cons[d]
      BY <2>2, <1>10, Open
    <3> QED BY <3>1, <1>3, <1>6, HandlerKept DEF IntentInv, HandlersSee
  <2> QED BY <2>1, <2>2
<1> QED BY <1>8, <1>11, <1>12, <1>13, <1>14 DEF IntentInv

---------------------------------------------------------------------------
(* The reverse endpoint *)

\* A step of request q that leaves the intents and the engine alone.
LEMMA RequestStep ==
    ASSUME IntentAssumption, IntentInv, NEW q \in Requests,
           NEW m \in [pc : {"idle", "start", "prepare", "mark"},
                      wf : Transfers \cup {None}, rev : Reversals \cup {None}],
           req' = [req EXCEPT ![q] = m], RequestSees(q)', faults' \in [crash : Nat, db : Nat],
           UNCHANGED <<phase, depth, cmd, orig, intent, queue, published, applied, inbox, cons,
                       completions, dispatched, rewardQueue, rewardInbox, earning, earned>>
    PROVE  IntentInv'
<1>1. Grows /\ TypeOK
  BY GrowsSame DEF IntentInv
<1>2. TypeOK'
  BY DEF IntentInv, TypeOK
<1>3. EngineShape' /\ EventsKnown' /\ IntentsBacked' /\ OrigBacked' /\ CompletionsBacked'
  BY <1>1, RowsKept
<1>4. HandlersSee'
  BY <1>1, HandlerKept DEF IntentInv, HandlersSee
<1>5. RequestsSee'
  <2> SUFFICES ASSUME NEW p \in Requests
               PROVE  RequestSees(p)'
    BY DEF RequestsSee
  <2>1. CASE p = q
    BY <2>1
  <2>2. CASE p # q
    <3>1. req'[p] = req[p]
      BY <2>2, <1>1 DEF TypeOK
    <3> QED BY <3>1, <1>1, RequestKept DEF IntentInv, RequestsSee
  <2> QED BY <2>1, <2>2
<1> QED BY <1>2, <1>3, <1>4, <1>5 DEF IntentInv

\* Only a succeeded and announced payment gets past the check.
LEMMA ReverseCheckInv ==
    ASSUME IntentAssumption, IntentInv, NEW q \in Requests, NEW w \in Transfers, ReverseCheck(q, w)
    PROVE  IntentInv'
<1>1. PICK m : m = [pc |-> "start", wf |-> w, rev |-> None]
  OBVIOUS
<1>2. /\ req' = [req EXCEPT ![q] = m] /\ w \in Created
      /\ StatusOf(w) = "succeeded" /\ phase[w] = "succeeded"
      /\ UNCHANGED <<phase, depth, cmd, orig, intent, queue, published, applied, inbox, cons,
                     completions, dispatched, rewardQueue, rewardInbox, earning, earned, faults>>
  BY <1>1 DEF ReverseCheck, Reversible, engine, reward
<1>3. PICK k \in Keys : /\ intent[k].wf = w /\ intent[k] # NoIntent
                        /\ StatusOf(w) = intent[k].status
  BY <1>2, StatusOfKey DEF IntentInv
<1>4. completions[w] > 0
  BY <1>2, <1>3 DEF IntentInv, IntentsBacked, IntentBacked
<1>5. /\ m \in [pc : {"idle", "start", "prepare", "mark"},
                wf : Transfers \cup {None}, rev : Reversals \cup {None}]
      /\ m.pc = "start" /\ m.wf = w
  BY <1>1
<1>6. req'[q] = m /\ faults' \in [crash : Nat, db : Nat]
  BY <1>2 DEF IntentInv, TypeOK
<1>7. RequestSees(q)'
  BY <1>2, <1>4, <1>5, <1>6 DEF RequestSees
<1> QED BY <1>2, <1>5, <1>6, <1>7, RequestStep

\* A request dies between two steps.
LEMMA CrashRequestInv ==
    ASSUME IntentAssumption, IntentInv, NEW q \in Requests, CrashRequest(q)
    PROVE  IntentInv'
<1>1. /\ req' = [req EXCEPT ![q] = NoRequest] /\ faults' = [faults EXCEPT !.crash = @ + 1]
      /\ UNCHANGED <<phase, depth, cmd, orig, intent, queue, published, applied, inbox, cons,
                     completions, dispatched, rewardQueue, rewardInbox, earning, earned>>
  BY DEF CrashRequest, engine, reward
<1>2. /\ NoRequest \in [pc : {"idle", "start", "prepare", "mark"},
                        wf : Transfers \cup {None}, rev : Reversals \cup {None}]
      /\ NoRequest.pc = "idle"
  BY DEF NoRequest
<1>3. req'[q] = NoRequest /\ faults' \in [crash : Nat, db : Nat]
  BY <1>1 DEF IntentInv, TypeOK
<1>4. RequestSees(q)'
  BY <1>2, <1>3 DEF RequestSees
<1> QED BY <1>1, <1>2, <1>3, <1>4, RequestStep

\* A reversal is created for the payment the request has checked.
LEMMA StartReversalInv ==
    ASSUME IntentAssumption, IntentInv, NEW q \in Requests, NEW r \in Reversals, StartReversal(q, r)
    PROVE  IntentInv'
<1>w. PICK w : w = req[q].wf
  OBVIOUS
<1>1. PICK m : m = [req[q] EXCEPT !.pc = "prepare", !.rev = r]
  OBVIOUS
<1>2. /\ req[q].pc = "start" /\ r \notin Created
      /\ orig' = [orig EXCEPT ![r] = w] /\ req' = [req EXCEPT ![q] = m]
      /\ UNCHANGED <<phase, depth, cmd, intent, queue, published, applied, inbox, cons,
                     completions, dispatched, rewardQueue, rewardInbox, earning, earned, faults>>
  BY <1>1, <1>w DEF StartReversal, engine, reward
<1>3. w \in Transfers /\ phase[w] = "succeeded" /\ completions[w] > 0
  BY <1>2, <1>w DEF IntentInv, RequestsSee, RequestSees
<1>4. orig[r] = None
  BY <1>2 DEF Created
<1>5. TypeOK /\ orig \in [Reversals -> Transfers \cup {None}]
      /\ req \in [Requests -> [pc : {"idle", "start", "prepare", "mark"},
                               wf : Transfers \cup {None}, rev : Reversals \cup {None}]]
  BY DEF IntentInv, TypeOK
<1>6. /\ m \in [pc : {"idle", "start", "prepare", "mark"},
                wf : Transfers \cup {None}, rev : Reversals \cup {None}]
      /\ m.pc = "prepare" /\ m.wf = w /\ m.rev = r
  BY <1>1, <1>5, <1>w
<1>7. /\ orig' \in [Reversals -> Transfers \cup {None}] /\ orig'[r] = w
      /\ \A v \in Reversals : orig[v] # None => orig'[v] = orig[v]
      /\ \A v \in Reversals : v # r => orig'[v] = orig[v]
  BY <1>2, <1>3, <1>4, <1>5
<1>8. Grows
  BY <1>2, <1>7 DEF Grows
<1>9. TypeOK'
  BY <1>2, <1>5, <1>6, <1>7 DEF TypeOK
<1>10. EventsKnown' /\ CompletionsBacked'
  BY <1>2 DEF IntentInv, EventsKnown, CompletionsBacked
<1>11. OrigBacked'
  BY <1>2, <1>3, <1>7 DEF IntentInv, OrigBacked
<1>12. IntentsBacked'
  BY <1>2, <1>5, <1>8, IntentKept DEF IntentInv, IntentsBacked
<1>13. EngineShape'
  <2>1. \A v \in Instances : v \in Created => v \in Created'
    BY <1>2, <1>7 DEF Created
  <2> QED BY <2>1, <1>2 DEF IntentInv, EngineShape
<1>14. HandlersSee'
  BY <1>2, <1>5, <1>8, HandlerKept DEF IntentInv, HandlersSee
<1>15. RequestsSee'
  <2> SUFFICES ASSUME NEW p \in Requests
               PROVE  RequestSees(p)'
    BY DEF RequestsSee
  <2>1. CASE p = q
    <3>1. req'[p] = m
      BY <2>1, <1>2, <1>5
    <3> QED BY <3>1, <1>2, <1>3, <1>6, <1>7 DEF RequestSees
  <2>2. CASE p # q
    <3>1. req'[p] = req[p]
      BY <2>2, <1>2, <1>5
    <3> QED BY <3>1, <1>5, <1>8, RequestKept DEF IntentInv, RequestsSee
  <2> QED BY <2>1, <2>2
<1> QED BY <1>9, <1>10, <1>11, <1>12, <1>13, <1>14, <1>15 DEF IntentInv

\* The request prepares its reversal unless recovery was faster.
LEMMA PrepareReversalInv ==
    ASSUME IntentAssumption, IntentInv, NEW q \in Requests, PrepareReversal(q)
    PROVE  IntentInv'
<1>r. PICK r : r = req[q].rev
  OBVIOUS
<1>1. PICK m : m = [req[q] EXCEPT !.pc = "mark"]
  OBVIOUS
<1>2. /\ req[q].pc = "prepare" /\ req' = [req EXCEPT ![q] = m]
      /\ IF phase[r] = "new" THEN Saga!Begin(r) /\ cmd' = [cmd EXCEPT ![r] = 1]
                             ELSE UNCHANGED <<phase, depth, cmd>>
      /\ UNCHANGED <<orig, intent, queue, published, applied, inbox, cons,
                     completions, dispatched, rewardQueue, rewardInbox, earning, earned, faults>>
  BY <1>1, <1>r DEF PrepareReversal, engine, reward
<1>3. TypeOK /\ cmd \in [Instances -> Nat]
      /\ req \in [Requests -> [pc : {"idle", "start", "prepare", "mark"},
                               wf : Transfers \cup {None}, rev : Reversals \cup {None}]]
  BY DEF IntentInv, TypeOK
<1>4. RequestSees(q)
  BY DEF IntentInv, RequestsSee
<1>5. r \in Reversals /\ r \in Instances /\ orig[r] = req[q].wf /\ req[q].wf \in Transfers
      /\ phase[req[q].wf] = "succeeded" /\ completions[req[q].wf] > 0
  BY <1>2, <1>4, <1>r DEF RequestSees, Instances
<1>6. r \in Created
  BY <1>5 DEF Created, IntentAssumption
<1>7. cmd' \in [Instances -> Nat] /\ (Saga!SagaStep(r) \/ UNCHANGED <<phase, depth>>)
  BY <1>2, <1>3, <1>5 DEF Saga!SagaStep
<1>8. /\ phase' \in [Instances -> Phases] /\ depth' \in [Instances -> 0 .. TransferSteps]
      /\ EngineShape' /\ EventsKnown' /\ IntentsBacked' /\ OrigBacked' /\ CompletionsBacked'
      /\ Grows
  BY <1>2, <1>5, <1>6, <1>7, SagaMove
<1>9. /\ m \in [pc : {"idle", "start", "prepare", "mark"},
                wf : Transfers \cup {None}, rev : Reversals \cup {None}]
      /\ m.pc = "mark" /\ m.wf = req[q].wf /\ m.rev = r
  BY <1>1, <1>3, <1>r
<1>10. TypeOK'
  BY <1>2, <1>3, <1>7, <1>8, <1>9 DEF TypeOK
<1>11. HandlersSee'
  BY <1>2, <1>3, <1>8, HandlerKept DEF IntentInv, HandlersSee
<1>12. RequestsSee'
  <2> SUFFICES ASSUME NEW p \in Requests
               PROVE  RequestSees(p)'
    BY DEF RequestsSee
  <2>1. CASE p = q
    <3>1. req'[p] = m
      BY <2>1, <1>2, <1>3
    <3>2. phase'[req[q].wf] = "succeeded"
      BY <1>5, <1>8 DEF Grows, Instances
    <3> QED BY <3>1, <3>2, <1>2, <1>5, <1>9 DEF RequestSees
  <2>2. CASE p # q
    <3>1. req'[p] = req[p]
      BY <2>2, <1>2, <1>3
    <3> QED BY <3>1, <1>3, <1>8, RequestKept DEF IntentInv, RequestsSee
  <2> QED BY <2>1, <2>2
<1> QED BY <1>8, <1>10, <1>11, <1>12 DEF IntentInv

\* The unconditional mark is on a payment that stays succeeded.
LEMMA MarkReversalPendingInv ==
    ASSUME IntentAssumption, IntentInv, NEW q \in Requests, MarkReversalPending(q)
    PROVE  IntentInv'
<1>w. PICK w : w = req[q].wf
  OBVIOUS
<1>1. /\ req[q].pc = "mark" /\ req' = [req EXCEPT ![q] = NoRequest]
      /\ intent' = SetStatus(w, "reversal_pending")
      /\ UNCHANGED <<phase, depth, cmd, orig, queue, published, applied, inbox, cons,
                     completions, dispatched, rewardQueue, rewardInbox, earning, earned, faults>>
  BY <1>w DEF MarkReversalPending, engine, reward
<1>2. w \in Transfers /\ phase[w] = "succeeded" /\ completions[w] > 0
  BY <1>1, <1>w DEF IntentInv, RequestsSee, RequestSees
<1>3. TypeOK /\ "reversal_pending" \in IntentStatus
      /\ req \in [Requests -> [pc : {"idle", "start", "prepare", "mark"},
                               wf : Transfers \cup {None}, rev : Reversals \cup {None}]]
  BY DEF IntentInv, TypeOK, IntentStatus
<1>4. Grows
  BY <1>1, GrowsSame
<1>5. Writes(w, "reversal_pending", FALSE)
  BY <1>1, <1>2, <1>3, SetStatusWrites
<1>6. IntentsBacked' /\ EngineShape'
  BY <1>1, <1>2, <1>3, <1>4, <1>5, WriteBacked
<1>7. /\ NoRequest \in [pc : {"idle", "start", "prepare", "mark"},
                        wf : Transfers \cup {None}, rev : Reversals \cup {None}]
      /\ NoRequest.pc = "idle"
  BY DEF NoRequest
<1>8. TypeOK'
  <2>1. intent' \in [Keys -> Intent \cup {NoIntent}]
    BY <1>5 DEF Writes
  <2> QED BY <1>1, <1>3, <1>7, <2>1 DEF TypeOK
<1>9. EventsKnown' /\ OrigBacked' /\ CompletionsBacked'
  BY <1>1 DEF IntentInv, EventsKnown, OrigBacked, CompletionsBacked
<1>10. HandlersSee'
  BY <1>1, <1>3, <1>4, HandlerKept DEF IntentInv, HandlersSee
<1>11. RequestsSee'
  <2> SUFFICES ASSUME NEW p \in Requests
               PROVE  RequestSees(p)'
    BY DEF RequestsSee
  <2>1. CASE p = q
    <3>1. req'[p] = NoRequest
      BY <2>1, <1>1, <1>3
    <3> QED BY <3>1, <1>7 DEF RequestSees
  <2>2. CASE p # q
    <3>1. req'[p] = req[p]
      BY <2>2, <1>1, <1>3
    <3> QED BY <3>1, <1>3, <1>4, RequestKept DEF IntentInv, RequestsSee
  <2> QED BY <2>1, <2>2
<1> QED BY <1>6, <1>8, <1>9, <1>10, <1>11 DEF IntentInv

---------------------------------------------------------------------------
(* Completion events *)

\* The relay and the reward service change nothing a payment's status rests on.
LEMMA RewardStep ==
    ASSUME IntentAssumption, IntentInv, RelayRows \/ Reward \/ CrashReward
    PROVE  IntentInv'
<1>1. UNCHANGED <<phase, depth, cmd, orig, intent, req, queue, published, applied, inbox, cons, completions>>
  <2>1. CASE RelayRows
    BY <2>1 DEF RelayRows, Relay, engine
  <2>2. CASE Reward
    BY <2>2 DEF Reward, EarnPoints, CommitReward, engine
  <2>3. CASE CrashReward
    BY <2>3 DEF CrashReward, engine
  <2> QED BY <2>1, <2>2, <2>3
<1>2. /\ dispatched \subseteq Completion /\ rewardQueue \subseteq Completion
      /\ rewardInbox \subseteq Completion /\ earning \in Completion \cup {None}
      /\ earned \in [Transfers -> Nat] /\ faults \in [crash : Nat, db : Nat]
      /\ completions \in [Transfers -> Nat]
  BY DEF IntentInv, TypeOK
<1>3. /\ dispatched' \subseteq Completion /\ rewardQueue' \subseteq Completion
      /\ rewardInbox' \subseteq Completion /\ earning' \in Completion \cup {None}
      /\ earned' \in [Transfers -> Nat] /\ faults' \in [crash : Nat, db : Nat]
  <2>1. CASE RelayRows
    <3>1. PICK m \in CompletionRows : Relay(m)
      BY <2>1 DEF RelayRows
    <3>2. m \in Completion
      BY <1>2 DEF CompletionRows, Completion
    <3> QED BY <1>2, <3>1, <3>2 DEF Relay
  <2>2. CASE \E m \in rewardQueue : EarnPoints(m)
    <3>1. PICK m \in rewardQueue : EarnPoints(m)
      BY <2>2
    <3>2. m \in Completion /\ m.wf \in Transfers
      BY <1>2 DEF Completion
    <3> QED BY <1>2, <3>1, <3>2 DEF EarnPoints
  <2>3. CASE CommitReward
    BY <1>2, <2>3 DEF CommitReward
  <2>4. CASE CrashReward
    BY <1>2, <2>4 DEF CrashReward
  <2> QED BY <2>1, <2>2, <2>3, <2>4 DEF Reward
<1>4. TypeOK'
  BY <1>1, <1>3 DEF IntentInv, TypeOK
<1>5. Grows /\ TypeOK
  BY <1>1, GrowsSame DEF IntentInv
<1>6. EngineShape' /\ EventsKnown' /\ IntentsBacked' /\ OrigBacked' /\ CompletionsBacked'
  BY <1>1, <1>5, RowsKept
<1>7. HandlersSee' /\ RequestsSee'
  BY <1>1, <1>5, HandlerKept, RequestKept DEF IntentInv, HandlersSee, RequestsSee
<1> QED BY <1>4, <1>6, <1>7 DEF IntentInv

---------------------------------------------------------------------------

\* The initial state satisfies the invariant.
LEMMA IntentInvInit ==
    ASSUME IntentAssumption, Init
    PROVE  IntentInv
<1>1. /\ phase = [w \in Instances |-> "new"] /\ depth = [w \in Instances |-> 0]
      /\ \A k \in Keys : intent[k] = NoIntent
      /\ \A c \in Replicas : cons[c].stage = "idle"
      /\ \A q \in Requests : req[q].pc = "idle"
  BY DEF Init, Saga!SagaInit, Idle, NoRequest
<1>2. TypeOK
  <2>1. 0 \in 0 .. TransferSteps /\ TransferSteps \in Nat
    BY DEF IntentAssumption
  <2>2. "new" \in Phases
    BY DEF Phases
  <2>3. Idle \in [stage : Stages, ev : ResultEvent \cup {None}, status : IntentStatus, fresh : BOOLEAN]
    BY DEF Idle, Stages, IntentStatus
  <2>4. NoRequest \in [pc : {"idle", "start", "prepare", "mark"},
                       wf : Transfers \cup {None}, rev : Reversals \cup {None}]
    BY DEF NoRequest
  <2>5. faults \in [crash : Nat, db : Nat]
    BY DEF Init
  <2> QED BY <1>1, <2>1, <2>2, <2>3, <2>4, <2>5 DEF Init, TypeOK
<1>3. EngineShape /\ EventsKnown
  BY <1>1 DEF EngineShape, EventsKnown, Init, IntentAssumption
<1>4. IntentsBacked
  BY <1>1 DEF IntentsBacked, IntentBacked
<1>5. OrigBacked /\ CompletionsBacked
  BY DEF Init, OrigBacked, CompletionsBacked
<1>6. HandlersSee /\ RequestsSee
  BY <1>1 DEF HandlersSee, HandlerSees, RequestsSee, RequestSees
<1> QED BY <1>2, <1>3, <1>4, <1>5, <1>6 DEF IntentInv

\* Every step keeps the invariant.
LEMMA IntentInvNext ==
    ASSUME IntentAssumption, IntentInv, [Next]_vars
    PROVE  IntentInv'
<1>1. ASSUME NEW k \in Keys, NEW w \in Transfers, StartPayment(k, w)
      PROVE  IntentInv'
  BY <1>1, StartPaymentInv
<1>2. ASSUME NEW w \in Instances, PrepareInstance(w) \/ OperatorStep(w) \/ PublishResult(w)
      PROVE  IntentInv'
  BY <1>2, PrepareInstanceInv, OperatorStepInv, PublishResultInv
<1>3. ASSUME NEW c \in Replicas, Consume(c)
      PROVE  IntentInv'
  BY <1>3, DeliverInv, ApplyResultInv, ApplyDuplicateInv, RejectStaleInv, ReadMetaInv, ReadPreviousInv,
     SyncInv, ReversalSuccessInv, CommitInboxInv DEF Consume
<1>4. ASSUME NEW c \in Replicas, SyncFails(c) \/ CrashReplica(c)
      PROVE  IntentInv'
  BY <1>4, SyncFailsInv, CrashReplicaInv
<1>5. ASSUME NEW q \in Requests, NEW w \in Transfers, ReverseCheck(q, w)
      PROVE  IntentInv'
  BY <1>5, ReverseCheckInv
<1>6. ASSUME NEW q \in Requests, Reverse(q) \/ CrashRequest(q)
      PROVE  IntentInv'
  BY <1>6, StartReversalInv, PrepareReversalInv, MarkReversalPendingInv, CrashRequestInv DEF Reverse
<1>7. CASE RelayRows \/ Reward \/ CrashReward
  BY <1>7, RewardStep
<1>8. CASE UNCHANGED vars
  <2>1. UNCHANGED <<phase, depth, cmd, orig, intent, req, queue, published, applied, inbox, cons,
                    completions, dispatched, rewardQueue, rewardInbox, earning, earned, faults>>
    BY <1>8 DEF vars
  <2>2. Grows /\ TypeOK
    BY <2>1, GrowsSame DEF IntentInv
  <2>3. TypeOK'
    BY <2>1, <2>2 DEF TypeOK
  <2>4. EngineShape' /\ EventsKnown' /\ IntentsBacked' /\ OrigBacked' /\ CompletionsBacked'
    BY <2>1, <2>2, RowsKept
  <2>5. HandlersSee' /\ RequestsSee'
    BY <2>1, <2>2, HandlerKept, RequestKept DEF IntentInv, HandlersSee, RequestsSee
  <2> QED BY <2>3, <2>4, <2>5 DEF IntentInv
<1> QED BY <1>1, <1>2, <1>3, <1>4, <1>5, <1>6, <1>7, <1>8 DEF Next

\* The invariant says of every payment what GET and its completion event say.
LEMMA IntentInvTruthful ==
    ASSUME IntentAssumption, IntentInv
    PROVE  IntentTruthful
<1>1. TypeOK
  BY DEF IntentInv
<1>2. StatusBacked
  <2> SUFFICES ASSUME NEW k \in Keys, intent[k] # NoIntent
               PROVE  /\ intent[k].status \in {"succeeded", "reversal_pending", "reversed"} =>
                            phase[intent[k].wf] = "succeeded"
                      /\ intent[k].status = "compensated" => phase[intent[k].wf] = "compensated"
                      /\ intent[k].status = "reversed" \/ intent[k].reversed =>
                            \E r \in Reversals : orig[r] = intent[k].wf /\ phase[r] = "succeeded"
                      /\ (\E r \in Reversals : orig[r] = intent[k].wf) => phase[intent[k].wf] = "succeeded"
    BY DEF StatusBacked
  <2>1. IntentBacked(k)
    BY DEF IntentInv, IntentsBacked
  <2>2. intent[k].wf # None
    BY <1>1, IntentRow DEF IntentAssumption
  <2>3. (\E r \in Reversals : orig[r] = intent[k].wf) => phase[intent[k].wf] = "succeeded"
    BY <2>2 DEF IntentInv, OrigBacked
  <2> QED BY <2>1, <2>3 DEF IntentBacked
<1>3. SucceededAnnounced
  <2> SUFFICES ASSUME NEW w \in Transfers
               PROVE  /\ w \in Created /\ StatusOf(w) \in {"succeeded", "reversal_pending", "reversed"} =>
                            completions[w] > 0
                      /\ completions[w] > 0 => phase[w] = "succeeded"
    BY DEF SucceededAnnounced
  <2>1. ASSUME w \in Created, StatusOf(w) \in {"succeeded", "reversal_pending", "reversed"}
        PROVE  completions[w] > 0
    <3>1. PICK k \in Keys : /\ intent[k].wf = w /\ intent[k] # NoIntent
                            /\ StatusOf(w) = intent[k].status
      BY <2>1, <1>1, StatusOfKey
    <3> QED BY <2>1, <3>1 DEF IntentInv, IntentsBacked, IntentBacked
  <2>2. completions[w] > 0 => phase[w] = "succeeded"
    BY DEF IntentInv, CompletionsBacked
  <2> QED BY <2>1, <2>2
<1> QED BY <1>1, <1>2, <1>3 DEF IntentTruthful

\* What clients and other services are told of a payment is true in every
\* state: the status GET reports is backed by the sagas, although
\* handleResult writes what it read some steps ago and the reverse endpoint
\* writes without looking, and a payment reported succeeded is announced.
THEOREM IntentsTruthful == Spec => []IntentTruthful
<1>1. IntentAssumption
  BY IntentAssumption
<1>2. Init => IntentInv
  BY <1>1, IntentInvInit
<1>3. IntentInv /\ [Next]_vars => IntentInv'
  BY <1>1, IntentInvNext
<1>4. IntentInv => IntentTruthful
  BY <1>1, IntentInvTruthful
<1> QED BY <1>2, <1>3, <1>4, PTL DEF Spec
=============================================================================
