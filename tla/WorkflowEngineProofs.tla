----------------------- MODULE WorkflowEngineProofs -----------------------
(***************************************************************************)
(* Theorems about WorkflowEngine for any number of instances, actions,     *)
(* workers and operators.                                                  *)
(***************************************************************************)
EXTENDS WorkflowEngine, FiniteSetTheorems, TLAPS

\* A process that works on an instance has one, and only workers sweep.
ProcShape ==
    \A p \in Procs :
        /\ proc[p].pc \in {"header", "commit", "redispatch", "release"} => proc[p].wf \in Instances
        /\ proc[p].pc \in {"redispatch", "release"} => p \in Workers

\* Positions of actions.
LEMMA IdxFacts ==
    /\ 0 \in Idx
    /\ \A i \in Idx : i \in Int /\ i >= 0
BY EngineAssumption DEF Idx

\* Below an action whose predecessors all succeeded, lastSucceededBefore
\* finds the action just below, or -1 below the first.
LEMMA LastSucceeded ==
    ASSUME NEW w, NEW k \in Idx, \A i \in Idx : i < k => act[w][i].status = "succeeded"
    PROVE  lastSucceededBefore(w, k) = k - 1
<1> DEFINE below == {i \in Idx : i < k /\ act[w][i].status = "succeeded"}
<1>1. CASE k = 0
  <2>1. ASSUME NEW i \in Idx, i < k PROVE FALSE
    BY <2>1, <1>1, IdxFacts
  <2>2. below = {}
    BY <2>1
  <2> QED BY <2>2, <1>1 DEF lastSucceededBefore
<1>2. CASE k # 0
  <2>1. k - 1 \in Idx /\ k - 1 < k
    BY <1>2, EngineAssumption DEF Idx
  <2>2. k - 1 \in below /\ \A j \in below : j <= k - 1
    BY <2>1, IdxFacts
  <2>3. ASSUME NEW i \in below, \A j \in below : j <= i
        PROVE  i = k - 1
    <3>1. i \in Int /\ k \in Int
      BY IdxFacts
    <3>2. k - 1 <= i /\ i <= k - 1
      <4> HIDE DEF below
      <4> QED BY <2>2, <2>3
    <3> QED BY <3>1, <3>2
  <2>4. (CHOOSE i \in below : \A j \in below : j <= i) = k - 1
    <3> HIDE DEF below
    <3> QED BY <2>2, <2>3
  <2> QED BY <2>2, <2>4 DEF lastSucceededBefore
<1> QED BY <1>1, <1>2

StructInv == TypeOK /\ ProcShape /\ SagaShape

\* What the walk of CompensateBelow does when it starts at the current action.
LEMMA CompensateBelowStep ==
    ASSUME StructInv, NEW w \in Instances, NEW row \in ActionRow,
           inst[w].status \in {"running", "compensating", "compensation_failed"},
           row.status \in {"failed", "compensated"},
           CompensateBelow(w, inst[w].cur, row)
    PROVE  /\ inst' \in [Instances -> InstanceRow]
           /\ act' \in [Instances -> [Idx -> ActionRow]]
           /\ uuid' \in [Instances -> Nat]
           /\ outbox' \subseteq Command /\ queue' \subseteq outbox'
           /\ SagaShape'
<1> DEFINE k == inst[w].cur
<1>t. /\ k \in Idx /\ act[w][k] \in ActionRow /\ uuid[w] \in Nat /\ inst[w].ctx \in Contexts \cup {None}
  BY DEF StructInv, TypeOK, InstanceRow
<1>s. \A i \in Idx : i < k => act[w][i].status = "succeeded"
  BY DEF StructInv, SagaShape, Shape
<1>u. \A i \in Idx : i > k => act[w][i].status \in {"compensated", "failed", "none"}
  BY DEF StructInv, SagaShape, Shape
<1>i. k \in Int /\ k >= 0
  BY <1>t, IdxFacts
<1>l. lastSucceededBefore(w, k) = k - 1
  BY <1>t, <1>s, LastSucceeded
<1>1. CASE k = 0
  <2>1. /\ inst' = [inst EXCEPT ![w].status = "compensated"]
        /\ act' = [act EXCEPT ![w][k] = row]
        /\ UNCHANGED <<uuid, outbox, queue>>
    BY <1>1, <1>l DEF CompensateBelow
  <2>2. inst' \in [Instances -> InstanceRow] /\ act' \in [Instances -> [Idx -> ActionRow]]
    BY <2>1, <1>t, ZenonT(60) DEF StructInv, TypeOK, InstanceRow, InstanceStatus
  <2>3. SagaShape'
    <3> SUFFICES ASSUME NEW v \in Instances PROVE Shape(v)'
      BY DEF SagaShape
    <3>1. CASE v # w
      BY <3>1, <2>1 DEF StructInv, TypeOK, SagaShape, Shape
    <3>2. CASE v = w
      <4>1. inst'[w].status = "compensated"
        BY <2>1 DEF StructInv, TypeOK, InstanceRow
      <4>2. /\ act'[w][k].status = row.status
            /\ \A i \in Idx : i # k => act'[w][i] = act[w][i]
        BY <2>1, <1>t DEF StructInv, TypeOK
      <4>3. \A i \in Idx : act'[w][i].status \in {"compensated", "failed", "none"}
        <5> TAKE i \in Idx
        <5>1. i = k \/ i > k
          BY <1>1, <1>i, IdxFacts
        <5> QED BY <5>1, <4>2, <1>u
      <4> QED BY <3>2, <4>1, <4>3 DEF Shape
    <3> QED BY <3>1, <3>2
  <2> QED BY <2>1, <2>2, <2>3 DEF StructInv, TypeOK
<1>2. CASE k # 0
  <2> DEFINE t == k - 1
             id == uuid[w] + 1
             new == CompensatingRow(act[w][t], id, 1)
             c == CompensationCommand(w, t, id)
  <2>0. t \in Idx /\ t < k /\ t >= 0
    BY <1>2, <1>t, EngineAssumption DEF Idx
  <2>1. /\ inst' = [inst EXCEPT ![w].status = "compensating", ![w].cur = t]
        /\ act' = [act EXCEPT ![w][k] = row, ![w][t] = new]
        /\ uuid' = [uuid EXCEPT ![w] = id]
        /\ outbox' = outbox \cup {c} /\ queue' = queue \cup {c}
    BY <2>0, <1>l, <1>i DEF CompensateBelow, AppendOutbox
  <2>2. new \in ActionRow /\ new.status = "compensating"
    BY <2>0, <1>t DEF CompensatingRow, ActionRow, ActionStatus, StructInv, TypeOK
  <2>3. c \in Command
    BY <2>0, <1>t DEF CompensationCommand, Command, ActionRow, StructInv, TypeOK
  <2>4. inst' \in [Instances -> InstanceRow] /\ act' \in [Instances -> [Idx -> ActionRow]]
    BY <2>1, <2>0, <1>t, <2>2 DEF StructInv, TypeOK, InstanceRow, InstanceStatus
  <2>5. SagaShape'
    <3> SUFFICES ASSUME NEW v \in Instances PROVE Shape(v)'
      BY DEF SagaShape
    <3>1. CASE v # w
      <4>1. inst'[v] = inst[v] /\ act'[v] = act[v]
        BY <3>1, <2>1 DEF StructInv, TypeOK
      <4>2. Shape(v)
        BY DEF StructInv, SagaShape
      <4> QED BY <4>1, <4>2 DEF Shape
    <3>2. CASE v = w
      <4>1. inst'[w].status = "compensating" /\ inst'[w].cur = t
        BY <2>1 DEF StructInv, TypeOK, InstanceRow
      <4>2. /\ act'[w][t].status = "compensating" /\ act'[w][k].status = row.status
            /\ \A i \in Idx : i # k /\ i # t => act'[w][i] = act[w][i]
        <5> HIDE DEF new
        <5> QED BY <2>1, <2>0, <2>2, <1>t DEF StructInv, TypeOK
      <4>3. \A i \in Idx : i > t => act'[w][i].status \in {"compensated", "failed", "none"}
        <5> TAKE i \in Idx
        <5>1. i > t => i # t /\ (i = k \/ i > k)
          BY <1>i, IdxFacts
        <5> QED BY <5>1, <4>2, <1>u
      <4>4. \A i \in Idx : i < t => act'[w][i].status = "succeeded"
        <5> TAKE i \in Idx
        <5>1. i < t => i # t /\ i # k /\ i < k
          BY <1>i, IdxFacts
        <5> QED BY <5>1, <4>2, <1>s
      <4> HIDE DEF t
      <4> QED BY <3>2, <4>1, <4>2, <4>3, <4>4 DEF Shape
    <3> QED BY <3>1, <3>2
  <2> HIDE DEF c
  <2> QED BY <2>1, <2>3, <2>4, <2>5, <1>t DEF StructInv, TypeOK
<1> QED BY <1>1, <1>2

\* The walk of a further compensation.
LEMMA CompensateAgainStep ==
    ASSUME StructInv, NEW w \in Instances,
           inst[w].status \in {"compensating", "compensation_failed"},
           CompensateAgain(w)
    PROVE  /\ inst' \in [Instances -> InstanceRow]
           /\ act' \in [Instances -> [Idx -> ActionRow]]
           /\ uuid' \in [Instances -> Nat]
           /\ outbox' \subseteq Command /\ queue' \subseteq outbox'
           /\ SagaShape'
<1> DEFINE k == inst[w].cur
           id == uuid[w] + 1
           new == CompensatingRow(act[w][k], id, act[w][k].attempt + 1)
           c == CompensationCommand(w, k, id)
<1>t. /\ k \in Idx /\ act[w][k] \in ActionRow /\ uuid[w] \in Nat /\ inst[w].ctx \in Contexts \cup {None}
  BY DEF StructInv, TypeOK, InstanceRow
<1>1. /\ inst' = [inst EXCEPT ![w].status = "compensating"]
      /\ act' = [act EXCEPT ![w][k] = new]
      /\ uuid' = [uuid EXCEPT ![w] = id]
      /\ outbox' = outbox \cup {c} /\ queue' = queue \cup {c}
  BY DEF CompensateAgain, AppendOutbox
<1>2. new \in ActionRow /\ new.status = "compensating"
  BY <1>t DEF CompensatingRow, ActionRow, ActionStatus
<1>3. c \in Command
  BY <1>t DEF CompensationCommand, Command, ActionRow
<1> HIDE DEF new, c
<1>4. inst' \in [Instances -> InstanceRow] /\ act' \in [Instances -> [Idx -> ActionRow]]
  BY <1>1, <1>2, <1>t, ZenonT(60) DEF StructInv, TypeOK, InstanceRow, InstanceStatus
<1>5. SagaShape'
  <2> SUFFICES ASSUME NEW v \in Instances PROVE Shape(v)'
    BY DEF SagaShape
  <2>1. CASE v # w
    BY <2>1, <1>1 DEF StructInv, TypeOK, SagaShape, Shape
  <2>2. CASE v = w
    <3>1. inst'[w].status = "compensating" /\ inst'[w].cur = k
      BY <1>1 DEF StructInv, TypeOK, InstanceRow
    <3>2. /\ act'[w][k].status = "compensating"
          /\ \A i \in Idx : i # k => act'[w][i] = act[w][i]
      BY <1>1, <1>2, <1>t DEF StructInv, TypeOK
    <3>3. \A i \in Idx : i < k \/ i > k => i # k
      BY <1>t, IdxFacts
    <3> QED BY <2>2, <3>1, <3>2, <3>3 DEF StructInv, SagaShape, Shape
  <2> QED BY <2>1, <2>2
<1> QED BY <1>1, <1>3, <1>4, <1>5, <1>t DEF StructInv, TypeOK

\* The position a walk ends at.
LEMMA GotoType ==
    ASSUME StructInv, NEW p \in Procs, NEW pc \in {"idle", "redispatch", "release"},
           pc \in {"redispatch", "release"} => p \in Workers /\ proc[p].wf \in Instances,
           proc' = Goto(p, pc)
    PROVE  proc' \in [Procs -> ProcState] /\ ProcShape'
<1>1. Idle \in ProcState /\ Idle.pc = "idle"
  BY DEF Idle, ProcState
<1>2. CASE pc = "idle"
  <2>1. proc' = [proc EXCEPT ![p] = Idle]
    BY <1>2 DEF Goto
  <2> QED BY <2>1, <1>1 DEF StructInv, TypeOK, ProcShape
<1>3. CASE pc # "idle"
  <2>1. proc' = [proc EXCEPT ![p].pc = pc, ![p].ctx = None]
    BY <1>3 DEF Goto
  <2>2. proc' \in [Procs -> ProcState]
    BY <2>1, ZenonT(60) DEF StructInv, TypeOK, ProcState
  <2>3. /\ proc'[p].pc = pc /\ proc'[p].wf = proc[p].wf
        /\ \A q \in Procs : q # p => proc'[q] = proc[q]
    BY <2>1 DEF StructInv, TypeOK, ProcState
  <2> QED BY <2>2, <2>3 DEF StructInv, ProcShape
<1> QED BY <1>2, <1>3

\* Only instance w's rows changed.
LEMMA ShapeAt ==
    ASSUME SagaShape, NEW w \in Instances, Shape(w)',
           \A v \in Instances : v # w => inst'[v] = inst[v] /\ act'[v] = act[v]
    PROVE  SagaShape'
<1> SUFFICES ASSUME NEW v \in Instances, v # w PROVE Shape(v)'
  BY DEF SagaShape
<1> QED BY DEF SagaShape, Shape

\* No status and no position changed.
LEMMA ShapeFrame ==
    ASSUME SagaShape,
           \A v \in Instances : /\ inst'[v].status = inst[v].status /\ inst'[v].cur = inst[v].cur
                                /\ \A i \in Idx : act'[v][i].status = act[v][i].status,
           \A v \in Instances : inst[v].cur \in Idx
    PROVE  SagaShape'
<1> SUFFICES ASSUME NEW v \in Instances PROVE Shape(v)'
  BY DEF SagaShape
<1> QED BY DEF SagaShape, Shape

\* Every step keeps types and shape.
LEMMA StructStep ==
    ASSUME StructInv, IsFiniteSet(results), [Next]_vars
    PROVE  StructInv'
<1> USE DEF StructInv
<1>1. ASSUME NEW w \in Instances, Start(w) PROVE StructInv'
  <2>1. inst' \in [Instances -> InstanceRow]
    BY <1>1, ZenonT(60) DEF Start, TypeOK, InstanceRow, InstanceStatus
  <2>2. Shape(w)'
    BY <1>1 DEF Start, TypeOK, InstanceRow, SagaShape, Shape
  <2>3. SagaShape'
    BY <1>1, <2>2, ShapeAt DEF Start, TypeOK
  <2> QED BY <1>1, <2>1, <2>3 DEF Start, TypeOK, ProcShape
<1>2. ASSUME NEW c \in Callers, NEW w \in Instances, StartAndPrepare(c, w) PROVE StructInv'
  <2> DEFINE st == [Idle EXCEPT !.pc = "header", !.wf = w]
  <2>1. inst' \in [Instances -> InstanceRow]
    BY <1>2, ZenonT(60) DEF StartAndPrepare, TypeOK, InstanceRow, InstanceStatus
  <2>2. Shape(w)'
    BY <1>2 DEF StartAndPrepare, TypeOK, InstanceRow, SagaShape, Shape
  <2>3. SagaShape'
    BY <1>2, <2>2, ShapeAt DEF StartAndPrepare, TypeOK
  <2>4. st \in ProcState /\ st.pc = "header" /\ st.wf = w
    BY DEF Idle, ProcState
  <2>5. proc' = [proc EXCEPT ![c] = st] /\ c \in Procs
    BY <1>2 DEF StartAndPrepare, Procs
  <2> HIDE DEF st
  <2>6. proc' \in [Procs -> ProcState] /\ ProcShape'
    BY <2>4, <2>5 DEF TypeOK, ProcShape
  <2> QED BY <1>2, <2>1, <2>3, <2>6 DEF StartAndPrepare, TypeOK
<1>3. ASSUME NEW p \in Procs, ReadHeader(p) PROVE StructInv'
  <2>1. proc' \in [Procs -> ProcState] /\ ProcShape'
    <3>1. CASE inst[proc[p].wf].status # "preparing"
      BY <1>3, <3>1, GotoType DEF ReadHeader, AfterPrepare, ProcShape
    <3>2. CASE inst[proc[p].wf].status = "preparing"
      <4>1. PICK c \in Contexts \cup {None} : proc' = [proc EXCEPT ![p].pc = "commit", ![p].ctx = c]
        BY <1>3, <3>2 DEF ReadHeader
      <4>2. proc' \in [Procs -> ProcState]
        BY <4>1, ZenonT(60) DEF TypeOK, ProcState
      <4>3. /\ proc'[p].pc = "commit" /\ proc'[p].wf = proc[p].wf
            /\ \A q \in Procs : q # p => proc'[q] = proc[q]
        BY <4>1 DEF TypeOK, ProcState
      <4> QED BY <4>2, <4>3, <1>3 DEF ReadHeader, ProcShape
    <3> QED BY <3>1, <3>2
  <2> QED BY <2>1, <1>3 DEF ReadHeader, TypeOK, SagaShape, Shape
<1>4. ASSUME NEW p \in Procs, rejectInstance(p) PROVE StructInv'
  <2>0. PICK w \in Instances : w = proc[p].wf
    BY <1>4 DEF rejectInstance, ProcShape
  <2>1. proc' \in [Procs -> ProcState] /\ ProcShape'
    BY <1>4, <2>0, GotoType DEF rejectInstance, AfterPrepare
  <2>2. inst' \in [Instances -> InstanceRow]
    <3>1. [inst EXCEPT ![w].status = "rejected"] \in [Instances -> InstanceRow]
      BY ZenonT(60) DEF TypeOK, InstanceRow, InstanceStatus
    <3> QED BY <3>1, <1>4, <2>0 DEF rejectInstance, TypeOK
  <2>3. SagaShape'
    <3>1. CASE StillPreparing(w)
      <4>1. inst'[w].status = "rejected" /\ inst'[w].cur = inst[w].cur
        BY <1>4, <2>0, <3>1 DEF rejectInstance, TypeOK, InstanceRow
      <4>2. Shape(w)'
        BY <1>4, <2>0, <3>1, <4>1 DEF rejectInstance, StillPreparing, SagaShape, Shape
      <4> QED BY <1>4, <2>0, <4>2, ShapeAt DEF rejectInstance, TypeOK
    <3>2. CASE ~StillPreparing(w)
      BY <1>4, <2>0, <3>2 DEF rejectInstance, SagaShape, Shape
    <3> QED BY <3>1, <3>2
  <2> QED BY <1>4, <2>1, <2>2, <2>3 DEF rejectInstance, TypeOK
<1>5. ASSUME NEW p \in Procs, dispatchFirstAction(p) PROVE StructInv'
  <2>a. PICK w \in Instances : w = proc[p].wf
    BY <1>5 DEF dispatchFirstAction, ProcShape
  <2> DEFINE id == uuid[w] + 1
             c == ForwardCommand(w, 0, id, proc[p].ctx)
  <2>0. w = proc[p].wf /\ proc[p].ctx \in Contexts \cup {None} /\ uuid[w] \in Nat
    BY <2>a DEF TypeOK, ProcState
  <2>1. proc' \in [Procs -> ProcState] /\ ProcShape'
    BY <1>5, <2>0, GotoType DEF dispatchFirstAction, AfterPrepare
  <2>2. CASE ~StillPreparing(w)
    BY <1>5, <2>0, <2>1, <2>2 DEF dispatchFirstAction, TypeOK, SagaShape, Shape
  <2>3. CASE StillPreparing(w)
    <3>1. /\ inst' = [inst EXCEPT ![w].status = "running", ![w].ctx = proc[p].ctx, ![w].cur = 0]
          /\ act' = [act EXCEPT ![w][0] = WaitingRow(id)]
          /\ uuid' = [uuid EXCEPT ![w] = id]
          /\ outbox' = outbox \cup {c} /\ queue' = queue \cup {c}
          /\ UNCHANGED <<results, inbox, retries, faults, holder, overrun>>
      BY <1>5, <2>0, <2>3 DEF dispatchFirstAction, AppendOutbox
    <3>2. c \in Command /\ WaitingRow(id) \in ActionRow /\ WaitingRow(id).status = "waiting_result"
      BY <2>0, IdxFacts DEF ForwardCommand, Command, WaitingRow, ActionRow, ActionStatus
    <3> HIDE DEF c
    <3>a. inst' \in [Instances -> InstanceRow] /\ act' \in [Instances -> [Idx -> ActionRow]]
      <4>1. inst' \in [Instances -> InstanceRow]
        <5>1. /\ DOMAIN inst' = Instances
              /\ \A v \in Instances : v # w => inst'[v] = inst[v]
              /\ inst'[w] = [inst[w] EXCEPT !.status = "running", !.ctx = proc[p].ctx, !.cur = 0]
          BY <3>1 DEF TypeOK, InstanceRow
        <5>2. inst'[w] \in InstanceRow
          <6>1. inst[w] \in InstanceRow
            BY DEF TypeOK
          <6>2. 0 \in Idx
            BY IdxFacts
          <6> QED BY <6>1, <6>2, <5>1, <2>0 DEF InstanceRow, InstanceStatus
        <5> QED BY <3>1, <5>1, <5>2 DEF TypeOK
      <4>2. act' \in [Instances -> [Idx -> ActionRow]]
        BY <3>1, <3>2, IdxFacts DEF TypeOK
      <4> QED BY <4>1, <4>2
    <3>3. TypeOK'
      BY <3>1, <3>2, <3>a, <2>0, <2>1 DEF TypeOK
    <3>4. SagaShape'
      <4>1. inst'[w].status = "running" /\ inst'[w].cur = 0
        BY <3>1, <2>0 DEF TypeOK, InstanceRow
      <4>2. /\ act'[w][0].status = "waiting_result"
            /\ \A i \in Idx : i # 0 => act'[w][i] = act[w][i]
        BY <3>1, <3>2, <2>0, IdxFacts DEF TypeOK
      <4>3. \A i \in Idx : act[w][i].status = "none"
        BY <2>0, <2>3 DEF StillPreparing, SagaShape, Shape
      <4>4. \A i \in Idx : ~(i < 0) /\ (i > 0 => i # 0)
        BY IdxFacts
      <4>5. Shape(w)'
        BY <4>1, <4>2, <4>3, <4>4 DEF Shape
      <4> QED BY <3>1, <2>0, <4>5, ShapeAt DEF TypeOK
    <3> QED BY <3>3, <3>4, <2>1
  <2> QED BY <2>2, <2>3
<1>6. ASSUME NEW r \in results, applyForwardFailure(r) PROVE StructInv'
  <2> DEFINE w == r.wf
             k == inst[w].cur
             row == [act[w][k] EXCEPT !.status = "failed", !.class = r.outcome]
  <2>0. /\ w \in Instances /\ k \in Idx /\ r.idx = k /\ act[w][k] \in ActionRow
        /\ inst[w].status = "running"
        /\ r.outcome \in ErrorClasses
    BY <1>6 DEF applyForwardFailure, ResultAccepted, TypeOK, Result, InstanceRow
  <2>1. row \in ActionRow /\ row.status = "failed"
    BY <2>0 DEF ActionRow, ActionStatus
  <2>2. UNCHANGED <<results, proc, retries, faults, holder, overrun>> /\ inbox' = inbox \cup {r}
    BY <1>6 DEF applyForwardFailure
  <2>3. CASE isTerminalExecutionFailure(r.outcome)
    <3>1. CompensateBelow(w, k, row)
      BY <1>6, <2>3, <2>0 DEF applyForwardFailure
    <3> HIDE DEF row
    <3> QED BY <3>1, <2>0, <2>1, <2>2, CompensateBelowStep DEF TypeOK, ProcShape
  <2>4. CASE ~isTerminalExecutionFailure(r.outcome)
    <3>1. act' = [act EXCEPT ![w][k] = row] /\ UNCHANGED <<inst, uuid, outbox, queue>>
      BY <1>6, <2>4, <2>0 DEF applyForwardFailure
    <3> HIDE DEF row
    <3>2. TypeOK' /\ ProcShape'
      BY <3>1, <2>0, <2>1, <2>2 DEF TypeOK, ProcShape
    <3>3. Shape(w)'
      <4>1. act'[w][k].status = "failed" /\ \A i \in Idx : i # k => act'[w][i] = act[w][i]
        BY <3>1, <2>0, <2>1 DEF TypeOK
      <4>2. \A i \in Idx : i < k \/ i > k => i # k
        BY <2>0, IdxFacts
      <4> QED BY <3>1, <4>1, <4>2, <2>0 DEF SagaShape, Shape
    <3> QED BY <3>1, <3>2, <3>3, <2>0, ShapeAt DEF TypeOK
  <2> QED BY <2>3, <2>4
<1>7. ASSUME NEW r \in results, applyForwardSuccess(r) PROVE StructInv'
  <2> DEFINE w == r.wf
             k == inst[w].cur
             id == uuid[w] + 1
             row == [act[w][k] EXCEPT !.status = "succeeded", !.out = r.cmd]
             c == ForwardCommand(w, k + 1, id, inst[w].ctx)
  <2>0. /\ w \in Instances /\ k \in Idx /\ r.idx = k /\ act[w][k] \in ActionRow
        /\ inst[w].status = "running" /\ uuid[w] \in Nat /\ r.cmd \in Nat
        /\ inst[w].ctx \in Contexts \cup {None}
    BY <1>7 DEF applyForwardSuccess, ResultAccepted, TypeOK, Result, InstanceRow
  <2>1. row \in ActionRow /\ row.status = "succeeded"
    BY <2>0 DEF ActionRow, ActionStatus
  <2>2. UNCHANGED <<results, proc, retries, faults, holder, overrun>> /\ inbox' = inbox \cup {r}
    BY <1>7 DEF applyForwardSuccess
  <2>i. k \in Int /\ \A i \in Idx : i < k \/ i > k => i # k
    BY <2>0, IdxFacts
  <2>s. /\ \A i \in Idx : i < k => act[w][i].status = "succeeded"
        /\ \A i \in Idx : i > k => act[w][i].status = "none"
    BY <2>0 DEF SagaShape, Shape
  <2>3. CASE k + 1 < NumActions
    <3>1. /\ inst' = [inst EXCEPT ![w].cur = k + 1]
          /\ act' = [act EXCEPT ![w][k] = row, ![w][k + 1] = WaitingRow(id)]
          /\ uuid' = [uuid EXCEPT ![w] = id]
          /\ outbox' = outbox \cup {c} /\ queue' = queue \cup {c}
      BY <1>7, <2>3, <2>0 DEF applyForwardSuccess, AppendOutbox
    <3>2. k + 1 \in Idx /\ k + 1 # k
      BY <2>0, <2>3, EngineAssumption DEF Idx
    <3>3. c \in Command /\ WaitingRow(id) \in ActionRow /\ WaitingRow(id).status = "waiting_result"
      BY <2>0, <3>2 DEF ForwardCommand, Command, WaitingRow, ActionRow, ActionStatus
    <3> HIDE DEF row, c
    <3>4. inst' \in [Instances -> InstanceRow] /\ act' \in [Instances -> [Idx -> ActionRow]]
      BY <3>1, <3>2, <3>3, <2>0, <2>1, ZenonT(60) DEF TypeOK, InstanceRow
    <3>5. TypeOK' /\ ProcShape'
      BY <3>1, <3>3, <3>4, <2>0, <2>2 DEF TypeOK, ProcShape
    <3>6. Shape(w)'
      <4>1. inst'[w].status = "running" /\ inst'[w].cur = k + 1
        BY <3>1, <2>0 DEF TypeOK, InstanceRow
      <4>2. /\ act'[w][k].status = "succeeded" /\ act'[w][k + 1].status = "waiting_result"
            /\ \A i \in Idx : i # k /\ i # k + 1 => act'[w][i] = act[w][i]
        BY <3>1, <3>2, <3>3, <2>0, <2>1 DEF TypeOK
      <4>3. \A i \in Idx : i < k + 1 => act'[w][i].status = "succeeded"
        <5> TAKE i \in Idx
        <5>1. i < k + 1 => i = k \/ (i < k /\ i # k /\ i # k + 1)
          BY <2>i, IdxFacts
        <5> QED BY <5>1, <4>2, <2>s
      <4>4. \A i \in Idx : i > k + 1 => act'[w][i].status = "none"
        <5> TAKE i \in Idx
        <5>1. i > k + 1 => i > k /\ i # k /\ i # k + 1
          BY <2>i, IdxFacts
        <5> QED BY <5>1, <4>2, <2>s
      <4> QED BY <4>1, <4>2, <4>3, <4>4 DEF Shape
    <3>7. SagaShape'
      BY <3>1, <3>2, <3>6, <2>0, ShapeAt DEF TypeOK
    <3> QED BY <3>5, <3>7
  <2>4. CASE ~(k + 1 < NumActions)
    <3>1. /\ inst' = [inst EXCEPT ![w].status = "succeeded"]
          /\ act' = [act EXCEPT ![w][k] = row]
          /\ UNCHANGED <<uuid, outbox, queue>>
      BY <1>7, <2>4, <2>0 DEF applyForwardSuccess
    <3> HIDE DEF row
    <3>4. inst' \in [Instances -> InstanceRow] /\ act' \in [Instances -> [Idx -> ActionRow]]
      BY <3>1, <2>0, <2>1, ZenonT(60) DEF TypeOK, InstanceRow, InstanceStatus
    <3>5. TypeOK' /\ ProcShape'
      BY <3>1, <3>4, <2>0, <2>2 DEF TypeOK, ProcShape
    <3>6. Shape(w)'
      <4>1. inst'[w].status = "succeeded"
        BY <3>1, <2>0 DEF TypeOK, InstanceRow
      <4>2. /\ act'[w][k].status = "succeeded"
            /\ \A i \in Idx : i # k => act'[w][i] = act[w][i]
        BY <3>1, <2>0, <2>1 DEF TypeOK
      <4>3. \A i \in Idx : i = k \/ i < k
        BY <2>4, <2>i, EngineAssumption DEF Idx
      <4>4. \A i \in Idx : act'[w][i].status = "succeeded"
        BY <4>2, <4>3, <2>s
      <4> QED BY <4>1, <4>4 DEF Shape
    <3>7. SagaShape'
      BY <3>1, <3>6, <2>0, ShapeAt DEF TypeOK
    <3> QED BY <3>5, <3>7
  <2> QED BY <2>3, <2>4
<1>8. ASSUME NEW r \in results, applyCompensationFailure(r) PROVE StructInv'
  <2> DEFINE w == r.wf
             k == inst[w].cur
  <2>0. /\ w \in Instances /\ k \in Idx /\ r.idx = k /\ act[w][k] \in ActionRow
        /\ inst[w].status = "compensating" /\ r.outcome \in ErrorClasses
    BY <1>8 DEF applyCompensationFailure, ResultAccepted, TypeOK, Result, InstanceRow
  <2>2. UNCHANGED <<results, proc, retries, faults, holder, overrun>> /\ inbox' = inbox \cup {r}
    BY <1>8 DEF applyCompensationFailure
  <2>3. CASE AttemptsExhausted(w)
    <3> DEFINE row == [act[w][k] EXCEPT !.status = "compensation_failed", !.class = r.outcome]
    <3>1. /\ inst' = [inst EXCEPT ![w].status = "compensation_failed"]
          /\ act' = [act EXCEPT ![w][k].status = "compensation_failed", ![w][k].class = r.outcome]
          /\ UNCHANGED <<uuid, outbox, queue>>
      BY <1>8, <2>3, <2>0 DEF applyCompensationFailure
    <3>2. act' = [act EXCEPT ![w][k] = row]
      BY <3>1, <2>0 DEF TypeOK
    <3>3. row \in ActionRow /\ row.status = "compensation_failed"
      BY <2>0 DEF ActionRow, ActionStatus
    <3> HIDE DEF row
    <3>4. inst' \in [Instances -> InstanceRow] /\ act' \in [Instances -> [Idx -> ActionRow]]
      <4>1. inst' \in [Instances -> InstanceRow]
        <5>1. [inst[w] EXCEPT !.status = "compensation_failed"] \in InstanceRow
          BY <2>0 DEF TypeOK, InstanceRow, InstanceStatus
        <5>2. inst' = [inst EXCEPT ![w] = [inst[w] EXCEPT !.status = "compensation_failed"]]
          BY <3>1, <2>0 DEF TypeOK
        <5> QED BY <5>1, <5>2, <2>0 DEF TypeOK
      <4>2. act' \in [Instances -> [Idx -> ActionRow]]
        BY <3>2, <3>3, <2>0 DEF TypeOK
      <4> QED BY <4>1, <4>2
    <3>5. TypeOK' /\ ProcShape'
      BY <3>1, <3>4, <2>2 DEF TypeOK, ProcShape
    <3>6. Shape(w)'
      <4>1. inst'[w].status = "compensation_failed" /\ inst'[w].cur = k
        BY <3>1, <2>0 DEF TypeOK, InstanceRow
      <4>2. /\ act'[w][k].status = "compensation_failed"
            /\ \A i \in Idx : i # k => act'[w][i] = act[w][i]
        BY <3>2, <3>3, <2>0 DEF TypeOK
      <4>3. \A i \in Idx : i < k \/ i > k => i # k
        BY <2>0, IdxFacts
      <4> QED BY <4>1, <4>2, <4>3, <2>0 DEF SagaShape, Shape
    <3>7. SagaShape'
      BY <3>1, <3>2, <3>6, <2>0, ShapeAt DEF TypeOK
    <3> QED BY <3>5, <3>7
  <2>4. CASE ~AttemptsExhausted(w)
    <3>1. CompensateAgain(w)
      BY <1>8, <2>4 DEF applyCompensationFailure
    <3> QED BY <3>1, <2>0, <2>2, CompensateAgainStep DEF TypeOK, ProcShape
  <2> QED BY <2>3, <2>4
<1>9. ASSUME NEW r \in results, applyCompensationSuccess(r) PROVE StructInv'
  <2> DEFINE w == r.wf
             k == inst[w].cur
             row == [act[w][k] EXCEPT !.status = "compensated", !.class = "none"]
  <2>0. /\ w \in Instances /\ k \in Idx /\ r.idx = k /\ act[w][k] \in ActionRow
        /\ inst[w].status = "compensating"
    BY <1>9 DEF applyCompensationSuccess, ResultAccepted, TypeOK, Result, InstanceRow
  <2>1. row \in ActionRow /\ row.status = "compensated"
    BY <2>0 DEF ActionRow, ActionStatus
  <2>2. /\ UNCHANGED <<results, proc, retries, faults, holder, overrun>> /\ inbox' = inbox \cup {r}
        /\ CompensateBelow(w, k, row)
    BY <1>9, <2>0 DEF applyCompensationSuccess
  <2> HIDE DEF row
  <2> QED BY <2>0, <2>1, <2>2, CompensateBelowStep DEF TypeOK, ProcShape
<1>10. ASSUME NEW w \in Instances, RetryCompensation(w) PROVE StructInv'
  <2>1. /\ inst[w].status = "compensation_failed" /\ CompensateAgain(w)
        /\ UNCHANGED <<results, inbox, proc, faults, holder, overrun>>
        /\ retries' = [retries EXCEPT ![w] = @ + 1]
    BY <1>10 DEF RetryCompensation
  <2>2. retries' \in [Instances -> Nat]
    BY <2>1 DEF TypeOK
  <2> QED BY <2>1, <2>2, CompensateAgainStep DEF TypeOK, ProcShape
<1>11. ASSUME NEW w \in Instances, NEW i \in Idx, ResolveCompensation(w, i) PROVE StructInv'
  <2> DEFINE row == [act[w][i] EXCEPT !.status = "compensated", !.class = "none"]
  <2>0. /\ act[w][i] \in ActionRow /\ inst[w].cur \in Idx
        /\ inst[w].status \in {"compensating", "compensation_failed"}
        /\ act[w][i].status \in {"compensating", "compensation_failed"}
    BY <1>11 DEF ResolveCompensation, Resolvable, TypeOK, InstanceRow
  <2>1. i = inst[w].cur
    <3>1. ~(i < inst[w].cur) /\ ~(i > inst[w].cur)
      BY <2>0 DEF SagaShape, Shape
    <3> QED BY <3>1, <2>0, IdxFacts
  <2>2. row \in ActionRow /\ row.status = "compensated"
    BY <2>0 DEF ActionRow, ActionStatus
  <2>3. /\ UNCHANGED <<results, inbox, proc, retries, faults, holder, overrun>>
        /\ CompensateBelow(w, inst[w].cur, row)
    BY <1>11, <2>1 DEF ResolveCompensation
  <2> HIDE DEF row
  <2> QED BY <2>0, <2>2, <2>3, CompensateBelowStep DEF TypeOK, ProcShape
<1>12. ASSUME NEW o \in Workers, ClaimRunnable(o) PROVE StructInv'
  <2>1. PICK ids \in SUBSET Instances :
          /\ inst' = [w \in Instances |->
                        IF w \in ids THEN [inst[w] EXCEPT !.owner = OwnerName[o], !.live = TRUE]
                        ELSE inst[w]]
          /\ holder' = [w \in Instances |-> IF w \in ids THEN o ELSE holder[w]]
          /\ proc' = [proc EXCEPT ![o] = [Idle EXCEPT !.pc = "sweep", !.batch = ids]]
          /\ UNCHANGED <<act, uuid, outbox, queue, results, inbox, retries, faults, overrun>>
    BY <1>12 DEF ClaimRunnable
  <2>2. inst' \in [Instances -> InstanceRow]
    BY <2>1, EngineAssumption, ZenonT(60) DEF TypeOK, InstanceRow
  <2>3. \A w \in Instances : inst'[w].status = inst[w].status /\ inst'[w].cur = inst[w].cur
    BY <2>1 DEF TypeOK, InstanceRow
  <2>4. SagaShape'
    BY <2>1, <2>3, ShapeFrame DEF TypeOK, InstanceRow
  <2>5. holder' \in [Instances -> Workers \cup {None}]
    BY <2>1 DEF TypeOK
  <2> DEFINE st == [Idle EXCEPT !.pc = "sweep", !.batch = ids]
  <2>6. st \in ProcState /\ st.pc = "sweep"
    BY DEF Idle, ProcState
  <2> HIDE DEF st
  <2>7. proc' \in [Procs -> ProcState] /\ ProcShape'
    BY <2>1, <2>6 DEF TypeOK, ProcShape, Procs, st
  <2> QED BY <2>1, <2>2, <2>4, <2>5, <2>7 DEF TypeOK
<1>13. ASSUME NEW o \in Workers, NextInBatch(o) PROVE StructInv'
  <2>0. /\ o \in Procs /\ proc[o] \in ProcState
        /\ UNCHANGED <<inst, act, uuid, outbox, queue, results, inbox, retries, faults, holder, overrun>>
    BY <1>13 DEF NextInBatch, Procs, TypeOK
  <2>1. proc' \in [Procs -> ProcState] /\ ProcShape'
    <3>1. CASE proc' = Goto(o, "idle")
      BY <3>1, <2>0, GotoType
    <3>2. CASE \E w \in proc[o].batch :
                  proc' = [proc EXCEPT ![o].pc = "header", ![o].wf = w, ![o].batch = proc[o].batch \ {w}]
      <4>1. PICK w \in proc[o].batch :
                  proc' = [proc EXCEPT ![o].pc = "header", ![o].wf = w, ![o].batch = proc[o].batch \ {w}]
        BY <3>2
      <4>2. w \in Instances
        BY <2>0 DEF ProcState
      <4>3. proc' \in [Procs -> ProcState]
        BY <4>1, <4>2, <2>0 DEF TypeOK, ProcState
      <4>4. /\ proc'[o].pc = "header" /\ proc'[o].wf = w
            /\ \A q \in Procs : q # o => proc'[q] = proc[q]
        BY <4>1, <2>0 DEF TypeOK, ProcState
      <4> QED BY <4>2, <4>3, <4>4 DEF ProcShape
    <3> QED BY <3>1, <3>2, <1>13 DEF NextInBatch
  <2> QED BY <2>0, <2>1 DEF TypeOK, SagaShape, Shape
<1>14. ASSUME NEW o \in Workers, Redispatch(o) PROVE StructInv'
  <2>0. PICK w \in Instances : w = proc[o].wf
    BY <1>14 DEF Redispatch, ProcShape, Procs
  <2> DEFINE k == inst[w].cur
             c == ForwardCommand(w, k, act[w][k].cmd, inst[w].ctx)
  <2>1. proc' \in [Procs -> ProcState] /\ ProcShape'
    BY <1>14, <2>0, GotoType DEF Redispatch, Procs
  <2>2. /\ k \in Idx /\ act[w][k] \in ActionRow /\ inst[w].ctx \in Contexts \cup {None}
        /\ UNCHANGED <<inst, uuid, results, inbox, retries, faults, holder, overrun>>
    BY <1>14 DEF Redispatch, TypeOK, InstanceRow
  <2>3. CASE ~RedispatchDue(w)
    BY <1>14, <2>0, <2>1, <2>2, <2>3 DEF Redispatch, TypeOK, SagaShape, Shape
  <2>4. CASE RedispatchDue(w)
    <3> DEFINE row == [act[w][k] EXCEPT !.due = FALSE]
    <3>1. act' = [act EXCEPT ![w][k].due = FALSE] /\ outbox' = outbox \cup {c} /\ queue' = queue \cup {c}
      BY <1>14, <2>0, <2>4 DEF Redispatch, AppendOutbox, Cur
    <3>2. act' = [act EXCEPT ![w][k] = row]
      BY <3>1, <2>2 DEF TypeOK
    <3>3. row \in ActionRow /\ row.status = act[w][k].status /\ c \in Command
      BY <2>2 DEF ActionRow, ForwardCommand, Command
    <3> HIDE DEF row, c
    <3>4. act' \in [Instances -> [Idx -> ActionRow]]
      BY <3>2, <3>3, <2>2 DEF TypeOK
    <3>5. TypeOK'
      BY <3>1, <3>3, <3>4, <2>1, <2>2 DEF TypeOK
    <3>6. \A v \in Instances, i \in Idx : act'[v][i].status = act[v][i].status
      BY <3>2, <3>3, <2>2 DEF TypeOK
    <3>7. SagaShape'
      BY <3>6, <2>2, ShapeFrame DEF TypeOK, InstanceRow
    <3> QED BY <3>5, <3>7, <2>1
  <2> QED BY <2>3, <2>4
<1>15. ASSUME NEW o \in Workers, ReleaseLease(o) PROVE StructInv'
  <2>0. PICK w \in Instances : w = proc[o].wf
    BY <1>15 DEF ReleaseLease, ProcShape, Procs
  <2>1. proc' \in [Procs -> ProcState] /\ ProcShape'
    <3>1. proc' = [proc EXCEPT ![o].pc = "sweep", ![o].wf = None] /\ o \in Procs
      BY <1>15 DEF ReleaseLease, Procs
    <3>2. proc' \in [Procs -> ProcState]
      <4>1. [proc[o] EXCEPT !.pc = "sweep", !.wf = None] \in ProcState
        BY <3>1 DEF TypeOK, ProcState
      <4>2. proc' = [proc EXCEPT ![o] = [proc[o] EXCEPT !.pc = "sweep", !.wf = None]]
        BY <3>1 DEF TypeOK
      <4> QED BY <4>1, <4>2 DEF TypeOK
    <3>3. proc'[o].pc = "sweep" /\ \A q \in Procs : q # o => proc'[q] = proc[q]
      BY <3>1 DEF TypeOK, ProcState
    <3> QED BY <3>2, <3>3 DEF ProcShape
  <2>2. UNCHANGED <<act, uuid, outbox, queue, results, inbox, retries, faults, overrun>>
    BY <1>15 DEF ReleaseLease
  <2>3. CASE ~OwnsLease(o, w)
    BY <1>15, <2>0, <2>1, <2>2, <2>3 DEF ReleaseLease, TypeOK, SagaShape, Shape
  <2>4. CASE OwnsLease(o, w)
    <3>1. inst' = [inst EXCEPT ![w].owner = None, ![w].live = FALSE] /\ holder' = [holder EXCEPT ![w] = None]
      BY <1>15, <2>0, <2>4 DEF ReleaseLease
    <3>2. inst' \in [Instances -> InstanceRow] /\ holder' \in [Instances -> Workers \cup {None}]
      BY <3>1, ZenonT(60) DEF TypeOK, InstanceRow
    <3>3. \A v \in Instances : inst'[v].status = inst[v].status /\ inst'[v].cur = inst[v].cur
      BY <3>1 DEF TypeOK, InstanceRow
    <3>4. SagaShape'
      BY <3>3, <2>2, ShapeFrame DEF TypeOK, InstanceRow
    <3> QED BY <3>2, <3>4, <2>1, <2>2 DEF TypeOK
  <2> QED BY <2>3, <2>4
<1>16. ASSUME NEW p \in Procs, StepError(p) \/ Crash(p) PROVE StructInv'
  <2>1. /\ faults' = faults + 1
        /\ UNCHANGED <<inst, act, uuid, outbox, queue, results, inbox, retries, holder, overrun>>
    BY <1>16 DEF StepError, Crash
  <2>2. proc' \in [Procs -> ProcState] /\ ProcShape'
    <3>1. CASE Crash(p)
      <4>1. proc' = Goto(p, "idle")
        BY <3>1 DEF Crash
      <4> QED BY <4>1, GotoType
    <3>2. CASE StepError(p)
      <4>1. proc[p].wf \in Instances
        BY <3>2 DEF StepError, ProcShape
      <4>2. CASE p \in Workers
        <5>1. proc' = Goto(p, "release")
          BY <3>2, <4>2 DEF StepError
        <5> QED BY <4>1, <4>2, <5>1, GotoType
      <4>3. CASE p \notin Workers
        <5>1. proc' = Goto(p, "idle")
          BY <3>2, <4>3 DEF StepError
        <5> QED BY <5>1, GotoType
      <4> QED BY <4>2, <4>3
    <3> QED BY <3>1, <3>2, <1>16
  <2> QED BY <2>1, <2>2 DEF TypeOK, SagaShape, Shape
<1>17. ASSUME NEW w \in Instances, DeadlinePasses(w) PROVE StructInv'
  <2> DEFINE k == inst[w].cur
             row == [act[w][k] EXCEPT !.due = TRUE]
  <2>1. /\ k \in Idx /\ act[w][k] \in ActionRow /\ act' = [act EXCEPT ![w][k].due = TRUE]
        /\ UNCHANGED <<inst, uuid, outbox, queue, results, inbox, proc, retries, faults, holder, overrun>>
    BY <1>17 DEF DeadlinePasses, TypeOK, InstanceRow
  <2>2. act' = [act EXCEPT ![w][k] = row] /\ row \in ActionRow /\ row.status = act[w][k].status
    BY <2>1 DEF TypeOK, ActionRow
  <2> HIDE DEF row
  <2>3. act' \in [Instances -> [Idx -> ActionRow]]
    BY <2>1, <2>2 DEF TypeOK
  <2>4. \A v \in Instances, i \in Idx : act'[v][i].status = act[v][i].status
    BY <2>1, <2>2 DEF TypeOK
  <2>5. SagaShape'
    BY <2>1, <2>4, ShapeFrame DEF TypeOK, InstanceRow
  <2> QED BY <2>1, <2>3, <2>5 DEF TypeOK, ProcShape
<1>18. ASSUME NEW w \in Instances, LeaseExpires(w) PROVE StructInv'
  <2>1. /\ inst' = [inst EXCEPT ![w].live = FALSE]
        /\ UNCHANGED <<act, uuid, outbox, queue, results, inbox, proc, retries, faults, holder>>
        /\ overrun' \in {overrun, overrun \cup {w}}
    BY <1>18 DEF LeaseExpires
  <2>2. inst' \in [Instances -> InstanceRow]
    BY <2>1 DEF TypeOK, InstanceRow
  <2>3. \A v \in Instances : inst'[v].status = inst[v].status /\ inst'[v].cur = inst[v].cur
    BY <2>1 DEF TypeOK, InstanceRow
  <2>4. SagaShape'
    BY <2>1, <2>3, ShapeFrame DEF TypeOK, InstanceRow
  <2> QED BY <2>1, <2>2, <2>4 DEF TypeOK, ProcShape
<1>19. ASSUME NEW c \in queue, LoseCommand(c) PROVE StructInv'
  BY <1>19 DEF LoseCommand, TypeOK, ProcShape, SagaShape, Shape
<1>20. ASSUME NEW c \in queue, NEW o \in Classes \cup {"ok"}, ParticipantReply(c, o) PROVE StructInv'
  <2> DEFINE sent == {r \in results : r.wf = c.wf /\ r.cmd = c.cmd}
             new == [wf |-> c.wf, idx |-> c.idx, dir |-> c.dir, cmd |-> c.cmd,
                     n |-> Cardinality(sent) + 1, outcome |-> o]
  <2>1. /\ results' = results \cup {new} /\ queue' = queue \ {c}
        /\ UNCHANGED <<inst, act, uuid, outbox, inbox, proc, retries, faults, holder, overrun>>
    BY <1>20 DEF ParticipantReply
  <2>2. Cardinality(sent) \in Nat
    BY FS_Subset, FS_CardinalityType
  <2>3. c \in Command /\ o \in ErrorClasses \cup {"ok"}
    BY EngineAssumption DEF TypeOK
  <2>4. new \in Result
    BY <2>2, <2>3 DEF Command, Result
  <2> HIDE DEF new
  <2> QED BY <2>1, <2>4 DEF TypeOK, ProcShape, SagaShape, Shape
<1>21. ASSUME NEW c \in outbox, Redeliver(c) PROVE StructInv'
  BY <1>21 DEF Redeliver, TypeOK, ProcShape, SagaShape, Shape
<1>22. CASE UNCHANGED vars
  BY <1>22 DEF vars, TypeOK, ProcShape, SagaShape, Shape
<1> QED
  BY <1>1, <1>2, <1>3, <1>4, <1>5, <1>6, <1>7, <1>8, <1>9, <1>10, <1>11, <1>12, <1>13, <1>14, <1>15,
     <1>16, <1>17, <1>18, <1>19, <1>20, <1>21, <1>22
     DEF Next, Prepare, Recovery, ApplyResult, Environment

\* Types and shape hold at the start.
LEMMA StructInit == Init => StructInv /\ IsFiniteSet(results)
<1> SUFFICES ASSUME Init PROVE StructInv /\ IsFiniteSet(results)
  OBVIOUS
<1>1. NoInstance \in InstanceRow /\ NoAction \in ActionRow /\ Idle \in ProcState
  BY IdxFacts DEF NoInstance, NoAction, Idle, InstanceRow, ActionRow, ProcState, InstanceStatus, ActionStatus
<1>2. TypeOK
  BY <1>1 DEF Init, TypeOK
<1>3. ProcShape
  BY DEF Init, ProcShape, Idle
<1>4. SagaShape
  BY DEF Init, SagaShape, Shape, NoInstance, NoAction
<1> QED BY <1>2, <1>3, <1>4, FS_EmptySet DEF Init, StructInv

\* A step adds finitely many results.
LEMMA FiniteStep == ASSUME IsFiniteSet(results), [Next]_vars PROVE IsFiniteSet(results')
<1>1. ASSUME NEW c, NEW o, ParticipantReply(c, o) PROVE IsFiniteSet(results')
  BY <1>1, FS_AddElement DEF ParticipantReply
<1>2. UNCHANGED results \/ \E c, o : ParticipantReply(c, o)
  BY DEF Next, vars, Start, StartAndPrepare, Prepare, ReadHeader, rejectInstance, dispatchFirstAction, StepError,
         Crash, Recovery, ClaimRunnable, NextInBatch, Redispatch, ReleaseLease, ApplyResult, applyForwardFailure,
         applyForwardSuccess, applyCompensationFailure, applyCompensationSuccess, RetryCompensation,
         ResolveCompensation, Environment, DeadlinePasses, LeaseExpires, LoseCommand, Redeliver
<1> QED BY <1>1, <1>2

\* Type correctness and the shape of every saga, for any number of instances,
\* actions, workers and operators: whatever interleaving of results, recovery
\* and operators, a running instance has exactly its first actions succeeded
\* and a compensating one exactly its first actions left to undo.
THEOREM EngineStructure == Spec => [](TypeOK /\ SagaShape)
<1> DEFINE I == StructInv /\ IsFiniteSet(results)
<1>1. Init => I
  BY StructInit
<1>2. I /\ [Next]_vars => I'
  BY StructStep, FiniteStep
<1>3. I => TypeOK /\ SagaShape
  BY DEF StructInv
<1> QED BY <1>1, <1>2, <1>3, PTL DEF Spec
---------------------------------------------------------------------------
(***************************************************************************)
(* What a step does to the saga of one instance, action by action of the   *)
(* code but without leases, processes, deadlines and the broker.  Every    *)
(* step of the engine is one of these (StepEffect), and what follows is    *)
(* proved from them.                                                       *)
(***************************************************************************)

\* Row i of instance w after the step.
RowIs(w, i, s, d, id, o) ==
    /\ act'[w][i].status = s /\ act'[w][i].dir = d
    /\ act'[w][i].cmd = id /\ act'[w][i].out = o

\* Status, position and context of instance w after the step.
InstIs(w, s, k) == inst'[w].status = s /\ inst'[w].cur = k

\* Only instance w changed.
OnlyInst(w) ==
    /\ w \in Instances /\ results' = results
    /\ \A v \in Instances : v # w => inst'[v] = inst[v] /\ act'[v] = act[v] /\ uuid'[v] = uuid[v]

RowsKept(w, S) == \A i \in Idx \ S : act'[w][i] = act[w][i]

\* A command with a fresh CommandID, or none.
Sent(w, c) ==
    /\ uuid'[w] = uuid[w] + 1
    /\ outbox' = outbox \cup {c}
    /\ inst'[w].ctx = inst[w].ctx

NothingSent(w) == uuid'[w] = uuid[w] /\ outbox' = outbox /\ inst'[w].ctx = inst[w].ctx

\* A result event of the current command was applied, and its action was open.
Applied(w) ==
    /\ Cur(w).status \in {"waiting_result", "compensating"}
    /\ \E r \in results \ inbox : /\ r.wf = w /\ r.cmd = Cur(w).cmd
                                  /\ inbox' = inbox \cup {r}

\* Nothing but leases, processes, deadlines and the broker, and the creation
\* or rejection of instances.
QuietEffect ==
    /\ results' = results /\ outbox' = outbox /\ inbox' = inbox
    /\ \A u, v \in Instances :
          inst'[u].status # inst[u].status /\ inst'[v].status # inst[v].status => u = v
    /\ \A v \in Instances :
          /\ inst'[v].cur = inst[v].cur /\ inst'[v].ctx = inst[v].ctx /\ uuid'[v] = uuid[v]
          /\ \/ inst'[v].status = inst[v].status
             \/ inst[v].status = "absent" /\ inst'[v].status = "preparing"
             \/ inst[v].status = "preparing" /\ inst'[v].status = "rejected"
          /\ \A i \in Idx : RowIs(v, i, act[v][i].status, act[v][i].dir, act[v][i].cmd, act[v][i].out)
          /\ inst[v].status \in {"succeeded", "rejected", "compensated"} => act'[v] = act[v]

ReplyEffect ==
    /\ inst' = inst /\ act' = act /\ uuid' = uuid /\ outbox' = outbox /\ inbox' = inbox
    /\ \E c \in outbox, r \in Result : /\ r.wf = c.wf /\ r.cmd = c.cmd
                                       /\ results' = results \cup {r}

BeginEffect(w) ==
    /\ OnlyInst(w) /\ inbox' = inbox
    /\ inst[w].status = "preparing" /\ InstIs(w, "running", 0)
    /\ RowIs(w, 0, "waiting_result", "forward", uuid[w] + 1, 0) /\ RowsKept(w, {0})
    /\ uuid'[w] = uuid[w] + 1
    /\ outbox' = outbox \cup {ForwardCommand(w, 0, uuid[w] + 1, inst'[w].ctx)}

RedispatchEffect(w) ==
    LET k == inst[w].cur
    IN  /\ OnlyInst(w) /\ inbox' = inbox
        /\ inst[w].status = "running" /\ Cur(w).status = "waiting_result"
        /\ inst' = inst /\ uuid' = uuid
        /\ RowIs(w, k, Cur(w).status, Cur(w).dir, Cur(w).cmd, Cur(w).out) /\ RowsKept(w, {k})
        /\ outbox' = outbox \cup {ForwardCommand(w, k, Cur(w).cmd, inst[w].ctx)}

FailEffect(w) ==
    LET k == inst[w].cur
    IN  /\ OnlyInst(w) /\ Applied(w) /\ NothingSent(w)
        /\ inst[w].status = "running" /\ Cur(w).status = "waiting_result"
        /\ InstIs(w, "running", k)
        /\ RowIs(w, k, "failed", Cur(w).dir, Cur(w).cmd, Cur(w).out) /\ RowsKept(w, {k})

AdvanceEffect(w) ==
    LET k == inst[w].cur
        id == uuid[w] + 1
    IN  /\ OnlyInst(w) /\ Applied(w)
        /\ inst[w].status = "running" /\ Cur(w).status = "waiting_result"
        /\ k + 1 \in Idx /\ InstIs(w, "running", k + 1)
        /\ RowIs(w, k, "succeeded", Cur(w).dir, Cur(w).cmd, Cur(w).cmd)
        /\ RowIs(w, k + 1, "waiting_result", "forward", id, 0) /\ RowsKept(w, {k, k + 1})
        /\ Sent(w, ForwardCommand(w, k + 1, id, inst[w].ctx))

FinishEffect(w) ==
    LET k == inst[w].cur
    IN  /\ OnlyInst(w) /\ Applied(w) /\ NothingSent(w)
        /\ inst[w].status = "running" /\ Cur(w).status = "waiting_result"
        /\ k + 1 = NumActions /\ InstIs(w, "succeeded", k)
        /\ RowIs(w, k, "succeeded", Cur(w).dir, Cur(w).cmd, Cur(w).cmd) /\ RowsKept(w, {k})

GiveUpEffect(w) ==
    LET k == inst[w].cur
    IN  /\ OnlyInst(w) /\ Applied(w) /\ NothingSent(w)
        /\ inst[w].status = "compensating" /\ Cur(w).status = "compensating"
        /\ InstIs(w, "compensation_failed", k)
        /\ RowIs(w, k, "compensation_failed", Cur(w).dir, Cur(w).cmd, Cur(w).out) /\ RowsKept(w, {k})

AgainEffect(w) ==
    LET k == inst[w].cur
        id == uuid[w] + 1
    IN  /\ OnlyInst(w)
        /\ inst[w].status \in {"compensating", "compensation_failed"}
        /\ InstIs(w, "compensating", k)
        /\ RowIs(w, k, "compensating", "compensation", id, Cur(w).out) /\ RowsKept(w, {k})
        /\ Sent(w, CompensationCommand(w, k, id))
        /\ \/ Applied(w) /\ inst[w].status = "compensating"
           \/ inbox' = inbox

\* The row a walk leaves behind: a forward action that failed for good, or a
\* compensated one.
LeftBehind(w, s) ==
    \/ /\ inst[w].status = "running" /\ s = "failed"
       /\ Cur(w).status = "waiting_result" /\ Applied(w)
    \/ /\ inst[w].status \in {"compensating", "compensation_failed"} /\ s = "compensated"
       /\ (Applied(w) \/ inbox' = inbox)

UndoneEffect(w, s) ==
    LET k == inst[w].cur
    IN  /\ OnlyInst(w) /\ LeftBehind(w, s) /\ NothingSent(w)
        /\ k = 0 /\ InstIs(w, "compensated", k)
        /\ RowIs(w, k, s, Cur(w).dir, Cur(w).cmd, Cur(w).out) /\ RowsKept(w, {k})

UndoEffect(w, s) ==
    LET k == inst[w].cur
        t == k - 1
        id == uuid[w] + 1
    IN  /\ OnlyInst(w) /\ LeftBehind(w, s)
        /\ t \in Idx /\ InstIs(w, "compensating", t)
        /\ RowIs(w, k, s, Cur(w).dir, Cur(w).cmd, Cur(w).out)
        /\ RowIs(w, t, "compensating", "compensation", id, act[w][t].out) /\ RowsKept(w, {k, t})
        /\ Sent(w, CompensationCommand(w, t, id))

StepEffects ==
    \/ QuietEffect \/ ReplyEffect
    \/ \E w \in Instances :
          \/ BeginEffect(w) \/ RedispatchEffect(w) \/ FailEffect(w) \/ AdvanceEffect(w)
          \/ FinishEffect(w) \/ GiveUpEffect(w) \/ AgainEffect(w)
          \/ \E s \in {"failed", "compensated"} : UndoneEffect(w, s) \/ UndoEffect(w, s)

\* Two rows of act change at most.
LEMMA TwoRows ==
    ASSUME TypeOK, NEW w \in Instances, NEW i \in Idx, NEW j \in Idx, NEW a \in ActionRow, NEW b \in ActionRow,
           i # j, act' = [act EXCEPT ![w][i] = a, ![w][j] = b]
    PROVE  /\ act'[w][i] = a /\ act'[w][j] = b
           /\ \A n \in Idx : n # i /\ n # j => act'[w][n] = act[w][n]
           /\ \A v \in Instances : v # w => act'[v] = act[v]
BY DEF TypeOK

\* One row of act changes.
LEMMA OneRow ==
    ASSUME TypeOK, NEW w \in Instances, NEW i \in Idx, NEW a \in ActionRow, act' = [act EXCEPT ![w][i] = a]
    PROVE  /\ act'[w][i] = a
           /\ \A n \in Idx : n # i => act'[w][n] = act[w][n]
           /\ \A v \in Instances : v # w => act'[v] = act[v]
BY DEF TypeOK

\* The walk of CompensateBelow from the current action.
LEMMA CompensateBelowEffect ==
    ASSUME StructInv, NEW w \in Instances, NEW row \in ActionRow,
           inst[w].status \in {"running", "compensating", "compensation_failed"},
           row.status \in {"failed", "compensated"}, row.dir = Cur(w).dir, row.cmd = Cur(w).cmd,
           row.out = Cur(w).out, LeftBehind(w, row.status), results' = results,
           CompensateBelow(w, inst[w].cur, row)
    PROVE  UndoneEffect(w, row.status) \/ UndoEffect(w, row.status)
<1> DEFINE k == inst[w].cur
<1>t. k \in Idx /\ act[w][k] \in ActionRow /\ uuid[w] \in Nat /\ inst[w] \in InstanceRow /\ TypeOK
  BY DEF StructInv, TypeOK, InstanceRow
<1>i. k \in Int /\ k >= 0
  BY <1>t, IdxFacts
<1>l. lastSucceededBefore(w, k) = k - 1
  BY <1>t, LastSucceeded DEF StructInv, SagaShape, Shape
<1>1. CASE k = 0
  <2>1. /\ inst' = [inst EXCEPT ![w].status = "compensated"]
        /\ act' = [act EXCEPT ![w][k] = row]
        /\ UNCHANGED <<uuid, outbox, queue>>
    BY <1>1, <1>l DEF CompensateBelow
  <2>2. /\ InstIs(w, "compensated", k) /\ inst'[w].ctx = inst[w].ctx
        /\ \A v \in Instances : v # w => inst'[v] = inst[v]
    BY <2>1, <1>t DEF TypeOK, InstanceRow, InstIs
  <2>3. /\ RowIs(w, k, row.status, Cur(w).dir, Cur(w).cmd, Cur(w).out) /\ RowsKept(w, {k})
        /\ \A v \in Instances : v # w => act'[v] = act[v]
    <3>1. /\ act'[w][k] = row
          /\ \A n \in Idx : n # k => act'[w][n] = act[w][n]
          /\ \A v \in Instances : v # w => act'[v] = act[v]
      BY <2>1, <1>t, OneRow
    <3> QED BY <3>1 DEF RowIs, RowsKept
  <2> QED BY <2>1, <2>2, <2>3, <1>1 DEF UndoneEffect, OnlyInst, NothingSent
<1>2. CASE k # 0
  <2> DEFINE t == k - 1
             id == uuid[w] + 1
             new == CompensatingRow(act[w][t], id, 1)
             c == CompensationCommand(w, t, id)
  <2>0. t \in Idx /\ t < k /\ t >= 0 /\ t # k
    BY <1>2, <1>t, EngineAssumption DEF Idx
  <2>1. /\ inst' = [inst EXCEPT ![w].status = "compensating", ![w].cur = t]
        /\ act' = [act EXCEPT ![w][k] = row, ![w][t] = new]
        /\ uuid' = [uuid EXCEPT ![w] = id]
        /\ outbox' = outbox \cup {c}
    BY <2>0, <1>l, <1>i DEF CompensateBelow, AppendOutbox
  <2>a. act[w][t] \in ActionRow
    BY <2>0 DEF StructInv, TypeOK
  <2>2. /\ new \in ActionRow /\ new.status = "compensating" /\ new.dir = "compensation"
        /\ new.cmd = id /\ new.out = act[w][t].out
    BY <2>a, <1>t DEF CompensatingRow, ActionRow, ActionStatus
  <2> HIDE DEF new, c
  <2>3. /\ InstIs(w, "compensating", t) /\ inst'[w].ctx = inst[w].ctx
        /\ \A v \in Instances : v # w => inst'[v] = inst[v]
    BY <2>1, <1>t DEF TypeOK, InstanceRow, InstIs
  <2>4. /\ RowIs(w, k, row.status, Cur(w).dir, Cur(w).cmd, Cur(w).out)
        /\ RowIs(w, t, "compensating", "compensation", id, act[w][t].out) /\ RowsKept(w, {k, t})
        /\ \A v \in Instances : v # w => act'[v] = act[v]
    <3>1. /\ act'[w][k] = row /\ act'[w][t] = new
          /\ \A n \in Idx : n # k /\ n # t => act'[w][n] = act[w][n]
          /\ \A v \in Instances : v # w => act'[v] = act[v]
      BY <2>0, <2>1, <2>2, <1>t, TwoRows
    <3> QED BY <3>1, <2>2 DEF RowIs, RowsKept
  <2>5. uuid'[w] = id /\ \A v \in Instances : v # w => uuid'[v] = uuid[v]
    BY <2>1, <1>t DEF TypeOK
  <2>6. OnlyInst(w) /\ Sent(w, c)
    BY <2>1, <2>3, <2>4, <2>5 DEF OnlyInst, Sent
  <2> QED BY <2>0, <2>3, <2>4, <2>6 DEF UndoEffect, c
<1> QED BY <1>1, <1>2

\* Dispatching a compensation again.
LEMMA CompensateAgainEffect ==
    ASSUME StructInv, NEW w \in Instances,
           inst[w].status \in {"compensating", "compensation_failed"}, results' = results,
           (Applied(w) /\ inst[w].status = "compensating") \/ inbox' = inbox,
           CompensateAgain(w)
    PROVE  AgainEffect(w)
<1> DEFINE k == inst[w].cur
           id == uuid[w] + 1
           new == CompensatingRow(act[w][k], id, act[w][k].attempt + 1)
           c == CompensationCommand(w, k, id)
<1>t. k \in Idx /\ act[w][k] \in ActionRow /\ uuid[w] \in Nat /\ inst[w] \in InstanceRow /\ TypeOK
  BY DEF StructInv, TypeOK, InstanceRow
<1>1. /\ inst' = [inst EXCEPT ![w].status = "compensating"]
      /\ act' = [act EXCEPT ![w][k] = new]
      /\ uuid' = [uuid EXCEPT ![w] = id]
      /\ outbox' = outbox \cup {c}
  BY DEF CompensateAgain, AppendOutbox
<1>2. /\ new \in ActionRow /\ new.status = "compensating" /\ new.dir = "compensation"
      /\ new.cmd = id /\ new.out = act[w][k].out
  BY <1>t DEF CompensatingRow, ActionRow, ActionStatus
<1> HIDE DEF new, c
<1>3. /\ InstIs(w, "compensating", k) /\ inst'[w].ctx = inst[w].ctx
      /\ \A v \in Instances : v # w => inst'[v] = inst[v]
  BY <1>1, <1>t DEF TypeOK, InstanceRow, InstIs
<1>4. /\ RowIs(w, k, "compensating", "compensation", id, Cur(w).out) /\ RowsKept(w, {k})
      /\ \A v \in Instances : v # w => act'[v] = act[v]
  <2>1. /\ act'[w][k] = new
        /\ \A n \in Idx : n # k => act'[w][n] = act[w][n]
        /\ \A v \in Instances : v # w => act'[v] = act[v]
    BY <1>1, <1>2, <1>t, OneRow
  <2> QED BY <2>1, <1>2 DEF RowIs, RowsKept, Cur
<1>5. uuid'[w] = id /\ \A v \in Instances : v # w => uuid'[v] = uuid[v]
  BY <1>1, <1>t DEF TypeOK
<1>6. OnlyInst(w) /\ Sent(w, c)
  BY <1>1, <1>3, <1>4, <1>5 DEF OnlyInst, Sent
<1> QED BY <1>3, <1>4, <1>6 DEF AgainEffect, c

\* A step of leases, processes and the broker.
LEMMA QuietFrame ==
    ASSUME UNCHANGED <<act, uuid, outbox, results, inbox>>,
           \A v \in Instances : /\ inst'[v].status = inst[v].status
                                /\ inst'[v].cur = inst[v].cur /\ inst'[v].ctx = inst[v].ctx
    PROVE  QuietEffect
BY DEF QuietEffect, RowIs

\* Every step of the engine, of recovery, of operators and of the environment
\* has one of the effects above.
LEMMA StepEffect ==
    ASSUME StructInv, IsFiniteSet(results), [Next]_vars
    PROVE  StepEffects
<1>t. TypeOK
  BY DEF StructInv
<1>1. ASSUME NEW w \in Instances, inst[w].status = "absent", inst' = [inst EXCEPT ![w].status = "preparing"],
             UNCHANGED <<act, uuid, outbox, results, inbox>>
      PROVE  StepEffects
  BY <1>1 DEF StepEffects, QuietEffect, RowIs, StructInv, TypeOK, InstanceRow
<1>2. ASSUME NEW w \in Instances, Start(w) PROVE StepEffects
  BY <1>2, <1>1 DEF Start
<1>3. ASSUME NEW c \in Callers, NEW w \in Instances, StartAndPrepare(c, w) PROVE StepEffects
  BY <1>3, <1>1 DEF StartAndPrepare
<1>4. ASSUME UNCHANGED <<inst, act, uuid, outbox, results, inbox>> PROVE StepEffects
  BY <1>4, QuietFrame DEF StepEffects
<1>5. ASSUME NEW p \in Procs, ReadHeader(p) \/ StepError(p) \/ Crash(p) PROVE StepEffects
  BY <1>5, <1>4 DEF ReadHeader, StepError, Crash
<1>6. ASSUME NEW p \in Procs, rejectInstance(p) PROVE StepEffects
  <2>0. PICK w \in Instances : w = proc[p].wf
    BY <1>6 DEF rejectInstance, StructInv, ProcShape
  <2>1. CASE StillPreparing(w)
    <3>1. /\ inst' = [inst EXCEPT ![w].status = "rejected"] /\ inst[w].status = "preparing"
          /\ UNCHANGED <<act, uuid, outbox, results, inbox>>
      BY <1>6, <2>0, <2>1 DEF rejectInstance, StillPreparing
    <3> QED BY <3>1 DEF StepEffects, QuietEffect, RowIs, StructInv, TypeOK, InstanceRow
  <2>2. CASE ~StillPreparing(w)
    BY <1>6, <2>0, <2>2, <1>4 DEF rejectInstance
  <2> QED BY <2>1, <2>2
<1>7. ASSUME NEW p \in Procs, dispatchFirstAction(p) PROVE StepEffects
  <2>0. PICK w \in Instances : w = proc[p].wf
    BY <1>7 DEF dispatchFirstAction, StructInv, ProcShape
  <2> DEFINE id == uuid[w] + 1
             new == WaitingRow(id)
             x == proc[p].ctx
  <2>1. CASE ~StillPreparing(w)
    BY <1>7, <2>0, <2>1, <1>4 DEF dispatchFirstAction
  <2>2. CASE StillPreparing(w)
    <3>1. /\ inst' = [inst EXCEPT ![w].status = "running", ![w].ctx = x, ![w].cur = 0]
          /\ act' = [act EXCEPT ![w][0] = new]
          /\ uuid' = [uuid EXCEPT ![w] = id]
          /\ outbox' = outbox \cup {ForwardCommand(w, 0, id, x)}
          /\ UNCHANGED <<results, inbox>> /\ inst[w].status = "preparing"
      BY <1>7, <2>0, <2>2 DEF dispatchFirstAction, AppendOutbox, StillPreparing
    <3>2. /\ new \in ActionRow /\ new.status = "waiting_result" /\ new.dir = "forward"
          /\ new.cmd = id /\ new.out = 0
      BY DEF WaitingRow, ActionRow, ActionStatus, StructInv, TypeOK
    <3> HIDE DEF new, x
    <3>3. /\ InstIs(w, "running", 0) /\ inst'[w].ctx = x
          /\ \A v \in Instances : v # w => inst'[v] = inst[v]
      BY <3>1, <1>t DEF TypeOK, InstanceRow, InstIs
    <3>4. /\ act'[w][0] = new
          /\ \A n \in Idx : n # 0 => act'[w][n] = act[w][n]
          /\ \A v \in Instances : v # w => act'[v] = act[v]
      BY <3>1, <3>2, <1>t, IdxFacts, OneRow
    <3>5. uuid'[w] = id /\ \A v \in Instances : v # w => uuid'[v] = uuid[v]
      BY <3>1, <1>t DEF TypeOK
    <3>6. RowIs(w, 0, "waiting_result", "forward", id, 0) /\ RowsKept(w, {0}) /\ OnlyInst(w)
      BY <3>1, <3>2, <3>3, <3>4, <3>5 DEF RowIs, RowsKept, OnlyInst
    <3>7. BeginEffect(w)
      BY <3>1, <3>3, <3>5, <3>6 DEF BeginEffect
    <3> QED BY <3>7 DEF StepEffects
  <2> QED BY <2>1, <2>2
<1>r. ASSUME NEW r \in results, ResultAccepted(r)
      PROVE  /\ r.wf \in Instances /\ r.cmd = Cur(r.wf).cmd /\ r.idx = inst[r.wf].cur /\ r \notin inbox
             /\ inst[r.wf].cur \in Idx /\ Cur(r.wf) \in ActionRow
             /\ uuid[r.wf] \in Nat /\ r.cmd \in Nat /\ r.outcome \in ErrorClasses \cup {"ok"}
  BY <1>r DEF ResultAccepted, StructInv, TypeOK, Result, InstanceRow, Cur
<1>8. ASSUME NEW r \in results, applyForwardFailure(r) PROVE StepEffects
  <2> DEFINE w == r.wf
             k == inst[w].cur
             row == [act[w][k] EXCEPT !.status = "failed", !.class = r.outcome]
  <2>0. /\ w \in Instances /\ k \in Idx /\ act[w][k] \in ActionRow /\ r.idx = k
        /\ Cur(w) = act[w][k] /\ r.outcome \in ErrorClasses
    BY <1>8, <1>r DEF applyForwardFailure, Cur
  <2>1. /\ row \in ActionRow /\ row.status = "failed" /\ row.dir = Cur(w).dir /\ row.cmd = Cur(w).cmd
        /\ row.out = Cur(w).out
    BY <2>0 DEF ActionRow, ActionStatus
  <2>2. /\ results' = results /\ inst[w].status = "running" /\ Cur(w).status = "waiting_result" /\ Applied(w)
    BY <1>8, <1>r DEF applyForwardFailure, Applied
  <2>3. CASE isTerminalExecutionFailure(r.outcome)
    <3>1. CompensateBelow(w, k, row)
      BY <1>8, <2>3, <2>0 DEF applyForwardFailure
    <3>2. LeftBehind(w, row.status)
      BY <2>1, <2>2 DEF LeftBehind
    <3> HIDE DEF row
    <3>3. UndoneEffect(w, row.status) \/ UndoEffect(w, row.status)
      BY <3>1, <3>2, <2>0, <2>1, <2>2, CompensateBelowEffect
    <3> QED BY <3>3, <2>0, <2>1 DEF StepEffects
  <2>4. CASE ~isTerminalExecutionFailure(r.outcome)
    <3>1. act' = [act EXCEPT ![w][k] = row] /\ UNCHANGED <<inst, uuid, outbox>>
      BY <1>8, <2>4, <2>0 DEF applyForwardFailure
    <3> HIDE DEF row
    <3>2. /\ act'[w][k] = row
          /\ \A n \in Idx : n # k => act'[w][n] = act[w][n]
          /\ \A v \in Instances : v # w => act'[v] = act[v]
      BY <3>1, <2>0, <2>1, <1>t, OneRow
    <3>3. RowIs(w, k, "failed", Cur(w).dir, Cur(w).cmd, Cur(w).out) /\ RowsKept(w, {k})
      BY <3>2, <2>1 DEF RowIs, RowsKept
    <3>4. OnlyInst(w) /\ NothingSent(w) /\ InstIs(w, "running", k)
      BY <3>1, <3>2, <2>0, <2>2 DEF OnlyInst, NothingSent, InstIs
    <3>5. FailEffect(w)
      BY <3>3, <3>4, <2>2 DEF FailEffect
    <3> QED BY <3>5, <2>0 DEF StepEffects
  <2> QED BY <2>3, <2>4
<1>9. ASSUME NEW r \in results, applyForwardSuccess(r) PROVE StepEffects
  <2> DEFINE w == r.wf
             k == inst[w].cur
             id == uuid[w] + 1
             row == [act[w][k] EXCEPT !.status = "succeeded", !.out = r.cmd]
             new == WaitingRow(id)
             c == ForwardCommand(w, k + 1, id, inst[w].ctx)
  <2>0. /\ w \in Instances /\ k \in Idx /\ act[w][k] \in ActionRow /\ r.idx = k
        /\ Cur(w) = act[w][k] /\ uuid[w] \in Nat /\ r.cmd = Cur(w).cmd /\ r.cmd \in Nat
    BY <1>9, <1>r DEF applyForwardSuccess, Cur
  <2>1. /\ row \in ActionRow /\ row.status = "succeeded" /\ row.dir = Cur(w).dir /\ row.cmd = Cur(w).cmd
        /\ row.out = Cur(w).cmd
    BY <2>0 DEF ActionRow, ActionStatus
  <2>2. /\ results' = results /\ inst[w].status = "running" /\ Cur(w).status = "waiting_result" /\ Applied(w)
    BY <1>9, <1>r DEF applyForwardSuccess, Applied
  <2>3. CASE k + 1 < NumActions
    <3>1. /\ inst' = [inst EXCEPT ![w].cur = k + 1]
          /\ act' = [act EXCEPT ![w][k] = row, ![w][k + 1] = new]
          /\ uuid' = [uuid EXCEPT ![w] = id]
          /\ outbox' = outbox \cup {c}
      BY <1>9, <2>3, <2>0 DEF applyForwardSuccess, AppendOutbox
    <3>2. k + 1 \in Idx /\ k + 1 # k
      BY <2>0, <2>3, EngineAssumption DEF Idx
    <3>3. /\ new \in ActionRow /\ new.status = "waiting_result" /\ new.dir = "forward"
          /\ new.cmd = id /\ new.out = 0
      BY <2>0 DEF WaitingRow, ActionRow, ActionStatus
    <3> HIDE DEF row, new, c
    <3>4. /\ InstIs(w, "running", k + 1) /\ inst'[w].ctx = inst[w].ctx
          /\ \A v \in Instances : v # w => inst'[v] = inst[v]
      BY <3>1, <2>0, <2>2, <1>t DEF TypeOK, InstanceRow, InstIs
    <3>5. /\ act'[w][k] = row /\ act'[w][k + 1] = new
          /\ \A n \in Idx : n # k /\ n # k + 1 => act'[w][n] = act[w][n]
          /\ \A v \in Instances : v # w => act'[v] = act[v]
      BY <3>1, <3>2, <3>3, <2>0, <2>1, <1>t, TwoRows
    <3>6. uuid'[w] = id /\ \A v \in Instances : v # w => uuid'[v] = uuid[v]
      BY <3>1, <2>0, <1>t DEF TypeOK
    <3>7. /\ RowIs(w, k, "succeeded", Cur(w).dir, Cur(w).cmd, Cur(w).cmd)
          /\ RowIs(w, k + 1, "waiting_result", "forward", id, 0) /\ RowsKept(w, {k, k + 1})
      BY <3>3, <3>5, <2>1 DEF RowIs, RowsKept
    <3>8. OnlyInst(w) /\ Sent(w, c)
      BY <3>1, <3>4, <3>5, <3>6, <2>0, <2>2 DEF OnlyInst, Sent
    <3>9. AdvanceEffect(w)
      BY <3>2, <3>4, <3>7, <3>8, <2>2 DEF AdvanceEffect, c
    <3> QED BY <3>9, <2>0 DEF StepEffects
  <2>4. CASE ~(k + 1 < NumActions)
    <3>1. /\ inst' = [inst EXCEPT ![w].status = "succeeded"]
          /\ act' = [act EXCEPT ![w][k] = row]
          /\ UNCHANGED <<uuid, outbox>>
      BY <1>9, <2>4, <2>0 DEF applyForwardSuccess
    <3>2. k + 1 = NumActions
      BY <2>0, <2>4, EngineAssumption DEF Idx
    <3> HIDE DEF row
    <3>3. /\ InstIs(w, "succeeded", k) /\ inst'[w].ctx = inst[w].ctx
          /\ \A v \in Instances : v # w => inst'[v] = inst[v]
      BY <3>1, <2>0, <1>t DEF TypeOK, InstanceRow, InstIs
    <3>4. /\ act'[w][k] = row
          /\ \A n \in Idx : n # k => act'[w][n] = act[w][n]
          /\ \A v \in Instances : v # w => act'[v] = act[v]
      BY <3>1, <2>0, <2>1, <1>t, OneRow
    <3>5. RowIs(w, k, "succeeded", Cur(w).dir, Cur(w).cmd, Cur(w).cmd) /\ RowsKept(w, {k})
      BY <3>4, <2>1 DEF RowIs, RowsKept
    <3>6. OnlyInst(w) /\ NothingSent(w)
      BY <3>1, <3>3, <3>4, <2>0, <2>2 DEF OnlyInst, NothingSent
    <3>7. FinishEffect(w)
      BY <3>2, <3>3, <3>5, <3>6, <2>2 DEF FinishEffect
    <3> QED BY <3>7, <2>0 DEF StepEffects
  <2> QED BY <2>3, <2>4
<1>10. ASSUME NEW r \in results, applyCompensationFailure(r) PROVE StepEffects
  <2> DEFINE w == r.wf
             k == inst[w].cur
             row == [act[w][k] EXCEPT !.status = "compensation_failed", !.class = r.outcome]
  <2>0. /\ w \in Instances /\ k \in Idx /\ act[w][k] \in ActionRow /\ r.idx = k
        /\ Cur(w) = act[w][k] /\ r.outcome \in ErrorClasses
    BY <1>10, <1>r DEF applyCompensationFailure, Cur
  <2>1. /\ row \in ActionRow /\ row.status = "compensation_failed" /\ row.dir = Cur(w).dir
        /\ row.cmd = Cur(w).cmd /\ row.out = Cur(w).out
    BY <2>0 DEF ActionRow, ActionStatus
  <2>2. /\ results' = results /\ inst[w].status = "compensating" /\ Cur(w).status = "compensating" /\ Applied(w)
    BY <1>10, <1>r DEF applyCompensationFailure, Applied
  <2>3. CASE AttemptsExhausted(w)
    <3>1. /\ inst' = [inst EXCEPT ![w].status = "compensation_failed"]
          /\ act' = [act EXCEPT ![w][k].status = "compensation_failed", ![w][k].class = r.outcome]
          /\ UNCHANGED <<uuid, outbox>>
      BY <1>10, <2>3, <2>0 DEF applyCompensationFailure
    <3>2. act' = [act EXCEPT ![w][k] = row]
      BY <3>1, <2>0, <1>t DEF TypeOK
    <3> HIDE DEF row
    <3>3. /\ InstIs(w, "compensation_failed", k) /\ inst'[w].ctx = inst[w].ctx
          /\ \A v \in Instances : v # w => inst'[v] = inst[v]
      BY <3>1, <2>0, <1>t DEF TypeOK, InstanceRow, InstIs
    <3>4. /\ act'[w][k] = row
          /\ \A n \in Idx : n # k => act'[w][n] = act[w][n]
          /\ \A v \in Instances : v # w => act'[v] = act[v]
      BY <3>2, <2>0, <2>1, <1>t, OneRow
    <3>5. RowIs(w, k, "compensation_failed", Cur(w).dir, Cur(w).cmd, Cur(w).out) /\ RowsKept(w, {k})
      BY <3>4, <2>1 DEF RowIs, RowsKept
    <3>6. OnlyInst(w) /\ NothingSent(w)
      BY <3>1, <3>3, <3>4, <2>0, <2>2 DEF OnlyInst, NothingSent
    <3>7. GiveUpEffect(w)
      BY <3>3, <3>5, <3>6, <2>2 DEF GiveUpEffect
    <3> QED BY <3>7, <2>0 DEF StepEffects
  <2>4. CASE ~AttemptsExhausted(w)
    <3>1. CompensateAgain(w)
      BY <1>10, <2>4 DEF applyCompensationFailure
    <3>2. AgainEffect(w)
      BY <3>1, <2>0, <2>2, CompensateAgainEffect
    <3> QED BY <3>2, <2>0 DEF StepEffects
  <2> QED BY <2>3, <2>4
<1>11. ASSUME NEW w \in Instances, NEW row \in ActionRow, row.status = "compensated",
              inst[w].status \in {"compensating", "compensation_failed"},
              row.dir = Cur(w).dir, row.cmd = Cur(w).cmd, row.out = Cur(w).out, results' = results,
              Applied(w) \/ inbox' = inbox, CompensateBelow(w, inst[w].cur, row)
       PROVE  StepEffects
  <2>1. LeftBehind(w, row.status)
    BY <1>11 DEF LeftBehind
  <2>2. UndoneEffect(w, row.status) \/ UndoEffect(w, row.status)
    BY <2>1, <1>11, CompensateBelowEffect
  <2> QED BY <2>2, <1>11 DEF StepEffects
<1>12. ASSUME NEW r \in results, applyCompensationSuccess(r) PROVE StepEffects
  <2> DEFINE w == r.wf
             k == inst[w].cur
             row == [act[w][k] EXCEPT !.status = "compensated", !.class = "none"]
  <2>0. /\ w \in Instances /\ k \in Idx /\ act[w][k] \in ActionRow /\ r.idx = k /\ Cur(w) = act[w][k]
    BY <1>12, <1>r DEF applyCompensationSuccess, Cur
  <2>1. /\ row \in ActionRow /\ row.status = "compensated" /\ row.dir = Cur(w).dir
        /\ row.cmd = Cur(w).cmd /\ row.out = Cur(w).out
    BY <2>0 DEF ActionRow, ActionStatus
  <2>2. /\ results' = results /\ inst[w].status = "compensating" /\ Applied(w)
        /\ CompensateBelow(w, k, row)
    BY <1>12, <1>r DEF applyCompensationSuccess, Applied
  <2> HIDE DEF row
  <2> QED BY <2>0, <2>1, <2>2, <1>11
<1>13. ASSUME NEW w \in Instances, RetryCompensation(w) PROVE StepEffects
  <2>1. /\ inst[w].status = "compensation_failed" /\ results' = results /\ inbox' = inbox
        /\ CompensateAgain(w)
    BY <1>13 DEF RetryCompensation
  <2>2. AgainEffect(w)
    BY <2>1, CompensateAgainEffect
  <2> QED BY <2>2 DEF StepEffects
<1>14. ASSUME NEW w \in Instances, NEW i \in Idx, ResolveCompensation(w, i) PROVE StepEffects
  <2> DEFINE row == [act[w][i] EXCEPT !.status = "compensated", !.class = "none"]
  <2>0. /\ act[w][i] \in ActionRow /\ inst[w].cur \in Idx
        /\ inst[w].status \in {"compensating", "compensation_failed"}
        /\ act[w][i].status \in {"compensating", "compensation_failed"}
    BY <1>14 DEF ResolveCompensation, Resolvable, StructInv, TypeOK, InstanceRow
  <2>1. i = inst[w].cur
    <3>1. ~(i < inst[w].cur) /\ ~(i > inst[w].cur)
      BY <2>0 DEF StructInv, SagaShape, Shape
    <3> QED BY <3>1, <2>0, IdxFacts
  <2>2. /\ row \in ActionRow /\ row.status = "compensated" /\ row.dir = Cur(w).dir
        /\ row.cmd = Cur(w).cmd /\ row.out = Cur(w).out
    BY <2>0, <2>1 DEF ActionRow, ActionStatus, Cur
  <2>3. results' = results /\ inbox' = inbox /\ CompensateBelow(w, inst[w].cur, row)
    BY <1>14, <2>1 DEF ResolveCompensation
  <2> HIDE DEF row
  <2> QED BY <2>0, <2>2, <2>3, <1>11
<1>15. ASSUME NEW o \in Workers, ClaimRunnable(o) PROVE StepEffects
  <2>1. PICK ids \in SUBSET Instances :
          /\ inst' = [w \in Instances |->
                        IF w \in ids THEN [inst[w] EXCEPT !.owner = OwnerName[o], !.live = TRUE]
                        ELSE inst[w]]
          /\ UNCHANGED <<act, uuid, outbox, results, inbox>>
    BY <1>15 DEF ClaimRunnable
  <2>2. \A v \in Instances : /\ inst'[v].status = inst[v].status
                             /\ inst'[v].cur = inst[v].cur /\ inst'[v].ctx = inst[v].ctx
    BY <2>1, <1>t, ZenonT(60) DEF TypeOK, InstanceRow
  <2> QED BY <2>1, <2>2, QuietFrame DEF StepEffects
<1>16. ASSUME NEW o \in Workers, NextInBatch(o) PROVE StepEffects
  BY <1>16, <1>4 DEF NextInBatch
<1>17. ASSUME NEW o \in Workers, Redispatch(o) PROVE StepEffects
  <2>0. PICK w \in Instances : w = proc[o].wf
    BY <1>17 DEF Redispatch, StructInv, ProcShape, Procs
  <2> DEFINE k == inst[w].cur
             row == [act[w][k] EXCEPT !.due = FALSE]
             c == ForwardCommand(w, k, Cur(w).cmd, inst[w].ctx)
  <2>1. CASE ~RedispatchDue(w)
    BY <1>17, <2>0, <2>1, <1>4 DEF Redispatch
  <2>2. CASE RedispatchDue(w)
    <3>0. k \in Idx /\ act[w][k] \in ActionRow /\ Cur(w) = act[w][k]
      BY DEF StructInv, TypeOK, InstanceRow, Cur
    <3>1. /\ act' = [act EXCEPT ![w][k].due = FALSE] /\ outbox' = outbox \cup {c}
          /\ UNCHANGED <<inst, uuid, results, inbox>>
          /\ inst[w].status = "running" /\ Cur(w).status = "waiting_result"
      BY <1>17, <2>0, <2>2 DEF Redispatch, RedispatchDue, AppendOutbox
    <3>2. act' = [act EXCEPT ![w][k] = row]
      BY <3>1, <3>0, <1>t DEF TypeOK
    <3>3. /\ row \in ActionRow /\ row.status = Cur(w).status /\ row.dir = Cur(w).dir
          /\ row.cmd = Cur(w).cmd /\ row.out = Cur(w).out
      BY <3>0 DEF ActionRow
    <3> HIDE DEF row, c
    <3>4. /\ act'[w][k] = row
          /\ \A n \in Idx : n # k => act'[w][n] = act[w][n]
          /\ \A v \in Instances : v # w => act'[v] = act[v]
      BY <3>0, <3>2, <3>3, <1>t, OneRow
    <3>5. RowIs(w, k, Cur(w).status, Cur(w).dir, Cur(w).cmd, Cur(w).out) /\ RowsKept(w, {k}) /\ OnlyInst(w)
      BY <3>1, <3>3, <3>4 DEF RowIs, RowsKept, OnlyInst
    <3>6. RedispatchEffect(w)
      BY <3>1, <3>5 DEF RedispatchEffect, c
    <3> QED BY <3>6 DEF StepEffects
  <2> QED BY <2>1, <2>2
<1>18. ASSUME NEW w \in Instances, \/ inst' = [inst EXCEPT ![w].owner = None, ![w].live = FALSE]
                                   \/ inst' = [inst EXCEPT ![w].live = FALSE],
              UNCHANGED <<act, uuid, outbox, results, inbox>>
       PROVE  StepEffects
  <2>1. \A v \in Instances : /\ inst'[v].status = inst[v].status
                             /\ inst'[v].cur = inst[v].cur /\ inst'[v].ctx = inst[v].ctx
    BY <1>18, <1>t DEF TypeOK, InstanceRow
  <2> QED BY <1>18, <2>1, QuietFrame DEF StepEffects
<1>19. ASSUME NEW o \in Workers, ReleaseLease(o) PROVE StepEffects
  <2>0. PICK w \in Instances : w = proc[o].wf
    BY <1>19 DEF ReleaseLease, StructInv, ProcShape, Procs
  <2> QED BY <1>19, <2>0, <1>4, <1>18 DEF ReleaseLease
<1>20. ASSUME NEW w \in Instances, LeaseExpires(w) PROVE StepEffects
  BY <1>20, <1>18 DEF LeaseExpires
<1>21. ASSUME NEW w \in Instances, DeadlinePasses(w) PROVE StepEffects
  <2> DEFINE k == inst[w].cur
             row == [act[w][k] EXCEPT !.due = TRUE]
  <2>1. /\ k \in Idx /\ act[w][k] \in ActionRow /\ act' = [act EXCEPT ![w][k].due = TRUE]
        /\ act[w][k].status \in {"waiting_result", "compensating"}
        /\ UNCHANGED <<inst, uuid, outbox, results, inbox>>
    BY <1>21 DEF DeadlinePasses, StructInv, TypeOK, InstanceRow, Cur
  <2>2. act' = [act EXCEPT ![w][k] = row]
    BY <2>1, <1>t DEF TypeOK
  <2>3. /\ row \in ActionRow /\ row.status = act[w][k].status /\ row.dir = act[w][k].dir
        /\ row.cmd = act[w][k].cmd /\ row.out = act[w][k].out
    BY <2>1 DEF ActionRow
  <2> HIDE DEF row
  <2>4. /\ act'[w][k] = row
        /\ \A n \in Idx : n # k => act'[w][n] = act[w][n]
        /\ \A v \in Instances : v # w => act'[v] = act[v]
    <3>1. k \in Idx
      BY <2>1
    <3> QED BY <3>1, <2>2, <2>3, <1>t, OneRow
  <2>5. inst[w].status \notin {"succeeded", "rejected", "compensated"}
    BY <2>1 DEF StructInv, SagaShape, Shape
  <2>6. \A v \in Instances, i \in Idx :
           RowIs(v, i, act[v][i].status, act[v][i].dir, act[v][i].cmd, act[v][i].out)
    <3> TAKE v \in Instances, i \in Idx
    <3>1. CASE v = w /\ i = k
      BY <3>1, <2>3, <2>4 DEF RowIs
    <3>2. CASE v # w \/ i # k
      BY <3>2, <2>4 DEF RowIs
    <3> QED BY <3>1, <3>2
  <2>7. QuietEffect
    BY <2>1, <2>4, <2>5, <2>6 DEF QuietEffect
  <2> QED BY <2>7 DEF StepEffects
<1>22. ASSUME NEW c, LoseCommand(c) \/ Redeliver(c) PROVE StepEffects
  BY <1>22, <1>4 DEF LoseCommand, Redeliver
<1>23. ASSUME NEW c \in queue, NEW o \in Classes \cup {"ok"}, ParticipantReply(c, o) PROVE StepEffects
  <2> DEFINE sent == {r \in results : r.wf = c.wf /\ r.cmd = c.cmd}
             new == [wf |-> c.wf, idx |-> c.idx, dir |-> c.dir, cmd |-> c.cmd,
                     n |-> Cardinality(sent) + 1, outcome |-> o]
  <2>1. /\ results' = results \cup {new}
        /\ UNCHANGED <<inst, act, uuid, outbox, inbox>>
    BY <1>23 DEF ParticipantReply
  <2>2. Cardinality(sent) \in Nat
    BY FS_Subset, FS_CardinalityType
  <2>3. c \in outbox /\ c \in Command /\ o \in ErrorClasses \cup {"ok"}
    BY EngineAssumption DEF StructInv, TypeOK
  <2>4. new \in Result /\ new.wf = c.wf /\ new.cmd = c.cmd
    BY <2>2, <2>3 DEF Command, Result
  <2> HIDE DEF new
  <2>5. ReplyEffect
    BY <2>1, <2>3, <2>4 DEF ReplyEffect
  <2> QED BY <2>5 DEF StepEffects
<1>24. CASE UNCHANGED vars
  BY <1>24, <1>4 DEF vars
<1> QED
  BY <1>2, <1>3, <1>5, <1>6, <1>7, <1>8, <1>9, <1>10, <1>12, <1>13, <1>14, <1>15, <1>16, <1>17, <1>19,
     <1>20, <1>21, <1>22, <1>23, <1>24
     DEF Next, Prepare, Recovery, ApplyResult, Environment

---------------------------------------------------------------------------
(* Rows, commands and results *)

\* The statuses of an action that took effect.
Reached == {"succeeded", "compensating", "compensated", "compensation_failed"}

\* An action has an Output exactly when it took effect, and the CommandID of a
\* row was drawn for its instance.
RowOK(w, i) ==
    /\ act[w][i].cmd <= uuid[w]
    /\ act[w][i].status = "waiting_result" => act[w][i].dir = "forward" /\ act[w][i].cmd # 0
    /\ (act[w][i].out # 0) <=> (act[w][i].status \in Reached)

\* A forward command is the one its row records for as long as the row is a
\* forward row; a compensation command is of an action being undone.
CommandOK(c) ==
    /\ c.cmd <= uuid[c.wf]
    /\ c.dir = "forward" =>
          /\ c.ctx = inst[c.wf].ctx /\ c.out = 0
          /\ act[c.wf][c.idx].status # "none"
          /\ act[c.wf][c.idx].dir = "forward" => c.cmd = act[c.wf][c.idx].cmd
    /\ c.dir = "compensation" =>
          act[c.wf][c.idx].status \in {"compensating", "compensated", "compensation_failed"}

RowInv == \A w \in Instances, i \in Idx : RowOK(w, i)

CommandInv == \A c \in outbox : CommandOK(c)

\* No applied result answers the command the current action waits for.
ResultInv ==
    /\ \A r \in results : r.cmd <= uuid[r.wf]
    /\ \A r \in inbox : r.cmd = Cur(r.wf).cmd => Cur(r.wf).status \notin {"waiting_result", "compensating"}

SagaInv ==
    /\ RowInv /\ CommandInv /\ ResultInv
    /\ ResultAppliedOnce /\ OneForwardCommand /\ ReverseOrder

\* What typing says about one instance, before and after a step.
LEMMA TypeFacts ==
    ASSUME TypeOK
    PROVE  /\ \A v \in Instances : /\ inst[v].cur \in Idx /\ uuid[v] \in Nat
                                   /\ inst[v].ctx \in Contexts \cup {None}
           /\ \A v \in Instances, i \in Idx : act[v][i].cmd \in Nat /\ act[v][i].out \in Nat
           /\ \A c \in outbox : c \in Command /\ c.wf \in Instances /\ c.idx \in Idx /\ c.cmd \in Nat
           /\ \A r \in results : r.wf \in Instances /\ r.idx \in Idx /\ r.cmd \in Nat
           /\ inbox \subseteq results
<1>1. \A v \in Instances : inst[v].cur \in Idx /\ uuid[v] \in Nat /\ inst[v].ctx \in Contexts \cup {None}
  BY DEF TypeOK, InstanceRow
<1>2. \A v \in Instances, i \in Idx : act[v][i].cmd \in Nat /\ act[v][i].out \in Nat
  BY DEF TypeOK, ActionRow
<1>3. \A c \in outbox : c \in Command /\ c.wf \in Instances /\ c.idx \in Idx /\ c.cmd \in Nat
  BY DEF TypeOK, Command
<1>4. \A r \in results : r.wf \in Instances /\ r.idx \in Idx /\ r.cmd \in Nat
  BY DEF TypeOK, Result
<1> QED BY <1>1, <1>2, <1>3, <1>4 DEF TypeOK

\* Rows of the instances that did not change.
LEMMA RowAt ==
    ASSUME RowInv, NEW w, OnlyInst(w), \A i \in Idx : RowOK(w, i)' PROVE RowInv'
<1> SUFFICES ASSUME NEW v \in Instances, NEW i \in Idx, v # w PROVE RowOK(v, i)'
  BY DEF RowInv
<1>1. act'[v] = act[v] /\ uuid'[v] = uuid[v] /\ RowOK(v, i)
  BY DEF OnlyInst, RowInv
<1> QED BY <1>1 DEF RowOK

\* Every step keeps RowInv.
LEMMA RowStep ==
    ASSUME StructInv, RowInv, StepEffects PROVE RowInv'
<1>t. /\ \A v \in Instances : inst[v].cur \in Idx /\ uuid[v] \in Nat
      /\ \A v \in Instances, i \in Idx : act[v][i].cmd \in Nat /\ act[v][i].out \in Nat
      /\ \A i \in Idx : i \in Int
  BY TypeFacts, IdxFacts DEF StructInv
<1>1. CASE QuietEffect
  <2> SUFFICES ASSUME NEW v \in Instances, NEW i \in Idx PROVE RowOK(v, i)'
    BY DEF RowInv
  <2>1. /\ RowIs(v, i, act[v][i].status, act[v][i].dir, act[v][i].cmd, act[v][i].out)
        /\ uuid'[v] = uuid[v] /\ RowOK(v, i)
    BY <1>1 DEF QuietEffect, RowInv
  <2> QED BY <2>1 DEF RowOK, RowIs
<1>2. CASE ReplyEffect
  BY <1>2 DEF ReplyEffect, RowInv, RowOK
<1>3. ASSUME NEW w \in Instances, NEW S, OnlyInst(w), RowsKept(w, S),
             uuid'[w] = uuid[w] \/ uuid'[w] = uuid[w] + 1,
             \A i \in S : i \in Idx => RowOK(w, i)'
      PROVE  RowInv'
  <2> SUFFICES ASSUME NEW i \in Idx, i \notin S PROVE RowOK(w, i)'
    BY <1>3, RowAt
  <2>1. act'[w][i] = act[w][i] /\ RowOK(w, i) /\ uuid[w] \in Nat /\ act[w][i].cmd \in Nat
    BY <1>3, <1>t DEF RowsKept, RowInv
  <2>2. uuid'[w] \in Nat /\ uuid[w] <= uuid'[w]
    BY <1>3, <2>1
  <2>3. act[w][i].cmd <= uuid'[w]
    BY <2>1, <2>2 DEF RowOK
  <2> QED BY <2>1, <2>3 DEF RowOK
<1>4. ASSUME NEW w \in Instances, BeginEffect(w) PROVE RowInv'
  <2>1. OnlyInst(w) /\ RowsKept(w, {0}) /\ uuid'[w] = uuid[w] + 1
    BY <1>4 DEF BeginEffect
  <2>2. RowOK(w, 0)'
    BY <1>4, <1>t DEF BeginEffect, RowOK, RowIs, Reached
  <2> QED BY <2>1, <2>2, <1>3
<1>5. ASSUME NEW w \in Instances,
             \/ RedispatchEffect(w) \/ FailEffect(w) \/ FinishEffect(w) \/ GiveUpEffect(w)
             \/ \E s \in {"failed", "compensated"} : UndoneEffect(w, s)
      PROVE  RowInv'
  <2>k. PICK k \in Idx : k = inst[w].cur
    BY <1>t
  <2>1. OnlyInst(w) /\ RowsKept(w, {k}) /\ uuid'[w] = uuid[w]
    BY <2>k, <1>5 DEF RedispatchEffect, FailEffect, FinishEffect, GiveUpEffect, UndoneEffect, NothingSent
  <2>2. k \in Idx /\ RowOK(w, k) /\ uuid[w] \in Nat /\ act[w][k].cmd \in Nat /\ Cur(w) = act[w][k]
    BY <2>k, <1>t DEF RowInv, Cur
  <2>3. RowOK(w, k)'
    <3>1. CASE RedispatchEffect(w)
      BY <2>k, <3>1, <2>1, <2>2 DEF RedispatchEffect, RowOK, RowIs
    <3>2. CASE FailEffect(w)
      BY <2>k, <3>2, <2>1, <2>2 DEF FailEffect, RowOK, RowIs, Reached
    <3>3. CASE FinishEffect(w)
      BY <2>k, <3>3, <2>1, <2>2 DEF FinishEffect, RowOK, RowIs, Reached
    <3>4. CASE GiveUpEffect(w)
      BY <2>k, <3>4, <2>1, <2>2 DEF GiveUpEffect, RowOK, RowIs, Reached
    <3>5. ASSUME NEW s \in {"failed", "compensated"}, UndoneEffect(w, s) PROVE RowOK(w, k)'
      <4>1. /\ RowIs(w, k, s, act[w][k].dir, act[w][k].cmd, act[w][k].out)
            /\ LeftBehind(w, s)
        BY <2>k, <3>5, <2>2 DEF UndoneEffect
      <4>2. act[w][k].out # 0 <=> s \in Reached
        BY <2>k, <4>1, <2>2 DEF LeftBehind, RowOK, Reached, StructInv, SagaShape, Shape
      <4> QED BY <2>k, <4>1, <4>2, <2>1, <2>2 DEF RowOK, RowIs
    <3> QED BY <2>k, <3>1, <3>2, <3>3, <3>4, <3>5, <1>5
  <2> QED BY <2>k, <2>1, <2>3, <1>3
<1>6. ASSUME NEW w \in Instances, AgainEffect(w) PROVE RowInv'
  <2>k. PICK k \in Idx : k = inst[w].cur
    BY <1>t
  <2>1. OnlyInst(w) /\ RowsKept(w, {k}) /\ uuid'[w] = uuid[w] + 1
    BY <2>k, <1>6 DEF AgainEffect, Sent
  <2>2. k \in Idx /\ RowOK(w, k) /\ uuid[w] \in Nat /\ Cur(w) = act[w][k] /\ act[w][k].status \in Reached
    BY <2>k, <1>t, <1>6 DEF RowInv, Cur, AgainEffect, StructInv, SagaShape, Shape, Reached
  <2>3. RowOK(w, k)'
    BY <2>k, <1>6, <2>1, <2>2 DEF AgainEffect, RowOK, RowIs, Reached
  <2> QED BY <2>k, <2>1, <2>3, <1>3
<1>7. ASSUME NEW w \in Instances, AdvanceEffect(w) PROVE RowInv'
  <2>k. PICK k \in Idx : k = inst[w].cur
    BY <1>t
  <2>1. OnlyInst(w) /\ RowsKept(w, {k, k + 1}) /\ uuid'[w] = uuid[w] + 1
    BY <2>k, <1>7 DEF AdvanceEffect, Sent
  <2>2. k \in Idx /\ RowOK(w, k) /\ uuid[w] \in Nat /\ Cur(w) = act[w][k] /\ act[w][k].cmd \in Nat
    BY <2>k, <1>t DEF RowInv, Cur
  <2>3. RowOK(w, k)'
    BY <2>k, <1>7, <2>1, <2>2 DEF AdvanceEffect, RowOK, RowIs, Reached
  <2>4. RowOK(w, k + 1)'
    BY <2>k, <1>7, <2>1, <2>2 DEF AdvanceEffect, RowOK, RowIs, Reached
  <2> QED BY <2>k, <2>1, <2>3, <2>4, <1>3
<1>8. ASSUME NEW w \in Instances, NEW s \in {"failed", "compensated"}, UndoEffect(w, s) PROVE RowInv'
  <2>k. PICK k \in Idx : k = inst[w].cur
    BY <1>t
  <2> DEFINE t == k - 1
  <2>1. OnlyInst(w) /\ RowsKept(w, {k, t}) /\ uuid'[w] = uuid[w] + 1
    BY <2>k, <1>8 DEF UndoEffect, Sent
  <2>2. /\ k \in Idx /\ RowOK(w, k) /\ uuid[w] \in Nat /\ Cur(w) = act[w][k] /\ act[w][k].cmd \in Nat
        /\ t \in Idx /\ RowOK(w, t)
    BY <2>k, <1>t, <1>8 DEF RowInv, Cur, UndoEffect
  <2>3. RowOK(w, k)'
    <3>1. /\ RowIs(w, k, s, act[w][k].dir, act[w][k].cmd, act[w][k].out)
          /\ LeftBehind(w, s)
      BY <2>k, <1>8, <2>2 DEF UndoEffect
    <3>2. act[w][k].out # 0 <=> s \in Reached
      BY <2>k, <3>1, <2>2 DEF LeftBehind, RowOK, Reached, StructInv, SagaShape, Shape
    <3> QED BY <2>k, <3>1, <3>2, <2>1, <2>2 DEF RowOK, RowIs
  <2>4. RowOK(w, t)'
    <3>1. act[w][t].status = "succeeded"
      <4>1. t < k
        BY <2>2, IdxFacts
      <4>2. inst[w].status \in {"running", "compensating", "compensation_failed"}
        BY <2>k, <1>8 DEF UndoEffect, LeftBehind
      <4> HIDE DEF t
      <4> QED BY <2>k, <4>1, <4>2, <2>2 DEF StructInv, SagaShape, Shape
    <3>2. act[w][t].out # 0
      BY <2>k, <3>1, <2>2 DEF RowOK, Reached
    <3>3. RowIs(w, t, "compensating", "compensation", uuid[w] + 1, act[w][t].out)
      BY <2>k, <1>8 DEF UndoEffect
    <3> QED BY <2>k, <3>2, <3>3, <2>1, <2>2 DEF RowOK, RowIs, Reached
  <2> QED BY <2>k, <2>1, <2>3, <2>4, <1>3
<1> QED BY <1>1, <1>2, <1>4, <1>5, <1>6, <1>7, <1>8 DEF StepEffects

\* Applying a result of the open command.
LEMMA AppliedOnce ==
    ASSUME StructInv, ResultInv, ResultAppliedOnce, NEW w, Applied(w)
    PROVE  ResultAppliedOnce'
<1>1. PICK r \in results \ inbox : r.wf = w /\ r.cmd = Cur(w).cmd /\ inbox' = inbox \cup {r}
  BY DEF Applied
<1>2. \A s \in inbox : ~(s.wf = w /\ s.cmd = r.cmd)
  BY <1>1 DEF Applied, ResultInv
<1> QED BY <1>1, <1>2 DEF ResultAppliedOnce

\* Every step keeps the inbox free of a second result for one command.
LEMMA ResultStep ==
    ASSUME StructInv, RowInv, CommandInv, ResultInv, ResultAppliedOnce, StepEffects
    PROVE  ResultInv' /\ ResultAppliedOnce'
<1>t. /\ \A v \in Instances : inst[v].cur \in Idx /\ uuid[v] \in Nat
      /\ \A r \in results : r.wf \in Instances /\ r.cmd \in Nat
      /\ \A c \in outbox : c.wf \in Instances /\ c.cmd \in Nat
      /\ inbox \subseteq results
      /\ \A i \in Idx : i \in Int
  BY TypeFacts, IdxFacts DEF StructInv
<1>0. \A r \in results : r.cmd <= uuid[r.wf]
  BY DEF ResultInv
<1>1. CASE QuietEffect
  <2>1. \A v \in Instances : /\ uuid'[v] = uuid[v] /\ Cur(v)'.cmd = Cur(v).cmd
                             /\ Cur(v)'.status = Cur(v).status
    BY <1>1, <1>t DEF QuietEffect, RowIs, Cur
  <2>2. results' = results /\ inbox' = inbox
    BY <1>1 DEF QuietEffect
  <2> QED BY <2>1, <2>2, <1>t DEF ResultInv, ResultAppliedOnce
<1>2. CASE ReplyEffect
  <2>1. PICK c \in outbox, r \in Result : r.wf = c.wf /\ r.cmd = c.cmd /\ results' = results \cup {r}
    BY <1>2 DEF ReplyEffect
  <2>2. inst' = inst /\ act' = act /\ uuid' = uuid /\ inbox' = inbox
    BY <1>2 DEF ReplyEffect
  <2>3. r.cmd <= uuid[r.wf]
    BY <2>1 DEF CommandInv, CommandOK
  <2> QED BY <2>1, <2>2, <2>3 DEF ResultInv, ResultAppliedOnce, Cur
<1>3. ASSUME NEW w \in Instances, OnlyInst(w), Applied(w) \/ inbox' = inbox,
             \/ uuid'[w] = uuid[w] /\ act'[w][inst'[w].cur].status \notin {"waiting_result", "compensating"}
             \/ uuid'[w] = uuid[w] + 1 /\ act'[w][inst'[w].cur].cmd = uuid[w] + 1
      PROVE  ResultInv' /\ ResultAppliedOnce'
  <2>1. ResultAppliedOnce'
    BY <1>3, AppliedOnce DEF ResultAppliedOnce
  <2>2. inbox' \subseteq results /\ results' = results
    BY <1>3, <1>t DEF Applied, OnlyInst
  <2>3. \A r \in inbox' : r.wf # w => r \in inbox
    BY <1>3 DEF Applied
  <2>4. \A r \in results' : r.cmd <= uuid'[r.wf]
    <3> TAKE r \in results'
    <3>1. CASE r.wf = w
      <4>1. r.cmd \in Nat /\ uuid[w] \in Nat /\ r.cmd <= uuid[w]
        BY <3>1, <2>2, <1>t, <1>0
      <4> QED BY <4>1, <3>1, <1>3
    <3>2. CASE r.wf # w
      BY <3>2, <2>2, <1>t, <1>0, <1>3 DEF OnlyInst
    <3> QED BY <3>1, <3>2
  <2>5. ASSUME NEW r \in inbox', r.cmd = Cur(r.wf)'.cmd
        PROVE  Cur(r.wf)'.status \notin {"waiting_result", "compensating"}
    <3>1. CASE r.wf = w
      <4>1. r.cmd \in Nat /\ uuid[w] \in Nat /\ r.cmd <= uuid[w]
        BY <3>1, <2>2, <1>t, <1>0
      <4>2. r.cmd # uuid[w] + 1
        BY <4>1
      <4> QED BY <4>2, <3>1, <2>5, <1>3 DEF Cur
    <3>2. CASE r.wf # w
      BY <3>2, <2>3, <2>5, <2>2, <1>t, <1>3 DEF OnlyInst, ResultInv, Cur
    <3> QED BY <3>1, <3>2
  <2> QED BY <2>1, <2>4, <2>5 DEF ResultInv
<1>4. ASSUME NEW w \in Instances, BeginEffect(w) PROVE ResultInv' /\ ResultAppliedOnce'
  BY <1>4, <1>3 DEF BeginEffect, InstIs, RowIs
<1>5. ASSUME NEW w \in Instances, RedispatchEffect(w) PROVE ResultInv' /\ ResultAppliedOnce'
  <2>1. \A v \in Instances : /\ uuid'[v] = uuid[v] /\ Cur(v)'.cmd = Cur(v).cmd
                             /\ Cur(v)'.status = Cur(v).status
    BY <1>5, <1>t DEF RedispatchEffect, OnlyInst, RowIs, Cur
  <2>2. results' = results /\ inbox' = inbox
    BY <1>5 DEF RedispatchEffect, OnlyInst
  <2> QED BY <2>1, <2>2, <1>t DEF ResultInv, ResultAppliedOnce
<1>6. ASSUME NEW w \in Instances, FailEffect(w) \/ FinishEffect(w) \/ GiveUpEffect(w)
      PROVE  ResultInv' /\ ResultAppliedOnce'
  <2>1. OnlyInst(w) /\ Applied(w) /\ uuid'[w] = uuid[w]
    BY <1>6 DEF FailEffect, FinishEffect, GiveUpEffect, NothingSent
  <2>2. act'[w][inst'[w].cur].status \notin {"waiting_result", "compensating"}
    BY <1>6 DEF FailEffect, FinishEffect, GiveUpEffect, InstIs, RowIs
  <2> QED BY <2>1, <2>2, <1>3
<1>7. ASSUME NEW w \in Instances, NEW s \in {"failed", "compensated"}, UndoneEffect(w, s)
      PROVE  ResultInv' /\ ResultAppliedOnce'
  <2>1. OnlyInst(w) /\ (Applied(w) \/ inbox' = inbox) /\ uuid'[w] = uuid[w]
    BY <1>7 DEF UndoneEffect, NothingSent, LeftBehind
  <2>2. act'[w][inst'[w].cur].status \notin {"waiting_result", "compensating"}
    BY <1>7 DEF UndoneEffect, InstIs, RowIs
  <2> QED BY <2>1, <2>2, <1>3
<1>8. ASSUME NEW w \in Instances, AgainEffect(w) PROVE ResultInv' /\ ResultAppliedOnce'
  <2>1. OnlyInst(w) /\ (Applied(w) \/ inbox' = inbox) /\ uuid'[w] = uuid[w] + 1
    BY <1>8 DEF AgainEffect, Sent
  <2>2. act'[w][inst'[w].cur].cmd = uuid[w] + 1
    BY <1>8 DEF AgainEffect, InstIs, RowIs
  <2> QED BY <2>1, <2>2, <1>3
<1>9. ASSUME NEW w \in Instances, AdvanceEffect(w) PROVE ResultInv' /\ ResultAppliedOnce'
  <2>1. OnlyInst(w) /\ Applied(w) /\ uuid'[w] = uuid[w] + 1
    BY <1>9 DEF AdvanceEffect, Sent
  <2>2. act'[w][inst'[w].cur].cmd = uuid[w] + 1
    BY <1>9 DEF AdvanceEffect, InstIs, RowIs
  <2> QED BY <2>1, <2>2, <1>3
<1>10. ASSUME NEW w \in Instances, NEW s \in {"failed", "compensated"}, UndoEffect(w, s)
       PROVE  ResultInv' /\ ResultAppliedOnce'
  <2>1. OnlyInst(w) /\ (Applied(w) \/ inbox' = inbox) /\ uuid'[w] = uuid[w] + 1
    BY <1>10 DEF UndoEffect, Sent, LeftBehind
  <2>2. act'[w][inst'[w].cur].cmd = uuid[w] + 1
    BY <1>10 DEF UndoEffect, InstIs, RowIs
  <2> QED BY <2>1, <2>2, <1>3
<1> QED BY <1>1, <1>2, <1>4, <1>5, <1>6, <1>7, <1>8, <1>9, <1>10 DEF StepEffects

\* The statuses of an action whose undo has been dispatched.
Undoing == {"compensating", "compensated", "compensation_failed"}

\* Rows that exist only move on: a forward row keeps its command, an action
\* that is being undone stays so.
RowsMoveOn(w) ==
    \A i \in Idx : act[w][i].status # "none" =>
        /\ inst'[w].ctx = inst[w].ctx
        /\ act'[w][i].status # "none"
        /\ act'[w][i].dir = "forward" => act[w][i].dir = "forward" /\ act'[w][i].cmd = act[w][i].cmd
        /\ act[w][i].status \in Undoing => act'[w][i].status \in Undoing

\* Commands sent earlier stay as CommandOK says.
LEMMA OldCommands ==
    ASSUME StructInv, CommandInv, NEW w \in Instances, OnlyInst(w), RowsMoveOn(w),
           uuid'[w] = uuid[w] \/ uuid'[w] = uuid[w] + 1
    PROVE  \A c \in outbox : CommandOK(c)'
<1> SUFFICES ASSUME NEW c \in outbox PROVE CommandOK(c)'
  OBVIOUS
<1>1. /\ c.wf \in Instances /\ c.idx \in Idx /\ c.cmd \in Nat /\ uuid[w] \in Nat
      /\ CommandOK(c)
  BY TypeFacts DEF StructInv, CommandInv
<1>2. CASE c.wf # w
  BY <1>1, <1>2 DEF OnlyInst, CommandOK
<1>3. CASE c.wf = w
  <2>1. c.cmd <= uuid'[w]
    BY <1>1, <1>3 DEF CommandOK
  <2>2. c.dir = "forward" \/ c.dir = "compensation" => act[w][c.idx].status # "none"
    BY <1>1, <1>3 DEF CommandOK
  <2>3. c.dir = "forward" \/ c.dir = "compensation" =>
          /\ inst'[w].ctx = inst[w].ctx
          /\ act'[w][c.idx].status # "none"
          /\ act'[w][c.idx].dir = "forward" =>
                act[w][c.idx].dir = "forward" /\ act'[w][c.idx].cmd = act[w][c.idx].cmd
          /\ act[w][c.idx].status \in Undoing => act'[w][c.idx].status \in Undoing
    BY <1>1, <2>2 DEF RowsMoveOn
  <2> QED BY <1>1, <1>3, <2>1, <2>3 DEF CommandOK, Undoing
<1> QED BY <1>2, <1>3

\* A step that changes row k of w, which is in some status of S, and maybe
\* row j.
LEMMA MoveOn ==
    ASSUME StructInv, NEW w \in Instances, NEW k \in Idx, NEW j, RowsKept(w, {k, j}),
           inst'[w].ctx = inst[w].ctx,
           act'[w][k].status # "none",
           act'[w][k].dir = "forward" => act[w][k].dir = "forward" /\ act'[w][k].cmd = act[w][k].cmd,
           act[w][k].status \in Undoing => act'[w][k].status \in Undoing,
           \/ j = k
           \/ j \in Idx /\ act[w][j].status = "none"
           \/ j \in Idx /\ act'[w][j].status \in Undoing /\ act'[w][j].dir = "compensation"
    PROVE  RowsMoveOn(w)
<1> SUFFICES ASSUME NEW i \in Idx, act[w][i].status # "none"
             PROVE  /\ act'[w][i].status # "none"
                    /\ act'[w][i].dir = "forward" =>
                          act[w][i].dir = "forward" /\ act'[w][i].cmd = act[w][i].cmd
                    /\ act[w][i].status \in Undoing => act'[w][i].status \in Undoing
  BY DEF RowsMoveOn
<1>1. CASE i = k
  BY <1>1
<1>2. CASE i = j /\ i # k
  BY <1>2 DEF Undoing
<1>3. CASE i # j /\ i # k
  <2>1. act'[w][i] = act[w][i]
    BY <1>3 DEF RowsKept
  <2> QED BY <2>1
<1> QED BY <1>1, <1>2, <1>3

\* What each effect on instance w leaves true of commands.
LEMMA CommandStep ==
    ASSUME StructInv, StructInv', RowInv, CommandInv, OneForwardCommand, StepEffects
    PROVE  CommandInv' /\ OneForwardCommand'
<1>t. /\ \A v \in Instances : inst[v].cur \in Idx /\ uuid[v] \in Nat
      /\ \A c \in outbox : c \in Command /\ c.wf \in Instances /\ c.idx \in Idx /\ c.cmd \in Nat
      /\ \A i \in Idx : i \in Int
  BY TypeFacts, IdxFacts DEF StructInv
<1>s. \A v \in Instances :
        /\ inst[v].status \in {"compensating", "compensation_failed"} => Cur(v).status \in Undoing
        /\ inst[v].status = "preparing" => \A i \in Idx : act[v][i].status = "none"
        /\ inst[v].status = "running" => \A i \in Idx : i > inst[v].cur => act[v][i].status = "none"
        /\ inst[v].status \in {"running", "compensating", "compensation_failed"} =>
              \A i \in Idx : i < inst[v].cur => act[v][i].status = "succeeded"
  BY DEF StructInv, SagaShape, Shape, Undoing, Cur
<1>1. CASE QuietEffect
  <2>1. ASSUME NEW c \in outbox PROVE CommandOK(c)'
    <3>1. c.wf \in Instances /\ c.idx \in Idx /\ CommandOK(c)
      BY <1>t DEF CommandInv
    <3>2. /\ uuid'[c.wf] = uuid[c.wf] /\ inst'[c.wf].ctx = inst[c.wf].ctx
          /\ act'[c.wf][c.idx].status = act[c.wf][c.idx].status
          /\ act'[c.wf][c.idx].dir = act[c.wf][c.idx].dir
          /\ act'[c.wf][c.idx].cmd = act[c.wf][c.idx].cmd
      BY <1>1, <3>1 DEF QuietEffect, RowIs
    <3> QED BY <3>1, <3>2 DEF CommandOK
  <2> QED BY <2>1, <1>1 DEF QuietEffect, CommandInv, OneForwardCommand
<1>2. CASE ReplyEffect
  BY <1>2 DEF ReplyEffect, CommandInv, CommandOK, OneForwardCommand
<1>3. ASSUME NEW w \in Instances, OnlyInst(w), RowsMoveOn(w), NothingSent(w)
      PROVE  CommandInv' /\ OneForwardCommand'
  <2>1. \A c \in outbox : CommandOK(c)'
    BY <1>3, OldCommands DEF NothingSent
  <2> QED BY <2>1, <1>3 DEF NothingSent, CommandInv, OneForwardCommand
<1>4. ASSUME NEW w \in Instances, NEW i \in Idx, OnlyInst(w), RowsMoveOn(w),
             Sent(w, CompensationCommand(w, i, uuid[w] + 1)), act'[w][i].status \in Undoing
      PROVE  CommandInv' /\ OneForwardCommand'
  <2> DEFINE n == CompensationCommand(w, i, uuid[w] + 1)
  <2>0. PICK id \in Nat : id = uuid[w] + 1
    BY <1>t
  <2>1. \A c \in outbox : CommandOK(c)'
    BY <1>4, OldCommands DEF Sent
  <2>2. PICK x : x = n
    OBVIOUS
  <2>3. x.wf = w /\ x.idx = i /\ x.dir = "compensation" /\ x.cmd = id /\ outbox' = outbox \cup {x}
    BY <1>4, <2>0, <2>2 DEF CompensationCommand, Sent
  <2>4. CommandOK(x)'
    BY <2>0, <2>3, <1>4 DEF CommandOK, Sent, Undoing
  <2> QED BY <2>1, <2>3, <2>4 DEF CommandInv, OneForwardCommand
<1>5. ASSUME NEW w \in Instances, NEW i \in Idx, NEW id, OnlyInst(w),
             \A c \in outbox : CommandOK(c)',
             outbox' = outbox \cup {ForwardCommand(w, i, id, inst'[w].ctx)},
             id <= uuid'[w], act'[w][i].status # "none", act'[w][i].cmd = id,
             \A c \in outbox : c.wf = w /\ c.idx = i /\ c.dir = "forward" => c.cmd = id
      PROVE  CommandInv' /\ OneForwardCommand'
  <2>2. PICK x : x = ForwardCommand(w, i, id, inst'[w].ctx)
    OBVIOUS
  <2>3. /\ x.wf = w /\ x.idx = i /\ x.dir = "forward" /\ x.cmd = id /\ x.ctx = inst'[w].ctx /\ x.out = 0
        /\ outbox' = outbox \cup {x}
    BY <1>5, <2>2 DEF ForwardCommand
  <2>4. CommandOK(x)'
    BY <2>3, <1>5 DEF CommandOK
  <2>5. \A c \in outbox : c.wf = w /\ c.idx = i /\ c.dir = "forward" => c = x
    <3> TAKE c \in outbox
    <3>1. c \in Command /\ x \in Command
      BY <2>3, <1>t DEF StructInv, TypeOK
    <3>2. c.wf = w /\ c.idx = i /\ c.dir = "forward" => c.cmd = id /\ c.ctx = inst'[w].ctx /\ c.out = 0
      BY <1>5 DEF CommandOK
    <3> QED BY <3>1, <3>2, <2>3 DEF Command
  <2> QED BY <2>3, <2>4, <2>5, <1>5 DEF CommandInv, OneForwardCommand
<1>6. ASSUME NEW w \in Instances, BeginEffect(w) PROVE CommandInv' /\ OneForwardCommand'
  <2>0. PICK id \in Nat : id = uuid[w] + 1
    BY <1>t
  <2>1. RowsMoveOn(w) /\ \A c \in outbox : c.wf = w => c.dir # "forward"
    BY <1>6, <1>s, <1>t DEF RowsMoveOn, BeginEffect, CommandInv, CommandOK
  <2>2. \A c \in outbox : CommandOK(c)'
    BY <1>6, <2>1, OldCommands DEF BeginEffect
  <2>3. /\ outbox' = outbox \cup {ForwardCommand(w, 0, id, inst'[w].ctx)} /\ OnlyInst(w)
        /\ id <= uuid'[w] /\ act'[w][0].status # "none" /\ act'[w][0].cmd = id
    BY <1>6, <2>0 DEF BeginEffect, RowIs
  <2> QED BY <2>1, <2>2, <2>3, <1>5, IdxFacts
<1>7. ASSUME NEW w \in Instances, RedispatchEffect(w) PROVE CommandInv' /\ OneForwardCommand'
  <2>k. PICK k \in Idx : k = inst[w].cur
    BY <1>t
  <2>0. PICK id : id = act[w][k].cmd
    OBVIOUS
  <2>r. /\ act[w][k].status = "waiting_result" /\ act[w][k].dir = "forward" /\ id <= uuid[w]
    BY <1>7, <2>k, <2>0 DEF RedispatchEffect, RowInv, RowOK, Cur
  <2>1. /\ OnlyInst(w) /\ uuid' = uuid /\ inst' = inst
        /\ outbox' = outbox \cup {ForwardCommand(w, k, id, inst'[w].ctx)}
        /\ act'[w][k].status = act[w][k].status /\ act'[w][k].dir = act[w][k].dir /\ act'[w][k].cmd = id
        /\ RowsKept(w, {k, k})
    BY <1>7, <2>k, <2>0 DEF RedispatchEffect, RowIs, Cur
  <2>2. RowsMoveOn(w)
    BY <2>0, <2>1, <2>r, MoveOn DEF Undoing
  <2>3. \A c \in outbox : CommandOK(c)'
    BY <2>1, <2>2, OldCommands
  <2>4. \A c \in outbox : c.wf = w /\ c.idx = k /\ c.dir = "forward" => c.cmd = id
    BY <2>0, <2>r DEF CommandInv, CommandOK
  <2>5. id <= uuid'[w] /\ act'[w][k].status # "none"
    BY <2>1, <2>r
  <2> QED BY <2>1, <2>3, <2>4, <2>5, <1>5
<1>8. ASSUME NEW w \in Instances,
             \/ FailEffect(w) \/ FinishEffect(w) \/ GiveUpEffect(w)
             \/ \E s \in {"failed", "compensated"} : UndoneEffect(w, s)
      PROVE  CommandInv' /\ OneForwardCommand'
  <2>k. PICK k \in Idx : k = inst[w].cur
    BY <1>t
  <2>1. OnlyInst(w) /\ NothingSent(w) /\ RowsKept(w, {k, k})
    BY <1>8, <2>k DEF FailEffect, FinishEffect, GiveUpEffect, UndoneEffect
  <2>2. /\ act'[w][k].status # "none" /\ act'[w][k].dir = act[w][k].dir
        /\ act'[w][k].cmd = act[w][k].cmd
    BY <1>8, <2>k DEF FailEffect, FinishEffect, GiveUpEffect, UndoneEffect, RowIs, Cur
  <2>3. act[w][k].status \in Undoing => act'[w][k].status \in Undoing
    BY <1>8, <2>k DEF FailEffect, FinishEffect, GiveUpEffect, UndoneEffect, LeftBehind, RowIs, Cur, Undoing
  <2>4. RowsMoveOn(w)
    BY <2>1, <2>2, <2>3, MoveOn DEF NothingSent
  <2> QED BY <2>1, <2>4, <1>3
<1>9. ASSUME NEW w \in Instances, AgainEffect(w) PROVE CommandInv' /\ OneForwardCommand'
  <2>k. PICK k \in Idx : k = inst[w].cur
    BY <1>t
  <2>1. /\ OnlyInst(w) /\ RowsKept(w, {k, k}) /\ Sent(w, CompensationCommand(w, k, uuid[w] + 1))
        /\ act'[w][k].status = "compensating" /\ act'[w][k].dir = "compensation"
    BY <1>9, <2>k DEF AgainEffect, RowIs
  <2>2. RowsMoveOn(w)
    BY <2>1, MoveOn DEF Sent, Undoing
  <2>3. act'[w][k].status \in Undoing
    BY <2>1 DEF Undoing
  <2> QED BY <2>1, <2>2, <2>3, <1>4
<1>10. ASSUME NEW w \in Instances, AdvanceEffect(w) PROVE CommandInv' /\ OneForwardCommand'
  <2>k. PICK k \in Idx : k = inst[w].cur
    BY <1>t
  <2>0. PICK id \in Nat : id = uuid[w] + 1
    BY <1>t
  <2>j. PICK j \in Idx : j = k + 1
    BY <1>10, <2>k DEF AdvanceEffect
  <2>1. /\ OnlyInst(w) /\ RowsKept(w, {k, j}) /\ Sent(w, ForwardCommand(w, j, id, inst[w].ctx))
        /\ act'[w][k].status = "succeeded" /\ act'[w][k].dir = act[w][k].dir
        /\ act'[w][k].cmd = act[w][k].cmd
        /\ act'[w][j].status = "waiting_result" /\ act'[w][j].cmd = id
        /\ act[w][k].status = "waiting_result" /\ inst[w].status = "running"
    BY <1>10, <2>k, <2>0, <2>j DEF AdvanceEffect, RowIs, Cur
  <2>2. act[w][j].status = "none"
    <3>1. j > k
      BY <2>j, <2>k, <1>t
    <3> QED BY <3>1, <2>1, <2>k, <1>s
  <2>3. RowsMoveOn(w)
    BY <2>1, <2>2, MoveOn DEF Sent, Undoing
  <2>4. \A c \in outbox : CommandOK(c)'
    BY <2>1, <2>3, OldCommands DEF Sent
  <2>5. \A c \in outbox : ~(c.wf = w /\ c.idx = j /\ c.dir = "forward")
    BY <2>2 DEF CommandInv, CommandOK
  <2>6. /\ outbox' = outbox \cup {ForwardCommand(w, j, id, inst'[w].ctx)}
        /\ id <= uuid'[w] /\ act'[w][j].status # "none"
    BY <2>0, <2>1 DEF Sent
  <2> QED BY <2>1, <2>4, <2>5, <2>6, <1>5
<1>11. ASSUME NEW w \in Instances, NEW s \in {"failed", "compensated"}, UndoEffect(w, s)
       PROVE  CommandInv' /\ OneForwardCommand'
  <2>k. PICK k \in Idx : k = inst[w].cur
    BY <1>t
  <2>j. PICK t \in Idx : t = k - 1
    BY <1>11, <2>k DEF UndoEffect
  <2>1. /\ OnlyInst(w) /\ RowsKept(w, {k, t}) /\ Sent(w, CompensationCommand(w, t, uuid[w] + 1))
        /\ act'[w][k].status = s /\ act'[w][k].dir = act[w][k].dir
        /\ act'[w][k].cmd = act[w][k].cmd
        /\ act'[w][t].status = "compensating" /\ act'[w][t].dir = "compensation"
    BY <1>11, <2>k, <2>j DEF UndoEffect, RowIs, Cur
  <2>2. act[w][k].status \in Undoing => act'[w][k].status \in Undoing
    BY <1>11, <2>k, <2>1 DEF UndoEffect, LeftBehind, Cur, Undoing
  <2>3. act'[w][t].status \in Undoing
    BY <2>1 DEF Undoing
  <2>4. RowsMoveOn(w)
    BY <2>1, <2>2, <2>3, MoveOn DEF Sent
  <2> QED BY <2>1, <2>3, <2>4, <1>4
<1> QED BY <1>1, <1>2, <1>6, <1>7, <1>8, <1>9, <1>10, <1>11 DEF StepEffects

\* The undos dispatched earlier stay in reverse order when no Output changes
\* under them and no action takes effect.
LEMMA OldCompensations ==
    ASSUME StructInv, CommandInv, ReverseOrder, NEW w \in Instances, OnlyInst(w),
           \/ \A i \in Idx : act[w][i].status \notin Undoing
           \/ \A i \in Idx : /\ act[w][i].status \in Undoing => act'[w][i].out = act[w][i].out
                             /\ act[w][i].status = "compensated" => act'[w][i].status = "compensated"
                             /\ act'[w][i].out # 0 => act[w][i].out # 0
    PROVE  \A c \in outbox : c.dir = "compensation" =>
              /\ c.out # 0 /\ c.out = act'[c.wf][c.idx].out
              /\ \A j \in Done(c.wf)' : j > c.idx => act'[c.wf][j].status = "compensated"
<1> SUFFICES ASSUME NEW c \in outbox, c.dir = "compensation"
             PROVE  /\ c.out # 0 /\ c.out = act'[c.wf][c.idx].out
                    /\ \A j \in Done(c.wf)' : j > c.idx => act'[c.wf][j].status = "compensated"
  OBVIOUS
<1>1. /\ c.wf \in Instances /\ c.idx \in Idx /\ act[c.wf][c.idx].status \in Undoing
      /\ c.out # 0 /\ c.out = act[c.wf][c.idx].out
      /\ \A j \in Done(c.wf) : j > c.idx => act[c.wf][j].status = "compensated"
  BY TypeFacts DEF StructInv, CommandInv, CommandOK, ReverseOrder, Undoing
<1>2. CASE c.wf # w
  BY <1>1, <1>2 DEF OnlyInst, Done
<1>3. CASE c.wf = w
  <2>1. \A i \in Idx : /\ act[w][i].status \in Undoing => act'[w][i].out = act[w][i].out
                       /\ act[w][i].status = "compensated" => act'[w][i].status = "compensated"
                       /\ act'[w][i].out # 0 => act[w][i].out # 0
    BY <1>1, <1>3
  <2> QED BY <1>1, <1>3, <2>1 DEF Done
<1> QED BY <1>2, <1>3

\* Every step keeps compensation in reverse order.
LEMMA ReverseStep ==
    ASSUME StructInv, RowInv, CommandInv, ReverseOrder, StepEffects
    PROVE  ReverseOrder'
<1>t. /\ \A v \in Instances : inst[v].cur \in Idx /\ uuid[v] \in Nat
      /\ \A i \in Idx : i \in Int
      /\ \A c \in outbox : c.wf \in Instances /\ c.idx \in Idx
  BY TypeFacts, IdxFacts DEF StructInv
<1>s. ASSUME NEW v \in Instances
      PROVE  /\ inst[v].status \in {"running", "preparing"} => \A i \in Idx : act[v][i].status \notin Undoing
             /\ inst[v].status \in {"running", "compensating", "compensation_failed"} =>
                  /\ \A i \in Idx : i < inst[v].cur => act[v][i].status = "succeeded"
                  /\ \A i \in Idx : i > inst[v].cur => act[v][i].status \in {"compensated", "failed", "none"}
             /\ inst[v].status \in {"compensating", "compensation_failed"} =>
                  act[v][inst[v].cur].status = inst[v].status
  <2>1. inst[v].status = "preparing" => \A i \in Idx : act[v][i].status \notin Undoing
    BY DEF StructInv, SagaShape, Shape, Undoing
  <2>2. inst[v].status = "running" => \A i \in Idx : act[v][i].status \notin Undoing
    <3> SUFFICES ASSUME inst[v].status = "running", NEW i \in Idx PROVE act[v][i].status \notin Undoing
      OBVIOUS
    <3>1. i < inst[v].cur \/ i = inst[v].cur \/ i > inst[v].cur
      BY <1>t
    <3> QED BY <3>1 DEF StructInv, SagaShape, Shape, Undoing
  <2> QED BY <2>1, <2>2 DEF StructInv, SagaShape, Shape
<1>1. CASE QuietEffect
  <2>1. \A v \in Instances, i \in Idx : act'[v][i].status = act[v][i].status /\ act'[v][i].out = act[v][i].out
    BY <1>1 DEF QuietEffect, RowIs
  <2>2. \A v \in Instances : Done(v)' = Done(v)
    BY <2>1 DEF Done
  <2>3. outbox' = outbox
    BY <1>1 DEF QuietEffect
  <2> QED BY <2>1, <2>2, <2>3, <1>t DEF ReverseOrder, Done
<1>2. CASE ReplyEffect
  BY <1>2 DEF ReplyEffect, ReverseOrder, Done
<1>3. ASSUME NEW w \in Instances,
             \/ BeginEffect(w) \/ RedispatchEffect(w) \/ FailEffect(w) \/ FinishEffect(w) \/ AdvanceEffect(w)
      PROVE  ReverseOrder'
  <2>1. OnlyInst(w) /\ inst[w].status \in {"running", "preparing"}
    BY <1>3 DEF BeginEffect, RedispatchEffect, FailEffect, FinishEffect, AdvanceEffect
  <2>2. \A i \in Idx : act[w][i].status \notin Undoing
    BY <2>1, <1>s
  <2>3. \E x : x.dir = "forward" /\ (outbox' = outbox \cup {x} \/ outbox' = outbox)
    <3>1. \A i, id, x : ForwardCommand(w, i, id, x).dir = "forward"
      BY DEF ForwardCommand
    <3> QED BY <1>3, <3>1 DEF BeginEffect, RedispatchEffect, FailEffect, FinishEffect, AdvanceEffect, NothingSent, Sent
  <2> QED BY <2>1, <2>2, <2>3, OldCompensations DEF ReverseOrder
<1>4. ASSUME NEW w \in Instances, GiveUpEffect(w) \/ \E s \in {"failed", "compensated"} : UndoneEffect(w, s)
      PROVE  ReverseOrder'
  <2>k. PICK k \in Idx : k = inst[w].cur
    BY <1>t
  <2>1. /\ OnlyInst(w) /\ RowsKept(w, {k}) /\ outbox' = outbox
        /\ act'[w][k].out = act[w][k].out /\ act[w][k].status # "compensated"
    BY <1>4, <2>k, <1>s DEF GiveUpEffect, UndoneEffect, LeftBehind, NothingSent, RowIs, Cur
  <2>2. \A i \in Idx : /\ act[w][i].status \in Undoing => act'[w][i].out = act[w][i].out
                       /\ act[w][i].status = "compensated" => act'[w][i].status = "compensated"
                       /\ act'[w][i].out # 0 => act[w][i].out # 0
    BY <2>1 DEF RowsKept
  <2> QED BY <2>1, <2>2, OldCompensations DEF ReverseOrder
<1>5. ASSUME NEW w \in Instances, NEW k \in Idx, NEW t \in Idx, OnlyInst(w), RowsKept(w, {k, t}),
             k = inst[w].cur, t = k \/ t = k - 1,
             inst[w].status \in {"running", "compensating", "compensation_failed"},
             act[w][k].status # "compensated", act[w][t].status # "compensated",
             act'[w][k].out = act[w][k].out, act'[w][t].out = act[w][t].out,
             act[w][t].out # 0,
             t # k => (act[w][k].out # 0 => act'[w][k].status = "compensated"),
             Sent(w, CompensationCommand(w, t, uuid[w] + 1))
      PROVE  ReverseOrder'
  <2>1. \A i \in Idx : /\ act'[w][i].out = act[w][i].out
                       /\ act[w][i].status = "compensated" => act'[w][i].status = "compensated"
    BY <1>5 DEF RowsKept
  <2>2. PICK x : x = CompensationCommand(w, t, uuid[w] + 1)
    OBVIOUS
  <2>3. /\ x.wf = w /\ x.idx = t /\ x.dir = "compensation" /\ x.out = act[w][t].out
        /\ outbox' = outbox \cup {x}
    BY <1>5, <2>2 DEF CompensationCommand, Sent
  <2>4. ASSUME NEW j \in Done(w)', j > t PROVE act'[w][j].status = "compensated"
    <3>1. j \in Idx /\ act[w][j].out # 0
      BY <2>1, <2>4 DEF Done
    <3>2. (j = k /\ t # k) \/ (j > k /\ j # k /\ j # t)
      BY <3>1, <2>4, <1>5, <1>t
    <3>3. CASE j = k /\ t # k
      BY <3>1, <3>3, <1>5
    <3>4. CASE j > k /\ j # k /\ j # t
      <4>1. act[w][j].status \in {"compensated", "failed", "none"}
        BY <3>1, <3>4, <1>s, <1>5
      <4>2. act[w][j].status = "compensated"
        BY <3>1, <4>1 DEF RowInv, RowOK, Reached
      <4> QED BY <3>1, <4>2, <2>1
    <3> QED BY <3>2, <3>3, <3>4
  <2>5. \A c \in outbox : c.dir = "compensation" =>
              /\ c.out # 0 /\ c.out = act'[c.wf][c.idx].out
              /\ \A j \in Done(c.wf)' : j > c.idx => act'[c.wf][j].status = "compensated"
    BY <2>1, <1>5, OldCompensations
  <2>6. x.out # 0 /\ x.out = act'[x.wf][x.idx].out
    BY <2>3, <1>5
  <2>7. \A j \in Done(x.wf)' : j > x.idx => act'[x.wf][j].status = "compensated"
    BY <2>3, <2>4
  <2> QED BY <2>3, <2>5, <2>6, <2>7 DEF ReverseOrder
<1>6. ASSUME NEW w \in Instances, AgainEffect(w) PROVE ReverseOrder'
  <2>k. PICK k \in Idx : k = inst[w].cur
    BY <1>t
  <2>1. /\ OnlyInst(w) /\ RowsKept(w, {k, k}) /\ Sent(w, CompensationCommand(w, k, uuid[w] + 1))
        /\ act'[w][k].out = act[w][k].out
        /\ inst[w].status \in {"compensating", "compensation_failed"}
    BY <1>6, <2>k DEF AgainEffect, RowIs, Cur
  <2>2. act[w][k].status \in {"compensating", "compensation_failed"}
    BY <2>1, <2>k, <1>s
  <2>3. act[w][k].out # 0
    BY <2>2 DEF RowInv, RowOK, Reached
  <2> QED BY <2>k, <2>1, <2>2, <2>3, <1>5
<1>7. ASSUME NEW w \in Instances, NEW s \in {"failed", "compensated"}, UndoEffect(w, s) PROVE ReverseOrder'
  <2>k. PICK k \in Idx : k = inst[w].cur
    BY <1>t
  <2>j. PICK t \in Idx : t = k - 1
    BY <1>7, <2>k DEF UndoEffect
  <2>1. /\ OnlyInst(w) /\ RowsKept(w, {k, t}) /\ Sent(w, CompensationCommand(w, t, uuid[w] + 1))
        /\ act'[w][k].status = s /\ act'[w][k].out = act[w][k].out /\ act'[w][t].out = act[w][t].out
        /\ inst[w].status \in {"running", "compensating", "compensation_failed"}
    BY <1>7, <2>k, <2>j DEF UndoEffect, LeftBehind, RowIs, Cur
  <2>2. act[w][t].status = "succeeded"
    <3>1. t < k
      BY <2>j, <1>t
    <3> QED BY <3>1, <2>1, <2>k, <1>s
  <2>3. act[w][t].out # 0
    BY <2>2 DEF RowInv, RowOK, Reached
  <2>4. /\ act[w][k].status # "compensated"
        /\ s # "compensated" => act[w][k].status = "waiting_result"
    BY <1>7, <2>k, <1>s DEF UndoEffect, LeftBehind, Cur
  <2>5. act[w][k].out # 0 => act'[w][k].status = "compensated"
    BY <2>1, <2>4 DEF RowInv, RowOK, Reached
  <2> QED BY <2>k, <2>j, <2>1, <2>2, <2>3, <2>4, <2>5, <1>5
<1> QED BY <1>1, <1>2, <1>3, <1>4, <1>6, <1>7 DEF StepEffects

\* The three invariants together are inductive.
LEMMA CommandsStep ==
    ASSUME StructInv, IsFiniteSet(results), SagaInv, [Next]_vars
    PROVE  SagaInv'
<1>1. StepEffects /\ StructInv'
  BY StepEffect, StructStep
<1>2. RowInv'
  BY <1>1, RowStep DEF SagaInv
<1>3. ResultInv' /\ ResultAppliedOnce'
  BY <1>1, ResultStep DEF SagaInv
<1>4. CommandInv' /\ OneForwardCommand'
  BY <1>1, CommandStep DEF SagaInv
<1>5. ReverseOrder'
  BY <1>1, ReverseStep DEF SagaInv
<1> QED BY <1>2, <1>3, <1>4, <1>5 DEF SagaInv

\* They hold of an empty database.
LEMMA CommandsInit == Init => SagaInv
<1> SUFFICES ASSUME Init PROVE SagaInv
  OBVIOUS
<1>1. RowInv
  BY DEF Init, RowInv, RowOK, NoAction, Reached
<1> QED BY <1>1 DEF Init, SagaInv, CommandInv, ResultInv, ResultAppliedOnce, OneForwardCommand, ReverseOrder

\* For any number of instances, actions, workers, retries and faults: no two
\* results of one command are applied, all forward commands under one
\* idempotency key are one command, and compensation runs strictly in reverse
\* with the forward Output.
THEOREM SagaCorrect == Spec => [](ResultAppliedOnce /\ OneForwardCommand /\ ReverseOrder)
<1> DEFINE I == StructInv /\ IsFiniteSet(results) /\ SagaInv
<1>1. Init => I
  BY StructInit, CommandsInit
<1>2. I /\ [Next]_vars => I'
  BY StructStep, FiniteStep, CommandsStep
<1>3. I => ResultAppliedOnce /\ OneForwardCommand /\ ReverseOrder
  BY DEF SagaInv
<1> QED BY <1>1, <1>2, <1>3, PTL DEF Spec

---------------------------------------------------------------------------
(* Terminal instances *)

\* A succeeded, rejected or compensated instance and its actions never change
\* again, in any behaviour of the engine.
THEOREM TerminalInstances == Spec => TerminalStable
<1> DEFINE I == StructInv /\ IsFiniteSet(results)
           A == \A w \in Instances : inst[w].status \in {"succeeded", "rejected", "compensated"} =>
                   inst'[w].status = inst[w].status /\ act'[w] = act[w]
<1>1. Init => I
  BY StructInit
<1>2. I /\ [Next]_vars => I'
  BY StructStep, FiniteStep
<1>3. I /\ [Next]_vars => A
  <2> SUFFICES ASSUME I, [Next]_vars, NEW v \in Instances,
                      inst[v].status \in {"succeeded", "rejected", "compensated"}
               PROVE  inst'[v].status = inst[v].status /\ act'[v] = act[v]
    OBVIOUS
  <2>1. StepEffects
    BY StepEffect
  <2>2. CASE QuietEffect
    BY <2>2 DEF QuietEffect
  <2>3. CASE ReplyEffect
    BY <2>3 DEF ReplyEffect
  <2>4. ASSUME NEW w \in Instances, OnlyInst(w),
               inst[w].status \in {"preparing", "running", "compensating", "compensation_failed"}
        PROVE  inst'[v].status = inst[v].status /\ act'[v] = act[v]
    BY <2>4 DEF OnlyInst
  <2> QED BY <2>1, <2>2, <2>3, <2>4, ZenonT(60)
          DEF StepEffects, BeginEffect, RedispatchEffect, FailEffect, AdvanceEffect, FinishEffect, GiveUpEffect,
              AgainEffect, UndoneEffect, UndoEffect, LeftBehind
<1>4. A => [A]_vars
  OBVIOUS
<1> HIDE DEF I, A
<1>5. Spec => [][A]_vars
  BY <1>1, <1>2, <1>3, <1>4, PTL DEF Spec
<1> QED BY <1>5 DEF TerminalStable, A

---------------------------------------------------------------------------
(* The engine implements Saga *)

\* The abstract state of an instance depends on its status and position only.
LEMMA AbstractState ==
    ASSUME NEW v
    PROVE  /\ inst[v].status \in {"absent", "preparing"} => phaseOf(v) = "new" /\ depthOf(v) = 0
           /\ inst[v].status = "running" => phaseOf(v) = "forward" /\ depthOf(v) = inst[v].cur
           /\ inst[v].status = "succeeded" => phaseOf(v) = "succeeded" /\ depthOf(v) = NumActions
           /\ inst[v].status = "rejected" => phaseOf(v) = "rejected" /\ depthOf(v) = 0
           /\ inst[v].status = "compensating" => phaseOf(v) = "backward" /\ depthOf(v) = inst[v].cur + 1
           /\ inst[v].status = "compensated" => phaseOf(v) = "compensated" /\ depthOf(v) = 0
           /\ inst[v].status = "compensation_failed" => phaseOf(v) = "stuck" /\ depthOf(v) = inst[v].cur + 1
BY DEF phaseOf, depthOf

\* The same of the next state.
LEMMA AbstractNext ==
    ASSUME NEW v
    PROVE  /\ inst'[v].status \in {"absent", "preparing"} => phaseOf(v)' = "new" /\ depthOf(v)' = 0
           /\ inst'[v].status = "running" => phaseOf(v)' = "forward" /\ depthOf(v)' = inst'[v].cur
           /\ inst'[v].status = "succeeded" => phaseOf(v)' = "succeeded" /\ depthOf(v)' = NumActions
           /\ inst'[v].status = "rejected" => phaseOf(v)' = "rejected" /\ depthOf(v)' = 0
           /\ inst'[v].status = "compensating" => phaseOf(v)' = "backward" /\ depthOf(v)' = inst'[v].cur + 1
           /\ inst'[v].status = "compensated" => phaseOf(v)' = "compensated" /\ depthOf(v)' = 0
           /\ inst'[v].status = "compensation_failed" => phaseOf(v)' = "stuck" /\ depthOf(v)' = inst'[v].cur + 1
BY DEF phaseOf, depthOf

phases == [v \in Instances |-> phaseOf(v)]

depths == [v \in Instances |-> depthOf(v)]

\* Status and position of instance v.
Same(v) == inst'[v].status = inst[v].status /\ inst'[v].cur = inst[v].cur

\* An instance that keeps status and position keeps its abstract state.
LEMMA SameAbstract ==
    ASSUME NEW v, Same(v) PROVE phaseOf(v)' = phaseOf(v) /\ depthOf(v)' = depthOf(v)
BY DEF Same, phaseOf, depthOf

\* A step on instance w moves only w's abstract state.
LEMMA AbstractMove ==
    ASSUME NEW w \in Instances, \A v \in Instances : v # w => Same(v), NEW p, NEW d,
           phaseOf(w)' = p, depthOf(w)' = d
    PROVE  /\ phases' = [phases EXCEPT ![w] = p]
           /\ depths' = [depths EXCEPT ![w] = d]
           /\ d = depthOf(w) => depths' = depths
           /\ p = phaseOf(w) => phases' = phases
<1>1. \A v \in Instances : v # w => phaseOf(v)' = phaseOf(v) /\ depthOf(v)' = depthOf(v)
  BY SameAbstract
<1> QED BY <1>1 DEF phases, depths

\* Every effect is a step of Saga or a stutter.
LEMMA SagaRefinement ==
    ASSUME StructInv, StepEffects
    PROVE  (\E w \in Instances : Promise!SagaStep(w)) \/ UNCHANGED <<phases, depths>>
<1>t. /\ \A v \in Instances : inst[v].cur \in Idx /\ inst[v].status \in InstanceStatus
      /\ \A i \in Idx : i \in Int /\ i >= 0 /\ i < NumActions
      /\ NumActions \in Nat
  BY IdxFacts, EngineAssumption DEF StructInv, TypeOK, InstanceRow, Idx
<1>0. ASSUME \A v \in Instances : phaseOf(v)' = phaseOf(v) /\ depthOf(v)' = depthOf(v)
      PROVE  UNCHANGED <<phases, depths>>
  BY <1>0 DEF phases, depths
<1>m. /\ \A v \in Instances : phases[v] = phaseOf(v) /\ depths[v] = depthOf(v)
  BY DEF phases, depths
<1>o. ASSUME NEW w, OnlyInst(w) PROVE \A v \in Instances : v # w => Same(v)
  BY <1>o DEF OnlyInst, Same
<1>1. CASE QuietEffect
  <2>1. CASE \A v \in Instances : inst'[v].status # inst[v].status => inst[v].status = "absent"
    <3>1. ASSUME NEW v \in Instances PROVE phaseOf(v)' = phaseOf(v) /\ depthOf(v)' = depthOf(v)
      <4>1. CASE Same(v)
        BY <4>1, SameAbstract
      <4>2. CASE ~Same(v)
        <5>1. inst[v].status = "absent" /\ inst'[v].status = "preparing"
          BY <4>2, <2>1, <1>1 DEF QuietEffect, Same
        <5> QED BY <5>1, AbstractState, AbstractNext
      <4> QED BY <4>1, <4>2
    <3> QED BY <3>1, <1>0
  <2>2. ASSUME NEW w \in Instances, inst'[w].status # inst[w].status, inst[w].status # "absent"
        PROVE  Promise!SagaStep(w)
    <3>1. inst[w].status = "preparing" /\ inst'[w].status = "rejected"
      BY <2>2, <1>1 DEF QuietEffect
    <3>2. \A v \in Instances : v # w => Same(v)
      BY <2>2, <1>1 DEF QuietEffect, Same
    <3>3. phaseOf(w)' = "rejected" /\ depthOf(w)' = 0 /\ phaseOf(w) = "new" /\ depthOf(w) = 0
      BY <3>1, AbstractState, AbstractNext
    <3>4. phases[w] = "new" /\ phases' = [phases EXCEPT ![w] = "rejected"] /\ depths' = depths
      BY <3>2, <3>3, <1>m, AbstractMove
    <3>5. Promise!Reject(w)
      BY <3>4 DEF Promise!Reject, phases, depths
    <3> QED BY <3>5 DEF Promise!SagaStep
  <2> QED BY <2>1, <2>2
<1>2. CASE ReplyEffect
  BY <1>2, <1>0 DEF ReplyEffect, phaseOf, depthOf
<1>3. ASSUME NEW w \in Instances, BeginEffect(w) PROVE Promise!SagaStep(w)
  <2>1. inst[w].status = "preparing" /\ inst'[w].status = "running" /\ inst'[w].cur = 0 /\ OnlyInst(w)
    BY <1>3 DEF BeginEffect, InstIs
  <2>2. phaseOf(w)' = "forward" /\ depthOf(w)' = 0 /\ phaseOf(w) = "new" /\ depthOf(w) = 0
    BY <2>1, AbstractState, AbstractNext
  <2>3. phases[w] = "new" /\ phases' = [phases EXCEPT ![w] = "forward"] /\ depths' = depths
    BY <2>1, <2>2, <1>m, <1>o, AbstractMove
  <2>4. Promise!Begin(w)
    BY <2>3 DEF Promise!Begin, phases, depths
  <2> QED BY <2>4 DEF Promise!SagaStep
<1>4. ASSUME NEW w \in Instances, RedispatchEffect(w) \/ FailEffect(w) PROVE UNCHANGED <<phases, depths>>
  <2>1. \A v \in Instances : Same(v)
    BY <1>4 DEF RedispatchEffect, FailEffect, OnlyInst, InstIs, Same
  <2> QED BY <2>1, <1>0, SameAbstract
<1>5. ASSUME NEW w \in Instances, AdvanceEffect(w) \/ FinishEffect(w) PROVE Promise!SagaStep(w)
  <2>k. PICK k \in Idx : k = inst[w].cur
    BY <1>t
  <2>1. OnlyInst(w) /\ inst[w].status = "running"
    BY <1>5 DEF AdvanceEffect, FinishEffect
  <2>2. phaseOf(w) = "forward" /\ depthOf(w) = k
    BY <2>1, <2>k, AbstractState
  <2>3. /\ depthOf(w)' = k + 1
        /\ phaseOf(w)' = IF k + 1 = NumActions THEN "succeeded" ELSE "forward"
    <3>1. CASE AdvanceEffect(w)
      <4>1. inst'[w].status = "running" /\ inst'[w].cur = k + 1 /\ k + 1 \in Idx
        BY <3>1, <2>k DEF AdvanceEffect, InstIs
      <4>2. k + 1 # NumActions
        BY <4>1, <1>t
      <4> QED BY <4>1, <4>2, AbstractNext
    <3>2. CASE FinishEffect(w)
      <4>1. inst'[w].status = "succeeded" /\ k + 1 = NumActions
        BY <3>2, <2>k DEF FinishEffect, InstIs
      <4> QED BY <4>1, AbstractNext
    <3> QED BY <3>1, <3>2, <1>5
  <2>4. /\ phases[w] = "forward" /\ depths[w] = k
        /\ depths' = [depths EXCEPT ![w] = k + 1]
        /\ phases' = [phases EXCEPT ![w] = IF k + 1 = NumActions THEN "succeeded" ELSE "forward"]
    BY <2>1, <2>2, <2>3, <1>m, <1>o, AbstractMove
  <2>5. [v \in Instances |-> NumActions][w] = NumActions
    OBVIOUS
  <2>6. Promise!Advance(w)
    BY <2>4, <2>5 DEF Promise!Advance, phases, depths
  <2> QED BY <2>6 DEF Promise!SagaStep
<1>6. ASSUME NEW w \in Instances, GiveUpEffect(w) PROVE Promise!SagaStep(w)
  <2>1. /\ inst[w].status = "compensating" /\ inst'[w].status = "compensation_failed"
        /\ inst'[w].cur = inst[w].cur /\ OnlyInst(w)
    BY <1>6 DEF GiveUpEffect, InstIs
  <2>2. phaseOf(w)' = "stuck" /\ depthOf(w)' = depthOf(w) /\ phaseOf(w) = "backward"
    BY <2>1, AbstractState, AbstractNext
  <2>3. phases[w] = "backward" /\ phases' = [phases EXCEPT ![w] = "stuck"] /\ depths' = depths
    BY <2>1, <2>2, <1>m, <1>o, AbstractMove
  <2>4. Promise!GiveUp(w)
    BY <2>3 DEF Promise!GiveUp, phases, depths
  <2> QED BY <2>4 DEF Promise!SagaStep
<1>7. ASSUME NEW w \in Instances, AgainEffect(w) PROVE Promise!SagaStep(w) \/ UNCHANGED <<phases, depths>>
  <2>1. /\ inst[w].status \in {"compensating", "compensation_failed"} /\ inst'[w].status = "compensating"
        /\ inst'[w].cur = inst[w].cur /\ OnlyInst(w)
    BY <1>7 DEF AgainEffect, InstIs
  <2>2. CASE inst[w].status = "compensating"
    <3>1. \A v \in Instances : Same(v)
      BY <2>1, <2>2 DEF OnlyInst, Same
    <3> QED BY <3>1, <1>0, SameAbstract
  <2>3. CASE inst[w].status = "compensation_failed"
    <3>1. phaseOf(w)' = "backward" /\ depthOf(w)' = depthOf(w) /\ phaseOf(w) = "stuck"
      BY <2>1, <2>3, AbstractState, AbstractNext
    <3>2. phases[w] = "stuck" /\ phases' = [phases EXCEPT ![w] = "backward"] /\ depths' = depths
      BY <2>1, <3>1, <1>m, <1>o, AbstractMove
    <3>3. Promise!Resume(w)
      BY <3>2 DEF Promise!Resume, phases, depths
    <3> QED BY <3>3 DEF Promise!SagaStep
  <2> QED BY <2>1, <2>2, <2>3
<1>8. ASSUME NEW w \in Instances, NEW s \in {"failed", "compensated"}, UndoneEffect(w, s) \/ UndoEffect(w, s)
      PROVE  Promise!SagaStep(w)
  <2>k. PICK k \in Idx : k = inst[w].cur
    BY <1>t
  <2>i. k \in Int /\ k >= 0
    BY <1>t
  <2>1. OnlyInst(w) /\ inst[w].status \in {"running", "compensating", "compensation_failed"}
    BY <1>8 DEF UndoneEffect, UndoEffect, LeftBehind
  <2>2. /\ depthOf(w)' = k
        /\ phaseOf(w)' = IF k = 0 THEN "compensated" ELSE "backward"
    <3>1. CASE UndoneEffect(w, s)
      <4>1. inst'[w].status = "compensated" /\ k = 0
        BY <3>1, <2>k DEF UndoneEffect, InstIs
      <4> QED BY <4>1, AbstractNext
    <3>2. CASE UndoEffect(w, s)
      <4>1. inst'[w].status = "compensating" /\ inst'[w].cur = k - 1 /\ k - 1 \in Idx
        BY <3>2, <2>k DEF UndoEffect, InstIs
      <4>2. k # 0 /\ inst'[w].cur + 1 = k
        BY <4>1, <2>i, <1>t
      <4> QED BY <4>1, <4>2, AbstractNext
    <3> QED BY <3>1, <3>2, <1>8
  <2>3. CASE inst[w].status = "running"
    <3>1. phaseOf(w) = "forward" /\ depthOf(w) = k
      BY <2>3, <2>k, AbstractState
    <3>2. /\ phases[w] = "forward" /\ depths[w] = k /\ depths' = depths
          /\ phases' = [phases EXCEPT ![w] = IF k = 0 THEN "compensated" ELSE "backward"]
      BY <3>1, <2>1, <2>2, <1>m, <1>o, AbstractMove
    <3>3. Promise!TurnBack(w)
      BY <3>2 DEF Promise!TurnBack, phases, depths
    <3> QED BY <3>3 DEF Promise!SagaStep
  <2>4. CASE inst[w].status \in {"compensating", "compensation_failed"}
    <3>1. phaseOf(w) \in {"backward", "stuck"} /\ depthOf(w) = k + 1
      BY <2>4, <2>k, AbstractState
    <3>2. /\ phases[w] \in {"backward", "stuck"} /\ depths[w] = k + 1
          /\ depths' = [depths EXCEPT ![w] = k]
          /\ phases' = [phases EXCEPT ![w] = IF k = 0 THEN "compensated" ELSE "backward"]
      BY <3>1, <2>1, <2>2, <1>m, <1>o, AbstractMove
    <3>3. k = depths[w] - 1 /\ (k = 0 <=> depths[w] = 1)
      BY <3>2, <2>i
    <3>4. /\ depths' = [depths EXCEPT ![w] = depths[w] - 1]
          /\ phases' = [phases EXCEPT ![w] = IF depths[w] = 1 THEN "compensated" ELSE "backward"]
      BY <3>2, <3>3
    <3>5. Promise!Undo(w)
      BY <3>2, <3>4 DEF Promise!Undo, phases, depths
    <3> QED BY <3>5 DEF Promise!SagaStep
  <2> QED BY <2>1, <2>3, <2>4
<1> QED BY <1>1, <1>2, <1>3, <1>4, <1>5, <1>6, <1>7, <1>8 DEF StepEffects

\* The engine implements the abstract saga: actions take effect one after the
\* other and are undone one after the other, last first, and the workflow ends
\* with all of the effects or with none.
THEOREM EngineImplementsSaga == Spec => ImplementsSaga
<1> DEFINE I == StructInv /\ IsFiniteSet(results)
<1>1. Init => I
  BY StructInit
<1>2. I /\ [Next]_vars => I'
  BY StructStep, FiniteStep
<1>3. Init => Promise!SagaInit
  BY DEF Init, NoInstance, Promise!SagaInit, phaseOf, depthOf
<1>4. I /\ [Next]_vars => [Promise!SagaNext]_<<phases, depths>>
  BY StepEffect, SagaRefinement DEF Promise!SagaNext
<1>5. I /\ [Next]_vars =>
        [Promise!SagaNext]_<<[w \in Instances |-> phaseOf(w)], [w \in Instances |-> depthOf(w)]>>
  BY <1>4 DEF phases, depths
<1> QED BY <1>1, <1>2, <1>3, <1>5, PTL DEF Spec, ImplementsSaga, Promise!SagaSpec

---------------------------------------------------------------------------
(* Leases *)

\* A lease carries the configured name of the worker whose claim set it.
LeaseNamed ==
    \A w \in Instances : inst[w].owner # None => /\ holder[w] \in Workers
                                                 /\ OwnerName[holder[w]] = inst[w].owner

\* Unless a lease of the instance ran out under a worker, who has the
\* instance in hand holds its lease, and the lease has not run out.
LeaseHeld ==
    \A w \in Instances, o \in Workers : InHand(o, w) /\ w \notin overrun =>
        holder[w] = o /\ inst[w].owner # None /\ inst[w].live

\* A sweep takes each instance of its batch once.
SweepOnce == \A o \in Workers : proc[o].wf \notin proc[o].batch

LeaseInv == LeaseNamed /\ LeaseHeld /\ SweepOnce

\* The steps that leave leases alone.
LeaseFrame ==
    /\ \A v \in Instances : /\ inst'[v].owner = inst[v].owner /\ inst'[v].live = inst[v].live
                            /\ holder'[v] = holder[v]
    /\ overrun' = overrun

\* The steps in which no worker gets an instance in hand.
HandsFrame ==
    \A o \in Workers : /\ \A w \in Instances : InHand(o, w)' => InHand(o, w)
                       /\ proc'[o].wf \notin proc'[o].batch

\* The updates of an instance row that keep its lease.
LEMMA OwnerKept ==
    ASSUME TypeOK, NEW w \in Instances, NEW s, NEW k, NEW x, holder' = holder, overrun' = overrun,
           \/ inst' = [inst EXCEPT ![w].status = s]
           \/ inst' = [inst EXCEPT ![w].cur = k]
           \/ inst' = [inst EXCEPT ![w].status = s, ![w].cur = k]
           \/ inst' = [inst EXCEPT ![w].status = s, ![w].ctx = x, ![w].cur = k]
    PROVE  LeaseFrame
<1>1. CASE inst' = [inst EXCEPT ![w].status = s]
  BY <1>1 DEF TypeOK, InstanceRow, LeaseFrame
<1>2. CASE inst' = [inst EXCEPT ![w].cur = k]
  BY <1>2 DEF TypeOK, InstanceRow, LeaseFrame
<1>3. CASE inst' = [inst EXCEPT ![w].status = s, ![w].cur = k]
  BY <1>3 DEF TypeOK, InstanceRow, LeaseFrame
<1>4. CASE inst' = [inst EXCEPT ![w].status = s, ![w].ctx = x, ![w].cur = k]
  BY <1>4 DEF TypeOK, InstanceRow, LeaseFrame
<1> QED BY <1>1, <1>2, <1>3, <1>4

\* The walks of compensation do not touch the lease.
LEMMA WalkKeepsLease ==
    ASSUME TypeOK, NEW w \in Instances, NEW i, NEW row, holder' = holder, overrun' = overrun,
           CompensateBelow(w, i, row) \/ CompensateAgain(w)
    PROVE  LeaseFrame
<1>1. \/ inst' = [inst EXCEPT ![w].status = "compensated"]
      \/ inst' = [inst EXCEPT ![w].status = "compensating"]
      \/ \E t : inst' = [inst EXCEPT ![w].status = "compensating", ![w].cur = t]
  BY DEF CompensateBelow, CompensateAgain
<1> QED BY <1>1, OwnerKept

\* Only a claim, a release and the clock touch a lease.
LEMMA LeaseSteps ==
    ASSUME StructInv, [Next]_vars
    PROVE  \/ LeaseFrame
           \/ \E o \in Workers : ClaimRunnable(o) \/ ReleaseLease(o)
           \/ \E w \in Instances : LeaseExpires(w)
<1>t. TypeOK
  BY DEF StructInv
<1>0. ASSUME inst' = inst /\ holder' = holder /\ overrun' = overrun PROVE LeaseFrame
  BY <1>0 DEF LeaseFrame
<1>1. ASSUME NEW w \in Instances, Start(w) \/ \E c \in Callers : StartAndPrepare(c, w)
      PROVE  LeaseFrame
  <2>1. inst' = [inst EXCEPT ![w].status = "preparing"]
    BY <1>1 DEF Start, StartAndPrepare
  <2>2. holder' = holder /\ overrun' = overrun
    BY <1>1 DEF Start, StartAndPrepare
  <2> QED BY <2>1, <2>2, <1>t, OwnerKept
<1>2. ASSUME NEW p \in Procs, ReadHeader(p) \/ StepError(p) \/ Crash(p) PROVE LeaseFrame
  BY <1>2, <1>0 DEF ReadHeader, StepError, Crash
<1>3. ASSUME NEW p \in Procs, rejectInstance(p) \/ dispatchFirstAction(p) PROVE LeaseFrame
  <2>0. PICK w \in Instances : w = proc[p].wf
    BY <1>3 DEF rejectInstance, dispatchFirstAction, StructInv, ProcShape
  <2>1. \/ inst' = inst
        \/ inst' = [inst EXCEPT ![w].status = "rejected"]
        \/ inst' = [inst EXCEPT ![w].status = "running", ![w].ctx = proc[p].ctx, ![w].cur = 0]
    BY <1>3, <2>0 DEF rejectInstance, dispatchFirstAction
  <2>2. holder' = holder /\ overrun' = overrun
    BY <1>3 DEF rejectInstance, dispatchFirstAction
  <2>3. CASE inst' = [inst EXCEPT ![w].status = "rejected"]
    BY <2>2, <2>3, <1>t, OwnerKept
  <2>4. CASE inst' = [inst EXCEPT ![w].status = "running", ![w].ctx = proc[p].ctx, ![w].cur = 0]
    BY <2>2, <2>4, <1>t, OwnerKept
  <2> QED BY <2>1, <2>2, <2>3, <2>4, <1>0
<1>4. ASSUME NEW r \in results, ApplyResult(r) PROVE LeaseFrame
  <2>0. PICK w \in Instances : w = r.wf
    BY DEF StructInv, TypeOK, Result
  <2>1. holder' = holder /\ overrun' = overrun
    BY <1>4 DEF ApplyResult, applyForwardFailure, applyForwardSuccess, applyCompensationFailure,
                applyCompensationSuccess
  <2>2. \/ inst' = inst
        \/ inst' = [inst EXCEPT ![w].status = "succeeded"]
        \/ inst' = [inst EXCEPT ![w].status = "compensation_failed"]
        \/ inst' = [inst EXCEPT ![w].cur = r.idx + 1]
        \/ CompensateAgain(w)
        \/ \E row : CompensateBelow(w, r.idx, row)
    BY <1>4, <2>0 DEF ApplyResult, applyForwardFailure, applyForwardSuccess, applyCompensationFailure,
                applyCompensationSuccess
  <2>3. CASE \/ inst' = inst
             \/ inst' = [inst EXCEPT ![w].status = "succeeded"]
             \/ inst' = [inst EXCEPT ![w].status = "compensation_failed"]
             \/ inst' = [inst EXCEPT ![w].cur = r.idx + 1]
    BY <2>1, <2>3, <1>t, <1>0, OwnerKept
  <2> QED BY <2>1, <2>2, <2>3, <1>t, WalkKeepsLease
<1>5. ASSUME NEW w \in Instances, RetryCompensation(w) \/ \E i \in Idx : ResolveCompensation(w, i)
      PROVE  LeaseFrame
  BY <1>5, <1>t, WalkKeepsLease DEF RetryCompensation, ResolveCompensation
<1>6. ASSUME NEW o \in Workers, NextInBatch(o) \/ Redispatch(o) PROVE LeaseFrame
  BY <1>6, <1>0 DEF NextInBatch, Redispatch
<1>7. ASSUME NEW w, DeadlinePasses(w) PROVE LeaseFrame
  BY <1>7, <1>0 DEF DeadlinePasses
<1>8. ASSUME NEW c, NEW o, LoseCommand(c) \/ Redeliver(c) \/ ParticipantReply(c, o) PROVE LeaseFrame
  BY <1>8, <1>0 DEF LoseCommand, Redeliver, ParticipantReply
<1>9. CASE UNCHANGED vars
  BY <1>9, <1>0 DEF vars
<1> QED BY <1>1, <1>2, <1>3, <1>4, <1>5, <1>6, <1>7, <1>8, <1>9 DEF Next, Prepare, Recovery, Environment

\* Only a claim gives a worker an instance.
LEMMA HandsSteps ==
    ASSUME StructInv, SweepOnce, [Next]_vars
    PROVE  HandsFrame \/ \E o \in Workers : ClaimRunnable(o)
<1>t. /\ proc \in [Procs -> ProcState] /\ None \notin Instances /\ Workers \cap Callers = {}
      /\ \A o \in Workers : o \in Procs /\ proc[o].batch \subseteq Instances
  BY EngineAssumption DEF StructInv, TypeOK, ProcState, Procs
<1>0. ASSUME NEW p \in Procs, \A q \in Procs : q # p => proc'[q] = proc[q],
             p \in Workers => \/ proc'[p].wf = proc[p].wf /\ proc'[p].batch = proc[p].batch
                              \/ proc'[p].wf = None /\ proc'[p].batch \in {proc[p].batch, {}}
                              \/ /\ proc'[p].wf \in proc[p].batch
                                 /\ proc'[p].batch = proc[p].batch \ {proc'[p].wf}
      PROVE  HandsFrame
  <2> SUFFICES ASSUME NEW o \in Workers
               PROVE  /\ \A w \in Instances : InHand(o, w)' => InHand(o, w)
                      /\ proc'[o].wf \notin proc'[o].batch
    BY DEF HandsFrame
  <2>1. CASE o # p
    BY <2>1, <1>0, <1>t DEF InHand, SweepOnce
  <2>2. CASE o = p
    BY <2>2, <1>0, <1>t DEF InHand, SweepOnce
  <2> QED BY <2>1, <2>2
<1>1. ASSUME proc' = proc PROVE HandsFrame
  BY <1>1 DEF HandsFrame, InHand, SweepOnce
<1>2. ASSUME NEW p \in Procs, NEW pc, proc' = Goto(p, pc) PROVE HandsFrame
  <2>1. CASE pc = "idle"
    <3>1. proc' = [proc EXCEPT ![p] = Idle]
      BY <1>2, <2>1 DEF Goto
    <3>2. proc'[p] = Idle /\ \A q \in Procs : q # p => proc'[q] = proc[q]
      BY <3>1, <1>t
    <3> QED BY <3>2, <1>0 DEF Idle
  <2>2. CASE pc # "idle"
    <3>1. proc' = [proc EXCEPT ![p].pc = pc, ![p].ctx = None]
      BY <1>2, <2>2 DEF Goto
    <3>2. /\ proc'[p].wf = proc[p].wf /\ proc'[p].batch = proc[p].batch
          /\ \A q \in Procs : q # p => proc'[q] = proc[q]
      BY <3>1, <1>t DEF ProcState
    <3> QED BY <3>2, <1>0
  <2> QED BY <2>1, <2>2
<1>3. ASSUME NEW p \in Procs, Prepare(p) \/ StepError(p) \/ Crash(p) PROVE HandsFrame
  <2>1. \/ \E pc : proc' = Goto(p, pc)
        \/ \E c : proc' = [proc EXCEPT ![p].pc = "commit", ![p].ctx = c]
    BY <1>3 DEF Prepare, ReadHeader, rejectInstance, dispatchFirstAction, StepError, Crash
  <2>2. ASSUME NEW c, proc' = [proc EXCEPT ![p].pc = "commit", ![p].ctx = c] PROVE HandsFrame
    <3>1. /\ proc'[p].wf = proc[p].wf /\ proc'[p].batch = proc[p].batch
          /\ \A q \in Procs : q # p => proc'[q] = proc[q]
      BY <2>2, <1>t DEF ProcState
    <3> QED BY <3>1, <1>0
  <2> QED BY <2>1, <2>2, <1>2
<1>4. ASSUME NEW c \in Callers, NEW w \in Instances, StartAndPrepare(c, w) PROVE HandsFrame
  <2>1. c \in Procs /\ c \notin Workers /\ \A q \in Procs : q # c => proc'[q] = proc[q]
    BY <1>4, <1>t DEF StartAndPrepare, Procs
  <2> QED BY <2>1, <1>0
<1>5. ASSUME NEW o \in Workers, NextInBatch(o) PROVE HandsFrame
  <2>1. CASE proc' = Goto(o, "idle")
    BY <2>1, <1>2, <1>t
  <2>2. CASE \E w \in proc[o].batch :
                proc' = [proc EXCEPT ![o].pc = "header", ![o].wf = w, ![o].batch = proc[o].batch \ {w}]
    <3>1. PICK w \in proc[o].batch :
             proc' = [proc EXCEPT ![o].pc = "header", ![o].wf = w, ![o].batch = proc[o].batch \ {w}]
      BY <2>2
    <3>2. /\ proc'[o].wf = w /\ proc'[o].batch = proc[o].batch \ {w}
          /\ \A q \in Procs : q # o => proc'[q] = proc[q]
      BY <3>1, <1>t DEF ProcState
    <3> QED BY <3>2, <1>0, <1>t
  <2> QED BY <1>5, <2>1, <2>2 DEF NextInBatch
<1>6. ASSUME NEW o \in Workers, Redispatch(o) PROVE HandsFrame
  <2>1. proc' = Goto(o, "release")
    BY <1>6 DEF Redispatch
  <2> QED BY <2>1, <1>2, <1>t
<1>7. ASSUME NEW o \in Workers, ReleaseLease(o) PROVE HandsFrame
  <2>1. proc' = [proc EXCEPT ![o].pc = "sweep", ![o].wf = None]
    BY <1>7 DEF ReleaseLease
  <2>2. /\ proc'[o].wf = None /\ proc'[o].batch = proc[o].batch
        /\ \A q \in Procs : q # o => proc'[q] = proc[q]
    BY <2>1, <1>t DEF ProcState
  <2> QED BY <2>2, <1>0, <1>t
<1>8. ASSUME NEW w, \/ Start(w) \/ RetryCompensation(w) \/ \E i \in Idx : ResolveCompensation(w, i)
                    \/ DeadlinePasses(w) \/ LeaseExpires(w)
      PROVE  HandsFrame
  BY <1>8, <1>1 DEF Start, RetryCompensation, ResolveCompensation, DeadlinePasses, LeaseExpires
<1>9. ASSUME NEW r, ApplyResult(r) PROVE HandsFrame
  BY <1>9, <1>1 DEF ApplyResult, applyForwardFailure, applyForwardSuccess, applyCompensationFailure,
                    applyCompensationSuccess
<1>10. ASSUME NEW c, NEW o, LoseCommand(c) \/ Redeliver(c) \/ ParticipantReply(c, o) PROVE HandsFrame
  BY <1>10, <1>1 DEF LoseCommand, Redeliver, ParticipantReply
<1>11. CASE UNCHANGED vars
  BY <1>11, <1>1 DEF vars
<1> QED BY <1>3, <1>4, <1>5, <1>6, <1>7, <1>8, <1>9, <1>10, <1>11 DEF Next, Recovery, Environment

\* A release: who has the name in the lease clears it, and who has the
\* instance in hand holds the lease unless it had run out.
Cleared(o, w) ==
    /\ proc[o].pc = "release" /\ proc[o].wf = w
    /\ \/ o = holder[w]
       \/ OwnerName[o] = OwnerName[holder[w]] /\ w \in overrun

\* Every step keeps LeaseInv, and a lease disappears only as Cleared says.
LEMMA LeaseStep ==
    ASSUME StructInv, LeaseInv, [Next]_vars
    PROVE  /\ LeaseInv'
           /\ \A w \in Instances : inst[w].owner # None /\ inst'[w].owner = None =>
                 \E o \in Workers : Cleared(o, w)
<1>t. /\ TypeOK /\ None \notin Owners /\ None \notin Instances
      /\ \A o \in Workers : OwnerName[o] \in Owners /\ o \in Procs
  BY EngineAssumption DEF StructInv, Procs
<1>1. CASE LeaseFrame /\ HandsFrame
  <2>1. LeaseNamed' /\ LeaseHeld' /\ SweepOnce'
    BY <1>1 DEF LeaseFrame, HandsFrame, LeaseInv, LeaseNamed, LeaseHeld, SweepOnce
  <2> QED BY <1>1, <2>1 DEF LeaseFrame, LeaseInv
<1>2. ASSUME NEW o \in Workers, ClaimRunnable(o)
      PROVE  LeaseInv' /\ \A w \in Instances : inst[w].owner # None => inst'[w].owner # None
  <2>1. PICK ids \in SUBSET {w \in Instances : LeaseFree(w) /\ Runnable(w)} :
          /\ inst' = [w \in Instances |->
                        IF w \in ids THEN [inst[w] EXCEPT !.owner = OwnerName[o], !.live = TRUE]
                        ELSE inst[w]]
          /\ holder' = [w \in Instances |-> IF w \in ids THEN o ELSE holder[w]]
          /\ proc' = [proc EXCEPT ![o] = [Idle EXCEPT !.pc = "sweep", !.batch = ids]]
          /\ overrun' = overrun
    BY <1>2 DEF ClaimRunnable
  <2>2. \A w \in Instances :
          /\ w \in ids => /\ inst'[w].owner = OwnerName[o] /\ inst'[w].live /\ holder'[w] = o
                          /\ LeaseFree(w)
          /\ w \notin ids => inst'[w] = inst[w] /\ holder'[w] = holder[w]
    <3> SUFFICES ASSUME NEW w \in Instances
                 PROVE  /\ w \in ids => /\ inst'[w].owner = OwnerName[o] /\ inst'[w].live
                                        /\ holder'[w] = o /\ LeaseFree(w)
                        /\ w \notin ids => inst'[w] = inst[w] /\ holder'[w] = holder[w]
      OBVIOUS
    <3>1. /\ inst'[w] = IF w \in ids THEN [inst[w] EXCEPT !.owner = OwnerName[o], !.live = TRUE]
                        ELSE inst[w]
          /\ holder'[w] = IF w \in ids THEN o ELSE holder[w]
          /\ w \in ids => LeaseFree(w)
      BY <2>1
    <3>2. inst[w] \in InstanceRow
      BY <1>t DEF TypeOK
    <3> QED BY <3>1, <3>2 DEF InstanceRow
  <2>3. /\ proc'[o].wf = None /\ proc'[o].batch = ids
        /\ \A p \in Workers : p # o => proc'[p] = proc[p]
    BY <2>1, <1>t DEF TypeOK, Idle
  <2>4. LeaseNamed'
    BY <2>2, <1>t DEF LeaseInv, LeaseNamed
  <2>5. SweepOnce'
    BY <2>1, <2>3, <1>t DEF LeaseInv, SweepOnce
  <2>6. LeaseHeld'
    <3> SUFFICES ASSUME NEW w \in Instances, NEW p \in Workers, InHand(p, w)', w \notin overrun
                 PROVE  holder'[w] = p /\ inst'[w].owner # None /\ inst'[w].live
      BY <2>1 DEF LeaseHeld
    <3>1. CASE p = o
      <4>1. w \in ids
        BY <3>1, <2>3, <1>t DEF InHand
      <4> QED BY <4>1, <3>1, <2>2, <1>t
    <3>2. CASE p # o
      <4>1. InHand(p, w)
        BY <3>2, <2>3 DEF InHand
      <4>2. holder[w] = p /\ inst[w].owner # None /\ inst[w].live
        BY <4>1 DEF LeaseInv, LeaseHeld
      <4>3. w \notin ids
        BY <4>2, <2>2 DEF LeaseFree
      <4> QED BY <4>2, <4>3, <2>2
    <3> QED BY <3>1, <3>2
  <2> QED BY <2>2, <2>4, <2>5, <2>6, <1>t DEF LeaseInv
<1>3. ASSUME NEW o \in Workers, ReleaseLease(o), HandsFrame
      PROVE  /\ LeaseInv'
             /\ \A w \in Instances : inst[w].owner # None /\ inst'[w].owner = None => Cleared(o, w)
  <2>0. PICK w \in Instances : w = proc[o].wf /\ proc[o].pc = "release" /\ InHand(o, w)
    BY <1>3 DEF ReleaseLease, StructInv, ProcShape, Procs, InHand
  <2>s. SweepOnce' /\ overrun' = overrun
    BY <1>3 DEF HandsFrame, SweepOnce, ReleaseLease
  <2>1. CASE ~OwnsLease(o, w)
    <3>1. inst' = inst /\ holder' = holder
      BY <1>3, <2>0, <2>1 DEF ReleaseLease
    <3>2. LeaseNamed' /\ LeaseHeld'
      BY <1>3, <2>s, <3>1 DEF HandsFrame, LeaseInv, LeaseNamed, LeaseHeld
    <3> QED BY <2>s, <3>1, <3>2 DEF LeaseInv
  <2>2. CASE OwnsLease(o, w)
    <3>1. /\ inst' = [inst EXCEPT ![w].owner = None, ![w].live = FALSE]
          /\ holder' = [holder EXCEPT ![w] = None]
          /\ proc' = [proc EXCEPT ![o].pc = "sweep", ![o].wf = None]
          /\ inst[w].owner = OwnerName[o]
      BY <1>3, <2>0, <2>2 DEF ReleaseLease, OwnsLease
    <3>2. /\ inst'[w].owner = None
          /\ \A v \in Instances : v # w => inst'[v] = inst[v] /\ holder'[v] = holder[v]
      BY <3>1, <1>t DEF TypeOK, InstanceRow
    <3>3. ~InHand(o, w)'
      <4>1. proc'[o].wf = None /\ proc'[o].batch = proc[o].batch
        BY <3>1, <1>t DEF TypeOK, ProcState
      <4> QED BY <4>1, <2>0, <1>t DEF InHand, LeaseInv, SweepOnce
    <3>4. w \notin overrun => holder[w] = o
      BY <2>0 DEF LeaseInv, LeaseHeld
    <3>5. LeaseNamed'
      BY <3>2 DEF LeaseInv, LeaseNamed
    <3>6. LeaseHeld'
      <4> SUFFICES ASSUME NEW v \in Instances, NEW p \in Workers, InHand(p, v)', v \notin overrun
                   PROVE  holder'[v] = p /\ inst'[v].owner # None /\ inst'[v].live
        BY <2>s DEF LeaseHeld
      <4>1. InHand(p, v)
        BY <1>3 DEF HandsFrame
      <4>2. holder[v] = p /\ inst[v].owner # None /\ inst[v].live
        BY <4>1 DEF LeaseInv, LeaseHeld
      <4>3. v # w
        BY <4>2, <3>3, <3>4
      <4> QED BY <4>2, <4>3, <3>2
    <3>7. inst[w].owner # None => Cleared(o, w)
      BY <2>0, <3>1, <3>4 DEF Cleared, LeaseInv, LeaseNamed
    <3> QED BY <2>s, <3>2, <3>5, <3>6, <3>7 DEF LeaseInv
  <2> QED BY <2>1, <2>2
<1>4. ASSUME NEW w \in Instances, LeaseExpires(w), HandsFrame
      PROVE  LeaseInv' /\ \A v \in Instances : inst'[v].owner = inst[v].owner
  <2>1. /\ inst' = [inst EXCEPT ![w].live = FALSE] /\ holder' = holder /\ proc' = proc
        /\ overrun' = IF \E o \in Workers : InHand(o, w) THEN overrun \cup {w} ELSE overrun
    BY <1>4 DEF LeaseExpires
  <2>2. \A v \in Instances : inst'[v].owner = inst[v].owner /\ (v # w => inst'[v] = inst[v])
    BY <2>1, <1>t DEF TypeOK, InstanceRow
  <2>3. LeaseNamed'
    BY <2>1, <2>2 DEF LeaseInv, LeaseNamed
  <2>4. LeaseHeld'
    <3> SUFFICES ASSUME NEW v \in Instances, NEW p \in Workers, InHand(p, v)', v \notin overrun'
                 PROVE  holder'[v] = p /\ inst'[v].owner # None /\ inst'[v].live
      BY DEF LeaseHeld
    <3>1. InHand(p, v)
      BY <2>1 DEF InHand
    <3>2. v # w /\ v \notin overrun
      BY <2>1, <3>1
    <3>3. holder[v] = p /\ inst[v].owner # None /\ inst[v].live
      BY <3>1, <3>2 DEF LeaseInv, LeaseHeld
    <3> QED BY <2>1, <2>2, <3>2, <3>3
  <2>5. SweepOnce'
    BY <1>4 DEF HandsFrame, SweepOnce
  <2> QED BY <2>2, <2>3, <2>4, <2>5 DEF LeaseInv
<1>5. CASE \E o \in Workers : ClaimRunnable(o)
  BY <1>5, <1>2
<1>6. CASE HandsFrame
  <2>1. CASE LeaseFrame
    BY <1>1, <1>6, <2>1
  <2>2. CASE \E o \in Workers : ReleaseLease(o)
    BY <1>3, <1>6, <2>2
  <2>3. CASE \E w \in Instances : LeaseExpires(w)
    BY <1>4, <1>6, <2>3
  <2> QED BY <1>5, <2>1, <2>2, <2>3, LeaseSteps
<1> QED BY <1>5, <1>6, HandsSteps DEF LeaseInv

\* Whatever names the replicas have, a lease is cleared by the worker whose
\* claim it is, or by one of the same name after a lease ran out under a worker.
THEOREM LeaseSafety == Spec => LeaseReleasedByHolder
<1> DEFINE I == StructInv /\ IsFiniteSet(results) /\ LeaseInv
           A == \A w \in Instances : inst[w].owner # None /\ inst'[w].owner = None =>
                   \E o \in Workers :
                       /\ proc[o].pc = "release" /\ proc[o].wf = w
                       /\ \/ o = holder[w]
                          \/ OwnerName[o] = OwnerName[holder[w]] /\ w \in overrun
<1>1. Init => I
  <2>1. Init => LeaseInv
    BY EngineAssumption DEF Init, LeaseInv, LeaseNamed, LeaseHeld, SweepOnce, InHand, NoInstance, Idle, Procs
  <2> QED BY <2>1, StructInit DEF Init
<1>2. I /\ [Next]_vars => I'
  BY StructStep, FiniteStep, LeaseStep
<1>3. I /\ [Next]_vars => [A]_vars
  BY LeaseStep DEF Cleared
<1> HIDE DEF I, A
<1>4. Spec => [][A]_vars
  BY <1>1, <1>2, <1>3, PTL DEF Spec
<1> QED BY <1>4 DEF LeaseReleasedByHolder, A
=============================================================================
