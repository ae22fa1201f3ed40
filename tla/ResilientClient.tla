--------------------------- MODULE ResilientClient ---------------------------
(***************************************************************************)
(* The HTTP client of the commerce services (platform/client/client.go)    *)
(* with the circuit breaker of one upstream (platform/client/breaker.go).  *)
(*                                                                         *)
(* Goroutines call Do at the same time and share the breaker.  A call asks *)
(* the breaker before every attempt, sends the request, tells the breaker  *)
(* how it ended (Record, or Abandon when a context ended) and sleeps       *)
(* before the next attempt.  Allow, Record and Abandon are atomic, but an  *)
(* attempt that was allowed while the breaker was closed may end when it   *)
(* is half-open and another call is its probe.  Record and Abandon do not  *)
(* know whose outcome they are told, so they give up the probe of another  *)
(* and the next caller probes beside it.                                   *)
(***************************************************************************)
EXTENDS Naturals

CONSTANTS
    Callers,           \* goroutines, each making one call after the other
    FailureThreshold,  \* consecutive failures that open the breaker
    MaxAttempts        \* attempts of a call that may be retried

ASSUME ClientAssumption ==
    FailureThreshold \in Nat \ {0} /\ MaxAttempts \in Nat \ {0}

VARIABLES
    state,     \* Breaker.state
    failures,  \* Breaker.failures
    cooled,    \* openedTo has passed
    probing,   \* Breaker.probing
    call,      \* the calls of the goroutines
    calm       \* the upstream answers well and nobody's context ends, from now on

breaker == <<state, failures, cooled, probing>>
clientVars == <<breaker, call, calm>>

\* role is a history variable: whether Allow let the attempt go because the
\* breaker was closed or as a half-open probe.
NoCall == [pc |-> "idle", attempt |-> 0, retry |-> FALSE, expired |-> FALSE, role |-> "none"]

InFlight(c) == call[c].pc \in {"allowed", "sent"}

ClientInit ==
    /\ state = "closed" /\ failures = 0 /\ cooled = FALSE /\ probing = FALSE
    /\ call = [c \in Callers |-> NoCall]
    /\ calm = FALSE

(***************************************************************************)
(* The breaker.                                                            *)
(***************************************************************************)
\* Half-open, also by the cooling-off period ending now, and nobody probes.
Admits == ~probing /\ (state = "halfOpen" \/ (state = "open" /\ cooled))

Allow(role) ==
    \/ state = "closed" /\ role = "normal" /\ UNCHANGED breaker
    \/ /\ Admits /\ role = "probe"
       /\ state' = "halfOpen" /\ probing' = TRUE
       /\ UNCHANGED <<failures, cooled>>

\* Allow, when it returns ErrCircuitOpen.
Refuse ==
    /\ state # "closed" /\ ~Admits
    /\ state' = IF state = "open" /\ cooled THEN "halfOpen" ELSE state
    /\ UNCHANGED <<failures, cooled, probing>>

OpenAgain == state' = "open" /\ cooled' = FALSE

\* a failed probe opens the breaker without giving up the probe
Record_keepsProbe(success) ==
    \/ state = "closed" /\ success /\ failures' = 0 /\ UNCHANGED <<state, cooled, probing>>
    \/ /\ state = "closed" /\ ~success
       /\ failures' = failures + 1
       /\ IF failures + 1 >= FailureThreshold THEN OpenAgain ELSE UNCHANGED <<state, cooled>>
       /\ UNCHANGED probing
    \/ state = "halfOpen" /\ success /\ state' = "closed" /\ failures' = 0 /\ probing' = FALSE /\ UNCHANGED cooled
    \/ state = "halfOpen" /\ ~success /\ OpenAgain /\ UNCHANGED <<failures, probing>>
    \/ state = "open" /\ UNCHANGED breaker

Record(success) ==
    \/ state = "closed" /\ success /\ failures' = 0 /\ UNCHANGED <<state, cooled, probing>>
    \/ /\ state = "closed" /\ ~success
       /\ failures' = failures + 1
       /\ IF failures + 1 >= FailureThreshold THEN OpenAgain ELSE UNCHANGED <<state, cooled>>
       /\ UNCHANGED probing
    \/ state = "halfOpen" /\ success /\ state' = "closed" /\ failures' = 0 /\ probing' = FALSE /\ UNCHANGED cooled
    \/ state = "halfOpen" /\ ~success /\ OpenAgain /\ probing' = FALSE /\ UNCHANGED failures
    \/ state = "open" /\ UNCHANGED breaker

Abandon ==
    /\ probing' = IF state = "halfOpen" THEN FALSE ELSE probing
    /\ UNCHANGED <<state, failures, cooled>>

\* The cooling-off period ends.
Cool ==
    /\ state = "open" /\ ~cooled
    /\ cooled' = TRUE
    /\ UNCHANGED <<state, failures, probing, call, calm>>

(***************************************************************************)
(* Do.                                                                     *)
(***************************************************************************)
\* The attempt of c is over and its call goes on as k.
Ends(c, k) == call' = [call EXCEPT ![c] = k]

\* A new call.  One that may be retried (GET, HEAD or an Idempotency-Key) and
\* whose body cannot be replayed is refused before it starts.
Begin(c) ==
    /\ call[c].pc = "idle"
    /\ \E retry \in BOOLEAN :
          call' = [call EXCEPT ![c] = [NoCall EXCEPT !.pc = "loop", !.attempt = 1, !.retry = retry]]
    /\ UNCHANGED <<breaker, calm>>

\* The total time of the call is over or its caller cancels it.
ExpireCall(c) ==
    /\ ~calm
    /\ call[c].pc # "idle" /\ ~call[c].expired
    /\ call' = [call EXCEPT ![c].expired = TRUE]
    /\ UNCHANGED <<breaker, calm>>

\* The top of the loop: the context, then the breaker.
Ask(c) ==
    /\ call[c].pc = "loop"
    /\ \/ /\ call[c].expired
          /\ call' = [call EXCEPT ![c] = NoCall]
          /\ UNCHANGED breaker
       \/ /\ ~call[c].expired
          /\ \E role \in {"normal", "probe"} :
                Allow(role) /\ call' = [call EXCEPT ![c].pc = "allowed", ![c].role = role]
       \/ /\ ~call[c].expired
          /\ Refuse
          /\ call' = [call EXCEPT ![c] = NoCall]
    /\ UNCHANGED calm

Prepare_leaks(c) ==
    /\ call[c].pc = "allowed"
    /\ \/ call' = [call EXCEPT ![c].pc = "sent"] /\ UNCHANGED breaker
       \/ ~calm /\ Ends(c, NoCall) /\ UNCHANGED breaker
    /\ UNCHANGED calm

\* requestForAttempt, whose body may fail to be replayed, and the sending.
Prepare(c) ==
    /\ call[c].pc = "allowed"
    /\ \/ call' = [call EXCEPT ![c].pc = "sent"] /\ UNCHANGED breaker
       \/ ~calm /\ Ends(c, NoCall) /\ Abandon
    /\ UNCHANGED calm

\* Another attempt after a pause, if the call has one left, or the end of Do.
Retries(c) == call[c].retry /\ call[c].attempt < MaxAttempts
AfterFailure(c) == IF Retries(c) THEN [call[c] EXCEPT !.pc = "sleep", !.role = "none"] ELSE NoCall

\* A response that is not 429, 502, 503 or 504, in time.
Succeed(c) ==
    /\ call[c].pc = "sent" /\ ~call[c].expired
    /\ Record(TRUE) /\ Ends(c, NoCall)
    /\ UNCHANGED calm

\* One of these statuses, or a transport error while all contexts are alive.
Fail(c) ==
    /\ ~calm
    /\ call[c].pc = "sent" /\ ~call[c].expired
    /\ Record(FALSE) /\ Ends(c, AfterFailure(c))
    /\ UNCHANGED calm

\* The attempt or the whole call ran out of time or was cancelled, whatever
\* the transport reports.
Terminate(c) ==
    /\ call[c].pc = "sent"
    /\ call[c].expired \/ ~calm
    /\ Abandon /\ Ends(c, AfterFailure(c))
    /\ UNCHANGED calm

\* The pause before the next attempt; it ends with the total context.
Sleep(c) ==
    /\ call[c].pc = "sleep"
    /\ call' = [call EXCEPT ![c] = IF call[c].expired THEN NoCall
                                   ELSE [call[c] EXCEPT !.pc = "loop", !.attempt = call[c].attempt + 1]]
    /\ UNCHANGED <<breaker, calm>>

\* The upstream has recovered for good and no context ends any more.
CalmDown == ~calm /\ calm' = TRUE /\ UNCHANGED <<breaker, call>>

Step(c) == Ask(c) \/ Prepare(c) \/ Succeed(c) \/ Fail(c) \/ Terminate(c) \/ Sleep(c)

ClientNext ==
    \/ \E c \in Callers : Begin(c) \/ ExpireCall(c) \/ Step(c)
    \/ Cool
    \/ CalmDown

ClientSpec == ClientInit /\ [][ClientNext]_clientVars

\* Calls go on, every attempt ends (it has a time limit), time passes, and the
\* services keep calling.
FairClientSpec ==
    /\ ClientSpec /\ WF_clientVars(Cool)
    /\ \A c \in Callers : WF_clientVars(Step(c)) /\ WF_clientVars(Begin(c))

Call == [pc : {"idle", "loop", "allowed", "sent", "sleep"},
         attempt : 0 .. MaxAttempts, retry : BOOLEAN, expired : BOOLEAN,
         role : {"none", "normal", "probe"}]

ClientTypeOK ==
    /\ state \in {"closed", "open", "halfOpen"}
    /\ failures \in 0 .. FailureThreshold
    /\ cooled \in BOOLEAN /\ probing \in BOOLEAN /\ calm \in BOOLEAN
    /\ call \in [Callers -> Call]

(***************************************************************************)
(* What the breaker promises.                                              *)
(***************************************************************************)
\* The breaker refuses calls because one is probing only while it is half-open
\* and an attempt that Allow admitted as a probe is under way: no error path of
\* Do, and no outcome of another attempt, leaves a probe behind that nobody will
\* give back.  A closed breaker is below its threshold.  Nothing is said of the
\* number of probes: an attempt of an earlier period that ends while another
\* probes lets the next caller probe too.
ProbeHeld ==
    /\ ClientTypeOK
    /\ probing => /\ state = "halfOpen"
                  /\ \E c \in Callers : InFlight(c) /\ call[c].role = "probe"
    /\ state = "closed" => failures < FailureThreshold

\* Once the upstream has recovered and contexts no longer end, the breaker
\* closes and stays closed, whatever calls were under way: no interleaving of
\* late outcomes leaves it open or half-open with nobody to probe.
Recovers == calm ~> [](state = "closed")
=============================================================================
