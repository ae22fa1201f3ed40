--------------------------- MODULE PlatformProofs ---------------------------
(***************************************************************************)
(* Theorems about the platform library of commerce: the Outbox relay, for  *)
(* every number of events and relays, every batch size and any number of   *)
(* faults, and the HTTP client with its breaker, for every number of       *)
(* goroutines, every threshold and every number of attempts.               *)
(***************************************************************************)
EXTENDS OutboxRelay, ResilientClient, TLAPS

---------------------------------------------------------------------------
(* The Outbox relay *)

\* A relay that is past Send works on an event of its batch; one that is not
\* has nothing on its channel.
InHand ==
    \A r \in Relays :
        /\ relay[r].pc \in {"await", "markPublished", "markFailed"} => relay[r].cur \in relay[r].batch
        /\ relay[r].pc \in {"idle", "publish"} => relay[r].cur = 0
        /\ relay[r].pc = "idle" => relay[r].batch = {}
        /\ relay[r].pc # "await" => chan[r] = Fresh

\* What is on the way on a channel: a return goes before its confirmation, and
\* a confirmation that nothing contradicts is of an event in a queue.
WireTrue ==
    \A r \in Relays :
        /\ chan[r].wire = "sent" => chan[r].conf = "none" /\ ~chan[r].ret /\ ~relay[r].returned
        /\ chan[r].wire = "returned" => chan[r].conf = "none" /\ (chan[r].ret \/ relay[r].returned)
        /\ chan[r].conf = "ack" => chan[r].ret \/ relay[r].returned \/ copies[relay[r].cur] > 0
        /\ relay[r].pc = "markPublished" => copies[relay[r].cur] > 0

Routed == \A e \in Events : row[e].state = "published" => copies[e] > 0

\* Only rows that exist are claimed, and only claims that are too old lapse.
ClaimTrue ==
    /\ \A r \in Relays : \A e \in relay[r].batch : row[e].state # "absent"
    /\ \A e \in Events : row[e].claim = "old" => e \in lapsed

\* The message of e is not yet with the broker.
Unsent(r, e) == ~(e = relay[r].cur /\ relay[r].pc # "publish" /\ chan[r].wire # "sent")

\* Unless a claim on e lapsed: its only relay is the claimant, and before that
\* relay's message reaches the broker e is in no queue.
Exclusive ==
    \A e \in Events \ lapsed :
        /\ copies[e] < 2
        /\ row[e].claim = "none" => copies[e] = 0
        /\ \A r \in Relays : e \in relay[r].batch =>
              /\ row[e].token = r /\ row[e].claim = "new"
              /\ Unsent(r, e) => copies[e] = 0

Books == TypeOK /\ InHand /\ WireTrue /\ Routed /\ ClaimTrue /\ Exclusive

---------------------------------------------------------------------------

\* A channel on which nothing is under way is one.
LEMMA FreshChannel ==
  Fresh \in ChannelState /\ Fresh.wire = "none" /\ Fresh.conf = "none" /\ ~Fresh.ret
BY DEF Fresh, ChannelState

\* No row, no claim, nothing on any channel.
LEMMA BooksInit == Init => Books
<1> SUFFICES ASSUME Init PROVE Books
  OBVIOUS
<1>1. NoRow \in OutboxRow /\ Idle \in RelayState /\ Fresh \in ChannelState /\ 0 \in 0 .. MaxFaults
  BY RelayAssumption DEF NoRow, Idle, Fresh, OutboxRow, RelayState, ChannelState
<1>2. /\ row \in [Events -> OutboxRow] /\ relay \in [Relays -> RelayState]
      /\ chan \in [Relays -> ChannelState] /\ copies \in [Events -> 0 .. 2]
  BY <1>1 DEF Init
<1>3. TypeOK
  BY <1>1, <1>2 DEF Init, TypeOK
<1>4. /\ \A e \in Events : row[e] = NoRow /\ copies[e] = 0
      /\ \A r \in Relays : relay[r] = Idle /\ chan[r] = Fresh
  BY DEF Init
<1>5. InHand /\ WireTrue
  BY <1>4 DEF InHand, WireTrue, Idle, Fresh
<1>6. Routed /\ ClaimTrue /\ Exclusive
  BY <1>4 DEF Routed, ClaimTrue, Exclusive, Idle, NoRow
<1> QED BY <1>3, <1>5, <1>6 DEF Books

\* What is on the wire is of the event in hand, whose row exists.
LEMMA OnTheWire ==
  ASSUME Books, NEW r \in Relays, chan[r].wire # "none" \/ chan[r].conf # "none" \/ chan[r].ret
  PROVE  /\ relay[r].pc = "await"
         /\ relay[r].cur \in relay[r].batch /\ relay[r].cur \in Events
         /\ row[relay[r].cur].state # "absent"
BY DEF Books, InHand, ClaimTrue, TypeOK, Fresh, RelayState

\* A new row changes nothing but what is committed.
LEMMA InsertStep == Books /\ InsertOutbox => Books'
<1> SUFFICES ASSUME Books, InsertOutbox PROVE Books'
  OBVIOUS
<1> USE DEF Books
<1>1. PICK e \in Events : row[e].state = "absent" /\ row' = [row EXCEPT ![e].state = "pending"]
  BY DEF InsertOutbox
<1>2. UNCHANGED <<relay, chan, bound, copies, lapsed, faults>>
  BY DEF InsertOutbox
<1>3. \A d \in Events : /\ row'[d].claim = row[d].claim /\ row'[d].token = row[d].token
                        /\ row'[d].state = IF d = e THEN "pending" ELSE row[d].state
  BY <1>1 DEF TypeOK, OutboxRow
<1>4. row' \in [Events -> OutboxRow]
  BY <1>1 DEF TypeOK, OutboxRow
<1>5. TypeOK'
  BY <1>2, <1>4 DEF TypeOK
<1>6. InHand' /\ WireTrue'
  BY <1>2 DEF InHand, WireTrue
<1>7. Routed' /\ ClaimTrue'
  BY <1>2, <1>3 DEF Routed, ClaimTrue, TypeOK, RelayState
<1>8. Exclusive'
  BY <1>2, <1>3 DEF Exclusive, Unsent
<1> QED BY <1>5, <1>6, <1>7, <1>8

\* Rows without a claim, or with one that has lapsed, get the token of r.
LEMMA ClaimStep == ASSUME Books, NEW r \in Relays, Claim(r) PROVE Books'
<1> USE DEF Books
<1>1. /\ UNCHANGED <<chan, bound, copies, lapsed, faults>> /\ relay[r].pc = "idle"
      /\ Candidates \subseteq Events /\ \A e \in Candidates : Claimable(e)
  BY DEF Claim, Candidates
<1>2. \A e \in Events : row'[e] = IF e \in Candidates THEN [row[e] EXCEPT !.token = r, !.claim = "new"] ELSE row[e]
  BY DEF Claim
<1>3. \A e \in Events : /\ row'[e].state = row[e].state
                        /\ e \in Candidates => row'[e].token = r /\ row'[e].claim = "new"
                        /\ e \notin Candidates => row'[e] = row[e]
  BY <1>2 DEF TypeOK, OutboxRow
<1>4. row' \in [Events -> OutboxRow]
  <2>1. \A e \in Events : [row[e] EXCEPT !.token = r, !.claim = "new"] \in OutboxRow
    BY DEF TypeOK, OutboxRow
  <2> QED BY <2>1 DEF Claim, TypeOK
<1>5. /\ relay'[r].batch = Candidates /\ relay'[r].pc = "publish"
      /\ relay'[r].cur = relay[r].cur /\ relay'[r].returned = relay[r].returned
      /\ \A q \in Relays \ {r} : relay'[q] = relay[q]
      /\ relay' \in [Relays -> RelayState]
  BY <1>1, ZenonT(60) DEF Claim, TypeOK, RelayState
<1> HIDE DEF Books
<1>6. TypeOK'
  BY <1>1, <1>4, <1>5 DEF TypeOK, Books
<1>7. InHand'
  BY <1>1, <1>5 DEF InHand, Books
<1>8. WireTrue'
  BY <1>1, <1>5 DEF WireTrue, Books, InHand, Fresh
<1>9. Routed' /\ ClaimTrue'
  BY <1>1, <1>3, <1>5 DEF Routed, ClaimTrue, Books, Claimable, TypeOK, RelayState
<1>10. Exclusive'
  <2> SUFFICES ASSUME NEW e \in Events \ lapsed
               PROVE  /\ copies[e] < 2
                      /\ row'[e].claim = "none" => copies[e] = 0
                      /\ \A q \in Relays : e \in relay'[q].batch =>
                            /\ row'[e].token = q /\ row'[e].claim = "new"
                            /\ q = r \/ Unsent(q, e) => copies[e] = 0
    BY <1>1, <1>5 DEF Exclusive, Unsent
  <2>1. CASE e \in Candidates
    <3>1. row[e].claim = "none"
      BY <1>1, <2>1 DEF Claimable, Books, ClaimTrue
    <3> QED BY <1>1, <1>3, <1>5, <2>1, <3>1 DEF Books, Exclusive
  <2>2. CASE e \notin Candidates
    BY <1>1, <1>3, <1>5, <2>2 DEF Books, Exclusive
  <2> QED BY <2>1, <2>2
<1> QED BY <1>6, <1>7, <1>8, <1>9, <1>10 DEF Books

\* Claims become too old; their events count as lapsed.
LEMMA ExpireStep == ASSUME Books, NEW S \in SUBSET Events, Expire(S), faults' \in 0 .. MaxFaults PROVE Books'
<1> USE DEF Books
<1>1. \A e \in Events : row'[e] = IF e \in S THEN [row[e] EXCEPT !.claim = "old"] ELSE row[e]
  BY DEF Expire
<1>2. \A e \in Events : /\ row'[e].state = row[e].state /\ row'[e].token = row[e].token
                        /\ row'[e].claim = IF e \in S THEN "old" ELSE row[e].claim
  BY <1>1 DEF TypeOK, OutboxRow
<1>3. row' \in [Events -> OutboxRow]
  <2>1. \A e \in Events : [row[e] EXCEPT !.claim = "old"] \in OutboxRow
    BY DEF TypeOK, OutboxRow
  <2> QED BY <2>1 DEF Expire, TypeOK
<1>4. lapsed' = lapsed \cup S /\ UNCHANGED <<relay, chan, bound, copies>>
  BY DEF Expire
<1>5. TypeOK'
  BY <1>3, <1>4 DEF TypeOK
<1>6. InHand' /\ WireTrue'
  BY <1>4 DEF InHand, WireTrue
<1>7. Routed' /\ ClaimTrue'
  BY <1>2, <1>4 DEF Routed, ClaimTrue, TypeOK, RelayState
<1>8. Exclusive'
  BY <1>2, <1>4 DEF Exclusive, Unsent
<1> QED BY <1>5, <1>6, <1>7, <1>8

\* An event of the batch, which is in no queue yet, goes to the broker.
LEMMA SendStep == ASSUME Books, NEW r \in Relays, Send(r) PROVE Books'
<1> USE DEF Books
<1>1. PICK e \in relay[r].batch :
        relay' = [relay EXCEPT ![r].pc = "await", ![r].cur = e, ![r].returned = FALSE]
  BY DEF Send
<1>2. /\ UNCHANGED <<row, bound, copies, lapsed, faults>> /\ relay[r].pc = "publish" /\ chan[r] = Fresh
  BY DEF Send, InHand
<1>3. /\ chan'[r].wire = "sent" /\ chan'[r].conf = "none" /\ ~chan'[r].ret
      /\ \A q \in Relays \ {r} : chan'[q] = chan[q]
      /\ chan' \in [Relays -> ChannelState]
  <2> DEFINE w == [chan[r] EXCEPT !.wire = "sent"]
  <2>0. chan[r] \in ChannelState /\ chan[r].conf = "none" /\ ~chan[r].ret
    BY <1>2, FreshChannel
  <2>1. w \in ChannelState /\ w.wire = "sent" /\ w.conf = "none" /\ ~w.ret
    BY <2>0 DEF ChannelState
  <2>2. chan' = [chan EXCEPT ![r] = w]
    BY DEF Send, TypeOK
  <2> HIDE DEF w
  <2> QED BY <2>1, <2>2 DEF TypeOK
<1>4. /\ relay'[r].pc = "await" /\ relay'[r].cur = e /\ ~relay'[r].returned
      /\ relay'[r].batch = relay[r].batch
      /\ \A q \in Relays \ {r} : relay'[q] = relay[q]
      /\ relay' \in [Relays -> RelayState]
  <2> DEFINE k == [relay[r] EXCEPT !.pc = "await", !.cur = e, !.returned = FALSE]
  <2>1. e \in 0 .. NumEvents /\ relay[r] \in RelayState
    BY RelayAssumption DEF TypeOK, RelayState, Events
  <2>2. k \in RelayState /\ k.pc = "await" /\ k.cur = e /\ ~k.returned /\ k.batch = relay[r].batch
    BY <2>1 DEF RelayState
  <2>3. relay' = [relay EXCEPT ![r] = k]
    BY <1>1 DEF TypeOK
  <2> HIDE DEF k
  <2> QED BY <2>2, <2>3 DEF TypeOK
<1>5. TypeOK'
  BY <1>2, <1>3, <1>4 DEF TypeOK
<1>6. InHand'
  BY <1>3, <1>4 DEF InHand
<1>7. WireTrue'
  BY <1>2, <1>3, <1>4 DEF WireTrue
<1>8. Routed' /\ ClaimTrue'
  BY <1>2, <1>4 DEF Routed, ClaimTrue
<1>9. Exclusive'
  BY <1>2, <1>3, <1>4 DEF Exclusive, Unsent
<1> QED BY <1>5, <1>6, <1>7, <1>8, <1>9

\* Only the channel of r changes, to w, while its message waits for an outcome.
LEMMA BrokerStepKeeps ==
  ASSUME Books, NEW r \in Relays, NEW w \in ChannelState, relay[r].pc = "await",
         chan' = [chan EXCEPT ![r] = w],
         UNCHANGED <<row, relay, bound, copies, lapsed>>, faults' \in 0 .. MaxFaults,
         w.wire # "sent",
         w.wire = "returned" => w.conf = "none" /\ (w.ret \/ relay[r].returned),
         w.conf = "ack" => w.ret \/ relay[r].returned \/ copies[relay[r].cur] > 0
  PROVE  Books'
<1> USE DEF Books
<1>1. chan' \in [Relays -> ChannelState] /\ \A q \in Relays : chan'[q] = IF q = r THEN w ELSE chan[q]
  BY DEF TypeOK
<1>2. TypeOK'
  BY <1>1 DEF TypeOK
<1>3. InHand' /\ Routed' /\ ClaimTrue'
  BY <1>1 DEF InHand, Routed, ClaimTrue
<1>4. WireTrue'
  BY <1>1 DEF WireTrue
<1>5. Exclusive'
  BY <1>1 DEF Exclusive, Unsent
<1> QED BY <1>2, <1>3, <1>4, <1>5

\* A fault stays within its bound.
LEMMA FaultCounted == ASSUME Books, Fault PROVE faults' \in 0 .. MaxFaults
BY RelayAssumption DEF Books, TypeOK, Fault

\* The return is in its channel before the confirmation.
LEMMA ReturnsStep == ASSUME Books, NEW r \in Relays, BrokerReturns(r) PROVE Books'
<1> DEFINE w == [chan[r] EXCEPT !.wire = "returned", !.ret = TRUE]
<1>1. chan[r] \in ChannelState /\ chan[r].wire = "sent" /\ chan[r].conf = "none" /\ faults \in 0 .. MaxFaults
  BY DEF Books, TypeOK, BrokerReturns, WireTrue
<1>2. w \in ChannelState /\ w.wire = "returned" /\ w.ret /\ w.conf = "none"
  BY <1>1 DEF ChannelState
<1>3. chan' = [chan EXCEPT ![r] = w] /\ UNCHANGED <<row, relay, bound, copies, lapsed, faults>>
  BY DEF BrokerReturns, Books, TypeOK
<1>4. relay[r].pc = "await"
  BY <1>1, OnTheWire
<1> HIDE DEF w
<1> QED BY <1>1, <1>2, <1>3, <1>4, BrokerStepKeeps

\* The confirmation of a returned message comes after its return.
LEMMA ConfirmsReturnedStep == ASSUME Books, NEW r \in Relays, BrokerConfirmsReturned(r) PROVE Books'
<1> DEFINE w == [chan[r] EXCEPT !.wire = "none", !.conf = "ack"]
<1>1. /\ chan[r] \in ChannelState /\ chan[r].wire = "returned" /\ faults \in 0 .. MaxFaults
      /\ chan[r].ret \/ relay[r].returned
  BY DEF Books, TypeOK, BrokerConfirmsReturned, WireTrue
<1>2. w \in ChannelState /\ w.wire = "none" /\ w.conf = "ack" /\ w.ret = chan[r].ret
  BY <1>1 DEF ChannelState
<1>3. chan' = [chan EXCEPT ![r] = w] /\ UNCHANGED <<row, relay, bound, copies, lapsed, faults>>
  BY DEF BrokerConfirmsReturned, Books, TypeOK
<1>4. relay[r].pc = "await"
  BY <1>1, OnTheWire
<1> HIDE DEF w
<1> QED BY <1>1, <1>2, <1>3, <1>4, BrokerStepKeeps

\* A refusal is no positive confirmation.
LEMMA RefusesStep == ASSUME Books, NEW r \in Relays, BrokerRefuses(r) PROVE Books'
<1> DEFINE w == [chan[r] EXCEPT !.wire = "none", !.conf = "nack"]
<1>1. chan[r] \in ChannelState /\ chan[r].wire = "sent" /\ faults' \in 0 .. MaxFaults
  BY FaultCounted DEF Books, TypeOK, BrokerRefuses
<1>2. w \in ChannelState /\ w.wire = "none" /\ w.conf = "nack"
  BY <1>1 DEF ChannelState
<1>3. chan' = [chan EXCEPT ![r] = w] /\ UNCHANGED <<row, relay, bound, copies, lapsed>>
  BY DEF BrokerRefuses, Books, TypeOK
<1>4. relay[r].pc = "await"
  BY <1>1, OnTheWire
<1> HIDE DEF w
<1> QED BY <1>1, <1>2, <1>3, <1>4, BrokerStepKeeps

\* A message reaches a queue: one copy more of the event in hand, which was in
\* none unless a claim on it lapsed.
LEMMA CopyMade ==
  ASSUME Books, NEW r \in Relays, chan[r].wire = "sent",
         copies' = [copies EXCEPT ![relay[r].cur] = OneMore(@)]
  PROVE  /\ copies' \in [Events -> 0 .. 2]
         /\ \A e \in Events : copies[e] > 0 => copies'[e] > 0
         /\ copies'[relay[r].cur] > 0
         /\ \A e \in Events \ {relay[r].cur} : copies'[e] = copies[e]
         /\ relay[r].cur \notin lapsed => copies'[relay[r].cur] = 1
<1>1. relay[r].cur \in Events /\ relay[r].cur \in relay[r].batch /\ relay[r].pc = "await"
  BY OnTheWire
<1>2. copies \in [Events -> 0 .. 2]
  BY DEF Books, TypeOK
<1>3. \A n \in 0 .. 2 : OneMore(n) \in 0 .. 2 /\ OneMore(n) > 0 /\ (n = 0 => OneMore(n) = 1)
  BY DEF OneMore
<1>4. relay[r].cur \notin lapsed => copies[relay[r].cur] = 0
  BY <1>1 DEF Books, Exclusive, Unsent
<1> QED BY <1>1, <1>2, <1>3, <1>4

\* The event in hand gets into a queue and is confirmed.
LEMMA AcceptsStep == ASSUME Books, NEW r \in Relays, BrokerAccepts(r) PROVE Books'
<1> DEFINE w == [chan[r] EXCEPT !.wire = "none", !.conf = "ack"]
           c == relay[r].cur
<1>1. chan[r] \in ChannelState /\ chan[r].wire = "sent" /\ UNCHANGED <<row, relay, bound, lapsed, faults>>
  BY DEF Books, TypeOK, BrokerAccepts
<1>2. w \in ChannelState /\ w.wire = "none" /\ w.conf = "ack"
  BY <1>1 DEF ChannelState
<1>3. chan' = [chan EXCEPT ![r] = w]
  BY DEF BrokerAccepts, Books, TypeOK
<1>4. relay[r].pc = "await" /\ c \in relay[r].batch /\ c \in Events
  BY <1>1, OnTheWire
<1>5. /\ copies' \in [Events -> 0 .. 2]
      /\ \A e \in Events : copies[e] > 0 => copies'[e] > 0
      /\ copies'[c] > 0
      /\ \A e \in Events \ {c} : copies'[e] = copies[e]
      /\ c \notin lapsed => copies'[c] = 1
  BY <1>1, CopyMade DEF BrokerAccepts
<1> HIDE DEF w, c
<1>6. chan' \in [Relays -> ChannelState] /\ \A q \in Relays : chan'[q] = IF q = r THEN w ELSE chan[q]
  BY <1>2, <1>3 DEF Books, TypeOK
<1>7. TypeOK'
  BY <1>1, <1>5, <1>6 DEF Books, TypeOK
<1>8. InHand' /\ Routed' /\ ClaimTrue'
  BY <1>1, <1>4, <1>5, <1>6 DEF Books, InHand, Routed, ClaimTrue
<1>9. WireTrue'
  <2> SUFFICES ASSUME NEW q \in Relays
      PROVE  /\ chan'[q].wire = "sent" => chan'[q].conf = "none" /\ ~chan'[q].ret /\ ~relay[q].returned
             /\ chan'[q].wire = "returned" => chan'[q].conf = "none" /\ (chan'[q].ret \/ relay[q].returned)
             /\ chan'[q].conf = "ack" => chan'[q].ret \/ relay[q].returned \/ copies'[relay[q].cur] > 0
             /\ relay[q].pc = "markPublished" => copies'[relay[q].cur] > 0
    BY <1>1 DEF WireTrue
  <2>1. CASE q = r
    BY <1>2, <1>4, <1>5, <1>6, <2>1 DEF c
  <2>2. CASE q # r
    <3>1. chan[q].conf = "ack" \/ relay[q].pc = "markPublished" => relay[q].cur \in Events
      BY OnTheWire DEF Books, InHand, TypeOK, RelayState
    <3> QED BY <1>5, <1>6, <2>2, <3>1 DEF Books, WireTrue
  <2> QED BY <2>1, <2>2
<1>10. Exclusive'
  <2> SUFFICES ASSUME NEW e \in Events \ lapsed
               PROVE  /\ copies'[e] < 2
                      /\ row[e].claim = "none" => copies'[e] = 0
                      /\ \A q \in Relays : e \in relay[q].batch =>
                            /\ row[e].token = q /\ row[e].claim = "new"
                            /\ Unsent(q, e)' => copies'[e] = 0
    BY <1>1 DEF Exclusive
  <2>1. CASE e = c
    <3>1. row[e].token = r /\ row[e].claim = "new"
      BY <1>4, <2>1 DEF Books, Exclusive
    <3>2. ~Unsent(r, e)'
      BY <1>1, <1>2, <1>4, <1>6, <2>1 DEF Unsent, c
    <3> QED BY <1>5, <2>1, <3>1, <3>2 DEF Books, Exclusive
  <2>2. CASE e # c
    <3>1. \A q \in Relays : Unsent(q, e)' => q = r \/ Unsent(q, e)
      BY <1>1, <1>6 DEF Unsent
    <3>2. Unsent(r, e)
      BY <2>2 DEF Unsent, c
    <3> QED BY <1>5, <2>2, <3>1, <3>2 DEF Books, Exclusive
  <2> QED BY <2>1, <2>2
<1> QED BY <1>7, <1>8, <1>9, <1>10 DEF Books

\* The select takes the return: it has been seen, and no longer waits.
LEMMA TakeReturnStep == ASSUME Books, NEW r \in Relays, TakeReturn(r) PROVE Books'
<1> DEFINE w == [chan[r] EXCEPT !.ret = FALSE]
           k == [relay[r] EXCEPT !.returned = TRUE]
<1>1. /\ chan[r] \in ChannelState /\ relay[r] \in RelayState
      /\ UNCHANGED <<row, bound, copies, lapsed, faults>>
      /\ relay[r].pc = "await" /\ chan[r].ret /\ chan[r].wire # "sent"
      /\ chan[r].wire = "returned" => chan[r].conf = "none"
  BY DEF Books, TypeOK, TakeReturn, WireTrue
<1>2. w \in ChannelState /\ w.wire = chan[r].wire /\ w.conf = chan[r].conf
  BY <1>1 DEF ChannelState
<1>3. k \in RelayState /\ k.returned /\ k.pc = "await" /\ k.cur = relay[r].cur /\ k.batch = relay[r].batch
  BY <1>1 DEF RelayState
<1>4. chan' = [chan EXCEPT ![r] = w] /\ relay' = [relay EXCEPT ![r] = k]
  BY DEF TakeReturn, Books, TypeOK
<1> HIDE DEF w, k
<1>5. /\ chan' \in [Relays -> ChannelState] /\ \A q \in Relays : chan'[q] = IF q = r THEN w ELSE chan[q]
      /\ relay' \in [Relays -> RelayState] /\ \A q \in Relays : relay'[q] = IF q = r THEN k ELSE relay[q]
  BY <1>2, <1>3, <1>4 DEF Books, TypeOK
<1>6. TypeOK'
  BY <1>1, <1>5 DEF Books, TypeOK
<1>7. InHand' /\ Routed' /\ ClaimTrue'
  BY <1>1, <1>3, <1>5 DEF Books, InHand, Routed, ClaimTrue
<1>8. WireTrue'
  BY <1>1, <1>2, <1>3, <1>5 DEF Books, WireTrue
<1>9. Exclusive'
  BY <1>1, <1>2, <1>3, <1>5 DEF Books, Exclusive, Unsent
<1> QED BY <1>6, <1>7, <1>8, <1>9 DEF Books

\* The outcome is settled; a positive one is of an event in a queue.
LEMMA TakeConfirmationStep == ASSUME Books, NEW r \in Relays, TakeConfirmation(r) PROVE Books'
<1> DEFINE k == [relay[r] EXCEPT !.pc = IF Positive(r) THEN "markPublished" ELSE "markFailed"]
<1>1. /\ relay[r] \in RelayState /\ UNCHANGED <<row, bound, copies, lapsed, faults>>
      /\ relay[r].pc = "await" /\ chan[r].wire # "sent"
      /\ Positive(r) => copies[relay[r].cur] > 0
  BY DEF Books, TypeOK, TakeConfirmation, WireTrue, Positive
<1>2. Fresh \in ChannelState /\ Fresh.wire = "none" /\ Fresh.conf = "none" /\ ~Fresh.ret
  BY FreshChannel
<1>3. /\ k \in RelayState /\ k.cur = relay[r].cur /\ k.batch = relay[r].batch
      /\ k.pc \in {"markPublished", "markFailed"} /\ (k.pc = "markPublished" => Positive(r))
  BY <1>1 DEF RelayState
<1>4. chan' = [chan EXCEPT ![r] = Fresh] /\ relay' = [relay EXCEPT ![r] = k]
  BY DEF TakeConfirmation, Goto, Books, TypeOK
<1> HIDE DEF k
<1>5. /\ chan' \in [Relays -> ChannelState] /\ \A q \in Relays : chan'[q] = IF q = r THEN Fresh ELSE chan[q]
      /\ relay' \in [Relays -> RelayState] /\ \A q \in Relays : relay'[q] = IF q = r THEN k ELSE relay[q]
  BY <1>2, <1>3, <1>4 DEF Books, TypeOK
<1>6. TypeOK'
  BY <1>1, <1>5 DEF Books, TypeOK
<1>7. InHand' /\ Routed' /\ ClaimTrue'
  BY <1>1, <1>3, <1>5 DEF Books, InHand, Routed, ClaimTrue
<1>8. WireTrue'
  BY <1>1, <1>2, <1>3, <1>5 DEF Books, WireTrue
<1>9. Exclusive'
  BY <1>1, <1>2, <1>3, <1>5 DEF Books, Exclusive, Unsent
<1> QED BY <1>6, <1>7, <1>8, <1>9 DEF Books

\* A relay leaves its event, with the row's state as it is or, if the event is
\* in a queue, published.
LEMMA DoneStep ==
  ASSUME Books, NEW r \in Relays, relay[r].pc \in {"markPublished", "markFailed"}, Done(r),
         UNCHANGED <<chan, bound, copies, lapsed, faults>>,
         \/ UNCHANGED row
         \/ /\ copies[relay[r].cur] > 0
            /\ row' = [row EXCEPT ![relay[r].cur].state = "published"]
  PROVE  Books'
<1> DEFINE c == relay[r].cur
           rest == relay[r].batch \ {c}
           next == IF rest = {} THEN "idle" ELSE "publish"
           k == [relay[r] EXCEPT !.batch = rest, !.cur = 0, !.pc = next]
<1>1. /\ relay[r] \in RelayState /\ c \in relay[r].batch /\ c \in Events
      /\ chan[r] = Fresh /\ Fresh.wire = "none" /\ Fresh.conf = "none"
  BY FreshChannel DEF Books, InHand, TypeOK, RelayState
<1>2. /\ k \in RelayState /\ k.cur = 0 /\ k.batch = rest
      /\ k.pc \in {"idle", "publish"} /\ (k.pc = "idle" => rest = {})
  <2>1. /\ rest \in SUBSET Events /\ 0 \in 0 .. NumEvents
        /\ next \in {"idle", "publish"} /\ (next = "idle" => rest = {})
    BY <1>1, RelayAssumption DEF RelayState
  <2> HIDE DEF rest, next
  <2> QED BY <1>1, <2>1 DEF RelayState
<1>3. relay' = [relay EXCEPT ![r] = k]
  BY DEF Done, Books, TypeOK
<1> HIDE DEF k, c
<1>4. relay' \in [Relays -> RelayState] /\ \A q \in Relays : relay'[q] = IF q = r THEN k ELSE relay[q]
  BY <1>2, <1>3 DEF Books, TypeOK
<1>5. /\ row' \in [Events -> OutboxRow]
      /\ \A e \in Events : /\ row'[e].token = row[e].token /\ row'[e].claim = row[e].claim
                           /\ \/ row'[e].state = row[e].state
                              \/ copies[e] > 0 /\ row'[e].state = "published"
  <2>1. row \in [Events -> OutboxRow]
    BY DEF Books, TypeOK
  <2>2. CASE UNCHANGED row
    BY <2>1, <2>2
  <2>3. CASE copies[c] > 0 /\ row' = [row EXCEPT ![c].state = "published"]
    BY <1>1, <2>1, <2>3 DEF OutboxRow
  <2> QED BY <2>2, <2>3 DEF c
<1>6. TypeOK'
  BY <1>4, <1>5 DEF Books, TypeOK
<1>7. InHand'
  BY <1>1, <1>2, <1>4 DEF Books, InHand
<1>8. WireTrue'
  BY <1>1, <1>2, <1>4 DEF Books, WireTrue
<1>9. Routed' /\ ClaimTrue'
  BY <1>2, <1>4, <1>5, ZenonT(60) DEF Books, Routed, ClaimTrue, TypeOK, RelayState
<1>10. Exclusive'
  <2>1. \A q \in Relays : \A e \in relay'[q].batch : e \in relay[q].batch /\ (Unsent(q, e)' => Unsent(q, e))
    BY <1>1, <1>2, <1>4 DEF Unsent, c
  <2> QED BY <1>5, <2>1 DEF Books, Exclusive
<1> QED BY <1>6, <1>7, <1>8, <1>9, <1>10 DEF Books

\* MarkPublished follows a positive outcome; a row with another token stays as it is.
LEMMA MarkStep == ASSUME Books, NEW r \in Relays, MarkPublished(r) \/ MarkFailed(r) PROVE Books'
<1>1. CASE MarkFailed(r)
  BY <1>1, DoneStep DEF MarkFailed
<1>2. CASE MarkPublished(r)
  <2>1. /\ relay[r].pc = "markPublished" /\ Done(r) /\ UNCHANGED <<chan, bound, copies, lapsed, faults>>
        /\ copies[relay[r].cur] > 0
    BY <1>2 DEF MarkPublished, Books, WireTrue
  <2>2. relay[r].cur \in Events /\ row \in [Events -> OutboxRow]
    BY <2>1 DEF Books, InHand, TypeOK, RelayState
  <2>3. \/ UNCHANGED row
        \/ row' = [row EXCEPT ![relay[r].cur].state = "published"]
    <3>1. CASE row[relay[r].cur].token = r
      BY <1>2, <3>1 DEF MarkPublished
    <3>2. CASE row[relay[r].cur].token # r
      <4>1. row' = [row EXCEPT ![relay[r].cur].state = row[relay[r].cur].state]
        BY <1>2, <3>2 DEF MarkPublished
      <4> QED BY <2>2, <4>1 DEF OutboxRow
    <3> QED BY <3>1, <3>2
  <2> QED BY <2>1, <2>3, DoneStep
<1> QED BY <1>1, <1>2

\* The relay ends; its message may have reached a queue.
LEMMA EndsStep == ASSUME Books, NEW r \in Relays, RelayEnds(r) PROVE Books'
<1>1. /\ relay' = [relay EXCEPT ![r] = Idle] /\ chan' = [chan EXCEPT ![r] = Fresh]
      /\ UNCHANGED <<row, bound, lapsed>> /\ faults' \in 0 .. MaxFaults
  BY FaultCounted DEF RelayEnds
<1>2. Idle \in RelayState /\ Idle.pc = "idle" /\ Idle.batch = {} /\ Idle.cur = 0
  BY RelayAssumption DEF Idle, RelayState
<1>3. /\ chan' \in [Relays -> ChannelState] /\ \A q \in Relays : chan'[q] = IF q = r THEN Fresh ELSE chan[q]
      /\ relay' \in [Relays -> RelayState] /\ \A q \in Relays : relay'[q] = IF q = r THEN Idle ELSE relay[q]
  BY <1>1, <1>2, FreshChannel DEF Books, TypeOK
<1>4. /\ copies' \in [Events -> 0 .. 2]
      /\ \A e \in Events : copies[e] > 0 => copies'[e] > 0
      /\ \A e \in Events \ lapsed : \/ copies'[e] = copies[e]
                                    \/ e \in relay[r].batch /\ copies'[e] = 1
  <2>1. CASE UNCHANGED copies
    BY <2>1 DEF Books, TypeOK
  <2>2. CASE chan[r].wire = "sent" /\ copies' = [copies EXCEPT ![relay[r].cur] = OneMore(@)]
    BY <2>2, OnTheWire, CopyMade, ZenonT(60)
  <2> QED BY <2>1, <2>2 DEF RelayEnds
<1>5. TypeOK'
  BY <1>1, <1>3, <1>4 DEF Books, TypeOK
<1>6. InHand' /\ Routed' /\ ClaimTrue'
  BY <1>1, <1>2, <1>3, <1>4 DEF Books, InHand, Routed, ClaimTrue
<1>7. WireTrue'
  <2> SUFFICES ASSUME NEW q \in Relays
      PROVE  /\ chan'[q].wire = "sent" => chan'[q].conf = "none" /\ ~chan'[q].ret /\ ~relay'[q].returned
             /\ chan'[q].wire = "returned" => chan'[q].conf = "none" /\ (chan'[q].ret \/ relay'[q].returned)
             /\ chan'[q].conf = "ack" => chan'[q].ret \/ relay'[q].returned \/ copies'[relay'[q].cur] > 0
             /\ relay'[q].pc = "markPublished" => copies'[relay'[q].cur] > 0
    BY DEF WireTrue
  <2>1. CASE q = r
    BY <1>2, <1>3, <2>1, FreshChannel
  <2>2. CASE q # r
    <3>1. chan[q].conf = "ack" \/ relay[q].pc = "markPublished" => relay[q].cur \in Events
      BY OnTheWire DEF Books, InHand, TypeOK, RelayState
    <3> QED BY <1>3, <1>4, <2>2, <3>1 DEF Books, WireTrue
  <2> QED BY <2>1, <2>2
<1>8. Exclusive'
  <2> SUFFICES ASSUME NEW e \in Events \ lapsed
               PROVE  /\ copies'[e] < 2
                      /\ row[e].claim = "none" => copies'[e] = 0
                      /\ \A q \in Relays : e \in relay'[q].batch =>
                            /\ row[e].token = q /\ row[e].claim = "new"
                            /\ Unsent(q, e)' => copies'[e] = 0
    BY <1>1 DEF Exclusive
  <2>1. e \in relay[r].batch => row[e].token = r /\ row[e].claim = "new"
    BY DEF Books, Exclusive
  <2>2. \A q \in Relays : e \in relay'[q].batch =>
          q # r /\ e \in relay[q].batch /\ (Unsent(q, e)' => Unsent(q, e))
    BY <1>2, <1>3 DEF Unsent
  <2> QED BY <1>4, <2>1, <2>2 DEF Books, Exclusive
<1> QED BY <1>5, <1>6, <1>7, <1>8 DEF Books

\* Every step keeps Books.
LEMMA BooksStep == Books /\ [Next]_vars => Books'
<1> SUFFICES ASSUME Books, [Next]_vars PROVE Books'
  OBVIOUS
<1>1. CASE InsertOutbox
  BY <1>1, InsertStep
<1>2. CASE BindQueue
  BY <1>2 DEF BindQueue, Books, TypeOK, InHand, WireTrue, Routed, ClaimTrue, Exclusive, Unsent
<1>3. ASSUME NEW r \in Relays, RelayStep(r) PROVE Books'
  BY <1>3, ClaimStep, SendStep, TakeReturnStep, TakeConfirmationStep, MarkStep DEF RelayStep
<1>4. ASSUME NEW r \in Relays, BrokerStep(r) \/ BrokerRefuses(r) PROVE Books'
  BY <1>4, AcceptsStep, ReturnsStep, ConfirmsReturnedStep, RefusesStep DEF BrokerStep
<1>5. ASSUME NEW r \in Relays, ClaimExpires(r) \/ ClaimOutlived(r) PROVE Books'
  <2>1. Held(r) \in SUBSET Events /\ Held(r) \ relay[r].batch \in SUBSET Events /\ faults \in 0 .. MaxFaults
    BY DEF Held, Books, TypeOK
  <2>2. CASE ClaimExpires(r)
    BY <2>1, <2>2, ExpireStep DEF ClaimExpires
  <2>3. CASE ClaimOutlived(r)
    BY <2>1, <2>3, ExpireStep, FaultCounted DEF ClaimOutlived
  <2> QED BY <1>5, <2>2, <2>3
<1>6. ASSUME NEW r \in Relays, RelayEnds(r) PROVE Books'
  BY <1>6, EndsStep
<1>7. CASE UNCHANGED vars
  BY <1>7 DEF vars, Books, TypeOK, InHand, WireTrue, Routed, ClaimTrue, Exclusive, Unsent
<1> QED BY <1>1, <1>2, <1>3, <1>4, <1>5, <1>6, <1>7 DEF Next

\* Books is an invariant, and says what the Outbox promises.
LEMMA BooksAlways == Spec => []Books
<1>1. Books /\ [Next]_vars => Books'
  BY BooksStep
<1> QED BY <1>1, BooksInit, PTL DEF Spec

\* For any events, relays, batches and faults: a row is marked published
\* (relayOnce) only when its event is in a queue.
THEOREM PublishedRoutedTheorem == Spec => []PublishedRouted
<1>1. Books => PublishedRouted
  BY DEF Books, Routed, PublishedRouted
<1> QED BY <1>1, BooksAlways, PTL

\* For any events, relays, batches and faults: an event is put into a queue
\* twice only when a claim on it became too old (postgresOutboxStore.Claim).
THEOREM OncePerClaimTheorem == Spec => []OncePerClaim
<1>1. Books => OncePerClaim
  BY DEF Books, Exclusive, OncePerClaim, TypeOK
<1> QED BY <1>1, BooksAlways, PTL

---------------------------------------------------------------------------
(***************************************************************************)
(* The channel: a step of the Outbox commits, delivers or settles one      *)
(* event, or none.                                                         *)
(***************************************************************************)
Committed == {e \in Events : row[e].state # "absent"}
Delivered == {e \in Events : copies[e] > 0}
Settled == {e \in Events : row[e].state = "published"}

Stutters == UNCHANGED <<Committed, Delivered, Settled>>

ChannelStep ==
    \/ \E e \in Events : e \notin Committed /\ Committed' = Committed \cup {e} /\ UNCHANGED <<Delivered, Settled>>
    \/ \E e \in Events : e \in Committed /\ Delivered' = Delivered \cup {e} /\ UNCHANGED <<Committed, Settled>>
    \/ \E e \in Events : e \in Delivered /\ Settled' = Settled \cup {e} /\ UNCHANGED <<Committed, Delivered>>
    \/ Stutters

\* A message that reaches a queue is a delivery of a committed event.
LEMMA Delivers ==
  ASSUME Books, NEW r \in Relays, chan[r].wire = "sent", UNCHANGED row,
         copies' = [copies EXCEPT ![relay[r].cur] = OneMore(@)]
  PROVE  ChannelStep
<1>1. relay[r].cur \in Events /\ relay[r].cur \in Committed
  BY OnTheWire DEF Committed
<1>2. Delivered' = Delivered \cup {relay[r].cur}
  BY <1>1, CopyMade DEF Delivered
<1>3. UNCHANGED <<Committed, Settled>>
  BY DEF Committed, Settled
<1> QED BY <1>1, <1>2, <1>3 DEF ChannelStep

\* Every step of the Outbox is a step of the channel or a stutter.
LEMMA StepRefines == Books /\ [Next]_vars => ChannelStep
<1> SUFFICES ASSUME Books, [Next]_vars PROVE ChannelStep
  OBVIOUS
<1>1. row \in [Events -> OutboxRow]
  BY DEF Books, TypeOK
<1>2. CASE InsertOutbox
  <2>1. PICK e \in Events : row[e].state = "absent" /\ row' = [row EXCEPT ![e].state = "pending"]
    BY <1>2 DEF InsertOutbox
  <2>2. \A d \in Events : row'[d].state = IF d = e THEN "pending" ELSE row[d].state
    BY <1>1, <2>1 DEF OutboxRow
  <2>3. e \notin Committed /\ Committed' = Committed \cup {e} /\ UNCHANGED <<Delivered, Settled>>
    BY <1>2, <2>1, <2>2 DEF Committed, Delivered, Settled, InsertOutbox
  <2> QED BY <2>3 DEF ChannelStep
<1>3. CASE UNCHANGED copies /\ \A e \in Events : row'[e].state = row[e].state
  BY <1>3 DEF ChannelStep, Stutters, Committed, Delivered, Settled
<1>4. ASSUME NEW r \in Relays, Claim(r) \/ ClaimExpires(r) \/ ClaimOutlived(r) PROVE ChannelStep
  <2>1. \A e \in Events : /\ [row[e] EXCEPT !.token = r, !.claim = "new"].state = row[e].state
                          /\ [row[e] EXCEPT !.claim = "old"].state = row[e].state
    BY <1>1 DEF OutboxRow
  <2>2. CASE Claim(r)
    BY <1>3, <2>1, <2>2 DEF Claim
  <2>3. CASE ClaimExpires(r) \/ ClaimOutlived(r)
    BY <1>3, <2>1, <2>3 DEF ClaimExpires, ClaimOutlived, Expire
  <2> QED BY <1>4, <2>2, <2>3
<1>5. ASSUME NEW r \in Relays, MarkPublished(r) PROVE ChannelStep
  <2>1. relay[r].cur \in Events /\ copies[relay[r].cur] > 0 /\ row[relay[r].cur].state # "absent"
    BY <1>5 DEF MarkPublished, Books, InHand, WireTrue, ClaimTrue, TypeOK, RelayState
  <2>2. CASE row[relay[r].cur].token = r
    <3>1. \A e \in Events : row'[e].state = IF e = relay[r].cur THEN "published" ELSE row[e].state
      BY <1>1, <1>5, <2>1, <2>2 DEF MarkPublished, OutboxRow
    <3>2. relay[r].cur \in Delivered /\ Settled' = Settled \cup {relay[r].cur} /\ UNCHANGED <<Committed, Delivered>>
      BY <1>5, <2>1, <3>1 DEF Committed, Delivered, Settled, MarkPublished
    <3> QED BY <2>1, <3>2 DEF ChannelStep
  <2>3. CASE row[relay[r].cur].token # r
    BY <1>1, <1>3, <1>5, <2>1, <2>3 DEF MarkPublished, OutboxRow
  <2> QED BY <2>2, <2>3
<1>6. ASSUME NEW r \in Relays, BrokerAccepts(r) \/ RelayEnds(r) PROVE ChannelStep
  BY <1>3, <1>6, Delivers DEF BrokerAccepts, RelayEnds
<1>7. ASSUME NEW r \in Relays, Send(r) \/ TakeReturn(r) \/ TakeConfirmation(r) \/ MarkFailed(r)
                                \/ BrokerReturns(r) \/ BrokerConfirmsReturned(r) \/ BrokerRefuses(r)
      PROVE  ChannelStep
  BY <1>3, <1>7 DEF Send, TakeReturn, TakeConfirmation, MarkFailed,
                    BrokerReturns, BrokerConfirmsReturned, BrokerRefuses
<1>8. CASE BindQueue \/ UNCHANGED vars
  BY <1>3, <1>8 DEF BindQueue, vars
<1> QED
  BY <1>2, <1>4, <1>5, <1>6, <1>7, <1>8 DEF Next, RelayStep, BrokerStep

\* For any events, relays, batches and faults the Outbox takes only the steps of
\* an at-least-once channel: nothing is delivered that was not committed, and
\* nothing is called published that was not delivered (outbox.go, rabbitmq.go).
THEOREM ChannelSafety == Spec => Channel!Safety
<1>1. Init => Channel!Init
  <2> SUFFICES ASSUME Init PROVE Channel!Init
    OBVIOUS
  <2>1. \A e \in Events : row[e].state = "absent" /\ copies[e] = 0
    BY DEF Init, NoRow
  <2> QED BY <2>1 DEF Channel!Init
<1>2. Books /\ [Next]_vars => [Channel!Next]_(Channel!vars)
  <2> SUFFICES ASSUME Books, [Next]_vars PROVE [Channel!Next]_(Channel!vars)
    OBVIOUS
  <2>1. ChannelStep
    BY StepRefines
  <2> QED BY <2>1
    DEF ChannelStep, Stutters, Committed, Delivered, Settled,
        Channel!Next, Channel!vars, Channel!Commit, Channel!Deliver, Channel!Settle
<1> QED BY <1>1, <1>2, BooksAlways, PTL DEF Spec, Channel!Safety

---------------------------------------------------------------------------
(* The HTTP client.  Whoever ends an attempt while the breaker is half-open *)
(* ends the probing, so the last admitted probe is under way as long as     *)
(* the breaker thinks so, whatever became of earlier ones.                  *)

\* An attempt under way that Allow admitted as a probe.
Probing(c) == InFlight(c) /\ call[c].role = "probe"

\* A closed breaker is below its threshold, and a call that pauses has an
\* attempt left: what keeps the two counters within their bounds.
Counters ==
    /\ state = "closed" => failures < FailureThreshold
    /\ \A c \in Callers : call[c].pc = "sleep" => call[c].attempt < MaxAttempts

\* While the breaker thinks that somebody probes, somebody does.
ProbeKnown ==
    probing => state = "halfOpen" /\ \E c \in Callers : Probing(c)

ProbeBooks == ClientTypeOK /\ Counters /\ ProbeKnown

---------------------------------------------------------------------------

\* Nobody calls and the breaker is closed.
LEMMA ProbeBooksInit == ClientInit => ProbeBooks
<1> SUFFICES ASSUME ClientInit PROVE ProbeBooks
  OBVIOUS
<1>1. NoCall \in Call /\ NoCall.role = "none" /\ NoCall.pc = "idle"
  BY ClientAssumption DEF NoCall, Call
<1>2. ClientTypeOK
  <2>1. call \in [Callers -> Call]
    BY <1>1 DEF ClientInit
  <2>2. 0 \in 0 .. FailureThreshold
    BY ClientAssumption
  <2> QED BY <2>1, <2>2, Zenon DEF ClientInit, ClientTypeOK
<1>3. \A c \in Callers : call[c] = NoCall
  BY DEF ClientInit
<1>4. Counters
  BY <1>1, <1>3, ClientAssumption DEF ClientInit, Counters
<1>5. ProbeKnown
  BY DEF ClientInit, ProbeKnown
<1> QED BY <1>2, <1>4, <1>5 DEF ProbeBooks

\* The goroutine c starts, ends or goes on, as k; if its attempt is a probe
\* under way it stays one, and nothing is told to the breaker.
LEMMA QuietStep ==
  ASSUME ProbeBooks, NEW c \in Callers, NEW k \in Call,
         k.pc = "sleep" => k.attempt < MaxAttempts,
         Probing(c) => k.role = "probe" /\ k.pc \in {"allowed", "sent"},
         call' = [call EXCEPT ![c] = k],
         UNCHANGED <<failures, cooled, probing, calm>>,
         state' = state \/ (state = "open" /\ state' = "halfOpen")
  PROVE  ProbeBooks'
<1>1. call \in [Callers -> Call]
  BY DEF ProbeBooks, ClientTypeOK
<1>2. \A d \in Callers : call'[d] = IF d = c THEN k ELSE call[d]
  BY <1>1
<1>3. \A d \in Callers : Probing(d) => Probing(d)'
  BY <1>2 DEF Probing, InFlight
<1>4. ClientTypeOK'
  BY <1>1 DEF ProbeBooks, ClientTypeOK
<1>5. Counters'
  BY <1>2 DEF ProbeBooks, Counters, ClientTypeOK
<1>6. ProbeKnown'
  BY <1>3 DEF ProbeBooks, ProbeKnown
<1> QED BY <1>4, <1>5, <1>6 DEF ProbeBooks

\* An attempt of c ends and the breaker is told: it knows of no probe any more,
\* whoever probed.
LEMMA Ended ==
  ASSUME ProbeBooks, NEW c \in Callers, NEW k \in Call,
         k.pc = "sleep" => k.attempt < MaxAttempts,
         Ends(c, k), UNCHANGED calm, \/ Abandon \/ \E b \in BOOLEAN : Record(b)
  PROVE  ProbeBooks'
<1>1. call \in [Callers -> Call]
  BY DEF ProbeBooks, ClientTypeOK
<1>2. \A d \in Callers : call'[d] = IF d = c THEN k ELSE call[d]
  BY <1>1 DEF Ends
<1>3. call' \in [Callers -> Call]
  BY <1>1 DEF Ends
<1>5. \A d \in Callers : call'[d].pc = "sleep" => call'[d].attempt < MaxAttempts
  BY <1>2 DEF ProbeBooks, Counters
<1>6. /\ state' \in {"closed", "open", "halfOpen"} /\ failures' \in 0 .. FailureThreshold
      /\ cooled' \in BOOLEAN /\ probing' = FALSE
      /\ state' = "closed" => failures' < FailureThreshold
  <2> DEFINE Told == /\ state' \in {"closed", "open", "halfOpen"} /\ failures' \in 0 .. FailureThreshold
                     /\ cooled' \in BOOLEAN /\ probing' = FALSE
                     /\ state' = "closed" => failures' < FailureThreshold
  <2>0. probing = FALSE \/ state = "halfOpen"
    BY DEF ProbeBooks, ProbeKnown, ClientTypeOK
  <2>1. CASE Abandon
    BY <2>0, <2>1 DEF Abandon, ProbeBooks, ClientTypeOK, Counters
  <2>2. ASSUME NEW b \in BOOLEAN, Record(b) PROVE Told
    <3>0. failures \in 0 .. FailureThreshold /\ cooled \in BOOLEAN /\ state \in {"closed", "open", "halfOpen"}
      BY DEF ProbeBooks, ClientTypeOK
    <3>1. CASE state = "closed"
      <4>1. failures < FailureThreshold /\ failures + 1 \in 0 .. FailureThreshold /\ 0 < FailureThreshold
        BY <3>0, <3>1, ClientAssumption DEF ProbeBooks, Counters
      <4>2. CASE b
        BY <2>0, <2>2, <3>0, <3>1, <4>1, <4>2, ClientAssumption DEF Record
      <4>3. CASE ~b /\ failures + 1 >= FailureThreshold
        BY <2>0, <2>2, <3>0, <3>1, <4>1, <4>3 DEF Record, OpenAgain
      <4>4. CASE ~b /\ ~(failures + 1 >= FailureThreshold)
        BY <2>0, <2>2, <3>0, <3>1, <4>1, <4>4, ClientAssumption DEF Record
      <4> QED BY <4>2, <4>3, <4>4
    <3>2. CASE state = "halfOpen"
      <4>1. CASE b
        BY <2>2, <3>0, <3>2, <4>1, ClientAssumption DEF Record
      <4>2. CASE ~b
        BY <2>2, <3>0, <3>2, <4>2 DEF Record, OpenAgain
      <4> QED BY <4>1, <4>2
    <3>3. CASE state = "open"
      BY <2>0, <2>2, <3>3 DEF Record, breaker, ProbeBooks, ClientTypeOK
    <3> QED BY <3>1, <3>2, <3>3 DEF ProbeBooks, ClientTypeOK
  <2> QED BY <2>1, <2>2
<1>7. ClientTypeOK'
  BY <1>3, <1>6 DEF ProbeBooks, ClientTypeOK
<1>8. Counters' /\ ProbeKnown'
  BY <1>5, <1>6 DEF Counters, ProbeKnown
<1> QED BY <1>7, <1>8 DEF ProbeBooks

\* Every step keeps ProbeBooks.
LEMMA ProbeBooksStep == ProbeBooks /\ [ClientNext]_clientVars => ProbeBooks'
<1> SUFFICES ASSUME ProbeBooks, [ClientNext]_clientVars PROVE ProbeBooks'
  OBVIOUS
<1> USE DEF ProbeBooks
<1>t. /\ call \in [Callers -> Call]
      /\ NoCall \in Call /\ NoCall.role = "none" /\ NoCall.pc = "idle"
  BY ClientAssumption DEF ClientTypeOK, NoCall, Call
<1>q. \A c \in Callers : call[c] \in Call /\ (Probing(c) => call[c].pc \in {"allowed", "sent"} /\ call[c].role = "probe")
  BY <1>t DEF Probing, InFlight
<1>1. ASSUME NEW c \in Callers, Begin(c) PROVE ProbeBooks'
  <2>1. PICK retry \in BOOLEAN :
          call' = [call EXCEPT ![c] = [NoCall EXCEPT !.pc = "loop", !.attempt = 1, !.retry = retry]]
    BY <1>1 DEF Begin
  <2> DEFINE k == [NoCall EXCEPT !.pc = "loop", !.attempt = 1, !.retry = retry]
  <2>2. k \in Call /\ k.role = "none" /\ k.pc = "loop"
    <3>1. 1 \in 0 .. MaxAttempts
      BY ClientAssumption
    <3> QED BY <3>1 DEF NoCall, Call
  <2>3. ~Probing(c)
    BY <1>1, <1>q DEF Begin
  <2> HIDE DEF k
  <2>4. QED
    BY <1>1, <2>1, <2>2, <2>3, QuietStep DEF k, Begin, breaker
<1>2. ASSUME NEW c \in Callers, ExpireCall(c) PROVE ProbeBooks'
  <2> DEFINE k == [call[c] EXCEPT !.expired = TRUE]
  <2>1. k \in Call /\ k.role = call[c].role /\ k.pc = call[c].pc /\ k.attempt = call[c].attempt
    BY <1>q DEF Call
  <2>2. call' = [call EXCEPT ![c] = k] /\ UNCHANGED <<breaker, calm>>
    BY <1>2, <1>t DEF ExpireCall
  <2> HIDE DEF k
  <2> QED BY <1>q, <2>1, <2>2, QuietStep DEF breaker, Counters
<1>3. ASSUME NEW c \in Callers, Ask(c) PROVE ProbeBooks'
  <2>1. call[c].pc = "loop" /\ ~Probing(c) /\ UNCHANGED calm
    BY <1>3, <1>q DEF Ask
  <2>2. CASE call' = [call EXCEPT ![c] = NoCall] /\ (UNCHANGED breaker \/ Refuse)
    BY <1>t, <2>1, <2>2, QuietStep DEF breaker, Refuse
  <2>3. ASSUME Allow("normal"), call' = [call EXCEPT ![c].pc = "allowed", ![c].role = "normal"]
        PROVE  ProbeBooks'
    <3> DEFINE k == [call[c] EXCEPT !.pc = "allowed", !.role = "normal"]
    <3>1. k \in Call /\ k.role = "normal" /\ k.pc = "allowed"
      BY <1>q DEF Call
    <3>2. call' = [call EXCEPT ![c] = k] /\ UNCHANGED breaker
      BY <1>t, <2>3 DEF Allow
    <3> HIDE DEF k
    <3> QED BY <2>1, <3>1, <3>2, QuietStep DEF breaker
  <2>4. ASSUME Allow("probe"), call' = [call EXCEPT ![c].pc = "allowed", ![c].role = "probe"]
        PROVE  ProbeBooks'
    <3> DEFINE k == [call[c] EXCEPT !.pc = "allowed", !.role = "probe"]
    <3>1. k \in Call /\ k.role = "probe" /\ k.pc = "allowed"
      BY <1>q DEF Call
    <3>2. call' = [call EXCEPT ![c] = k]
      BY <1>t, <2>4
    <3>3. ~probing /\ state' = "halfOpen" /\ probing' = TRUE /\ UNCHANGED <<failures, cooled>>
      BY <2>4 DEF Allow, Admits
    <3>4. \A d \in Callers : call'[d] = IF d = c THEN k ELSE call[d]
      BY <1>t, <3>2
    <3> HIDE DEF k
    <3>5. Probing(c)'
      BY <3>1, <3>4 DEF Probing, InFlight
    <3>6. ClientTypeOK'
      BY <1>t, <2>1, <3>1, <3>2, <3>3 DEF ClientTypeOK
    <3>7. Counters'
      BY <3>1, <3>3, <3>4 DEF Counters
    <3>8. ProbeKnown'
      BY <3>3, <3>5 DEF ProbeKnown
    <3> QED BY <3>6, <3>7, <3>8
  <2> QED BY <1>3, <2>2, <2>3, <2>4 DEF Ask
<1>4. ASSUME NEW c \in Callers, Prepare(c) PROVE ProbeBooks'
  <2>1. CASE call' = [call EXCEPT ![c].pc = "sent"] /\ UNCHANGED breaker
    <3> DEFINE k == [call[c] EXCEPT !.pc = "sent"]
    <3>1. k \in Call /\ k.role = call[c].role /\ k.pc = "sent"
      BY <1>q DEF Call
    <3>2. call' = [call EXCEPT ![c] = k]
      BY <1>t, <2>1
    <3> HIDE DEF k
    <3>3. /\ Probing(c) => k.role = "probe" /\ k.pc \in {"allowed", "sent"}
          /\ k.pc # "sleep" /\ UNCHANGED calm
      BY <1>4, <1>q, <3>1 DEF Prepare
    <3> QED BY <2>1, <3>1, <3>2, <3>3, QuietStep DEF breaker
  <2>2. CASE Ends(c, NoCall) /\ Abandon
    BY <1>4, <1>t, <2>2, Ended DEF Prepare
  <2> QED BY <1>4, <2>1, <2>2 DEF Prepare
<1>f. \A c \in Callers :
        /\ AfterFailure(c) \in Call
        /\ AfterFailure(c).pc = "sleep" => AfterFailure(c).attempt < MaxAttempts
  <2> SUFFICES ASSUME NEW c \in Callers
               PROVE  /\ AfterFailure(c) \in Call
                      /\ AfterFailure(c).pc = "sleep" => AfterFailure(c).attempt < MaxAttempts
    OBVIOUS
  <2>1. CASE Retries(c)
    BY <1>q, <2>1 DEF AfterFailure, Retries, Call
  <2>2. CASE ~Retries(c)
    BY <1>t, <2>2 DEF AfterFailure
  <2> QED BY <2>1, <2>2
<1>5. ASSUME NEW c \in Callers, Succeed(c) PROVE ProbeBooks'
  BY <1>5, <1>t, Ended DEF Succeed
<1>6. ASSUME NEW c \in Callers, Fail(c) PROVE ProbeBooks'
  BY <1>6, <1>f, Ended DEF Fail
<1>7. ASSUME NEW c \in Callers, Terminate(c) PROVE ProbeBooks'
  BY <1>7, <1>f, Ended DEF Terminate
<1>8. ASSUME NEW c \in Callers, Sleep(c) PROVE ProbeBooks'
  <2>1. ~Probing(c) /\ UNCHANGED <<breaker, calm>> /\ call[c].attempt < MaxAttempts
    BY <1>8, <1>q DEF Sleep, Counters
  <2>2. CASE call[c].expired
    <3>1. call' = [call EXCEPT ![c] = NoCall]
      BY <1>8, <1>t, <2>2 DEF Sleep
    <3> QED BY <1>t, <2>1, <3>1, QuietStep DEF breaker
  <2>3. CASE ~call[c].expired
    <3> DEFINE k == [call[c] EXCEPT !.pc = "loop", !.attempt = call[c].attempt + 1]
    <3>0. call[c].attempt + 1 \in 0 .. MaxAttempts
      BY <1>q, <2>1, ClientAssumption DEF Call
    <3>1. k \in Call /\ k.role = call[c].role /\ k.pc = "loop"
      BY <1>q, <3>0 DEF Call
    <3>2. call' = [call EXCEPT ![c] = k]
      BY <1>8, <1>t, <2>3 DEF Sleep
    <3> HIDE DEF k
    <3> QED BY <2>1, <3>1, <3>2, QuietStep DEF breaker
  <2> QED BY <2>2, <2>3
<1>9. CASE Cool
  BY <1>9 DEF Cool, ClientTypeOK, Counters, ProbeKnown, Probing, InFlight
<1>10. CASE CalmDown
  BY <1>10 DEF CalmDown, breaker, ClientTypeOK, Counters, ProbeKnown, Probing, InFlight
<1>11. CASE UNCHANGED clientVars
  BY <1>11 DEF clientVars, breaker, ClientTypeOK, Counters, ProbeKnown, Probing, InFlight
<1> QED
  BY <1>1, <1>2, <1>3, <1>4, <1>5, <1>6, <1>7, <1>8, <1>9, <1>10, <1>11 DEF ClientNext, Step

\* For any number of goroutines, any threshold and any retries: while the
\* breaker refuses calls because one is probing, an attempt that it admitted as a
\* probe is under way.  Neither an outcome that comes late nor an error path of
\* Do (client.go) leaks a probe.
THEOREM ProbeHeldTheorem == ClientSpec => []ProbeHeld
<1>1. ProbeBooks /\ [ClientNext]_clientVars => ProbeBooks'
  BY ProbeBooksStep
<1>2. ProbeBooks => ProbeHeld
  BY DEF ProbeBooks, ProbeHeld, Counters, ProbeKnown, Probing
<1> QED BY <1>1, <1>2, ProbeBooksInit, PTL DEF ClientSpec
=============================================================================
