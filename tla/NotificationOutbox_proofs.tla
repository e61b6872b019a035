---------------------- MODULE NotificationOutbox_proofs ----------------------
(***************************************************************************)
(* What holds of NotificationOutbox for any notices, pollers, tokens and   *)
(* bounds: its types, that it implements DeliveryPromise, and that every   *)
(* copy a user receives beyond the first has a reason.                     *)
(***************************************************************************)
EXTENDS NotificationOutbox, FiniteSetTheorems, TLAPS

\* A row is leased only while it is queued, and only queued rows exist unsettled.
RowSound(row) ==
  /\ row.delivered \/ row.dead \/ ~ row.there => row.token = NoToken
  /\ ~ row.there => ~ row.delivered /\ ~ row.dead

\* A poller that works has a token and works on rows that exist; a notice it
\* is about to acknowledge as sent has been received.
BatchSound(p) ==
  /\ Holding(p) # {} => poller[p].token \in Tokens
  /\ \A n \in Holding(p) : outbox[n].there
  /\ \A n \in poller[p].sent : received[n] >= 1

\* The copies of a notice still to come without any further reason: one for
\* each poller about to send it, and one if it can be claimed again, now or
\* after a poller has acknowledged a failure under its own lease.
Sending(n) == {p \in Pollers : n \in poller[p].todo}
FreeToSend(n) ==
  /\ ~ outbox[n].delivered /\ ~ outbox[n].dead
  /\ \/ outbox[n].token = NoToken
     \/ \E p \in Pollers : n \in poller[p].failed /\ poller[p].token = outbox[n].token
Owed(n) == IF FreeToSend(n) THEN 1 ELSE 0
Budget(n) == received[n] + Cardinality(Sending(n)) + Owed(n) <= 1 + repeats[n]

OutboxInv == /\ OutboxTypeOK
             /\ \A n \in Notices : RowSound(outbox[n])
             /\ \A p \in Pollers : BatchSound(p)
             /\ \A n \in Notices : Budget(n)

LEMMA Typed ==
  ASSUME OutboxInv
  PROVE  /\ outbox \in [Notices -> EventRows] /\ poller \in [Pollers -> Batches]
         /\ received \in [Notices -> Nat] /\ repeats \in [Notices -> Nat] /\ mishaps \in Nat
         /\ \A n \in Notices : /\ outbox[n] \in EventRows /\ RowSound(outbox[n])
                               /\ received[n] \in Nat /\ repeats[n] \in Nat
                               /\ Budget(n)
         /\ \A p \in Pollers : poller[p] \in Batches /\ BatchSound(p)
  BY DEF OutboxInv, OutboxTypeOK

LEMMA SendingFinite == \A n : IsFiniteSet(Sending(n)) /\ Cardinality(Sending(n)) \in Nat
<1> SUFFICES ASSUME NEW n PROVE IsFiniteSet(Sending(n)) /\ Cardinality(Sending(n)) \in Nat
  OBVIOUS
<1>1. Sending(n) \subseteq Pollers
  BY DEF Sending
<1>. QED BY <1>1, OutboxAssumption, FS_Subset, FS_CardinalityType

\* What a step of one poller does to the set of those about to send n.
LEMMA SendingSame ==
  ASSUME NEW n, \A p \in Pollers : n \in poller'[p].todo <=> n \in poller[p].todo
  PROVE  Cardinality(Sending(n)') = Cardinality(Sending(n))
<1>1. Sending(n)' = Sending(n)
  BY DEF Sending
<1>. QED BY <1>1

LEMMA SendingLess ==
  ASSUME NEW n, NEW p \in Pollers, \A q \in Pollers \ {p} : poller'[q] = poller[q],
         n \in poller[p].todo, n \notin poller'[p].todo
  PROVE  Cardinality(Sending(n)') = Cardinality(Sending(n)) - 1
<1>1. Sending(n)' = Sending(n) \ {p} /\ p \in Sending(n)
  BY DEF Sending
<1>. QED BY <1>1, SendingFinite, FS_RemoveElement

LEMMA SendingMore ==
  ASSUME NEW n, NEW p \in Pollers, \A q \in Pollers \ {p} : poller'[q] = poller[q],
         n \notin poller[p].todo, n \in poller'[p].todo
  PROVE  Cardinality(Sending(n)') = Cardinality(Sending(n)) + 1
<1>1. Sending(n)' = Sending(n) \cup {p} /\ p \notin Sending(n)
  BY DEF Sending
<1>. QED BY <1>1, SendingFinite, FS_AddElement

LEMMA SendingShrinks ==
  ASSUME NEW n, \A p \in Pollers : n \in poller'[p].todo => n \in poller[p].todo
  PROVE  Cardinality(Sending(n)') <= Cardinality(Sending(n)) /\ Cardinality(Sending(n)') \in Nat
<1>1. Sending(n)' \subseteq Sending(n)
  BY DEF Sending
<1>. QED BY <1>1, SendingFinite, FS_Subset, FS_CardinalityType

LEMMA OutboxStarts == OutboxInit => OutboxInv
<1> SUFFICES ASSUME OutboxInit PROVE OutboxInv
  OBVIOUS
<1>1. NoEvent \in EventRows /\ RowSound(NoEvent) /\ NoBatch \in Batches
  BY DEF NoEvent, EventRows, RowSound, NoBatch, Batches
<1>2. OutboxTypeOK
  BY <1>1 DEF OutboxInit, OutboxTypeOK
<1>3. \A p \in Pollers : poller[p].todo = {} /\ poller[p].sent = {} /\ poller[p].failed = {}
  BY DEF OutboxInit, NoBatch
<1>4. ASSUME NEW n \in Notices PROVE Budget(n)
  <2>1. Sending(n) = {}
    BY <1>3 DEF Sending
  <2>2. received[n] = 0 /\ repeats[n] = 0 /\ Cardinality(Sending(n)) = 0
    BY <2>1, FS_EmptySet DEF OutboxInit
  <2>. QED BY <2>2 DEF Budget, Owed
<1>. QED BY <1>1, <1>2, <1>3, <1>4 DEF OutboxInv, OutboxInit, BatchSound, Holding
-----------------------------------------------------------------------------
(***************************************************************************)
(* The steps that change one row and no poller.                            *)
(***************************************************************************)
LEMMA RowStep ==
  ASSUME OutboxInv, NEW n \in Notices, NEW r \in EventRows, RowSound(r),
         outbox' = [outbox EXCEPT ![n] = r], UNCHANGED <<poller, received, repeats>>,
         mishaps' \in Nat, outbox[n].there => r.there,
         r.token = outbox[n].token,
         r.delivered = outbox[n].delivered, r.dead = outbox[n].dead
  PROVE  OutboxInv'
<1>1. \A m \in Notices : outbox'[m] = IF m = n THEN r ELSE outbox[m]
  BY Typed
<1>2. OutboxTypeOK' /\ \A m \in Notices : RowSound(outbox'[m])
  BY <1>1, Typed DEF OutboxTypeOK
<1>3. ASSUME NEW p \in Pollers PROVE BatchSound(p)'
  BY <1>1, Typed DEF BatchSound, Holding, Batches
<1>4. ASSUME NEW m \in Notices PROVE Budget(m)'
  <2>1. Cardinality(Sending(m)') = Cardinality(Sending(m))
    BY SendingSame
  <2>2. FreeToSend(m)' => FreeToSend(m)
    BY <1>1 DEF FreeToSend
  <2>3. Owed(m)' <= Owed(m) /\ Owed(m)' \in Nat /\ Owed(m) \in Nat
    BY <2>2 DEF Owed
  <2>. QED BY <2>1, <2>3, Typed, SendingFinite DEF Budget
<1>. QED BY <1>2, <1>3, <1>4 DEF OutboxInv

\* The promise's view of a row and of the table.
RowFate(row) == IF ~ row.there THEN "absent"
                ELSE IF row.delivered THEN "delivered"
                ELSE IF row.dead THEN "dead" ELSE "queued"
Attempts == [n \in Notices |-> outbox[n].attempts]
PromiseStep == [Promise!Next]_<<Fate, Attempts, received>>

LEMMA Seen ==
  /\ \A n \in Notices : Fate[n] = RowFate(outbox[n]) /\ Attempts[n] = outbox[n].attempts
  /\ DOMAIN Fate = Notices /\ DOMAIN Attempts = Notices
  BY DEF Fate, Attempts, RowFate

LEMMA Unseen ==
  ASSUME UNCHANGED received,
         \A n \in Notices : /\ RowFate(outbox'[n]) = RowFate(outbox[n])
                            /\ outbox'[n].attempts = outbox[n].attempts
  PROVE  PromiseStep
<1>1. Fate' = Fate /\ Attempts' = Attempts
  BY DEF Fate, Attempts, RowFate
<1>. QED BY <1>1 DEF PromiseStep

\* What the table looks like when only row n has changed.
LEMMA SeenOne ==
  ASSUME OutboxInv, NEW n \in Notices, NEW r \in EventRows, outbox' = [outbox EXCEPT ![n] = r]
  PROVE  /\ \A m \in Notices : outbox'[m] = IF m = n THEN r ELSE outbox[m]
         /\ Fate' = [Fate EXCEPT ![n] = RowFate(r)]
         /\ Attempts' = [Attempts EXCEPT ![n] = r.attempts]
<1>1. \A m \in Notices : outbox'[m] = IF m = n THEN r ELSE outbox[m]
  BY Typed
<1>2. Fate' = [Fate EXCEPT ![n] = RowFate(r)]
  BY <1>1 DEF Fate, RowFate
<1>3. Attempts' = [Attempts EXCEPT ![n] = r.attempts]
  <2>1. \A m \in Notices : Attempts'[m] = IF m = n THEN r.attempts ELSE Attempts[m]
    BY <1>1 DEF Attempts
  <2>2. DOMAIN Attempts' = Notices /\ Attempts' = [m \in Notices |-> Attempts'[m]]
    BY DEF Attempts
  <2>3. DOMAIN Attempts = Notices
    BY DEF Attempts
  <2> HIDE DEF Attempts
  <2>. QED BY <2>1, <2>2, <2>3
<1>. QED BY <1>1, <1>2, <1>3

LEMMA UnseenOne ==
  ASSUME OutboxInv, NEW n \in Notices, NEW r \in EventRows, outbox' = [outbox EXCEPT ![n] = r],
         RowFate(r) = RowFate(outbox[n]), r.attempts = outbox[n].attempts, UNCHANGED received
  PROVE  PromiseStep
  BY SeenOne, Unseen

LEMMA EnqueueKeeps ==
  ASSUME OutboxInv, NEW o \in Occurrences, enqueueNotificationTx(o)
  PROVE  OutboxInv' /\ PromiseStep
<1> DEFINE n == DedupeKey(o)
           r == [outbox[n] EXCEPT !.there = TRUE]
<1>1. n \in Notices
  BY DEF Notices
<1>2. /\ ~ outbox[n].there /\ outbox' = [outbox EXCEPT ![n] = r]
      /\ UNCHANGED <<poller, received, repeats, mishaps>>
  <2>1. outbox' = [outbox EXCEPT ![n].there = TRUE]
    BY DEF enqueueNotificationTx
  <2>. QED BY <2>1 DEF enqueueNotificationTx
<1> HIDE DEF n
<1>3. /\ outbox[n] \in EventRows /\ outbox[n].token = NoToken /\ ~ outbox[n].delivered
      /\ ~ outbox[n].dead
  BY <1>1, <1>2, Typed DEF RowSound
<1>4. /\ r \in EventRows /\ r.there /\ r.token = NoToken /\ ~ r.delivered /\ ~ r.dead
      /\ r.attempts = outbox[n].attempts
      /\ r.delivered = outbox[n].delivered /\ r.dead = outbox[n].dead
  BY <1>3 DEF EventRows
<1> HIDE DEF r
<1>5. RowSound(r) /\ RowFate(r) = "queued" /\ RowFate(outbox[n]) = "absent"
  BY <1>2, <1>4 DEF RowSound, RowFate
<1>6. OutboxInv'
  BY <1>1, <1>2, <1>3, <1>4, <1>5, RowStep, Typed
<1>7. Promise!Accept(n)
  <2>1. Fate' = [Fate EXCEPT ![n] = "queued"] /\ Fate[n] = "absent"
    <3>1. Fate' = [Fate EXCEPT ![n] = RowFate(r)]
      BY <1>1, <1>2, <1>4, SeenOne
    <3>. QED BY <1>1, <1>5, <3>1, Seen
  <2>2. Attempts' = Attempts
    <3>1. Attempts' = [Attempts EXCEPT ![n] = r.attempts]
      BY <1>1, <1>2, <1>4, SeenOne
    <3>2. Attempts[n] = r.attempts
      BY <1>1, <1>4, Seen
    <3>. QED BY <3>1, <3>2 DEF Attempts
  <2>. QED BY <1>2, <2>1, <2>2 DEF Promise!Accept, Attempts
<1>. QED BY <1>1, <1>6, <1>7 DEF PromiseStep, Promise!Next

LEMMA ClockKeeps ==
  ASSUME OutboxInv, NEW n \in Notices, BackoffEnds(n) \/ LeaseRunsOut(n)
  PROVE  OutboxInv' /\ PromiseStep
<1>1. outbox[n] \in EventRows /\ RowSound(outbox[n])
  BY Typed
<1>2. mishaps' \in Nat /\ UNCHANGED <<poller, received, repeats>>
  BY Typed DEF BackoffEnds, LeaseRunsOut, Mishap
<1>3. PICK r \in EventRows :
        /\ outbox' = [outbox EXCEPT ![n] = r] /\ r.there = outbox[n].there
        /\ r.token = outbox[n].token /\ r.attempts = outbox[n].attempts
        /\ r.delivered = outbox[n].delivered /\ r.dead = outbox[n].dead
  <2>1. CASE BackoffEnds(n)
    <3> DEFINE r == [outbox[n] EXCEPT !.due = TRUE]
    <3>1. outbox' = [outbox EXCEPT ![n] = r]
      BY <2>1 DEF BackoffEnds
    <3>2. /\ r \in EventRows /\ r.there = outbox[n].there
          /\ r.token = outbox[n].token /\ r.attempts = outbox[n].attempts
          /\ r.delivered = outbox[n].delivered /\ r.dead = outbox[n].dead
      BY <1>1 DEF EventRows
    <3> HIDE DEF r
    <3>. QED BY <3>1, <3>2
  <2>2. CASE LeaseRunsOut(n)
    <3> DEFINE r == [outbox[n] EXCEPT !.lapsed = TRUE]
    <3>1. outbox' = [outbox EXCEPT ![n] = r]
      BY <2>2 DEF LeaseRunsOut
    <3>2. /\ r \in EventRows /\ r.there = outbox[n].there
          /\ r.token = outbox[n].token /\ r.attempts = outbox[n].attempts
          /\ r.delivered = outbox[n].delivered /\ r.dead = outbox[n].dead
      BY <1>1 DEF EventRows
    <3> HIDE DEF r
    <3>. QED BY <3>1, <3>2
  <2>. QED BY <2>1, <2>2
<1>4. RowSound(r) /\ RowFate(r) = RowFate(outbox[n])
  BY <1>1, <1>3 DEF RowSound, RowFate
<1>. QED BY <1>2, <1>3, <1>4, RowStep, UnseenOne
-----------------------------------------------------------------------------
(***************************************************************************)
(* The steps of one poller.                                                *)
(***************************************************************************)
LEMMA BatchStep ==
  ASSUME OutboxInv, NEW p \in Pollers, NEW b \in Batches, poller' = [poller EXCEPT ![p] = b]
  PROVE  /\ poller' \in [Pollers -> Batches] /\ poller'[p] = b
         /\ \A q \in Pollers \ {p} : poller'[q] = poller[q]
  BY Typed

LEMMA NothingHeld == NoBatch \in Batches /\ NoBatch.todo = {} /\ NoBatch.sent = {} /\ NoBatch.failed = {}
  BY DEF NoBatch, Batches

\* A notice the step is not about keeps its budget.
LEMMA BudgetElsewhere ==
  ASSUME OutboxInv, NEW m \in Notices, received'[m] = received[m], repeats'[m] = repeats[m],
         \A q \in Pollers : m \in poller'[q].todo => m \in poller[q].todo,
         FreeToSend(m)' => FreeToSend(m)
  PROVE  Budget(m)'
<1>1. Cardinality(Sending(m)') <= Cardinality(Sending(m)) /\ Cardinality(Sending(m)') \in Nat
  BY SendingShrinks
<1>2. Owed(m)' <= Owed(m) /\ Owed(m)' \in Nat /\ Owed(m) \in Nat
  BY DEF Owed
<1>. QED BY <1>1, <1>2, Typed, SendingFinite DEF Budget

LEMMA DeliverKeeps ==
  ASSUME OutboxInv, NEW p \in Pollers, NEW n \in Notices, Deliver(p, n)
  PROVE  OutboxInv' /\ PromiseStep
<1> DEFINE was == poller[p]
<1>1. /\ was \in Batches /\ n \in was.todo /\ was.sent = {} /\ was.failed = {} /\ UNCHANGED outbox
      /\ BatchSound(p)
  BY Typed DEF Deliver
<1>2. PICK b \in Batches :
        /\ poller' = [poller EXCEPT ![p] = b] /\ b.token = was.token /\ b.todo = was.todo \ {n}
        /\ \/ Sent(p, n) /\ b.sent = {n} /\ b.failed = {}
           \/ NotSent(p, n) /\ b.sent = {} /\ b.failed = {n}
  <2>1. CASE Sent(p, n)
    <3> DEFINE b == [was EXCEPT !.todo = was.todo \ {n}, !.sent = {n}]
    <3>1. poller' = [poller EXCEPT ![p] = b]
      BY <2>1 DEF Sent
    <3>2. b \in Batches /\ b.token = was.token /\ b.todo = was.todo \ {n} /\ b.sent = {n} /\ b.failed = {}
      BY <1>1 DEF Batches
    <3> HIDE DEF b
    <3>. QED BY <2>1, <3>1, <3>2
  <2>2. CASE NotSent(p, n)
    <3> DEFINE b == [was EXCEPT !.todo = was.todo \ {n}, !.failed = {n}]
    <3>1. poller' = [poller EXCEPT ![p] = b]
      BY <2>2 DEF NotSent
    <3>2. b \in Batches /\ b.token = was.token /\ b.todo = was.todo \ {n} /\ b.sent = {} /\ b.failed = {n}
      BY <1>1 DEF Batches
    <3> HIDE DEF b
    <3>. QED BY <2>2, <3>1, <3>2
  <2>. QED BY <2>1, <2>2 DEF Deliver
<1>3. /\ poller' \in [Pollers -> Batches] /\ poller'[p] = b
      /\ \A q \in Pollers \ {p} : poller'[q] = poller[q]
  BY <1>2, BatchStep
<1>4. /\ \/ b.failed = {} /\ Received(n) /\ UNCHANGED repeats
         \/ b.sent = {} /\ UNCHANGED <<received, repeats>>
         \/ b.sent = {} /\ Received(n) /\ SendAgain(n)
      /\ mishaps' \in Nat
  <2>1. mishaps' \in Nat
    BY Typed DEF Deliver, Mishap
  <2>2. CASE b.sent = {n} /\ b.failed = {}
    <3>1. ~ NotSent(p, n)
      BY <1>1, <1>3, <2>2, Typed DEF NotSent, Batches
    <3>. QED BY <2>1, <2>2, <3>1 DEF Deliver
  <2>3. CASE b.sent = {} /\ b.failed = {n}
    <3>1. ~ Sent(p, n)
      <4>1. poller \in [Pollers -> Batches] /\ n \notin poller'[p].sent
        BY <1>3, <2>3, Typed
      <4>. QED BY <4>1 DEF Sent, Batches
    <3>. QED BY <2>1, <2>3, <3>1 DEF Deliver
  <2>. QED BY <1>2, <2>2, <2>3
<1>5. /\ received' \in [Notices -> Nat] /\ repeats' \in [Notices -> Nat]
      /\ \A m \in Notices \ {n} : received'[m] = received[m] /\ repeats'[m] = repeats[m]
      /\ \/ b.failed = {} /\ received'[n] = received[n] + 1 /\ repeats'[n] = repeats[n]
         \/ b.sent = {} /\ received'[n] = received[n] /\ repeats'[n] = repeats[n]
         \/ b.sent = {} /\ received'[n] = received[n] + 1 /\ repeats'[n] = repeats[n] + 1
  BY <1>4, Typed DEF Received, SendAgain
<1>6. OutboxTypeOK'
  BY <1>1, <1>3, <1>4, <1>5, Typed DEF OutboxTypeOK
<1>7. \A m \in Notices : received'[m] >= received[m]
  BY <1>5, Typed
<1>8. ASSUME NEW q \in Pollers PROVE BatchSound(q)'
  <2>1. BatchSound(q) /\ \A m \in poller[q].sent : m \in Notices
    BY Typed DEF Batches
  <2>2. CASE q # p
    BY <1>1, <1>3, <1>5, <1>7, <2>1, <2>2, Typed DEF BatchSound, Holding
  <2>3. CASE q = p
    <3>1. Holding(p)' \subseteq Holding(p) /\ Holding(p) # {}
      BY <1>1, <1>2, <1>3 DEF Holding
    <3>2. \A m \in b.sent : received'[m] >= 1
      BY <1>2, <1>5, Typed
    <3>. QED BY <1>1, <1>2, <1>3, <2>3, <3>1, <3>2 DEF BatchSound
  <2>. QED BY <2>2, <2>3
<1>9. ASSUME NEW m \in Notices PROVE Budget(m)'
  <2>1. CASE m # n
    <3>1. FreeToSend(m)' => FreeToSend(m)
      BY <1>1, <1>2, <1>3, <2>1 DEF FreeToSend
    <3>2. \A q \in Pollers : m \in poller'[q].todo => m \in poller[q].todo
      BY <1>2, <1>3
    <3>. QED BY <1>5, <2>1, <3>1, <3>2, BudgetElsewhere
  <2>2. CASE m = n
    <3>1. Cardinality(Sending(n)') = Cardinality(Sending(n)) - 1
      BY <1>1, <1>2, <1>3, SendingLess
    <3>2. Owed(n)' \in {0, 1} /\ Owed(n) \in {0, 1}
      BY DEF Owed
    <3>3. b.failed = {} => Owed(n)' <= Owed(n)
      BY <1>1, <1>3 DEF Owed, FreeToSend
    <3>4. received[n] \in Nat /\ repeats[n] \in Nat /\ Cardinality(Sending(n)) \in Nat /\ Budget(n)
      BY Typed, SendingFinite
    <3>5. received'[n] + Cardinality(Sending(n)') + Owed(n)' <= 1 + repeats'[n]
      BY <1>5, <3>1, <3>2, <3>3, <3>4 DEF Budget
    <3>. QED BY <2>2, <3>5 DEF Budget
  <2>. QED BY <2>1, <2>2
<1>10. OutboxInv'
  BY <1>1, <1>6, <1>8, <1>9, Typed DEF OutboxInv
<1>11. CASE Received(n)
  <2>1. outbox[n].there
    BY <1>1 DEF BatchSound, Holding
  <2>2. Fate[n] # "absent" /\ UNCHANGED <<Fate, Attempts>>
    BY <1>1, <2>1, Seen DEF RowFate, Fate, Attempts
  <2>3. Promise!Receive(n)
    BY <1>11, <2>2 DEF Promise!Receive, Received, Attempts
  <2>. QED BY <1>10, <2>3 DEF PromiseStep, Promise!Next
<1>12. CASE UNCHANGED received
  BY <1>1, <1>10, <1>12, Unseen
<1>. QED BY <1>4, <1>11, <1>12

\* What an acknowledgement makes of the poller's batch.
Acked(p, n, b) ==
  /\ poller' = [poller EXCEPT ![p] = b] /\ b.todo = poller[p].todo
  /\ b.token = poller[p].token \/ b.todo \cup b.sent \cup b.failed = {}
  /\ b.sent \subseteq poller[p].sent
  /\ b.failed \subseteq poller[p].failed \/ (b.failed = {n} /\ b.token = poller[p].token)

LEMMA AckMoves ==
  ASSUME OutboxInv, NEW p \in Pollers, NEW n \in Notices,
         AckDone(p) \/ UNCHANGED poller \/ AckRaises(p, n)
  PROVE  \E b \in Batches : Acked(p, n, b) /\ (~ AckRaises(p, n) => b.failed \subseteq poller[p].failed)
<1> DEFINE was == poller[p]
<1>1. poller \in [Pollers -> Batches] /\ was \in Batches
  BY Typed
<1>2. CASE AckDone(p) /\ was.todo = {}
  <2>1. poller' = [poller EXCEPT ![p] = NoBatch]
    BY <1>2 DEF AckDone
  <2>. QED BY <1>2, <2>1, NothingHeld DEF Acked
<1>3. CASE AckDone(p) /\ was.todo # {}
  <2> DEFINE b == [was EXCEPT !.sent = {}, !.failed = {}]
  <2>1. poller' = [poller EXCEPT ![p] = b]
    BY <1>3 DEF AckDone
  <2>2. b \in Batches /\ b.todo = was.todo /\ b.token = was.token /\ b.sent = {} /\ b.failed = {}
    BY <1>1 DEF Batches
  <2> HIDE DEF b
  <2>3. Acked(p, n, b)
    BY <2>1, <2>2 DEF Acked
  <2>. QED BY <2>2, <2>3
<1>4. CASE UNCHANGED poller
  <2>1. poller' = [poller EXCEPT ![p] = was]
    BY <1>1, <1>4
  <2>2. Acked(p, n, was)
    BY <2>1 DEF Acked
  <2>. QED BY <1>1, <2>2
<1>5. CASE AckRaises(p, n)
  <2> DEFINE b == [was EXCEPT !.sent = {}, !.failed = {n}]
  <2>1. poller' = [poller EXCEPT ![p] = b]
    BY <1>5 DEF AckRaises
  <2>2. b \in Batches /\ b.todo = was.todo /\ b.token = was.token /\ b.sent = {} /\ b.failed = {n}
    BY <1>1 DEF Batches
  <2> HIDE DEF b
  <2>3. Acked(p, n, b)
    BY <2>1, <2>2 DEF Acked
  <2>. QED BY <1>5, <2>2, <2>3
<1>. QED BY <1>2, <1>3, <1>4, <1>5

\* An acknowledgement: what it leaves to show is the row's new state and the
\* budget of the notice acknowledged.
LEMMA AckedKeeps ==
  ASSUME OutboxInv, NEW p \in Pollers, NEW n \in Notices, NEW b \in Batches, Acked(p, n, b),
         n \in Holding(p), NEW r \in EventRows, RowSound(r), outbox' = [outbox EXCEPT ![n] = r],
         r.there, UNCHANGED received, repeats' \in [Notices -> Nat], mishaps' \in Nat,
         \A m \in Notices \ {n} : repeats'[m] = repeats[m],
         FreeToSend(n)' => FreeToSend(n) \/ repeats'[n] = repeats[n] + 1,
         repeats'[n] >= repeats[n]
  PROVE  OutboxInv'
<1>1. /\ poller' \in [Pollers -> Batches] /\ poller'[p] = b
      /\ \A q \in Pollers \ {p} : poller'[q] = poller[q]
  BY BatchStep DEF Acked
<1>2. \A m \in Notices : outbox'[m] = IF m = n THEN r ELSE outbox[m]
  BY SeenOne
<1>3. OutboxTypeOK' /\ \A m \in Notices : RowSound(outbox'[m])
  BY <1>1, <1>2, Typed DEF OutboxTypeOK
<1>4. ASSUME NEW q \in Pollers PROVE BatchSound(q)'
  <2>1. BatchSound(q) /\ poller[q] \in Batches
    BY Typed
  <2>2. CASE q # p
    BY <1>1, <1>2, <2>1, <2>2 DEF BatchSound, Holding, Batches
  <2>3. CASE q = p
    <3>1. Holding(p)' \subseteq Holding(p)
      BY <1>1 DEF Holding, Acked
    <3>2. Holding(p)' # {} => poller'[p].token = poller[p].token
      BY <1>1 DEF Holding, Acked
    <3>. QED BY <1>1, <1>2, <2>1, <2>3, <3>1, <3>2 DEF BatchSound, Holding, Batches, Acked
  <2>. QED BY <2>2, <2>3
<1>5. ASSUME NEW m \in Notices PROVE Budget(m)'
  <2>1. \A q \in Pollers : m \in poller'[q].todo <=> m \in poller[q].todo
    BY <1>1 DEF Acked
  <2>2. CASE m # n
    <3>1. FreeToSend(m)' => FreeToSend(m)
      BY <1>1, <1>2, <2>2 DEF FreeToSend, Acked
    <3>. QED BY <2>1, <2>2, <3>1, BudgetElsewhere
  <2>3. CASE m = n
    <3>1. Cardinality(Sending(n)') = Cardinality(Sending(n))
      BY <2>1, <2>3, SendingSame
    <3>2. Owed(n)' <= Owed(n) \/ (Owed(n)' <= Owed(n) + 1 /\ repeats'[n] = repeats[n] + 1)
      BY DEF Owed
    <3>3. /\ received[n] \in Nat /\ repeats[n] \in Nat /\ repeats'[n] \in Nat
          /\ Cardinality(Sending(n)) \in Nat /\ Budget(n) /\ Owed(n) \in Nat /\ Owed(n)' \in Nat
      BY Typed, SendingFinite DEF Owed
    <3>4. received'[n] + Cardinality(Sending(n)') + Owed(n)' <= 1 + repeats'[n]
      BY <3>1, <3>2, <3>3 DEF Budget
    <3>. QED BY <2>3, <3>4 DEF Budget
  <2>. QED BY <2>2, <2>3
<1>. QED BY <1>3, <1>4, <1>5 DEF OutboxInv

LEMMA AckSentKeeps ==
  ASSUME OutboxInv, NEW p \in Pollers, NEW n \in Notices, AckSent(p, n)
  PROVE  OutboxInv' /\ PromiseStep
<1> DEFINE was == poller[p]
           row == outbox[n]
<1>1. /\ n \in was.sent /\ n \in Holding(p) /\ row.there /\ received[n] >= 1 /\ was.token \in Tokens
      /\ row \in EventRows /\ RowSound(row) /\ UNCHANGED received /\ mishaps' \in Nat
  BY Typed DEF AckSent, BatchSound, Holding, Mishap
<1>2. PICK b \in Batches : Acked(p, n, b)
                           /\ (~ AckRaises(p, n) => b.failed \subseteq was.failed)
  BY AckMoves DEF AckSent
<1>3. /\ poller' \in [Pollers -> Batches] /\ poller'[p] = b
      /\ \A q \in Pollers \ {p} : poller'[q] = poller[q]
  BY <1>2, BatchStep DEF Acked
<1>4. CASE UNCHANGED outbox
  <2>1. outbox' = [outbox EXCEPT ![n] = row] /\ \A m \in Notices : outbox'[m] = outbox[m]
    BY <1>4, Typed
  <2>2. CASE SendAgain(n)
    <3>1. /\ repeats' \in [Notices -> Nat] /\ repeats'[n] = repeats[n] + 1
          /\ repeats'[n] >= repeats[n]
          /\ \A m \in Notices \ {n} : repeats'[m] = repeats[m]
      BY <2>2, Typed DEF SendAgain
    <3>2. OutboxInv'
      BY <1>1, <1>2, <2>1, <3>1, AckedKeeps
    <3>. QED BY <1>1, <2>1, <3>2, Unseen
  <2>3. CASE UNCHANGED repeats /\ row.token # was.token
    <3>1. /\ repeats' \in [Notices -> Nat] /\ repeats'[n] >= repeats[n]
          /\ \A m \in Notices \ {n} : repeats'[m] = repeats[m]
      BY <2>3, Typed
    <3>2. FreeToSend(n)' => FreeToSend(n)
      BY <1>2, <1>3, <2>1, <2>3 DEF FreeToSend, Acked
    <3>3. OutboxInv'
      BY <1>1, <1>2, <2>1, <3>1, <3>2, AckedKeeps
    <3>. QED BY <1>1, <2>1, <3>3, Unseen
  <2>4. CASE ~ SendAgain(n) /\ row.token = was.token
    <3>1. outbox'[n] = AckedDelivered(row, was.token)
      BY <2>4, Typed DEF AckSent
    <3>2. row.token # NoToken /\ AckedDelivered(row, was.token).token = NoToken
      BY <1>1, <2>4, OutboxAssumption DEF AckedDelivered, EventRows
    <3>. QED BY <2>1, <3>1, <3>2
  <2>. QED BY <2>2, <2>3, <2>4 DEF AckSent
<1>5. CASE ~ UNCHANGED outbox
  <2> DEFINE r == [row EXCEPT !.delivered = TRUE, !.token = NoToken, !.lapsed = FALSE]
  <2>1. outbox' = [outbox EXCEPT ![n] = AckedDelivered(row, was.token)] /\ UNCHANGED repeats
    BY <1>5 DEF AckSent
  <2>2. row.token = was.token /\ outbox' = [outbox EXCEPT ![n] = r]
    BY <1>5, <2>1, Typed DEF AckedDelivered
  <2>3. r \in EventRows /\ r.delivered /\ r.there /\ r.token = NoToken /\ r.attempts = row.attempts
    BY <1>1 DEF EventRows
  <2> HIDE DEF r
  <2>4. RowSound(r) /\ RowFate(r) = "delivered"
    BY <2>3 DEF RowSound, RowFate
  <2>5. \A m \in Notices : outbox'[m] = IF m = n THEN r ELSE outbox[m]
    BY <2>2, <2>3, SeenOne
  <2>6. ~ FreeToSend(n)'
    BY <2>3, <2>5 DEF FreeToSend
  <2>7. /\ repeats' \in [Notices -> Nat] /\ repeats'[n] >= repeats[n]
        /\ \A m \in Notices \ {n} : repeats'[m] = repeats[m]
    BY <2>1, Typed
  <2>8. OutboxInv'
    BY <1>1, <1>2, <2>2, <2>3, <2>4, <2>6, <2>7, AckedKeeps
  <2>9. Fate[n] = "queued"
    <3>1. row.token # NoToken
      BY <1>1, <2>2, OutboxAssumption
    <3>. QED BY <1>1, <3>1, Seen DEF RowSound, RowFate
  <2>10. Fate' = [Fate EXCEPT ![n] = "delivered"]
    <3>1. Fate' = [Fate EXCEPT ![n] = RowFate(r)]
      BY <2>2, <2>3, SeenOne
    <3>. QED BY <2>4, <3>1
  <2>11. Attempts' = Attempts
    <3>1. Attempts' = [Attempts EXCEPT ![n] = r.attempts]
      BY <2>2, <2>3, SeenOne
    <3>2. Attempts[n] = r.attempts
      BY <2>3, Seen
    <3>. QED BY <3>1, <3>2 DEF Attempts
  <2>12. Promise!Settle(n)
    <3>1. received[n] > 0
      BY <1>1, Typed
    <3>. QED BY <1>1, <2>9, <2>10, <2>11, <3>1 DEF Promise!Settle, Attempts
  <2>. QED BY <2>8, <2>12 DEF PromiseStep, Promise!Next
<1>. QED BY <1>4, <1>5

LEMMA AckNotSentKeeps ==
  ASSUME OutboxInv, NEW p \in Pollers, NEW n \in Notices, AckNotSent(p, n)
  PROVE  OutboxInv' /\ PromiseStep
<1> DEFINE was == poller[p]
           row == outbox[n]
<1>1. /\ n \in was.failed /\ n \in Holding(p) /\ row.there /\ was.token \in Tokens
      /\ row \in EventRows /\ RowSound(row) /\ UNCHANGED <<received, repeats>> /\ mishaps' \in Nat
  BY Typed DEF AckNotSent, BatchSound, Holding, Mishap
<1>2. PICK b \in Batches : Acked(p, n, b) /\ b.failed \subseteq was.failed
  <2>1. CASE ~ AckRaises(p, n)
    BY <2>1, AckMoves DEF AckNotSent
  <2>2. CASE AckRaises(p, n)
    <3>1. PICK b \in Batches : Acked(p, n, b)
      BY <2>2, AckMoves
    <3>2. b.failed \subseteq was.failed
      BY <1>1, <3>1 DEF Acked
    <3>. QED BY <3>1, <3>2
  <2>. QED BY <2>1, <2>2
<1>3. /\ poller' \in [Pollers -> Batches] /\ poller'[p] = b
      /\ \A q \in Pollers \ {p} : poller'[q] = poller[q]
  BY <1>2, BatchStep DEF Acked
<1>4. /\ repeats' \in [Notices -> Nat] /\ repeats'[n] >= repeats[n]
      /\ \A m \in Notices \ {n} : repeats'[m] = repeats[m]
  BY <1>1, Typed
<1>5. CASE UNCHANGED outbox
  <2>1. outbox' = [outbox EXCEPT ![n] = row] /\ \A m \in Notices : outbox'[m] = outbox[m]
    BY <1>5, Typed
  <2>2. FreeToSend(n)' => FreeToSend(n)
    <3>1. \A q \in Pollers : n \in poller'[q].failed /\ poller'[q].token = row.token
                             => \E o \in Pollers : n \in poller[o].failed /\ poller[o].token = row.token
      BY <1>2, <1>3 DEF Acked
    <3>. QED BY <2>1, <3>1 DEF FreeToSend
  <2>3. OutboxInv'
    BY <1>1, <1>2, <1>4, <2>1, <2>2, AckedKeeps
  <2>. QED BY <1>1, <2>1, <2>3, Unseen
<1>6. CASE ~ UNCHANGED outbox
  <2> DEFINE r == [row EXCEPT !.delivered = FALSE, !.attempts = row.attempts + 1, !.due = FALSE,
                              !.dead = row.attempts + 1 >= MaxDeliveries,
                              !.token = NoToken, !.lapsed = FALSE]
  <2>1. outbox' = [outbox EXCEPT ![n] = AckedFailed(row, was.token)]
    BY <1>6 DEF AckNotSent
  <2>2. row.token = was.token /\ outbox' = [outbox EXCEPT ![n] = r]
    BY <1>6, <2>1, Typed DEF AckedFailed
  <2>3. /\ r \in EventRows /\ ~ r.delivered /\ r.there /\ r.token = NoToken
        /\ r.attempts = row.attempts + 1 /\ (r.dead <=> row.attempts + 1 >= MaxDeliveries)
    <3> DEFINE more == row.attempts + 1
               gone == row.attempts + 1 >= MaxDeliveries
    <3>1. more \in Nat /\ gone \in BOOLEAN
      BY <1>1 DEF EventRows
    <3>2. r = [row EXCEPT !.delivered = FALSE, !.attempts = more, !.due = FALSE,
                          !.dead = gone, !.token = NoToken, !.lapsed = FALSE]
      OBVIOUS
    <3>3. /\ r \in EventRows /\ ~ r.delivered /\ r.there /\ r.token = NoToken
          /\ r.attempts = more /\ (r.dead <=> gone)
      <4> HIDE DEF more, gone, r
      <4>. QED BY <1>1, <3>1, <3>2 DEF EventRows
    <3>. QED BY <3>3
  <2> HIDE DEF r
  <2>4. /\ RowSound(r)
        /\ RowFate(r) = IF row.attempts + 1 >= MaxDeliveries THEN "dead" ELSE "queued"
    BY <2>3 DEF RowSound, RowFate
  <2>5. ~ row.delivered /\ ~ row.dead
    BY <1>1, <2>2, OutboxAssumption DEF RowSound
  <2>6. FreeToSend(n)
    BY <1>1, <2>2, <2>5 DEF FreeToSend
  <2>7. OutboxInv'
    BY <1>1, <1>2, <1>4, <2>2, <2>3, <2>4, <2>6, AckedKeeps
  <2>8. Fate[n] = "queued" /\ Attempts[n] = row.attempts
    BY <1>1, <2>5, Seen DEF RowFate
  <2>9. Fate' = [Fate EXCEPT ![n] = RowFate(r)] /\ Attempts' = [Attempts EXCEPT ![n] = row.attempts + 1]
    <3>1. Fate' = [Fate EXCEPT ![n] = RowFate(r)] /\ Attempts' = [Attempts EXCEPT ![n] = r.attempts]
      BY <2>2, <2>3, SeenOne
    <3>. QED BY <2>3, <3>1
  <2>10. Fate' = IF row.attempts + 1 >= MaxDeliveries THEN [Fate EXCEPT ![n] = "dead"] ELSE Fate
    <3>1. CASE row.attempts + 1 >= MaxDeliveries
      BY <2>4, <2>9, <3>1
    <3>2. CASE ~ (row.attempts + 1 >= MaxDeliveries)
      <4>1. Fate' = [Fate EXCEPT ![n] = "queued"]
        BY <2>4, <2>9, <3>2
      <4>. QED BY <2>8, <3>2, <4>1 DEF Fate
    <3>. QED BY <3>1, <3>2
  <2>11. Promise!Fail(n)
    BY <1>1, <2>8, <2>9, <2>10 DEF Promise!Fail, Attempts
  <2>. QED BY <2>7, <2>11 DEF PromiseStep, Promise!Next
<1>. QED BY <1>5, <1>6

LEMMA RestartKeeps ==
  ASSUME OutboxInv, NEW p \in Pollers, PollerRestarts(p)
  PROVE  OutboxInv' /\ PromiseStep
<1>1. poller' = [poller EXCEPT ![p] = NoBatch] /\ UNCHANGED <<outbox, received, repeats>>
      /\ mishaps' \in Nat
  BY Typed DEF PollerRestarts, Mishap
<1>2. /\ poller' \in [Pollers -> Batches] /\ poller'[p] = NoBatch
      /\ \A q \in Pollers \ {p} : poller'[q] = poller[q]
  BY <1>1, NothingHeld, BatchStep
<1>3. ASSUME NEW q \in Pollers PROVE BatchSound(q)'
  <2>1. CASE q = p
    BY <1>2, <2>1, NothingHeld DEF BatchSound, Holding
  <2>2. CASE q # p
    BY <1>1, <1>2, <2>2, Typed DEF BatchSound, Holding
  <2>. QED BY <2>1, <2>2
<1>4. ASSUME NEW m \in Notices PROVE Budget(m)'
  <2>1. \A q \in Pollers : m \in poller'[q].todo => m \in poller[q].todo
    BY <1>2, NothingHeld
  <2>2. FreeToSend(m)' => FreeToSend(m)
    BY <1>1, <1>2, NothingHeld DEF FreeToSend
  <2>. QED BY <1>1, <2>1, <2>2, BudgetElsewhere
<1>5. OutboxInv'
  BY <1>1, <1>2, <1>3, <1>4, Typed DEF OutboxInv, OutboxTypeOK
<1>. QED BY <1>1, <1>5, Unseen

LEMMA FreshIsNew ==
  ASSUME OutboxInv, Fresh # {}
  PROVE  /\ FreshToken \in Tokens /\ FreshToken # NoToken
         /\ \A n \in Notices : outbox[n].token # FreshToken
         /\ \A p \in Pollers : poller[p].token # FreshToken
<1>1. FreshToken \in Fresh
  BY DEF FreshToken
<1>. QED BY <1>1, OutboxAssumption DEF Fresh, Remembered

LEMMA ClaimKeepsBudget ==
  ASSUME OutboxInv, NEW p \in Pollers, GetPendingNotifications(p)
  PROVE  OutboxInv' /\ PromiseStep
<1>1. PICK batch \in SUBSET {n \in Notices : Claimable(outbox[n])} :
        /\ batch # {}
        /\ outbox' = [n \in Notices |-> IF n \in batch THEN Claimed(outbox[n], FreshToken)
                                                       ELSE outbox[n]]
        /\ repeats' = [n \in Notices |-> IF n \in batch /\ outbox[n].lapsed
                                           THEN repeats[n] + 1 ELSE repeats[n]]
        /\ \/ poller' = [poller EXCEPT ![p] = [NoBatch EXCEPT !.token = FreshToken, !.todo = batch]]
              /\ UNCHANGED mishaps
           \/ Mishap /\ UNCHANGED poller
  BY DEF GetPendingNotifications
<1>2. /\ Holding(p) = {} /\ Fresh # {} /\ UNCHANGED received /\ mishaps' \in Nat
      /\ batch \subseteq Notices
  BY <1>1, Typed DEF GetPendingNotifications, Mishap
<1>3. PICK t \in Tokens :
        /\ t = FreshToken /\ t # NoToken
        /\ \A n \in Notices : outbox[n].token # t
        /\ \A q \in Pollers : poller[q].token # t
  BY <1>2, FreshIsNew
<1>4. ASSUME NEW n \in batch
      PROVE  /\ outbox'[n] \in EventRows /\ outbox'[n].there /\ outbox'[n].token = t
             /\ ~ outbox'[n].delivered /\ ~ outbox'[n].dead
             /\ outbox[n].there /\ ~ outbox[n].delivered /\ ~ outbox[n].dead
             /\ outbox'[n].attempts = outbox[n].attempts
             /\ outbox[n].token = NoToken \/ outbox[n].lapsed
  <2> DEFINE row == outbox[n]
             r == [row EXCEPT !.token = t, !.lapsed = FALSE]
  <2>1. row \in EventRows /\ Claimable(row) /\ outbox'[n] = r
    BY <1>1, <1>2, <1>3, Typed DEF Claimed
  <2>2. /\ r \in EventRows /\ r.there = row.there /\ r.token = t /\ r.attempts = row.attempts
        /\ r.delivered = row.delivered /\ r.dead = row.dead
    BY <2>1 DEF EventRows
  <2> HIDE DEF r
  <2>. QED BY <2>1, <2>2 DEF Claimable
<1>5. \A n \in Notices \ batch : outbox'[n] = outbox[n]
  BY <1>1
<1>6. /\ \A n \in Notices : outbox'[n] \in EventRows /\ RowSound(outbox'[n])
      /\ outbox' \in [Notices -> EventRows]
  <2>1. ASSUME NEW n \in Notices PROVE outbox'[n] \in EventRows /\ RowSound(outbox'[n])
    <3>1. CASE n \in batch
      BY <1>4, <3>1 DEF RowSound
    <3>2. CASE n \notin batch
      BY <1>5, <3>2, Typed
    <3>. QED BY <3>1, <3>2
  <2>2. DOMAIN outbox' = Notices /\ outbox' = [n \in Notices |-> outbox'[n]]
    BY <1>1
  <2>. QED BY <2>1, <2>2
<1>7. /\ repeats' \in [Notices -> Nat]
      /\ \A n \in Notices : \/ repeats'[n] = repeats[n] /\ ~ (n \in batch /\ outbox[n].lapsed)
                            \/ repeats'[n] = repeats[n] + 1 /\ n \in batch
  BY <1>1, Typed
<1>8. PICK b \in Batches :
        /\ \/ poller' = [poller EXCEPT ![p] = b]
              /\ b.token = t /\ b.todo = batch /\ b.sent = {} /\ b.failed = {}
           \/ UNCHANGED poller
  <2>1. CASE UNCHANGED poller
    BY <2>1, Typed
  <2>2. CASE ~ UNCHANGED poller
    <3> DEFINE b == [NoBatch EXCEPT !.token = t, !.todo = batch]
    <3>1. poller' = [poller EXCEPT ![p] = b]
      BY <1>1, <1>3, <2>2
    <3>2. b \in Batches /\ b.token = t /\ b.todo = batch /\ b.sent = {} /\ b.failed = {}
      BY <1>2, NothingHeld DEF Batches
    <3> HIDE DEF b
    <3>. QED BY <3>1, <3>2
  <2>. QED BY <2>1, <2>2
<1>9. /\ poller' \in [Pollers -> Batches]
      /\ \A q \in Pollers \ {p} : poller'[q] = poller[q]
      /\ \/ poller'[p] = poller[p]
         \/ /\ poller'[p].token = t /\ poller'[p].todo = batch
            /\ poller'[p].sent = {} /\ poller'[p].failed = {}
  <2>1. CASE UNCHANGED poller
    BY <2>1, Typed
  <2>2. CASE ~ UNCHANGED poller
    BY <1>8, <2>2, BatchStep
  <2>. QED BY <2>1, <2>2
<1>10. ASSUME NEW q \in Pollers PROVE BatchSound(q)'
  <2>1. BatchSound(q) /\ poller[q] \in Batches
    BY Typed
  <2>2. \A n \in Notices : outbox[n].there => outbox'[n].there
    BY <1>4, <1>5
  <2>3. CASE poller'[q] = poller[q]
    BY <1>2, <2>1, <2>2, <2>3 DEF BatchSound, Holding, Batches
  <2>4. CASE poller'[q] # poller[q]
    BY <1>4, <1>9, <2>4 DEF BatchSound, Holding
  <2>. QED BY <2>3, <2>4
<1>11. ASSUME NEW m \in Notices PROVE Budget(m)'
  <2>1. /\ received[m] \in Nat /\ repeats[m] \in Nat /\ Cardinality(Sending(m)) \in Nat
        /\ Budget(m) /\ Owed(m) \in {0, 1} /\ received'[m] = received[m]
    BY <1>2, Typed, SendingFinite DEF Owed
  <2>2. \A q \in Pollers : m \in poller'[q].failed =>
          m \in poller[q].failed /\ poller'[q].token = poller[q].token
    BY <1>9
  <2>3. CASE m \in batch
    <3>1. ~ FreeToSend(m)'
      BY <1>3, <1>4, <2>2, <2>3 DEF FreeToSend
    <3>2. Owed(m)' = 0
      BY <3>1 DEF Owed
    <3>3. Owed(m) = 1 \/ repeats'[m] = repeats[m] + 1
      BY <1>4, <1>7, <2>3 DEF Owed, FreeToSend
    <3>4. Cardinality(Sending(m)') <= Cardinality(Sending(m)) + 1 /\ Cardinality(Sending(m)') \in Nat
      <4>1. CASE poller'[p] = poller[p]
        BY <1>9, <4>1, <2>1, SendingSame
      <4>2. CASE poller'[p] # poller[p]
        <5>1. m \notin poller[p].todo /\ m \in poller'[p].todo
          BY <1>2, <1>9, <2>3, <4>2 DEF Holding
        <5>2. Cardinality(Sending(m)') = Cardinality(Sending(m)) + 1
          BY <1>9, <5>1, SendingMore
        <5>. QED BY <2>1, <5>2
      <4>. QED BY <4>1, <4>2
    <3>5. repeats'[m] >= repeats[m] /\ repeats'[m] \in Nat
      BY <1>7, <2>1
    <3>6. received'[m] + Cardinality(Sending(m)') + Owed(m)' <= 1 + repeats'[m]
      BY <1>7, <2>1, <3>2, <3>3, <3>4, <3>5 DEF Budget
    <3>. QED BY <3>6 DEF Budget
  <2>4. CASE m \notin batch
    <3>1. FreeToSend(m)' => FreeToSend(m)
      BY <1>5, <2>2, <2>4 DEF FreeToSend
    <3>2. \A q \in Pollers : m \in poller'[q].todo => m \in poller[q].todo
      BY <1>9, <2>4
    <3>. QED BY <1>7, <2>1, <2>4, <3>1, <3>2, BudgetElsewhere
  <2>. QED BY <2>3, <2>4
<1>12. OutboxInv'
  BY <1>2, <1>6, <1>7, <1>9, <1>10, <1>11, Typed DEF OutboxInv, OutboxTypeOK
<1>13. ASSUME NEW n \in Notices
       PROVE  RowFate(outbox'[n]) = RowFate(outbox[n]) /\ outbox'[n].attempts = outbox[n].attempts
  BY <1>4, <1>5 DEF RowFate
<1>. QED BY <1>2, <1>12, <1>13, Unseen

LEMMA OutboxStep == OutboxInv /\ [OutboxNext]_outboxVars => OutboxInv' /\ PromiseStep
<1> SUFFICES ASSUME OutboxInv, [OutboxNext]_outboxVars PROVE OutboxInv' /\ PromiseStep
  OBVIOUS
<1>1. CASE UNCHANGED outboxVars
  <2>1. UNCHANGED <<outbox, poller, received, repeats, mishaps>>
    BY <1>1 DEF outboxVars
  <2>2. \A n \in Notices : Cardinality(Sending(n)') = Cardinality(Sending(n))
    BY <2>1, SendingSame
  <2>3. \A n \in Notices : Budget(n)'
    BY <2>1, <2>2, Typed DEF Budget, Owed, FreeToSend
  <2>4. OutboxInv'
    BY <2>1, <2>3 DEF OutboxInv, OutboxTypeOK, BatchSound, Holding
  <2>. QED BY <2>1, <2>4, Unseen
<1>2. CASE OutboxNext
  BY <1>2, EnqueueKeeps, ClockKeeps, DeliverKeeps, AckSentKeeps, AckNotSentKeeps, RestartKeeps,
     ClaimKeepsBudget
  DEF OutboxNext, PollerStep
<1>. QED BY <1>1, <1>2

\* The rows of the outbox and the batches of the pollers have their types.
THEOREM OutboxTyped == OutboxSpec => []OutboxTypeOK
<1>1. OutboxInv => OutboxTypeOK
  BY DEF OutboxInv
<1>. QED BY <1>1, OutboxStarts, OutboxStep, PTL DEF OutboxSpec

\* Nobody receives a notice once more without a reason to repeat it.
THEOREM CopiesExplained == OutboxSpec => []DuplicatesExplained
<1>1. OutboxInv => DuplicatesExplained
  <2> SUFFICES ASSUME OutboxInv, NEW n \in Notices PROVE received[n] <= 1 + repeats[n]
    BY DEF DuplicatesExplained
  <2>1. /\ received[n] \in Nat /\ repeats[n] \in Nat /\ Cardinality(Sending(n)) \in Nat
        /\ Budget(n) /\ Owed(n) \in Nat
    BY Typed, SendingFinite DEF Owed
  <2>. QED BY <2>1 DEF Budget
<1>. QED BY <1>1, OutboxStarts, OutboxStep, PTL DEF OutboxSpec

\* The outbox implements the promise of delivery: delivered means received
\* and is final, and given up means the maximum of recorded failures.
THEOREM OutboxDelivers == OutboxSpec => OutboxKeepsPromise
<1>1. OutboxInit => Promise!Init
  BY DEF OutboxInit, Promise!Init, Fate, NoEvent
<1>. QED BY <1>1, OutboxStarts, OutboxStep, PTL
         DEF OutboxSpec, OutboxKeepsPromise, Promise!Spec, PromiseStep, Attempts
=============================================================================
