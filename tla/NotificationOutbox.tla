------------------------- MODULE NotificationOutbox -------------------------
(***************************************************************************)
(* The notification outbox: the engine's table notification_events and the *)
(* pollers of the chat bot that deliver from it.  A poller claims a batch  *)
(* under one fresh token, sends the notices one after the other and        *)
(* acknowledges each under that token.  A claim that is two minutes old    *)
(* may be taken over by the next call.  Answers of the engine may be lost, *)
(* in which case the bot's HTTP client repeats the request and finally     *)
(* gives up; pollers are restarted and lose their batch.                   *)
(***************************************************************************)
EXTENDS Naturals, FiniteSets

CONSTANTS
  Occurrences,    \* what can be announced: records of subject, event and ref
  Pollers,        \* bot processes that poll the same channel
  Tokens,         \* claim tokens: uuids, of which one that is nobody's is fresh
  NoToken,        \* NULL
  MaxDeliveries,  \* notificationMaxAttempts
  ClaimLimit,     \* the limit a poller asks for
  MaxMishaps      \* bound: restarts, lost answers and leases that run out under a live poller

ASSUME OutboxAssumption ==
  /\ \A o \in Occurrences : DOMAIN o = {"subject", "event", "ref"}
  /\ NoToken \notin Tokens /\ IsFiniteSet(Pollers)
  /\ MaxDeliveries \in Nat \ {0} /\ ClaimLimit \in Nat /\ MaxMishaps \in Nat

VARIABLES
  outbox,     \* the rows of notification_events
  poller,     \* each poller's token and batch
  received,   \* how many copies of a notice the user has received
  repeats,    \* how often there was a reason to send a notice again
  mishaps

outboxVars == <<outbox, poller, received, repeats, mishaps>>

\* Only a deposit or a completed payout is told apart by its reference: a
\* second pass of a trade through another status has the key of the first.
DedupeKey(o) == IF o.event \in {"DEPOSIT_RECEIVED", "PAYOUT_COMPLETED"}
                  THEN o
                  ELSE [o EXCEPT !.ref = ""]
Notices == {DedupeKey(o) : o \in Occurrences}

\* lapsed: claimed_at is older than notificationClaimTTL; due: next_attempt_at has passed
EventRows == [there : BOOLEAN, delivered : BOOLEAN, dead : BOOLEAN, attempts : Nat,
              due : BOOLEAN, token : Tokens \cup {NoToken}, lapsed : BOOLEAN]
NoEvent == [there |-> FALSE, delivered |-> FALSE, dead |-> FALSE, attempts |-> 0,
            due |-> TRUE, token |-> NoToken, lapsed |-> FALSE]

\* todo: not yet sent; sent, failed: the notice whose acknowledgement is next
Batches == [token : Tokens \cup {NoToken}, todo : SUBSET Notices,
            sent : SUBSET Notices, failed : SUBSET Notices]
NoBatch == [token |-> NoToken, todo |-> {}, sent |-> {}, failed |-> {}]

OutboxInit ==
  /\ outbox = [n \in Notices |-> NoEvent]
  /\ poller = [p \in Pollers |-> NoBatch]
  /\ received = [n \in Notices |-> 0]
  /\ repeats = [n \in Notices |-> 0]
  /\ mishaps = 0

Mishap == mishaps < MaxMishaps /\ mishaps' = mishaps + 1
SendAgain(n) == repeats' = [repeats EXCEPT ![n] = @ + 1]
Holding(p) == poller[p].todo \cup poller[p].sent \cup poller[p].failed
-----------------------------------------------------------------------------
(***************************************************************************)
(* The engine.                                                             *)
(***************************************************************************)
enqueueNotificationTx(o) ==
  LET n == DedupeKey(o)
  IN /\ ~ outbox[n].there   \* ON CONFLICT DO NOTHING
     /\ outbox' = [outbox EXCEPT ![n].there = TRUE]
     /\ UNCHANGED <<poller, received, repeats, mishaps>>

\* Mutant: a claim is no reason to leave a row alone.
ClaimableThoughClaimed(row) == row.there /\ ~ row.delivered /\ ~ row.dead /\ row.due
\* Mutant: a claim never runs out.
ClaimableOnce(row) == row.there /\ ~ row.delivered /\ ~ row.dead /\ row.due /\ row.token = NoToken

Claimable(row) ==
  /\ row.there /\ ~ row.delivered /\ ~ row.dead /\ row.due
  /\ row.token = NoToken \/ row.lapsed

Claimed(row, token) == [row EXCEPT !.token = token, !.lapsed = FALSE]

AckedDelivered(row, token) ==
  IF row.token = token THEN [row EXCEPT !.delivered = TRUE, !.token = NoToken, !.lapsed = FALSE]
                       ELSE row

\* Mutant: the acknowledgement of a lost lease counts.
AckedFailedByAnyone(row, token) ==
  [row EXCEPT !.delivered = FALSE, !.attempts = @ + 1, !.due = FALSE,
              !.dead = row.attempts + 1 >= MaxDeliveries, !.token = NoToken, !.lapsed = FALSE]

AckedFailed(row, token) ==
  IF row.token = token
    THEN [row EXCEPT !.delivered = FALSE, !.attempts = @ + 1, !.due = FALSE,
                     !.dead = row.attempts + 1 >= MaxDeliveries,
                     !.token = NoToken, !.lapsed = FALSE]
    ELSE row

Remembered == {outbox[n].token : n \in Notices} \cup {poller[p].token : p \in Pollers}
Fresh == Tokens \ Remembered
FreshToken == CHOOSE token \in Fresh : TRUE

\* Rows another statement has locked are skipped: any part of the candidates.
GetPendingNotifications(p) ==
  /\ Holding(p) = {} /\ Fresh # {}
  /\ \E batch \in SUBSET {n \in Notices : Claimable(outbox[n])} :
       /\ batch # {} /\ Cardinality(batch) <= ClaimLimit
       /\ outbox' = [n \in Notices |-> IF n \in batch THEN Claimed(outbox[n], FreshToken)
                                                      ELSE outbox[n]]
       /\ repeats' = [n \in Notices |-> IF n \in batch /\ outbox[n].lapsed
                                          THEN repeats[n] + 1 ELSE repeats[n]]
       /\ \/ poller' = [poller EXCEPT ![p] = [NoBatch EXCEPT !.token = FreshToken, !.todo = batch]]
             /\ UNCHANGED mishaps
          \/ Mishap /\ UNCHANGED poller
  /\ UNCHANGED received
-----------------------------------------------------------------------------
(***************************************************************************)
(* deliver_pending_notifications, one notice at a time.                    *)
(***************************************************************************)
Sent(p, n) == poller' = [poller EXCEPT ![p].todo = @ \ {n}, ![p].sent = {n}]
NotSent(p, n) == poller' = [poller EXCEPT ![p].todo = @ \ {n}, ![p].failed = {n}]
Received(n) == received' = [received EXCEPT ![n] = @ + 1]

Deliver(p, n) ==
  /\ n \in poller[p].todo /\ poller[p].sent \cup poller[p].failed = {}
  /\ \/ Sent(p, n) /\ Received(n) /\ UNCHANGED <<repeats, mishaps>>
     \/ NotSent(p, n) /\ UNCHANGED <<received, repeats, mishaps>>
     \/ NotSent(p, n) /\ Received(n) /\ SendAgain(n) /\ Mishap   \* reported as a failure
  /\ UNCHANGED outbox

AckDone(p) == poller' = [poller EXCEPT ![p] = IF @.todo = {} THEN NoBatch
                                              ELSE [@ EXCEPT !.sent = {}, !.failed = {}]]
AckRaises(p, n) == poller' = [poller EXCEPT ![p].sent = {}, ![p].failed = {n}]

\* A conflict means that the lease was lost and ends the notice as well.  When
\* every retry fails the exception handler acknowledges a failed delivery.
AckSent(p, n) ==
  /\ n \in poller[p].sent
  /\ \/ /\ outbox' = [outbox EXCEPT ![n] = AckedDelivered(@, poller[p].token)]
        /\ \/ AckDone(p) /\ UNCHANGED mishaps
           \/ Mishap /\ (UNCHANGED poller \/ AckRaises(p, n))
        /\ UNCHANGED repeats
     \/ Mishap /\ AckRaises(p, n) /\ SendAgain(n) /\ UNCHANGED outbox
  /\ UNCHANGED received

AckNotSent(p, n) ==
  /\ n \in poller[p].failed
  /\ \/ /\ outbox' = [outbox EXCEPT ![n] = AckedFailed(@, poller[p].token)]
        /\ \/ AckDone(p) /\ UNCHANGED mishaps
           \/ Mishap /\ (UNCHANGED poller \/ AckDone(p))
     \/ Mishap /\ AckDone(p) /\ UNCHANGED outbox
  /\ UNCHANGED <<received, repeats>>

PollerRestarts(p) ==
  /\ Holding(p) # {} /\ Mishap
  /\ poller' = [poller EXCEPT ![p] = NoBatch]
  /\ UNCHANGED <<outbox, received, repeats>>

(***************************************************************************)
(* The clock.  A lease nobody works under always runs out in the end; that *)
(* one runs out under a poller that is still working is a mishap.          *)
(***************************************************************************)
BackoffEnds(n) ==
  /\ ~ outbox[n].due
  /\ outbox' = [outbox EXCEPT ![n].due = TRUE]
  /\ UNCHANGED <<poller, received, repeats, mishaps>>

Leased(p, n) == n \in Holding(p) /\ poller[p].token = outbox[n].token

LeaseRunsOut(n) ==
  /\ outbox[n].token # NoToken /\ ~ outbox[n].lapsed
  /\ \/ (\A p \in Pollers : ~ Leased(p, n)) /\ UNCHANGED mishaps
     \/ (\E p \in Pollers : Leased(p, n)) /\ Mishap
  /\ outbox' = [outbox EXCEPT ![n].lapsed = TRUE]
  /\ UNCHANGED <<poller, received, repeats>>

PollerStep(p) ==
  \/ GetPendingNotifications(p)
  \/ \E n \in Notices : Deliver(p, n) \/ AckSent(p, n) \/ AckNotSent(p, n)

OutboxNext ==
  \/ \E o \in Occurrences : enqueueNotificationTx(o)
  \/ \E p \in Pollers : PollerStep(p) \/ PollerRestarts(p)
  \/ \E n \in Notices : BackoffEnds(n) \/ LeaseRunsOut(n)

\* Pollers poll forever and time passes.
OutboxFairness ==
  /\ \A p \in Pollers : WF_outboxVars(PollerStep(p))
  /\ \A n \in Notices : WF_outboxVars(BackoffEnds(n)) /\ WF_outboxVars(LeaseRunsOut(n))

OutboxSpec == OutboxInit /\ [][OutboxNext]_outboxVars /\ OutboxFairness
-----------------------------------------------------------------------------
\* The rows and the pollers' batches are well-formed.
OutboxTypeOK ==
  /\ outbox \in [Notices -> EventRows]
  /\ poller \in [Pollers -> Batches]
  /\ received \in [Notices -> Nat]
  /\ repeats \in [Notices -> Nat]
  /\ mishaps \in Nat

\* The user receives one copy, and one more at most for every reason there
\* was to repeat it: a lease taken over after it ran out, an acknowledgement
\* that never reached the engine, a provider that reported a delivered
\* message as failed.  Repeated requests and stale tokens never add a copy.
DuplicatesExplained == \A n \in Notices : received[n] <= 1 + repeats[n]

\* The table implements the promise: what is on record as delivered was
\* received and stays delivered whatever is acknowledged later, and a notice
\* is given up exactly when the maximum of recorded failures is reached.
Fate == [n \in Notices |-> IF ~ outbox[n].there THEN "absent"
                           ELSE IF outbox[n].delivered THEN "delivered"
                           ELSE IF outbox[n].dead THEN "dead" ELSE "queued"]
Promise == INSTANCE DeliveryPromise
             WITH fate <- Fate, failures <- [n \in Notices |-> outbox[n].attempts],
                  copies <- received
OutboxKeepsPromise == Promise!Spec

\* Every notice is delivered or given up in the end, however pollers are
\* restarted, lose their lease or the answers of the engine.
NotificationsSettle ==
  \A n \in Notices : outbox[n].there ~> outbox[n].delivered \/ outbox[n].dead
=============================================================================
