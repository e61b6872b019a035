---------------------------- MODULE RateLimiter ----------------------------
(***************************************************************************)
(* The sliding window limiter in front of the quote and trade routes: one  *)
(* Redis key, a sorted set of the times at which a client's requests came. *)
(* A request takes its time first and then makes four calls of Redis, each *)
(* of which may come after any call of another request.  An instant is a   *)
(* nanosecond of the code's clock; requests of the same instant are one    *)
(* member of the set, and all of them may be let through.                  *)
(***************************************************************************)
EXTENDS Integers, FiniteSets

CONSTANTS
  Workers,    \* requests of the client that are in progress at a time
  Limit,      \* requests let through ...
  Window,     \* ... in this many instants
  Delay,      \* bound: instants from a request's arrival until it is counted
  MaxInstant, \* bound: of the clock
  MaxTogether \* bound: requests let through of one instant before the next arrives

ASSUME LimiterAssumption ==
  /\ Limit \in Nat /\ Window \in Nat /\ Delay \in Nat /\ MaxInstant \in Nat
  /\ MaxTogether \in Nat /\ Delay < Window

VARIABLES
  instant,   \* the clock of the engine and of Redis
  members,   \* the sorted set
  expires,   \* when the key expires; 0: it does not
  request,   \* the call each request makes next, and the time it took
  admitted,  \* the requests let through: when each came, as which of its instant
  spoilt     \* a call failed, or the key expired between two calls of a request

limiterVars == <<instant, members, expires, request, admitted, spoilt>>

Done == [pc |-> "idle", stamp |-> 0]

LimiterInit ==
  /\ instant = 1 /\ expires = 0 /\ members = {} /\ admitted = {} /\ spoilt = FALSE
  /\ request = [w \in Workers |-> Done]

At(w, pc) == request[w].pc = pc
Stamp(w) == request[w].stamp
Then(w, pc) == request' = [request EXCEPT ![w].pc = pc]
Ends(w) == request' = [request EXCEPT ![w] = Done]
Together(t) == Cardinality({r \in admitted : r.at = t})
Passes(w) ==
  /\ Ends(w)
  /\ admitted' = admitted \cup {[at |-> Stamp(w), nth |-> Together(Stamp(w)) + 1]}
-----------------------------------------------------------------------------
Arrive(w) ==
  /\ At(w, "idle") /\ Together(instant) < MaxTogether
  /\ request' = [request EXCEPT ![w] = [pc |-> "add", stamp |-> instant]]
  /\ UNCHANGED <<instant, members, expires, admitted, spoilt>>

ZAdd(w) ==
  /\ At(w, "add") /\ Then(w, "trim")
  /\ members' = members \cup {Stamp(w)}
  /\ UNCHANGED <<instant, expires, admitted, spoilt>>

\* An empty set is a key that does not exist.
ZRemRangeByScore(w) ==
  LET left == {s \in members : s > Stamp(w) - Window}
  IN /\ At(w, "trim") /\ Then(w, "expire")
     /\ members' = left
     /\ expires' = IF left = {} THEN 0 ELSE expires
     /\ UNCHANGED <<instant, admitted, spoilt>>

Expire(w) ==
  /\ At(w, "expire") /\ Then(w, "count")
  /\ expires' = IF members = {} THEN 0 ELSE instant + Window
  /\ UNCHANGED <<instant, members, admitted, spoilt>>

\* Mutant: a request does not count itself.
ZCardOfOthers(w) ==
  /\ At(w, "count")
  /\ IF Cardinality(members \ {Stamp(w)}) > Limit THEN Ends(w) /\ UNCHANGED admitted ELSE Passes(w)
  /\ UNCHANGED <<instant, members, expires, spoilt>>

\* A refused request stays in the set.
ZCard(w) ==
  /\ At(w, "count")
  /\ IF Cardinality(members) > Limit THEN Ends(w) /\ UNCHANGED admitted ELSE Passes(w)
  /\ UNCHANGED <<instant, members, expires, spoilt>>

\* The limiter fails open; the error of EXPIRE is ignored.  (Bound: one failure of a
\* behaviour, since the limit is void from the first on.)
RedisFails(w) ==
  /\ ~ At(w, "idle") /\ ~ spoilt /\ spoilt' = TRUE
  /\ IF At(w, "expire") THEN Then(w, "count") /\ UNCHANGED admitted ELSE Passes(w)
  /\ UNCHANGED <<instant, members, expires>>

KeyExpires ==
  /\ expires # 0 /\ instant >= expires
  /\ members' = {} /\ expires' = 0
  /\ spoilt' = (spoilt \/ \E w \in Workers : ~ At(w, "idle") /\ ~ At(w, "add"))
  /\ UNCHANGED <<instant, request, admitted>>

Tick ==
  /\ instant < MaxInstant
  /\ expires # 0 => instant < expires
  /\ \A w \in Workers : At(w, "idle") \/ instant < Stamp(w) + Delay
  /\ instant' = instant + 1
  /\ UNCHANGED <<members, expires, request, admitted, spoilt>>

LimiterNext ==
  \/ Tick \/ KeyExpires
  \/ \E w \in Workers :
       \/ Arrive(w) \/ ZAdd(w) \/ ZRemRangeByScore(w) \/ Expire(w) \/ ZCard(w)
       \/ RedisFails(w)

LimiterSpec == LimiterInit /\ [][LimiterNext]_limiterVars
-----------------------------------------------------------------------------
\* The set and the requests are well-formed.
LimiterTypeOK ==
  /\ instant \in Nat /\ expires \in Nat /\ spoilt \in BOOLEAN
  /\ members \subseteq 1..instant /\ admitted \subseteq [at : 1..instant, nth : Nat \ {0}]
  /\ request \in [Workers -> [pc : {"idle", "add", "trim", "expire", "count"}, stamp : Nat]]

\* However the calls of concurrent requests interleave, at most Limit requests
\* of a client are let through in a window, and besides them only requests of
\* an instant at which another one was let through before, since these are one
\* member of the set.  The window is shortened by the time a request takes until
\* it is counted: a later request may already have removed what an earlier one
\* should still count.  A failed call of Redis and a key that expires under a
\* request void this.
AdmittedIn(t) == {r \in admitted : t - (Window - Delay) < r.at /\ r.at <= t}
AdmittedWithinLimit ==
  spoilt \/ \A t \in 1..instant :
    Cardinality(AdmittedIn(t)) <= Limit + Cardinality({r \in AdmittedIn(t) : r.nth > 1})
=============================================================================
