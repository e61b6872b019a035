-------------------------- MODULE DeliveryPromise --------------------------
(***************************************************************************)
(* What the notification outbox promises.  A queued notice is attempted    *)
(* until the user has received a copy and this is on record, or until the  *)
(* failures on record reach the maximum; both are final.  Copies may be    *)
(* received more than once, and late.                                      *)
(***************************************************************************)
EXTENDS Naturals

CONSTANTS Notices, MaxDeliveries
VARIABLES fate, failures, copies

Init ==
  /\ fate = [n \in Notices |-> "absent"]
  /\ failures = [n \in Notices |-> 0]
  /\ copies = [n \in Notices |-> 0]

Accept(n) ==
  /\ fate[n] = "absent"
  /\ fate' = [fate EXCEPT ![n] = "queued"]
  /\ UNCHANGED <<failures, copies>>

Receive(n) ==
  /\ fate[n] # "absent"
  /\ copies' = [copies EXCEPT ![n] = @ + 1]
  /\ UNCHANGED <<fate, failures>>

Settle(n) ==
  /\ fate[n] = "queued" /\ copies[n] > 0
  /\ fate' = [fate EXCEPT ![n] = "delivered"]
  /\ UNCHANGED <<failures, copies>>

Fail(n) ==
  /\ fate[n] = "queued"
  /\ failures' = [failures EXCEPT ![n] = @ + 1]
  /\ fate' = IF failures[n] + 1 >= MaxDeliveries THEN [fate EXCEPT ![n] = "dead"] ELSE fate
  /\ UNCHANGED copies

Next == \E n \in Notices : Accept(n) \/ Receive(n) \/ Settle(n) \/ Fail(n)

Spec == Init /\ [][Next]_<<fate, failures, copies>>
=============================================================================
