---------------------------- MODULE TradePromise ----------------------------
(***************************************************************************)
(* What the trade state machine promises its users, one trade at a time:   *)
(* a status changes only along an allowed transition from the status the   *)
(* trade really has, and the ledger entries of the new status are posted   *)
(* in the same step (a dispute may come without a posting).                *)
(***************************************************************************)
EXTENDS Naturals, TradeStatus

CONSTANT Trades
VARIABLES status, posted

Posting(counts, entries) == [e \in Entries |-> IF e \in entries THEN counts[e] + 1
                                                                ELSE counts[e]]

Init ==
  /\ status = [t \in Trades |-> "PENDING_DEPOSIT"]
  /\ posted = [t \in Trades |-> [e \in Entries |-> 0]]

Move(t, to) ==
  /\ to \in AllowedTargets(status[t])
  /\ status' = [status EXCEPT ![t] = to]
  /\ \/ posted' = [posted EXCEPT ![t] = Posting(@, LedgerFor(to))]
     \/ to = "DISPUTE" /\ posted' = posted

Next == \E t \in Trades, to \in Statuses : Move(t, to)

Spec == Init /\ [][Next]_<<status, posted>>
=============================================================================
