--------------------------- MODULE OnceOnlyLedger ---------------------------
(***************************************************************************)
(* What the table of operation keys promises of the ledger: effects happen *)
(* once for each (scope, key).  A step uses up one new key of a trade, and *)
(* only such a step posts, at most one group of entries, of the status     *)
(* that is the key's scope.  Keys are any records with a scope.             *)
(***************************************************************************)
EXTENDS Naturals, TradeStatus

CONSTANT Trades
VARIABLES used, posted

Posting(counts, entries) == [e \in Entries |-> IF e \in entries THEN counts[e] + 1
                                                                ELSE counts[e]]

Init ==
  /\ used = [t \in Trades |-> {}]
  /\ posted = [t \in Trades |-> [e \in Entries |-> 0]]

Use(t, k) ==
  /\ k \notin used[t]
  /\ used' = [used EXCEPT ![t] = @ \cup {k}]
  /\ \/ posted' = [posted EXCEPT ![t] = Posting(@, LedgerFor(k.scope))]
     \/ k.scope = "DISPUTE" /\ posted' = posted

Next == \E t \in Trades : \E k \in used'[t] : Use(t, k)

Spec == Init /\ [][Next]_<<used, posted>>
=============================================================================
