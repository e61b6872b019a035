---------------------------- MODULE TradeClaims ----------------------------
(***************************************************************************)
(* What comments and documents of the repository say of the trade's life   *)
(* and the code, modelled in TradeLifecycle, does not keep.  Each claim is *)
(* the property of one run in which TLC finds a counterexample.            *)
(***************************************************************************)
EXTENDS TradeLifecycle

\* A disputed trade stays disputed until somebody resolves the dispute: it
\* leaves DISPUTE only in a step that closes its open ticket.
DisputedUntilResolved ==
  [][\A t \in Trades :
       trade[t].status = "DISPUTE" /\ trade'[t].status # "DISPUTE"
         => OpenTickets(t)' # OpenTickets(t)]_vars

\* The state machine makes it impossible to pay someone without having received
\* their crypto.
PaidOnlyForDeposits ==
  \A t \in Trades : payouts[t] # <<>> => chain[t].level # "none"

\* A transaction hash is unique across trades: one that several trades report leads
\* to disputes, so that at most one of them has its deposit confirmed.
DuplicateHashDisputed ==
  \A t, x \in Trades :
    /\ t # x /\ trade[t].tx # None /\ trade[t].tx = trade[x].tx
    => trade[t].status # "DEPOSIT_CONFIRMED" \/ trade[x].status # "DEPOSIT_CONFIRMED"

\* A payout the provider rejects for good is marked PAYOUT_FAILED.
RejectedPayoutsFail ==
  \A t \in RejectedPayouts :
    trade[t].status = "CONVERSION_COMPLETED" ~> trade[t].status = "PAYOUT_FAILED"
=============================================================================
