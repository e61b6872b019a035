---------------------------- MODULE TradeStatus ----------------------------
(***************************************************************************)
(* The status vocabulary of a trade: the statuses, the transition table of *)
(* the trade state machine (trade_fsm.go), the second table the service    *)
(* consults before it writes a status (isAllowedTradeStatusTransition) and *)
(* the ledger postings a status causes.  No state; the other modules       *)
(* extend this one.                                                        *)
(***************************************************************************)

Statuses == {"QUOTE_PROVIDED", "QUOTE_EXPIRED", "TRADE_CREATED",
             "PENDING_DEPOSIT", "DEPOSIT_RECEIVED", "DEPOSIT_CONFIRMED",
             "CONVERSION_IN_PROGRESS", "CONVERSION_COMPLETED",
             "PAYOUT_PENDING", "PAYOUT_COMPLETED", "PAYOUT_FAILED",
             "DISPUTE", "DISPUTE_CLOSED", "CANCELLED"}

\* tradeTransitions: the rows <<From, Event, To>>.  The guards (expiry, number
\* of confirmations) are conditions of the actions that fire the events.
TradeTransitions ==
  { <<"QUOTE_PROVIDED",         "QUOTE_ACCEPTED",     "PENDING_DEPOSIT">>,
    <<"QUOTE_PROVIDED",         "QUOTE_EXPIRED",      "QUOTE_EXPIRED">>,
    <<"PENDING_DEPOSIT",        "DEPOSIT_DETECTED",   "DEPOSIT_RECEIVED">>,
    <<"PENDING_DEPOSIT",        "CANCELLED",          "CANCELLED">>,
    <<"DEPOSIT_RECEIVED",       "DEPOSIT_CONFIRMED",  "DEPOSIT_CONFIRMED">>,
    <<"DEPOSIT_CONFIRMED",      "CONVERSION_STARTED", "CONVERSION_IN_PROGRESS">>,
    <<"CONVERSION_IN_PROGRESS", "CONVERSION_DONE",    "CONVERSION_COMPLETED">>,
    <<"CONVERSION_IN_PROGRESS", "DISPUTE_RAISED",     "DISPUTE">>,
    <<"CONVERSION_COMPLETED",   "PAYOUT_INITIATED",   "PAYOUT_PENDING">>,
    <<"PAYOUT_PENDING",         "PAYOUT_SUCCESS",     "PAYOUT_COMPLETED">>,
    <<"PAYOUT_PENDING",         "PAYOUT_FAILED",      "PAYOUT_FAILED">>,
    <<"PAYOUT_FAILED",          "PAYOUT_INITIATED",   "PAYOUT_PENDING">>,
    <<"PAYOUT_FAILED",          "DISPUTE_RAISED",     "DISPUTE">>,
    <<"DISPUTE",                "DISPUTE_RESOLVED",   "PAYOUT_COMPLETED">> }

\* The edges of that table, the events forgotten.
TradeEdges == { <<r[1], r[3]>> : r \in TradeTransitions }

\* TradeFSM.Transition, its table lookup: the status an event leads to.
CanFire(status, event) == \E r \in TradeTransitions : r[1] = status /\ r[2] = event
FSMTarget(status, event) ==
  (CHOOSE r \in TradeTransitions : r[1] = status /\ r[2] = event)[3]

\* isAllowedTradeStatusTransition: its own table, and from a status to itself.
AllowedTargets(from) ==
  CASE from = "QUOTE_PROVIDED"         -> {"PENDING_DEPOSIT", "QUOTE_EXPIRED"}
    [] from = "PENDING_DEPOSIT"        -> {"DEPOSIT_RECEIVED", "CANCELLED", "DISPUTE"}
    [] from = "DEPOSIT_RECEIVED"       -> {"DEPOSIT_CONFIRMED", "DISPUTE"}
    [] from = "DEPOSIT_CONFIRMED"      -> {"CONVERSION_IN_PROGRESS", "DISPUTE"}
    [] from = "CONVERSION_IN_PROGRESS" -> {"CONVERSION_COMPLETED", "DISPUTE"}
    [] from = "CONVERSION_COMPLETED"   -> {"PAYOUT_PENDING", "DISPUTE"}
    [] from = "PAYOUT_PENDING"         -> {"PAYOUT_COMPLETED", "PAYOUT_FAILED", "DISPUTE"}
    [] from = "PAYOUT_FAILED"          -> {"PAYOUT_PENDING", "DISPUTE"}
    [] from = "DISPUTE"                -> {"DEPOSIT_CONFIRMED", "CONVERSION_COMPLETED",
                                           "PAYOUT_COMPLETED", "DISPUTE_CLOSED"}
    [] OTHER                           -> {}

isAllowedTradeStatusTransition(from, to) == from = to \/ to \in AllowedTargets(from)

(***************************************************************************)
(* The groups of balanced ledger entries.  CONVERSION stands for the       *)
(* CONVERSION_ASSET, CONVERSION_FIAT and PLATFORM_FEE entries, which one   *)
(* transaction writes together; all amounts are taken to be positive.      *)
(***************************************************************************)
Entries == {"DEPOSIT", "CONVERSION", "PAYOUT", "PAYOUT_FAILED_RESERVE",
            "DISPUTE_ADJUSTMENT"}

\* The status whose first writing posts an entry (postLedgerForStatusTransitionTx).
StatusOf(entry) ==
  CASE entry = "DEPOSIT"               -> "DEPOSIT_CONFIRMED"
    [] entry = "CONVERSION"            -> "CONVERSION_COMPLETED"
    [] entry = "PAYOUT"                -> "PAYOUT_COMPLETED"
    [] entry = "PAYOUT_FAILED_RESERVE" -> "PAYOUT_FAILED"
    [] entry = "DISPUTE_ADJUSTMENT"    -> "DISPUTE"

LedgerFor(status) == { e \in Entries : StatusOf(e) = status }
=============================================================================
