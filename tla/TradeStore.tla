----------------------------- MODULE TradeStore -----------------------------
(***************************************************************************)
(* The database side of a trade, and the one transaction through which     *)
(* every status change goes: updateTradeStatusTx reserves an operation     *)
(* key, overwrites the row, posts to the ledger, appends to the status     *)
(* history and, for DISPUTE, makes sure that a dispute ticket is open.     *)
(* The transaction is one step: the UPDATE holds the row lock from the     *)
(* first write to the commit, and what it writes depends only on the       *)
(* arguments, the key table, the row it locks and the open ticket.  What   *)
(* is not inside the transaction is the reading of the status it is        *)
(* checked against: `from' below is the caller's earlier snapshot.         *)
(***************************************************************************)
EXTENDS Integers, Sequences, FiniteSets, TradeStatus

CONSTANTS
  Trades,        \* the trades
  Txs,           \* deposit transaction hashes
  Notes,         \* free texts: dispute reasons and resolution notes
  Oversized,     \* the operation keys too long for a ledger entry (KeyFits)
  None           \* a NULL

ASSUME StoreAssumption == None \notin Trades \cup Txs \cup Notes \cup Int \cup Statuses

NoRef == 0        \* a NULL order id or payout reference
ForcedRef == -1   \* the ADMIN-FORCED-... payout reference of a trade

VARIABLES
  trade,         \* trades: the row of each trade
  opKeys,        \* financial_operation_keys: the reserved (scope, key) of each trade
  ledger,        \* ledger_entries: how often each group of entries was posted
  history,       \* trade_status_history: the rows <<from, to>>, in order
  disputes       \* trade_disputes: the status of each ticket, in order of creation

storeVars == <<trade, opKeys, ledger, history, disputes>>

Rows == [status : Statuses, tx : Txs \cup {None}, order : Int, payout : Int,
         actual : BOOLEAN]

\* The first part of an idempotency key; "trade" is the key built from the metadata.
OpNames == {"trade", "trade_expired", "deposit_detected", "deposit_confirmed",
            "deposit_dispute", "backfill_deposit_detected",
            "backfill_deposit_confirmed", "backfill_dispute",
            "conversion_started", "conversion_completed",
            "conversion_failed_dispute", "conversion_escalation",
            "conversion_retries_exhausted", "conversion_reconcile_timeout",
            "payout_pending", "payout_completed", "payout_failed",
            "payout_failed_initiation"}

Refs == Int \cup Txs

\* The arguments of one UpdateTradeStatus call: the status, the idempotency
\* key (op, ref, note) and the metadata that reaches the row.
Updates == [to : Statuses, op : OpNames, ref : Refs, note : Notes \cup {None},
            tx : Txs \cup {None}, order : Int, payout : Int, actual : BOOLEAN,
            post : BOOLEAN]

Update(to, op, ref) ==
  [to |-> to, op |-> op, ref |-> ref, note |-> None, tx |-> None,
   order |-> NoRef, payout |-> NoRef, actual |-> FALSE, post |-> TRUE]

\* buildTradeOperationKey under the scope statusLedgerScope(status).
Keys == [scope : Statuses, op : OpNames, ref : Refs, note : Notes \cup {None}]
OperationKey(u) == [scope |-> u.to, op |-> u.op, ref |-> u.ref, note |-> u.note]

\* Mutant: the INSERT is taken to succeed, whatever ON CONFLICT made of it.
ReservesWhatever(t, u) == TRUE

\* reserveMoneyOperationKeyTx: does the INSERT ... ON CONFLICT DO NOTHING insert?
Reserves(t, u) == OperationKey(u) \notin opKeys[t]

\* The row after UPDATE trades SET status = $2, ... = COALESCE($n, ...).
Written(row, u) ==
  [status |-> u.to,
   tx     |-> IF u.tx = None THEN row.tx ELSE u.tx,
   order  |-> IF u.order = NoRef THEN row.order ELSE u.order,
   payout |-> IF u.payout = NoRef THEN row.payout ELSE u.payout,
   actual |-> row.actual \/ u.actual]

(***************************************************************************)
(* A ledger entry's idempotency_key is the operation key with a suffix,    *)
(* such as ":deposit:credit", in a column of 128 characters (the column of *)
(* the operation key has 255): a posting under a longer key is an error,   *)
(* now and at every later attempt.  With the UUID of the trade in the key, *)
(* deposit_confirmed fits for hashes of up to 58 characters, its backfill_ *)
(* form for 49, and the hashes of the chains have 64 and more; a dispute   *)
(* fits for reasons of up to 55, retry_processing for notes of 46 or 33,   *)
(* force_complete for notes of 14 at most, and not for its default note.   *)
(***************************************************************************)
Posts(u) == u.post /\ LedgerFor(u.to) # {}
KeyFits(u) == Posts(u) => OperationKey(u) \notin Oversized

\* Mutant: skip_ledger_posting read the wrong way round.
PostsWhenSkipped(counts, u) ==
  [e \in Entries |-> IF ~u.post /\ e \in LedgerFor(u.to) THEN counts[e] + 1
                                                           ELSE counts[e]]

\* postLedgerForStatusTransitionTx, or nothing under skip_ledger_posting.
postLedgerForStatusTransitionTx(counts, u) ==
  [e \in Entries |-> IF u.post /\ e \in LedgerFor(u.to) THEN counts[e] + 1
                                                          ELSE counts[e]]

OpenTickets(t) == { i \in DOMAIN disputes[t] : disputes[t][i] = "OPEN" }

\* Mutants: a new ticket each time; a new ticket only for the first dispute.
TicketEachTime(t) == Append(disputes[t], "OPEN")
TicketOnlyOnce(t) == IF disputes[t] = <<>> THEN <<"OPEN">> ELSE disputes[t]

\* openTradeDisputeTx: the ticket that is already open, else a new one.
openTradeDisputeTx(t) ==
  IF OpenTickets(t) = {} THEN Append(disputes[t], "OPEN") ELSE disputes[t]

\* closeTradeDisputeTx: the ticket is closed, whatever its status is.
closeTradeDisputeTx(t, i) == [disputes EXCEPT ![t][i] = "CLOSED"]

(***************************************************************************)
(* updateTradeStatusTx after its transition check: `row' is the trade's    *)
(* row as this transaction already sees it, `from' the status of the       *)
(* snapshot the caller passed in.  A key that is already reserved makes    *)
(* the call return without an error and without a change.                  *)
(***************************************************************************)
\* Mutant: the row is overwritten before the key is looked at.
DuplicateOverwrites(t, row, u) ==
  /\ ~Reserves(t, u)
  /\ trade' = [trade EXCEPT ![t] = Written(row, u)]
  /\ UNCHANGED <<opKeys, ledger, history>>

DuplicateIgnored(t, row, u) ==
  /\ ~Reserves(t, u)
  /\ trade' = [trade EXCEPT ![t] = row]
  /\ UNCHANGED <<opKeys, ledger, history>>

StatusWritten(t, row, from, u) ==
  /\ Reserves(t, u) /\ KeyFits(u)
  /\ opKeys' = [opKeys EXCEPT ![t] = @ \cup {OperationKey(u)}]
  /\ trade' = [trade EXCEPT ![t] = Written(row, u)]
  /\ ledger' = [ledger EXCEPT ![t] = postLedgerForStatusTransitionTx(@, u)]
  /\ history' = [history EXCEPT ![t] = Append(@, <<from, u.to>>)]

updateTradeStatusTx(t, row, from, u) ==
  \/ DuplicateIgnored(t, row, u)
  \/ StatusWritten(t, row, from, u)

\* UpdateTradeStatus and RaiseDispute, from Begin to Commit.
UpdateCommit(t, from, u) ==
  /\ updateTradeStatusTx(t, trade[t], from, u)
  /\ disputes' = IF u.to = "DISPUTE" /\ Reserves(t, u)
                   THEN [disputes EXCEPT ![t] = openTradeDisputeTx(t)]
                   ELSE disputes

\* ResolveTradeDispute, from Begin to Commit: retry_processing towards
\* CONVERSION_COMPLETED first clears graph_payout_id, then the status is
\* written and ticket i is closed.
ResolveCommit(t, i, from, u, clear) ==
  /\ updateTradeStatusTx(t, IF clear THEN [trade[t] EXCEPT !.payout = NoRef]
                                     ELSE trade[t], from, u)
  /\ disputes' = closeTradeDisputeTx(t, i)

\* retryStatusForTrade: where retry_processing sends a trade.
retryStatusForTrade(row) ==
  IF row.order # NoRef \/ row.payout # NoRef \/ row.actual
    THEN "CONVERSION_COMPLETED" ELSE "DEPOSIT_CONFIRMED"

\* createTradeWithAuthorization has just committed: the row is PENDING_DEPOSIT
\* and the history holds its first row, with no from_status.
StoreInit ==
  /\ trade = [t \in Trades |-> [status |-> "PENDING_DEPOSIT", tx |-> None,
                                order |-> NoRef, payout |-> NoRef, actual |-> FALSE]]
  /\ opKeys = [t \in Trades |-> {}]
  /\ ledger = [t \in Trades |-> [e \in Entries |-> 0]]
  /\ history = [t \in Trades |-> << <<None, "PENDING_DEPOSIT">> >>]
  /\ disputes = [t \in Trades |-> <<>>]

StoreTypeOK ==
  /\ trade \in [Trades -> Rows]
  /\ opKeys \in [Trades -> SUBSET Keys]
  /\ ledger \in [Trades -> [Entries -> Nat]]
  /\ history \in [Trades -> Seq((Statuses \cup {None}) \X Statuses)]
  /\ disputes \in [Trades -> Seq({"OPEN", "CLOSED"})]
=============================================================================
