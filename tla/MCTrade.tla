------------------------------ MODULE MCTrade ------------------------------
(***************************************************************************)
(* TradeLifecycle and TradeClaims for TLC: the deployments the .cfg files  *)
(* choose from, and the symmetry that is sound for invariants only.        *)
(***************************************************************************)
EXTENDS TradeClaims, TLC

CONSTANTS LongTxs, LongNotes   \* the hashes and notes too long for the ledger
OversizedKeys ==
  [scope : {"DEPOSIT_CONFIRMED"}, op : {"deposit_confirmed", "backfill_deposit_confirmed"},
   ref : LongTxs, note : {None}]
  \cup [scope : {"DISPUTE", "DEPOSIT_CONFIRMED", "CONVERSION_COMPLETED", "PAYOUT_COMPLETED"},
        op : {"trade"}, ref : {NoRef, ForcedRef} \cup 1..MaxPayouts, note : LongNotes]

DepositSide == {"watcher", "scanner", "converter"}
DepositWorkers == {"watcher", "scanner"}
WithoutScanner == {"watcher", "converter", "payer"}
AfterDeposit == {"converter", "payer"}
OnlyWatcher == {"watcher"}
RetryOnly == {"retry_processing"}
RetryOrClose == {"retry_processing", "close_no_payout"}
RetryOrForce == {"retry_processing", "force_complete"}

\* The administrators act alike.
Symmetry == Permutations(Admins)
=============================================================================
