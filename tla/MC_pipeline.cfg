SPECIFICATION FairSpec
CONSTANTS
  Trades = {t1}
  Txs = {h1, h2}
  Notes = {n1}
  None = None
  LongTxs = {h2}
  LongNotes = {}
  Oversized <- OversizedKeys
  Workers <- WithoutScanner
  Hooks = {k1}
  Users = {}
  Admins = {}
  Modes = {}
  RejectedPayouts = {}
  MaxAttempts = 2
  MaxOrders = 2
  MaxPayouts = 2
  MaxFaults = 1
INVARIANTS TypeOK PayoutsEvidenced
PROPERTIES KeepsPromise ConfirmedDepositsSettle PendingTradesEnd ReceivedDepositsSettle
CHECK_DEADLOCK FALSE
