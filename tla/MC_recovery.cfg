SPECIFICATION Spec
CONSTANTS
  Trades = {t1}
  Txs = {h1}
  Notes = {n1, n2}
  None = None
  LongTxs = {}
  LongNotes = {n2}
  Oversized <- OversizedKeys
  Workers <- WithoutScanner
  Hooks = {k1}
  Users = {}
  Admins = {a1}
  Modes <- RetryOrForce
  RejectedPayouts = {}
  MaxAttempts = 2
  MaxOrders = 2
  MaxPayouts = 2
  MaxFaults = 1
INVARIANT PayoutsBacked
PROPERTIES KeepsOnceOnly DisputesAreTicketed PipelineKeepsPromise
CHECK_DEADLOCK FALSE
