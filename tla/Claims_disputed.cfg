SPECIFICATION Spec
CONSTANTS
  Trades = {t1}
  Txs = {h1}
  Notes = {n1}
  None = None
  LongTxs = {}
  LongNotes = {}
  Oversized <- OversizedKeys
  Workers <- DepositWorkers
  Hooks = {}
  Users = {}
  Admins = {}
  Modes = {}
  RejectedPayouts = {}
  MaxAttempts = 1
  MaxOrders = 1
  MaxPayouts = 1
  MaxFaults = 0
PROPERTY DisputedUntilResolved
CHECK_DEADLOCK FALSE
