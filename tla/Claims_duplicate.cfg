SPECIFICATION Spec
CONSTANTS
  Trades = {t1, t2}
  Txs = {h1}
  Notes = {n1}
  None = None
  LongTxs = {}
  LongNotes = {}
  Oversized <- OversizedKeys
  Workers <- DepositWorkers
  Hooks = {}
  Users = {}
  Admins = {}
  Modes = {}
  RejectedPayouts = {}
  MaxAttempts = 1
  MaxOrders = 1
  MaxPayouts = 1
  MaxFaults = 0
INVARIANT DuplicateHashDisputed
CHECK_DEADLOCK FALSE
