SPECIFICATION Spec
CONSTANTS
  Trades = {t1}
  Txs = {h1}
  Notes = {n1}
  None = None
  LongTxs = {}
  LongNotes = {}
  Oversized <- OversizedKeys
  Workers <- AfterDeposit
  Hooks = {}
  Users = {u1}
  Admins = {a1}
  Modes <- RetryOnly
  RejectedPayouts = {}
  MaxAttempts = 1
  MaxOrders = 1
  MaxPayouts = 1
  MaxFaults = 0
INVARIANT PaidOnlyForDeposits
CHECK_DEADLOCK FALSE
