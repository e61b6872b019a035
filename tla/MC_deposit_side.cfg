SPECIFICATION Spec
CONSTANTS
  Trades = {t1}
  Txs = {h1}
  Notes = {n1}
  None = None
  LongTxs = {}
  LongNotes = {}
  Oversized <- OversizedKeys
  Workers <- DepositSide
  Hooks = {}
  Users = {}
  Admins = {}
  Modes = {}
  RejectedPayouts = {}
  MaxAttempts = 1
  MaxOrders = 2
  MaxPayouts = 1
  MaxFaults = 0
INVARIANTS PostedOncePerKey OrdersBacked
CHECK_DEADLOCK FALSE
