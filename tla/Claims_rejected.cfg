SPECIFICATION FairSpec
CONSTANTS
  Trades = {t1}
  Txs = {h1}
  Notes = {n1}
  None = None
  LongTxs = {}
  LongNotes = {}
  Oversized <- OversizedKeys
  Workers <- WithoutScanner
  Hooks = {}
  Users = {}
  Admins = {}
  Modes = {}
  RejectedPayouts = {t1}
  MaxAttempts = 1
  MaxOrders = 1
  MaxPayouts = 1
  MaxFaults = 0
PROPERTY RejectedPayoutsFail
CHECK_DEADLOCK FALSE
