SPECIFICATION Spec
CONSTANTS
  Trades = {t1}
  Txs = {h1}
  Notes = {n1, n2}
  None = None
  LongTxs = {}
  LongNotes = {n2}
  Oversized <- OversizedKeys
  Workers <- OnlyWatcher
  Hooks = {}
  Users = {u1}
  Admins = {a1, a2}
  Modes <- RetryOrClose
  RejectedPayouts = {}
  MaxAttempts = 1
  MaxOrders = 1
  MaxPayouts = 1
  MaxFaults = 1
SYMMETRY Symmetry
INVARIANTS OneOpenTicket AuditTrailCurrent AuditTrailAllowed
CHECK_DEADLOCK FALSE
