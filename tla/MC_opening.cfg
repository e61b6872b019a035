SPECIFICATION Spec
CONSTANTS
  Quotes = {q1, q2, q3}
  Banks = {b1, b2, b3}
  Sessions = {s1, s2}
  None = None
  Limit = 1
  MaxRetries = 2
  MaxAttempts = 2
  Ends = {"CANCELLED"}
  LegacyRoute = TRUE
SYMMETRY Symmetry
INVARIANTS TypeOK OneTradePerConfirmation AcceptedMeansTraded QuoteUsesBounded
  TradeLimitOvershoot QuoteLimitOvershoot LockAfterRetries
PROPERTIES AcceptedStaysUnexpired
CHECK_DEADLOCK FALSE
