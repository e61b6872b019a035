SPECIFICATION Spec
CONSTANTS
  Quotes = {q1}
  Banks = {b1, b2}
  Sessions = {s1, s2}
  None = None
  Limit = 2
  MaxRetries = 3
  MaxAttempts = 3
  Ends = {"CANCELLED", "PAYOUT_COMPLETED"}
  LegacyRoute = FALSE
INVARIANT DeletedWithoutTrades
CHECK_DEADLOCK FALSE
