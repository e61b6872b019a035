SPECIFICATION ServicesSpec
CONSTANTS
  Occurrences <- MCOccurrences
  Tokens = {k1, k2, k3, k4, k5}
  NoToken = NoToken
  Pollers = {p1, p2}
  MaxDeliveries = 2
  ClaimLimit = 2
  MaxMishaps = 1
  Submitters = {s1}
  Callers = {a1}
  Targets = {1, 2}
  CallKinds <- MCCallKinds
  AutoApproveKYC = TRUE
  MaxCalls = 2
  MaxFailures = 1
  Postings <- MCPostings
  Clients = {c1, c2}
  Officers = {o1, o2}
  VelocityThreshold = 1
  Dispositions = {"IN_REVIEW", "CLOSED"}
  MaxCases = 1
  MaxEntries = 2
  MaxLosses = 1
  Workers = {w1, w2}
  Limit = 1
  Window = 3
  Delay = 1
  MaxInstant = 4
  MaxTogether = 2
  Desks = {d1, d2}
  PriceCacheTTL = 2
  QuoteTTL = 1
  HasFallback = TRUE
  Fixed = Fixed
  Lag = 1
  MaxOffers = 1
  MaxTrades = 1
  MaxSecond = 7
  Handlers = {h1, h2}
  Scripts <- MCScripts
  MaxQuotes = 1
  MaxAccounts = 2
  MaxRepeats = 2
  MaxFaults = 1
INVARIANTS
  ServicesTypeOK
  DuplicatesExplained
  ApprovalBacked ApprovedHasTier VerifiedIsAnnounced
  BalancesAddUp
  VelocityOvershoot TimelineTells
  AdmittedWithinLimit
  TradedAtRecentPrice
  HandledOnce EffectsConfirmed ReadyIsEarned
PROPERTIES
  OutboxKeepsPromise NotificationsSettle
CHECK_DEADLOCK FALSE
