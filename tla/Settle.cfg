\* Two rounds settled by two executors that may stall, crash and race.
SPECIFICATION Spec
CONSTANTS
  NoRound = NoRound
  Rounds = {r1, r2}
  Executors = {e1, e2}
  WalletLease = 1
  LeaseDuration = 2
  MaximumBackoff = 1
  NotFoundConsistencyWindow = 1
  MaxWalletAttempts = 1
  HighValue = {}
  RiskReviewTTL = 1
  RiskExpiryPolicy = "REJECT"
  Corruptible = {}
  SessionCorruptible = FALSE
  Reversible = {}
  ProfileDrift = FALSE
  TimelyDeadlines = FALSE
  MaxClaims = 2
  MaxTime = 4
\* The clock is bounded and every round identifier is used once.
CHECK_DEADLOCK FALSE
INVARIANTS TypeOK SessionCursor DeliveryFence AuditTrail
PROPERTIES ImplementsLifecycle
