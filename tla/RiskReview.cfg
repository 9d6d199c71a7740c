\* High-value rounds: reviewers, expiry and execution race.
SPECIFICATION Spec
CONSTANTS
  NoRound = NoRound
  Rounds = {r1, r2}
  Executors = {e1}
  WalletLease = 1
  LeaseDuration = 2
  MaximumBackoff = 1
  NotFoundConsistencyWindow = 1
  MaxWalletAttempts = 1
  HighValue = {r1, r2}
  RiskReviewTTL = 2
  RiskExpiryPolicy = "REJECT"
  Corruptible = {}
  SessionCorruptible = FALSE
  Reversible = {}
  ProfileDrift = FALSE
  TimelyDeadlines = FALSE
  MaxClaims = 2
  MaxTime = 5
\* The clock is bounded and every round identifier is used once.
CHECK_DEADLOCK FALSE
INVARIANTS RiskGate
