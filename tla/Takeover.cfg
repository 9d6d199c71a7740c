\* One round taken over again and again, with a retry budget of two.
SPECIFICATION Spec
CONSTANTS
  NoRound = NoRound
  Rounds = {r1}
  Executors = {e1, e2}
  WalletLease = 1
  LeaseDuration = 2
  MaximumBackoff = 1
  NotFoundConsistencyWindow = 1
  MaxWalletAttempts = 2
  HighValue = {}
  RiskReviewTTL = 1
  RiskExpiryPolicy = "REJECT"
  Corruptible = {}
  SessionCorruptible = FALSE
  Reversible = {}
  ProfileDrift = FALSE
  TimelyDeadlines = TRUE
  MaxClaims = 3
  MaxTime = 6
\* The clock is bounded and every round identifier is used once.
CHECK_DEADLOCK FALSE
INVARIANTS ClaimFence NoBlindReapply ApplyBudget
PROPERTIES FencedWrites
