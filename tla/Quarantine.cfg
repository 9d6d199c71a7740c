\* Corrupt rows, wallet roll-backs and profile drift while claims are out.
SPECIFICATION Spec
CONSTANTS
  NoRound = NoRound
  Rounds = {r1, r2}
  Executors = {e1, e2}
  WalletLease = 1
  LeaseDuration = 1
  MaximumBackoff = 0
  NotFoundConsistencyWindow = 1
  MaxWalletAttempts = 1
  HighValue = {r1}
  RiskReviewTTL = 1
  RiskExpiryPolicy = "MANUAL_REVIEW"
  Corruptible = {r1, r2}
  SessionCorruptible = TRUE
  Reversible = {r1}
  ProfileDrift = TRUE
  TimelyDeadlines = FALSE
  MaxClaims = 1
  MaxTime = 3
\* The clock is bounded and every round identifier is used once.
CHECK_DEADLOCK FALSE
INVARIANTS FundsAgreement PendingPointer
PROPERTIES TerminalStable
