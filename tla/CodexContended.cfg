SPECIFICATION Spec
CONSTANTS
  Backoff <- TwoSteps
  AuthCooldown = 2
  LongCooldown = 3
  Accounts = {a1}
  Requests = {r1, r2}
  Disturbed = {a1}
  QuotaResets = {2}
  MaxRecoveries = 1
  None = None
SYMMETRY Symmetry
INVARIANTS TypeOK HealthAgrees EveryRequestCountedOnce OneRecoveryPerPick
PROPERTIES OnlyOwnerReturnsAccount QuotaHoldSurvives FailureRestsAccount
