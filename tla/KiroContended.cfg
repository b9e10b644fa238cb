SPECIFICATION Spec
CONSTANTS
  Backoff <- OneStep
  AuthCooldown = 1
  LongCooldown = 2
  Accounts = {a1}
  Requests = {r1, r2}
  Disturbed = {a1}
  QuotaResets = {1}
  HostStatuses = {401, 429, 500}
  None = None
SYMMETRY Symmetry
INVARIANTS TypeOK HealthAgrees EveryRequestCountedOnce
PROPERTIES OnlyOwnerReturnsAccount FailureRestsAccount EveryStepProgresses
