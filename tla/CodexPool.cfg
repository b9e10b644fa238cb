SPECIFICATION Spec
CONSTANTS
  Backoff <- OneStep
  AuthCooldown = 1
  LongCooldown = 1
  Accounts = {a1, a2}
  Requests = {r1, r2}
  Disturbed = {}
  QuotaResets = {1}
  MaxRecoveries = 1
  None = None
SYMMETRY Symmetry
INVARIANTS RecoveryHasLeader ExcludedIsLeft
PROPERTY SharesRecovery
VIEW WithoutLabels
