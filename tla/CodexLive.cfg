SPECIFICATION FairSpec
CONSTANTS
  Backoff <- OneStep
  AuthCooldown = 1
  LongCooldown = 1
  Accounts = {a1}
  Requests = {r1, r2}
  Disturbed = {}
  QuotaResets = {1}
  MaxRecoveries = 1
  None = None
PROPERTY AnsweredUnlessKept
