SPECIFICATION Spec
CONSTANTS
  Backoff <- OneStep
  AuthCooldown = 1
  LongCooldown = 1
  Accounts = {a1}
  QuotaResets = {1}
  Calls = {c1}
  MaxTokens = 2
  MaxRejections = 0
  MaxFaults = 0
INVARIANT LoopIsStarted
CHECK_DEADLOCK FALSE
