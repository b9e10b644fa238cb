SPECIFICATION PSpec
CONSTANTS
  Backoff <- OneStep
  AuthCooldown = 1
  LongCooldown = 2
  Accounts = {a1}
  Requests = {r1}
  Disturbed = {}
  QuotaResets = {1}
  HostStatuses = {400, 401, 500}
  None = None
PROPERTY DeactivatedIsBanned
