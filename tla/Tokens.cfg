SPECIFICATION Spec
CONSTANTS
  Backoff <- OneStep
  AuthCooldown = 1
  LongCooldown = 1
  Accounts = {a1}
  QuotaResets = {1}
  Calls = {c1, c2}
  MaxTokens = 2
  MaxRejections = 1
  MaxFaults = 1
INVARIANTS TypeOK RenewedTokenIsKept NestingNeedsRejection
PROPERTIES RefreshersAreDisturbers ComesBackOrTorn
CHECK_DEADLOCK FALSE
VIEW WithoutHealth
SYMMETRY AnyCall
CONSTRAINT OneTrouble
