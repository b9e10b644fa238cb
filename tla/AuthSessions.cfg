SPECIFICATION Spec
CONSTANTS
  s1 = s1
  Sessions = {s1, s2}
  Logins <- AnyAndDevice
  NoAccount = NoAccount
INVARIANTS TypeOK SuccessIsConnected PendingIsWatched
PROPERTIES OnlyPendingLogsIn KiroOutcomeStands
CHECK_DEADLOCK FALSE
