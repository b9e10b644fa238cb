SPECIFICATION FairSpec
CONSTANTS
  Callers = {c1}
  MaxCalls = 3
  Servers = {s1, s2}
  Procs = {q1, q2}
  Ports = {1, 2}
  TakenPorts = {2}
  DefaultPort = 1
  KillFails = TRUE
  NoServer = NoServer
  NoProc = NoProc
INVARIANTS TypeOK NoOrphanTunnel TunnelIsWatched
PROPERTY PortIsReleased
CHECK_DEADLOCK FALSE
