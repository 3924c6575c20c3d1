SPECIFICATION Spec
CONSTANTS
  c1 = c1
  c2 = c2
  c3 = c3
  i1 = i1
  s1 = s1
  s2 = s2
  NoIp = NoIp
  NoConn = NoConn
  NoSession = NoSession
  Conns <- MCConns
  Ips <- MCIps
  Sessions <- MCSessions
  IpOf <- MCIpOf
  Backend = "pty"
  MaxConnections = 2
  MaxAuthAttempts = 2
  Window = 2
  GlobalLimit = 2
  PerIpLimit = 1
  CleanupSize = 1
  MaxClock = 4
INVARIANT SessionsMatch
INVARIANT ShutdownIsFinal
INVARIANT PressureBounded
PROPERTY ProtocolOrder
PROPERTY AuthResolves
CHECK_DEADLOCK FALSE
