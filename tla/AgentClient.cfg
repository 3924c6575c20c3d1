SPECIFICATION ClientSpec
CONSTANTS
  k1 = k1
  k2 = k2
  k3 = k3
  NoSocket = NoSocket
  Sockets <- MCSockets
INVARIANT OneSocket
INVARIANT ReadyTogether
PROPERTY KeepsTrying
PROPERTY HandshakeEnds
CHECK_DEADLOCK FALSE
