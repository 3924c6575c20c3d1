SPECIFICATION Spec
CONSTANTS
  NUp = 5
  NDown = 4
  LargeUp <- LastUp
  LargeDown <- LastDown
  SocketHigh = 2
  WsHigh = 2
  WsLow = 1
  MaxPre = 3
  MaxInbound = 2
INVARIANT UpInOrder
INVARIANT DownInOrder
INVARIANT PausesEnd
INVARIANT EndsTogether
PROPERTY TargetReleased
CHECK_DEADLOCK FALSE
