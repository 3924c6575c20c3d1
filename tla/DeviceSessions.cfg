SPECIFICATION Spec
CONSTANTS
  s1 = s1
  c1 = c1
  c2 = c2
  c3 = c3
  l1 = l1
  l2 = l2
  NoSession = NoSession
  NoHalf = NoHalf
  NoLink = NoLink
  Device = Device
  Sessions <- MCSessions
  Halves <- MCHalves
  Links <- MCLinks
  MaxConnections = 2
SYMMETRY MCSymmetry
INVARIANT ChannelsServed
INVARIANT TerminalBehindChannel
PROPERTY KeepsFrontDoor
CHECK_DEADLOCK FALSE
