SPECIFICATION Spec
CONSTANTS
  s1 = s1
  s2 = s2
  c1 = c1
  c2 = c2
  c3 = c3
  NoSession = NoSession
  NoHalf = NoHalf
  Sessions <- MCSessions
  Halves <- MCHalves
  Solo <- MCSolo
  MaxConnections = 2
INVARIANT MappedIsLive
INVARIANT RecordMatchesHalf
PROPERTY KeepsLifecycle
PROPERTY ConnectingResolves
PROPERTY AbandonedIsForgotten
CHECK_DEADLOCK FALSE
