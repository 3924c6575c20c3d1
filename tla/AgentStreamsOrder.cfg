SPECIFICATION StreamsSpec
CONSTANTS
  s1 = s1
  Sessions <- One
  Sizes <- Small
  HighWater = 3
  LowWater = 2
  AgentHighWater = 4
  AgentLowWater = 2
  MaxQueued = 2
  MaxQueuedBytes = 5
  MaxMade = 4
  MaxLinks = 1
CHECK_DEADLOCK FALSE
INVARIANT OutputInOrder
