SPECIFICATION Spec
CONSTANTS
  a1 = a1
  Addresses <- OneAddress
  MaxAttempts = 2
  Window = 3
  Lock = 1
  MaxSessions = 3
  EvictBatch = 2
  Overlap = 2
  MaxClock = 6
  MaxTokens = 4
INVARIANT AttemptsBounded
PROPERTY ActiveStaySignedIn
CHECK_DEADLOCK FALSE
