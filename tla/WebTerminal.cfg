SPECIFICATION Spec
CONSTANTS
  MaxAttempts = 5
  MaxTransports = 3
INVARIANT OneTransport
INVARIANT ShowsTransport
PROPERTY KeepsLife
PROPERTY TryingEnds
CHECK_DEADLOCK FALSE
