SPECIFICATION Spec
CHECK_DEADLOCK FALSE
CONSTANTS
  Header = 1
  MaxFrameSize = 1
  Frames <- MCFrames
  SocketHighWater = 2
  ChunkLen = 1
  MaxFrames = 3
  MaxOutput = 2
INVARIANT InputInOrder
INVARIANT GoodbyeIsLast
PROPERTY PausesEnd
PROPERTY GoneIsReleased
