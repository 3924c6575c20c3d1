SPECIFICATION PageSpec
CONSTANTS
  o1 = o1
  o2 = o2
  s1 = s1
  Objects <- MCObjects
  Sessions <- MCSessions
  Asked = Asked
  NoCall = NoCall
  MaxLogins = 2
SYMMETRY Alike
INVARIANT ListedOnce
INVARIANT NoStrays
INVARIANT PollsWhileSignedIn
CHECK_DEADLOCK FALSE
