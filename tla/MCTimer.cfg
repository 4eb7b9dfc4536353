SPECIFICATION FairSpec
CONSTANTS
  list = list  keyed = keyed  f = f  g = g  h = h
  None = None  Mixed = Mixed
  Parts <- ListAndKeyed
  NoCallback = NoCallback
  Callbacks <- TwoCallbacks
  StaleStates <- AnyState
  TickModulus = 3
  MaxHandlers = 3
INVARIANTS OneLateCall FreshRunCounts DestroyedIsLeftAlone
PROPERTY KeepsTicking
CHECK_DEADLOCK FALSE
