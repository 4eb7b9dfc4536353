SPECIFICATION Spec
CONSTANTS
  one = one  plain = plain  functor = functor
  Clients <- OneClient
  Functions <- TwoFunctions
  Comparable <- OneComparable
  Keys = {1}
  Sizes = {1, 2}
  Capacity = 1
  MaxHandles = 2
  MaxWrites = 2
  MaxEdits = 1
INVARIANTS PipeTypeOK HandlesOwned InOrder AsHeld
PROPERTIES OpsAnswered FlushReturns
CHECK_DEADLOCK FALSE
