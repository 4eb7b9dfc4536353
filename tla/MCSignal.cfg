SPECIFICATION FairSpec
CONSTANTS
  r1 = r1  r2 = r2  s1 = s1  s2 = s2  g1 = g1  g2 = g2
  NoSignal = NoSignal
  NoReceiver = NoReceiver
  Receivers <- TwoReceivers
  Senders <- TwoSenders
  Signals <- TwoSignals
  Hoisting <- HoistingOne
INVARIANTS PromiseAlive OneOfEach
PROPERTIES IsRendezvous EveryWaitEnds
CHECK_DEADLOCK FALSE
