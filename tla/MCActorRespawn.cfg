SPECIFICATION Spec
CONSTANTS
  o = o  a = a  w1 = w1  w2 = w2
  f1 = f1  f2 = f2  f3 = f3  k2 = k2  k3 = k3  a1 = a1  a2 = a2  a3 = a3  a4 = a4
  None = None
  Mixed = Mixed
  Parts <- MailParts
  Keeping <- DelegateParts
  Contents <- MailContents
  NoThread = NoThread
  Owner = o
  Clients <- JustOwner
  Workers <- TwoWorkers
  Threads <- AllThreads
  Values <- TwoJobs
  Capacity = 2
  ClassType = TRUE
  KeepsRoom = TRUE
  KillWaits = TRUE
  RespawnWaits = FALSE
INVARIANT NoFailure
CHECK_DEADLOCK FALSE
