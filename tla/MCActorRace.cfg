SPECIFICATION FairSpec
CONSTANTS
  o = o  a = a  w1 = w1  w2 = w2
  f1 = f1  f2 = f2  f3 = f3  k2 = k2  k3 = k3  a1 = a1  a2 = a2  a3 = a3  a4 = a4
  None = None
  Mixed = Mixed
  Parts <- OnePart
  Keeping <- OnePart
  Contents <- MailContents
  NoThread = NoThread
  Owner = o
  Clients <- OwnerAndOne
  Workers <- OneWorker
  Threads <- AllThreads
  Values <- ThreeFunctions
  Capacity = 2
  ClassType = TRUE
  KeepsRoom = FALSE
  KillWaits = FALSE
  RespawnWaits = TRUE
INVARIANTS NoFailure OneActivator KilledWorkerIsSpent MailboxMatchesCounter
PROPERTY MailboxDrains
CHECK_DEADLOCK FALSE
