SPECIFICATION Spec
CONSTANTS
  c1 = c1  c2 = c2  a1 = a1  a2 = a2  j1 = j1  j2 = j2
  NoActor = NoActor
  Clients <- TwoClients
  Actors <- TwoActors
  Jobs <- TwoJobs
  InitActors <- StartWithOne
  MailboxSize = 1
  Movable <- OneJob
  StaleSizes <- Stale
  IntMax = 3
  AfterIntMax <- Overflowed
INVARIANT SizeIsCount
CHECK_DEADLOCK FALSE
