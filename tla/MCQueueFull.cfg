SPECIFICATION CopySpec
CONSTANTS
  p1 = p1  c1 = c1  f = f  g = g
  None = None
  Mixed = Mixed
  Parts <- OnePart
  Keeping <- OnePart
  Contents <- TwoContents
  Producers <- OneProducer
  Consumers <- OneConsumer
  Threads <- OneToOne
  Values <- EmptyOrNot
  LhsCapacities <- SmallAndEqual
  LhsRemains <- Remains
  ConsumersWait = TRUE
  ProducersWait = FALSE
  ClassType = TRUE
  Capacity = 3
INVARIANTS IndexesAgree ClashOnlyWhenFull CopyOfFull
CHECK_DEADLOCK FALSE
