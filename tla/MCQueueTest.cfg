SPECIFICATION Spec
CONSTANTS
  p1 = p1  c1 = c1  c2 = c2  f = f  g = g  a = a  b = b
  None = None
  Mixed = Mixed
  Parts <- NumberParts
  Keeping <- NoParts
  Contents <- MailContents
  Producers <- OneProducer
  Consumers <- TwoConsumers
  Threads <- OneToTwo
  Values <- TwoNumbers
  ConsumersWait = FALSE
  ProducersWait = FALSE
  ClassType = FALSE
  Capacity = 3
INVARIANT SlotExclusive
CHECK_DEADLOCK FALSE
