SPECIFICATION Spec
CONSTANTS
  p1 = p1  c1 = c1  c2 = c2  f = f  g = g  a = a  b = b
  None = None
  Mixed = Mixed
  Parts <- MailParts
  Keeping <- DelegateParts
  Contents <- MailContents
  Producers <- OneProducer
  Consumers <- OneConsumer
  Threads <- OneToOne
  Values <- Mails
  ConsumersWait = TRUE
  ProducersWait = TRUE
  ClassType = TRUE
  Capacity = 3
INVARIANT SlotExclusive
PROPERTY IsFifo
CHECK_DEADLOCK FALSE
