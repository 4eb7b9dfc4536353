CONSTANTS
  Requests <- MCRequests
  Earlier <- MCEarlier
  MaxFrames = 2
  Brief <- Odd
  Lengths = {126, 32768}
  MaskKeys <- MCMaskKeys
SPECIFICATION Spec
INVARIANTS HeadersTell JudgesRight HandshakeAgreed CalledOnce
PROPERTIES NoMessageKills IsChannel ReadIsAnswered
CHECK_DEADLOCK FALSE
