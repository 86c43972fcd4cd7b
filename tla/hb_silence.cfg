\* One sensor and the gateway; a tick is a second, an answer is waited for two or three.
SPECIFICATION FairSpec
CONSTANTS
  Period = 1
  Jitter = 0
  ResendBufs = 2
  AckTimeout = 2
  MaxRetransmit = 1
  LossGap = 4
INVARIANTS
  TypeOK
PROPERTIES
  ImplementsDetector
  SpacedLossIsQuiet
  CleanIsQuiet
