SPECIFICATION FairSpec
CONSTANTS
  Ids = 4
  RingFrames = 3
  MaxLost = 1
  MaxRepeats = 1
  MaxNaks = 1
  MaxIp = 2
CHECK_DEADLOCK FALSE
INVARIANTS
  Agreement
  RequestOK
  UpAtBothEnds
PROPERTIES
  Connects
