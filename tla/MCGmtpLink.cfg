SPECIFICATION FairSpec
CONSTANTS
  PackageParts = 3
  Windows = {1, 3}
  Wrap = 4
  MaxFailures = 1
  MaxLost = 1
  MaxRepeats = 1
  MaxPings = 1
  Chatter <- Talk
  MaxChatter = 1
INVARIANTS WindowOK AckedWasTaken
PROPERTIES Implements Completes
CHECK_DEADLOCK FALSE
