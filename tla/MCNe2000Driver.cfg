CONSTANTS
  PStart = 2
  PStop = 6
  TallyFlag = 1
  Sizes = {1, 2}
  Modes <- MCModes
  EndMarks = {6}
  MaxArrivals = 3
  MaxSends = 2
  MaxWhims = 1
SPECIFICATION FairSpec
INVARIANTS RingHoldsUnread TransmitterOK
PROPERTIES InRingBoundaryProtects ReadsWholeFrames AllRead
CHECK_DEADLOCK FALSE
