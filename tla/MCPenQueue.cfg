\* A hold longer than a sample, gestures across three steps.
SPECIFICATION FairSpec
CONSTANTS
  Points = {0, 1, 3}
  Step = 1
  Sample = 2
  MinHold = 3
  Gaps = {0, 1, 3}
  MaxPending = 3
INVARIANTS PenOK
PROPERTIES ContactsAreWhole RestsTogether
