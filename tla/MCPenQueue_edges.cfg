\* Two taps in one batch of events.
SPECIFICATION Spec
CONSTANTS
  Points = {0, 1, 3}
  Step = 1
  Sample = 2
  MinHold = 3
  Gaps = {0, 1, 3}
  MaxPending = 3

PROPERTIES EdgesKept
