\* A and the right control key, a queue that two events fill.
CONSTANTS
  Keys = {4, 228}
  Extended = {228}
  Capacity = 4
  ReadMax = 2
  MaxTyped = 2
  MaxWhims = 1
  MaxFaults = 1
SPECIFICATION KeyboardFairSpec
CHECK_DEADLOCK FALSE
INVARIANTS
  KeysMatch
  WakeOK
PROPERTIES
  Settles
