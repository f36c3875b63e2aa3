\* Frames of two or three cycles, a look at least every two, a fair loop.
CONSTANTS
  Frames = {2, 3}
  TickInterval = 2
  MaxWritten = 3
  MaxDelivered = 2
SPECIFICATION FairSpec
INVARIANTS
  NoSilentTxLoss
  RxNeverOverwritten
  NoLostUartEvent
PROPERTIES
  TransmitterDrains
