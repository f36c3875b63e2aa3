\* Two slots with network cards, served by the guest's handler.
CONSTANTS
  s1 = s1
  s2 = s2
  Slots = {s1, s2}
  Kinds = {"ne2000"}
  RiseMasks = {{"cd"}}
  FallMasks = {{"cd"}, {"cd", "irq"}}
  AckMasks = {{"cd"}, {"irq"}}
  MaxChanges = 3
  MaxArrivals = 2
SPECIFICATION DriverSpec
INVARIANTS
  NoLostCardIrq
  LineLagsOnRemovalOnly
PROPERTIES
  RequestServed
  InsertionNoticed
