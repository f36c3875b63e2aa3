\* One slot: the guest is never told of a removal.
CONSTANTS
  s1 = s1
  s2 = s2
  Slots = {s1}
  Kinds = {"ne2000"}
  RiseMasks = {{"cd"}}
  FallMasks = {{"cd"}, {"cd", "irq"}}
  AckMasks = {{"cd"}, {"irq"}}
  MaxChanges = 3
  MaxArrivals = 2
SPECIFICATION DriverSpec
PROPERTIES
  RemovalNoticed
