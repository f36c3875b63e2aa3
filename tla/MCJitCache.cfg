\* Two ways, an arena of two blocks, address 0 among the code, and an address
\* that has no block.
SPECIFICATION Spec
CONSTANTS
  Code = {0, 1}
  Devices = {2}
  Ways = 2
  ArenaBlocks = 2
INVARIANTS RunsTheGuest LinksOK NoCodeAcrossMaps GuestGetsOn
