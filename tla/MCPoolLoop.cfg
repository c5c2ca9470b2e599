\* Every set of taken addresses, from every slot.
SPECIFICATION Spec
CONSTANTS
  Octet = 5
  BlockThirds = 2
  ApexBase = 2
  DynamicBase = 3
  Apex = {6}
  Qualified = {0, 1, 2, 3, 4, 5}
  ApexOffset <- SmallApexOffset
  Hash <- EverySlot
  NoAddress = NoAddress
INVARIANTS
  LoopIsAddressFor
  GivesUpOnlyWhenFull
  HandsOutHosts
CHECK_DEADLOCK FALSE
