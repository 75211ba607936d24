CONSTANTS
  p1 = p1
  Transfers = {1, 2}
  Chunk = 2
  Sizes = {2}
  Faulty = {1}
  MaxFaults = 2
  Packs = {p1}
  MaxPacks = 1
  maxSlots = 1

SPECIFICATION Spec

INVARIANTS
  TypeOK
  SlotsHold
  

PROPERTIES
  ClosedEnds

CHECK_DEADLOCK FALSE
