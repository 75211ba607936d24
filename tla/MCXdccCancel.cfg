CONSTANTS
  p1 = p1
  Transfers = {1}
  Chunk = 2
  Sizes = {2}
  Faulty = {1}
  MaxFaults = 1
  Packs = {p1}
  MaxPacks = 1
  maxSlots = 1

SPECIFICATION Spec

PROPERTIES
  CancelWakesWait

CHECK_DEADLOCK FALSE
