CONSTANTS
  r = r
  g1 = g1
  None = None
  Senders = {r, g1}
  Reader = r
  Lens = {1, 2}
  MaxQueued = 3
  MaxBatch = 2
  MaxSends = 3

SPECIFICATION FairSpec

INVARIANTS
  TypeOK
  BytesExact
  NoLostWake
  WireIsPrefix
  ErrorLineOut

PROPERTIES
  FlushReturns
  AcceptedIsWritten
  SessionEnds

CHECK_DEADLOCK FALSE
