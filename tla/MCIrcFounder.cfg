CONSTANTS
  s1 = s1
  s2 = s2
  s3 = s3
  chan = chan
  None = None
  Sessions = {s1, s2}
  Opers = {s1}
  Names = {chan}
  MaxObjects = 2
  MaxLimit = 1
  MaxCommands = 2

SPECIFICATION Spec

INVARIANT
  FounderIsFirst

CHECK_DEADLOCK FALSE
