CONSTANTS
  s1 = s1
  s2 = s2
  s3 = s3
  chan = chan
  None = None
  Sessions = {s1, s2, s3}
  Opers = {s1}
  Names = {chan}
  MaxObjects = 3
  MaxLimit = 1
  MaxCommands = 5

SPECIFICATION Spec
SYMMETRY Symmetry

INVARIANTS
  TypeOK
  EmptyIsTransient
  
  SerialSound


  

CHECK_DEADLOCK FALSE
