CONSTANTS
  k1 = k1
  k2 = k2
  id = id
  Nil = Nil
  NoId = NoId
  Absent = Absent
  Keys = {k1, k2}
  Times = {1, 2}
  Ids = {id}
  Requested = 3
  DefaultLimit = 2
  MaxAppends = 6
  QueryLimits = {0, 1, 2}
  PageLimits = {0, 1, 3}
  PageLimit = 2

SPECIFICATION Spec

INVARIANTS
  TypeOK
  QueryIsReference
  

PROPERTIES
  IsBoundedLog

CHECK_DEADLOCK FALSE
