CONSTANTS
  g1 = g1
  g2 = g2
  Callers = {g1, g2}
  Calls <- MCCalls
  MaxRequests = 3
  MaxCancels = 1
SPECIFICATION Spec
INVARIANTS
  
  TableExact
  
PROPERTIES
  CallsReturn
CHECK_DEADLOCK FALSE
