CONSTANTS
  c1 = c1
  c2 = c2
  NoData = NoData
  Conns = {c1, c2}
  Ports = {1, 2}
  MaxConnections = 1
  Rows <- MCRows
  Calls <- MCCalls
  MaxCommands <- MCMaxCommands
  MaxTimeouts <- MCMaxTimeouts
SPECIFICATION Spec
INVARIANTS
  Drained
  InStep
  
PROPERTIES
  SessionsEnd
CHECK_DEADLOCK FALSE
