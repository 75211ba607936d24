CONSTANTS
  c1 = c1
  c2 = c2
  Clients = {c1, c2}
  Configs <- MCConfigs
  PerLine = 3
  MaxFull = 1
  Taken = {1}
  Lossy = {c1}
  MaxDials = 2

SPECIFICATION Spec

INVARIANTS
  Agree

PROPERTIES
  LoggedIn

CHECK_DEADLOCK FALSE
