CONSTANTS
  s1 = s1
  s2 = s2
  s3 = s3
  a = a
  b = b
  NoNick = NoNick
  None = None
  Sessions = {s1, s2, s3}
  Watchers = {s1}
  Nicks = {a, b}
  MaxClients = 2
  MonitorLimit = 1

SPECIFICATION Spec
SYMMETRY Symmetry

INVARIANTS
  TypeOK
  AdmissionBounded
  OneKeyPerSession
  GhostOnlyAfterRename
  MissingOnlyByNamesake
  MonitorNotLost

CHECK_DEADLOCK FALSE
