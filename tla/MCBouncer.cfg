CONSTANTS
  d1 = d1
  d2 = d2
  c1 = c1
  c2 = c2
  p1 = p1
  me = me
  m = m
  a = a
  b = b
  Downs = {d1, d2}
  Chans = {c1, c2}
  Nicks = {m, a, b}
  People = {me, p1}
  First <- MCFirst
  Present <- MCPresent
  Scripts <- MCScripts
  Unsteady = {d2}
  Users <- MCUsers
  Name = "net"
  HistoryLimit = 2
  ReplayLimit = 1
  MaxEvents = 3

SPECIFICATION Spec

INVARIANTS
  NoGap
  Roster

PROPERTIES
  HandedOut

CHECK_DEADLOCK FALSE
