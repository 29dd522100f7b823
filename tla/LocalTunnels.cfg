SPECIFICATION Spec
CONSTANTS
  None = None
  t1 = t1
  r1 = r1
  s1 = s1
  s2 = s2
  p1 = p1
  p2 = p2
  c1 = c1
  watcher = watcher
  Tunnel = {t1}
  Runtime = {r1}
  Socket = {s1, s2}
  Initial <- AllFirst
  Edits <- AnyEdit
  Start = {p1, p2}
  Call = {c1}
  Calls = {"stop", "drop", "list"}
  Watcher = watcher
  MaxSessions = 1
  MaxListeners = 2
  Clients = {}
SYMMETRY StartSymmetry
PROPERTIES
  PortsKeepTheirHandle
