SPECIFICATION Spec
CONSTANTS
  None = None
  h1 = h1
  a1 = a1
  a2 = a2
  a3 = a3
  c1 = c1
  c2 = c2
  Host <- OneHost
  HostOf <- AllForOneHost
  Attempt = {a1, a2}
  Caller = {c1}
  VaultHost = {h1}
  MaxSessions = 3
SYMMETRY Interchangeable
PROPERTIES
  OnlyConnectRevives
  ReplacesWhatItRead
INVARIANTS
  CancelledNeverPublishes
  SupersededNeverPublishes
  DialStaysCancellable
