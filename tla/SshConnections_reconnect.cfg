SPECIFICATION FairSpec
CONSTANTS
  None = None
  h1 = h1
  a1 = a1
  a2 = a2
  a3 = a3
  c1 = c1
  c2 = c2
  Host <- OneHost
  HostOf <- AllForOneHost
  Attempt = {a1}
  Caller = {c1, c2}
  VaultHost = {h1}
  MaxSessions = 2
PROPERTIES
  ListingsReturn
  GivenUpAttemptsReturn
INVARIANTS
  SerializedPerConnect
