SPECIFICATION Spec
CONSTANTS
  Threads = {t1, t2}
  Hosts = {h1, h2}
  Libraries = {l1, l2}
  MaxGen = 3
  MaxTokens = 2
  MaxSessions = 3
  Limits <- MCLimits
SYMMETRY Symmetry
INVARIANTS CredentialsBelong CacheIsCurrent
PROPERTIES LiveSessionsStay FixedWritesReachTheirLibrary
CHECK_DEADLOCK FALSE
