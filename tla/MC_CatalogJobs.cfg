SPECIFICATION FairSpec
CONSTANTS
  JobIds = {j1, j2}
  Requests = {r1}
  Tokens = {t1, t2}
  MaxAuthority = 2
  MaxProcess = 1
INVARIANTS LedgerIsSound
PROPERTIES WorkerKeepsItsJob KeepsPromise LegacyRefreshEnds
CHECK_DEADLOCK FALSE
