SPECIFICATION FairSpec
CONSTANTS
  Threads = {t1, t2}
  Slots = {s1, s2}
  MaxRequests = 3
INVARIANTS RouteIsSound EffortIsBounded
PROPERTIES KeepsPromise RequestsEnd
CHECK_DEADLOCK FALSE
