SPECIFICATION Spec
CONSTANTS
  Ids = {r1, r2, r3}
  Libraries = {home, shop}
  PendingLifetime = 1
  CodeLifetime = 3
  Minute = 1
  Capacity = 2
  MaxCreations = 1
  MaxAttempts = 2
  MaxTime = 3
  MaxEra = 3
SYMMETRY MCSymmetry
INVARIANTS StoreIsSound PairedInOneEra
PROPERTIES TermsAreKept KeepsPromise
CHECK_DEADLOCK FALSE
