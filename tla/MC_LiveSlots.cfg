SPECIFICATION LiveFairSpec
CONSTANTS
  s1 = s1
  s2 = s2
  p1 = p1
  r1 = r1
  r2 = r2
  q = q
  Slots = {s1, s2}
  Printers = {p1}
  PrinterOf <- MCOne
  Tagged = {r1, r2}
  Plain = {q}
  Strangers = {"unknown", "bare"}
  Hosts = {h1, h2}
  AccessCodes = {c1, c2}
  MaxTime = 3
  Limits <- MCLimits
INVARIANTS PassSettles
PROPERTIES HandsPrevail OwnLibraryOnly Converges
CHECK_DEADLOCK FALSE
