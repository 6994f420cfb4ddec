SPECIFICATION Spec
CONSTANTS
  Jobs = {a, b}
  Rolls = {r1, r2}
  SmallDrop = 1
  MinSaneDrop = 2
  MaxJobDrop = 3
  MinCorrection = 1
  MinRecorded = 2
  Limits <- MCLimits
SYMMETRY MCSymmetry
INVARIANTS SessionsAreDistinct GramsAddUp
PROPERTIES FinishedAreFinal
CHECK_DEADLOCK FALSE
