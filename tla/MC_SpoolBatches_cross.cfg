SPECIFICATION BatchesSpec
CONSTANTS
  Batches = {b1, b2}
  MaxLibs = 2
  MaxGen = 1
  MaxSends = 2
  MaxRestores = 1
  MaxResets = 0
PROPERTIES NothingCrossesARestore
CHECK_DEADLOCK FALSE
