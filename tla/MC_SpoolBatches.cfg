SPECIFICATION BatchesSpec
CONSTANTS
  Batches = {b1, b2}
  MaxLibs = 2
  MaxGen = 1
  MaxSends = 4
  MaxRestores = 2
  MaxResets = 1
SYMMETRY Symmetry
INVARIANTS MadeOnce AnswersAreTrue
CHECK_DEADLOCK FALSE
