SPECIFICATION SessionsSpec
CONSTANTS
  Threads = {t1, t2}
  Browsers = {b1, b2}
  Links = {l1, l2}
  Capacity = 2
  MaxOpened = 3
  MaxLib = 2
SYMMETRY Symmetry
INVARIANTS RevokedStayOut LinksPairOnce AnswersStayHome
PROPERTIES NobodyElseSignedOut
CHECK_DEADLOCK FALSE
