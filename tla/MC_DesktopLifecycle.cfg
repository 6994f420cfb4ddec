SPECIFICATION Spec
CONSTANTS
  Addrs = {a1, a2}
  Codes = {0, 1, 2}
  MaxServers = 2
  MaxChanges = 1
  MaxMoves = 1
  MaxQuits = 2
INVARIANTS ListenerIsRight FailuresAreReported
PROPERTIES ExitEnds
CHECK_DEADLOCK FALSE
