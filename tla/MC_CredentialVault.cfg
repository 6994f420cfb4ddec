SPECIFICATION Spec
CONSTANTS
  Codes = {c1, c2}
  NoCode = NoCode
  MaxBindings = 7
  MaxProfiles = 5
  MaxChanges = 4
  MaxFaults = 2
INVARIANTS CodeIsKept NothingInTheOpen RemovedIsGone OldLibraryIsForgotten
PROPERTIES Starts
CHECK_DEADLOCK FALSE
