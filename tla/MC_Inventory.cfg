SPECIFICATION Spec
CONSTANTS
  ext = ext
  ams = ams
  Spools = {s1, s2}
  Slots = {ext, ams}
  ExternalSlots <- MCExternal
  Printers <- MCPrinters
  PrinterOf <- MCPrinterOf
  NotWeighed = NotWeighed
  LoanIds = {l1, l2}
  MaxGrams = 2
  FileRows <- MCFileRows
  EditStatuses = {"ASSIGNED", "BORROWED", "MISSING"}
SYMMETRY MCSymmetry
CONSTRAINT MCBound
INVARIANTS BooksAgree
PROPERTIES NothingUndone KeepsCustody
CHECK_DEADLOCK FALSE
