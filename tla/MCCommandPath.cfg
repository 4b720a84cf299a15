CONSTANTS
  d1 = d1
  Devices = {d1}
  MaxInFlight = 2
  PushRetryNo = 1
  AckRetryNo = 1
  StraySeqs = {0}
  SqlWritesFail = FALSE
  MaxCommands = 2
  MaxFaults = 1
SPECIFICATION Spec
INVARIANTS
  TypeOK
  InProgressIsOutstanding
  ListsMatchTable
  OrderPreserved
  
PROPERTIES
  StoredOnce
