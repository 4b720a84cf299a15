CONSTANTS
  d1 = d1
  Devices = {d1}
  MaxInFlight = 2
  PushRetryNo = 1
  AckRetryNo = 1
  StraySeqs = {0}
  SqlWritesFail = FALSE
  MaxCommands = 1
  MaxFaults = 1
SPECIFICATION FairSpec
PROPERTY ExecutedIsRetired
