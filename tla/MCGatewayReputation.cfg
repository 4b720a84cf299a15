CONSTANTS
  d1 = d1
  d2 = d2
  Devices <- Two
  Scale = 2
  Sample = 1
  KeepAliveCounter = 1
  Scores = {1, 2}
  MaxTicks = 1
  MaxData = 1
  MaxPackets = 1
  MaxFaults = 1
SPECIFICATION Spec
SYMMETRY Alike
INVARIANTS CountsBounded TrustedIsBest StoreInStep
PROPERTIES HistoryKept
CHECK_DEADLOCK FALSE
