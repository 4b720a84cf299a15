SPECIFICATION FairSpec
CONSTANTS
  d1 = d1
  d2 = d2
  Devices = {d1}
  Policies <- TwoPolicies
  NoPolicy = NoPolicy
  NoRule = NoRule
  NoStats = NoStats
  Packets <- SelfPackets
  Uninitialised <- Garbage
  ATLAS_KEEP_ALIVE_COUNTER = 1
  MaxQueue = 2
  SqlWritesFail = TRUE
  MaxPackets = 1
  MaxRestarts = 2
INVARIANTS
  SentNeverOvercounted
PROPERTIES
  ImplementsRuleTable
  RulesConverge
