SPECIFICATION FairSpec
CONSTANTS
  hostname = hostname
  procs = procs
  load1 = load1
  load15 = load15
  FeatureList <- NameAndProcs
  Kind <- NameAndProcsKind
  Occurs <- NameAndProcsOccurs
  Known = {hostname, procs}
  Values = {1, 2}
  Readings = {1, 2}
  Threshold = 2
  PushFeatures = {procs}
  ThresholdFeatures = {procs}
  MaxPushes <- NameAndProcsPushes
  MaxAlerts = 1
  MaxPosted = 2
  MaxFaults = 1
  MaxChanges = 1
INVARIANTS
  AlertsInstalled
  UpdateOwed
  
PROPERTIES
  ReachesCloud
