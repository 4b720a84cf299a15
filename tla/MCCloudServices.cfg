SPECIFICATION FairSpec
CONSTANTS
  Web = {w1, w2}
  MaxTasks = 1
  Token = token
  MaxCommands = 2
  MaxWaiting = 2
  MaxGateways = 2
  MaxDeletions = 1
  MaxStops = 1
INVARIANTS CopiesCurrent  OnePlace 
 
