SPECIFICATION FairSpec
CONSTANTS
  MaxFd = 4
  MaxRequests = 2
  MaxAlarms = 1
INVARIANTS
  InStep
PROPERTIES
  EventsServed
\* What follows a number closed twice in a pass is not explored.
CHECK_DEADLOCK FALSE
