SPECIFICATION FairSpec
CONSTANTS
  c1 = c1
  c2 = c2
  a = a
  b = b
  x = x
  y = y
  z = z
  None = None
  Conns <- MCConns
  Categories <- MCCategories
  AppPolicies <- MCPolicies
  MaxQueue = 3
  MaxPackets = 1
  MaxStops = 1
  MaxLate = 1
INVARIANTS
  PacketsConserved
  AnswersFresh
PROPERTIES
  PolicyBeforeStatistics
  PolicyConverges
