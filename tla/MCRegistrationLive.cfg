SPECIFICATION FairSpec
CONSTANTS
  Devices = {d1}
  d1 = d1
  me = d1
  Policies <- OnePolicy
  ClientPolicies <- OnePolicy
  NoPolicy = NoPolicy
  NoClientPolicy = NoPolicy
  ATLAS_KEEP_ALIVE_COUNTER = 4
  ATLAS_CLIENT_KEEPALIVE_COUNT = 3
  TokenModulus = 2
  Slots = {1, 2, 3}
  AlarmIds = {1, 2}
  MaxChains = 1
  MaxQueue = 1
  RequestsFail = FALSE
  MaxFaults = 2
PROPERTIES
  Converges
