SPECIFICATION Spec
CONSTANTS
  p1 = p1
  p2 = p2
  NoOne = NoOne
  Publishers <- MCPublishers
  Readings = {200, 230}
  Average = TRUE
  TargetValue = 0
  QueryRate = 3
  WindowSize = 2
  Undefined <- MCUndefined
  ATLAS_DATA_PLANE_FEEDBACK_MAX = 2
  MaxInbox = 2
  MaxFailures = 1
INVARIANTS
  OneEntryEach
  WholeIsFiled
  ReportExact
PROPERTIES
  ReportSettled
SYMMETRY Alike
