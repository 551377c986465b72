CONSTANTS
  v1 = v1
  v2 = v2
  s1 = s1
  Vals <- TwoVals
  Own = v1
  Ap = v2
  One = v1
  None = None
  Ssid = ssid
  Stations <- OneStation
  MaxLinks = 2
SPECIFICATION ApSpec
INVARIANTS
  WorkingIsKernel
  InTheirState
  RunningIsOn
PROPERTIES
  CommitTakes
  StartsAsAnnounced
