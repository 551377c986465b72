CONSTANTS
  Kinds <- BaseKinds
  MaxTraffic = 3
  MaxIdle = 1
SPECIFICATION FairSpec
CHECK_DEADLOCK FALSE
INVARIANTS
  EveryOnce
PROPERTIES
  SendAnswered
  PacketReceived
  DestroyReturns
