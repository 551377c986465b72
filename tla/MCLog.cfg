CONSTANTS
  l1 = l1
  c1 = c1
  c2 = c2
  Loggers <- OneLogger
  Connectors <- TwoConnectors
  NoConn = NoConn
  Levels <- TwoLevels
  LevelDef = 0
  All = 9
  NoThread = NoThread
  Caller = caller
  Worker = worker
  MaxLogs = 1
  MaxMsgs = 2
  MaxRuns = 2
SPECIFICATION FairSpec
CHECK_DEADLOCK FALSE
INVARIANT ConnectorsServed
PROPERTY CallsReturn
