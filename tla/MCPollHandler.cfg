CONSTANTS
  s1 = s1
  s2 = s2
  s3 = s3
  Sources <- ThreeSources
  Observer = obs
  Self = self
  Caller = caller
  Worker = worker
  NoThread = NoThread
  NoSource = NoSource
  Kinds <- Both
  MaxFds = 2
  MaxRuns = 4
SPECIFICATION FairSpec
CHECK_DEADLOCK FALSE
INVARIANTS
  RegisteredIsPolled
  InHandIsRegistered
  MapNotRaced
PROPERTY SocketCallReturns
