CONSTANTS
  s1 = s1
  s2 = s2
  s3 = s3
  Sources <- TwoSources
  Observer = obs
  Self = self
  Caller = caller
  Worker = worker
  NoThread = NoThread
  NoSource = NoSource
  Kinds <- Timer
  MaxFds = 2
  MaxRuns = 2
SPECIFICATION HandlerSpec
CHECK_DEADLOCK FALSE
INVARIANT TimerLocksOrdered
