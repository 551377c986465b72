CONSTANTS
  t1 = t1
  t2 = t2
  u1 = u1
  c1 = c1
  NoThread = NoThread
  None = None
  Event = t1
  Tx = t2
  Caller = u1
  Producers <- Threads
  Consumers <- OneConsumer
  Clearers <- OneConsumer
  MaxFrames = 2
  MaxSends = 1
  MaxItems = 3
  MaxExecs = 2
SPECIFICATION FSpec
CHECK_DEADLOCK FALSE
INVARIANTS
  TokensMatchItems
  Accounted
PROPERTIES
  ImplementsFifo
  EveryItemServed
  AnswerIsKernels
