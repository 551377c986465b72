\* Three threads, nested twice, signals at all points but the two at which a
\* handler breaks the exclusion. One that waits for its own thread waits for
\* good, and so may all: hence no check for deadlock.
CONSTANTS
  t1 = t1
  t2 = t2
  t3 = t3
  NoThread = NoThread
  Threads <- ThreeThreads
  MaxDepth = 2
  AsyncPoints <- TakenPoints
SPECIFICATION Spec
CHECK_DEADLOCK FALSE
INVARIANTS
  MutualExclusion
  WaitsForItselfInHandler
PROPERTY ImplementsRecursiveLock
