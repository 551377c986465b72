CONSTANTS
  t1 = t1
  t2 = t2
  e1 = e1
  h1 = h1
  h2 = h2
  o1 = o1
  o2 = o2
  NoThread = NoThread
  Threads <- TwoThreads
  Events <- OneEvent
  Handlers <- TwoHandlers
  Observers <- TwoObservers
SPECIFICATION Spec
CHECK_DEADLOCK FALSE
INVARIANT CallsOnlyRegistered
PROPERTY EachOnce
