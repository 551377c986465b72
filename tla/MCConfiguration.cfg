CONSTANTS
  t1 = t1
  t2 = t2
  Users <- TwoThreads
  Vals = {1}
  MaxMembers = 1
  None = None
SPECIFICATION ConfigFairSpec
INVARIANTS
  ModifiedTells
  LoadsCommitted
PROPERTY CallsReturn
