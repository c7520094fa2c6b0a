CONSTANTS
  l1 = l1
  l2 = l2
  k1 = k1
  Loops = {l1, l2}
  Keys = {k1}
  KeyOf <- OneKey
  LockStale = 1
  NoLock = NoLock
  NoLoop = NoLoop
  MaxTime = 2
  MaxFaults = 1
SPECIFICATION Spec
SYMMETRY Sym
INVARIANTS TypeOK HolderKeepsLock LockExclusion SettledNeverBlocks
PROPERTIES LeaseSpec
CHECK_DEADLOCK FALSE
