SPECIFICATION FairSpec
CONSTANTS
  t1 = t1
  t2 = t2
  t3 = t3
  l1 = l1
  l2 = l2
  Threads <- MCThreads
  NumKeys = 2
  KeyVectors <- MCKeyVectors
  Locks <- MCLocks
  NoThread = NoThread
  NoLock = NoLock
  Discipline = "ascending"
  MaxCalls <- MCMaxCalls
INVARIANTS TypeOK KeyExclusion NoWaitCycle ZeroCountIsUnused
PROPERTIES CallsReturn ImplementsKeyLocks
