\* Two servers that fail and die; a pool of two goroutines.
SPECIFICATION FairSpec
CONSTANTS
  c1 = c1
  i1 = i1
  u1 = u1
  u2 = u2
  u3 = u3
  Instances = {i1, i2}
  Workers = {w1, w2}
  Users = {u1, u2, u3}
  Untagged = {u3}
  Pools <- SmallPools
  warmUpNums <- Lengths
  Callers = {c1}
  Home <- HomeOne
  NoInstance = NoInstance
  NoUser = NoUser
  NoKey = NoKey
  WarmUpKey = WarmUpKey
  lockTTL = 2
  taskTimeout = 1
  MayFail = TRUE
INVARIANTS
  TypeOK
  AllWarmed
  NoWorkerLeft
  OverlapExplained
  QuietAfterStop
PROPERTIES
  JobEnds
  WarmUpLockFreed
