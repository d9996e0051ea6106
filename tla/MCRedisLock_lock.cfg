\* The TTL of k1 outlasts its bodies, that of k2 may run out inside one;
\* Redis calls fail and processes die.
SPECIFICATION LockFairSpec
CONSTANTS
  Procs = {p1, p2, p3}
  Keys = {k1, k2}
  NoProc = NoProc
  NoKey = NoKey
  Covered = {k1}
  MayCrash = TRUE
INVARIANTS
  LockTypeOK
  MutualExclusion
PROPERTIES
  TokenSafe
  KeyFreed
