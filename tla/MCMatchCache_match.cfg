\* Two instances, two lists of one user, calls that fail and instances that die.
\* The first of two updates takes the tags away, the second gives new ones: the
\* lists are asked for again after it.  A list lives longer in Redis than in the
\* local level.  Liveness is checked, so no symmetry.
SPECIFICATION FairSpec
CONSTANTS
  Users = {u1}
  Procs = {p1, p2}
  Instances = {i1, i2}
  maxMatchNum = 2
  warmUpNums <- LongerList
  Untagged = {1}
  matchCacheTTL = 2
  LocalTTL = 1
  MaxVersion = 2
  MayFail = TRUE
INVARIANTS
  TypeOK
  StaleExplained
PROPERTIES
  EventuallyFresh
