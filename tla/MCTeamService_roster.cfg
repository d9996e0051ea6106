\* All operations on one team of one to three places; joins end before their TTL.
SPECIFICATION Spec
CONSTANTS
  Users = {u1, u2, u3}
  Procs = {p1, p2}
  Teams = {t1}
  Nobody = Nobody
  NoProc = NoProc
  NoTeam = NoTeam
  Empty = Empty
  Absent = Absent
  Passwords = {w1}
  Admins = {}
  MaxTeamMembers = 3
  MaxTime = 0
  Forms <- AnySize
  Edits <- Rename
  Handlers <- WriteHandlers
  MaxCreateTeams = 1
  MaxJoinTeams = 2
  MaxRows = 5
  TTLCovers = TRUE
  MayCrash = TRUE
SYMMETRY Symmetry
INVARIANTS
  TypeOK
  Capacity
  NoDuplicateMembership
  NoGhostTeam
  RowLockOnlyInTx
  JoinSafety
PROPERTIES
  DisbandRemovesAll
  LeaderMoves
  RosterRefined
