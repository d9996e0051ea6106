\* Liveness: statements are answered, row locks are granted in turn.
SPECIFICATION FairSpec
CONSTANTS
  Users = {u1, u2}
  Procs = {p1, p2}
  Teams = {t1}
  Nobody = Nobody
  NoProc = NoProc
  NoTeam = NoTeam
  Empty = Empty
  Absent = Absent
  Passwords = {w1}
  Admins = {}
  MaxTeamMembers = 2
  MaxTime = 0
  Forms <- TwoPlaces
  Edits <- Rename
  Handlers <- WriteHandlers
  MaxCreateTeams = 1
  MaxJoinTeams = 2
  MaxRows = 3
  TTLCovers = TRUE
  MayCrash = TRUE
PROPERTIES
  RequestsFinish
  JoinLockComesFree
