\* One request at a time on four teams.
SPECIFICATION Spec
CONSTANTS
  Users = {u1, u2}
  Procs = {p1}
  Teams = {t1, t2, t3, t4}
  Nobody = Nobody
  NoProc = NoProc
  NoTeam = NoTeam
  Empty = Empty
  Absent = Absent
  Passwords = {w1}
  Admins = {}
  MaxTeamMembers = 2
  MaxTime = 0
  Forms <- TwoPlaces
  Edits <- Rename
  Handlers <- RosterHandlers
  MaxCreateTeams = 2
  MaxJoinTeams = 1
  MaxRows = 6
  TTLCovers = TRUE
  MayCrash = FALSE
SYMMETRY UserTeamSymmetry
INVARIANTS
  QuotaBound
