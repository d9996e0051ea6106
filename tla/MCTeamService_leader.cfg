\* Everything but updates, even when join locks lapse.
SPECIFICATION Spec
CONSTANTS
  Users = {u1, u2, u3}
  Procs = {p1, p2, p3}
  Teams = {t1}
  Nobody = Nobody
  NoProc = NoProc
  NoTeam = NoTeam
  Empty = Empty
  Absent = Absent
  Passwords = {w1}
  Admins = {}
  MaxTeamMembers = 3
  MaxTime = 0
  Forms <- ThreePlaces
  Edits <- Rename
  Handlers <- RosterHandlers
  MaxCreateTeams = 1
  MaxJoinTeams = 2
  MaxRows = 4
  TTLCovers = FALSE
  MayCrash = TRUE
SYMMETRY Symmetry
INVARIANTS
  LeaderIsMember
