\* Concurrent updates of status, password and expiry by leader and administrator.
SPECIFICATION Spec
CONSTANTS
  Users = {u1, u2}
  Procs = {p1, p2}
  Teams = {t1}
  Nobody = Nobody
  NoProc = NoProc
  NoTeam = NoTeam
  Empty = Empty
  Absent = Absent
  Passwords = {w1}
  Admins = {u2}
  MaxTeamMembers = 2
  MaxTime = 1
  Forms <- AllForms
  Edits <- PolicyEdits
  Handlers <- PolicyHandlers
  MaxCreateTeams = 1
  MaxJoinTeams = 2
  MaxRows = 2
  TTLCovers = TRUE
  MayCrash = FALSE
SYMMETRY ProcSymmetry
INVARIANTS
  SecretHasPassword
PROPERTIES
  DisbandIsFinal
