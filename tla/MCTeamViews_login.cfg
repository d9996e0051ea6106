\* A client that is logged in and asks for the list of teams.
SPECIFICATION Spec
CONSTANTS
  u1 = u1
  w1 = w1
  Users = {u1, u2}
  Teams = {1, 2}
  Nobody = Nobody
  Empty = Empty
  Passwords = {w1}
  Admins = {u1}
  MaxTeamMembers = 2
  MaxTime = 0
  MaxRows = 3
  NewRows <- OpenRows
  Sizes = {0, 3}
  Filters = {NoFilter}
  NoFilter = NoFilter
  defaultPageSize = 1
  maxPageSize = 2
INVARIANT
  LoginSeesOwn
