\* One client among two users, up to two teams and three memberships.
SPECIFICATION Spec
CONSTANTS
  u1 = u1
  w1 = w1
  Users = {u1, u2}
  Teams = {1, 2}
  Nobody = Nobody
  Empty = Empty
  Passwords = {w1}
  Admins = {u1}
  MaxTeamMembers = 2
  MaxTime = 0
  MaxRows = 3
  NewRows <- SmallRows
  Sizes = {0, 3}
  Filters = {"private", NoFilter}
  NoFilter = NoFilter
  defaultPageSize = 1
  maxPageSize = 2
INVARIANTS
  TypeOK
  PrivateHidden
  PagesTile
