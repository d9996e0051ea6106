\* Two requests at a time on a table of four users that grows to six.
SPECIFICATION Spec
CONSTANTS
  p1 = p1
  p2 = p2
  Procs = {p1, p2}
  Matchers = {p1}
  Admins = {1}
  Names = {"ann", "bob", "cyd", "dan", "eve", "fay"}
  Codes = {"1", "2", "3", "4", "5"}
  NoTags = NoTags
  Junk = Junk
  TagLists <- SmallLists
  Seeds <- SmallTables
  Registrations <- SmallRegistrations
  Forms <- SmallForms
  MaxUsers = 6
  MaxWrites = 2
  MaxTime = 2
  warmBatchSize = 2
  matchActiveWindow = 1
  Nums = {1, 2}
INVARIANTS
  TypeOK
  PlanetCodeExplained
  ScanExact
  NearestOffered
