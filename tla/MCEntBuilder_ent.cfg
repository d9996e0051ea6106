\* Any two calls, saves or not, and then a save or a question, on any one field of
\* any entity, with another session beside them.
SPECIFICATION Spec
CONSTANTS
  x1 = x1
  x2 = x2
  x3 = x3
  long = long
  Texts = {x1, x2, x3, long}
  LongTexts = {long}
  Names <- ThreeNames
  MaxNumber = 3
  Ids = {i1, i2}
  MaxClock = 1
  Null = Null
  Entities = {"team", "user", "user_team"}
  MaxCalls = 3
  MaxFocus = 1
INVARIANTS
  TypeOK
  SchemaKept
  OldPrecedesSave
PROPERTIES
  CallsDecide
