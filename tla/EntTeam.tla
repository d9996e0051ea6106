------------------------------ MODULE EntTeam ------------------------------
(***************************************************************************)
(* The generated code for the entity Team, as data for EntBuilder          *)
(* (ent/mutation.go, team/where.go, team_create.go, team_update.go,        *)
(* runtime.go).  Names are those of the columns.                           *)
(***************************************************************************)
EXTENDS EntField

(* TeamMutation: the methods of each field.                                *)
Name == Text
Description == Optional(Text)
MaxNum == Number
ExpireTime == Optional(Time)
UserID == Key
Status == Number
Password == Optional(Text)
CreateTime == Time
UpdateTime == Time
IsDelete == Number

(* SetField: which name stands for which field.                            *)
Fields ==
  [name |-> Name, description |-> Description, max_num |-> MaxNum,
   expire_time |-> ExpireTime, user_id |-> UserID, status |-> Status,
   password |-> Password, create_time |-> CreateTime, update_time |-> UpdateTime,
   is_delete |-> IsDelete]

(* The predicates of each field.                                           *)
NamePreds == Equalities \cup Orders \cup Searches
DescriptionPreds == Equalities \cup Orders \cup Searches \cup NilTests
MaxNumPreds == Equalities \cup Orders
ExpireTimePreds == Equalities \cup Orders \cup NilTests
UserIDPreds == Equalities
StatusPreds == Equalities \cup Orders
PasswordPreds == Equalities \cup Orders \cup Searches \cup NilTests
CreateTimePreds == Equalities \cup Orders
UpdateTimePreds == Equalities \cup Orders
IsDeletePreds == Equalities \cup Orders

Preds ==
  [name |-> NamePreds, description |-> DescriptionPreds, max_num |-> MaxNumPreds,
   expire_time |-> ExpireTimePreds, user_id |-> UserIDPreds, status |-> StatusPreds,
   password |-> PasswordPreds, create_time |-> CreateTimePreds,
   update_time |-> UpdateTimePreds, is_delete |-> IsDeletePreds]

(* What the validators accept.                                             *)
Validator ==
  [name |-> Short, description |-> Short, status |-> {0, 1, 2}, password |-> Short]

(* TeamCreate: its setters, defaults, the checks for presence and for      *)
(* values, the columns of its INSERT.                                      *)
CreateSets ==
  {"name", "description", "max_num", "expire_time", "user_id", "status",
   "password", "create_time", "update_time", "is_delete"}
CreateDefaults(now) ==
  [max_num |-> 1, status |-> 0, create_time |-> now, update_time |-> now, is_delete |-> 0]
CreateRequires ==
  {"name", "max_num", "user_id", "status", "create_time", "update_time", "is_delete"}
CreateColumns ==
  {"name", "description", "max_num", "expire_time", "user_id", "status",
   "password", "create_time", "update_time", "is_delete"}

(* TeamUpdate and TeamUpdateOne: the setters, the values checked, the      *)
(* assignments of the UPDATE.                                              *)
UpdateCalls ==
  [set |-> {"name", "description", "max_num", "expire_time", "user_id", "status",
            "password", "update_time", "is_delete"},
   clear |-> {"description", "expire_time", "password"},
   add |-> {"max_num", "status", "is_delete"}]
UpdateOneCalls == UpdateCalls
UpdateDefaults(now) == [update_time |-> now]
UpdateChecks == {"name", "description", "status", "password"}
UpdateOneChecks == UpdateChecks
UpdateSpec ==
  [set |-> {"name", "description", "max_num", "expire_time", "status", "password",
            "update_time", "is_delete"},
   clear |-> {"description", "expire_time", "password"},
   add |-> {"max_num", "status", "is_delete"}]
UpdateOneSpec == UpdateSpec
LeaderSpec == {"user_id"}

Code ==
  [fields |-> Fields, preds |-> Preds, validator |-> Validator, unique |-> {},
   immutable |-> {"create_time"},
   create |-> [set |-> CreateSets, clear |-> {}, add |-> {}],
   defaults |-> [now \in 0 .. MaxClock |-> CreateDefaults(now)],
   requires |-> CreateRequires, columns |-> CreateColumns,
   refresh |-> [now \in 0 .. MaxClock |-> UpdateDefaults(now)],
   update |-> UpdateCalls, updateOne |-> UpdateOneCalls,
   checks |-> [update |-> UpdateChecks, updateOne |-> UpdateOneChecks],
   spec |-> [update |-> UpdateSpec, updateOne |-> UpdateOneSpec],
   edges |-> LeaderSpec]
=============================================================================
