------------------------------ MODULE EntUser ------------------------------
(***************************************************************************)
(* The generated code for the entity User, as data for EntBuilder          *)
(* (ent/mutation.go, user/where.go, user_create.go, user_update.go,        *)
(* runtime.go).  Names are those of the columns.                           *)
(***************************************************************************)
EXTENDS EntField

(* UserMutation: the methods of each field.                                *)
Username == Optional(Text)
UserAccount == Text
AvatarURL == Optional(Text)
Gender == Optional(Number)
UserPassword == Text
Phone == Optional(Text)
Email == Optional(Text)
UserStatus == Number
CreateTime == Time
UpdateTime == Time
IsDelete == Number
UserRole == Number
PlanetCode == Text
Tags == Optional(Text)

(* SetField: which name stands for which field.                            *)
Fields ==
  [username |-> Username, user_account |-> UserAccount, avatar_url |-> AvatarURL,
   gender |-> Gender, user_password |-> UserPassword, phone |-> Phone,
   email |-> Email, user_status |-> UserStatus, create_time |-> CreateTime,
   update_time |-> UpdateTime, is_delete |-> IsDelete, user_role |-> UserRole,
   planet_code |-> PlanetCode, tags |-> Tags]

(* The predicates of each field.                                           *)
UsernamePreds == Equalities \cup Orders \cup Searches \cup NilTests
UserAccountPreds == Equalities \cup Orders \cup Searches
AvatarURLPreds == Equalities \cup Orders \cup Searches \cup NilTests
GenderPreds == Equalities \cup Orders \cup NilTests
UserPasswordPreds == Equalities \cup Orders \cup Searches
PhonePreds == Equalities \cup Orders \cup Searches \cup NilTests
EmailPreds == Equalities \cup Orders \cup Searches \cup NilTests
UserStatusPreds == Equalities \cup Orders
CreateTimePreds == Equalities \cup Orders
UpdateTimePreds == Equalities \cup Orders
IsDeletePreds == Equalities \cup Orders
UserRolePreds == Equalities \cup Orders
PlanetCodePreds == Equalities \cup Orders \cup Searches
TagsPreds == Equalities \cup Orders \cup Searches \cup NilTests

Preds ==
  [username |-> UsernamePreds, user_account |-> UserAccountPreds,
   avatar_url |-> AvatarURLPreds, gender |-> GenderPreds,
   user_password |-> UserPasswordPreds, phone |-> PhonePreds, email |-> EmailPreds,
   user_status |-> UserStatusPreds, create_time |-> CreateTimePreds,
   update_time |-> UpdateTimePreds, is_delete |-> IsDeletePreds,
   user_role |-> UserRolePreds, planet_code |-> PlanetCodePreds, tags |-> TagsPreds]

(* What the validators accept.                                             *)
Validator ==
  [username |-> Short, user_account |-> Short, avatar_url |-> Short, gender |-> {1, 2},
   user_password |-> Short, phone |-> Short, email |-> Short, planet_code |-> Short,
   tags |-> Short]

(* UserCreate: its setters, defaults, the checks for presence, the columns *)
(* of its INSERT.                                                          *)
CreateSets ==
  {"username", "user_account", "avatar_url", "gender", "user_password", "phone",
   "email", "user_status", "create_time", "update_time", "is_delete", "user_role",
   "planet_code", "tags"}
CreateDefaults(now) ==
  [user_status |-> 0, create_time |-> now, update_time |-> now, is_delete |-> 0,
   user_role |-> 0]
CreateRequires ==
  {"user_account", "user_password", "user_status", "create_time", "update_time",
   "is_delete", "user_role", "planet_code"}
CreateColumns == CreateSets

(* UserUpdate and UserUpdateOne: the setters, the values checked, the      *)
(* assignments of the UPDATE.                                              *)
UpdateCalls ==
  [set |-> CreateSets \ {"create_time"},
   clear |-> {"username", "avatar_url", "gender", "phone", "email", "tags"},
   add |-> {"gender", "user_status", "is_delete", "user_role"}]
UpdateOneCalls == UpdateCalls
UpdateDefaults(now) == [update_time |-> now]

(* Mutant: the gender of an update is not checked.                         *)
UpdateChecksNoGender ==
  {"username", "user_account", "avatar_url", "user_password", "phone",
   "email", "planet_code", "tags"}

UpdateChecks ==
  {"username", "user_account", "avatar_url", "gender", "user_password", "phone",
   "email", "planet_code", "tags"}
UpdateOneChecks == UpdateChecks
UpdateSpec ==
  [set |-> {"username", "user_account", "avatar_url", "gender", "user_password",
            "phone", "email", "user_status", "update_time", "is_delete", "user_role",
            "planet_code", "tags"},
   clear |-> {"username", "avatar_url", "gender", "phone", "email", "tags"},
   add |-> {"gender", "user_status", "is_delete", "user_role"}]
UpdateOneSpec == UpdateSpec

Code ==
  [fields |-> Fields, preds |-> Preds, validator |-> Validator,
   unique |-> {"user_account"}, immutable |-> {"create_time"},
   create |-> [set |-> CreateSets, clear |-> {}, add |-> {}],
   defaults |-> [now \in 0 .. MaxClock |-> CreateDefaults(now)],
   requires |-> CreateRequires, columns |-> CreateColumns,
   refresh |-> [now \in 0 .. MaxClock |-> UpdateDefaults(now)],
   update |-> UpdateCalls, updateOne |-> UpdateOneCalls,
   checks |-> [update |-> UpdateChecks, updateOne |-> UpdateOneChecks],
   spec |-> [update |-> UpdateSpec, updateOne |-> UpdateOneSpec],
   edges |-> {}]
=============================================================================
