---------------------------- MODULE EntUserTeam ----------------------------
(***************************************************************************)
(* The generated code for the entity UserTeam, as data for EntBuilder      *)
(* (ent/mutation.go, userteam/where.go, userteam_create.go,                *)
(* userteam_update.go, runtime.go).  Names are those of the columns.       *)
(***************************************************************************)
EXTENDS EntField

(* UserTeamMutation: the methods of each field.                            *)
UserID == Key
TeamID == Key
JoinTime == Optional(Time)
CreateTime == Time
UpdateTime == Time
IsDelete == Number

(* SetField: which name stands for which field.                            *)
Fields ==
  [user_id |-> UserID, team_id |-> TeamID, join_time |-> JoinTime,
   create_time |-> CreateTime, update_time |-> UpdateTime, is_delete |-> IsDelete]

(* The predicates of each field.                                           *)
UserIDPreds == Equalities
TeamIDPreds == Equalities
JoinTimePreds == Equalities \cup Orders \cup NilTests
CreateTimePreds == Equalities \cup Orders
UpdateTimePreds == Equalities \cup Orders
IsDeletePreds == Equalities \cup Orders

Preds ==
  [user_id |-> UserIDPreds, team_id |-> TeamIDPreds, join_time |-> JoinTimePreds,
   create_time |-> CreateTimePreds, update_time |-> UpdateTimePreds,
   is_delete |-> IsDeletePreds]

(* UserTeamCreate: its setters, defaults, the checks for presence, the     *)
(* columns of its INSERT.  No field has a validator.                       *)
CreateSets ==
  {"user_id", "team_id", "join_time", "create_time", "update_time", "is_delete"}
CreateDefaults(now) == [create_time |-> now, update_time |-> now, is_delete |-> 0]
CreateRequires == {"user_id", "team_id", "create_time", "update_time", "is_delete"}
CreateColumns == CreateSets

(* UserTeamUpdate and UserTeamUpdateOne: the setters, the assignments of   *)
(* the UPDATE.                                                             *)
UpdateCalls ==
  [set |-> {"user_id", "team_id", "join_time", "update_time", "is_delete"},
   clear |-> {"join_time"}, add |-> {"is_delete"}]
UpdateOneCalls == UpdateCalls
UpdateDefaults(now) == [update_time |-> now]
UpdateSpec ==
  [set |-> {"join_time", "update_time", "is_delete"}, clear |-> {"join_time"},
   add |-> {"is_delete"}]
UpdateOneSpec == UpdateSpec
EdgeSpecs == {"user_id", "team_id"}

Code ==
  [fields |-> Fields, preds |-> Preds, validator |-> [f \in {} |-> {}], unique |-> {},
   immutable |-> {"create_time"},
   create |-> [set |-> CreateSets, clear |-> {}, add |-> {}],
   defaults |-> [now \in 0 .. MaxClock |-> CreateDefaults(now)],
   requires |-> CreateRequires, columns |-> CreateColumns,
   refresh |-> [now \in 0 .. MaxClock |-> UpdateDefaults(now)],
   update |-> UpdateCalls, updateOne |-> UpdateOneCalls,
   checks |-> [update |-> {}, updateOne |-> {}],
   spec |-> [update |-> UpdateSpec, updateOne |-> UpdateOneSpec],
   edges |-> EdgeSpecs]
=============================================================================
