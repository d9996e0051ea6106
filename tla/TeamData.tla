------------------------------ MODULE TeamData ------------------------------
(***************************************************************************)
(* The two tables of the team module, team and user_team (ent/schema), as  *)
(* internal/module/team reads them: a team row with its soft-delete flag,  *)
(* and the user_team rows that are not soft-deleted (no query reads a      *)
(* deleted one).  Shared by the abstract TeamRoster and by TeamService.    *)
(* Names, descriptions and timestamps no decision reads are left out.      *)
(***************************************************************************)
EXTENDS Integers, FiniteSets

CONSTANTS
  Users,           \* registered users
  Teams,           \* ids of the team table
  Nobody,          \* no user
  Passwords,       \* the non-empty passwords
  Empty,           \* the empty password (a NULL column, "" in the domain)
  MaxTeamMembers,  \* model.go maxTeamMembers
  MaxTime          \* bound: the clock runs from 0 to MaxTime

ASSUME DataAssumption ==
  /\ Nobody \notin Users
  /\ Empty \notin Passwords
  /\ MaxTeamMembers \in Nat \ {0}
  /\ MaxTime \in Nat

VARIABLES
  teams,           \* teams[t]: the row of team t
  members,         \* the user_team rows with is_delete = 0
  rowSeq           \* the last id the user_team sequence has given

dbVars == <<teams, members, rowSeq>>

minTeamMembers == 1

Statuses == {"public", "private", "secret"}
Times == 0 .. MaxTime + 1

(* "none": the id is not used yet; "deleted": is_delete = 1.               *)
TeamRow ==
  [state  : {"none", "active", "deleted"},
   leader : Users \cup {Nobody},
   max    : 0 .. MaxTeamMembers,
   status : Statuses,
   pw     : Passwords \cup {Empty},
   expire : Times]

NoRow == [state |-> "none", leader |-> Nobody, max |-> 0,
          status |-> "public", pw |-> Empty, expire |-> 0]

(* There is no unique index on (user, team).                               *)
Membership == [id : Nat, user : Users, team : Teams]

DataTypeOK ==
  /\ teams \in [Teams -> TeamRow]
  /\ members \subseteq Membership
  /\ rowSeq \in Nat

DataInit ==
  /\ teams = [t \in Teams |-> NoRow]
  /\ members = {}
  /\ rowSeq = 0

Active(t) == teams[t].state = "active"

RowsOf(t) == {m \in members : m.team = t}
RowsBy(u) == {m \in members : m.user = u}
RowsIn(u, t) == {m \in members : m.user = u /\ m.team = t}
LedBy(u) == {t \in Teams : Active(t) /\ teams[t].leader = u}

(* INSERT INTO user_team with the next id of the sequence.                 *)
Inserted(u, t) == members \cup {[id |-> rowSeq + 1, user |-> u, team |-> t]}

(* The member of t other than u whose row has the lowest id.               *)
Earliest(rows) == CHOOSE m \in rows : \A o \in rows : m.id <= o.id
Successor(u, t) == Earliest(RowsOf(t) \ RowsIn(u, t)).user

(* A secret team has a password: Service.Add and Service.Update check it.  *)
PolicyOK(row) == row.status = "secret" => row.pw # Empty

-----------------------------------------------------------------------------
(* No team exceeds its limit, though a join compares a count with a limit  *)
(* it has read earlier and inserts later (service.go:297).                 *)
Capacity ==
  \A t \in Teams : teams[t].state # "none" =>
    Cardinality(RowsOf(t)) <= teams[t].max

(* Nobody has two live rows in a team, though no unique index forbids it   *)
(* and HasJoined is asked before the insert (service.go:290).              *)
NoDuplicateMembership ==
  \A m, n \in members : m.user = n.user /\ m.team = n.team => m = n

(* A team without members is disbanded in the transaction that removes the *)
(* last one, whatever joins and updates do meanwhile (team_repo.go:446).   *)
NoGhostTeam == \A t \in Teams : Active(t) => RowsOf(t) # {}
=============================================================================
