----------------------------- MODULE TeamRoster -----------------------------
(***************************************************************************)
(* What the team module promises about a team, each operation one atomic   *)
(* step on the tables: teams never exceed their limit, nobody is in a team *)
(* twice, a team with an owner that quits goes to the member who joined    *)
(* first, and a disbanded team loses all its members at once.              *)
(* Two promises are weaker than a reader would expect, and the code keeps  *)
(* no stronger one: Edit may name any leader and may touch a disbanded     *)
(* team, and Enter may land in a team that has been disbanded meanwhile.   *)
(***************************************************************************)
EXTENDS TeamData

Create(u, t) == LET row == teams'[t] IN
  /\ teams[t].state = "none"
  /\ row \in TeamRow
  /\ row.state = "active" /\ row.leader = u
  /\ row.max >= minTeamMembers /\ PolicyOK(row)
  /\ teams' = [teams EXCEPT ![t] = row]
  /\ members' = Inserted(u, t)
  /\ rowSeq' = rowSeq + 1

Enter(u, t) ==
  /\ teams[t].state # "none"
  /\ RowsIn(u, t) = {}
  /\ Cardinality(RowsOf(t)) < teams[t].max
  /\ members' = Inserted(u, t)
  /\ rowSeq' = rowSeq + 1
  /\ UNCHANGED teams

Leave(u, t) ==
  /\ Active(t) /\ teams[t].leader # u
  /\ RowsIn(u, t) # {} /\ RowsOf(t) # RowsIn(u, t)
  /\ members' = members \ RowsIn(u, t)
  /\ UNCHANGED <<teams, rowSeq>>

HandOver(u, t) ==
  /\ Active(t) /\ teams[t].leader = u
  /\ RowsIn(u, t) # {} /\ RowsOf(t) # RowsIn(u, t)
  /\ members' = members \ RowsIn(u, t)
  /\ teams' = [teams EXCEPT ![t].leader = Successor(u, t)]
  /\ UNCHANGED rowSeq

(* By the leader, or by the last member when it quits.                     *)
Disband(u, t) ==
  /\ Active(t)
  /\ \/ teams[t].leader = u
     \/ RowsIn(u, t) # {} /\ RowsOf(t) = RowsIn(u, t)
  /\ members' = members \ RowsOf(t)
  /\ teams' = [teams EXCEPT ![t].state = "deleted"]
  /\ UNCHANGED rowSeq

Edit(t) == LET row == teams'[t] IN
  /\ teams[t].state # "none"
  /\ row \in TeamRow
  /\ row.state = teams[t].state /\ row.max = teams[t].max
  /\ row.leader \in Users /\ PolicyOK(row)
  /\ teams' = [teams EXCEPT ![t] = row]
  /\ UNCHANGED <<members, rowSeq>>

RosterNext ==
  \E t \in Teams :
    \/ \E u \in Users :
         \/ Create(u, t)
         \/ Enter(u, t)
         \/ Leave(u, t)
         \/ HandOver(u, t)
         \/ Disband(u, t)
    \/ Edit(t)

RosterSpec == DataInit /\ [][RosterNext]_dbVars
=============================================================================
