--------------------------- MODULE TeamServiceInv ---------------------------
(***************************************************************************)
(* The inductive invariants of TeamService.                                *)
(*                                                                         *)
(* JoinSafety is behind Capacity and NoDuplicateMembership.  Neither is    *)
(* inductive: a join inserts on the strength of two counts it made before, *)
(* so the invariant says that those counts are still right, which holds    *)
(* because the join lock keeps other joins out, because quits and disbands *)
(* only remove rows and because no update changes a limit.                 *)
(*                                                                         *)
(* TxSafety is behind what the transactions promise: a row lock freezes    *)
(* the team and its members until the transaction that took it ends, so    *)
(* what its statements found out is still right when it commits.           *)
(***************************************************************************)
EXTENDS TeamService

(* The table of memberships is finite, its ids come from the sequence, and *)
(* an unused team id has none.                                             *)
RowsInv ==
  /\ IsFiniteSet(members)
  /\ \A m \in members : m.id <= rowSeq
  /\ \A t \in Teams : teams[t].state = "none" => RowsOf(t) = {}

(* A request that is under way has a user, and a team unless it is Add.    *)
RequestInv ==
  \A p \in Procs :
    /\ pc[p] # "idle" => req[p].user \in Users
    /\ pc[p] \notin {"idle", "create"} => req[p].team \in Teams

(* The team of a request exists, or is about to.                           *)
TeamInv ==
  \A p \in Procs :
    /\ pc[p] \notin {"idle", "create"} => teams[req[p].team].state # "none"
    /\ pc[p] = "create" =>
         snap[p].state = "active" /\ snap[p].max >= minTeamMembers

(* The statements of doJoin run inside RunWithLock on the team's key, and  *)
(* a lock that outlasts them stays with them.                              *)
LockInv ==
  \A p \in Procs :
    /\ phase[p] = "fn" <=> pc[p] \in InJoinBody
    /\ phase[p] = "unlock" <=> pc[p] = "unlock"
    /\ phase[p] # "idle" => lockKey[p] = req[p].team
    /\ TTLCovers /\ phase[p] = "fn" => held[req[p].team] = p

(* The limit a join or an update carries is still the team's limit.        *)
LimitInv ==
  \A p \in Procs :
    pc[p] \in InJoinBody \cup {"join", "exists", "write"} =>
      snap[p].max = teams[req[p].team].max

(* What a join has found out under the lock is still so.                   *)
JoinInv ==
  \A p \in Procs :
    /\ pc[p] \in {"full", "insert"} => RowsIn(req[p].user, req[p].team) = {}
    /\ pc[p] = "insert" => Cardinality(RowsOf(req[p].team)) < snap[p].max

(* The invariant, for joins that end before their lock does.               *)
JoinSafety ==
  /\ RequestInv /\ RowsInv /\ TeamInv /\ LockInv /\ LimitInv /\ JoinInv
  /\ Capacity /\ NoDuplicateMembership

-----------------------------------------------------------------------------
(* What a quit or a disband is about to do, given what it has read.        *)
Leaving(p) == LET u == req[p].user  t == req[p].team IN
  /\ snap[p].leader # u
  /\ RowsIn(u, t) # {} /\ ~ (Cardinality(RowsOf(t)) <= 1)

HandingOver(p) == LET u == req[p].user  t == req[p].team IN
  /\ snap[p].leader = u
  /\ RowsIn(u, t) # {} /\ RowsOf(t) # RowsIn(u, t)

Disbanding(p) == LET u == req[p].user  t == req[p].team IN
  \/ snap[p].leader = u
  \/ RowsIn(u, t) # {} /\ Cardinality(RowsOf(t)) <= 1

(* The writes of a transaction.                                            *)
TxIs(p, g, l, d) == tx[p].gone = g /\ tx[p].leader = l /\ tx[p].disband = d

(* What a transaction that holds the row lock knows before each of its     *)
(* statements, and what it has written.                                    *)
TxKnows(p) ==
  LET u == req[p].user
      t == req[p].team
      all == {m.user : m \in RowsOf(t)}
  IN
  /\ Active(t) /\ snap[p] = teams[t]
  /\ pc[p] \in {"qhas", "qcount", "qpick", "dropMembers"} => TxIs(p, {}, Nobody, FALSE)
  /\ pc[p] \in {"qcount", "qpick"} => RowsIn(u, t) # {}
  /\ pc[p] = "qpick" => snap[p].leader = u
  /\ pc[p] = "qmove" => HandingOver(p) /\ TxIs(p, {}, Successor(u, t), FALSE)
  /\ pc[p] = "qdrop" =>
       \/ Leaving(p) /\ TxIs(p, {}, Nobody, FALSE)
       \/ HandingOver(p) /\ TxIs(p, {}, Successor(u, t), FALSE)
  /\ pc[p] \in {"dropMembers", "dropTeam"} => Disbanding(p)
  /\ pc[p] = "dropTeam" => TxIs(p, all, Nobody, FALSE)
  /\ pc[p] = "commit" =>
       \/ Leaving(p) /\ TxIs(p, {u}, Nobody, FALSE)
       \/ HandingOver(p) /\ TxIs(p, {u}, Successor(u, t), FALSE)
       \/ Disbanding(p) /\ TxIs(p, all, Nobody, TRUE)

TxSafety ==
  /\ RowLockOnlyInTx
  /\ \A p \in Procs :
       IF pc[p] \in InTx THEN TxKnows(p) ELSE tx[p] = NoTx

(* Every team that has ever existed has a user for a leader and keeps the  *)
(* policy on passwords, and so does every row that a request is about to   *)
(* write.                                                                  *)
GoodRow(row) == row.leader \in Users /\ PolicyOK(row)

PolicyInv ==
  /\ \A t \in Teams : teams[t].state # "none" => GoodRow(teams[t])
  /\ \A p \in Procs :
       /\ pc[p] \in {"create", "exists", "write"} => GoodRow(snap[p])
       /\ pc[p] = "create" => snap[p].leader = req[p].user

(* Each user sends one request at a time.                                  *)
OneRequestEach ==
  \A p, q \in Procs :
    pc[p] # "idle" /\ pc[q] # "idle" /\ req[p].user = req[q].user => p = q

(* Behind QuotaBound where users send one request at a time and no update  *)
(* runs: a user's rows in teams that another leads are at most the joins   *)
(* allowed, and the checks that Add and Join have made are still right.    *)
NotLed(u) == {m \in RowsBy(u) : m.team \notin LedBy(u)}

QuotaInv ==
  /\ QuotaBound
  /\ \A u \in Users : Cardinality(NotLed(u)) <= MaxJoinTeams
  /\ \A p \in Procs : LET rows == RowsBy(req[p].user) IN
       /\ pc[p] = "create" => Cardinality(rows) < MaxCreateTeams + MaxJoinTeams
       /\ pc[p] \in {"has", "full", "insert"} => Cardinality(rows) < MaxJoinTeams
=============================================================================
