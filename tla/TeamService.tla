----------------------------- MODULE TeamService -----------------------------
(***************************************************************************)
(* The write operations of the team module: Service.Add, Join, Quit,       *)
(* Delete and Update (internal/module/team/service.go) with the repository *)
(* calls they make (repo/team_repo.go).  A request is a process; every     *)
(* statement it sends to Postgres or Redis is one action, so requests      *)
(* interleave between statements, as they do under read committed.         *)
(*                                                                         *)
(* What Postgres contributes.  SELECT ... FOR UPDATE on a team row is held *)
(* to the end of the transaction (rowLock).  A plain UPDATE of that row    *)
(* waits for it, and so does an INSERT into user_team, whose foreign key   *)
(* takes KEY SHARE on the row.  A transaction's writes appear at Commit.   *)
(***************************************************************************)
EXTENDS TeamData

CONSTANTS
  Procs,           \* requests in flight at a time
  NoProc,          \* no request
  NoTeam,          \* no team
  Absent,          \* a nil pointer in the parameters: "leave as it is"
  Admins,          \* users whose role is administrator
  Handlers,        \* the operations that clients send
  Forms,           \* the AddParams that clients send
  Edits,           \* the UpdateParams that clients send
  MaxCreateTeams,  \* model.go maxCreateTeams
  MaxJoinTeams,    \* model.go maxJoinTeams
  MaxRows,         \* bound: user_team rows ever inserted
  TTLCovers,       \* TRUE: no Join runs longer than joinLockTTL
  MayCrash         \* TRUE: the server may die inside RunWithLock

ASSUME ServiceAssumption ==
  /\ NoProc \notin Procs
  /\ NoTeam \notin Teams
  /\ Absent \notin Passwords \cup {Empty}
  /\ Absent \notin Statuses /\ Absent \notin Times
  /\ Admins \subseteq Users
  /\ Handlers \subseteq {"add", "join", "quit", "delete", "update"}
  /\ Forms \subseteq [max : 0 .. MaxTeamMembers + 1, status : Statuses,
                      pw : Passwords \cup {Empty, Absent}, expire : Times]
  /\ Edits \subseteq [status : Statuses \cup {Absent},
                      pw : Passwords \cup {Empty, Absent},
                      expire : Times \cup {Absent}]
  /\ MaxCreateTeams \in Nat /\ MaxJoinTeams \in Nat /\ MaxRows \in Nat
  /\ TTLCovers \in BOOLEAN /\ MayCrash \in BOOLEAN

VARIABLES
  held, phase, lockKey,  \* the join lock (RedisLock)
  rowLock,               \* rowLock[t]: the transaction holding FOR UPDATE on t
  now,                   \* the clock
  pc,                    \* pc[p]: the statement p sends next
  req,                   \* req[p]: the acting user and the team
  snap,                  \* snap[p]: the team row p has read (or will insert)
  tx                     \* tx[p]: what p's transaction has written so far

L == INSTANCE RedisLock WITH Keys <- Teams, NoKey <- NoTeam,
       Covered <- IF TTLCovers THEN Teams ELSE {}
R == INSTANCE TeamRoster

lockVars == <<held, phase, lockKey>>
local == <<pc, req, snap, tx>>
vars == <<dbVars, lockVars, rowLock, now, local>>

InJoinBody == {"quota", "has", "full", "insert"}
InTx == {"qhas", "qcount", "qpick", "qmove", "qdrop",
         "dropMembers", "dropTeam", "commit"}
Single == {"create", "join", "quit", "delete", "exists", "write"}
Labels == {"idle", "unlock"} \cup InJoinBody \cup InTx \cup Single

(* gone: users whose rows are soft-deleted; leader: the new leader, if     *)
(* any; disband: the team row is soft-deleted.                             *)
NoTx == [gone |-> {}, leader |-> Nobody, disband |-> FALSE]
NoReq == [user |-> Nobody, team |-> NoTeam]

Requests == [user : Users \cup {Nobody}, team : Teams \cup {NoTeam}]
Writes == [gone : SUBSET Users, leader : Users \cup {Nobody}, disband : BOOLEAN]

TypeOK ==
  /\ DataTypeOK
  /\ L!LockTypeOK
  /\ rowLock \in [Teams -> Procs \cup {NoProc}]
  /\ now \in 0 .. MaxTime
  /\ pc \in [Procs -> Labels]
  /\ req \in [Procs -> Requests]
  /\ snap \in [Procs -> TeamRow]
  /\ tx \in [Procs -> Writes]

Init ==
  /\ DataInit
  /\ L!LockInit
  /\ rowLock = [t \in Teams |-> NoProc]
  /\ now = 0
  /\ pc = [p \in Procs |-> "idle"]
  /\ req = [p \in Procs |-> NoReq]
  /\ snap = [p \in Procs |-> NoRow]
  /\ tx = [p \in Procs |-> NoTx]

-----------------------------------------------------------------------------
(* Control.                                                                *)

At(p, l) == pc[p] = l
Goto(p, l) == pc' = [pc EXCEPT ![p] = l]

Start(p, h, l, u, t, row) ==
  /\ At(p, "idle") /\ h \in Handlers
  /\ Goto(p, l)
  /\ req' = [req EXCEPT ![p] = [user |-> u, team |-> t]]
  /\ snap' = [snap EXCEPT ![p] = row]
  /\ UNCHANGED <<dbVars, lockVars, rowLock, now, tx>>

(* The request answers its client; its local variables are gone.           *)
Return(p) ==
  /\ Goto(p, "idle")
  /\ req' = [req EXCEPT ![p] = NoReq]
  /\ snap' = [snap EXCEPT ![p] = NoRow]
  /\ tx' = [tx EXCEPT ![p] = NoTx]

(* A statement that only reads: the request goes on at l.                  *)
Read(p, l) ==
  /\ Goto(p, l)
  /\ UNCHANGED <<dbVars, lockVars, rowLock, now, req, snap, tx>>

RowFree(t) == rowLock[t] = NoProc

(* Bound on MaxRows, counting the requests that may still insert a row.    *)
Inserting == {"create", "join"} \cup InJoinBody
RowsLeft ==
  rowSeq + Cardinality({p \in Procs : pc[p] \in Inserting}) < MaxRows

(* Bound on Teams, counting the requests that may still create one.        *)
TeamsLeft ==
  Cardinality({p \in Procs : pc[p] = "create"})
    < Cardinality({t \in Teams : teams[t].state = "none"})

-----------------------------------------------------------------------------
(* Service.Add.                                                            *)

(* Mutant: the quota check lets one team too many pass.                    *)
StartAddPastQuota(p, u, f) ==
  /\ RowsLeft /\ TeamsLeft
  /\ f.max \in minTeamMembers .. MaxTeamMembers /\ f.expire > now
  /\ Cardinality(LedBy(u)) <= MaxCreateTeams
  /\ Start(p, "add", "create", u, NoTeam,
           [state |-> "active", leader |-> u, max |-> f.max,
            status |-> f.status, expire |-> f.expire, pw |-> Empty])

(* Mutant: no check of the team's size.                                    *)
StartAddAnySize(p, u, f) ==
  /\ RowsLeft /\ TeamsLeft
  /\ f.expire > now
  /\ Cardinality(LedBy(u)) < MaxCreateTeams
  /\ Start(p, "add", "create", u, NoTeam,
           [state |-> "active", leader |-> u, max |-> f.max,
            status |-> f.status, expire |-> f.expire, pw |-> Empty])

(* The checks on the parameters, then CountCreatedByUser.                  *)
StartAdd(p, u, f) ==
  /\ RowsLeft /\ TeamsLeft
  /\ f.max \in minTeamMembers .. MaxTeamMembers
  /\ f.status = "secret" => f.pw \in Passwords
  /\ f.expire > now
  /\ Cardinality(LedBy(u)) < MaxCreateTeams
  /\ Start(p, "add", "create", u, NoTeam,
           [state |-> "active", leader |-> u, max |-> f.max,
            status |-> f.status, expire |-> f.expire,
            pw |-> IF f.status = "secret" THEN f.pw ELSE Empty])

(* CreateTeamWithLeader: the team and its leader's row in one transaction. *)
CreateTeam(p, t) ==
  /\ At(p, "create")
  /\ teams[t].state = "none"
  /\ teams' = [teams EXCEPT ![t] = snap[p]]
  /\ members' = Inserted(req[p].user, t)
  /\ rowSeq' = rowSeq + 1
  /\ Return(p)
  /\ UNCHANGED <<lockVars, rowLock, now>>

-----------------------------------------------------------------------------
(* Service.Join.                                                           *)

(* GetByID and the checks on the row it returned: expiry, visibility and   *)
(* the password the client offers.                                         *)
StartJoin(p, u, t, pw) ==
  /\ RowsLeft
  /\ Active(t)
  /\ teams[t].expire >= now
  /\ teams[t].status # "private"
  /\ teams[t].status = "secret" => pw = teams[t].pw
  /\ Start(p, "join", "join", u, t, teams[t])

(* RunWithLock on the team's key takes the lock ...                        *)
JoinLock(p) ==
  /\ At(p, "join")
  /\ L!Acquire(p, req[p].team)
  /\ Goto(p, "quota")
  /\ UNCHANGED <<dbVars, rowLock, now, req, snap, tx>>

(* ... or finds it taken (ErrLockFailed) or fails: Join returns.           *)
JoinBusy(p) ==
  /\ At(p, "join")
  /\ L!Refused(p, req[p].team) \/ L!AcquireError(p, req[p].team)
  /\ Return(p)
  /\ UNCHANGED <<dbVars, rowLock, now>>

(* doJoin returns to RunWithLock, whose deferred unlock comes next.        *)
BodyReturns(p) ==
  /\ L!FnReturns(p)
  /\ Goto(p, "unlock")
  /\ UNCHANGED <<rowLock, now, req, snap, tx>>

(* CountUserMemberships: over all the teams of the user.                   *)
JoinQuota(p) ==
  /\ At(p, "quota")
  /\ \/ /\ Cardinality(RowsBy(req[p].user)) < MaxJoinTeams
        /\ Read(p, "has")
     \/ /\ Cardinality(RowsBy(req[p].user)) >= MaxJoinTeams
        /\ BodyReturns(p) /\ UNCHANGED dbVars

(* Mutant: HasJoined is not asked.                                         *)
JoinHasNotAsked(p) == At(p, "has") /\ Read(p, "full")

(* HasJoined.                                                              *)
JoinHas(p) ==
  /\ At(p, "has")
  /\ \/ /\ RowsIn(req[p].user, req[p].team) = {}
        /\ Read(p, "full")
     \/ /\ RowsIn(req[p].user, req[p].team) # {}
        /\ BodyReturns(p) /\ UNCHANGED dbVars

(* Mutant: n > MaxNum for n >= MaxNum.                                     *)
JoinFullOffByOne(p) ==
  /\ At(p, "full")
  /\ \/ /\ Cardinality(RowsOf(req[p].team)) <= snap[p].max
        /\ Read(p, "insert")
     \/ /\ Cardinality(RowsOf(req[p].team)) > snap[p].max
        /\ BodyReturns(p) /\ UNCHANGED dbVars

(* CountMembers, against the limit in the row read before the lock.        *)
JoinFull(p) ==
  /\ At(p, "full")
  /\ \/ /\ Cardinality(RowsOf(req[p].team)) < snap[p].max
        /\ Read(p, "insert")
     \/ /\ Cardinality(RowsOf(req[p].team)) >= snap[p].max
        /\ BodyReturns(p) /\ UNCHANGED dbVars

(* Mutant: no foreign key, the insert waits for nobody.                    *)
JoinInsertUnordered(p) ==
  /\ At(p, "insert")
  /\ members' = Inserted(req[p].user, req[p].team)
  /\ rowSeq' = rowSeq + 1
  /\ UNCHANGED teams
  /\ BodyReturns(p)

(* AddMember.  Neither the team's state nor the counts are read again.     *)
JoinInsert(p) ==
  /\ At(p, "insert")
  /\ RowFree(req[p].team)
  /\ members' = Inserted(req[p].user, req[p].team)
  /\ rowSeq' = rowSeq + 1
  /\ UNCHANGED teams
  /\ BodyReturns(p)

(* The deferred safeUnlock, which may fail without notice.                 *)
JoinUnlock(p) ==
  /\ At(p, "unlock")
  /\ L!Unlock(p) \/ L!UnlockError(p)
  /\ Return(p)
  /\ UNCHANGED <<dbVars, rowLock, now>>

-----------------------------------------------------------------------------
(* The transactions that lock the team row: QuitMember and                 *)
(* SoftDeleteTeamAndMembersByLeader.                                       *)

StartQuit(p, u, t) ==
  /\ teams[t].state # "none"
  /\ Start(p, "quit", "quit", u, t, NoRow)

StartDelete(p, u, t) ==
  /\ teams[t].state # "none"
  /\ Start(p, "delete", "delete", u, t, NoRow)

(* Mutant: the error is shadowed, the deferred function rolls nothing back.*)
RollbackForgotten(p) ==
  /\ Return(p)
  /\ UNCHANGED <<dbVars, lockVars, rowLock, now>>

(* The deferred Rollback: the row lock is released, no write appears.      *)
Rollback(p) ==
  /\ rowLock' = [rowLock EXCEPT ![req[p].team] = NoProc]
  /\ Return(p)
  /\ UNCHANGED <<dbVars, lockVars, now>>

(* Mutant: the query without ForUpdate.                                    *)
TakeRowUnlocked(p, l) ==
  /\ Active(req[p].team)
  /\ snap' = [snap EXCEPT ![p] = teams[req[p].team]]
  /\ Goto(p, l)
  /\ UNCHANGED <<dbVars, lockVars, rowLock, now, req, tx>>

(* lockActiveTeam waits for the row, then reads its latest version.        *)
TakeRow(p, l) ==
  /\ Active(req[p].team)
  /\ RowFree(req[p].team)
  /\ rowLock' = [rowLock EXCEPT ![req[p].team] = p]
  /\ snap' = [snap EXCEPT ![p] = teams[req[p].team]]
  /\ Goto(p, l)
  /\ UNCHANGED <<dbVars, lockVars, now, req, tx>>

QuitLock(p) == At(p, "quit") /\ TakeRow(p, "qhas")

(* SoftDeleteTeamAndMembersByLeader checks the leader under the lock.      *)
DeleteLock(p) ==
  /\ At(p, "delete")
  /\ teams[req[p].team].leader = req[p].user
  /\ TakeRow(p, "dropMembers")

DeleteRefused(p) ==
  /\ At(p, "delete")
  /\ Active(req[p].team) /\ RowFree(req[p].team)
  /\ teams[req[p].team].leader # req[p].user
  /\ Return(p)
  /\ UNCHANGED <<dbVars, lockVars, rowLock, now>>

(* The team has been disbanded: NotFound.                                  *)
LockMiss(p) ==
  /\ pc[p] \in {"quit", "delete"}
  /\ ~ Active(req[p].team)
  /\ Return(p)
  /\ UNCHANGED <<dbVars, lockVars, rowLock, now>>

QuitHas(p) ==
  /\ At(p, "qhas")
  /\ IF RowsIn(req[p].user, req[p].team) # {}
     THEN Read(p, "qcount")
     ELSE Rollback(p)

(* Mutant: a leader that quits is treated as a member.                     *)
QuitCountNoLeader(p) ==
  /\ At(p, "qcount")
  /\ Read(p, IF Cardinality(RowsOf(req[p].team)) <= 1 THEN "dropMembers"
             ELSE "qdrop")

(* n <= 1 disbands; else a leader hands over and a member just leaves.     *)
QuitCount(p) ==
  /\ At(p, "qcount")
  /\ Read(p, IF Cardinality(RowsOf(req[p].team)) <= 1 THEN "dropMembers"
             ELSE IF snap[p].leader = req[p].user THEN "qpick"
             ELSE "qdrop")

(* Mutant: ent.Desc for ent.Asc, the successor is the last to have joined. *)
QuitPickLatest(p) ==
  /\ At(p, "qpick")
  /\ LET u == req[p].user
         others == RowsOf(req[p].team) \ RowsIn(u, req[p].team)
         last == CHOOSE m \in others : \A o \in others : o.id <= m.id
     IN IF others = {}
        THEN Rollback(p)
        ELSE /\ tx' = [tx EXCEPT ![p].leader = last.user]
             /\ Goto(p, "qmove")
             /\ UNCHANGED <<dbVars, lockVars, rowLock, now, req, snap>>

(* The other member whose row has the lowest id; without one, SystemError. *)
QuitPick(p) ==
  /\ At(p, "qpick")
  /\ LET u == req[p].user
         t == req[p].team
     IN IF RowsOf(t) = RowsIn(u, t)
        THEN Rollback(p)
        ELSE /\ tx' = [tx EXCEPT ![p].leader = Successor(u, t)]
             /\ Goto(p, "qmove")
             /\ UNCHANGED <<dbVars, lockVars, rowLock, now, req, snap>>

(* UPDATE team SET user_id = next WHERE is_delete = 0 AND user_id = me.    *)
QuitMove(p) ==
  /\ At(p, "qmove")
  /\ IF Active(req[p].team) /\ teams[req[p].team].leader = req[p].user
     THEN Read(p, "qdrop")
     ELSE Rollback(p)

(* UPDATE user_team SET is_delete = 1 for the rows of this user.           *)
QuitDropSelf(p) ==
  /\ At(p, "qdrop")
  /\ IF RowsIn(req[p].user, req[p].team) # {}
     THEN /\ tx' = [tx EXCEPT ![p].gone = {req[p].user}]
          /\ Goto(p, "commit")
          /\ UNCHANGED <<dbVars, lockVars, rowLock, now, req, snap>>
     ELSE Rollback(p)

(* softDeleteTeamAndMembersTx: the members first, then the team row.       *)
DropMembers(p) ==
  /\ At(p, "dropMembers")
  /\ tx' = [tx EXCEPT ![p].gone = {m.user : m \in RowsOf(req[p].team)}]
  /\ Goto(p, "dropTeam")
  /\ UNCHANGED <<dbVars, lockVars, rowLock, now, req, snap>>

DropTeam(p) ==
  /\ At(p, "dropTeam")
  /\ IF Active(req[p].team)
     THEN /\ tx' = [tx EXCEPT ![p].disband = TRUE]
          /\ Goto(p, "commit")
          /\ UNCHANGED <<dbVars, lockVars, rowLock, now, req, snap>>
     ELSE Rollback(p)

(* The row of t with the transaction's writes applied.                     *)
Written(p, t) ==
  [teams[t] EXCEPT
     !.leader = IF tx[p].leader = Nobody THEN @ ELSE tx[p].leader,
     !.state  = IF tx[p].disband THEN "deleted" ELSE @]

Commit(p) ==
  /\ At(p, "commit")
  /\ LET t == req[p].team
     IN /\ teams' = [teams EXCEPT ![t] = Written(p, t)]
        /\ members' = {m \in members : m.team = t => m.user \notin tx[p].gone}
        /\ rowLock' = [rowLock EXCEPT ![t] = NoProc]
  /\ Return(p)
  /\ UNCHANGED <<rowSeq, lockVars, now>>

-----------------------------------------------------------------------------
(* Service.Update: no transaction, no lock.                                *)

Given(x, old) == IF x = Absent THEN old ELSE x

Edited(row, e) ==
  [row EXCEPT !.status = Given(e.status, @),
              !.pw     = Given(e.pw, @),
              !.expire = Given(e.expire, @)]

(* GetByID, the permission check, the edits and the password check.        *)
StartUpdate(p, u, t, e) ==
  /\ Active(t)
  /\ teams[t].leader = u \/ u \in Admins
  /\ PolicyOK(Edited(teams[t], e))
  /\ Start(p, "update", "exists", u, t, Edited(teams[t], e))

(* repo.Update first asks whether the team is still active ...             *)
UpdateExists(p) ==
  /\ At(p, "exists")
  /\ \/ Active(req[p].team) /\ Read(p, "write")
     \/ /\ ~ Active(req[p].team)
        /\ Return(p)
        /\ UNCHANGED <<dbVars, lockVars, rowLock, now>>

(* Mutant: the status is written only if it is not the zero value, public. *)
UpdateWriteNonZero(p) ==
  /\ At(p, "write")
  /\ RowFree(req[p].team)
  /\ LET old == teams[req[p].team]
     IN teams' = [teams EXCEPT ![req[p].team] =
                    [snap[p] EXCEPT !.state = old.state,
                       !.status = IF @ = "public" THEN old.status ELSE @]]
  /\ Return(p)
  /\ UNCHANGED <<members, rowSeq, lockVars, rowLock, now>>

(* Mutant: is_delete is written with the other columns.                    *)
UpdateWriteWholeRow(p) ==
  /\ At(p, "write")
  /\ RowFree(req[p].team)
  /\ teams' = [teams EXCEPT ![req[p].team] = snap[p]]
  /\ Return(p)
  /\ UNCHANGED <<members, rowSeq, lockVars, rowLock, now>>

(* ... then writes every column of its snapshot except is_delete, the      *)
(* leader included, by primary key alone.                                  *)
UpdateWrite(p) ==
  /\ At(p, "write")
  /\ RowFree(req[p].team)
  /\ teams' = [teams EXCEPT ![req[p].team] =
                 [snap[p] EXCEPT !.state = teams[req[p].team].state]]
  /\ Return(p)
  /\ UNCHANGED <<members, rowSeq, lockVars, rowLock, now>>

-----------------------------------------------------------------------------
(* Failures and time.                                                      *)

(* A statement outside a transaction and outside the lock fails.           *)
CallFails(p) ==
  /\ pc[p] \in Single \ {"join"}
  /\ Return(p)
  /\ UNCHANGED <<dbVars, lockVars, rowLock, now>>

(* A statement of doJoin fails.                                            *)
BodyFails(p) ==
  /\ pc[p] \in InJoinBody
  /\ BodyReturns(p)
  /\ UNCHANGED dbVars

(* A statement of a transaction or its commit fails, or the server dies.   *)
TxFails(p) == pc[p] \in InTx /\ Rollback(p)

(* The server dies inside RunWithLock.                                     *)
Crash(p) ==
  /\ L!Crash(p)
  /\ Return(p)
  /\ UNCHANGED <<dbVars, rowLock, now>>

(* Mutant: the join lock is taken without a TTL.                           *)
ExpireNever(t) ==
  /\ FALSE /\ L!Expire(t)
  /\ UNCHANGED <<dbVars, rowLock, now, local>>

Expire(t) ==
  /\ L!Expire(t)
  /\ UNCHANGED <<dbVars, rowLock, now, local>>

Tick ==
  /\ now < MaxTime
  /\ now' = now + 1
  /\ UNCHANGED <<dbVars, lockVars, rowLock, local>>

(* A client sends a request; a row that the request reads may refuse it.   *)
Begin(p, u) ==
  \/ \E f \in Forms : StartAdd(p, u, f)
  \/ \E t \in Teams :
       \/ \E pw \in Passwords \cup {Empty, Absent} : StartJoin(p, u, t, pw)
       \/ StartQuit(p, u, t)
       \/ StartDelete(p, u, t)
       \/ \E e \in Edits : StartUpdate(p, u, t, e)

(* The statements that wait for a row lock.                                *)
Blocking(p) ==
  \/ JoinInsert(p) \/ QuitLock(p) \/ DeleteLock(p) \/ DeleteRefused(p)
  \/ UpdateWrite(p)

Step(p) ==
  \/ \E t \in Teams : CreateTeam(p, t)
  \/ JoinLock(p) \/ JoinBusy(p) \/ JoinQuota(p) \/ JoinHas(p) \/ JoinFull(p)
  \/ JoinUnlock(p)
  \/ LockMiss(p) \/ QuitHas(p) \/ QuitCount(p) \/ QuitPick(p) \/ QuitMove(p)
  \/ QuitDropSelf(p) \/ DropMembers(p) \/ DropTeam(p) \/ Commit(p)
  \/ UpdateExists(p)
  \/ Blocking(p)

Failure(p) == CallFails(p) \/ BodyFails(p) \/ TxFails(p) \/ Crash(p)

Next ==
  \/ \E p \in Procs :
       \/ \E u \in Users : Begin(p, u)
       \/ Step(p)
       \/ Failure(p)
  \/ \E t \in Teams : Expire(t)
  \/ Tick

Spec == Init /\ [][Next]_vars

(* Postgres and Redis answer, row locks are granted in turn, TTLs run out. *)
FairSpec ==
  /\ Spec
  /\ \A p \in Procs : WF_vars(Step(p)) /\ SF_vars(Blocking(p))
  /\ \A t \in Teams : WF_vars(Expire(t))

-----------------------------------------------------------------------------
(* The tables only move as TeamRoster allows: quotas apart, the requests   *)
(* together look like one atomic operation after another, as long as the   *)
(* join lock outlasts the joins (service.go:16, TX_LOCK.md section 1).     *)
RosterRefined == R!RosterSpec

(* The leader of an active team has a row in it: handovers, quits,         *)
(* disbands and joins never make a departed user leader (TX_LOCK.md:22).   *)
LeaderIsMember ==
  \A t \in Teams : Active(t) => RowsIn(teams[t].leader, t) # {}

(* Leadership moves to a member, or back to somebody who led the team when *)
(* an update that writes now read it: an update takes no row lock and      *)
(* writes the leader of its snapshot (team_repo.go:103).  TX_LOCK.md:22    *)
(* promises the first case only.                                           *)
LeaderMoves ==
  [][\A t \in Teams :
       Active(t) /\ teams'[t].leader # teams[t].leader =>
         \/ \E m \in members' : m.team = t /\ m.user = teams'[t].leader
         \/ \E p \in Procs :
              /\ pc[p] = "write" /\ pc'[p] = "idle" /\ req[p].team = t
              /\ snap[p].leader = teams'[t].leader]_vars

(* A secret team always has a password, though two updates that change     *)
(* status and password check and write without a lock (service.go:235).    *)
SecretHasPassword ==
  \A t \in Teams : teams[t].state # "none" => PolicyOK(teams[t])

(* The step that disbands a team leaves none of its rows behind: no join   *)
(* slips in between the two statements that delete the members and the     *)
(* team (softDeleteTeamAndMembersTx, team_repo.go:206).                    *)
DisbandRemovesAll ==
  [][\A t \in Teams :
       Active(t) /\ teams'[t].state = "deleted"
         => \A m \in members' : m.team # t]_vars

(* A disbanded team never comes back, not even by an update that read it   *)
(* before (team_repo.go:103 does not write is_delete).                     *)
DisbandIsFinal ==
  [][\A t \in Teams :
       teams[t].state = "deleted" => teams'[t].state = "deleted"]_vars

(* FOR UPDATE is held by a transaction in progress on that team and by no  *)
(* other: every exit of QuitMember and SoftDeleteTeamAndMembersByLeader,   *)
(* by error or refusal, releases it (the named err, team_repo.go:408).     *)
RowLockOnlyInTx ==
  \A t \in Teams, p \in Procs :
    rowLock[t] = p <=> pc[p] \in InTx /\ req[p].team = t

(* A user that sends one request at a time is never in more teams than the *)
(* two quotas together allow: joined ones first, then created ones.  Add   *)
(* counts no memberships (service.go:72), so the limit for joined teams    *)
(* alone, "created ones included" (model.go:12), would not hold.           *)
QuotaBound ==
  \A u \in Users :
    Cardinality(RowsBy(u)) <= MaxCreateTeams + MaxJoinTeams

(* Every request ends: nobody waits for ever for a row lock.               *)
RequestsFinish == \A p \in Procs : []<>(pc[p] = "idle")

(* A team does not stay closed to newcomers: its join lock comes free.     *)
JoinLockComesFree == \A t \in Teams : []<>(held[t] = NoProc)
=============================================================================
