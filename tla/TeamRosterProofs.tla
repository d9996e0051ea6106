-------------------------- MODULE TeamRosterProofs --------------------------
(***************************************************************************)
(* Theorems about the transactions of TeamService, for every set of users, *)
(* teams and requests, up to the refinement of TeamRoster.                 *)
(***************************************************************************)
EXTENDS TeamServiceProofs

-----------------------------------------------------------------------------
(* What one step of request p does to the local variables.                 *)

LocalsKept(p) ==
  \A q \in Procs \ {p} :
    pc'[q] = pc[q] /\ req'[q] = req[q] /\ snap'[q] = snap[q] /\ tx'[q] = tx[q]

LEMMA ReturnLocals ==
  ASSUME TypeOK, NEW p \in Procs, Return(p)
  PROVE  LocalsKept(p) /\ pc'[p] = "idle" /\ tx'[p] = NoTx
BY DEF TypeOK, Return, Goto, LocalsKept

LEMMA GotoLocals ==
  ASSUME TypeOK, NEW p \in Procs, NEW l, Goto(p, l), UNCHANGED <<req, snap, tx>>
  PROVE  /\ LocalsKept(p) /\ pc'[p] = l
         /\ req'[p] = req[p] /\ snap'[p] = snap[p] /\ tx'[p] = tx[p]
BY DEF TypeOK, Goto, LocalsKept

LEMMA StartLocals ==
  ASSUME TypeOK, NEW p \in Procs, NEW h, NEW l, NEW u, NEW t, NEW row,
         Start(p, h, l, u, t, row)
  PROVE  /\ LocalsKept(p) /\ pc[p] = "idle" /\ pc'[p] = l /\ h \in Handlers
         /\ req'[p] = [user |-> u, team |-> t] /\ snap'[p] = row
         /\ UNCHANGED tx /\ UNCHANGED rowLock /\ UNCHANGED dbVars
BY DEF TypeOK, Start, Goto, LocalsKept, At

LEMMA TakeRowLocals ==
  ASSUME TypeOK, NEW p \in Procs, NEW l, TakeRow(p, l)
  PROVE  /\ LocalsKept(p) /\ pc'[p] = l /\ req'[p] = req[p]
         /\ snap'[p] = teams[req[p].team] /\ tx'[p] = tx[p]
         /\ rowLock' = [rowLock EXCEPT ![req[p].team] = p]
         /\ RowFree(req[p].team) /\ Active(req[p].team) /\ UNCHANGED dbVars
BY DEF TypeOK, TakeRow, Goto, LocalsKept

LEMMA WritesLocals ==
  ASSUME TypeOK, NEW p \in Procs, NEW l, NEW w, tx' = [tx EXCEPT ![p] = w], Goto(p, l),
         UNCHANGED <<req, snap>>
  PROVE  /\ LocalsKept(p) /\ pc'[p] = l /\ tx'[p] = w
         /\ req'[p] = req[p] /\ snap'[p] = snap[p]
BY DEF TypeOK, Goto, LocalsKept

(* The four kinds of steps: outside transactions, taking the row lock,     *)
(* inside a transaction, and ending it.                                    *)
Outside(p) ==
  /\ LocalsKept(p) /\ UNCHANGED rowLock
  /\ pc[p] \notin InTx /\ pc'[p] \notin InTx
  /\ tx'[p] \in {tx[p], NoTx}

Locks(p) ==
  /\ LocalsKept(p) /\ UNCHANGED dbVars
  /\ pc[p] \notin InTx /\ pc[p] \notin {"idle", "create"}
  /\ RowFree(req[p].team) /\ Active(req[p].team)
  /\ rowLock' = [rowLock EXCEPT ![req[p].team] = p]
  /\ req'[p] = req[p] /\ snap'[p] = teams[req[p].team] /\ tx'[p] = tx[p]
  /\ \/ pc'[p] = "qhas"
     \/ pc'[p] = "dropMembers" /\ teams[req[p].team].leader = req[p].user

Inside(p) ==
  /\ LocalsKept(p) /\ UNCHANGED rowLock /\ UNCHANGED dbVars
  /\ pc[p] \in InTx /\ pc'[p] \in InTx
  /\ req'[p] = req[p] /\ snap'[p] = snap[p]
  /\ \/ QuitHas(p) \/ QuitCount(p) \/ QuitPick(p) \/ QuitMove(p) \/ QuitDropSelf(p)
     \/ DropMembers(p) \/ DropTeam(p)

Ends(p) ==
  /\ LocalsKept(p) /\ pc[p] \in InTx /\ pc'[p] = "idle" /\ tx'[p] = NoTx
  /\ rowLock' = [rowLock EXCEPT ![req[p].team] = NoProc]
  /\ Commit(p) \/ UNCHANGED dbVars

LEMMA BeginKind ==
  ASSUME TypeOK, NEW p \in Procs, NEW u \in Users, Begin(p, u)
  PROVE  Outside(p) /\ UNCHANGED dbVars
<1>1. ASSUME NEW h, NEW l \in Single, NEW v, NEW t, NEW row, Start(p, h, l, v, t, row)
      PROVE  Outside(p) /\ UNCHANGED dbVars
  BY <1>1, StartLocals DEF Outside, Single, InTx
<1> QED
  BY <1>1 DEF Begin, StartAdd, StartJoin, StartQuit, StartDelete, StartUpdate, Single

LEMMA StepKind ==
  ASSUME TypeInv, LockInv, NEW p \in Procs, Step(p) \/ Failure(p)
  PROVE  Outside(p) \/ Locks(p) \/ Inside(p) \/ Ends(p)
<1> USE DEF At, TypeInv
<1>1. ASSUME pc[p] \notin InTx, UNCHANGED rowLock,
             \/ Return(p)
             \/ \E l \in Labels \ InTx : Goto(p, l) /\ UNCHANGED <<req, snap, tx>>
      PROVE  Outside(p)
  BY <1>1, ReturnLocals, GotoLocals DEF Outside, InTx
<1>2. CASE \/ JoinLock(p) \/ JoinBusy(p) \/ JoinQuota(p) \/ JoinHas(p)
           \/ JoinFull(p) \/ JoinUnlock(p) \/ JoinInsert(p) \/ BodyFails(p)
  BY <1>1, <1>2
     DEF JoinLock, JoinBusy, JoinQuota, JoinHas, JoinFull, JoinUnlock, JoinInsert,
         BodyFails, BodyReturns, Read, InTx, InJoinBody, Labels
<1>3. CASE \/ DeleteRefused(p) \/ LockMiss(p) \/ UpdateExists(p) \/ UpdateWrite(p)
           \/ CallFails(p) \/ \E t \in Teams : CreateTeam(p, t)
  BY <1>1, <1>3
     DEF DeleteRefused, LockMiss, UpdateExists, UpdateWrite, CallFails, CreateTeam, Read,
         InTx, Single, Labels
<1>4. CASE Crash(p)
  <2>1. pc[p] \in LockLabels
    BY <1>4 DEF Crash, L!Crash, LockInv, TypeOK, L!LockTypeOK, L!Phases, LockLabels
  <2> QED
    BY <1>1, <1>4, <2>1 DEF Crash, InTx, LockLabels, InJoinBody
<1>5. CASE QuitLock(p) \/ DeleteLock(p)
  BY <1>5, TakeRowLocals DEF QuitLock, DeleteLock, Locks, InTx
<1>6. ASSUME pc[p] \in InTx, Rollback(p) PROVE Ends(p)
  BY <1>6, ReturnLocals DEF Rollback, Ends
<1>7. CASE Commit(p)
  BY <1>7, ReturnLocals DEF Commit, Ends, InTx
<1> DEFINE InsideStep ==
      \/ QuitHas(p) \/ QuitCount(p) \/ QuitPick(p) \/ QuitMove(p) \/ QuitDropSelf(p)
      \/ DropMembers(p) \/ DropTeam(p)
<1>8. CASE InsideStep
  <2>1. pc[p] \in InTx
    BY <1>8 DEF QuitHas, QuitCount, QuitPick, QuitMove, QuitDropSelf, DropMembers,
                DropTeam, InTx
  <2>2. \/ Rollback(p)
        \/ \E l \in InTx : Read(p, l)
        \/ \E l \in InTx : \E w : /\ Goto(p, l) /\ tx' = [tx EXCEPT ![p] = w]
                                 /\ UNCHANGED <<dbVars, rowLock, req, snap>>
    BY <1>8 DEF QuitHas, QuitCount, QuitPick, QuitMove, QuitDropSelf, DropMembers,
                DropTeam, InTx
  <2>3. ASSUME NEW l \in InTx, Read(p, l) PROVE Inside(p)
    BY <1>8, <2>1, <2>3, GotoLocals DEF Read, Inside
  <2>4. ASSUME NEW l \in InTx, NEW w, Goto(p, l), tx' = [tx EXCEPT ![p] = w],
               UNCHANGED <<dbVars, rowLock, req, snap>>
        PROVE  Inside(p)
    BY <1>8, <2>1, <2>4, WritesLocals DEF Inside
  <2> QED
    BY <1>6, <2>1, <2>2, <2>3, <2>4
<1>9. CASE TxFails(p)
  BY <1>6, <1>9 DEF TxFails
<1> QED
  BY <1>2, <1>3, <1>4, <1>5, <1>7, <1>8, <1>9 DEF Step, Blocking, Failure

(* The four statements that write the tables.                              *)
LEMMA Writers ==
  ASSUME NEW p \in Procs, Step(p) \/ Failure(p)
  PROVE  \/ UNCHANGED dbVars
         \/ \E t \in Teams : CreateTeam(p, t)
         \/ JoinInsert(p) \/ UpdateWrite(p) \/ Commit(p)
BY DEF Step, Blocking, Failure, JoinLock, JoinBusy, JoinQuota, JoinHas, JoinFull,
       JoinUnlock, BodyFails, Crash, QuitLock, DeleteLock, DeleteRefused, LockMiss,
       QuitHas, QuitCount, QuitPick, QuitMove, QuitDropSelf, DropMembers, DropTeam,
       TxFails, UpdateExists, CallFails, TakeRow, Rollback, Read

-----------------------------------------------------------------------------
(* FOR UPDATE is held by transactions only, and freezes the team.          *)

LEMMA RowLockStep ==
  ASSUME TypeInv, RowLockOnlyInTx, NEW p \in Procs,
         Outside(p) \/ Locks(p) \/ Inside(p) \/ Ends(p)
  PROVE  RowLockOnlyInTx'
<1> USE ServiceAssumption DEF TypeInv, TypeOK, RowLockOnlyInTx, LocalsKept
<1>1. CASE Outside(p)
  BY <1>1 DEF Outside
<1>2. CASE Locks(p)
  <2>1. pc'[p] \in InTx /\ req[p].team \in Teams
    BY <1>2 DEF Locks, InTx, RequestInv
  <2>2. \A q \in Procs : pc[q] \in InTx => req[q].team # req[p].team
    BY <1>2, <2>1 DEF Locks, RowFree
  <2> QED
    BY <1>2, <2>1, <2>2 DEF Locks
<1>3. CASE Inside(p)
  BY <1>3 DEF Inside
<1>4. CASE Ends(p)
  <2>1. pc'[p] \notin InTx /\ req[p].team \in Teams
    BY <1>4 DEF Ends, InTx, RequestInv
  <2>2. rowLock[req[p].team] = p
    BY <1>4, <2>1 DEF Ends
  <2> QED
    BY <1>4, <2>1, <2>2 DEF Ends
<1> QED
  BY <1>1, <1>2, <1>3, <1>4

(* No other request writes a team whose row a transaction has locked, nor  *)
(* its members.                                                            *)
LEMMA Frozen ==
  ASSUME TypeInv, RowLockOnlyInTx, NEW p \in Procs, Step(p) \/ Failure(p),
         NEW q \in Procs \ {p}, pc[q] \in InTx, NEW t, t = req[q].team, Active(t)
  PROVE  teams'[t] = teams[t] /\ RowsOf(t)' = RowsOf(t)
<1>1. t \in Teams /\ rowLock[t] = q
  BY DEF TypeInv, RequestInv, RowLockOnlyInTx, InTx
<1> USE DEF At, TypeInv, TypeOK, DataTypeOK
<1>2. CASE UNCHANGED dbVars
  BY <1>2 DEF dbVars, RowsOf
<1>3. ASSUME NEW s \in Teams, CreateTeam(p, s)
      PROVE  teams'[t] = teams[t] /\ RowsOf(t)' = RowsOf(t)
  <2>1. s # t
    BY <1>3 DEF CreateTeam, Active
  <2> QED
    BY <1>1, <1>3, <2>1 DEF CreateTeam, RowsOf, Inserted
<1>4. CASE JoinInsert(p)
  <2>1. req[p].team # t
    BY <1>1, <1>4, ServiceAssumption DEF JoinInsert, RowFree
  <2> QED
    BY <1>4, <2>1 DEF JoinInsert, RowsOf, Inserted
<1>5. CASE UpdateWrite(p)
  <2>1. req[p].team # t
    BY <1>1, <1>5, ServiceAssumption DEF UpdateWrite, RowFree
  <2> QED
    BY <1>1, <1>5, <2>1 DEF UpdateWrite, RowsOf
<1>6. CASE Commit(p)
  <2>1. req[p].team # t
    BY <1>1, <1>6 DEF Commit, RowLockOnlyInTx, InTx
  <2> QED
    BY <1>1, <1>6, <2>1 DEF Commit, RowsOf
<1>7. \/ UNCHANGED dbVars
      \/ \E s \in Teams : CreateTeam(p, s)
      \/ JoinInsert(p) \/ UpdateWrite(p) \/ Commit(p)
  BY Writers
<1> QED
  BY <1>2, <1>3, <1>4, <1>5, <1>6, <1>7

-----------------------------------------------------------------------------
(* What a transaction knows stays true.                                    *)

LEMMA PlanKept ==
  ASSUME NEW q \in Procs, NEW u, NEW t, u = req[q].user, t = req[q].team,
         req'[q] = req[q], snap'[q] = snap[q],
         teams'[t] = teams[t], RowsOf(t)' = RowsOf(t)
  PROVE  /\ RowsIn(u, t)' = RowsIn(u, t) /\ Successor(u, t)' = Successor(u, t)
         /\ Active(t)' = Active(t)
         /\ Leaving(q)' = Leaving(q) /\ HandingOver(q)' = HandingOver(q)
         /\ Disbanding(q)' = Disbanding(q)
<1>1. RowsIn(u, t)' = RowsIn(u, t)
  <2>1. \A v : RowsIn(v, t) = {m \in RowsOf(t) : m.user = v}
    BY DEF RowsIn, RowsOf
  <2>2. \A v : RowsIn(v, t)' = {m \in RowsOf(t)' : m.user = v}
    BY DEF RowsIn, RowsOf
  <2> QED
    BY <2>1, <2>2
<1>2. Successor(u, t)' = Successor(u, t)
  BY <1>1 DEF Successor, Earliest
<1> QED
  BY <1>1, <1>2 DEF Active, Leaving, HandingOver, Disbanding

LEMMA KnowsKept ==
  ASSUME NEW q \in Procs, NEW t, t = req[q].team, req'[q] = req[q], snap'[q] = snap[q],
         tx'[q] = tx[q], pc'[q] = pc[q],
         teams'[t] = teams[t], RowsOf(t)' = RowsOf(t), TxKnows(q)
  PROVE  TxKnows(q)'
<1>0. PICK u : u = req[q].user
  OBVIOUS
<1>1. /\ RowsIn(u, t)' = RowsIn(u, t) /\ Successor(u, t)' = Successor(u, t)
      /\ Active(t)' = Active(t)
      /\ Leaving(q)' = Leaving(q) /\ HandingOver(q)' = HandingOver(q)
      /\ Disbanding(q)' = Disbanding(q)
  BY <1>0, PlanKept
<1> QED
  BY <1>0, <1>1 DEF TxKnows, TxIs

(* The writes of a transaction are added one field at a time.              *)
LEMMA AddWrites ==
  ASSUME TypeOK, NEW p \in Procs, NEW x
  PROVE  /\ tx' = [tx EXCEPT ![p].gone = x]
              => /\ tx'[p].gone = x /\ tx'[p].leader = tx[p].leader
                 /\ tx'[p].disband = tx[p].disband
         /\ tx' = [tx EXCEPT ![p].leader = x]
              => /\ tx'[p].gone = tx[p].gone /\ tx'[p].leader = x
                 /\ tx'[p].disband = tx[p].disband
         /\ tx' = [tx EXCEPT ![p].disband = x]
              => /\ tx'[p].gone = tx[p].gone /\ tx'[p].leader = tx[p].leader
                 /\ tx'[p].disband = x
<1>1. tx[p] \in Writes /\ p \in DOMAIN tx
  BY DEF TypeOK
<1> QED
  BY <1>1 DEF Writes

(* Each statement of a transaction finds out what the next one relies on.  *)
LEMMA InsideKnows ==
  ASSUME TypeInv, NEW p \in Procs, TxKnows(p), Inside(p)
  PROVE  TxKnows(p)'
<1>0. PICK u, t : u = req[p].user /\ t = req[p].team
  OBVIOUS
<1>1. /\ UNCHANGED <<teams, members>> /\ req'[p] = req[p] /\ snap'[p] = snap[p]
      /\ pc[p] \in InTx /\ pc'[p] \in InTx
  BY DEF Inside, dbVars
<1>2. RowsOf(t)' = RowsOf(t)
  BY <1>1 DEF RowsOf
<1>3. /\ RowsIn(u, t)' = RowsIn(u, t) /\ Successor(u, t)' = Successor(u, t)
      /\ Active(t)' = Active(t)
      /\ Leaving(p)' = Leaving(p) /\ HandingOver(p)' = HandingOver(p)
      /\ Disbanding(p)' = Disbanding(p)
  BY <1>0, <1>1, <1>2, PlanKept
<1> USE DEF At, TypeInv, TypeOK, Goto
<1>4. CASE QuitHas(p)
  <2>1. pc[p] = "qhas" /\ RowsIn(u, t) # {} /\ pc'[p] = "qcount" /\ tx'[p] = tx[p]
    BY <1>0, <1>1, <1>4 DEF QuitHas, Read, Rollback, Return, InTx
  <2> QED
    BY <1>0, <1>1, <1>2, <1>3, <2>1 DEF TxKnows, TxIs
<1>5. CASE QuitCount(p)
  <2>1. /\ pc[p] = "qcount" /\ tx'[p] = tx[p]
        /\ \/ pc'[p] = "dropMembers" /\ Cardinality(RowsOf(t)) <= 1
           \/ pc'[p] = "qpick" /\ snap[p].leader = u
           \/ /\ pc'[p] = "qdrop" /\ snap[p].leader # u
              /\ ~ (Cardinality(RowsOf(t)) <= 1)
    BY <1>0, <1>1, <1>5 DEF QuitCount, Read
  <2> QED
    BY <1>0, <1>1, <1>2, <1>3, <2>1 DEF TxKnows, TxIs, Leaving, Disbanding
<1>6. CASE QuitPick(p)
  <2>1. /\ pc[p] = "qpick" /\ pc'[p] = "qmove" /\ RowsOf(t) # RowsIn(u, t)
        /\ tx' = [tx EXCEPT ![p].leader = Successor(u, t)]
    BY <1>0, <1>1, <1>6 DEF QuitPick, Rollback, Return, InTx
  <2>2. TxIs(p, {}, Nobody, FALSE) /\ HandingOver(p)
    BY <1>0, <2>1 DEF TxKnows, HandingOver
  <2> QED
    BY <1>0, <1>1, <1>2, <1>3, <2>1, <2>2, AddWrites DEF TxKnows, TxIs
<1>7. CASE QuitMove(p)
  <2>1. pc[p] = "qmove" /\ pc'[p] = "qdrop" /\ tx'[p] = tx[p]
    BY <1>1, <1>7 DEF QuitMove, Read, Rollback, Return, InTx
  <2> QED
    BY <1>0, <1>1, <1>2, <1>3, <2>1 DEF TxKnows, TxIs
<1>8. CASE QuitDropSelf(p)
  <2>1. /\ pc[p] = "qdrop" /\ pc'[p] = "commit"
        /\ tx' = [tx EXCEPT ![p].gone = {u}]
    BY <1>0, <1>1, <1>8 DEF QuitDropSelf, Rollback, Return, InTx
  <2>2. \/ Leaving(p) /\ TxIs(p, {}, Nobody, FALSE)
        \/ HandingOver(p) /\ TxIs(p, {}, Successor(u, t), FALSE)
    BY <1>0, <2>1 DEF TxKnows
  <2> QED
    BY <1>0, <1>1, <1>2, <1>3, <2>1, <2>2, AddWrites DEF TxKnows, TxIs
<1>9. CASE DropMembers(p)
  <2> DEFINE all == {m.user : m \in RowsOf(t)}
  <2>1. /\ pc[p] = "dropMembers" /\ pc'[p] = "dropTeam"
        /\ tx' = [tx EXCEPT ![p].gone = all]
    BY <1>0, <1>1, <1>9 DEF DropMembers
  <2>2. TxIs(p, {}, Nobody, FALSE) /\ Disbanding(p)
    BY <2>1 DEF TxKnows
  <2> QED
    BY <1>0, <1>1, <1>2, <1>3, <2>1, <2>2, AddWrites DEF TxKnows, TxIs
<1>10. CASE DropTeam(p)
  <2> DEFINE all == {m.user : m \in RowsOf(t)}
  <2>1. /\ pc[p] = "dropTeam" /\ pc'[p] = "commit"
        /\ tx' = [tx EXCEPT ![p].disband = TRUE]
    BY <1>0, <1>1, <1>10 DEF DropTeam, Rollback, Return, InTx
  <2>2. TxIs(p, all, Nobody, FALSE) /\ Disbanding(p)
    BY <1>0, <2>1 DEF TxKnows
  <2> QED
    BY <1>0, <1>1, <1>2, <1>3, <2>1, <2>2, AddWrites DEF TxKnows, TxIs
<1> QED
  BY <1>4, <1>5, <1>6, <1>7, <1>8, <1>9, <1>10 DEF Inside

(* Whoever takes the row lock knows the team's latest version.             *)
LEMMA LocksKnows ==
  ASSUME TypeInv, NEW p \in Procs, tx[p] = NoTx, Locks(p)
  PROVE  TxKnows(p)'
<1>0. PICK u, t : u = req[p].user /\ t = req[p].team
  OBVIOUS
<1>1. /\ UNCHANGED <<teams, members>> /\ req'[p] = req[p] /\ snap'[p] = teams[t]
      /\ Active(t) /\ tx'[p] = NoTx
      /\ \/ pc'[p] = "qhas"
         \/ pc'[p] = "dropMembers" /\ teams[t].leader = u
  BY <1>0 DEF Locks, dbVars
<1> QED
  BY <1>0, <1>1 DEF TxKnows, TxIs, NoTx, Active, Disbanding

TxLocals(q) == IF pc[q] \in InTx THEN TxKnows(q) ELSE tx[q] = NoTx

LEMMA TxSafetyIs ==
  /\ TxSafety <=> RowLockOnlyInTx /\ \A q \in Procs : TxLocals(q)
  /\ TxSafety' <=> RowLockOnlyInTx' /\ \A q \in Procs : TxLocals(q)'
BY DEF TxSafety, TxLocals

LEMMA TxQuiet ==
  ASSUME NEW q \in Procs, TxLocals(q), UNCHANGED <<teams, members>>,
         pc'[q] = pc[q], req'[q] = req[q], snap'[q] = snap[q], tx'[q] = tx[q]
  PROVE  TxLocals(q)'
<1>0. PICK t : t = req[q].team
  OBVIOUS
<1>1. teams'[t] = teams[t] /\ RowsOf(t)' = RowsOf(t)
  BY DEF RowsOf
<1> QED
  BY <1>0, <1>1, KnowsKept DEF TxLocals

LEMMA TxBegin ==
  ASSUME TypeInv, TxSafety, NEW p \in Procs, NEW u \in Users, Begin(p, u)
  PROVE  TxSafety'
<1>1. Outside(p) /\ UNCHANGED dbVars
  BY BeginKind DEF TypeInv
<1>2. RowLockOnlyInTx'
  BY <1>1, RowLockStep DEF TxSafety
<1>3. ASSUME NEW q \in Procs PROVE TxLocals(q)'
  <2>1. CASE q = p
    BY <1>1, <2>1, TxSafetyIs DEF Outside, TxLocals
  <2>2. CASE q # p
    BY <1>1, <2>2, TxSafetyIs, TxQuiet DEF Outside, LocalsKept, dbVars
  <2> QED
    BY <2>1, <2>2
<1> QED
  BY <1>2, <1>3, TxSafetyIs

LEMMA TxStep ==
  ASSUME TypeInv, LockInv, TxSafety, NEW p \in Procs, Step(p) \/ Failure(p)
  PROVE  TxSafety'
<1>1. Outside(p) \/ Locks(p) \/ Inside(p) \/ Ends(p)
  BY StepKind
<1>2. RowLockOnlyInTx'
  BY <1>1, RowLockStep DEF TxSafety
<1>3. TxLocals(p)'
  <2>1. TxLocals(p)
    BY TxSafetyIs
  <2>2. CASE Outside(p)
    BY <2>1, <2>2 DEF Outside, TxLocals
  <2>3. CASE Locks(p)
    BY <2>1, <2>3, LocksKnows DEF Locks, TxLocals, InTx
  <2>4. CASE Inside(p)
    BY <2>1, <2>4, InsideKnows DEF Inside, TxLocals
  <2>5. CASE Ends(p)
    BY <2>5 DEF Ends, TxLocals, InTx
  <2> QED
    BY <1>1, <2>2, <2>3, <2>4, <2>5
<1>4. ASSUME NEW q \in Procs \ {p} PROVE TxLocals(q)'
  <2>1. /\ TxLocals(q)
        /\ pc'[q] = pc[q] /\ req'[q] = req[q] /\ snap'[q] = snap[q] /\ tx'[q] = tx[q]
    BY <1>1, TxSafetyIs DEF Outside, Locks, Inside, Ends, LocalsKept
  <2>2. CASE pc[q] \in InTx
    <3>0. PICK t : t = req[q].team
      OBVIOUS
    <3>1. TxKnows(q) /\ Active(t)
      BY <2>1, <2>2, <3>0 DEF TxLocals, TxKnows
    <3>2. teams'[t] = teams[t] /\ RowsOf(t)' = RowsOf(t)
      BY <2>2, <3>0, <3>1, Frozen DEF TxSafety
    <3>3. TxKnows(q)'
      BY <2>1, <3>0, <3>1, <3>2, KnowsKept
    <3> QED
      BY <2>1, <2>2, <3>3 DEF TxLocals
  <2>3. CASE pc[q] \notin InTx
    BY <2>1, <2>3 DEF TxLocals
  <2> QED
    BY <2>2, <2>3
<1> QED
  BY <1>2, <1>3, <1>4, TxSafetyIs

LEMMA TxSafetyStep ==
  ASSUME TypeInv, LockInv, TxSafety, [Next]_vars
  PROVE  TxSafety'
<1>1. CASE Tick \/ (\E t \in Teams : Expire(t)) \/ UNCHANGED vars
  <2>1. UNCHANGED <<teams, members, rowLock, pc, req, snap, tx>>
    BY <1>1 DEF Tick, Expire, local, vars, dbVars
  <2>2. \A q \in Procs : TxLocals(q)'
    BY <2>1, TxSafetyIs, TxQuiet
  <2>3. RowLockOnlyInTx'
    BY <2>1 DEF TxSafety, RowLockOnlyInTx
  <2> QED
    BY <2>2, <2>3, TxSafetyIs
<1> QED
  BY <1>1, TxBegin, TxStep DEF Next

LEMMA TxSafetyInit == Init => TxSafety
BY ServiceAssumption DEF Init, TxSafety, RowLockOnlyInTx, InTx

(* The part of the invariant that needs no assumption on the lock's TTL.   *)
Base == TypeInv /\ LockInv /\ TxSafety

LEMMA BaseInit == Init => Base
BY InitTypes, JoinInvariantInit, TxSafetyInit DEF Base, JoinInvariant

LEMMA BaseStep == Base /\ [Next]_vars => Base'
BY TypeInvStep, LockInvStep, TxSafetyStep DEF Base

(* FOR UPDATE is held exactly by the transactions in progress on the team, *)
(* and what each of them has read stays true until it commits, whatever    *)
(* requests run beside it and even if join locks lapse                     *)
(* (team_repo.go:199-229, 405-482).                                        *)
THEOREM TransactionsAreSafe == Spec => []TxSafety
<1>1. Base => TxSafety
  BY DEF Base
<1> QED
  BY <1>1, BaseInit, BaseStep, PTL DEF Spec

(* No exit of QuitMember and SoftDeleteTeamAndMembersByLeader forgets the  *)
(* row lock, and no other request holds it (team_repo.go:408).             *)
THEOREM RowLocksAreReleased == Spec => []RowLockOnlyInTx
<1>1. TxSafety => RowLockOnlyInTx
  BY DEF TxSafety
<1> QED
  BY <1>1, TransactionsAreSafe, PTL

-----------------------------------------------------------------------------
(* Every row that is written has a leader and keeps the password policy.   *)

PolicyAt(q) ==
  /\ pc[q] \in {"create", "exists", "write"} => GoodRow(snap[q])
  /\ pc[q] = "create" => snap[q].leader = req[q].user

GoodTeam(t) == teams[t].state # "none" => GoodRow(teams[t])

LEMMA PolicyIs ==
  /\ PolicyInv <=> (\A t \in Teams : GoodTeam(t)) /\ \A q \in Procs : PolicyAt(q)
  /\ PolicyInv' <=> (\A t \in Teams : GoodTeam(t)') /\ \A q \in Procs : PolicyAt(q)'
BY DEF PolicyInv, PolicyAt, GoodTeam

LEMMA PolicyBegin ==
  ASSUME TypeInv, PolicyInv, NEW p \in Procs, NEW u \in Users, Begin(p, u)
  PROVE  PolicyInv'
<1> USE DEF TypeInv
<1>1. Outside(p) /\ UNCHANGED dbVars
  BY BeginKind
<1>2. ASSUME NEW t \in Teams PROVE GoodTeam(t)'
  BY <1>1, PolicyIs DEF GoodTeam, dbVars
<1>3. ASSUME NEW q \in Procs \ {p} PROVE PolicyAt(q)'
  BY <1>1, PolicyIs DEF PolicyAt, Outside, LocalsKept
<1>4. PolicyAt(p)'
  <2>1. ASSUME NEW h, NEW l, NEW t, NEW row, Start(p, h, l, u, t, row),
               l \in {"create", "exists", "write"} => GoodRow(row),
               l = "create" => row.leader = u
        PROVE  PolicyAt(p)'
    <3>1. pc'[p] = l /\ snap'[p] = row /\ req'[p] = [user |-> u, team |-> t]
      BY <2>1, StartLocals
    <3>2. req'[p].user = u
      BY <3>1
    <3> QED
      BY <2>1, <3>1, <3>2 DEF PolicyAt
  <2>2. ASSUME NEW f \in Forms, StartAdd(p, u, f) PROVE PolicyAt(p)'
    <3> DEFINE row == [state |-> "active", leader |-> u, max |-> f.max,
                       status |-> f.status, expire |-> f.expire,
                       pw |-> IF f.status = "secret" THEN f.pw ELSE Empty]
    <3>1. GoodRow(row) /\ row.leader = u
      BY <2>2, DataAssumption DEF StartAdd, GoodRow, PolicyOK
    <3> QED
      BY <2>1, <2>2, <3>1 DEF StartAdd
  <2>3. ASSUME NEW t \in Teams, NEW e \in Edits, StartUpdate(p, u, t, e)
        PROVE  PolicyAt(p)'
    <3>1. GoodRow(Edited(teams[t], e))
      <4>1. teams[t] \in TeamRow /\ GoodRow(teams[t])
        BY <2>3, PolicyIs DEF StartUpdate, Active, GoodTeam, TypeOK, DataTypeOK
      <4>2. Edited(teams[t], e).leader = teams[t].leader
        BY <4>1 DEF Edited, TeamRow
      <4> QED
        BY <2>3, <4>1, <4>2 DEF StartUpdate, GoodRow
    <3> QED
      BY <2>1, <2>3, <3>1 DEF StartUpdate
  <2>4. ASSUME NEW t \in Teams, NEW pw, StartJoin(p, u, t, pw) PROVE PolicyAt(p)'
    BY <2>1, <2>4 DEF StartJoin
  <2>5. ASSUME NEW t \in Teams, StartQuit(p, u, t) \/ StartDelete(p, u, t)
        PROVE  PolicyAt(p)'
    BY <2>1, <2>5 DEF StartQuit, StartDelete
  <2> QED
    BY <2>2, <2>3, <2>4, <2>5 DEF Begin
<1> QED
  BY <1>2, <1>3, <1>4, PolicyIs

(* A request writes only what it has prepared: after its start it gets to  *)
(* the last statement of an update from the one before.                    *)
LEMMA SnapStep ==
  ASSUME TypeInv, NEW p \in Procs, Step(p) \/ Failure(p)
  PROVE  /\ pc'[p] \notin {"create", "exists"}
         /\ pc'[p] = "write" => pc[p] = "exists" /\ snap'[p] = snap[p]
<1> USE DEF TypeInv, TypeOK, At, Goto, Read, Return
<1>1. CASE \/ JoinLock(p) \/ JoinBusy(p) \/ JoinQuota(p) \/ JoinHas(p)
           \/ JoinFull(p) \/ JoinUnlock(p) \/ JoinInsert(p) \/ BodyFails(p)
  BY <1>1 DEF JoinLock, JoinBusy, JoinQuota, JoinHas, JoinFull, JoinUnlock,
              JoinInsert, BodyFails, BodyReturns
<1>2. CASE \/ QuitLock(p) \/ DeleteLock(p) \/ DeleteRefused(p) \/ LockMiss(p)
           \/ QuitHas(p) \/ QuitCount(p)
  BY <1>2 DEF QuitLock, DeleteLock, DeleteRefused, LockMiss, QuitHas, QuitCount,
              TakeRow, Rollback
<1>3. CASE \/ QuitPick(p) \/ QuitMove(p) \/ QuitDropSelf(p) \/ DropMembers(p)
           \/ DropTeam(p) \/ Commit(p) \/ TxFails(p)
  BY <1>3 DEF QuitPick, QuitMove, QuitDropSelf, DropMembers, DropTeam, Commit,
              TxFails, Rollback
<1>4. CASE \/ \E t \in Teams : CreateTeam(p, t)
           \/ UpdateExists(p) \/ UpdateWrite(p) \/ CallFails(p) \/ Crash(p)
  BY <1>4 DEF CreateTeam, UpdateExists, UpdateWrite, CallFails, Crash
<1> QED
  BY <1>1, <1>2, <1>3, <1>4 DEF Step, Blocking, Failure

LEMMA PolicyTables ==
  ASSUME Base, PolicyInv, NEW p \in Procs, Step(p) \/ Failure(p), NEW t \in Teams
  PROVE  GoodTeam(t)'
<1> USE DEF Base, TypeInv, TypeOK, DataTypeOK, At
<1>0. GoodTeam(t) /\ PolicyAt(p) /\ teams[t] \in TeamRow
  BY PolicyIs
<1>1. CASE UNCHANGED teams
  BY <1>0, <1>1 DEF GoodTeam
<1>2. ASSUME NEW s \in Teams, CreateTeam(p, s) PROVE GoodTeam(t)'
  BY <1>0, <1>2 DEF CreateTeam, GoodTeam, PolicyAt
<1>3. CASE UpdateWrite(p)
  <2>1. snap[p] \in TeamRow /\ GoodRow(snap[p])
    BY <1>0, <1>3 DEF UpdateWrite, PolicyAt
  <2>2. GoodRow([snap[p] EXCEPT !.state = teams[req[p].team].state])
    BY <2>1 DEF GoodRow, PolicyOK, TeamRow
  <2> QED
    BY <1>0, <1>3, <2>2 DEF UpdateWrite, GoodTeam
<1>4. CASE Commit(p)
  <2>1. CASE t # req[p].team
    BY <1>0, <1>4, <2>1 DEF Commit, GoodTeam
  <2>2. CASE t = req[p].team
    <3>1. PICK row : row = Written(p, t)
      OBVIOUS
    <3>2. teams'[t] = row /\ tx[p] \in Writes
      BY <1>4, <2>2, <3>1 DEF Commit
    <3>3. /\ row.status = teams[t].status /\ row.pw = teams[t].pw
          /\ row.leader \in {teams[t].leader} \cup Users
      BY <1>0, <3>1, <3>2 DEF Written, TeamRow, Writes
    <3>4. teams[t].state # "none"
      BY <1>4, <2>2 DEF Commit, TxSafety, TxKnows, InTx, Active
    <3>5. GoodRow(row)
      BY <1>0, <3>3, <3>4 DEF GoodTeam, GoodRow, PolicyOK
    <3> QED
      BY <3>2, <3>5 DEF GoodTeam
  <2> QED
    BY <2>1, <2>2
<1> QED
  BY <1>1, <1>2, <1>3, <1>4, Writers DEF dbVars, JoinInsert

LEMMA PolicyStep ==
  ASSUME Base, PolicyInv, [Next]_vars
  PROVE  PolicyInv'
<1>1. ASSUME NEW p \in Procs, Step(p) \/ Failure(p) PROVE PolicyInv'
  <2>1. ASSUME NEW q \in Procs PROVE PolicyAt(q)'
    <3>1. Outside(p) \/ Locks(p) \/ Inside(p) \/ Ends(p)
      BY <1>1, StepKind DEF Base
    <3>2. CASE q = p
      BY <1>1, <3>2, SnapStep, PolicyIs DEF PolicyAt, Base
    <3>3. CASE q # p
      BY <3>1, <3>3, PolicyIs
         DEF PolicyAt, Outside, Locks, Inside, Ends, LocalsKept
    <3> QED
      BY <3>2, <3>3
  <2>2. ASSUME NEW t \in Teams PROVE GoodTeam(t)'
    BY <1>1, PolicyTables DEF Base
  <2> QED
    BY <2>1, <2>2, PolicyIs
<1>2. CASE Tick \/ (\E t \in Teams : Expire(t)) \/ UNCHANGED vars
  BY <1>2 DEF Tick, Expire, local, vars, dbVars, PolicyInv
<1> QED
  BY <1>1, <1>2, PolicyBegin DEF Next, Base

LEMMA PolicyInit == Init => PolicyInv
BY DEF Init, DataInit, NoRow, PolicyInv

(* No team is secret without a password, although two updates may check    *)
(* and write beside each other: each writes all the columns that its check *)
(* was about (service.go:235, team_repo.go:103).                           *)
THEOREM SecretsHavePasswords == Spec => []SecretHasPassword
<1>1. PolicyInv => SecretHasPassword
  BY DEF PolicyInv, SecretHasPassword, GoodRow
<1> QED
  BY <1>1, BaseInit, BaseStep, PolicyInit, PolicyStep, PTL DEF Spec

-----------------------------------------------------------------------------
(* What a commit does to the tables: a member leaves, the leader hands     *)
(* over, or the team is disbanded.                                         *)

Departs(p, u, t) ==
  /\ Leaving(p)
  /\ members' = members \ RowsIn(u, t) /\ teams' = teams

Succeeds(p, u, t) ==
  /\ HandingOver(p)
  /\ members' = members \ RowsIn(u, t)
  /\ teams' = [teams EXCEPT ![t].leader = Successor(u, t)]

Dissolves(p, u, t) ==
  /\ Disbanding(p)
  /\ members' = members \ RowsOf(t)
  /\ teams' = [teams EXCEPT ![t].state = "deleted"]

LEMMA CommitKinds ==
  ASSUME Base, NEW p \in Procs, Commit(p), NEW u, NEW t,
         u = req[p].user, t = req[p].team
  PROVE  /\ u \in Users /\ t \in Teams /\ Active(t) /\ snap[p] = teams[t]
         /\ rowSeq' = rowSeq
         /\ Departs(p, u, t) \/ Succeeds(p, u, t) \/ Dissolves(p, u, t)
<1> USE DEF At
<1>1. pc[p] = "commit" /\ rowSeq' = rowSeq /\ u \in Users /\ t \in Teams
  BY DEF Commit, Base, TypeInv, RequestInv
<1>2. TxKnows(p)
  BY <1>1 DEF Base, TxSafety, InTx
<1>3. Active(t) /\ snap[p] = teams[t]
  BY <1>2 DEF TxKnows
<1>4. /\ teams' = [teams EXCEPT ![t] = Written(p, t)]
      /\ members' = {m \in members : m.team = t => m.user \notin tx[p].gone}
  BY DEF Commit
<1>5. teams[t] \in TeamRow /\ teams \in [Teams -> TeamRow]
  BY <1>1 DEF Base, TypeInv, TypeOK, DataTypeOK
<1>6. CASE Leaving(p) /\ TxIs(p, {u}, Nobody, FALSE)
  <2>1. members' = members \ RowsIn(u, t)
    BY <1>4, <1>6 DEF RowsIn, TxIs
  <2>2. Written(p, t) = teams[t]
    BY <1>5, <1>6 DEF Written, TxIs, TeamRow
  <2> QED
    BY <1>1, <1>3, <1>4, <1>5, <1>6, <2>1, <2>2 DEF Departs
<1>7. CASE HandingOver(p) /\ TxIs(p, {u}, Successor(u, t), FALSE)
  <2>1. members' = members \ RowsIn(u, t)
    BY <1>4, <1>7 DEF RowsIn, TxIs
  <2>2. Successor(u, t) \in Users
    BY <1>1, <1>7, SuccessorType DEF HandingOver, Base, TypeInv
  <2>3. Written(p, t) = [teams[t] EXCEPT !.leader = Successor(u, t)]
    BY <1>5, <1>7, <2>2, DataAssumption DEF Written, TxIs, TeamRow
  <2> QED
    BY <1>1, <1>3, <1>4, <1>5, <1>7, <2>1, <2>3 DEF Succeeds
<1>8. CASE Disbanding(p) /\ TxIs(p, {m.user : m \in RowsOf(t)}, Nobody, TRUE)
  <2>1. members' = members \ RowsOf(t)
    BY <1>4, <1>8 DEF RowsOf, TxIs
  <2>2. Written(p, t) = [teams[t] EXCEPT !.state = "deleted"]
    BY <1>5, <1>8 DEF Written, TxIs, TeamRow
  <2> QED
    BY <1>1, <1>3, <1>4, <1>5, <1>8, <2>1, <2>2 DEF Dissolves
<1> QED
  BY <1>1, <1>2, <1>3, <1>6, <1>7, <1>8 DEF TxKnows

(* The successor is another member, and keeps its row.                     *)
LEMMA SuccessorStays ==
  ASSUME TypeInv, NEW u, NEW t \in Teams, RowsOf(t) # RowsIn(u, t)
  PROVE  \E m \in members \ RowsIn(u, t) : m.team = t /\ m.user = Successor(u, t)
<1> DEFINE rows == RowsOf(t) \ RowsIn(u, t)
<1>1. rows # {} /\ rows \subseteq Membership
  BY DEF RowsOf, RowsIn, TypeInv, TypeOK, DataTypeOK
<1>2. Earliest(rows) \in rows
  BY <1>1, EarliestExists
<1> QED
  BY <1>2 DEF Successor, RowsOf

(* The statements that write the table of teams.                           *)
LEMMA NextWriters ==
  ASSUME [Next]_vars, Base
  PROVE  \/ UNCHANGED dbVars
         \/ \E p \in Procs : \/ \E t \in Teams : CreateTeam(p, t)
                             \/ JoinInsert(p) \/ UpdateWrite(p) \/ Commit(p)
<1>1. CASE Tick \/ (\E t \in Teams : Expire(t)) \/ UNCHANGED vars
  BY <1>1 DEF Tick, Expire, vars
<1>2. ASSUME NEW p \in Procs, NEW u \in Users, Begin(p, u) PROVE UNCHANGED dbVars
  BY <1>2, BeginKind DEF Base, TypeInv
<1> QED
  BY <1>1, <1>2, Writers DEF Next

LEMMA UpdateWriteRow ==
  ASSUME Base, NEW p \in Procs, UpdateWrite(p)
  PROVE  /\ req[p].team \in Teams /\ snap[p] \in TeamRow
         /\ pc[p] = "write" /\ pc'[p] = "idle" /\ members' = members /\ rowSeq' = rowSeq
         /\ \A t \in Teams \ {req[p].team} : teams'[t] = teams[t]
         /\ teams'[req[p].team].state = teams[req[p].team].state
         /\ teams'[req[p].team].leader = snap[p].leader
<1>1. req[p].team \in Teams /\ snap[p] \in TeamRow /\ teams[req[p].team] \in TeamRow
  BY DEF UpdateWrite, At, Base, TypeInv, RequestInv, TypeOK, DataTypeOK
<1> QED
  BY <1>1 DEF UpdateWrite, Return, Goto, At, Base, TypeInv, TypeOK, DataTypeOK, TeamRow

(* A disbanded team never comes back: the only statement that writes a     *)
(* team's row without having locked it leaves is_delete alone              *)
(* (team_repo.go:103).                                                     *)
THEOREM DisbandIsForGood == Spec => DisbandIsFinal
<1> DEFINE A == \A t \in Teams :
                  teams[t].state = "deleted" => teams'[t].state = "deleted"
<1>1. Base /\ [Next]_vars => A
  <2> SUFFICES ASSUME Base, [Next]_vars, NEW t \in Teams, teams[t].state = "deleted"
               PROVE  teams'[t].state = "deleted"
    OBVIOUS
  <2>1. ASSUME NEW p \in Procs, NEW s \in Teams, CreateTeam(p, s)
        PROVE  teams'[t].state = "deleted"
    BY <2>1 DEF CreateTeam, Base, TypeInv, TypeOK, DataTypeOK
  <2>2. ASSUME NEW p \in Procs, UpdateWrite(p) PROVE teams'[t].state = "deleted"
    BY <2>2, UpdateWriteRow
  <2>3. ASSUME NEW p \in Procs, Commit(p) PROVE teams'[t].state = "deleted"
    <3>1. t # req[p].team
      BY <2>3, CommitKinds DEF Active
    <3> QED
      BY <2>3, <3>1 DEF Commit, Base, TypeInv, TypeOK, DataTypeOK
  <2> QED
    BY <2>1, <2>2, <2>3, NextWriters DEF dbVars, JoinInsert
<1> QED
  BY <1>1, BaseInit, BaseStep, PTL DEF Spec, DisbandIsFinal

(* The step that disbands a team leaves none of its rows behind: between   *)
(* the two statements that delete the members and the team nobody joins    *)
(* (team_repo.go:206).                                                     *)
THEOREM DisbandEmpties == Spec => DisbandRemovesAll
<1> DEFINE A == \A t \in Teams : Active(t) /\ teams'[t].state = "deleted"
                                   => \A m \in members' : m.team # t
<1>1. Base /\ [Next]_vars => A
  <2> SUFFICES ASSUME Base, [Next]_vars, NEW t \in Teams,
                      Active(t), teams'[t].state = "deleted"
               PROVE  \A m \in members' : m.team # t
    OBVIOUS
  <2>0. teams[t].state = "active"
    BY DEF Active
  <2>1. ASSUME NEW p \in Procs, NEW s \in Teams, CreateTeam(p, s) PROVE FALSE
    BY <2>0, <2>1 DEF CreateTeam, Base, TypeInv, TypeOK, DataTypeOK
  <2>2. ASSUME NEW p \in Procs, UpdateWrite(p) PROVE FALSE
    BY <2>0, <2>2, UpdateWriteRow
  <2>3. ASSUME NEW p \in Procs, Commit(p) PROVE \A m \in members' : m.team # t
    <3>0. PICK u, s : u = req[p].user /\ s = req[p].team
      OBVIOUS
    <3>1. s \in Teams /\ (Departs(p, u, s) \/ Succeeds(p, u, s) \/ Dissolves(p, u, s))
      BY <2>3, <3>0, CommitKinds
    <3>2. t = s
      BY <2>0, <2>3, <3>0 DEF Commit, Base, TypeInv, TypeOK, DataTypeOK
    <3>3. ~ Departs(p, u, s) /\ ~ Succeeds(p, u, s)
      BY <2>0, <3>1, <3>2
         DEF Departs, Succeeds, Base, TypeInv, TypeOK, DataTypeOK, TeamRow
    <3> QED
      BY <3>1, <3>2, <3>3 DEF Dissolves, RowsOf
  <2> QED
    BY <2>0, <2>1, <2>2, <2>3, NextWriters DEF dbVars, JoinInsert
<1> QED
  BY <1>1, BaseInit, BaseStep, PTL DEF Spec, DisbandRemovesAll

(* Leadership moves to a member, or is written back by an update that had  *)
(* read the row before (team_repo.go:103, 446).                            *)
THEOREM LeadershipMoves == Spec => LeaderMoves
<1> DEFINE
      Member(t) == \E m \in members' : m.team = t /\ m.user = teams'[t].leader
      Update(t) == \E p \in Procs :
                     /\ pc[p] = "write" /\ pc'[p] = "idle" /\ req[p].team = t
                     /\ snap[p].leader = teams'[t].leader
      A == \A t \in Teams : Active(t) /\ teams'[t].leader # teams[t].leader
             => \/ \E m \in members' : m.team = t /\ m.user = teams'[t].leader
                \/ \E p \in Procs :
                     /\ pc[p] = "write" /\ pc'[p] = "idle" /\ req[p].team = t
                     /\ snap[p].leader = teams'[t].leader
<1>1. Base /\ [Next]_vars => A
  <2> SUFFICES ASSUME Base, [Next]_vars, NEW t \in Teams,
                      Active(t), teams'[t].leader # teams[t].leader
               PROVE  Member(t) \/ Update(t)
    OBVIOUS
  <2>1. ASSUME NEW p \in Procs, NEW s \in Teams, CreateTeam(p, s) PROVE FALSE
    BY <2>1 DEF Active, CreateTeam, Base, TypeInv, TypeOK, DataTypeOK
  <2>2. ASSUME NEW p \in Procs, UpdateWrite(p) PROVE Update(t)
    BY <2>2, UpdateWriteRow
  <2>3. ASSUME NEW p \in Procs, Commit(p) PROVE Member(t)
    <3>0. PICK u, s : u = req[p].user /\ s = req[p].team
      OBVIOUS
    <3>1. s \in Teams /\ (Departs(p, u, s) \/ Succeeds(p, u, s) \/ Dissolves(p, u, s))
      BY <2>3, <3>0, CommitKinds
    <3>2. t = s
      BY <2>3, <3>0 DEF Commit, Base, TypeInv, TypeOK, DataTypeOK
    <3>3. ~ Departs(p, u, s) /\ ~ Dissolves(p, u, s)
      BY <3>1, <3>2
         DEF Departs, Dissolves, Base, TypeInv, TypeOK, DataTypeOK, TeamRow
    <3>4. Succeeds(p, u, s) /\ RowsOf(s) # RowsIn(u, s)
      BY <3>0, <3>1, <3>3 DEF Succeeds, HandingOver
    <3>5. teams'[s].leader = Successor(u, s) /\ members' = members \ RowsIn(u, s)
      BY <3>1, <3>4 DEF Succeeds, Base, TypeInv, TypeOK, DataTypeOK, TeamRow
    <3> QED
      BY <3>1, <3>2, <3>4, <3>5, SuccessorStays DEF Base
  <2> QED
    BY <2>1, <2>2, <2>3, NextWriters DEF dbVars, JoinInsert
<1> QED
  BY <1>1, BaseInit, BaseStep, PTL DEF Spec, LeaderMoves

-----------------------------------------------------------------------------
(* Where no update runs, the leader stays a member.                        *)

NoUpdate == \A p \in Procs : pc[p] \notin {"exists", "write"}

LEMMA NoUpdateStep ==
  ASSUME Base, NoUpdate, "update" \notin Handlers, [Next]_vars
  PROVE  NoUpdate'
<1>1. ASSUME NEW p \in Procs, NEW u \in Users, Begin(p, u) PROVE NoUpdate'
  <2>1. ASSUME NEW h, NEW l, NEW t, NEW row, Start(p, h, l, u, t, row),
               l \notin {"exists", "write"}
        PROVE  NoUpdate'
    BY <2>1, StartLocals DEF Base, TypeInv, NoUpdate, LocalsKept
  <2>2. ASSUME NEW t \in Teams, NEW e \in Edits, StartUpdate(p, u, t, e) PROVE FALSE
    BY <2>2 DEF StartUpdate, Start
  <2>3. ASSUME NEW f \in Forms, StartAdd(p, u, f) PROVE NoUpdate'
    BY <2>1, <2>3 DEF StartAdd
  <2>4. ASSUME NEW t \in Teams, NEW pw, StartJoin(p, u, t, pw) PROVE NoUpdate'
    BY <2>1, <2>4 DEF StartJoin
  <2>5. ASSUME NEW t \in Teams, StartQuit(p, u, t) \/ StartDelete(p, u, t)
        PROVE  NoUpdate'
    BY <2>1, <2>5 DEF StartQuit, StartDelete
  <2> QED
    BY <1>1, <2>2, <2>3, <2>4, <2>5 DEF Begin
<1>2. ASSUME NEW p \in Procs, Step(p) \/ Failure(p) PROVE NoUpdate'
  <2>1. LocalsKept(p)
    BY <1>2, StepKind DEF Base, Outside, Locks, Inside, Ends
  <2>2. pc'[p] \notin {"exists", "write"}
    BY <1>2, SnapStep DEF Base, NoUpdate
  <2> QED
    BY <2>1, <2>2 DEF NoUpdate, LocalsKept
<1>3. CASE Tick \/ (\E t \in Teams : Expire(t)) \/ UNCHANGED vars
  BY <1>3 DEF Tick, Expire, local, vars, NoUpdate
<1> QED
  BY <1>1, <1>2, <1>3 DEF Next

Led(t) == Active(t) => RowsIn(teams[t].leader, t) # {}

LEMMA LedKept ==
  ASSUME NEW t, Led(t), teams'[t] = teams[t],
         RowsIn(teams[t].leader, t) # {} => RowsIn(teams[t].leader, t)' # {}
  PROVE  Led(t)'
BY DEF Led, Active, RowsIn

LEMMA LedStep ==
  ASSUME Base, PolicyInv, NoUpdate, LeaderIsMember, [Next]_vars, NEW t \in Teams
  PROVE  Led(t)'
<1> USE DEF Base, TypeInv, TypeOK, DataTypeOK
<1>0. Led(t)
  BY DEF LeaderIsMember, Led
<1>1. ASSUME NEW p \in Procs, NEW s \in Teams, CreateTeam(p, s) PROVE Led(t)'
  <2>1. snap[p].leader = req[p].user
    BY <1>1 DEF CreateTeam, At, PolicyInv
  <2>2. members' = Inserted(req[p].user, s) /\ teams' = [teams EXCEPT ![s] = snap[p]]
    BY <1>1 DEF CreateTeam
  <2>3. CASE s = t
    <3>1. teams'[t].leader = req[p].user
      BY <2>1, <2>2, <2>3
    <3>2. [id |-> rowSeq + 1, user |-> req[p].user, team |-> t] \in members'
      BY <2>2, <2>3 DEF Inserted
    <3>3. RowsIn(teams[t].leader, t)' # {}
      BY <3>1, <3>2 DEF RowsIn
    <3> QED
      BY <3>3 DEF Led
  <2>4. CASE s # t
    <3>1. teams'[t] = teams[t] /\ members \subseteq members'
      BY <2>2, <2>4 DEF Inserted
    <3> QED
      BY <1>0, <3>1 DEF Led, Active, RowsIn
  <2> QED
    BY <2>3, <2>4
<1>2. ASSUME NEW p \in Procs, JoinInsert(p) PROVE Led(t)'
  <2>1. teams'[t] = teams[t] /\ members \subseteq members'
    BY <1>2 DEF JoinInsert, Inserted
  <2> QED
    BY <1>0, <2>1 DEF Led, Active, RowsIn
<1>3. ASSUME NEW p \in Procs, UpdateWrite(p) PROVE FALSE
  BY <1>3 DEF UpdateWrite, At, NoUpdate
<1>4. ASSUME NEW p \in Procs, Commit(p) PROVE Led(t)'
  <2>0. PICK u, s : u = req[p].user /\ s = req[p].team
    OBVIOUS
  <2>1. /\ u \in Users /\ s \in Teams /\ snap[p] = teams[s]
        /\ Departs(p, u, s) \/ Succeeds(p, u, s) \/ Dissolves(p, u, s)
    BY <1>4, <2>0, CommitKinds
  <2>2. CASE t # s
    <3>1. /\ teams'[t] = teams[t]
          /\ members' = members \ RowsIn(u, s) \/ members' = members \ RowsOf(s)
      BY <2>1, <2>2 DEF Departs, Succeeds, Dissolves
    <3> QED
      BY <1>0, <2>2, <3>1 DEF Led, Active, RowsIn, RowsOf
  <2>3. CASE t = s /\ Departs(p, u, s)
    <3>1. teams'[t] = teams[t] /\ teams[t].leader # u /\ members' = members \ RowsIn(u, t)
      BY <2>0, <2>1, <2>3 DEF Departs, Leaving
    <3> QED
      BY <1>0, <3>1 DEF Led, Active, RowsIn
  <2>4. CASE t = s /\ Succeeds(p, u, s)
    <3>1. /\ teams'[t].leader = Successor(u, t) /\ members' = members \ RowsIn(u, t)
          /\ RowsOf(t) # RowsIn(u, t)
      BY <2>0, <2>1, <2>4 DEF Succeeds, HandingOver, TeamRow
    <3>2. PICK m \in members' : m.team = t /\ m.user = teams'[t].leader
      BY <3>1, SuccessorStays
    <3> QED
      BY <3>2 DEF Led, RowsIn
  <2>5. CASE t = s /\ Dissolves(p, u, s)
    BY <2>5 DEF Dissolves, Led, Active, TeamRow
  <2> QED
    BY <2>1, <2>2, <2>3, <2>4, <2>5
<1>5. CASE UNCHANGED dbVars
  BY <1>0, <1>5 DEF Led, Active, RowsIn, dbVars
<1> QED
  BY <1>1, <1>2, <1>3, <1>4, <1>5, NextWriters

(* Handovers, quits, disbands and joins never leave a team with a leader   *)
(* that is not one of its members, even if join locks lapse.  An update    *)
(* may: it writes the leader of its snapshot (team_repo.go:103), so the    *)
(* theorem is about systems without that operation.                        *)
THEOREM LeaderStaysMember ==
  ASSUME "update" \notin Handlers PROVE Spec => []LeaderIsMember
<1> DEFINE Inv == Base /\ PolicyInv /\ NoUpdate /\ LeaderIsMember
<1>1. Init => Inv
  <2>1. Init => NoUpdate /\ LeaderIsMember
    BY DEF Init, DataInit, NoRow, NoUpdate, LeaderIsMember, Active
  <2> QED
    BY <2>1, BaseInit, PolicyInit
<1>2. Inv /\ [Next]_vars => Inv'
  <2> SUFFICES ASSUME Inv, [Next]_vars PROVE Inv'
    OBVIOUS
  <2>1. LeaderIsMember'
    BY LedStep DEF LeaderIsMember, Led
  <2> QED
    BY <2>1, BaseStep, PolicyStep, NoUpdateStep
<1>3. Inv => LeaderIsMember
  OBVIOUS
<1> QED
  BY <1>1, <1>2, <1>3, PTL DEF Spec

-----------------------------------------------------------------------------
(* With the invariant of the joins: teams do not outlive their members,    *)
(* and every step on the tables is one of TeamRoster's.                    *)

LEMMA OnlyRow ==
  ASSUME TypeInv, Tables, NEW u, NEW t, RowsIn(u, t) # {}
  PROVE  Cardinality(RowsOf(t)) <= 1 <=> RowsOf(t) = RowsIn(u, t)
<1>1. PICK m : m \in RowsIn(u, t)
  OBVIOUS
<1>2. m \in RowsOf(t) /\ RowsIn(u, t) \subseteq RowsOf(t)
  BY <1>1 DEF RowsIn, RowsOf
<1>3. RowsIn(u, t) = {m}
  BY <1>1 DEF RowsIn, Tables, NoDuplicateMembership
<1>4. IsFiniteSet(RowsOf(t)) /\ Cardinality(RowsOf(t)) \in Nat
  BY FiniteRows DEF Tables
<1>5. Cardinality(RowsOf(t)) # 0
  BY <1>2, <1>4, FS_EmptySet
<1>6. Cardinality(RowsOf(t)) = 1 <=> \E x : RowsOf(t) = {x}
  BY <1>4, FS_Singleton
<1> QED
  BY <1>2, <1>3, <1>4, <1>5, <1>6

Peopled(t) == Active(t) => RowsOf(t) # {}

LEMMA PeopledStep ==
  ASSUME Base, Tables, NoGhostTeam, [Next]_vars, NEW t \in Teams
  PROVE  Peopled(t)'
<1> USE DEF Base, TypeInv, TypeOK, DataTypeOK
<1>0. Peopled(t)
  BY DEF NoGhostTeam, Peopled
<1>1. ASSUME NEW p \in Procs, NEW s \in Teams, CreateTeam(p, s) PROVE Peopled(t)'
  <2>1. members' = Inserted(req[p].user, s) /\ teams' = [teams EXCEPT ![s] = snap[p]]
    BY <1>1 DEF CreateTeam
  <2>2. [id |-> rowSeq + 1, user |-> req[p].user, team |-> s] \in members'
    BY <2>1 DEF Inserted
  <2>3. CASE s = t
    BY <2>2, <2>3 DEF Peopled, RowsOf
  <2>4. CASE s # t
    <3>1. teams'[t] = teams[t] /\ members \subseteq members'
      BY <2>1, <2>4 DEF Inserted
    <3> QED
      BY <1>0, <3>1 DEF Peopled, Active, RowsOf
  <2> QED
    BY <2>3, <2>4
<1>2. ASSUME NEW p \in Procs, JoinInsert(p) PROVE Peopled(t)'
  <2>1. teams'[t] = teams[t] /\ members \subseteq members'
    BY <1>2 DEF JoinInsert, Inserted
  <2> QED
    BY <1>0, <2>1 DEF Peopled, Active, RowsOf
<1>3. ASSUME NEW p \in Procs, UpdateWrite(p) PROVE Peopled(t)'
  <2>1. teams'[t].state = teams[t].state /\ members' = members
    BY <1>3, UpdateWriteRow
  <2> QED
    BY <1>0, <2>1 DEF Peopled, Active, RowsOf
<1>4. ASSUME NEW p \in Procs, Commit(p) PROVE Peopled(t)'
  <2>0. PICK u, s : u = req[p].user /\ s = req[p].team
    OBVIOUS
  <2>1. /\ u \in Users /\ s \in Teams /\ snap[p] = teams[s]
        /\ Departs(p, u, s) \/ Succeeds(p, u, s) \/ Dissolves(p, u, s)
    BY <1>4, <2>0, CommitKinds
  <2>2. CASE t # s
    <3>1. /\ teams'[t] = teams[t]
          /\ members' = members \ RowsIn(u, s) \/ members' = members \ RowsOf(s)
      BY <2>1, <2>2 DEF Departs, Succeeds, Dissolves
    <3> QED
      BY <1>0, <2>2, <3>1 DEF Peopled, Active, RowsIn, RowsOf
  <2>3. CASE t = s /\ (Departs(p, u, s) \/ Succeeds(p, u, s))
    <3>1. RowsOf(t) # RowsIn(u, t) /\ members' = members \ RowsIn(u, t)
      BY <2>0, <2>3, OnlyRow DEF Departs, Leaving, Succeeds, HandingOver
    <3>2. PICK m \in RowsOf(t) : m \notin RowsIn(u, t)
      BY <3>1 DEF RowsOf, RowsIn
    <3>3. m \in members' /\ m.team = t
      BY <3>1, <3>2 DEF RowsOf
    <3> QED
      BY <3>3 DEF Peopled, RowsOf
  <2>4. CASE t = s /\ Dissolves(p, u, s)
    BY <2>4 DEF Dissolves, Peopled, Active, TeamRow
  <2> QED
    BY <2>1, <2>2, <2>3, <2>4
<1>5. CASE UNCHANGED dbVars
  BY <1>0, <1>5 DEF Peopled, Active, RowsOf, dbVars
<1> QED
  BY <1>1, <1>2, <1>3, <1>4, <1>5, NextWriters

RosterInv == JoinInvariant /\ TxSafety /\ PolicyInv

LEMMA RosterInvInit == Init => RosterInv
BY JoinInvariantInit, TxSafetyInit, PolicyInit DEF RosterInv

LEMMA RosterInvBase == RosterInv => Base
BY DEF RosterInv, JoinInvariant, Base

LEMMA RosterInvStep ==
  ASSUME TTLCovers, RosterInv, [Next]_vars
  PROVE  RosterInv'
BY RosterInvBase, BaseStep, JoinInvariantStep, PolicyStep DEF RosterInv, Base

(* A team is disbanded in the transaction that removes its last member: a  *)
(* quit that counted two members leaves one behind (team_repo.go:446).     *)
THEOREM NoTeamIsEmpty == ASSUME TTLCovers PROVE Spec => []NoGhostTeam
<1> DEFINE Inv == RosterInv /\ NoGhostTeam
<1>1. Init => Inv
  BY RosterInvInit DEF Init, DataInit, NoRow, NoGhostTeam, Active
<1>2. Inv /\ [Next]_vars => Inv'
  <2> SUFFICES ASSUME Inv, [Next]_vars PROVE Inv'
    OBVIOUS
  <2>1. NoGhostTeam'
    BY RosterInvBase, PeopledStep DEF NoGhostTeam, Peopled, RosterInv, JoinInvariant
  <2> QED
    BY <2>1, RosterInvStep
<1>3. Inv => NoGhostTeam
  OBVIOUS
<1> QED
  BY <1>1, <1>2, <1>3, PTL DEF Spec

-----------------------------------------------------------------------------
(* The refinement of TeamRoster.                                           *)

LEMMA RosterReads ==
  /\ \A t : R!Active(t) = Active(t) /\ R!RowsOf(t) = RowsOf(t)
  /\ \A u, t : /\ R!RowsIn(u, t) = RowsIn(u, t) /\ R!Inserted(u, t) = Inserted(u, t)
               /\ R!Successor(u, t) = Successor(u, t)
  /\ \A S : R!Cardinality(S) = Cardinality(S)
  /\ \A row : R!PolicyOK(row) = PolicyOK(row)
  /\ R!TeamRow = TeamRow /\ R!dbVars = dbVars /\ R!minTeamMembers = minTeamMembers
BY DEF R!Active, Active, R!RowsOf, RowsOf, R!RowsIn, RowsIn, R!Inserted, Inserted,
       R!Successor, Successor, R!Earliest, Earliest, R!PolicyOK, PolicyOK,
       R!TeamRow, TeamRow, R!Statuses, Statuses, R!Times, Times, R!dbVars, dbVars,
       R!minTeamMembers, minTeamMembers, R!Cardinality, Cardinality

(* Each statement that writes the tables is one operation of the roster.   *)
LEMMA CreateRefines ==
  ASSUME RosterInv, NEW p \in Procs, NEW t \in Teams, CreateTeam(p, t)
  PROVE  \E u \in Users : R!Create(u, t)
<1>0. PICK u : u = req[p].user
  OBVIOUS
<1>1. u \in Users /\ snap[p] \in TeamRow /\ teams \in [Teams -> TeamRow]
  BY <1>0 DEF CreateTeam, At, RosterInv, JoinInvariant, TypeInv, RequestInv, TypeOK,
              DataTypeOK
<1>2. teams' = [teams EXCEPT ![t] = snap[p]] /\ teams'[t] = snap[p]
  BY <1>1 DEF CreateTeam
<1>3. snap[p].state = "active" /\ snap[p].max >= minTeamMembers
  BY DEF CreateTeam, At, RosterInv, JoinInvariant, Known, KnownAt
<1>4. snap[p].leader = u /\ PolicyOK(snap[p])
  BY <1>0 DEF CreateTeam, At, RosterInv, PolicyInv, GoodRow
<1>5. teams[t].state = "none" /\ members' = Inserted(u, t) /\ rowSeq' = rowSeq + 1
  BY <1>0 DEF CreateTeam
<1> QED
  BY <1>1, <1>2, <1>3, <1>4, <1>5, RosterReads DEF R!Create

LEMMA JoinRefines ==
  ASSUME RosterInv, NEW p \in Procs, JoinInsert(p)
  PROVE  \E t \in Teams, u \in Users : R!Enter(u, t)
<1>0. PICK u, t : u = req[p].user /\ t = req[p].team
  OBVIOUS
<1>1. /\ u \in Users /\ t \in Teams /\ teams[t].state # "none"
      /\ RowsIn(u, t) = {} /\ Cardinality(RowsOf(t)) < teams[t].max
  BY <1>0 DEF JoinInsert, At, RosterInv, JoinInvariant, TypeInv, RequestInv, Known,
              KnownAt, InJoinBody
<1>2. members' = Inserted(u, t) /\ rowSeq' = rowSeq + 1 /\ UNCHANGED teams
  BY <1>0 DEF JoinInsert
<1> QED
  BY <1>1, <1>2, RosterReads DEF R!Enter

LEMMA UpdateRefines ==
  ASSUME RosterInv, NEW p \in Procs, UpdateWrite(p)
  PROVE  \E t \in Teams : R!Edit(t)
<1>0. PICK t, row : t = req[p].team /\ row = [snap[p] EXCEPT !.state = teams[t].state]
  OBVIOUS
<1>1. /\ t \in Teams /\ snap[p] \in TeamRow /\ teams[t] \in TeamRow
      /\ teams \in [Teams -> TeamRow]
  BY <1>0 DEF UpdateWrite, At, RosterInv, JoinInvariant, TypeInv, RequestInv, TypeOK,
              DataTypeOK
<1>2. /\ teams' = [teams EXCEPT ![t] = row] /\ teams'[t] = row
      /\ UNCHANGED <<members, rowSeq>>
  BY <1>0, <1>1 DEF UpdateWrite
<1>3. teams[t].state # "none" /\ snap[p].max = teams[t].max
  BY <1>0 DEF UpdateWrite, At, RosterInv, JoinInvariant, Known, KnownAt
<1>4. GoodRow(snap[p])
  BY DEF UpdateWrite, At, RosterInv, PolicyInv
<1>5. /\ row \in TeamRow /\ row.state = teams[t].state /\ row.max = teams[t].max
      /\ row.leader \in Users /\ PolicyOK(row)
  BY <1>0, <1>1, <1>3, <1>4 DEF TeamRow, GoodRow, PolicyOK
<1> QED
  BY <1>1, <1>2, <1>3, <1>5, RosterReads DEF R!Edit

LEMMA CommitRefines ==
  ASSUME RosterInv, NEW p \in Procs, Commit(p)
  PROVE  \E t \in Teams, u \in Users : R!Leave(u, t) \/ R!HandOver(u, t) \/ R!Disband(u, t)
<1>0. PICK u, t : u = req[p].user /\ t = req[p].team
  OBVIOUS
<1>1. /\ u \in Users /\ t \in Teams /\ Active(t) /\ snap[p] = teams[t]
      /\ rowSeq' = rowSeq
      /\ Departs(p, u, t) \/ Succeeds(p, u, t) \/ Dissolves(p, u, t)
  BY <1>0, CommitKinds, RosterInvBase
<1>2. RowsIn(u, t) # {} =>
        (Cardinality(RowsOf(t)) <= 1 <=> RowsOf(t) = RowsIn(u, t))
  BY OnlyRow DEF RosterInv, JoinInvariant
<1>3. CASE Departs(p, u, t)
  <2>1. /\ teams[t].leader # u /\ RowsIn(u, t) # {} /\ RowsOf(t) # RowsIn(u, t)
        /\ members' = members \ RowsIn(u, t) /\ teams' = teams
    BY <1>0, <1>1, <1>2, <1>3 DEF Departs, Leaving
  <2> QED
    BY <1>1, <2>1, RosterReads DEF R!Leave
<1>4. CASE Succeeds(p, u, t)
  <2>1. /\ teams[t].leader = u /\ RowsIn(u, t) # {} /\ RowsOf(t) # RowsIn(u, t)
        /\ members' = members \ RowsIn(u, t)
        /\ teams' = [teams EXCEPT ![t].leader = Successor(u, t)]
    BY <1>0, <1>1, <1>4 DEF Succeeds, HandingOver
  <2> QED
    BY <1>1, <2>1, RosterReads DEF R!HandOver
<1>5. CASE Dissolves(p, u, t)
  <2>1. /\ \/ teams[t].leader = u
           \/ RowsIn(u, t) # {} /\ RowsOf(t) = RowsIn(u, t)
        /\ members' = members \ RowsOf(t)
        /\ teams' = [teams EXCEPT ![t].state = "deleted"]
    BY <1>0, <1>1, <1>2, <1>5 DEF Dissolves, Disbanding
  <2> QED
    BY <1>1, <2>1, RosterReads DEF R!Disband
<1> QED
  BY <1>1, <1>3, <1>4, <1>5

LEMMA StepRefines ==
  ASSUME RosterInv, [Next]_vars
  PROVE  [R!RosterNext]_(R!dbVars)
<1>1. ASSUME NEW p \in Procs, NEW t \in Teams, CreateTeam(p, t) PROVE R!RosterNext
  BY <1>1, CreateRefines DEF R!RosterNext
<1>2. ASSUME NEW p \in Procs, JoinInsert(p) PROVE R!RosterNext
  BY <1>2, JoinRefines DEF R!RosterNext
<1>3. ASSUME NEW p \in Procs, UpdateWrite(p) PROVE R!RosterNext
  BY <1>3, UpdateRefines DEF R!RosterNext
<1>4. ASSUME NEW p \in Procs, Commit(p) PROVE R!RosterNext
  BY <1>4, CommitRefines DEF R!RosterNext
<1>5. UNCHANGED dbVars => UNCHANGED R!dbVars
  BY DEF dbVars, R!dbVars
<1> QED
  BY <1>1, <1>2, <1>3, <1>4, <1>5, NextWriters, RosterInvBase

(* Quotas apart, the requests together look like one atomic operation of   *)
(* TeamRoster after another, however their statements interleave, as long  *)
(* as no join outlives its lock (service.go:16, TX_LOCK.md section 1).     *)
THEOREM RosterImplemented == ASSUME TTLCovers PROVE Spec => RosterRefined
<1>1. Init => R!DataInit
  BY DEF Init, DataInit, R!DataInit, NoRow, R!NoRow
<1>2. RosterInv /\ [Next]_vars => RosterInv'
  BY RosterInvStep
<1>3. RosterInv /\ [Next]_vars => [R!RosterNext]_(R!dbVars)
  BY StepRefines
<1> QED
  BY <1>1, <1>2, <1>3, RosterInvInit, PTL DEF Spec, RosterRefined, R!RosterSpec

-----------------------------------------------------------------------------
(* Quotas, for users that send one request at a time.                      *)

QuotaOf(u) ==
  /\ Cardinality(RowsBy(u)) <= MaxCreateTeams + MaxJoinTeams
  /\ Cardinality(NotLed(u)) <= MaxJoinTeams

QuotaAt(p, u) ==
  /\ pc[p] = "create" => Cardinality(RowsBy(u)) < MaxCreateTeams + MaxJoinTeams
  /\ pc[p] \in {"has", "full", "insert"} => Cardinality(RowsBy(u)) < MaxJoinTeams

LEMMA QuotaIs ==
  /\ QuotaInv <=> /\ \A u \in Users : QuotaOf(u)
                  /\ \A p \in Procs : \A u : req[p].user = u => QuotaAt(p, u)
  /\ QuotaInv' <=> /\ \A u \in Users : QuotaOf(u)'
                   /\ \A p \in Procs : \A u : req'[p].user = u => QuotaAt(p, u)'
BY DEF QuotaInv, QuotaBound, QuotaOf, QuotaAt

LEMMA FiniteRowsBy ==
  ASSUME IsFiniteSet(members), NEW u
  PROVE  /\ IsFiniteSet(RowsBy(u)) /\ Cardinality(RowsBy(u)) \in Nat
         /\ IsFiniteSet(NotLed(u)) /\ Cardinality(NotLed(u)) \in Nat
         /\ Cardinality(NotLed(u)) <= Cardinality(RowsBy(u))
<1>1. RowsBy(u) \in SUBSET members /\ NotLed(u) \in SUBSET RowsBy(u)
  BY DEF RowsBy, NotLed
<1> QED
  BY <1>1, Shrinks

(* A user has as many rows in the teams it leads as it leads teams: it is  *)
(* a member of each, once.                                                 *)
LEMMA LedRows ==
  ASSUME TypeInv, Tables, LeaderIsMember, NEW u
  PROVE  /\ Cardinality(LedBy(u)) \in Nat
         /\ Cardinality(RowsBy(u)) = Cardinality(LedBy(u)) + Cardinality(NotLed(u))
<1> DEFINE led == RowsBy(u) \ NotLed(u)
           f == [m \in led |-> m.team]
<1>1. IsFiniteSet(RowsBy(u)) /\ NotLed(u) \in SUBSET RowsBy(u)
  BY FiniteRowsBy DEF Tables, RowsInv, NotLed
<1>2. led \subseteq members /\ \A m \in led : m.user = u /\ m.team \in LedBy(u)
  BY DEF RowsBy, NotLed
<1>3. \A t \in LedBy(u) : \E m \in led : m.team = t
  BY DEF LeaderIsMember, LedBy, RowsIn, RowsBy, NotLed
<1>4. f \in Surjection(led, LedBy(u))
  BY <1>2, <1>3 DEF Surjection
<1>5. f \in Injection(led, LedBy(u))
  BY <1>2 DEF Injection, IsInjective, Tables, NoDuplicateMembership
<1>6. IsFiniteSet(led) /\ Cardinality(led) = Cardinality(RowsBy(u)) - Cardinality(NotLed(u))
  <2>1. RowsBy(u) \cap NotLed(u) = NotLed(u)
    BY <1>1
  <2> QED
    BY <1>1, <2>1, FS_Difference
<1>7. Cardinality(LedBy(u)) \in Nat /\ Cardinality(LedBy(u)) = Cardinality(led)
  BY FS_CardinalityType, <1>4, <1>5, <1>6, FS_Surjection
<1>8. Cardinality(RowsBy(u)) \in Nat /\ Cardinality(NotLed(u)) \in Nat
  BY <1>1, FS_Subset, FS_CardinalityType
<1> QED
  BY <1>6, <1>7, <1>8

(* Steps that add no row to u's and take no team from its lead keep its    *)
(* quotas.                                                                 *)
LEMMA QuotaShrinks ==
  ASSUME IsFiniteSet(members), NEW u \in Users, QuotaOf(u),
         RowsBy(u)' \subseteq RowsBy(u), NotLed(u)' \subseteq NotLed(u)
  PROVE  QuotaOf(u)' /\ \A p \in Procs : QuotaAt(p, u) /\ pc'[p] = pc[p] => QuotaAt(p, u)'
<1>1. /\ Cardinality(RowsBy(u)) \in Nat /\ Cardinality(RowsBy(u)') \in Nat
      /\ Cardinality(RowsBy(u)') <= Cardinality(RowsBy(u))
      /\ Cardinality(NotLed(u)) \in Nat /\ Cardinality(NotLed(u)') \in Nat
      /\ Cardinality(NotLed(u)') <= Cardinality(NotLed(u))
  BY FiniteRowsBy, Shrinks
<1>2. MaxCreateTeams + MaxJoinTeams \in Nat /\ MaxJoinTeams \in Nat
  BY ServiceAssumption
<1> QED
  BY <1>1, <1>2 DEF QuotaOf, QuotaAt

LEMMA InsertRowsBy ==
  ASSUME TypeInv, RowsInv, NEW u \in Users, NEW t \in Teams, members' = Inserted(u, t)
  PROVE  /\ Cardinality(RowsBy(u)') = Cardinality(RowsBy(u)) + 1
         /\ IsFiniteSet(members')
         /\ \A v \in Users \ {u} : RowsBy(v)' = RowsBy(v)
<1> DEFINE new == [id |-> rowSeq + 1, user |-> u, team |-> t]
<1>1. members' = members \cup {new} /\ rowSeq \in Nat
  BY DEF Inserted, TypeInv, TypeOK, DataTypeOK
<1>2. new \notin members
  BY DEF RowsInv, TypeInv, TypeOK, DataTypeOK
<1>3. RowsBy(u)' = RowsBy(u) \cup {new} /\ new \notin RowsBy(u)
  BY <1>1, <1>2 DEF RowsBy
<1>4. \A v \in Users \ {u} : RowsBy(v)' = RowsBy(v)
  BY <1>1 DEF RowsBy
<1>5. IsFiniteSet(RowsBy(u)) /\ IsFiniteSet(members)
  BY FiniteRowsBy DEF RowsInv
<1>6. Cardinality(RowsBy(u)') = Cardinality(RowsBy(u)) + 1
  <2> HIDE DEF new
  <2> QED
    BY <1>3, <1>5, FS_AddElement
<1>7. IsFiniteSet(members')
  BY <1>1, <1>5, FS_AddElement
<1> QED
  BY <1>4, <1>6, <1>7

LEMMA QuotaQuiet ==
  ASSUME TypeInv, QuotaInv, NEW p \in Procs, LocalsKept(p), UNCHANGED dbVars,
         \A u : req'[p].user = u => QuotaAt(p, u)'
  PROVE  QuotaInv'
<1>1. ASSUME NEW u PROVE RowsBy(u)' = RowsBy(u) /\ NotLed(u)' = NotLed(u)
  BY DEF dbVars, RowsBy, NotLed, LedBy, Active
<1>2. ASSUME NEW u \in Users PROVE QuotaOf(u)'
  BY <1>1, QuotaIs DEF QuotaOf
<1>3. ASSUME NEW q \in Procs \ {p}, NEW u, req'[q].user = u PROVE QuotaAt(q, u)'
  BY <1>1, <1>3, QuotaIs DEF QuotaAt, LocalsKept
<1> QED
  BY <1>2, <1>3, QuotaIs

LEMMA QuotaBegin ==
  ASSUME TypeInv, Tables, LeaderIsMember, QuotaInv,
         NEW p \in Procs, NEW u \in Users, Begin(p, u)
  PROVE  QuotaInv'
<1>0. Outside(p) /\ UNCHANGED dbVars
  BY BeginKind DEF TypeInv
<1>1. ASSUME NEW h, NEW l, NEW t, NEW row, Start(p, h, l, u, t, row),
             l \notin {"has", "full", "insert"},
             l = "create" => Cardinality(LedBy(u)) < MaxCreateTeams
      PROVE  QuotaInv'
  <2>0. pc'[p] = l /\ req'[p] = [user |-> u, team |-> t]
    BY <1>1, StartLocals DEF TypeInv
  <2>1. pc'[p] = l /\ req'[p].user = u
    BY <2>0
  <2>2. RowsBy(u)' = RowsBy(u)
    BY <1>0 DEF dbVars, RowsBy
  <2>3. l = "create" => Cardinality(RowsBy(u)) < MaxCreateTeams + MaxJoinTeams
    <3>1. /\ Cardinality(LedBy(u)) \in Nat
          /\ Cardinality(RowsBy(u)) = Cardinality(LedBy(u)) + Cardinality(NotLed(u))
          /\ Cardinality(NotLed(u)) <= MaxJoinTeams
      BY LedRows, QuotaIs DEF QuotaOf
    <3>2. Cardinality(NotLed(u)) \in Nat /\ Cardinality(RowsBy(u)) \in Nat
      BY FiniteRowsBy DEF Tables, RowsInv
    <3> QED
      BY <1>1, <3>1, <3>2, ServiceAssumption
  <2>4. QuotaAt(p, u)'
    BY <1>1, <2>1, <2>2, <2>3 DEF QuotaAt
  <2> QED
    BY <1>0, <2>1, <2>4, QuotaQuiet DEF Outside
<1>2. ASSUME NEW f \in Forms, StartAdd(p, u, f) PROVE QuotaInv'
  BY <1>1, <1>2 DEF StartAdd
<1>3. ASSUME NEW t \in Teams, NEW pw, StartJoin(p, u, t, pw) PROVE QuotaInv'
  BY <1>1, <1>3 DEF StartJoin
<1>4. ASSUME NEW t \in Teams, StartQuit(p, u, t) \/ StartDelete(p, u, t) PROVE QuotaInv'
  BY <1>1, <1>4 DEF StartQuit, StartDelete
<1>5. ASSUME NEW t \in Teams, NEW e \in Edits, StartUpdate(p, u, t, e) PROVE QuotaInv'
  BY <1>1, <1>5 DEF StartUpdate
<1> QED
  BY <1>2, <1>3, <1>4, <1>5 DEF Begin

(* A join goes on only with a count below the limit.                       *)
LEMMA QuotaCheck ==
  ASSUME TypeInv, NEW p \in Procs, Step(p) \/ Failure(p), UNCHANGED dbVars,
         NEW u, req[p].user = u, QuotaAt(p, u)
  PROVE  \A v : req'[p].user = v => QuotaAt(p, v)'
<1> USE DEF TypeInv, TypeOK, At, Goto, Read, Return
<1>1. RowsBy(u)' = RowsBy(u)
  BY DEF dbVars, RowsBy
<1>2. \/ pc'[p] \notin {"create", "has", "full", "insert"}
      \/ /\ req'[p] = req[p]
         /\ \/ pc'[p] = "has" /\ Cardinality(RowsBy(u)) < MaxJoinTeams
            \/ pc'[p] \in {"full", "insert"} /\ pc[p] \in {"has", "full", "insert"}
  <2>1. CASE JoinLock(p) \/ JoinBusy(p) \/ JoinQuota(p) \/ JoinHas(p)
    BY <2>1 DEF JoinLock, JoinBusy, JoinQuota, JoinHas, BodyReturns
  <2>2. CASE JoinFull(p) \/ JoinUnlock(p) \/ JoinInsert(p) \/ BodyFails(p)
    BY <2>2 DEF JoinFull, JoinUnlock, JoinInsert, BodyFails, BodyReturns
  <2>3. CASE \/ QuitLock(p) \/ DeleteLock(p) \/ DeleteRefused(p) \/ LockMiss(p)
             \/ QuitHas(p) \/ QuitCount(p)
    BY <2>3 DEF QuitLock, DeleteLock, DeleteRefused, LockMiss, QuitHas, QuitCount,
                TakeRow, Rollback
  <2>4. CASE \/ QuitPick(p) \/ QuitMove(p) \/ QuitDropSelf(p) \/ DropMembers(p)
             \/ DropTeam(p) \/ Commit(p) \/ TxFails(p)
    BY <2>4 DEF QuitPick, QuitMove, QuitDropSelf, DropMembers, DropTeam, Commit,
                TxFails, Rollback
  <2>5. CASE \/ \E t \in Teams : CreateTeam(p, t)
             \/ UpdateExists(p) \/ UpdateWrite(p) \/ CallFails(p) \/ Crash(p)
    BY <2>5 DEF CreateTeam, UpdateExists, UpdateWrite, CallFails, Crash
  <2> QED
    BY <2>1, <2>2, <2>3, <2>4, <2>5 DEF Step, Blocking, Failure
<1> QED
  BY <1>1, <1>2 DEF QuotaAt

LEMMA QuotaOthers ==
  ASSUME TypeInv, OneRequestEach, QuotaInv, NEW p \in Procs, LocalsKept(p),
         pc[p] # "idle", NEW u, u = req[p].user,
         \A v \in Users \ {u} : RowsBy(v)' = RowsBy(v),
         NEW q \in Procs \ {p}, NEW v, req'[q].user = v
  PROVE  QuotaAt(q, v)'
<1>1. pc'[q] = pc[q] /\ req'[q] = req[q] /\ QuotaAt(q, v)
  BY QuotaIs DEF LocalsKept
<1>2. CASE pc[q] = "idle"
  BY <1>1, <1>2 DEF QuotaAt
<1>3. CASE pc[q] # "idle"
  <2>1. v \in Users \ {u}
    BY <1>1, <1>3 DEF OneRequestEach, TypeInv, RequestInv
  <2> QED
    BY <1>1, <2>1 DEF QuotaAt
<1> QED
  BY <1>2, <1>3

LEMMA QuotaCreate ==
  ASSUME TypeInv, Known, Tables, PolicyInv, OneRequestEach, QuotaInv,
         NEW p \in Procs, NEW t \in Teams, CreateTeam(p, t)
  PROVE  QuotaInv'
<1> USE DEF TypeInv, TypeOK, DataTypeOK
<1>0. PICK u : u = req[p].user
  OBVIOUS
<1>1. /\ pc[p] = "create" /\ u \in Users /\ teams[t].state = "none"
      /\ members' = Inserted(u, t) /\ teams'[t].leader = u
      /\ \A s \in Teams \ {t} : teams'[s] = teams[s]
      /\ LocalsKept(p) /\ pc'[p] = "idle"
  <2>1. pc[p] = "create" /\ u \in Users /\ snap[p].leader = u
    BY <1>0 DEF CreateTeam, At, RequestInv, PolicyInv
  <2>2. LocalsKept(p) /\ pc'[p] = "idle"
    BY ReturnLocals DEF CreateTeam
  <2> QED
    BY <1>0, <2>1, <2>2 DEF CreateTeam
<1>2. /\ Cardinality(RowsBy(u)') = Cardinality(RowsBy(u)) + 1 /\ IsFiniteSet(members')
      /\ \A v \in Users \ {u} : RowsBy(v)' = RowsBy(v)
  BY <1>1, InsertRowsBy DEF Tables
<1>3. /\ Cardinality(RowsBy(u)) \in Nat
      /\ Cardinality(RowsBy(u)) < MaxCreateTeams + MaxJoinTeams
  BY <1>0, <1>1, QuotaIs, FiniteRowsBy DEF QuotaAt, Tables, RowsInv
<1>4. ASSUME NEW v \in Users PROVE NotLed(v)' \subseteq NotLed(v)
  <2>1. \A m \in members : m.team # t
    BY <1>1 DEF Tables, RowsInv, RowsOf
  <2>2. teams'[t].state = "active"
    BY <1>1 DEF CreateTeam, Known, KnownAt
  <2>3. t \in LedBy(u)'
    BY <1>1, <2>2 DEF LedBy, Active
  <2>4. \A s \in Teams \ {t} : s \in LedBy(v)' <=> s \in LedBy(v)
    BY <1>1 DEF LedBy, Active
  <2> QED
    BY <1>1, <2>1, <2>3, <2>4 DEF NotLed, RowsBy, Inserted, Membership
<1>5. ASSUME NEW v \in Users PROVE QuotaOf(v)'
  <2>1. Cardinality(NotLed(v)') <= MaxJoinTeams
    <3>1. IsFiniteSet(NotLed(v)) /\ Cardinality(NotLed(v)) <= MaxJoinTeams
      BY FiniteRowsBy, QuotaIs DEF QuotaOf, Tables, RowsInv
    <3> QED
      BY <1>4, <3>1, Shrinks, ServiceAssumption
  <2>2. Cardinality(RowsBy(v)') <= MaxCreateTeams + MaxJoinTeams
    <3>1. Cardinality(RowsBy(v)) <= MaxCreateTeams + MaxJoinTeams
      BY QuotaIs DEF QuotaOf
    <3> QED
      BY <1>2, <1>3, <3>1, ServiceAssumption
  <2> QED
    BY <2>1, <2>2 DEF QuotaOf
<1>6. ASSUME NEW q \in Procs, NEW v, req'[q].user = v PROVE QuotaAt(q, v)'
  <2>1. CASE q = p
    BY <1>1, <2>1 DEF QuotaAt
  <2>2. CASE q # p
    BY <1>0, <1>1, <1>2, <1>6, <2>2, QuotaOthers
  <2> QED
    BY <2>1, <2>2
<1> QED
  BY <1>5, <1>6, QuotaIs

LEMMA QuotaJoin ==
  ASSUME TypeInv, Tables, OneRequestEach, QuotaInv, NEW p \in Procs, JoinInsert(p)
  PROVE  QuotaInv'
<1> USE DEF TypeInv
<1>0. PICK u, t : u = req[p].user /\ t = req[p].team
  OBVIOUS
<1>1. /\ pc[p] = "insert" /\ u \in Users /\ t \in Teams
      /\ members' = Inserted(u, t) /\ teams' = teams
      /\ LocalsKept(p) /\ pc'[p] = "unlock"
  BY <1>0, GotoLocals DEF JoinInsert, At, BodyReturns, RequestInv
<1>2. /\ Cardinality(RowsBy(u)') = Cardinality(RowsBy(u)) + 1 /\ IsFiniteSet(members')
      /\ \A v \in Users \ {u} : RowsBy(v)' = RowsBy(v)
  BY <1>1, InsertRowsBy DEF Tables
<1>3. Cardinality(RowsBy(u)) \in Nat /\ Cardinality(RowsBy(u)) < MaxJoinTeams
  BY <1>0, <1>1, QuotaIs, FiniteRowsBy DEF QuotaAt, Tables, RowsInv
<1>4. QuotaOf(u)'
  <2>1. /\ Cardinality(NotLed(u)') \in Nat
        /\ Cardinality(NotLed(u)') <= Cardinality(RowsBy(u)')
    <3>1. NotLed(u)' \in SUBSET (RowsBy(u)') /\ RowsBy(u)' \in SUBSET members'
      BY DEF NotLed, RowsBy
    <3> QED
      BY <1>2, <3>1, Shrinks
  <2> QED
    BY <1>2, <1>3, <2>1, ServiceAssumption DEF QuotaOf
<1>5. ASSUME NEW v \in Users \ {u} PROVE QuotaOf(v)'
  <2>1. NotLed(v)' = NotLed(v) /\ RowsBy(v)' = RowsBy(v)
    BY <1>1, <1>2 DEF NotLed, LedBy, Active
  <2> QED
    BY <2>1, QuotaIs DEF QuotaOf
<1>6. ASSUME NEW q \in Procs, NEW v, req'[q].user = v PROVE QuotaAt(q, v)'
  <2>1. CASE q = p
    BY <1>1, <2>1 DEF QuotaAt
  <2>2. CASE q # p
    BY <1>0, <1>1, <1>2, <1>6, <2>2, QuotaOthers
  <2> QED
    BY <2>1, <2>2
<1> QED
  BY <1>4, <1>5, <1>6, QuotaIs

LEMMA QuotaCommit ==
  ASSUME Base, Tables, QuotaInv, NEW p \in Procs, Commit(p)
  PROVE  QuotaInv'
<1> USE DEF Base, TypeInv, TypeOK, DataTypeOK
<1>0. PICK u, t : u = req[p].user /\ t = req[p].team
  OBVIOUS
<1>1. /\ u \in Users /\ t \in Teams /\ snap[p] = teams[t]
      /\ Departs(p, u, t) \/ Succeeds(p, u, t) \/ Dissolves(p, u, t)
  BY <1>0, CommitKinds
<1>2. LocalsKept(p) /\ pc'[p] = "idle"
  BY ReturnLocals DEF Commit
<1>3. ASSUME NEW v \in Users
      PROVE  RowsBy(v)' \subseteq RowsBy(v) /\ NotLed(v)' \subseteq NotLed(v)
  <2>1. RowsBy(v)' \subseteq RowsBy(v)
    BY DEF Commit, RowsBy
  <2>2. CASE Departs(p, u, t)
    BY <2>1, <2>2 DEF Departs, NotLed, LedBy, Active
  <2>3. ASSUME Succeeds(p, u, t) \/ Dissolves(p, u, t),
               NEW m \in members', m.user = v, m.team \in LedBy(v)
        PROVE  m.team \in LedBy(v)'
    <3>1. CASE m.team # t
      BY <2>3, <3>1 DEF Succeeds, Dissolves, LedBy, Active
    <3>2. CASE m.team = t
      <4>1. Succeeds(p, u, t) /\ teams[t].leader = u
        BY <1>0, <1>1, <2>3, <3>2 DEF Succeeds, Dissolves, RowsOf, HandingOver
      <4>2. v # u
        BY <2>3, <3>2, <4>1 DEF Succeeds, RowsIn
      <4> QED
        BY <2>3, <3>2, <4>1, <4>2 DEF LedBy
    <3> QED
      BY <3>1, <3>2
  <2>4. members' \subseteq members
    BY DEF Commit
  <2> QED
    BY <1>1, <2>1, <2>2, <2>3, <2>4 DEF NotLed, RowsBy
<1>4. IsFiniteSet(members)
  BY DEF Tables, RowsInv
<1>5. ASSUME NEW v \in Users PROVE QuotaOf(v)'
  BY <1>3, <1>4, QuotaIs, QuotaShrinks
<1>6. ASSUME NEW q \in Procs, NEW v, req'[q].user = v PROVE QuotaAt(q, v)'
  <2>1. CASE pc'[q] = "idle"
    BY <2>1 DEF QuotaAt
  <2>2. CASE pc'[q] # "idle"
    <3>1. q # p /\ pc'[q] = pc[q] /\ req'[q] = req[q]
      BY <1>2, <2>2 DEF LocalsKept
    <3>2. QuotaAt(q, v) /\ v \in Users
      BY <1>6, <2>2, <3>1, QuotaIs DEF RequestInv
    <3>3. QuotaOf(v)
      BY <3>2, QuotaIs
    <3> QED
      BY <1>3, <1>4, <3>1, <3>2, <3>3, QuotaShrinks
  <2> QED
    BY <2>1, <2>2
<1> QED
  BY <1>5, <1>6, QuotaIs

LEMMA QuotaStep ==
  ASSUME RosterInv, NoUpdate, LeaderIsMember, OneRequestEach, QuotaInv, [Next]_vars
  PROVE  QuotaInv'
<1>0. Base /\ TypeInv /\ Known /\ Tables /\ PolicyInv
  BY RosterInvBase DEF RosterInv, JoinInvariant
<1>1. ASSUME NEW p \in Procs, NEW u \in Users, Begin(p, u) PROVE QuotaInv'
  BY <1>0, <1>1, QuotaBegin
<1>2. ASSUME NEW p \in Procs, Step(p) \/ Failure(p) PROVE QuotaInv'
  <2>1. CASE UNCHANGED dbVars
    <3>1. LocalsKept(p)
      BY <1>0, <1>2, StepKind DEF Base, Outside, Locks, Inside, Ends
    <3>2. PICK u : req[p].user = u
      OBVIOUS
    <3>3. QuotaAt(p, u)
      BY <3>2, QuotaIs
    <3>4. \A v : req'[p].user = v => QuotaAt(p, v)'
      BY <1>0, <1>2, <2>1, <3>2, <3>3, QuotaCheck
    <3> QED
      BY <1>0, <2>1, <3>1, <3>4, QuotaQuiet
  <2>2. CASE UpdateWrite(p)
    BY <2>2 DEF UpdateWrite, At, NoUpdate
  <2> QED
    BY <1>0, <1>2, <2>1, <2>2, Writers, QuotaCreate, QuotaJoin, QuotaCommit
<1>3. CASE Tick \/ (\E t \in Teams : Expire(t)) \/ UNCHANGED vars
  <2>1. UNCHANGED <<teams, members, pc, req>>
    BY <1>3 DEF Tick, Expire, local, vars, dbVars
  <2> QED
    BY <2>1 DEF QuotaInv, QuotaBound, RowsBy, NotLed, LedBy, Active
<1> QED
  BY <1>1, <1>2, <1>3 DEF Next

(* A user that sends one request at a time is never in more teams than the *)
(* two quotas together allow, whatever other users do: the counts that Add *)
(* and Join have read are still right when they insert, since handovers    *)
(* give a user a team it is already in (service.go:72, 283, 297).          *)
THEOREM QuotaHolds ==
  ASSUME TTLCovers, "update" \notin Handlers
  PROVE  Spec /\ []OneRequestEach => []QuotaBound
<1> DEFINE Inv == RosterInv /\ NoUpdate /\ LeaderIsMember /\ QuotaInv
<1>1. Init => Inv
  <2>1. Init => NoUpdate /\ LeaderIsMember
    BY DEF Init, DataInit, NoRow, NoUpdate, LeaderIsMember, Active
  <2>2. Init => QuotaInv
    <3> SUFFICES ASSUME Init PROVE QuotaInv
      OBVIOUS
    <3>1. ASSUME NEW u PROVE QuotaOf(u)
      <4>1. RowsBy(u) = {} /\ NotLed(u) = {}
        BY DEF Init, DataInit, RowsBy, NotLed
      <4> QED
        BY <4>1, FS_EmptySet, ServiceAssumption DEF QuotaOf
    <3>2. ASSUME NEW p \in Procs, NEW u PROVE QuotaAt(p, u)
      BY DEF Init, QuotaAt
    <3> QED
      BY <3>1, <3>2, QuotaIs
  <2> QED
    BY <2>1, <2>2, RosterInvInit
<1>2. Inv /\ OneRequestEach /\ [Next]_vars => Inv'
  <2> SUFFICES ASSUME Inv, OneRequestEach, [Next]_vars PROVE Inv'
    OBVIOUS
  <2>1. LeaderIsMember'
    BY RosterInvBase, LedStep DEF LeaderIsMember, Led, RosterInv
  <2> QED
    BY <2>1, RosterInvBase, RosterInvStep, NoUpdateStep, QuotaStep
<1>3. Inv => QuotaBound
  BY DEF QuotaInv
<1> QED
  BY <1>1, <1>2, <1>3, PTL DEF Spec
=============================================================================
