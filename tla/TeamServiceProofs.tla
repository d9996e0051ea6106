-------------------------- MODULE TeamServiceProofs --------------------------
(***************************************************************************)
(* Theorems about TeamService for every set of users, teams and requests.  *)
(***************************************************************************)
EXTENDS TeamServiceInv, FiniteSetTheorems, WellFoundedInduction, TLAPS

-----------------------------------------------------------------------------
(* The earliest row of a team.                                             *)

(* Every non-empty set of naturals has a least element: the initial        *)
(* segments below its elements are finite sets, and one is least.          *)
LEMMA LeastNatural ==
  ASSUME NEW T \in SUBSET Nat, T # {}
  PROVE  \E m \in T : \A n \in T : m <= n
<1> DEFINE Below(m) == 0 .. (m - 1)
           Segments == {Below(m) : m \in T}
<1>1. Segments \subseteq FiniteSubsetsOf(Nat)
  <2>1. ASSUME NEW m \in T
        PROVE  Below(m) \in SUBSET Nat /\ IsFiniteSet(Below(m))
    <3>1. 0 \in Int /\ m - 1 \in Int
      OBVIOUS
    <3> QED
      BY <3>1, FS_Interval
  <2> HIDE DEF Below
  <2> QED
    BY <2>1 DEF FiniteSubsetsOf
<1>2. PICK s \in Segments :
        \A r \in Segments : ~ (<<r, s>> \in StrictSubsetOrdering(Nat))
  <2> HIDE DEF Segments
  <2>1. Segments # {}
    BY DEF Segments
  <2> QED
    BY <1>1, <2>1, FS_StrictSubsetOrderingWellFounded, WFMin
<1>3. PICK m \in T : s = Below(m)
  OBVIOUS
<1>4. ASSUME NEW n \in T, n < m PROVE FALSE
  <2>1. Below(n) \subseteq Below(m) /\ Below(n) # Below(m)
    <3>1. n \in Below(m) /\ n \notin Below(n)
      BY <1>4
    <3> QED
      BY <3>1, <1>4
  <2>2. Below(n) \in Segments
    OBVIOUS
  <2>3. Below(n) \in SUBSET Nat /\ Below(m) \in SUBSET Nat
    OBVIOUS
  <2>4. <<Below(n), Below(m)>> \in StrictSubsetOrdering(Nat)
    <3> HIDE DEF Below
    <3> QED
      BY <2>1, <2>3 DEF StrictSubsetOrdering
  <2> HIDE DEF Below
  <2> QED
    BY <1>2, <1>3, <2>2, <2>4
<1> QED
  BY <1>4

LEMMA EarliestExists ==
  ASSUME NEW rows, rows # {}, rows \subseteq Membership
  PROVE  Earliest(rows) \in rows /\ \A o \in rows : Earliest(rows).id <= o.id
<1> DEFINE Ids == {m.id : m \in rows}
<1>1. Ids \in SUBSET Nat /\ Ids # {}
  BY DEF Membership
<1>2. PICK n \in Ids : \A k \in Ids : n <= k
  <2> HIDE DEF Ids
  <2> QED
    BY <1>1, LeastNatural
<1>3. \E m \in rows : \A o \in rows : m.id <= o.id
  BY <1>2
<1> QED
  BY <1>3 DEF Earliest

-----------------------------------------------------------------------------
(* Type correctness.                                                       *)

LEMMA NullTypes == NoRow \in TeamRow /\ NoReq \in Requests /\ NoTx \in Writes
BY DataAssumption
   DEF NoRow, TeamRow, NoReq, NoTx, Requests, Writes, Statuses, Times

LEMMA InitTypes == Init => TypeOK
BY NullTypes, DataAssumption
   DEF Init, TypeOK, DataInit, DataTypeOK, L!LockInit, L!LockTypeOK,
       L!Phases, Labels

LEMMA GotoType ==
  ASSUME TypeOK, NEW p \in Procs, NEW l \in Labels, Goto(p, l)
  PROVE  pc' \in [Procs -> Labels]
BY DEF TypeOK, Goto

LEMMA ReturnType ==
  ASSUME TypeOK, NEW p \in Procs, Return(p)
  PROVE  /\ pc' \in [Procs -> Labels]
         /\ req' \in [Procs -> Requests]
         /\ snap' \in [Procs -> TeamRow]
         /\ tx' \in [Procs -> Writes]
BY NullTypes DEF TypeOK, Goto, Return, Labels

LEMMA ReadType ==
  ASSUME TypeOK, NEW p \in Procs, NEW l \in Labels, Read(p, l)
  PROVE  TypeOK'
BY GotoType
   DEF TypeOK, Read, dbVars, lockVars, DataTypeOK, L!LockTypeOK

LEMMA RollbackType ==
  ASSUME TypeOK, NEW p \in Procs, Rollback(p)
  PROVE  TypeOK'
BY ReturnType
   DEF TypeOK, Rollback, dbVars, lockVars, DataTypeOK, L!LockTypeOK

LEMMA BodyReturnsType ==
  ASSUME TypeOK, NEW p \in Procs, BodyReturns(p)
  PROVE  /\ L!LockTypeOK'
         /\ pc' \in [Procs -> Labels]
         /\ UNCHANGED <<rowLock, now, req, snap, tx>>
BY DEF TypeOK, BodyReturns, L!FnReturns, L!LockTypeOK, L!Phases, Goto, Labels

LEMMA StartType ==
  ASSUME TypeOK, NEW p \in Procs, NEW h, NEW l \in Labels, NEW u \in Users,
         NEW t \in Teams \cup {NoTeam}, NEW row \in TeamRow,
         Start(p, h, l, u, t, row)
  PROVE  TypeOK'
<1>1. [user |-> u, team |-> t] \in Requests
  BY DEF Requests
<1> QED
  BY <1>1, GotoType
     DEF TypeOK, Start, dbVars, lockVars, DataTypeOK, L!LockTypeOK

LEMMA InsertedType ==
  ASSUME TypeOK, NEW u \in Users, NEW t \in Teams
  PROVE  Inserted(u, t) \subseteq Membership /\ rowSeq + 1 \in Nat
BY DEF TypeOK, DataTypeOK, Inserted, Membership

LEMMA SuccessorType ==
  ASSUME TypeOK, NEW u, NEW t \in Teams, RowsOf(t) # RowsIn(u, t)
  PROVE  Successor(u, t) \in Users \ {u}
<1> DEFINE rows == RowsOf(t) \ RowsIn(u, t)
<1>1. rows # {} /\ rows \subseteq Membership
  BY DEF TypeOK, DataTypeOK, RowsOf, RowsIn
<1>2. Earliest(rows) \in rows
  BY <1>1, EarliestExists
<1>3. \A m \in rows : m.user \in Users \ {u}
  BY <1>1 DEF RowsOf, RowsIn, Membership
<1> QED
  BY <1>2, <1>3 DEF Successor

LEMMA EditedType ==
  ASSUME NEW row \in TeamRow, NEW e \in Edits
  PROVE  Edited(row, e) \in TeamRow
BY ServiceAssumption DEF Edited, Given, TeamRow

LEMMA FormType ==
  ASSUME NEW u \in Users, NEW f \in Forms,
         f.max \in minTeamMembers .. MaxTeamMembers,
         f.status = "secret" => f.pw \in Passwords
  PROVE  [state |-> "active", leader |-> u, max |-> f.max,
          status |-> f.status, expire |-> f.expire,
          pw |-> IF f.status = "secret" THEN f.pw ELSE Empty] \in TeamRow
BY ServiceAssumption DEF TeamRow, minTeamMembers

(* What each request does keeps the types, and the fact that a request     *)
(* under way has a user and a team.                                        *)
TypeInv == TypeOK /\ RequestInv

LEMMA BeginTypes ==
  ASSUME TypeInv, NEW p \in Procs, NEW u \in Users, Begin(p, u)
  PROVE  TypeOK'
<1> USE DEF TypeInv
<1>0. \A t \in Teams : teams[t] \in TeamRow
  BY DEF TypeOK, DataTypeOK
<1>1. ASSUME NEW f \in Forms, StartAdd(p, u, f) PROVE TypeOK'
  BY <1>1, FormType, StartType DEF StartAdd, Labels, Single
<1>2. ASSUME NEW t \in Teams, NEW pw, StartJoin(p, u, t, pw) PROVE TypeOK'
  BY <1>0, <1>2, StartType DEF StartJoin, Labels, Single
<1>3. ASSUME NEW t \in Teams, StartQuit(p, u, t) PROVE TypeOK'
  BY <1>3, NullTypes, StartType DEF StartQuit, Labels, Single
<1>4. ASSUME NEW t \in Teams, StartDelete(p, u, t) PROVE TypeOK'
  BY <1>4, NullTypes, StartType DEF StartDelete, Labels, Single
<1>5. ASSUME NEW t \in Teams, NEW e \in Edits, StartUpdate(p, u, t, e)
      PROVE  TypeOK'
  BY <1>0, <1>5, EditedType, StartType DEF StartUpdate, Labels, Single
<1> QED
  BY <1>1, <1>2, <1>3, <1>4, <1>5 DEF Begin

LEMMA JoinTypes ==
  ASSUME TypeInv, NEW p \in Procs,
         \/ JoinLock(p) \/ JoinBusy(p) \/ JoinQuota(p) \/ JoinHas(p)
         \/ JoinFull(p) \/ JoinUnlock(p) \/ JoinInsert(p) \/ BodyFails(p)
  PROVE  TypeOK'
<1> USE DEF TypeInv, At
<1>1. ASSUME UNCHANGED dbVars, BodyReturns(p) PROVE TypeOK'
  BY <1>1, BodyReturnsType DEF TypeOK, dbVars, DataTypeOK
<1>2. CASE JoinLock(p)
  BY <1>2, GotoType
     DEF JoinLock, L!Acquire, TypeOK, dbVars, DataTypeOK, L!LockTypeOK,
         L!Phases, Labels, InJoinBody, RequestInv
<1>3. CASE JoinBusy(p)
  <2>1. L!LockTypeOK'
    BY <1>3 DEF JoinBusy, L!Refused, L!AcquireError, L!lockVars, TypeOK,
                L!LockTypeOK
  <2> QED
    BY <1>3, <2>1, ReturnType DEF JoinBusy, TypeOK, dbVars, DataTypeOK
<1>4. CASE JoinQuota(p)
  BY <1>4, <1>1, ReadType DEF JoinQuota, Labels, InJoinBody
<1>5. CASE JoinHas(p)
  BY <1>5, <1>1, ReadType DEF JoinHas, Labels, InJoinBody
<1>6. CASE JoinFull(p)
  BY <1>6, <1>1, ReadType DEF JoinFull, Labels, InJoinBody
<1>7. CASE JoinUnlock(p)
  <2>1. L!LockTypeOK'
    BY <1>7 DEF JoinUnlock, L!Unlock, L!UnlockError, TypeOK, L!LockTypeOK,
                L!Phases
  <2> QED
    BY <1>7, <2>1, ReturnType DEF JoinUnlock, TypeOK, dbVars, DataTypeOK
<1>8. CASE JoinInsert(p)
  <2>1. DataTypeOK'
    BY <1>8, InsertedType DEF JoinInsert, TypeOK, DataTypeOK, RequestInv
  <2> QED
    BY <1>8, <2>1, BodyReturnsType DEF JoinInsert, TypeOK
<1>9. CASE BodyFails(p)
  BY <1>9, <1>1 DEF BodyFails
<1> QED
  BY <1>2, <1>3, <1>4, <1>5, <1>6, <1>7, <1>8, <1>9

LEMMA ReturnOnlyType ==
  ASSUME TypeOK, NEW p \in Procs, Return(p),
         UNCHANGED <<dbVars, lockVars, rowLock, now>>
  PROVE  TypeOK'
BY ReturnType DEF TypeOK, dbVars, lockVars, DataTypeOK, L!LockTypeOK

LEMMA TakeRowType ==
  ASSUME TypeInv, NEW p \in Procs, pc[p] \in {"quit", "delete"},
         NEW l \in Labels, TakeRow(p, l)
  PROVE  TypeOK'
<1>1. teams[req[p].team] \in TeamRow
  BY DEF TypeInv, TypeOK, DataTypeOK, RequestInv
<1> QED
  BY <1>1, GotoType
     DEF TypeInv, TakeRow, TypeOK, dbVars, lockVars, DataTypeOK, L!LockTypeOK

LEMMA WrittenType ==
  ASSUME TypeOK, NEW p \in Procs, NEW t \in Teams
  PROVE  Written(p, t) \in TeamRow
<1>1. teams[t] \in TeamRow /\ tx[p] \in Writes
  BY DEF TypeOK, DataTypeOK
<1> QED
  BY <1>1 DEF Written, TeamRow, Writes

(* A statement of a transaction that only adds to its writes.              *)
LEMMA WritesType ==
  ASSUME TypeOK, NEW p \in Procs, NEW l \in Labels, NEW w \in Writes,
         tx' = [tx EXCEPT ![p] = w], Goto(p, l),
         UNCHANGED <<dbVars, lockVars, rowLock, now, req, snap>>
  PROVE  TypeOK'
BY GotoType DEF TypeOK, dbVars, lockVars, DataTypeOK, L!LockTypeOK

LEMMA TxTypes ==
  ASSUME TypeInv, NEW p \in Procs,
         \/ QuitLock(p) \/ DeleteLock(p) \/ DeleteRefused(p) \/ LockMiss(p)
         \/ QuitHas(p) \/ QuitCount(p) \/ QuitPick(p) \/ QuitMove(p)
         \/ QuitDropSelf(p) \/ DropMembers(p) \/ DropTeam(p) \/ Commit(p)
         \/ TxFails(p)
  PROVE  TypeOK'
<1> USE DEF TypeInv, At
<1>0. tx[p] \in Writes
  BY DEF TypeOK
<1>1. CASE QuitLock(p)
  BY <1>1, TakeRowType DEF QuitLock, Labels, InTx
<1>2. CASE DeleteLock(p)
  BY <1>2, TakeRowType DEF DeleteLock, Labels, InTx
<1>3. CASE DeleteRefused(p) \/ LockMiss(p)
  BY <1>3, ReturnOnlyType DEF DeleteRefused, LockMiss
<1>4. CASE QuitHas(p)
  BY <1>4, ReadType, RollbackType DEF QuitHas, Labels, InTx
<1>5. CASE QuitCount(p)
  BY <1>5, ReadType DEF QuitCount, Labels, InTx
<1>6. CASE QuitPick(p)
  <2>1. CASE Rollback(p)
    BY <2>1, RollbackType
  <2>2. CASE ~ Rollback(p)
    <3>1. /\ tx' = [tx EXCEPT ![p].leader =
                                Successor(req[p].user, req[p].team)]
          /\ RowsOf(req[p].team) # RowsIn(req[p].user, req[p].team)
          /\ Goto(p, "qmove")
          /\ UNCHANGED <<dbVars, lockVars, rowLock, now, req, snap>>
      BY <1>6, <2>2 DEF QuitPick
    <3>2. Successor(req[p].user, req[p].team) \in Users
      BY <1>6, <3>1, SuccessorType DEF QuitPick, RequestInv
    <3>3. [tx[p] EXCEPT !.leader = Successor(req[p].user, req[p].team)]
            \in Writes
      BY <1>0, <3>2 DEF Writes
    <3> QED
      BY <3>1, <3>3, WritesType DEF Labels, InTx
  <2> QED
    BY <2>1, <2>2
<1>7. CASE QuitMove(p)
  BY <1>7, ReadType, RollbackType DEF QuitMove, Labels, InTx
<1>8. CASE QuitDropSelf(p)
  <2>1. [tx[p] EXCEPT !.gone = {req[p].user}] \in Writes
    BY <1>0, <1>8 DEF Writes, RequestInv, QuitDropSelf
  <2> QED
    BY <1>8, <2>1, WritesType, RollbackType DEF QuitDropSelf, Labels, InTx
<1>9. CASE DropMembers(p)
  <2>1. {m.user : m \in RowsOf(req[p].team)} \subseteq Users
    BY DEF RowsOf, TypeOK, DataTypeOK, Membership
  <2>2. [tx[p] EXCEPT !.gone = {m.user : m \in RowsOf(req[p].team)}] \in Writes
    BY <1>0, <2>1 DEF Writes
  <2> QED
    BY <1>9, <2>2, WritesType DEF DropMembers, Labels, InTx
<1>10. CASE DropTeam(p)
  <2>1. [tx[p] EXCEPT !.disband = TRUE] \in Writes
    BY <1>0 DEF Writes
  <2> QED
    BY <1>10, <2>1, WritesType, RollbackType DEF DropTeam, Labels, InTx
<1>11. CASE Commit(p)
  <2>1. req[p].team \in Teams
    BY <1>11 DEF Commit, RequestInv
  <2>2. DataTypeOK'
    BY <1>11, <2>1, WrittenType DEF Commit, TypeOK, DataTypeOK
  <2> QED
    BY <1>11, <2>1, <2>2, ReturnType
       DEF Commit, TypeOK, lockVars, L!LockTypeOK
<1>12. CASE TxFails(p)
  BY <1>12, RollbackType DEF TxFails
<1> QED
  BY <1>1, <1>2, <1>3, <1>4, <1>5, <1>6, <1>7, <1>8, <1>9, <1>10, <1>11, <1>12

LEMMA OtherTypes ==
  ASSUME TypeInv, NEW p \in Procs,
         \/ \E t \in Teams : CreateTeam(p, t)
         \/ UpdateExists(p) \/ UpdateWrite(p) \/ CallFails(p) \/ Crash(p)
  PROVE  TypeOK'
<1> USE DEF TypeInv, At
<1>1. ASSUME NEW t \in Teams, CreateTeam(p, t) PROVE TypeOK'
  <2>1. DataTypeOK'
    BY <1>1, InsertedType DEF CreateTeam, TypeOK, DataTypeOK, RequestInv
  <2> QED
    BY <1>1, <2>1, ReturnType DEF CreateTeam, TypeOK, lockVars, L!LockTypeOK
<1>2. CASE UpdateExists(p)
  BY <1>2, ReadType, ReturnOnlyType DEF UpdateExists, Labels, Single
<1>3. CASE UpdateWrite(p)
  <2>1. [snap[p] EXCEPT !.state = teams[req[p].team].state] \in TeamRow
    BY <1>3 DEF UpdateWrite, TypeOK, DataTypeOK, RequestInv, TeamRow
  <2>2. DataTypeOK'
    BY <1>3, <2>1 DEF UpdateWrite, TypeOK, DataTypeOK
  <2> QED
    BY <1>3, <2>2, ReturnType DEF UpdateWrite, TypeOK, lockVars, L!LockTypeOK
<1>4. CASE CallFails(p)
  BY <1>4, ReturnOnlyType DEF CallFails
<1>5. CASE Crash(p)
  <2>1. L!LockTypeOK'
    BY <1>5 DEF Crash, L!Crash, TypeOK, L!LockTypeOK, L!Phases
  <2> QED
    BY <1>5, <2>1, ReturnType DEF Crash, TypeOK, dbVars, DataTypeOK
<1> QED
  BY <1>1, <1>2, <1>3, <1>4, <1>5

LEMMA TimeTypes ==
  ASSUME TypeInv, Tick \/ \E t \in Teams : Expire(t)
  PROVE  TypeOK'
<1> USE DEF TypeInv
<1>1. CASE Tick
  BY <1>1, DataAssumption
     DEF Tick, TypeOK, dbVars, lockVars, local, DataTypeOK, L!LockTypeOK
<1>2. ASSUME NEW t \in Teams, Expire(t) PROVE TypeOK'
  BY <1>2 DEF Expire, L!Expire, TypeOK, dbVars, local, DataTypeOK, L!LockTypeOK
<1> QED
  BY <1>1, <1>2

-----------------------------------------------------------------------------
(* A step of request p starts it, ends it, or moves it to another          *)
(* statement; the other requests stay where they are.                      *)

Begins(p) ==
  \E u \in Users, t \in Teams \cup {NoTeam}, l \in Labels :
    /\ req' = [req EXCEPT ![p] = [user |-> u, team |-> t]]
    /\ Goto(p, l)
    /\ l # "create" => t \in Teams

Moves(p) ==
  /\ pc[p] \notin {"idle", "create"}
  /\ UNCHANGED req
  /\ \E l \in Labels : Goto(p, l)

LEMMA BeginShape ==
  ASSUME NEW p \in Procs, NEW u \in Users, Begin(p, u)
  PROVE  Begins(p)
<1> USE DEF Start, Begins, Labels, Single
<1>1. ASSUME NEW f \in Forms, StartAdd(p, u, f) PROVE Begins(p)
  BY <1>1 DEF StartAdd
<1>2. ASSUME NEW t \in Teams, NEW pw, StartJoin(p, u, t, pw) PROVE Begins(p)
  BY <1>2 DEF StartJoin
<1>3. ASSUME NEW t \in Teams, StartQuit(p, u, t) PROVE Begins(p)
  BY <1>3 DEF StartQuit
<1>4. ASSUME NEW t \in Teams, StartDelete(p, u, t) PROVE Begins(p)
  BY <1>4 DEF StartDelete
<1>5. ASSUME NEW t \in Teams, NEW e \in Edits, StartUpdate(p, u, t, e)
      PROVE  Begins(p)
  BY <1>5 DEF StartUpdate
<1> QED
  BY <1>1, <1>2, <1>3, <1>4, <1>5 DEF Begin

LEMMA StepShape ==
  ASSUME NEW p \in Procs, Step(p) \/ Failure(p)
  PROVE  Return(p) \/ Moves(p)
<1> USE DEF At, Moves, Read, Rollback, BodyReturns, TakeRow, Labels, Single,
            InTx, InJoinBody
<1>1. CASE \/ JoinLock(p) \/ JoinBusy(p) \/ JoinQuota(p) \/ JoinHas(p)
           \/ JoinFull(p) \/ JoinUnlock(p) \/ JoinInsert(p) \/ BodyFails(p)
  BY <1>1 DEF JoinLock, JoinBusy, JoinQuota, JoinHas, JoinFull, JoinUnlock,
              JoinInsert, BodyFails
<1>2. CASE \/ QuitLock(p) \/ DeleteLock(p) \/ DeleteRefused(p) \/ LockMiss(p)
           \/ QuitHas(p) \/ QuitCount(p)
  BY <1>2 DEF QuitLock, DeleteLock, DeleteRefused, LockMiss, QuitHas, QuitCount
<1>3. CASE \/ QuitPick(p) \/ QuitMove(p) \/ QuitDropSelf(p) \/ DropMembers(p)
           \/ DropTeam(p) \/ Commit(p) \/ TxFails(p)
  BY <1>3 DEF QuitPick, QuitMove, QuitDropSelf, DropMembers, DropTeam, Commit,
              TxFails
<1>4. CASE \/ \E t \in Teams : CreateTeam(p, t)
           \/ UpdateExists(p) \/ UpdateWrite(p) \/ CallFails(p) \/ Crash(p)
  BY <1>4 DEF CreateTeam, UpdateExists, UpdateWrite, CallFails, Crash
<1> QED
  BY <1>1, <1>2, <1>3, <1>4 DEF Step, Blocking, Failure

LEMMA RequestStep ==
  ASSUME TypeOK, RequestInv, NEW p \in Procs,
         Begins(p) \/ Return(p) \/ Moves(p)
  PROVE  RequestInv'
<1> USE DEF TypeOK, RequestInv, Goto
<1>1. CASE Begins(p)
  BY <1>1 DEF Begins
<1>2. CASE Return(p)
  BY <1>2 DEF Return
<1>3. CASE Moves(p)
  BY <1>3 DEF Moves
<1> QED
  BY <1>1, <1>2, <1>3

LEMMA TypeInvStep ==
  ASSUME TypeInv, [Next]_vars
  PROVE  TypeInv'
<1>1. ASSUME NEW p \in Procs, NEW u \in Users, Begin(p, u) PROVE TypeInv'
  BY <1>1, BeginTypes, BeginShape, RequestStep DEF TypeInv
<1>2. ASSUME NEW p \in Procs, Step(p) \/ Failure(p) PROVE TypeInv'
  <2>1. TypeOK'
    BY <1>2, JoinTypes, TxTypes, OtherTypes DEF Step, Blocking, Failure
  <2>2. RequestInv'
    BY <1>2, StepShape, RequestStep DEF TypeInv
  <2> QED
    BY <2>1, <2>2 DEF TypeInv
<1>3. CASE Tick \/ \E t \in Teams : Expire(t)
  <2>1. RequestInv'
    BY <1>3 DEF Tick, Expire, local, TypeInv, RequestInv
  <2> QED
    BY <1>3, <2>1, TimeTypes DEF TypeInv
<1>4. CASE UNCHANGED vars
  BY <1>4 DEF vars, dbVars, lockVars, local, TypeInv, TypeOK, RequestInv,
              DataTypeOK, L!LockTypeOK
<1> QED
  BY <1>1, <1>2, <1>3, <1>4 DEF Next

(* Every reachable state of the team service has the type TypeOK: the      *)
(* rows, locks and local variables of every request keep their shape.      *)
THEOREM TypeCorrect == Spec => []TypeOK
<1>1. Init => TypeInv
  BY InitTypes DEF Init, TypeInv, RequestInv
<1>2. TypeInv /\ [Next]_vars => TypeInv'
  BY TypeInvStep
<1>3. TypeInv => TypeOK
  BY DEF TypeInv
<1> QED
  BY <1>1, <1>2, <1>3, PTL DEF Spec

-----------------------------------------------------------------------------
(* The join lock.                                                          *)

(* The locals of the requests other than p.                                *)
OthersKept(p) ==
  \A q \in Procs \ {p} : pc'[q] = pc[q] /\ req'[q] = req[q] /\ snap'[q] = snap[q]

LockLabels == InJoinBody \cup {"unlock"}

LEMMA ReturnFacts ==
  ASSUME TypeOK, NEW p \in Procs, Return(p)
  PROVE  OthersKept(p) /\ pc'[p] = "idle"
BY DEF TypeOK, Return, Goto, OthersKept

LEMMA GotoFacts ==
  ASSUME TypeOK, NEW p \in Procs, NEW l, Goto(p, l), UNCHANGED <<req, snap>>
  PROVE  OthersKept(p) /\ pc'[p] = l /\ req'[p] = req[p] /\ snap'[p] = snap[p]
BY DEF TypeOK, Goto, OthersKept

LEMMA StartFacts ==
  ASSUME TypeOK, NEW p \in Procs, NEW h, NEW l, NEW u, NEW t, NEW row,
         Start(p, h, l, u, t, row)
  PROVE  /\ OthersKept(p) /\ UNCHANGED dbVars /\ UNCHANGED lockVars
         /\ pc[p] = "idle" /\ pc'[p] = l /\ snap'[p] = row
         /\ req'[p] = [user |-> u, team |-> t]
BY DEF TypeOK, Start, Goto, OthersKept, At

LEMMA TakeRowFacts ==
  ASSUME TypeOK, NEW p \in Procs, NEW l, TakeRow(p, l)
  PROVE  /\ OthersKept(p) /\ UNCHANGED dbVars /\ UNCHANGED lockVars
         /\ pc'[p] = l /\ req'[p] = req[p]
BY DEF TypeOK, TakeRow, Goto, OthersKept

(* A step outside RunWithLock, or from one statement of doJoin to another, *)
(* leaves the lock alone.                                                  *)
LEMMA LockQuiet ==
  ASSUME TypeOK, LockInv, NEW p \in Procs, OthersKept(p), UNCHANGED lockVars,
         \/ pc[p] \notin LockLabels /\ pc'[p] \notin LockLabels
         \/ pc[p] \in InJoinBody /\ pc'[p] \in InJoinBody /\ req'[p] = req[p]
  PROVE  LockInv'
<1> SUFFICES ASSUME NEW q \in Procs
    PROVE  /\ phase'[q] = "fn" <=> pc'[q] \in InJoinBody
           /\ phase'[q] = "unlock" <=> pc'[q] = "unlock"
           /\ phase'[q] # "idle" => lockKey'[q] = req'[q].team
           /\ TTLCovers /\ phase'[q] = "fn" => held'[req'[q].team] = q
  BY DEF LockInv
<1>1. CASE q # p
  BY <1>1 DEF LockInv, OthersKept, lockVars
<1>2. CASE q = p
  BY <1>2 DEF LockInv, lockVars, LockLabels, InJoinBody, TypeOK, L!LockTypeOK,
              L!Phases
<1> QED
  BY <1>1, <1>2

LEMMA LockBodyReturns ==
  ASSUME TypeOK, LockInv, NEW p \in Procs, BodyReturns(p)
  PROVE  LockInv'
<1>1. OthersKept(p) /\ pc'[p] = "unlock" /\ req'[p] = req[p]
  BY GotoFacts DEF BodyReturns
<1> QED
  BY <1>1 DEF BodyReturns, L!FnReturns, LockInv, OthersKept, InJoinBody,
              TypeOK, L!LockTypeOK, L!Phases

LEMMA BodyHasTeam ==
  ASSUME RequestInv, LockInv, NEW q \in Procs, phase[q] = "fn"
  PROVE  pc[q] \in InJoinBody /\ req[q].team \in Teams
BY DEF RequestInv, LockInv, InJoinBody

LEMMA JoinLockStep ==
  ASSUME TypeInv, LockInv, NEW p \in Procs,
         \/ JoinLock(p) \/ JoinBusy(p) \/ JoinQuota(p) \/ JoinHas(p)
         \/ JoinFull(p) \/ JoinUnlock(p) \/ JoinInsert(p) \/ BodyFails(p)
         \/ Crash(p)
  PROVE  LockInv'
<1> USE DEF TypeInv, At
<1>1. CASE JoinLock(p)
  <2>1. OthersKept(p) /\ pc'[p] = "quota" /\ req'[p] = req[p]
    BY <1>1, GotoFacts DEF JoinLock
  <2>2. req[p].team \in Teams
    BY <1>1 DEF JoinLock, RequestInv
  <2> QED
    BY <1>1, <2>1, <2>2, ServiceAssumption
       DEF JoinLock, L!Acquire, LockInv, OthersKept, InJoinBody, TypeOK,
           L!LockTypeOK, L!Phases
<1>2. CASE JoinBusy(p)
  <2>1. OthersKept(p) /\ pc'[p] = "idle" /\ pc[p] = "join"
    BY <1>2, ReturnFacts DEF JoinBusy
  <2>2. phase[p] = "idle" /\ UNCHANGED <<phase, lockKey>>
    BY <1>2 DEF JoinBusy, L!Refused, L!AcquireError, L!lockVars
  <2>3. ASSUME NEW q \in Procs, NEW t \in Teams, held[t] = q
        PROVE  held'[t] = q
    BY <1>2, <2>3, ServiceAssumption
       DEF JoinBusy, L!Refused, L!AcquireError, L!lockVars, TypeOK,
           L!LockTypeOK
  <2> QED
    BY <2>1, <2>2, <2>3, BodyHasTeam DEF LockInv, OthersKept, InJoinBody
<1>3. ASSUME NEW l \in InJoinBody, pc[p] \in InJoinBody, Read(p, l)
      PROVE  LockInv'
  BY <1>3, GotoFacts, LockQuiet DEF Read
<1>4. CASE JoinQuota(p)
  BY <1>4, <1>3, LockBodyReturns DEF JoinQuota, InJoinBody
<1>5. CASE JoinHas(p)
  BY <1>5, <1>3, LockBodyReturns DEF JoinHas, InJoinBody
<1>6. CASE JoinFull(p)
  BY <1>6, <1>3, LockBodyReturns DEF JoinFull, InJoinBody
<1>7. CASE JoinInsert(p) \/ BodyFails(p)
  BY <1>7, LockBodyReturns DEF JoinInsert, BodyFails
<1>8. CASE JoinUnlock(p) \/ Crash(p)
  <2>1. OthersKept(p) /\ pc'[p] = "idle"
    BY <1>8, ReturnFacts DEF JoinUnlock, Crash
  <2>2. /\ phase' = [phase EXCEPT ![p] = "idle"]
        /\ lockKey' = [lockKey EXCEPT ![p] = NoTeam]
    BY <1>8 DEF JoinUnlock, Crash, L!Unlock, L!UnlockError, L!Crash
  <2>3. ASSUME NEW q \in Procs \ {p}, NEW t \in Teams, held[t] = q
        PROVE  held'[t] = q
    BY <1>8, <2>3
       DEF JoinUnlock, Crash, L!Unlock, L!UnlockError, L!Crash, TypeOK,
           L!LockTypeOK
  <2> QED
    BY <2>1, <2>2, <2>3, BodyHasTeam
       DEF LockInv, OthersKept, InJoinBody, TypeOK, L!LockTypeOK
<1> QED
  BY <1>1, <1>2, <1>4, <1>5, <1>6, <1>7, <1>8

LEMMA BeginLockStep ==
  ASSUME TypeInv, LockInv, NEW p \in Procs, NEW u \in Users, Begin(p, u)
  PROVE  LockInv'
<1>1. ASSUME NEW h, NEW l \in Single, NEW v, NEW t, NEW row,
             Start(p, h, l, v, t, row)
      PROVE  LockInv'
  BY <1>1, StartFacts, LockQuiet
     DEF TypeInv, Single, LockLabels, InJoinBody
<1> QED
  BY <1>1 DEF Begin, StartAdd, StartJoin, StartQuit, StartDelete, StartUpdate,
              Single

LEMMA OtherLockStep ==
  ASSUME TypeInv, LockInv, NEW p \in Procs,
         \/ \E t \in Teams : CreateTeam(p, t)
         \/ UpdateExists(p) \/ UpdateWrite(p) \/ CallFails(p)
         \/ QuitLock(p) \/ DeleteLock(p) \/ DeleteRefused(p) \/ LockMiss(p)
         \/ QuitHas(p) \/ QuitCount(p) \/ QuitPick(p) \/ QuitMove(p)
         \/ QuitDropSelf(p) \/ DropMembers(p) \/ DropTeam(p) \/ Commit(p)
         \/ TxFails(p)
  PROVE  LockInv'
<1> USE DEF TypeInv, At
<1>1. UNCHANGED lockVars /\ pc[p] \notin LockLabels
  BY DEF CreateTeam, UpdateExists, UpdateWrite, CallFails, QuitLock,
         DeleteLock, DeleteRefused, LockMiss, QuitHas, QuitCount, QuitPick,
         QuitMove, QuitDropSelf, DropMembers, DropTeam, Commit, TxFails,
         TakeRow, Rollback, Read, LockLabels, InJoinBody, InTx, Single
<1>2. \/ Return(p)
      \/ \E l \in Labels \ LockLabels : TakeRow(p, l)
      \/ \E l \in Labels \ LockLabels : Goto(p, l) /\ UNCHANGED <<req, snap>>
  BY DEF CreateTeam, UpdateExists, UpdateWrite, CallFails, QuitLock,
         DeleteLock, DeleteRefused, LockMiss, QuitHas, QuitCount, QuitPick,
         QuitMove, QuitDropSelf, DropMembers, DropTeam, Commit, TxFails,
         Rollback, Read, LockLabels, InJoinBody, InTx, Single, Labels
<1>3. OthersKept(p) /\ pc'[p] \notin LockLabels
  BY <1>2, ReturnFacts, TakeRowFacts, GotoFacts DEF LockLabels, InJoinBody
<1> QED
  BY <1>1, <1>3, LockQuiet

LEMMA TimeLockStep ==
  ASSUME TypeInv, LockInv, Tick \/ \E t \in Teams : Expire(t)
  PROVE  LockInv'
<1>1. CASE Tick
  BY <1>1 DEF Tick, LockInv, lockVars, local
<1>2. ASSUME NEW t \in Teams, Expire(t) PROVE LockInv'
  <2>1. UNCHANGED <<phase, lockKey, pc, req>>
    BY <1>2 DEF Expire, L!Expire, local
  <2>2. ASSUME NEW q \in Procs, phase[q] = "fn", TTLCovers
        PROVE  held'[req[q].team] = q
    <3>1. held[req[q].team] = q /\ lockKey[q] = req[q].team
      BY <2>2 DEF LockInv
    <3>2. req[q].team # t
      BY <1>2, <2>2, <3>1 DEF Expire, L!Expire, L!InBody
    <3> QED
      BY <1>2, <3>1, <3>2 DEF Expire, L!Expire, TypeInv, TypeOK, L!LockTypeOK
  <2> QED
    BY <2>1, <2>2 DEF LockInv
<1> QED
  BY <1>1, <1>2

LEMMA LockInvStep ==
  ASSUME TypeInv, LockInv, [Next]_vars
  PROVE  LockInv'
<1>1. ASSUME NEW p \in Procs, NEW u \in Users, Begin(p, u) PROVE LockInv'
  BY <1>1, BeginLockStep
<1>2. ASSUME NEW p \in Procs, Step(p) \/ Failure(p) PROVE LockInv'
  BY <1>2, JoinLockStep, OtherLockStep DEF Step, Blocking, Failure
<1>3. CASE Tick \/ \E t \in Teams : Expire(t)
  BY <1>3, TimeLockStep
<1>4. CASE UNCHANGED vars
  BY <1>4 DEF vars, lockVars, local, LockInv
<1> QED
  BY <1>1, <1>2, <1>3, <1>4 DEF Next

-----------------------------------------------------------------------------
(* What a request knows: steps that leave the tables alone.                *)

KnownAt(p) ==
  /\ pc[p] \notin {"idle", "create"} => teams[req[p].team].state # "none"
  /\ pc[p] = "create" =>
       snap[p].state = "active" /\ snap[p].max >= minTeamMembers
  /\ pc[p] \in InJoinBody \cup {"join", "exists", "write"} =>
       snap[p].max = teams[req[p].team].max
  /\ pc[p] \in {"full", "insert"} => RowsIn(req[p].user, req[p].team) = {}
  /\ pc[p] = "insert" => Cardinality(RowsOf(req[p].team)) < snap[p].max

Known == \A p \in Procs : KnownAt(p)

LEMMA KnownIs == Known <=> TeamInv /\ LimitInv /\ JoinInv
BY DEF Known, KnownAt, TeamInv, LimitInv, JoinInv

LEMMA KnownKept ==
  ASSUME Known, NEW p \in Procs, OthersKept(p), UNCHANGED dbVars, KnownAt(p)'
  PROVE  Known'
<1> SUFFICES ASSUME NEW q \in Procs \ {p} PROVE KnownAt(q)'
  BY DEF Known
<1>1. /\ UNCHANGED <<teams, members>> /\ KnownAt(q)
      /\ pc'[q] = pc[q] /\ req'[q] = req[q] /\ snap'[q] = snap[q]
  BY DEF Known, OthersKept, dbVars
<1>2. /\ RowsOf(req[q].team)' = RowsOf(req[q].team)
      /\ RowsIn(req[q].user, req[q].team)' = RowsIn(req[q].user, req[q].team)
  BY <1>1 DEF RowsIn, RowsOf
<1> QED
  BY <1>1, <1>2 DEF KnownAt

LEMMA KnownReturn ==
  ASSUME TypeOK, Known, NEW p \in Procs, Return(p), UNCHANGED dbVars
  PROVE  Known'
<1>1. OthersKept(p) /\ pc'[p] = "idle"
  BY ReturnFacts
<1>2. KnownAt(p)'
  BY <1>1 DEF KnownAt, InJoinBody
<1> QED
  BY <1>1, <1>2, KnownKept

(* A move to a statement that relies on nothing more than the last one.    *)
LEMMA KnownMove ==
  ASSUME TypeOK, Known, NEW p \in Procs, NEW l, Goto(p, l),
         UNCHANGED <<req, snap>>, UNCHANGED dbVars,
         pc[p] \notin {"idle", "create"}, l # "create",
         l \in InJoinBody \cup {"write"} =>
           pc[p] \in InJoinBody \cup {"join", "exists"},
         l \notin {"join", "exists"},
         l \in {"full", "insert"} => RowsIn(req[p].user, req[p].team) = {},
         l = "insert" => Cardinality(RowsOf(req[p].team)) < snap[p].max
  PROVE  Known'
<1>1. OthersKept(p) /\ pc'[p] = l /\ req'[p] = req[p] /\ snap'[p] = snap[p]
  BY GotoFacts
<1>2. KnownAt(p)'
  BY <1>1 DEF Known, KnownAt, dbVars, RowsIn, RowsOf, InJoinBody
<1> QED
  BY <1>1, <1>2, KnownKept

LEMMA KnownTakeRow ==
  ASSUME TypeOK, Known, NEW p \in Procs, NEW l \in InTx, TakeRow(p, l),
         pc[p] \in {"quit", "delete"}
  PROVE  Known'
<1>1. OthersKept(p) /\ UNCHANGED dbVars /\ pc'[p] = l /\ req'[p] = req[p]
  BY TakeRowFacts
<1>2. KnownAt(p)'
  BY <1>1 DEF Known, KnownAt, dbVars, InTx, InJoinBody
<1> QED
  BY <1>1, <1>2, KnownKept

LEMMA BeginKnown ==
  ASSUME TypeInv, Known, NEW p \in Procs, NEW u \in Users, Begin(p, u)
  PROVE  Known' /\ UNCHANGED dbVars
<1> USE DEF TypeInv
<1>1. ASSUME NEW h, NEW l \in Single, NEW t \in Teams, NEW row,
             Start(p, h, l, u, t, row), l # "create",
             teams[t].state # "none", l \in {"join", "exists", "write"} =>
               row.max = teams[t].max
      PROVE  Known' /\ UNCHANGED dbVars
  <2>1. /\ OthersKept(p) /\ UNCHANGED dbVars /\ pc'[p] = l
        /\ req'[p].team = t /\ snap'[p] = row
    <3>1. req'[p] = [user |-> u, team |-> t]
      BY <1>1, StartFacts
    <3> QED
      BY <1>1, <3>1, StartFacts
  <2>2. KnownAt(p)'
    BY <1>1, <2>1 DEF KnownAt, dbVars, Single, InJoinBody
  <2> QED
    BY <2>1, <2>2, KnownKept
<1>2. ASSUME NEW f \in Forms, StartAdd(p, u, f)
      PROVE  Known' /\ UNCHANGED dbVars
  <2>0. PICK row : /\ Start(p, "add", "create", u, NoTeam, row)
                   /\ row.state = "active" /\ row.max = f.max
    BY <1>2 DEF StartAdd
  <2>1. /\ OthersKept(p) /\ UNCHANGED dbVars /\ pc'[p] = "create"
        /\ snap'[p] = row
    BY <2>0 DEF Start, Goto, OthersKept, TypeOK
  <2>2. KnownAt(p)'
    BY <1>2, <2>0, <2>1 DEF KnownAt, StartAdd, InJoinBody
  <2> QED
    BY <2>1, <2>2, KnownKept
<1>3. ASSUME NEW t \in Teams, NEW pw, StartJoin(p, u, t, pw)
      PROVE  Known' /\ UNCHANGED dbVars
  BY <1>3, <1>1 DEF StartJoin, Active, Single
<1>4. ASSUME NEW t \in Teams, StartQuit(p, u, t) \/ StartDelete(p, u, t)
      PROVE  Known' /\ UNCHANGED dbVars
  BY <1>4, <1>1 DEF StartQuit, StartDelete, Single
<1>5. ASSUME NEW t \in Teams, NEW e \in Edits, StartUpdate(p, u, t, e)
      PROVE  Known' /\ UNCHANGED dbVars
  <2>1. Edited(teams[t], e).max = teams[t].max
    BY DEF Edited, TypeOK, DataTypeOK, TeamRow
  <2> QED
    BY <1>5, <2>1, <1>1 DEF StartUpdate, Active, Single
<1> QED
  BY <1>2, <1>3, <1>4, <1>5 DEF Begin

(* The statements that write no table: all but CreateTeam, JoinInsert,     *)
(* Commit and UpdateWrite.                                                 *)
LEMMA JoinKnown ==
  ASSUME TypeInv, Known, NEW p \in Procs,
         \/ JoinLock(p) \/ JoinBusy(p) \/ JoinQuota(p) \/ JoinHas(p)
         \/ JoinFull(p) \/ JoinUnlock(p) \/ BodyFails(p) \/ Crash(p)
  PROVE  Known' /\ UNCHANGED dbVars
<1> USE DEF TypeInv, At
<1>1. ASSUME UNCHANGED dbVars, BodyReturns(p), pc[p] \in InJoinBody
      PROVE  Known'
  BY <1>1, KnownMove DEF BodyReturns, InJoinBody
<1>2. CASE JoinLock(p)
  BY <1>2, KnownMove DEF JoinLock, InJoinBody
<1>3. CASE JoinBusy(p) \/ JoinUnlock(p) \/ Crash(p)
  BY <1>3, KnownReturn DEF JoinBusy, JoinUnlock, Crash
<1>4. CASE JoinQuota(p)
  BY <1>4, <1>1, KnownMove DEF JoinQuota, Read, InJoinBody
<1>5. CASE JoinHas(p)
  BY <1>5, <1>1, KnownMove DEF JoinHas, Read, InJoinBody
<1>6. CASE JoinFull(p)
  <2>1. RowsIn(req[p].user, req[p].team) = {}
    BY <1>6 DEF JoinFull, Known, KnownAt
  <2> QED
    BY <1>6, <2>1, <1>1, KnownMove DEF JoinFull, Read, InJoinBody
<1>7. CASE BodyFails(p)
  BY <1>7, <1>1 DEF BodyFails
<1> QED
  BY <1>2, <1>3, <1>4, <1>5, <1>6, <1>7

LEMMA TxKnown ==
  ASSUME TypeInv, Known, NEW p \in Procs,
         \/ QuitLock(p) \/ DeleteLock(p) \/ DeleteRefused(p) \/ LockMiss(p)
         \/ QuitHas(p) \/ QuitCount(p) \/ QuitPick(p) \/ QuitMove(p)
         \/ QuitDropSelf(p) \/ DropMembers(p) \/ DropTeam(p) \/ TxFails(p)
         \/ UpdateExists(p) \/ CallFails(p)
  PROVE  Known' /\ UNCHANGED dbVars
<1> USE DEF TypeInv, At
<1>1. UNCHANGED dbVars
  BY DEF QuitLock, DeleteLock, DeleteRefused, LockMiss, QuitHas, QuitCount,
         QuitPick, QuitMove, QuitDropSelf, DropMembers, DropTeam, TxFails,
         UpdateExists, CallFails, TakeRow, Rollback, Read
<1>2. CASE Return(p)
  BY <1>1, <1>2, KnownReturn
<1>3. CASE QuitLock(p) \/ DeleteLock(p)
  BY <1>1, <1>3, KnownTakeRow DEF QuitLock, DeleteLock, InTx
<1>4. CASE UpdateExists(p)
  BY <1>1, <1>2, <1>4, KnownMove DEF UpdateExists, Read, InJoinBody
<1>5. ASSUME NEW l \in InTx, Goto(p, l), UNCHANGED <<req, snap>>,
             pc[p] \in InTx
      PROVE  Known'
  BY <1>1, <1>5, KnownMove DEF InTx, InJoinBody
<1>6. CASE \/ QuitHas(p) \/ QuitCount(p) \/ QuitPick(p) \/ QuitMove(p)
           \/ QuitDropSelf(p) \/ DropMembers(p) \/ DropTeam(p)
  <2>1. \/ Return(p)
        \/ \E l \in InTx : Goto(p, l) /\ UNCHANGED <<req, snap>>
    BY <1>6 DEF QuitHas, QuitCount, QuitPick, QuitMove, QuitDropSelf,
                DropMembers, DropTeam, Read, Rollback, InTx
  <2>2. pc[p] \in InTx
    BY <1>6 DEF QuitHas, QuitCount, QuitPick, QuitMove, QuitDropSelf,
                DropMembers, DropTeam, InTx
  <2> QED
    BY <1>1, <1>2, <1>5, <2>1, <2>2
<1>7. CASE DeleteRefused(p) \/ LockMiss(p) \/ TxFails(p) \/ CallFails(p)
  <2>1. Return(p)
    BY <1>7 DEF DeleteRefused, LockMiss, TxFails, CallFails, Rollback
  <2> QED
    BY <1>1, <1>2, <2>1
<1> QED
  BY <1>1, <1>3, <1>4, <1>6, <1>7

-----------------------------------------------------------------------------
(* What the tables look like, and the four steps that write them.          *)

Tables == RowsInv /\ Capacity /\ NoDuplicateMembership

WithinLimit(t) ==
  teams[t].state # "none" => Cardinality(RowsOf(t)) <= teams[t].max

LEMMA CapacityIs ==
  /\ Capacity <=> \A t \in Teams : WithinLimit(t)
  /\ Capacity' <=> \A t \in Teams : WithinLimit(t)'
BY DEF Capacity, WithinLimit

LEMMA FiniteRows ==
  ASSUME RowsInv, NEW t
  PROVE  IsFiniteSet(RowsOf(t)) /\ Cardinality(RowsOf(t)) \in Nat
<1>1. RowsOf(t) \in SUBSET members /\ IsFiniteSet(members)
  BY DEF RowsOf, RowsInv
<1> QED
  BY <1>1, FS_Subset, FS_CardinalityType

(* The effect of an insert on the rows of every team.                      *)
LEMMA InsertRows ==
  ASSUME TypeOK, RowsInv, NEW u \in Users, NEW t \in Teams,
         members' = Inserted(u, t), rowSeq' = rowSeq + 1
  PROVE  /\ IsFiniteSet(members')
         /\ \A m \in members' : m.id <= rowSeq'
         /\ Cardinality(RowsOf(t)') = Cardinality(RowsOf(t)) + 1
         /\ \A s \in Teams \ {t} : RowsOf(s)' = RowsOf(s)
<1> DEFINE new == [id |-> rowSeq + 1, user |-> u, team |-> t]
<1>1. members' = members \cup {new} /\ rowSeq \in Nat
  BY DEF Inserted, TypeOK, DataTypeOK
<1>2. new \notin members
  BY DEF RowsInv, TypeOK, DataTypeOK
<1>3. IsFiniteSet(members')
  BY <1>1, FS_AddElement DEF RowsInv
<1>4. \A m \in members' : m.id <= rowSeq'
  BY <1>1 DEF RowsInv, TypeOK, DataTypeOK, Membership
<1>5. RowsOf(t)' = RowsOf(t) \cup {new} /\ new \notin RowsOf(t)
  BY <1>1, <1>2 DEF RowsOf
<1>6. Cardinality(RowsOf(t)') = Cardinality(RowsOf(t)) + 1
  <2> HIDE DEF new
  <2> QED
    BY <1>5, FiniteRows, FS_AddElement
<1>7. \A s \in Teams \ {t} : RowsOf(s)' = RowsOf(s)
  BY <1>1 DEF RowsOf
<1> QED
  BY <1>3, <1>4, <1>6, <1>7

LEMMA InsertNoDuplicate ==
  ASSUME NoDuplicateMembership, NEW u, NEW t, RowsIn(u, t) = {},
         members' = Inserted(u, t)
  PROVE  NoDuplicateMembership'
BY DEF NoDuplicateMembership, Inserted, RowsIn

LEMMA CreateTeamStep ==
  ASSUME TypeInv, Known, Tables, NEW p \in Procs, NEW t \in Teams,
         CreateTeam(p, t)
  PROVE  Known' /\ Tables'
<1> USE DEF TypeInv, Tables, At
<1>1. /\ pc[p] = "create" /\ req[p].user \in Users /\ teams[t].state = "none"
      /\ snap[p].state = "active" /\ snap[p].max >= 1 /\ snap[p] \in TeamRow
  BY DEF CreateTeam, RequestInv, Known, KnownAt, minTeamMembers, TypeOK
<1>2. RowsOf(t) = {} /\ Cardinality(RowsOf(t)) = 0
  BY <1>1, FS_EmptySet DEF RowsInv
<1>3. /\ IsFiniteSet(members') /\ \A m \in members' : m.id <= rowSeq'
      /\ Cardinality(RowsOf(t)') = 1
      /\ \A s \in Teams \ {t} : RowsOf(s)' = RowsOf(s)
  BY <1>1, <1>2, InsertRows DEF CreateTeam
<1>4. teams'[t] = snap[p] /\ \A s \in Teams \ {t} : teams'[s] = teams[s]
  BY DEF CreateTeam, TypeOK, DataTypeOK
<1>5. RowsInv'
  BY <1>1, <1>3, <1>4 DEF RowsInv
<1>6. Capacity'
  <2> SUFFICES ASSUME NEW s \in Teams PROVE WithinLimit(s)'
    BY CapacityIs
  <2>1. CASE s = t
    BY <2>1, <1>1, <1>3, <1>4 DEF TeamRow, WithinLimit
  <2>2. CASE s # t
    BY <2>2, <1>3, <1>4, CapacityIs DEF WithinLimit
  <2> QED
    BY <2>1, <2>2
<1>7. NoDuplicateMembership'
  <2>1. RowsIn(req[p].user, t) = {}
    BY <1>2 DEF RowsIn, RowsOf
  <2> QED
    BY <2>1, InsertNoDuplicate DEF CreateTeam
<1>8. Known'
  <2>1. OthersKept(p) /\ pc'[p] = "idle"
    BY ReturnFacts DEF CreateTeam
  <2>2. ASSUME NEW q \in Procs \ {p} PROVE KnownAt(q)'
    <3>1. KnownAt(q) /\ pc'[q] = pc[q] /\ req'[q] = req[q] /\ snap'[q] = snap[q]
      BY <2>1 DEF Known, OthersKept
    <3>2. CASE pc[q] \in {"idle", "create"}
      BY <3>1, <3>2 DEF KnownAt, InJoinBody
    <3>3. CASE pc[q] \notin {"idle", "create"}
      <4>1. req[q].team \in Teams \ {t}
        BY <3>1, <3>3, <1>1 DEF KnownAt, RequestInv
      <4>2. /\ teams'[req[q].team] = teams[req[q].team]
            /\ RowsOf(req[q].team)' = RowsOf(req[q].team)
        BY <4>1, <3>1, <1>3, <1>4
      <4>3. RowsIn(req[q].user, req[q].team)' = RowsIn(req[q].user, req[q].team)
        BY <4>2, <3>1 DEF RowsIn, RowsOf
      <4> QED
        BY <3>1, <3>3, <4>2, <4>3 DEF KnownAt
    <3> QED
      BY <3>2, <3>3
  <2>3. KnownAt(p)'
    BY <2>1 DEF KnownAt, InJoinBody
  <2> QED
    BY <2>2, <2>3 DEF Known
<1> QED
  BY <1>5, <1>6, <1>7, <1>8

(* The steps that remove rows, change no limit and bring no team back from *)
(* "none": commits and updates, and every step that writes no table.       *)
LimitsKept ==
  \A t \in Teams : /\ teams'[t].max = teams[t].max
                   /\ teams'[t].state = "none" <=> teams[t].state = "none"

LEMMA Shrinks ==
  ASSUME NEW S, IsFiniteSet(S), NEW T \in SUBSET S
  PROVE  /\ IsFiniteSet(T) /\ Cardinality(S) \in Nat /\ Cardinality(T) \in Nat
         /\ Cardinality(T) <= Cardinality(S)
BY FS_Subset, FS_CardinalityType

LEMMA ShrinkTables ==
  ASSUME TypeOK, Tables, members' \subseteq members, rowSeq' = rowSeq, LimitsKept
  PROVE  Tables'
<1> USE DEF Tables
<1>1. RowsInv'
  <2>1. members' \in SUBSET members /\ IsFiniteSet(members)
    BY DEF RowsInv
  <2>2. IsFiniteSet(members')
    BY <2>1, FS_Subset
  <2> QED
    BY <2>2 DEF RowsInv, LimitsKept, RowsOf
<1>2. Capacity'
  <2> SUFFICES ASSUME NEW t \in Teams PROVE WithinLimit(t)'
    BY CapacityIs
  <2>1. RowsOf(t)' \in SUBSET RowsOf(t)
    BY DEF RowsOf
  <2>2. /\ Cardinality(RowsOf(t)) \in Nat /\ Cardinality(RowsOf(t)') \in Nat
        /\ Cardinality(RowsOf(t)') <= Cardinality(RowsOf(t))
    BY <2>1, FiniteRows, Shrinks
  <2>3. teams[t].max \in Nat
    BY DataAssumption DEF TypeOK, DataTypeOK, TeamRow
  <2> QED
    BY <2>2, <2>3, CapacityIs DEF WithinLimit, LimitsKept
<1>3. NoDuplicateMembership'
  BY DEF NoDuplicateMembership
<1> QED
  BY <1>1, <1>2, <1>3

LEMMA ShrinkKnown ==
  ASSUME TypeInv, Known, Tables, NEW p \in Procs, OthersKept(p),
         pc'[p] = "idle", members' \subseteq members, LimitsKept
  PROVE  Known'
<1>1. KnownAt(p)'
  BY DEF KnownAt, InJoinBody
<1>2. ASSUME NEW q \in Procs \ {p} PROVE KnownAt(q)'
  <2>1. KnownAt(q) /\ pc'[q] = pc[q] /\ req'[q] = req[q] /\ snap'[q] = snap[q]
    BY DEF Known, OthersKept
  <2>2. CASE pc[q] \in {"idle", "create"}
    BY <2>1, <2>2 DEF KnownAt, InJoinBody
  <2>3. CASE pc[q] \notin {"idle", "create"}
    <3>1. req[q].team \in Teams
      BY <2>3 DEF TypeInv, RequestInv
    <3>2. /\ teams'[req[q].team].max = teams[req[q].team].max
          /\ teams'[req[q].team].state = "none"
               <=> teams[req[q].team].state = "none"
      BY <3>1 DEF LimitsKept
    <3>3. /\ RowsIn(req[q].user, req[q].team)'
               \subseteq RowsIn(req[q].user, req[q].team)
          /\ RowsOf(req[q].team)' \in SUBSET RowsOf(req[q].team)
      BY <2>1 DEF RowsIn, RowsOf
    <3>4. /\ IsFiniteSet(RowsOf(req[q].team))
          /\ Cardinality(RowsOf(req[q].team)) \in Nat
      BY FiniteRows DEF Tables
    <3>5. /\ Cardinality(RowsOf(req[q].team)') \in Nat
          /\ Cardinality(RowsOf(req[q].team)')
               <= Cardinality(RowsOf(req[q].team))
      BY <3>3, <3>4, Shrinks
    <3>6. snap[q].max \in Nat
      BY DataAssumption DEF TypeInv, TypeOK, TeamRow
    <3> QED
      BY <2>1, <2>3, <3>2, <3>3, <3>4, <3>5, <3>6 DEF KnownAt
  <2> QED
    BY <2>2, <2>3
<1> QED
  BY <1>1, <1>2 DEF Known

LEMMA CommitStep ==
  ASSUME TypeInv, Known, Tables, NEW p \in Procs, Commit(p)
  PROVE  Known' /\ Tables'
<1> USE DEF TypeInv, At
<1>1. req[p].team \in Teams /\ teams[req[p].team].state # "none"
  BY DEF Commit, RequestInv, Known, KnownAt
<1>2. members' \subseteq members /\ rowSeq' = rowSeq
  BY DEF Commit
<1>3. /\ Written(p, req[p].team).max = teams[req[p].team].max
      /\ Written(p, req[p].team).state # "none"
  BY <1>1 DEF Written, TypeOK, DataTypeOK, TeamRow
<1>4. LimitsKept
  <2>1. teams' = [teams EXCEPT ![req[p].team] = Written(p, req[p].team)]
    BY DEF Commit
  <2> QED
    BY <1>1, <1>3, <2>1 DEF LimitsKept, TypeOK, DataTypeOK
<1>5. OthersKept(p) /\ pc'[p] = "idle"
  BY ReturnFacts DEF Commit
<1> QED
  BY <1>2, <1>4, <1>5, ShrinkTables, ShrinkKnown

LEMMA UpdateWriteStep ==
  ASSUME TypeInv, Known, Tables, NEW p \in Procs, UpdateWrite(p)
  PROVE  Known' /\ Tables'
<1> USE DEF TypeInv, At
<1>1. req[p].team \in Teams /\ snap[p].max = teams[req[p].team].max
  BY DEF UpdateWrite, RequestInv, Known, KnownAt
<1>2. members' = members /\ rowSeq' = rowSeq
  BY DEF UpdateWrite
<1>3. LimitsKept
  BY <1>1 DEF UpdateWrite, LimitsKept, TypeOK, DataTypeOK, TeamRow
<1>4. OthersKept(p) /\ pc'[p] = "idle"
  BY ReturnFacts DEF UpdateWrite
<1> QED
  BY <1>2, <1>3, <1>4, ShrinkTables, ShrinkKnown

(* The step that relies on the lock: no other join is past its lock on the *)
(* same team, so nobody else's counts are spoiled.                         *)
LEMMA JoinInsertStep ==
  ASSUME TypeInv, LockInv, Known, Tables, TTLCovers, NEW p \in Procs,
         JoinInsert(p)
  PROVE  Known' /\ Tables'
<1> USE DEF TypeInv, Tables, At
<1>0. PICK u, t : u = req[p].user /\ t = req[p].team
  OBVIOUS
<1>1. /\ u \in Users /\ t \in Teams /\ pc[p] = "insert"
      /\ RowsIn(u, t) = {}
      /\ Cardinality(RowsOf(t)) < teams[t].max
      /\ teams[t].state # "none" /\ teams' = teams
  BY <1>0 DEF JoinInsert, RequestInv, Known, KnownAt, InJoinBody
<1>2. /\ IsFiniteSet(members') /\ \A m \in members' : m.id <= rowSeq'
      /\ Cardinality(RowsOf(t)') = Cardinality(RowsOf(t)) + 1
      /\ \A s \in Teams \ {t} : RowsOf(s)' = RowsOf(s)
  <2>1. members' = Inserted(u, t) /\ rowSeq' = rowSeq + 1
    BY <1>0 DEF JoinInsert
  <2> QED
    BY <2>1, <1>1, InsertRows
<1>3. RowsInv'
  BY <1>1, <1>2 DEF RowsInv
<1>4. Capacity'
  <2> SUFFICES ASSUME NEW s \in Teams PROVE WithinLimit(s)'
    BY CapacityIs
  <2>1. CASE s = t
    <3>1. Cardinality(RowsOf(t)) \in Nat /\ teams[t].max \in Nat
      BY <1>1, FiniteRows, DataAssumption DEF TypeOK, DataTypeOK, TeamRow
    <3>2. Cardinality(RowsOf(t)') <= teams'[t].max
      BY <3>1, <1>1, <1>2
    <3> QED
      BY <2>1, <3>2 DEF WithinLimit
  <2>2. CASE s # t
    BY <2>2, <1>1, <1>2, CapacityIs DEF WithinLimit
  <2> QED
    BY <2>1, <2>2
<1>5. NoDuplicateMembership'
  BY <1>0, <1>1, InsertNoDuplicate DEF JoinInsert
<1>6. OthersKept(p) /\ pc'[p] = "unlock" /\ req'[p] = req[p]
  BY GotoFacts DEF JoinInsert, BodyReturns
<1>7. Known'
  <2>1. KnownAt(p)'
    BY <1>0, <1>1, <1>6 DEF KnownAt, InJoinBody
  <2>2. ASSUME NEW q \in Procs \ {p} PROVE KnownAt(q)'
    <3>1. KnownAt(q) /\ pc'[q] = pc[q] /\ req'[q] = req[q] /\ snap'[q] = snap[q]
      BY <1>6 DEF Known, OthersKept
    <3>2. CASE pc[q] \notin {"full", "insert"}
      BY <1>1, <3>1, <3>2 DEF KnownAt
    <3>3. CASE pc[q] \in {"full", "insert"}
      <4>1. held[t] = p /\ held[req[q].team] = q /\ req[q].team \in Teams
        BY <1>0, <1>1, <3>3 DEF LockInv, InJoinBody, RequestInv
      <4>2. req[q].team \in Teams \ {t}
        BY <4>1
      <4>3. RowsOf(req[q].team)' = RowsOf(req[q].team)
        BY <4>2, <3>1, <1>2
      <4>4. RowsIn(req[q].user, req[q].team)' = RowsIn(req[q].user, req[q].team)
        BY <4>3, <3>1 DEF RowsIn, RowsOf
      <4> QED
        BY <1>1, <3>1, <3>3, <4>3, <4>4 DEF KnownAt
    <3> QED
      BY <3>2, <3>3
  <2> QED
    BY <2>1, <2>2 DEF Known
<1> QED
  BY <1>3, <1>4, <1>5, <1>7

-----------------------------------------------------------------------------
(* The inductive invariant.                                                *)

JoinInvariant == TypeInv /\ LockInv /\ Known /\ Tables

LEMMA QuietTables ==
  ASSUME TypeOK, Tables, UNCHANGED dbVars
  PROVE  Tables'
BY ShrinkTables DEF dbVars, LimitsKept

LEMMA JoinInvariantInit == Init => JoinInvariant
<1> SUFFICES ASSUME Init PROVE JoinInvariant
  OBVIOUS
<1>1. TypeInv
  BY InitTypes DEF Init, TypeInv, RequestInv
<1>2. LockInv
  BY DEF Init, LockInv, L!LockInit, InJoinBody
<1>3. Known
  BY DEF Init, Known, KnownAt, InJoinBody
<1>4. Tables
  BY FS_EmptySet
     DEF Init, DataInit, NoRow, Tables, RowsInv, Capacity,
         NoDuplicateMembership, RowsOf
<1> QED
  BY <1>1, <1>2, <1>3, <1>4 DEF JoinInvariant

LEMMA JoinInvariantStep ==
  ASSUME TTLCovers, JoinInvariant, [Next]_vars
  PROVE  JoinInvariant'
<1> USE DEF JoinInvariant
<1>1. TypeInv' /\ LockInv'
  BY TypeInvStep, LockInvStep
<1>2. ASSUME NEW p \in Procs, NEW u \in Users, Begin(p, u)
      PROVE  Known' /\ Tables'
  BY <1>2, BeginKnown, QuietTables DEF TypeInv
<1>3. ASSUME NEW p \in Procs, Step(p) \/ Failure(p)
      PROVE  Known' /\ Tables'
  BY <1>3, JoinKnown, TxKnown, QuietTables, CreateTeamStep, CommitStep,
     UpdateWriteStep, JoinInsertStep
     DEF Step, Blocking, Failure, TypeInv
<1>4. CASE Tick \/ (\E t \in Teams : Expire(t)) \/ UNCHANGED vars
  <2>0. TypeOK
    BY DEF TypeInv
  <2>1. UNCHANGED dbVars /\ UNCHANGED <<pc, req, snap>>
    BY <1>4 DEF Tick, Expire, local, vars
  <2>2. Known'
    BY <2>1 DEF Known, KnownAt, dbVars, RowsIn, RowsOf
  <2> QED
    BY <1>1, <2>0, <2>1, <2>2, QuietTables
<1> QED
  BY <1>1, <1>2, <1>3, <1>4 DEF Next

(* For joins that end before their lock expires: a join inserts its row on *)
(* the strength of counts that are still right (service.go:282-305).       *)
THEOREM JoinIsSafe == ASSUME TTLCovers PROVE Spec => []JoinSafety
<1>1. Init => JoinInvariant
  BY JoinInvariantInit
<1>2. JoinInvariant /\ [Next]_vars => JoinInvariant'
  BY JoinInvariantStep
<1>3. JoinInvariant => JoinSafety
  BY KnownIs DEF JoinInvariant, Tables, TypeInv, JoinSafety
<1> QED
  BY <1>1, <1>2, <1>3, PTL DEF Spec

(* ... no team exceeds its limit, whatever requests run beside it ...      *)
THEOREM CapacityHolds == ASSUME TTLCovers PROVE Spec => []Capacity
<1>1. JoinSafety => Capacity
  BY DEF JoinSafety
<1> QED
  BY <1>1, JoinIsSafe, PTL

(* ... and nobody has two live rows in a team.                             *)
THEOREM NoDuplicateHolds ==
  ASSUME TTLCovers PROVE Spec => []NoDuplicateMembership
<1>1. JoinSafety => NoDuplicateMembership
  BY DEF JoinSafety
<1> QED
  BY <1>1, JoinIsSafe, PTL
=============================================================================
