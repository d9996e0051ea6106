--------------------------- MODULE RedisLockProofs ---------------------------
(* Theorems about RedisLock for every set of callers and keys.             *)
EXTENDS RedisLock, TLAPS

(* Every reachable state of the lock has the type LockTypeOK: the store    *)
(* and the calls of RunWithLock keep their shape.                          *)
THEOREM LockTyping == LockSpec => []LockTypeOK
<1>1. LockInit => LockTypeOK
  BY DEF LockInit, LockTypeOK, Phases
<1>2. LockTypeOK /\ [LockNext]_lockVars => LockTypeOK'
  <2> SUFFICES ASSUME LockTypeOK, [LockNext]_lockVars PROVE LockTypeOK'
    OBVIOUS
  <2> USE DEF LockTypeOK, Phases
  <2>1. ASSUME NEW p \in Procs, NEW k \in Keys, Acquire(p, k)
        PROVE  LockTypeOK'
    BY <2>1 DEF Acquire
  <2>2. ASSUME NEW p \in Procs, NEW k \in Keys, Refused(p, k)
        PROVE  LockTypeOK'
    BY <2>2 DEF Refused, lockVars
  <2>3. ASSUME NEW p \in Procs, NEW k \in Keys, AcquireError(p, k)
        PROVE  LockTypeOK'
    BY <2>3 DEF AcquireError
  <2>4. ASSUME NEW p \in Procs, FnReturns(p) PROVE LockTypeOK'
    BY <2>4 DEF FnReturns
  <2>5. ASSUME NEW p \in Procs, Unlock(p) PROVE LockTypeOK'
    BY <2>5 DEF Unlock
  <2>6. ASSUME NEW p \in Procs, UnlockError(p) PROVE LockTypeOK'
    BY <2>6 DEF UnlockError
  <2>7. ASSUME NEW p \in Procs, Crash(p) PROVE LockTypeOK'
    BY <2>7 DEF Crash
  <2>8. ASSUME NEW k \in Keys, Expire(k) PROVE LockTypeOK'
    BY <2>8 DEF Expire
  <2>9. CASE UNCHANGED lockVars
    BY <2>9 DEF lockVars
  <2> QED
    BY <2>1, <2>2, <2>3, <2>4, <2>5, <2>6, <2>7, <2>8, <2>9 DEF LockNext
<1> QED
  BY <1>1, <1>2, PTL DEF LockSpec

(* The owner invariant: a covered key stores the token of the caller that  *)
(* executes its body.                                                      *)
BodyOwnsKey == \A p \in Procs, k \in Covered : InBody(p, k) => held[k] = p

LEMMA OwnerStep ==
  ASSUME LockTypeOK, BodyOwnsKey, [LockNext]_lockVars
  PROVE  BodyOwnsKey'
<1> USE LockAssumption DEF LockTypeOK, Phases, BodyOwnsKey, InBody
<1>1. ASSUME NEW p \in Procs, NEW k \in Keys, Acquire(p, k)
      PROVE  BodyOwnsKey'
  BY <1>1 DEF Acquire
<1>2. ASSUME NEW p \in Procs, NEW k \in Keys, Refused(p, k)
      PROVE  BodyOwnsKey'
  BY <1>2 DEF Refused, lockVars
<1>3. ASSUME NEW p \in Procs, NEW k \in Keys, AcquireError(p, k)
      PROVE  BodyOwnsKey'
  BY <1>3 DEF AcquireError
<1>4. ASSUME NEW p \in Procs, FnReturns(p) PROVE BodyOwnsKey'
  BY <1>4 DEF FnReturns
<1>5. ASSUME NEW p \in Procs, Unlock(p) PROVE BodyOwnsKey'
  BY <1>5 DEF Unlock
<1>6. ASSUME NEW p \in Procs, UnlockError(p) PROVE BodyOwnsKey'
  BY <1>6 DEF UnlockError
<1>7. ASSUME NEW p \in Procs, Crash(p) PROVE BodyOwnsKey'
  BY <1>7 DEF Crash
<1>8. ASSUME NEW k \in Keys, Expire(k) PROVE BodyOwnsKey'
  BY <1>8 DEF Expire
<1>9. CASE UNCHANGED lockVars
  BY <1>9 DEF lockVars
<1> QED
  BY <1>1, <1>2, <1>3, <1>4, <1>5, <1>6, <1>7, <1>8, <1>9 DEF LockNext

(* For every number of callers and keys, two bodies of one key never run   *)
(* together, provided that its TTL outlasts the body: what RunWithLock     *)
(* promises its callers (redis_lock.go:34).                                *)
THEOREM LockExclusion == LockSpec => []MutualExclusion
<1>1. LockInit => BodyOwnsKey
  BY LockAssumption DEF LockInit, BodyOwnsKey, InBody
<1>2. LockTypeOK /\ BodyOwnsKey /\ [LockNext]_lockVars => BodyOwnsKey'
  BY OwnerStep
<1>3. BodyOwnsKey => MutualExclusion
  BY DEF BodyOwnsKey, MutualExclusion
<1> QED
  BY <1>1, <1>2, <1>3, LockTyping, PTL DEF LockSpec

(* For every number of callers and keys, a key whose owner is executing    *)
(* its body is freed by its TTL alone: no late unlock of a call that has   *)
(* outlived its TTL deletes the token of the next (redis_lock.go:55).      *)
THEOREM LockTokens == LockSpec => TokenSafe
<1> DEFINE Freed(k) ==
      held[k] # NoProc /\ InBody(held[k], k) /\ held'[k] # held[k]
<1>1. ASSUME LockTypeOK, [LockNext]_lockVars, NEW k \in Keys, Freed(k)
      PROVE  Expire(k)
  <2> USE LockAssumption DEF LockTypeOK, Phases, InBody
  <2>1. ASSUME NEW p \in Procs, NEW l \in Keys, Acquire(p, l) PROVE FALSE
    BY <1>1, <2>1 DEF Acquire
  <2>2. ASSUME NEW p \in Procs, NEW l \in Keys, Refused(p, l) PROVE FALSE
    BY <1>1, <2>2 DEF Refused, lockVars
  <2>3. ASSUME NEW p \in Procs, NEW l \in Keys, AcquireError(p, l) PROVE FALSE
    BY <1>1, <2>3 DEF AcquireError
  <2>4. ASSUME NEW p \in Procs, FnReturns(p) \/ UnlockError(p) \/ Crash(p) PROVE FALSE
    BY <1>1, <2>4 DEF FnReturns, UnlockError, Crash
  <2>5. ASSUME NEW p \in Procs, Unlock(p) PROVE FALSE
    BY <1>1, <2>5 DEF Unlock
  <2>6. ASSUME NEW l \in Keys, Expire(l) PROVE Expire(k)
    <3>1. CASE l = k
      BY <2>6, <3>1
    <3>2. CASE l # k
      BY <1>1, <2>6, <3>2 DEF Expire
    <3> QED
      BY <3>1, <3>2
  <2>7. CASE UNCHANGED lockVars
    BY <1>1, <2>7 DEF lockVars
  <2> QED
    BY <1>1, <2>1, <2>2, <2>3, <2>4, <2>5, <2>6, <2>7 DEF LockNext
<1>2. LockTypeOK /\ [LockNext]_lockVars
        => [\A k \in Keys : Freed(k) => Expire(k)]_lockVars
  BY <1>1
<1> QED
  BY <1>2, LockTyping, PTL DEF LockSpec, TokenSafe
=============================================================================
