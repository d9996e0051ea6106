------------------------------ MODULE RedisLock ------------------------------
(***************************************************************************)
(* RedisLocker.RunWithLock (internal/infra/lock/redis_lock.go): one call   *)
(* is SETNX key token EX ttl, then fn, then a deferred compare-and-delete. *)
(* A call's token is 16 random bytes, so it is modelled by the identity of *)
(* the caller.  Redis is a map from keys to tokens; a key may also vanish  *)
(* because its TTL has run out, whatever its owner is doing.               *)
(***************************************************************************)
EXTENDS Naturals

CONSTANTS
  Procs,       \* goroutines that call RunWithLock (request handlers, jobs)
  Keys,        \* the Redis keys they lock
  NoProc,      \* "the key does not exist"
  NoKey,       \* "this goroutine is not inside RunWithLock"
  Covered,     \* the keys whose TTL is longer than any execution of fn
  MayCrash     \* TRUE: a process may die inside RunWithLock

ASSUME LockAssumption ==
  /\ NoProc \notin Procs
  /\ NoKey \notin Keys
  /\ Covered \subseteq Keys
  /\ MayCrash \in BOOLEAN

VARIABLES
  held,        \* held[k]: the caller whose token Redis stores at k
  phase,       \* phase[p]: where p is inside RunWithLock
  lockKey      \* lockKey[p]: the key of p's call

lockVars == <<held, phase, lockKey>>

Phases == {"idle", "fn", "unlock"}

LockTypeOK ==
  /\ held \in [Keys -> Procs \cup {NoProc}]
  /\ phase \in [Procs -> Phases]
  /\ lockKey \in [Procs -> Keys \cup {NoKey}]

LockInit ==
  /\ held = [k \in Keys |-> NoProc]
  /\ phase = [p \in Procs |-> "idle"]
  /\ lockKey = [p \in Procs |-> NoKey]

-----------------------------------------------------------------------------
(* The body of RunWithLock runs while its caller is in phase "fn".         *)
InBody(p, k) == phase[p] = "fn" /\ lockKey[p] = k

(* Mutant: SET instead of SETNX.                                           *)
AcquireBySet(p, k) ==
  /\ phase[p] = "idle"
  /\ held' = [held EXCEPT ![k] = p]
  /\ phase' = [phase EXCEPT ![p] = "fn"]
  /\ lockKey' = [lockKey EXCEPT ![p] = k]

(* SETNX stores the token: fn is about to run, the unlock is deferred.     *)
Acquire(p, k) ==
  /\ phase[p] = "idle"
  /\ held[k] = NoProc
  /\ held' = [held EXCEPT ![k] = p]
  /\ phase' = [phase EXCEPT ![p] = "fn"]
  /\ lockKey' = [lockKey EXCEPT ![p] = k]

(* SETNX finds the key: ErrLockFailed, nothing is changed.                 *)
Refused(p, k) ==
  /\ phase[p] = "idle"
  /\ held[k] # NoProc
  /\ UNCHANGED lockVars

(* SETNX returns an error: RunWithLock returns before the unlock is        *)
(* deferred, although the server may have stored the token.                *)
AcquireError(p, k) ==
  /\ phase[p] = "idle"
  /\ \/ UNCHANGED held
     \/ held[k] = NoProc /\ held' = [held EXCEPT ![k] = p]
  /\ UNCHANGED <<phase, lockKey>>

(* fn returns, with or without an error: the deferred unlock comes next.   *)
FnReturns(p) ==
  /\ phase[p] = "fn"
  /\ phase' = [phase EXCEPT ![p] = "unlock"]
  /\ UNCHANGED <<held, lockKey>>

(* Mutant: DEL without the comparison.                                     *)
UnlockAnyToken(p) ==
  /\ phase[p] = "unlock"
  /\ held' = [held EXCEPT ![lockKey[p]] = NoProc]
  /\ phase' = [phase EXCEPT ![p] = "idle"]
  /\ lockKey' = [lockKey EXCEPT ![p] = NoKey]

(* Mutant: the script stores the key's name where it should delete it.     *)
UnlockOverwriting(p) ==
  /\ phase[p] = "unlock"
  /\ held' = [held EXCEPT ![lockKey[p]] = lockKey[p]]
  /\ phase' = [phase EXCEPT ![p] = "idle"]
  /\ lockKey' = [lockKey EXCEPT ![p] = NoKey]

(* The Lua script of safeUnlock deletes the key only if it still stores    *)
(* the caller's token.                                                     *)
Unlock(p) ==
  /\ phase[p] = "unlock"
  /\ held' = IF held[lockKey[p]] = p
             THEN [held EXCEPT ![lockKey[p]] = NoProc]
             ELSE held
  /\ phase' = [phase EXCEPT ![p] = "idle"]
  /\ lockKey' = [lockKey EXCEPT ![p] = NoKey]

(* Eval fails (Redis is away, or the request's context is already          *)
(* cancelled): safeUnlock discards the error and the token stays.          *)
UnlockError(p) ==
  /\ phase[p] = "unlock"
  /\ phase' = [phase EXCEPT ![p] = "idle"]
  /\ lockKey' = [lockKey EXCEPT ![p] = NoKey]
  /\ UNCHANGED held

(* Mutant: SETNX without EX.                                               *)
ExpireNever(k) == held[k] # NoProc /\ FALSE /\ UNCHANGED lockVars

(* The TTL of a key runs out, but that of a covered key never inside fn.   *)
Expire(k) ==
  /\ held[k] # NoProc
  /\ k \in Covered => ~ InBody(held[k], k)
  /\ held' = [held EXCEPT ![k] = NoProc]
  /\ UNCHANGED <<phase, lockKey>>

(* The process of the call dies: no deferred function runs.                *)
Crash(p) ==
  /\ MayCrash
  /\ phase[p] # "idle"
  /\ phase' = [phase EXCEPT ![p] = "idle"]
  /\ lockKey' = [lockKey EXCEPT ![p] = NoKey]
  /\ UNCHANGED held

LockNext ==
  \/ \E p \in Procs : \/ \E k \in Keys : \/ Acquire(p, k)
                                         \/ Refused(p, k)
                                         \/ AcquireError(p, k)
                      \/ FnReturns(p)
                      \/ Unlock(p)
                      \/ UnlockError(p)
                      \/ Crash(p)
  \/ \E k \in Keys : Expire(k)

LockSpec == LockInit /\ [][LockNext]_lockVars

(* Redis expires keys by itself; a call that has its lock runs to its end. *)
LockFairSpec ==
  /\ LockSpec
  /\ \A k \in Keys : WF_lockVars(Expire(k))
  /\ \A p \in Procs : WF_lockVars(FnReturns(p) \/ Unlock(p) \/ UnlockError(p))

-----------------------------------------------------------------------------
(* Two callers never execute the body of the same key together, as long as *)
(* the TTL outlasts the body (RunWithLock, redis_lock.go:34).              *)
MutualExclusion ==
  \A p, q \in Procs, k \in Covered : InBody(p, k) /\ InBody(q, k) => p = q

(* A call that outlived its TTL never deletes the token of the call that   *)
(* took the key after it: a key whose owner is executing its body is only  *)
(* ever freed by its TTL (safeUnlock, redis_lock.go:55; the token exists   *)
(* for this, redis_lock.go:35).                                            *)
TokenSafe ==
  [][\A k \in Keys :
       held[k] # NoProc /\ InBody(held[k], k) /\ held'[k] # held[k]
         => Expire(k)]_lockVars

(* Whatever fails, a key does not stay locked for ever: it is freed by its *)
(* owner or by its TTL.                                                    *)
KeyFreed == \A k \in Keys : []<>(held[k] = NoProc)
=============================================================================
