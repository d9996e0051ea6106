------------------------------- MODULE WarmUp -------------------------------
(***************************************************************************)
(* The nightly warm-up of the match cache (internal/module/user/           *)
(* cache_task.go), the scheduler that fires it (internal/infra/scheduler/  *)
(* cron.go) and the life of the server around both (cmd/server/main.go).   *)
(*                                                                         *)
(* A job takes the lock in Redis, loads the candidates, feeds them through *)
(* a channel to a pool of goroutines and waits for the pool.  Its context  *)
(* ends a fixed time after the job was fired.  cron's SkipIfStillRunning   *)
(* lets one job at a time run in a process, so the process-wide mutex of   *)
(* warmUpMatchTask is always free when a job gets there.                   *)
(***************************************************************************)
EXTENDS Naturals, Sequences, FiniteSets

CONSTANTS
  Instances,    \* server processes
  Workers,      \* the goroutines of a pool (warmWorkers of them)
  Users,        \* active users
  Untagged,     \* those whose tags parse to an empty list
  Pools,        \* what loadActiveCandidates may return: sequences of users
  warmUpNums,   \* the sequence of list lengths to fill
  Callers,      \* goroutines that call Stop
  Home,         \* Home[c]: the server that c runs in
  NoInstance,   \* "the lock is free"
  NoUser,       \* "no user in hand"
  NoKey,        \* "not inside RunWithLock"
  WarmUpKey,    \* lockKey of cache_task.go
  lockTTL,      \* ticks the token lives in Redis
  taskTimeout,  \* ticks from the firing of a job to the end of its context
  MayFail       \* TRUE: calls may fail and servers may die

ASSUME WarmUpAssumption ==
  /\ NoInstance \notin Instances /\ NoUser \notin Users /\ WarmUpKey # NoKey
  /\ Workers # {} /\ Untagged \subseteq Users /\ Pools \subseteq Seq(Users)
  /\ warmUpNums \in Seq(Nat) /\ warmUpNums # <<>>
  /\ Home \in [Callers -> Instances]
  /\ lockTTL \in Nat \ {0} /\ taskTimeout \in Nat \ {0}
  /\ taskTimeout <= lockTTL
  /\ MayFail \in BOOLEAN

VARIABLES
  held, phase, lockKey,  \* the lock (RedisLock)
  lockLeft,   \* ticks until Redis drops the token
  serving,    \* serving[i]: server i is up
  started,    \* started[i]: the scheduler of i is started
  stage,      \* stage[i]: where the job of i is
  ctxLeft,    \* ctxLeft[i]: ticks until the context of i's job ends
  pool,       \* pool[i]: the candidates of i's job
  chan,       \* chan[i]: candidates sent and received, and whether it is closed
  worker,     \* worker[i][w]: what goroutine w of i's pool is doing
  tried,      \* tried[i]: the users and lengths i's job called Once for (history)
  stopper,    \* stopper[c]: the call of Stop that c has made
  quiet       \* quiet[i]: a Stop has returned nil, no Start since it (history)

lockVars == <<held, phase, lockKey>>
jobVars == <<stage, ctxLeft, pool, chan, worker, tried>>
schedVars == <<started, stopper, quiet>>
vars == <<lockVars, lockLeft, serving, jobVars, schedVars>>

L == INSTANCE RedisLock WITH
  Procs <- Instances, Keys <- {WarmUpKey}, NoProc <- NoInstance,
  Covered <- {}, MayCrash <- MayFail

Gone == [at |-> "done", user |-> NoUser, nxt |-> 1]
Recv == [Gone EXCEPT !.at = "recv"]
NoWorker == [w \in Workers |-> Gone]
WorkerStates ==
  [at : {"recv", "call", "done"}, user : Users \cup {NoUser},
   nxt : 1 .. Len(warmUpNums)]
NoChan == [sent |-> 0, received |-> 0, closed |-> FALSE]
Stages == {"idle", "setnx", "load", "feed", "wait", "return"}
NoStop == [on |-> FALSE, woken |-> FALSE, last |-> FALSE]

TypeOK ==
  /\ L!LockTypeOK /\ lockLeft \in 0 .. lockTTL
  /\ serving \in [Instances -> BOOLEAN] /\ started \in [Instances -> BOOLEAN]
  /\ stage \in [Instances -> Stages]
  /\ ctxLeft \in [Instances -> 0 .. taskTimeout]
  /\ pool \in [Instances -> Pools \cup {<<>>}]
  /\ \A i \in Instances :
       /\ chan[i].sent \in 0 .. Len(pool[i])
       /\ chan[i].received \in 0 .. chan[i].sent
       /\ chan[i].closed \in BOOLEAN
  /\ worker \in [Instances -> [Workers -> WorkerStates]]
  /\ tried \in [Instances -> SUBSET (Users \X (1 .. Len(warmUpNums)))]
  /\ stopper \in [Callers -> [on : BOOLEAN, woken : BOOLEAN, last : BOOLEAN]]
  /\ quiet \in [Instances -> BOOLEAN]

Init ==
  /\ L!LockInit /\ lockLeft = 0
  /\ serving = [i \in Instances |-> FALSE]
  /\ started = [i \in Instances |-> FALSE]
  /\ stage = [i \in Instances |-> "idle"]
  /\ ctxLeft = [i \in Instances |-> 0]
  /\ pool = [i \in Instances |-> <<>>]
  /\ chan = [i \in Instances |-> NoChan]
  /\ worker = [i \in Instances |-> NoWorker]
  /\ tried = [i \in Instances |-> {}]
  /\ stopper = [c \in Callers |-> NoStop]
  /\ quiet = [i \in Instances |-> FALSE]

-----------------------------------------------------------------------------
(* The server.                                                             *)

(* main: everything is connected, the job is registered, the scheduler     *)
(* started, the server listens.  A boot that fails, or that a signal ends  *)
(* during the migrations, leaves nothing behind; a later signal only ends  *)
(* a context nobody reads any more, so neither is a step.                  *)
Boot(i) ==
  /\ ~ serving[i]
  /\ serving' = [serving EXCEPT ![i] = TRUE]
  /\ started' = [started EXCEPT ![i] = TRUE]
  /\ UNCHANGED <<lockVars, lockLeft, jobVars, stopper, quiet>>

(* The process ends and takes its goroutines with it: the listener fails   *)
(* and logger.Fatal exits, or it is killed.  In neither case do main's     *)
(* deferred calls run, sched.Stop among them.                              *)
ServerDies(i) ==
  /\ MayFail /\ serving[i]
  /\ serving' = [serving EXCEPT ![i] = FALSE]
  /\ started' = [started EXCEPT ![i] = FALSE]
  /\ quiet' = [quiet EXCEPT ![i] = FALSE]
  /\ stopper' = [c \in Callers |-> IF Home[c] = i THEN NoStop ELSE stopper[c]]
  /\ stage' = [stage EXCEPT ![i] = "idle"]
  /\ ctxLeft' = [ctxLeft EXCEPT ![i] = 0]
  /\ pool' = [pool EXCEPT ![i] = <<>>]
  /\ chan' = [chan EXCEPT ![i] = NoChan]
  /\ worker' = [worker EXCEPT ![i] = NoWorker]
  /\ tried' = [tried EXCEPT ![i] = {}]
  /\ IF phase[i] = "idle" THEN UNCHANGED lockVars ELSE L!Crash(i)
  /\ UNCHANGED lockLeft

-----------------------------------------------------------------------------
(* The scheduler.                                                          *)

(* 03:00: a job that is still running makes cron skip the new one.         *)
Fire(i) ==
  /\ started[i] /\ stage[i] = "idle"
  /\ stage' = [stage EXCEPT ![i] = "setnx"]
  /\ ctxLeft' = [ctxLeft EXCEPT ![i] = taskTimeout]
  /\ UNCHANGED <<lockVars, lockLeft, serving, pool, chan, worker, tried, schedVars>>

(* Start: nothing if started.                                              *)
Start(i) ==
  /\ serving[i] /\ ~ started[i]
  /\ started' = [started EXCEPT ![i] = TRUE]
  /\ quiet' = [quiet EXCEPT ![i] = FALSE]
  /\ stopper' = [c \in Callers |->
                    [stopper[c] EXCEPT !.last = @ /\ Home[c] # i]]
  /\ UNCHANGED <<lockVars, lockLeft, serving, jobVars>>

(* Mutant: the flag is cleared, cron's Stop is not called.                 *)
StopForgets(c) ==
  /\ stopper[c] = NoStop /\ started[Home[c]]
  /\ stopper' = [stopper EXCEPT ![c] =
                   [on |-> TRUE, woken |-> stage[Home[c]] = "idle", last |-> TRUE]]
  /\ UNCHANGED <<lockVars, lockLeft, serving, jobVars, started, quiet>>

(* Stop by a caller that finds the scheduler started (it returns nil at    *)
(* once otherwise): cron fires no more, the caller waits for the job.      *)
Stop(c) ==
  /\ stopper[c] = NoStop /\ started[Home[c]]
  /\ started' = [started EXCEPT ![Home[c]] = FALSE]
  /\ stopper' = [stopper EXCEPT ![c] =
                   [on |-> TRUE, woken |-> stage[Home[c]] = "idle", last |-> TRUE]]
  /\ UNCHANGED <<lockVars, lockLeft, serving, jobVars, quiet>>

(* The callers that the end of i's job wakes: cron's wait group is at 0.   *)
Woken(i) ==
  [c \in Callers |-> [stopper[c] EXCEPT !.woken = stopper[c].on /\ (@ \/ Home[c] = i)]]

(* Stop returns nil.                                                       *)
StopReturns(c) ==
  /\ stopper[c].woken
  /\ stopper' = [stopper EXCEPT ![c] = NoStop]
  /\ quiet' = [quiet EXCEPT ![Home[c]] = @ \/ stopper[c].last]
  /\ UNCHANGED <<lockVars, lockLeft, serving, jobVars, started>>

(* Stop returns the error of its context.                                  *)
StopGivesUp(c) ==
  /\ stopper[c] # NoStop
  /\ stopper' = [stopper EXCEPT ![c] = NoStop]
  /\ UNCHANGED <<lockVars, lockLeft, serving, jobVars, started, quiet>>

-----------------------------------------------------------------------------
(* The job: RunWithLock around warmUpMatchTask.                            *)

(* The job function returns: cancel runs, cron counts the job as over.     *)
EndJob(i) ==
  /\ stage' = [stage EXCEPT ![i] = "idle"]
  /\ ctxLeft' = [ctxLeft EXCEPT ![i] = 0]
  /\ tried' = [tried EXCEPT ![i] = {}]
  /\ stopper' = Woken(i)
  /\ UNCHANGED <<pool, chan, worker, serving, started, quiet>>

(* Mutant: whoever holds the lock, the job goes on.                        *)
TakeLockAnyway(i) ==
  /\ stage[i] = "setnx" /\ ctxLeft[i] > 0
  /\ held' = [held EXCEPT ![WarmUpKey] = i]
  /\ phase' = [phase EXCEPT ![i] = "fn"]
  /\ lockKey' = [lockKey EXCEPT ![i] = WarmUpKey]
  /\ lockLeft' = lockTTL
  /\ stage' = [stage EXCEPT ![i] = "load"]
  /\ UNCHANGED <<ctxLeft, pool, chan, worker, tried, serving, schedVars>>

TakeLock(i) ==
  /\ stage[i] = "setnx" /\ ctxLeft[i] > 0
  /\ L!Acquire(i, WarmUpKey)
  /\ lockLeft' = lockTTL
  /\ stage' = [stage EXCEPT ![i] = "load"]
  /\ UNCHANGED <<ctxLeft, pool, chan, worker, tried, serving, schedVars>>

(* ErrLockFailed: another instance warms up, this one skips.               *)
SkipJob(i) ==
  /\ stage[i] = "setnx" /\ ctxLeft[i] > 0
  /\ L!Refused(i, WarmUpKey)
  /\ EndJob(i)
  /\ UNCHANGED lockLeft

LockFails(i) ==
  /\ stage[i] = "setnx" /\ (MayFail \/ ctxLeft[i] = 0)
  /\ L!AcquireError(i, WarmUpKey)
  /\ lockLeft' = IF held' = held THEN lockLeft ELSE lockTTL
  /\ EndJob(i)

(* loadActiveCandidates fails or finds nobody.                             *)
LoadNothing(i) ==
  /\ stage[i] = "load" /\ (MayFail \/ ctxLeft[i] = 0 \/ <<>> \in Pools)
  /\ L!FnReturns(i)
  /\ stage' = [stage EXCEPT ![i] = "return"]
  /\ UNCHANGED <<lockLeft, ctxLeft, pool, chan, worker, tried, serving, schedVars>>

(* The candidates are there: the channel and the pool are made.            *)
Load(i) ==
  /\ stage[i] = "load" /\ ctxLeft[i] > 0
  /\ \E s \in Pools \ {<<>>} : pool' = [pool EXCEPT ![i] = s]
  /\ worker' = [worker EXCEPT ![i] = [w \in Workers |-> Recv]]
  /\ stage' = [stage EXCEPT ![i] = "feed"]
  /\ UNCHANGED <<lockVars, lockLeft, ctxLeft, chan, tried, serving, schedVars>>

(* One round of the producer's loop.  The channel has a place for every    *)
(* candidate, so a send never waits.                                       *)
Feed(i) ==
  /\ stage[i] = "feed" /\ chan[i].sent < Len(pool[i]) /\ ctxLeft[i] > 0
  /\ chan' = [chan EXCEPT ![i].sent = @ + 1]
  /\ UNCHANGED <<lockVars, lockLeft, stage, ctxLeft, pool, worker, tried,
                 serving, schedVars>>

(* Mutant: a producer that finds its context ended does not close.         *)
CloseWhenAllSent(i) ==
  /\ stage[i] = "feed"
  /\ chan[i].sent = Len(pool[i]) \/ ctxLeft[i] = 0
  /\ chan' = [chan EXCEPT ![i].closed = ctxLeft[i] > 0]
  /\ stage' = [stage EXCEPT ![i] = "wait"]
  /\ UNCHANGED <<lockVars, lockLeft, ctxLeft, pool, worker, tried, serving, schedVars>>

(* All are sent, or the context has ended before the next send.            *)
Close(i) ==
  /\ stage[i] = "feed"
  /\ chan[i].sent = Len(pool[i]) \/ ctxLeft[i] = 0
  /\ chan' = [chan EXCEPT ![i].closed = TRUE]
  /\ stage' = [stage EXCEPT ![i] = "wait"]
  /\ UNCHANGED <<lockVars, lockLeft, ctxLeft, pool, worker, tried, serving, schedVars>>

(* What a goroutine with user u does next: the call of Once for length n,  *)
(* unless there is none left or the context has ended.                     *)
Turn(i, u, n) ==
  IF ctxLeft[i] > 0 /\ n <= Len(warmUpNums)
  THEN [at |-> "call", user |-> u, nxt |-> n] ELSE Recv

(* The calls of Once that a goroutine in state s makes, for the history.   *)
Calls(s) == IF s.at = "call" THEN {<<s.user, s.nxt>>} ELSE {}

(* A goroutine receives a user; it leaves when the context has ended, and  *)
(* warmUpSingleUser does nothing for a user without tags.                  *)
WorkerTakes(i, w) ==
  /\ worker[i][w].at = "recv" /\ chan[i].received < chan[i].sent
  /\ LET u == pool[i][chan[i].received + 1]
         s == IF ctxLeft[i] = 0 THEN Gone
              ELSE IF u \in Untagged THEN Recv ELSE Turn(i, u, 1)
     IN /\ worker' = [worker EXCEPT ![i][w] = s]
        /\ tried' = [tried EXCEPT ![i] = @ \cup Calls(s)]
  /\ chan' = [chan EXCEPT ![i].received = @ + 1]
  /\ UNCHANGED <<lockVars, lockLeft, stage, ctxLeft, pool, serving, schedVars>>

(* The channel is closed and drained.                                      *)
WorkerEnds(i, w) ==
  /\ worker[i][w].at = "recv"
  /\ chan[i].closed /\ chan[i].received = chan[i].sent
  /\ worker' = [worker EXCEPT ![i][w] = Gone]
  /\ UNCHANGED <<lockVars, lockLeft, stage, ctxLeft, pool, chan, tried,
                 serving, schedVars>>

(* Mutant: the first length that fails ends the user's turn.               *)
WorkerReturnsOnError(i, w) ==
  /\ worker[i][w].at = "call"
  /\ worker' = [worker EXCEPT ![i][w] = Recv]
  /\ UNCHANGED <<lockVars, lockLeft, stage, ctxLeft, pool, chan, tried,
                 serving, schedVars>>

(* Mutant: the user is not put down when its turn is over.                 *)
WorkerReturnsBusy(i, w) ==
  /\ worker[i][w].at = "call"
  /\ worker' = [worker EXCEPT ![i][w].nxt = @ + 1]
  /\ UNCHANGED <<lockVars, lockLeft, stage, ctxLeft, pool, chan, tried,
                 serving, schedVars>>

(* Once returns; an error is logged and the next length follows.           *)
WorkerReturns(i, w) ==
  /\ worker[i][w].at = "call"
  /\ LET s == Turn(i, worker[i][w].user, worker[i][w].nxt + 1)
     IN /\ worker' = [worker EXCEPT ![i][w] = s]
        /\ tried' = [tried EXCEPT ![i] = @ \cup Calls(s)]
  /\ UNCHANGED <<lockVars, lockLeft, stage, ctxLeft, pool, chan, serving, schedVars>>

(* Mutant: no wg.Wait.                                                     *)
WaitNot(i) ==
  /\ stage[i] = "wait"
  /\ L!FnReturns(i)
  /\ stage' = [stage EXCEPT ![i] = "return"]
  /\ UNCHANGED <<lockLeft, ctxLeft, pool, chan, worker, tried, serving, schedVars>>

(* wg.Wait returns, the task is over.                                      *)
Wait(i) ==
  /\ stage[i] = "wait" /\ worker[i] = NoWorker
  /\ L!FnReturns(i)
  /\ stage' = [stage EXCEPT ![i] = "return"]
  /\ pool' = [pool EXCEPT ![i] = <<>>]
  /\ chan' = [chan EXCEPT ![i] = NoChan]
  /\ UNCHANGED <<lockLeft, ctxLeft, worker, tried, serving, schedVars>>

(* The deferred unlock runs under the same context, so it fails once that  *)
(* has ended and the token stays until its TTL.                            *)
Release(i) ==
  /\ stage[i] = "return"
  /\ \/ ctxLeft[i] > 0 /\ L!Unlock(i)
     \/ (MayFail \/ ctxLeft[i] = 0) /\ L!UnlockError(i)
  /\ lockLeft' = IF held'[WarmUpKey] = NoInstance THEN 0 ELSE lockLeft
  /\ EndJob(i)

-----------------------------------------------------------------------------
Older(n) == IF n = 0 THEN 0 ELSE n - 1

(* Mutant: the clock leaves the token alone, as a SETNX without a TTL does.*)
TickNoTTL ==
  /\ \E i \in Instances : ctxLeft[i] > 0
  /\ ctxLeft' = [i \in Instances |-> Older(ctxLeft[i])]
  /\ UNCHANGED <<lockVars, lockLeft, stage, pool, chan, worker, tried,
                 serving, schedVars>>

(* A tick of the clock: contexts and the token grow older.                 *)
Tick ==
  /\ lockLeft > 0 \/ \E i \in Instances : ctxLeft[i] > 0
  /\ ctxLeft' = [i \in Instances |-> Older(ctxLeft[i])]
  /\ lockLeft' = Older(lockLeft)
  /\ IF lockLeft = 1 THEN L!Expire(WarmUpKey) ELSE UNCHANGED lockVars
  /\ UNCHANGED <<stage, pool, chan, worker, tried, serving, schedVars>>

JobStep(i) ==
  \/ TakeLock(i) \/ SkipJob(i) \/ LockFails(i) \/ LoadNothing(i) \/ Load(i)
  \/ Feed(i) \/ Close(i) \/ Wait(i) \/ Release(i)

WorkerStep(i, w) ==
  \/ WorkerTakes(i, w) \/ WorkerEnds(i, w) \/ WorkerReturns(i, w)

Next ==
  \/ \E i \in Instances :
       \/ Boot(i) \/ ServerDies(i) \/ Fire(i) \/ Start(i) \/ JobStep(i)
       \/ \E w \in Workers : WorkerStep(i, w)
  \/ \E c \in Callers : Stop(c) \/ StopReturns(c) \/ StopGivesUp(c)
  \/ Tick

Spec == Init /\ [][Next]_vars

(* Time passes, goroutines run and the calls they make return.             *)
FairSpec ==
  /\ Spec /\ WF_vars(Tick)
  /\ \A i \in Instances :
       /\ WF_vars(JobStep(i))
       /\ \A w \in Workers : WF_vars(WorkerStep(i, w))

-----------------------------------------------------------------------------
Warming(i) == stage[i] \in {"load", "feed", "wait"}

(* A job that ends before its context has called Once for every length of  *)
(* every user with tags it loaded (warmUpMatchTask, cache_task.go:86-110). *)
AllWarmed ==
  \A i \in Instances :
    stage[i] = "wait" /\ ctxLeft[i] > 0 /\ worker[i] = NoWorker
    => tried[i] = ({pool[i][n] : n \in DOMAIN pool[i]} \ Untagged)
                    \X (1 .. Len(warmUpNums))

(* No goroutine of the pool outlives its job's stay in the lock: whoever   *)
(* takes the lock next finds no call of the last one (cache_task.go:110).  *)
NoWorkerLeft ==
  \A i \in Instances :
    worker[i] # NoWorker => stage[i] \in {"feed", "wait"} /\ phase[i] = "fn"

(* Two instances warm up together only when the context of one of them has *)
(* ended: then it starts no further call, and only waits for those it has  *)
(* begun (cache_task.go:14, 33, main.go:76).                               *)
OverlapExplained ==
  \A i, j \in Instances :
    i # j /\ Warming(i) /\ Warming(j) => ctxLeft[i] = 0 \/ ctxLeft[j] = 0

(* After a Stop that has waited returns nil, no job runs and none fires    *)
(* until the next Start (cron.go:65-88).                                   *)
QuietAfterStop == \A i \in Instances : quiet[i] => stage[i] = "idle"

(* A job ends, whether or not its context ends first: neither the producer *)
(* nor a goroutine of the pool waits for good (cache_task.go:86-110).      *)
JobEnds == \A i \in Instances : []<>(stage[i] = "idle")

(* The lock comes free, though processes die while they hold it, deferred  *)
(* calls of main never run and late unlocks fail (redis_lock.go:48).       *)
WarmUpLockFreed == []<>(held[WarmUpKey] = NoInstance)
=============================================================================
