---------------------------- MODULE WarmUpProofs ----------------------------
(***************************************************************************)
(* Theorems about WarmUp for any servers, pools, candidates and lengths.   *)
(***************************************************************************)
EXTENDS WarmUp, TLAPS

(* The part of TypeOK that the theorems need.                              *)
JobTypes ==
  /\ held \in [{WarmUpKey} -> Instances \cup {NoInstance}]
  /\ phase \in [Instances -> {"idle", "fn", "unlock"}]
  /\ lockKey \in [Instances -> {WarmUpKey, NoKey}]
  /\ lockLeft \in Nat
  /\ stage \in [Instances -> Stages]
  /\ ctxLeft \in [Instances -> 0 .. taskTimeout]
  /\ DOMAIN worker = Instances

(* Where the job is decides where its call of RunWithLock is and whether   *)
(* goroutines of its pool may be left.                                     *)
StageInv ==
  \A i \in Instances :
    /\ stage[i] \in {"idle", "setnx"} => phase[i] = "idle"
    /\ stage[i] \in {"load", "feed", "wait"} => phase[i] = "fn"
    /\ stage[i] = "return" => phase[i] = "unlock"
    /\ phase[i] # "idle" => lockKey[i] = WarmUpKey
    /\ stage[i] \notin {"feed", "wait"} => worker[i] = NoWorker

(* The token outlives the context of the job that has set it, and nobody   *)
(* takes it away before.                                                   *)
TokenInv ==
  \A i \in Instances :
    Warming(i) /\ ctxLeft[i] > 0 => held[WarmUpKey] = i /\ lockLeft >= ctxLeft[i]

JobInv == JobTypes /\ StageInv /\ TokenInv

-----------------------------------------------------------------------------

LEMMA JobInit == Init => JobInv
BY WarmUpAssumption
   DEF Init, JobInv, JobTypes, StageInv, TokenInv, Warming, L!LockInit, Stages

(* One step for each action that touches what JobInv speaks of.            *)
LEMMA JobStepKeeps ==
  ASSUME JobInv, [Next]_vars
  PROVE  JobInv'
<1> USE WarmUpAssumption DEF JobInv, JobTypes, StageInv, TokenInv, Warming, Stages
<1>1. ASSUME NEW i \in Instances, ServerDies(i) PROVE JobInv'
  <2>1. /\ UNCHANGED <<held, lockLeft>>
        /\ phase' \in [Instances -> {"idle", "fn", "unlock"}]
        /\ lockKey' \in [Instances -> {WarmUpKey, NoKey}]
        /\ phase'[i] = "idle"
        /\ \A j \in Instances \ {i} : phase'[j] = phase[j] /\ lockKey'[j] = lockKey[j]
    <3>1. CASE phase[i] = "idle"
      BY <1>1, <3>1 DEF ServerDies, lockVars
    <3>2. CASE phase[i] # "idle"
      <4>1. L!Crash(i) /\ lockLeft' = lockLeft
        BY <1>1, <3>2 DEF ServerDies
      <4> QED
        BY <4>1 DEF L!Crash
    <3> QED
      BY <3>1, <3>2
  <2>2. /\ stage' = [stage EXCEPT ![i] = "idle"]
        /\ ctxLeft' = [ctxLeft EXCEPT ![i] = 0]
        /\ worker' = [worker EXCEPT ![i] = NoWorker]
    BY <1>1 DEF ServerDies
  <2>3. /\ DOMAIN worker' = Instances
        /\ worker'[i] = NoWorker /\ \A j \in Instances \ {i} : worker'[j] = worker[j]
    BY <2>2
  <2> QED
    BY <2>1, <2>2, <2>3
<1>2. ASSUME NEW i \in Instances, Fire(i) PROVE JobInv'
  BY <1>2 DEF Fire, lockVars
<1>3. ASSUME NEW i \in Instances, TakeLock(i) PROVE JobInv'
  BY <1>3 DEF TakeLock, L!Acquire
<1>4. ASSUME NEW i \in Instances, SkipJob(i) PROVE JobInv'
  BY <1>4 DEF SkipJob, EndJob, L!Refused, L!lockVars
<1>5. ASSUME NEW i \in Instances, LockFails(i) PROVE JobInv'
  BY <1>5 DEF LockFails, EndJob, L!AcquireError
<1>6. ASSUME NEW i \in Instances, LoadNothing(i) PROVE JobInv'
  BY <1>6 DEF LoadNothing, L!FnReturns
<1>7. ASSUME NEW i \in Instances, Load(i) PROVE JobInv'
  <2>1. /\ stage[i] = "load" /\ stage' = [stage EXCEPT ![i] = "feed"]
        /\ UNCHANGED <<lockVars, lockLeft, ctxLeft>>
    BY <1>7 DEF Load
  <2>2. PICK start : worker' = [worker EXCEPT ![i] = start]
    BY <1>7 DEF Load
  <2>3. /\ DOMAIN worker' = Instances
        /\ \A j \in Instances \ {i} : worker'[j] = worker[j]
    BY <2>2
  <2> QED
    BY <2>1, <2>3 DEF lockVars
<1>8. ASSUME NEW i \in Instances, Close(i) PROVE JobInv'
  BY <1>8 DEF Close, lockVars
<1>9. ASSUME NEW i \in Instances, NEW w \in Workers, WorkerStep(i, w) PROVE JobInv'
  <2>1. stage[i] \in {"feed", "wait"}
    BY <1>9 DEF WorkerStep, WorkerTakes, WorkerEnds, WorkerReturns, NoWorker, Gone
  <2>2. /\ DOMAIN worker' = Instances
        /\ \A j \in Instances \ {i} : worker'[j] = worker[j]
    BY <1>9 DEF WorkerStep, WorkerTakes, WorkerEnds, WorkerReturns
  <2>3. UNCHANGED <<lockVars, lockLeft, stage, ctxLeft>>
    BY <1>9 DEF WorkerStep, WorkerTakes, WorkerEnds, WorkerReturns
  <2> QED
    BY <2>1, <2>2, <2>3 DEF lockVars
<1>10. ASSUME NEW i \in Instances, Wait(i) PROVE JobInv'
  BY <1>10 DEF Wait, L!FnReturns
<1>11. ASSUME NEW i \in Instances, Release(i) PROVE JobInv'
  <2>1. /\ stage[i] = "return" /\ stage' = [stage EXCEPT ![i] = "idle"]
        /\ ctxLeft' = [ctxLeft EXCEPT ![i] = 0]
        /\ phase' = [phase EXCEPT ![i] = "idle"]
        /\ lockKey' = [lockKey EXCEPT ![i] = NoKey]
        /\ worker' = worker
    BY <1>11 DEF Release, EndJob, L!Unlock, L!UnlockError
  <2>2. \/ held' = held
        \/ held[WarmUpKey] = i /\ held' = [held EXCEPT ![WarmUpKey] = NoInstance]
    BY <1>11, <2>1 DEF Release, L!Unlock, L!UnlockError
  <2>3. lockLeft' = IF held'[WarmUpKey] = NoInstance THEN 0 ELSE lockLeft
    BY <1>11 DEF Release
  <2> QED
    BY <2>1, <2>2, <2>3
<1>12. CASE Tick
  <2>1. /\ lockLeft' = Older(lockLeft)
        /\ UNCHANGED <<phase, lockKey, stage, worker>>
    BY <1>12 DEF Tick, lockVars, L!Expire
  <2>2. /\ ctxLeft' \in [Instances -> 0 .. taskTimeout]
        /\ \A i \in Instances : ctxLeft'[i] > 0 => ctxLeft'[i] = ctxLeft[i] - 1
    <3>1. ASSUME NEW n \in 0 .. taskTimeout
          PROVE  Older(n) \in 0 .. taskTimeout /\ (Older(n) > 0 => Older(n) = n - 1)
      BY DEF Older
    <3>2. ctxLeft' = [i \in Instances |-> Older(ctxLeft[i])]
      BY <1>12 DEF Tick
    <3> QED
      BY <3>1, <3>2
  <2>3. CASE lockLeft = 1
    <3>1. held' = [held EXCEPT ![WarmUpKey] = NoInstance]
      BY <1>12, <2>3 DEF Tick, L!Expire
    <3>2. lockLeft' = 0
      BY <2>1, <2>3 DEF Older
    <3>3. ASSUME NEW i \in Instances, Warming(i), ctxLeft'[i] > 0 PROVE FALSE
      <4>1. ctxLeft[i] \in Nat /\ ctxLeft'[i] \in Nat
        BY <2>2
      <4>2. ctxLeft'[i] = ctxLeft[i] - 1
        BY <2>2, <3>3
      <4>3. lockLeft >= ctxLeft[i]
        BY <3>3, <4>1, <4>2
      <4> QED
        BY <2>3, <3>3, <4>1, <4>2, <4>3
    <3> QED
      BY <2>1, <2>2, <3>1, <3>2, <3>3
  <2>4. CASE lockLeft # 1
    <3>1. held' = held
      BY <1>12, <2>4 DEF Tick, lockVars
    <3>2. lockLeft' \in Nat /\ (lockLeft > 0 => lockLeft' = lockLeft - 1)
      BY <2>1 DEF Older
    <3> QED
      BY <2>1, <2>2, <3>1, <3>2
  <2> QED
    BY <2>3, <2>4
<1>13. CASE UNCHANGED <<lockVars, lockLeft, stage, ctxLeft, worker>>
  BY <1>13 DEF lockVars
<1> HIDE DEF JobInv
<1>14. ASSUME NEW i \in Instances, Boot(i) \/ Start(i) \/ Feed(i) PROVE JobInv'
  BY <1>13, <1>14 DEF Boot, Start, Feed, jobVars
<1>15. ASSUME NEW c \in Callers, Stop(c) \/ StopReturns(c) \/ StopGivesUp(c)
       PROVE  JobInv'
  BY <1>13, <1>15 DEF Stop, StopReturns, StopGivesUp, jobVars
<1>16. CASE UNCHANGED vars
  BY <1>13, <1>16 DEF vars, jobVars
<1> QED
  BY <1>1, <1>2, <1>3, <1>4, <1>5, <1>6, <1>7, <1>8, <1>9, <1>10, <1>11, <1>12,
     <1>14, <1>15, <1>16 DEF Next, JobStep

(* A caller of Stop whose wait is over, with no Start since it called,     *)
(* finds no job; a server that is down has no scheduler and no callers.    *)
StopInv ==
  /\ stage \in [Instances -> Stages]
  /\ serving \in [Instances -> BOOLEAN] /\ started \in [Instances -> BOOLEAN]
  /\ quiet \in [Instances -> BOOLEAN]
  /\ stopper \in [Callers -> [on : BOOLEAN, woken : BOOLEAN, last : BOOLEAN]]
  /\ \A i \in Instances :
       /\ started[i] => serving[i]
       /\ quiet[i] => serving[i] /\ ~ started[i] /\ stage[i] = "idle"
       /\ ~ serving[i] => stage[i] = "idle"
  /\ \A c \in Callers :
       /\ stopper[c].woken \/ stopper[c].last => serving[Home[c]]
       /\ stopper[c].last => ~ started[Home[c]]
       /\ stopper[c].last /\ stopper[c].woken => stage[Home[c]] = "idle"

LEMMA StopInit == Init => StopInv
BY WarmUpAssumption DEF Init, StopInv, NoStop, Stages

(* Changing one field of a caller's record.                                *)
LEMMA StopFields ==
  ASSUME NEW s \in [on : BOOLEAN, woken : BOOLEAN, last : BOOLEAN], NEW v \in BOOLEAN
  PROVE  /\ [s EXCEPT !.woken = v] = [on |-> s.on, woken |-> v, last |-> s.last]
         /\ [s EXCEPT !.last = v] = [on |-> s.on, woken |-> s.woken, last |-> v]
OBVIOUS

(* The end of a job wakes the callers that wait for it, and no other.      *)
LEMMA EndJobKeepsStop ==
  ASSUME StopInv, NEW i \in Instances, EndJob(i), serving[i]
  PROVE  StopInv'
<1> USE WarmUpAssumption DEF StopInv, Stages
<1>1. ASSUME NEW c \in Callers
      PROVE  stopper'[c] = [on |-> stopper[c].on,
                            woken |-> stopper[c].on /\ (stopper[c].woken \/ Home[c] = i),
                            last |-> stopper[c].last]
  <2> DEFINE v == stopper[c].on /\ (stopper[c].woken \/ Home[c] = i)
  <2>1. stopper'[c] = [stopper[c] EXCEPT !.woken = v]
    BY Zenon DEF EndJob, Woken
  <2>2. v \in BOOLEAN
    OBVIOUS
  <2> HIDE DEF v
  <2> QED
    BY <2>1, <2>2, StopFields DEF v
<1>2. stopper' \in [Callers -> [on : BOOLEAN, woken : BOOLEAN, last : BOOLEAN]]
  <2>1. stopper' = [c \in Callers |-> stopper'[c]]
    BY Zenon DEF EndJob, Woken
  <2>2. ASSUME NEW c \in Callers
        PROVE  stopper'[c] \in [on : BOOLEAN, woken : BOOLEAN, last : BOOLEAN]
    <3> DEFINE v == stopper[c].on /\ (stopper[c].woken \/ Home[c] = i)
    <3>1. stopper'[c] = [on |-> stopper[c].on, woken |-> v, last |-> stopper[c].last]
      BY <1>1
    <3>2. v \in BOOLEAN /\ stopper[c].on \in BOOLEAN /\ stopper[c].last \in BOOLEAN
      OBVIOUS
    <3> HIDE DEF v
    <3> QED
      BY <3>1, <3>2
  <2> QED
    BY <2>1, <2>2, Zenon
<1>3. /\ stage' = [stage EXCEPT ![i] = "idle"]
      /\ UNCHANGED <<serving, started, quiet>>
  BY DEF EndJob
<1> QED
  BY <1>1, <1>2, <1>3

LEMMA StopKeeps ==
  ASSUME StopInv, [Next]_vars
  PROVE  StopInv'
<1> USE WarmUpAssumption DEF StopInv, Stages
<1>1. ASSUME NEW i \in Instances, Boot(i) PROVE StopInv'
  BY <1>1 DEF Boot, jobVars
<1>2. ASSUME NEW i \in Instances, ServerDies(i) PROVE StopInv'
  <2>1. stopper' = [c \in Callers |-> IF Home[c] = i THEN NoStop ELSE stopper[c]]
    BY <1>2 DEF ServerDies
  <2>2. /\ serving' = [serving EXCEPT ![i] = FALSE]
        /\ started' = [started EXCEPT ![i] = FALSE]
        /\ quiet' = [quiet EXCEPT ![i] = FALSE]
        /\ stage' = [stage EXCEPT ![i] = "idle"]
    BY <1>2 DEF ServerDies
  <2> QED
    BY <2>1, <2>2 DEF NoStop
<1>3. ASSUME NEW i \in Instances, Fire(i) PROVE StopInv'
  BY <1>3 DEF Fire, schedVars
<1>4. ASSUME NEW i \in Instances, Start(i) PROVE StopInv'
  <2>1. ASSUME NEW c \in Callers
        PROVE  stopper'[c] = [on |-> stopper[c].on, woken |-> stopper[c].woken,
                              last |-> stopper[c].last /\ Home[c] # i]
    <3> DEFINE v == stopper[c].last /\ Home[c] # i
    <3>1. stopper'[c] = [stopper[c] EXCEPT !.last = v]
      BY <1>4, Zenon DEF Start
    <3>2. v \in BOOLEAN
      OBVIOUS
    <3> HIDE DEF v
    <3> QED
      BY <3>1, <3>2, StopFields DEF v
  <2>2. stopper' \in [Callers -> [on : BOOLEAN, woken : BOOLEAN, last : BOOLEAN]]
    <3>1. stopper' = [c \in Callers |-> stopper'[c]]
      BY <1>4, Zenon DEF Start
    <3>2. ASSUME NEW c \in Callers
          PROVE  stopper'[c] \in [on : BOOLEAN, woken : BOOLEAN, last : BOOLEAN]
      <4> DEFINE v == stopper[c].last /\ Home[c] # i
      <4>1. stopper'[c] = [on |-> stopper[c].on, woken |-> stopper[c].woken, last |-> v]
        BY <2>1
      <4>2. v \in BOOLEAN /\ stopper[c].on \in BOOLEAN /\ stopper[c].woken \in BOOLEAN
        OBVIOUS
      <4> HIDE DEF v
      <4> QED
        BY <4>1, <4>2
    <3> QED
      BY <3>1, <3>2, Zenon
  <2>3. /\ serving[i] /\ started' = [started EXCEPT ![i] = TRUE]
        /\ quiet' = [quiet EXCEPT ![i] = FALSE]
        /\ UNCHANGED <<serving, stage>>
    BY <1>4 DEF Start, jobVars
  <2> QED
    BY <2>1, <2>2, <2>3
<1>5. ASSUME NEW c \in Callers, Stop(c) PROVE StopInv'
  <2> DEFINE v == stage[Home[c]] = "idle"
  <2>1. stopper' = [stopper EXCEPT ![c] = [on |-> TRUE, woken |-> v, last |-> TRUE]]
    BY <1>5 DEF Stop
  <2>2. v \in BOOLEAN /\ (v => stage[Home[c]] = "idle")
    OBVIOUS
  <2>3. /\ started[Home[c]] /\ started' = [started EXCEPT ![Home[c]] = FALSE]
        /\ UNCHANGED <<serving, stage, quiet>>
    BY <1>5 DEF Stop, jobVars
  <2> HIDE DEF v
  <2> QED
    BY <2>1, <2>2, <2>3
<1>6. ASSUME NEW c \in Callers, StopReturns(c) PROVE StopInv'
  <2> DEFINE v == quiet[Home[c]] \/ stopper[c].last
  <2>1. /\ stopper[c].woken /\ stopper' = [stopper EXCEPT ![c] = NoStop]
        /\ quiet' = [quiet EXCEPT ![Home[c]] = v]
        /\ UNCHANGED <<serving, started, stage>>
    BY <1>6 DEF StopReturns, jobVars
  <2>2. /\ v \in BOOLEAN
        /\ v => serving[Home[c]] /\ ~ started[Home[c]] /\ stage[Home[c]] = "idle"
    BY <2>1
  <2> HIDE DEF v
  <2> QED
    BY <2>1, <2>2 DEF NoStop
<1>7. ASSUME NEW c \in Callers, StopGivesUp(c) PROVE StopInv'
  BY <1>7 DEF StopGivesUp, jobVars, NoStop
<1>8. ASSUME NEW i \in Instances, SkipJob(i) \/ LockFails(i) \/ Release(i)
      PROVE  StopInv'
  <2>1. EndJob(i) /\ stage[i] # "idle"
    BY <1>8 DEF SkipJob, LockFails, Release
  <2> QED
    BY <2>1, EndJobKeepsStop
<1>9. ASSUME NEW i \in Instances, TakeLock(i) \/ LoadNothing(i) \/ Load(i) \/ Close(i) \/ Wait(i)
      PROVE  StopInv'
  <2>1. PICK s \in Stages \ {"idle"} : stage[i] # "idle" /\ stage' = [stage EXCEPT ![i] = s]
    BY <1>9 DEF TakeLock, LoadNothing, Load, Close, Wait
  <2>2. UNCHANGED <<serving, started, quiet, stopper>>
    BY <1>9 DEF TakeLock, LoadNothing, Load, Close, Wait, schedVars
  <2> QED
    BY <2>1, <2>2
<1>10. CASE UNCHANGED <<stage, serving, started, quiet, stopper>>
  BY <1>10
<1> HIDE DEF StopInv
<1>11. ASSUME NEW i \in Instances, Feed(i) PROVE StopInv'
  BY <1>10, <1>11 DEF Feed, schedVars
<1>12. ASSUME NEW i \in Instances, NEW w \in Workers, WorkerStep(i, w) PROVE StopInv'
  BY <1>10, <1>12 DEF WorkerStep, WorkerTakes, WorkerEnds, WorkerReturns, schedVars
<1>13. CASE Tick
  BY <1>10, <1>13 DEF Tick, schedVars
<1>14. CASE UNCHANGED vars
  BY <1>10, <1>14 DEF vars, jobVars, schedVars
<1> QED
  BY <1>1, <1>2, <1>3, <1>4, <1>5, <1>6, <1>7, <1>8, <1>9, <1>11, <1>12, <1>13, <1>14
     DEF Next, JobStep

(* After a Stop that has waited returns nil, no job runs and none fires    *)
(* until the next Start, whoever stops and starts (cron.go:65-88).         *)
THEOREM StopIsQuiet == Spec => []QuietAfterStop
<1>1. StopInv => QuietAfterStop
  BY DEF StopInv, QuietAfterStop
<1> QED
  BY <1>1, StopInit, StopKeeps, PTL DEF Spec

(* No goroutine of a pool outlives its job's stay in the lock, whatever    *)
(* fails, dies or ends early (warmUpMatchTask, cache_task.go:110).         *)
THEOREM PoolDrained == Spec => []NoWorkerLeft
<1>1. JobInv => NoWorkerLeft
  BY DEF JobInv, JobTypes, StageInv, NoWorkerLeft
<1> QED
  BY <1>1, JobInit, JobStepKeeps, PTL DEF Spec

(* Two servers warm up together only when the context of one of them has   *)
(* ended: the lock's TTL outlasts every context (cache_task.go:14,         *)
(* main.go:76).                                                            *)
THEOREM OverlapOnlyLate == Spec => []OverlapExplained
<1>1. JobInv => OverlapExplained
  BY DEF JobInv, JobTypes, TokenInv, OverlapExplained
<1> QED
  BY <1>1, JobInit, JobStepKeeps, PTL DEF Spec

-----------------------------------------------------------------------------
(* The pool.                                                               *)

Lengths == 1 .. Len(warmUpNums)
Channels == [sent : Nat, received : Nat, closed : BOOLEAN]

(* The users with tags that goroutines of i's pool have received.          *)
Handed(i) == {pool[i][n] : n \in 1 .. chan[i].received} \ Untagged

PoolTypes ==
  /\ stage \in [Instances -> Stages]
  /\ ctxLeft \in [Instances -> 0 .. taskTimeout]
  /\ lockLeft \in 0 .. lockTTL
  /\ pool \in [Instances -> Pools \cup {<<>>}]
  /\ chan \in [Instances -> Channels]
  /\ worker \in [Instances -> [Workers -> WorkerStates]]
  /\ tried \in [Instances -> SUBSET (Users \X Lengths)]

(* The channel is there while the job feeds it and waits; it is closed     *)
(* between the two, before everything is sent only without a context.      *)
ChannelAt(i) ==
  /\ chan[i].received <= chan[i].sent /\ chan[i].sent <= Len(pool[i])
  /\ stage[i] \notin {"feed", "wait"} => chan[i] = NoChan /\ pool[i] = <<>>
  /\ stage[i] = "feed" => ~ chan[i].closed
  /\ stage[i] = "wait" =>
       chan[i].closed /\ (ctxLeft[i] > 0 => chan[i].sent = Len(pool[i]))

(* A goroutine works for a user it has received, and leaves a job with a   *)
(* context only when nothing is left to receive.                           *)
WorkersAt(i) ==
  \A w \in Workers :
    /\ worker[i][w].at = "call" => worker[i][w].user \in Handed(i)
    /\ worker[i][w].at = "done" /\ stage[i] \in {"feed", "wait"} /\ ctxLeft[i] > 0 =>
         chan[i].closed /\ chan[i].received = chan[i].sent

(* While the context lasts, every length of every user received has been   *)
(* tried or is ahead of the goroutine that works for the user.             *)
TriedAt(i) ==
  /\ stage[i] \in {"idle", "setnx", "load"} => tried[i] = {}
  /\ stage[i] # "return" => tried[i] \subseteq Handed(i) \X Lengths
  /\ ctxLeft[i] > 0 =>
       \A u \in Handed(i), k \in Lengths :
         \/ <<u, k>> \in tried[i]
         \/ \E w \in Workers : /\ worker[i][w].at = "call"
                               /\ worker[i][w].user = u /\ worker[i][w].nxt < k

PoolAt(i) == ChannelAt(i) /\ WorkersAt(i) /\ TriedAt(i)

PoolInv == PoolTypes /\ \A i \in Instances : PoolAt(i)

(* The state of i's job is untouched.                                      *)
SameJob(i) ==
  /\ stage'[i] = stage[i] /\ ctxLeft'[i] = ctxLeft[i] /\ pool'[i] = pool[i]
  /\ chan'[i] = chan[i] /\ worker'[i] = worker[i] /\ tried'[i] = tried[i]

(* A job keeps its part of the invariant while it is left alone.           *)
LEMMA SameJobKeeps ==
  ASSUME NEW i \in Instances, PoolAt(i), SameJob(i)
  PROVE  PoolAt(i)'
BY DEF SameJob, PoolAt, ChannelAt, WorkersAt, TriedAt, Handed

(* A step of one job leaves the others alone.                              *)
LEMMA OneJob ==
  ASSUME PoolInv, PoolTypes', NEW i \in Instances, PoolAt(i)',
         \A j \in Instances \ {i} : SameJob(j)
  PROVE  PoolInv'
BY SameJobKeeps DEF PoolInv

(* Changing one field of a channel.                                        *)
LEMMA ChannelFields ==
  ASSUME NEW c \in Channels, NEW n \in Nat, NEW v \in BOOLEAN
  PROVE  /\ [c EXCEPT !.sent = n] =
              [sent |-> n, received |-> c.received, closed |-> c.closed]
         /\ [c EXCEPT !.received = n] =
              [sent |-> c.sent, received |-> n, closed |-> c.closed]
         /\ [c EXCEPT !.closed = v] =
              [sent |-> c.sent, received |-> c.received, closed |-> v]
<1>1. [c EXCEPT !.sent = n] =
        [sent |-> n, received |-> c.received, closed |-> c.closed]
  BY DEF Channels
<1>2. [c EXCEPT !.received = n] =
        [sent |-> c.sent, received |-> n, closed |-> c.closed]
  BY DEF Channels
<1>3. [c EXCEPT !.closed = v] =
        [sent |-> c.sent, received |-> c.received, closed |-> v]
  BY DEF Channels
<1> QED
  BY <1>1, <1>2, <1>3

(* A pool is a sequence of users.                                          *)
LEMMA PoolIsSeq ==
  ASSUME PoolTypes, NEW i \in Instances
  PROVE  pool[i] \in Seq(Users)
<1>1. pool[i] \in Pools \cup {<<>>}
  BY DEF PoolTypes
<1>2. <<>> \in Seq(Users)
  OBVIOUS
<1> QED
  BY <1>1, <1>2, WarmUpAssumption

(* One goroutine of a pool goes to state s.                                *)
PutWorker(i, w, s) == worker' = [worker EXCEPT ![i][w] = s]

(* What a step of one goroutine leaves of the others.                      *)
LEMMA WorkerSet ==
  ASSUME worker \in [Instances -> [Workers -> WorkerStates]],
         NEW i \in Instances, NEW w \in Workers, NEW s \in WorkerStates,
         PutWorker(i, w, s)
  PROVE  /\ worker' \in [Instances -> [Workers -> WorkerStates]]
         /\ worker'[i][w] = s
         /\ \A v \in Workers \ {w} : worker'[i][v] = worker[i][v]
         /\ \A j \in Instances \ {i} : worker'[j] = worker[j]
<1>1. worker[i] \in [Workers -> WorkerStates]
  OBVIOUS
<1>2. [worker[i] EXCEPT ![w] = s] \in [Workers -> WorkerStates]
  BY <1>1
<1>3. worker' = [worker EXCEPT ![i] = [worker[i] EXCEPT ![w] = s]]
  BY DEF PutWorker
<1>4. worker' \in [Instances -> [Workers -> WorkerStates]]
  BY <1>2, <1>3
<1>5. /\ worker'[i] = [worker[i] EXCEPT ![w] = s]
      /\ \A j \in Instances \ {i} : worker'[j] = worker[j]
  BY <1>3
<1> QED
  BY <1>1, <1>4, <1>5

(* The states of goroutines that steps name.                               *)
LEMMA NamedStates ==
  /\ Gone \in WorkerStates /\ Recv \in WorkerStates
  /\ Gone.at = "done" /\ Recv.at = "recv"
  /\ NoWorker \in [Workers -> WorkerStates]
  /\ 1 \in Lengths
<1>1. 1 \in 1 .. Len(warmUpNums)
  BY WarmUpAssumption
<1>2. Gone \in WorkerStates
  BY <1>1 DEF Gone, WorkerStates
<1>3. Recv = [at |-> "recv", user |-> NoUser, nxt |-> 1]
  BY DEF Recv, Gone
<1>4. Recv \in WorkerStates
  BY <1>1, <1>3 DEF WorkerStates
<1> QED
  BY <1>1, <1>2, <1>3, <1>4 DEF NoWorker, Lengths, Gone

LEMMA PoolInit == Init => PoolInv
<1> SUFFICES ASSUME Init PROVE PoolInv
  OBVIOUS
<1>1. NoChan \in Channels /\ NoChan.sent = 0 /\ NoChan.received = 0
  BY DEF NoChan, Channels
<1>2. PoolTypes
  BY <1>1, NamedStates, WarmUpAssumption DEF Init, PoolTypes, Stages
<1>3. ASSUME NEW i \in Instances PROVE PoolAt(i)
  <2>1. chan[i] = NoChan /\ pool[i] = <<>> /\ Handed(i) = {}
    BY <1>1, <1>3 DEF Init, Handed
  <2>2. ChannelAt(i)
    BY <1>1, <2>1 DEF Init, ChannelAt
  <2>3. WorkersAt(i)
    BY NamedStates DEF Init, WorkersAt, NoWorker
  <2>4. TriedAt(i)
    BY <2>1 DEF Init, TriedAt
  <2> QED
    BY <2>2, <2>3, <2>4 DEF PoolAt
<1> QED
  BY <1>2, <1>3 DEF PoolInv

(* A job whose channel is away, whose goroutines make no call and which    *)
(* has tried nothing needs no more.                                        *)
LEMMA EmptyJob ==
  ASSUME NEW i \in Instances, chan'[i] = NoChan, pool'[i] = <<>>,
         stage'[i] \notin {"feed", "wait"},
         \A w \in Workers : worker'[i][w].at # "call",
         stage'[i] # "return" => tried'[i] = {}
  PROVE  PoolAt(i)'
<1>1. NoChan.sent = 0 /\ NoChan.received = 0 /\ Handed(i)' = {}
  BY DEF NoChan, Handed
<1>2. ChannelAt(i)'
  BY <1>1 DEF ChannelAt
<1>3. WorkersAt(i)'
  BY DEF WorkersAt
<1>4. TriedAt(i)'
  BY <1>1 DEF TriedAt
<1> QED
  BY <1>2, <1>3, <1>4 DEF PoolAt

(* Outside of its pool a job has no channel and no calls.                  *)
LEMMA OutsidePool ==
  ASSUME PoolInv, NEW i \in Instances, stage[i] \notin {"feed", "wait"}
  PROVE  /\ chan[i] = NoChan /\ pool[i] = <<>>
         /\ \A w \in Workers : worker[i][w].at # "call"
         /\ stage[i] \in {"idle", "setnx", "load"} => tried[i] = {}
<1>1. chan[i] = NoChan /\ pool[i] = <<>>
  BY DEF PoolInv, PoolAt, ChannelAt
<1>2. Handed(i) = {}
  BY <1>1 DEF Handed, NoChan
<1> QED
  BY <1>1, <1>2 DEF PoolInv, PoolAt, WorkersAt, TriedAt

(* The steps that end a job or take it on outside of its pool.             *)
LEMMA OutsideKeeps ==
  ASSUME PoolInv, PoolTypes', NEW i \in Instances,
         stage[i] \notin {"feed", "wait"}, stage'[i] \notin {"feed", "wait"},
         UNCHANGED <<pool, chan, worker>>,
         stage'[i] # "return" => tried'[i] = {},
         \A j \in Instances \ {i} :
           stage'[j] = stage[j] /\ ctxLeft'[j] = ctxLeft[j] /\ tried'[j] = tried[j]
  PROVE  PoolInv'
<1>1. PoolAt(i)'
  BY OutsidePool, EmptyJob
<1>2. \A j \in Instances \ {i} : SameJob(j)
  BY DEF SameJob
<1> QED
  BY <1>1, <1>2, OneJob

(* A server dies: its goroutines and its channel are gone.                 *)
LEMMA ServerDiesPool ==
  ASSUME PoolInv, NEW i \in Instances, ServerDies(i)
  PROVE  PoolInv'
<1>1. /\ stage' = [stage EXCEPT ![i] = "idle"]
      /\ ctxLeft' = [ctxLeft EXCEPT ![i] = 0]
      /\ pool' = [pool EXCEPT ![i] = <<>>]
      /\ chan' = [chan EXCEPT ![i] = NoChan]
      /\ worker' = [worker EXCEPT ![i] = NoWorker]
      /\ tried' = [tried EXCEPT ![i] = {}]
      /\ lockLeft' = lockLeft
  BY DEF ServerDies
<1>2. NoChan \in Channels
  BY DEF NoChan, Channels
<1>3. PoolTypes'
  <2>1. /\ stage' \in [Instances -> Stages] /\ ctxLeft' \in [Instances -> 0 .. taskTimeout]
        /\ lockLeft' \in 0 .. lockTTL /\ pool' \in [Instances -> Pools \cup {<<>>}]
    BY <1>1, WarmUpAssumption DEF PoolInv, PoolTypes, Stages
  <2>2. /\ chan' \in [Instances -> Channels]
        /\ worker' \in [Instances -> [Workers -> WorkerStates]]
    BY <1>1, <1>2, NamedStates DEF PoolInv, PoolTypes
  <2>3. tried' \in [Instances -> SUBSET (Users \X Lengths)]
    BY <1>1 DEF PoolInv, PoolTypes
  <2> QED
    BY <2>1, <2>2, <2>3 DEF PoolTypes
<1>4. /\ stage'[i] = "idle" /\ pool'[i] = <<>> /\ chan'[i] = NoChan
      /\ worker'[i] = NoWorker /\ tried'[i] = {}
      /\ \A j \in Instances \ {i} : SameJob(j)
  BY <1>1 DEF PoolInv, PoolTypes, SameJob
<1>5. \A w \in Workers : worker'[i][w].at # "call"
  BY <1>4, NamedStates DEF NoWorker
<1> QED
  BY <1>3, <1>4, <1>5, EmptyJob, OneJob

(* A job starts, is refused the lock or gets it, finds nobody, or ends.    *)
LEMMA OutsideSteps ==
  ASSUME PoolInv, NEW i \in Instances,
         \/ Fire(i) \/ TakeLock(i) \/ SkipJob(i) \/ LockFails(i)
         \/ LoadNothing(i) \/ Release(i)
  PROVE  PoolInv'
<1>1. /\ stage[i] \notin {"feed", "wait"} /\ UNCHANGED <<pool, chan, worker>>
      /\ \/ \E s \in {"setnx", "load", "return"} :
              /\ stage' = [stage EXCEPT ![i] = s] /\ tried' = tried
              /\ s # "return" => stage[i] \in {"idle", "setnx"}
         \/ stage' = [stage EXCEPT ![i] = "idle"] /\ tried' = [tried EXCEPT ![i] = {}]
      /\ \/ ctxLeft' = ctxLeft
         \/ ctxLeft' = [ctxLeft EXCEPT ![i] = 0]
         \/ ctxLeft' = [ctxLeft EXCEPT ![i] = taskTimeout]
      /\ lockLeft' \in {0, lockLeft, lockTTL}
  BY DEF Fire, TakeLock, SkipJob, LockFails, LoadNothing, Release, EndJob
<1>2. PoolTypes'
  <2>1. stage' \in [Instances -> Stages]
    BY <1>1 DEF PoolInv, PoolTypes, Stages
  <2>2. tried' \in [Instances -> SUBSET (Users \X Lengths)]
    BY <1>1 DEF PoolInv, PoolTypes
  <2>3. ctxLeft' \in [Instances -> 0 .. taskTimeout]
    <3>1. 0 \in 0 .. taskTimeout /\ taskTimeout \in 0 .. taskTimeout
      BY WarmUpAssumption
    <3> QED
      BY <1>1, <3>1 DEF PoolInv, PoolTypes
  <2>4. lockLeft' \in 0 .. lockTTL
    BY <1>1, WarmUpAssumption DEF PoolInv, PoolTypes
  <2> QED
    BY <1>1, <2>1, <2>2, <2>3, <2>4 DEF PoolInv, PoolTypes
<1>3. stage'[i] \notin {"feed", "wait"}
  BY <1>1 DEF PoolInv, PoolTypes
<1>4. stage'[i] # "return" => tried'[i] = {}
  BY <1>1, OutsidePool DEF PoolInv, PoolTypes
<1>5. \A j \in Instances \ {i} :
        stage'[j] = stage[j] /\ ctxLeft'[j] = ctxLeft[j] /\ tried'[j] = tried[j]
  BY <1>1 DEF PoolInv, PoolTypes
<1> QED
  BY <1>1, <1>2, <1>3, <1>4, <1>5, OutsideKeeps

(* The job has its candidates and starts the pool.                         *)
LEMMA LoadPool ==
  ASSUME PoolInv, NEW i \in Instances, Load(i)
  PROVE  PoolInv'
<1> DEFINE start == [w \in Workers |-> Recv]
<1>1. PICK s \in Pools \ {<<>>} : pool' = [pool EXCEPT ![i] = s]
  BY DEF Load
<1>2. /\ stage[i] = "load" /\ stage' = [stage EXCEPT ![i] = "feed"]
      /\ worker' = [worker EXCEPT ![i] = start]
      /\ UNCHANGED <<lockLeft, ctxLeft, chan, tried>>
  BY DEF Load
<1>3. start \in [Workers -> WorkerStates] /\ \A w \in Workers : start[w].at = "recv"
  BY NamedStates
<1> HIDE DEF start
<1>4. PoolTypes'
  BY <1>1, <1>2, <1>3 DEF PoolInv, PoolTypes, Stages
<1>5. /\ stage'[i] = "feed" /\ pool'[i] = s /\ worker'[i] = start /\ chan'[i] = NoChan
      /\ tried'[i] = {}
      /\ \A j \in Instances \ {i} : SameJob(j)
  BY <1>1, <1>2, OutsidePool DEF PoolInv, PoolTypes, SameJob
<1>6. Handed(i)' = {}
  BY <1>5 DEF Handed, NoChan
<1>7. Len(s) \in Nat
  BY WarmUpAssumption
<1>8. ChannelAt(i)'
  BY <1>5, <1>7 DEF ChannelAt, NoChan
<1>9. WorkersAt(i)' /\ TriedAt(i)'
  BY <1>3, <1>5, <1>6 DEF WorkersAt, TriedAt
<1> QED
  BY <1>4, <1>5, <1>8, <1>9, OneJob DEF PoolAt

(* One more candidate is in the channel.                                   *)
LEMMA FeedPool ==
  ASSUME PoolInv, NEW i \in Instances, Feed(i)
  PROVE  PoolInv'
<1>1. PICK c \in Channels : c = chan[i]
  BY DEF PoolInv, PoolTypes
<1>2. PICK n \in Nat : n = c.sent + 1
  BY DEF Channels
<1>3. PICK d : d = [sent |-> n, received |-> c.received, closed |-> c.closed]
  OBVIOUS
<1>4. d \in Channels
  BY <1>3 DEF Channels
<1>5. chan' = [chan EXCEPT ![i] = d]
  <2>1. [c EXCEPT !.sent = n] = d
    BY <1>3, ChannelFields DEF Channels
  <2>2. chan' = [chan EXCEPT ![i] = [chan[i] EXCEPT !.sent = n]]
    BY <1>1, <1>2 DEF Feed
  <2> QED
    BY <1>1, <2>1, <2>2
<1>6. /\ stage[i] = "feed" /\ c.sent < Len(pool[i])
      /\ UNCHANGED <<lockLeft, stage, ctxLeft, pool, worker, tried>>
  BY <1>1 DEF Feed
<1>7. PoolTypes'
  BY <1>4, <1>5, <1>6 DEF PoolInv, PoolTypes
<1>8. chan'[i] = d /\ \A j \in Instances \ {i} : SameJob(j)
  BY <1>5, <1>6 DEF PoolInv, PoolTypes, SameJob
<1>9. d.sent = c.sent + 1 /\ d.received = c.received /\ d.closed = c.closed
  BY <1>2, <1>3
<1>10. Handed(i)' = Handed(i)
  BY <1>1, <1>6, <1>8, <1>9 DEF Handed
<1>11. c.sent \in Nat /\ c.received \in Nat /\ Len(pool[i]) \in Nat
  BY PoolIsSeq DEF Channels, PoolInv
<1>12. ChannelAt(i)'
  BY <1>1, <1>6, <1>8, <1>9, <1>11 DEF PoolInv, PoolAt, ChannelAt
<1>13. WorkersAt(i)'
  BY <1>1, <1>6, <1>8, <1>9, <1>10 DEF PoolInv, PoolAt, WorkersAt, ChannelAt
<1>14. TriedAt(i)'
  BY <1>6, <1>10 DEF PoolInv, PoolAt, TriedAt
<1> QED
  BY <1>7, <1>8, <1>12, <1>13, <1>14, OneJob DEF PoolAt

(* Nothing more is sent: all candidates were, or the context has ended.    *)
LEMMA ClosePool ==
  ASSUME PoolInv, NEW i \in Instances, Close(i)
  PROVE  PoolInv'
<1>1. PICK c \in Channels : c = chan[i]
  BY DEF PoolInv, PoolTypes
<1>2. PICK d : d = [sent |-> c.sent, received |-> c.received, closed |-> TRUE]
  OBVIOUS
<1>3. d \in Channels
  BY <1>2 DEF Channels
<1>4. chan' = [chan EXCEPT ![i] = d]
  <2>1. [c EXCEPT !.closed = TRUE] = d
    BY <1>2, ChannelFields DEF Channels
  <2>2. chan' = [chan EXCEPT ![i] = [chan[i] EXCEPT !.closed = TRUE]]
    BY DEF Close
  <2> QED
    BY <1>1, <2>1, <2>2
<1>5. /\ stage[i] = "feed" /\ stage' = [stage EXCEPT ![i] = "wait"]
      /\ c.sent = Len(pool[i]) \/ ctxLeft[i] = 0
      /\ UNCHANGED <<lockLeft, ctxLeft, pool, worker, tried>>
  BY <1>1 DEF Close
<1>6. PoolTypes'
  BY <1>3, <1>4, <1>5 DEF PoolInv, PoolTypes, Stages
<1>7. chan'[i] = d /\ stage'[i] = "wait" /\ \A j \in Instances \ {i} : SameJob(j)
  BY <1>4, <1>5 DEF PoolInv, PoolTypes, SameJob
<1>8. d.sent = c.sent /\ d.received = c.received /\ d.closed
  BY <1>2
<1>9. Handed(i)' = Handed(i)
  BY <1>1, <1>5, <1>7, <1>8 DEF Handed
<1>10. ChannelAt(i)'
  BY <1>1, <1>5, <1>7, <1>8 DEF PoolInv, PoolAt, ChannelAt
<1>11. WorkersAt(i)'
  BY <1>1, <1>5, <1>7, <1>8, <1>9 DEF PoolInv, PoolAt, WorkersAt, ChannelAt
<1>12. TriedAt(i)'
  BY <1>5, <1>7, <1>9 DEF PoolInv, PoolAt, TriedAt
<1> QED
  BY <1>6, <1>7, <1>10, <1>11, <1>12, OneJob DEF PoolAt

(* The goroutine's turn: another call while the context lasts and a length *)
(* is left, or the next receive.                                           *)
LEMMA TurnIs ==
  ASSUME NEW i \in Instances, NEW u \in Users, NEW n \in Nat \ {0}
  PROVE  /\ Turn(i, u, n) \in WorkerStates
         /\ Turn(i, u, n).at \in {"recv", "call"}
         /\ Turn(i, u, n).at = "call" =>
              Turn(i, u, n).user = u /\ Turn(i, u, n).nxt = n /\ n \in Lengths
         /\ ctxLeft[i] > 0 /\ n \in Lengths => Turn(i, u, n).at = "call"
<1>1. Len(warmUpNums) \in Nat
  BY WarmUpAssumption
<1>2. CASE ctxLeft[i] > 0 /\ n <= Len(warmUpNums)
  <2>1. Turn(i, u, n) = [at |-> "call", user |-> u, nxt |-> n]
    BY <1>2 DEF Turn
  <2> QED
    BY <1>1, <1>2, <2>1 DEF WorkerStates, Lengths
<1>3. CASE ~ (ctxLeft[i] > 0 /\ n <= Len(warmUpNums))
  <2>1. Turn(i, u, n) = Recv
    BY <1>3 DEF Turn
  <2> QED
    BY <1>1, <1>3, <2>1, NamedStates DEF Lengths
<1> QED
  BY <1>2, <1>3

(* What the history gains when a goroutine enters state s.                 *)
LEMMA CallsAre ==
  ASSUME NEW s \in WorkerStates
  PROVE  /\ s.at # "call" => Calls(s) = {}
         /\ s.at = "call" => Calls(s) = {<<s.user, s.nxt>>}
BY DEF Calls

(* A candidate goes from the channel to a goroutine.                       *)
LEMMA WorkerTakesPool ==
  ASSUME PoolInv, NEW i \in Instances, NEW w \in Workers, WorkerTakes(i, w)
  PROVE  PoolInv'
<1>1. PICK c \in Channels : c = chan[i]
  BY DEF PoolInv, PoolTypes
<1>2. /\ worker[i][w].at = "recv" /\ c.received < c.sent
      /\ UNCHANGED <<lockLeft, stage, ctxLeft, pool>>
  BY <1>1 DEF WorkerTakes
<1>3. /\ c.sent \in Nat /\ c.received \in Nat /\ c.sent <= Len(pool[i])
      /\ pool[i] \in Seq(Users)
  BY <1>1, PoolIsSeq DEF Channels, PoolInv, PoolAt, ChannelAt
<1>4. PICK u \in Users : u = pool[i][c.received + 1]
  <2>1. c.received + 1 \in 1 .. Len(pool[i])
    BY <1>2, <1>3
  <2> QED
    BY <1>3, <2>1
<1>5. PICK d : d = [sent |-> c.sent, received |-> c.received + 1, closed |-> c.closed]
  OBVIOUS
<1>6. /\ d \in Channels /\ d.sent = c.sent /\ d.received = c.received + 1
      /\ d.closed = c.closed
  BY <1>3, <1>5 DEF Channels
<1>7. chan' = [chan EXCEPT ![i] = d]
  <2>1. PICK n \in Nat : n = c.received + 1
    BY <1>3
  <2>2. [c EXCEPT !.received = n] = d
    BY <1>5, <2>1, ChannelFields DEF Channels
  <2>3. chan' = [chan EXCEPT ![i] = [chan[i] EXCEPT !.received = n]]
    BY <1>1, <2>1 DEF WorkerTakes
  <2> QED
    BY <1>1, <2>2, <2>3
<1>8. PICK s \in WorkerStates :
        /\ PutWorker(i, w, s) /\ tried' = [tried EXCEPT ![i] = @ \cup Calls(s)]
        /\ s.at = "done" => ctxLeft[i] = 0
        /\ s.at = "call" => s.user = u /\ s.nxt = 1 /\ u \notin Untagged
        /\ ctxLeft[i] > 0 /\ u \notin Untagged => s.at = "call"
  <2> DEFINE s == IF ctxLeft[i] = 0 THEN Gone
                  ELSE IF u \in Untagged THEN Recv ELSE Turn(i, u, 1)
  <2>1. worker' = [worker EXCEPT ![i][w] = s] /\ tried' = [tried EXCEPT ![i] = @ \cup Calls(s)]
    BY <1>1, <1>4 DEF WorkerTakes
  <2>2. ctxLeft[i] \in Nat
    BY WarmUpAssumption DEF PoolInv, PoolTypes
  <2>3. /\ s \in WorkerStates /\ (s.at = "done" => ctxLeft[i] = 0)
        /\ s.at = "call" => s.user = u /\ s.nxt = 1 /\ u \notin Untagged
        /\ ctxLeft[i] > 0 /\ u \notin Untagged => s.at = "call"
    <3>1. CASE ctxLeft[i] = 0
      BY <3>1, NamedStates
    <3>2. CASE ctxLeft[i] # 0 /\ u \in Untagged
      BY <3>2, NamedStates
    <3>3. CASE ctxLeft[i] # 0 /\ u \notin Untagged
      BY <2>2, <3>3, NamedStates, TurnIs
    <3> QED
      BY <3>1, <3>2, <3>3
  <2> HIDE DEF s
  <2> QED
    BY <2>1, <2>3 DEF PutWorker
<1>9. /\ worker' \in [Instances -> [Workers -> WorkerStates]]
      /\ worker'[i][w] = s
      /\ \A v \in Workers \ {w} : worker'[i][v] = worker[i][v]
      /\ \A j \in Instances \ {i} : worker'[j] = worker[j]
  BY <1>8, WorkerSet DEF PoolInv, PoolTypes
<1>10. Handed(i)' = Handed(i) \cup ({u} \ Untagged)
  <2>1. chan'[i] = d /\ pool' = pool
    BY <1>2, <1>7 DEF PoolInv, PoolTypes
  <2>2. \A n : n \in 1 .. d.received <=> n \in 1 .. c.received \/ n = c.received + 1
    BY <1>3, <1>6
  <2> QED
    BY <1>1, <1>4, <2>1, <2>2 DEF Handed
<1>11. Calls(s) \subseteq Users \X Lengths
  BY <1>8, CallsAre, NamedStates
<1>12. PoolTypes'
  BY <1>2, <1>6, <1>7, <1>8, <1>9, <1>11 DEF PoolInv, PoolTypes
<1>13. /\ chan'[i] = d /\ tried'[i] = tried[i] \cup Calls(s)
       /\ \A j \in Instances \ {i} : SameJob(j)
  BY <1>2, <1>7, <1>8, <1>9 DEF PoolInv, PoolTypes, SameJob
<1>14. ChannelAt(i)'
  BY <1>1, <1>2, <1>3, <1>6, <1>13 DEF PoolInv, PoolAt, ChannelAt, NoChan
<1>15. WorkersAt(i)'
  <2>1. ASSUME NEW v \in Workers, worker'[i][v].at = "call"
        PROVE  worker'[i][v].user \in Handed(i)'
    BY <1>8, <1>9, <1>10, <2>1 DEF PoolInv, PoolAt, WorkersAt
  <2>2. ASSUME NEW v \in Workers, worker'[i][v].at = "done",
               stage'[i] \in {"feed", "wait"}, ctxLeft'[i] > 0
        PROVE  FALSE
    <3>1. v # w /\ worker[i][v].at = "done"
      BY <1>2, <1>8, <1>9, <2>2
    <3>2. c.received = c.sent
      BY <1>1, <1>2, <2>2, <3>1 DEF PoolInv, PoolAt, WorkersAt
    <3> QED
      BY <1>2, <1>3, <3>2
  <2> QED
    BY <2>1, <2>2 DEF WorkersAt
<1>16. TriedAt(i)'
  <2>1. stage[i] \in {"feed", "wait"}
    BY <1>1, <1>2 DEF PoolInv, PoolAt, ChannelAt, NoChan
  <2>2. tried'[i] \subseteq Handed(i)' \X Lengths
    BY <1>8, <1>10, <1>13, <2>1, CallsAre, NamedStates DEF PoolInv, PoolAt, TriedAt
  <2>3. ASSUME ctxLeft'[i] > 0, NEW v \in Handed(i)', NEW k \in Lengths
        PROVE  \/ <<v, k>> \in tried'[i]
               \/ \E x \in Workers : /\ worker'[i][x].at = "call"
                                     /\ worker'[i][x].user = v /\ worker'[i][x].nxt < k
    <3>1. CASE v \in Handed(i)
      <4>1. \/ <<v, k>> \in tried[i]
            \/ \E x \in Workers : /\ worker[i][x].at = "call"
                                  /\ worker[i][x].user = v /\ worker[i][x].nxt < k
        BY <1>2, <2>3, <3>1 DEF PoolInv, PoolAt, TriedAt
      <4> QED
        BY <1>2, <1>9, <1>13, <4>1
    <3>2. CASE v \notin Handed(i)
      <4>1. v = u /\ u \notin Untagged
        BY <1>10, <2>3, <3>2
      <4>2. s.at = "call" /\ s.user = v /\ s.nxt = 1 /\ <<v, 1>> \in tried'[i]
        BY <1>2, <1>8, <1>13, <2>3, <4>1, CallsAre
      <4>3. k = 1 \/ 1 < k
        BY WarmUpAssumption DEF Lengths
      <4> QED
        BY <1>9, <4>2, <4>3
    <3> QED
      BY <3>1, <3>2
  <2> QED
    BY <1>2, <2>1, <2>2, <2>3 DEF TriedAt
<1> QED
  BY <1>12, <1>13, <1>14, <1>15, <1>16, OneJob DEF PoolAt

(* A goroutine leaves: the channel is drained, or the context has ended.   *)
LEMMA WorkerEndsPool ==
  ASSUME PoolInv, NEW i \in Instances, NEW w \in Workers, WorkerEnds(i, w)
  PROVE  PoolInv'
<1>1. /\ worker[i][w].at = "recv" /\ PutWorker(i, w, Gone)
      /\ chan[i].closed /\ chan[i].received = chan[i].sent
      /\ UNCHANGED <<lockLeft, stage, ctxLeft, pool, chan, tried>>
  BY DEF WorkerEnds, PutWorker
<1>2. /\ worker' \in [Instances -> [Workers -> WorkerStates]]
      /\ worker'[i][w] = Gone
      /\ \A v \in Workers \ {w} : worker'[i][v] = worker[i][v]
      /\ \A j \in Instances \ {i} : worker'[j] = worker[j]
  BY <1>1, NamedStates, WorkerSet DEF PoolInv, PoolTypes
<1>3. PoolTypes' /\ Handed(i)' = Handed(i)
  BY <1>1, <1>2 DEF PoolInv, PoolTypes, Handed
<1>4. ChannelAt(i)'
  BY <1>1 DEF PoolInv, PoolAt, ChannelAt
<1>5. WorkersAt(i)'
  BY <1>1, <1>2, <1>3, NamedStates DEF PoolInv, PoolAt, WorkersAt
<1>6. TriedAt(i)'
  <2>1. ASSUME NEW v \in Workers, worker[i][v].at = "call"
        PROVE  worker'[i][v] = worker[i][v]
    BY <1>1, <1>2, <2>1
  <2> QED
    BY <1>1, <1>3, <2>1 DEF PoolInv, PoolAt, TriedAt
<1>7. \A j \in Instances \ {i} : SameJob(j)
  BY <1>1, <1>2 DEF SameJob
<1> QED
  BY <1>3, <1>4, <1>5, <1>6, <1>7, OneJob DEF PoolAt

(* A goroutine goes on to the next length, or to the next candidate.       *)
LEMMA WorkerReturnsPool ==
  ASSUME PoolInv, NEW i \in Instances, NEW w \in Workers, WorkerReturns(i, w)
  PROVE  PoolInv'
<1>1. /\ worker[i][w].at = "call" /\ worker[i][w] \in WorkerStates
      /\ UNCHANGED <<lockLeft, stage, ctxLeft, pool, chan>>
  BY DEF WorkerReturns, PoolInv, PoolTypes
<1>2. PICK u \in Handed(i), n \in Lengths : u = worker[i][w].user /\ n = worker[i][w].nxt
  BY <1>1 DEF PoolInv, PoolAt, WorkersAt, WorkerStates, Lengths
<1>3. stage[i] \in {"feed", "wait"}
  BY <1>1, OutsidePool
<1>4. u \in Users
  <2>1. chan[i].received \in Nat /\ chan[i].sent \in Nat
    BY DEF PoolInv, PoolTypes, Channels
  <2>2. 1 .. chan[i].received \subseteq 1 .. Len(pool[i]) /\ pool[i] \in Seq(Users)
    BY <2>1, PoolIsSeq DEF PoolInv, PoolAt, ChannelAt
  <2> QED
    BY <2>2 DEF Handed
<1>5. n \in Nat \ {0} /\ n + 1 \in Nat \ {0}
  BY DEF Lengths
<1>6. PICK s \in WorkerStates :
        /\ PutWorker(i, w, s) /\ tried' = [tried EXCEPT ![i] = @ \cup Calls(s)]
        /\ s.at \in {"recv", "call"}
        /\ s.at = "call" => s.user = u /\ s.nxt = n + 1 /\ n + 1 \in Lengths
        /\ ctxLeft[i] > 0 /\ n + 1 \in Lengths => s.at = "call"
  <2> DEFINE s == Turn(i, u, n + 1)
  <2>1. PutWorker(i, w, s) /\ tried' = [tried EXCEPT ![i] = @ \cup Calls(s)]
    BY <1>2 DEF WorkerReturns, PutWorker
  <2>2. /\ s \in WorkerStates /\ s.at \in {"recv", "call"}
        /\ s.at = "call" => s.user = u /\ s.nxt = n + 1 /\ n + 1 \in Lengths
        /\ ctxLeft[i] > 0 /\ n + 1 \in Lengths => s.at = "call"
    BY <1>4, <1>5, TurnIs
  <2> HIDE DEF s
  <2> QED
    BY <2>1, <2>2
<1>7. /\ worker' \in [Instances -> [Workers -> WorkerStates]]
      /\ worker'[i][w] = s
      /\ \A v \in Workers \ {w} : worker'[i][v] = worker[i][v]
      /\ \A j \in Instances \ {i} : worker'[j] = worker[j]
  BY <1>6, WorkerSet DEF PoolInv, PoolTypes
<1>8. Calls(s) \subseteq {u} \X Lengths
  BY <1>6, CallsAre
<1>9. PoolTypes' /\ Handed(i)' = Handed(i)
  BY <1>1, <1>4, <1>6, <1>7, <1>8 DEF PoolInv, PoolTypes, Handed
<1>10. /\ tried'[i] = tried[i] \cup Calls(s)
       /\ \A j \in Instances \ {i} : SameJob(j)
  BY <1>1, <1>6, <1>7 DEF PoolInv, PoolTypes, SameJob
<1>11. ChannelAt(i)'
  BY <1>1 DEF PoolInv, PoolAt, ChannelAt
<1>12. WorkersAt(i)'
  BY <1>1, <1>2, <1>6, <1>7, <1>9 DEF PoolInv, PoolAt, WorkersAt
<1>13. TriedAt(i)'
  <2>1. tried'[i] \subseteq Handed(i)' \X Lengths
    BY <1>2, <1>3, <1>8, <1>9, <1>10 DEF PoolInv, PoolAt, TriedAt
  <2>2. ASSUME ctxLeft'[i] > 0, NEW v \in Handed(i)', NEW k \in Lengths
        PROVE  \/ <<v, k>> \in tried'[i]
               \/ \E x \in Workers : /\ worker'[i][x].at = "call"
                                     /\ worker'[i][x].user = v /\ worker'[i][x].nxt < k
    <3>1. CASE <<v, k>> \in tried[i]
      BY <1>10, <3>1
    <3>2. CASE <<v, k>> \notin tried[i]
      <4>1. PICK x \in Workers : /\ worker[i][x].at = "call"
                                 /\ worker[i][x].user = v /\ worker[i][x].nxt < k
        BY <1>1, <1>9, <2>2, <3>2 DEF PoolInv, PoolAt, TriedAt
      <4>2. CASE x # w
        BY <1>7, <4>1, <4>2
      <4>3. CASE x = w
        <5>1. v = u /\ n < k /\ n + 1 \in Lengths /\ (k = n + 1 \/ n + 1 < k)
          BY <1>2, <1>5, <4>1, <4>3 DEF Lengths
        <5>2. s.at = "call" /\ s.user = v /\ s.nxt = n + 1 /\ <<v, n + 1>> \in tried'[i]
          BY <1>1, <1>6, <1>10, <2>2, <5>1, CallsAre
        <5> QED
          BY <1>7, <5>1, <5>2
      <4> QED
        BY <4>2, <4>3
    <3> QED
      BY <3>1, <3>2
  <2> QED
    BY <1>1, <1>3, <2>1, <2>2 DEF TriedAt
<1> QED
  BY <1>9, <1>10, <1>11, <1>12, <1>13, OneJob DEF PoolAt

(* The pool is drained; a context that is still alive means: all done.     *)
LEMMA WaitPool ==
  ASSUME PoolInv, NEW i \in Instances, Wait(i)
  PROVE  PoolInv'
<1>1. /\ worker[i] = NoWorker /\ stage' = [stage EXCEPT ![i] = "return"]
      /\ pool' = [pool EXCEPT ![i] = <<>>] /\ chan' = [chan EXCEPT ![i] = NoChan]
      /\ UNCHANGED <<lockLeft, ctxLeft, worker, tried>>
  BY DEF Wait
<1>2. NoChan \in Channels
  BY DEF NoChan, Channels
<1>3. PoolTypes'
  BY <1>1, <1>2 DEF PoolInv, PoolTypes, Stages
<1>4. /\ stage'[i] = "return" /\ pool'[i] = <<>> /\ chan'[i] = NoChan
      /\ \A j \in Instances \ {i} : SameJob(j)
  BY <1>1 DEF PoolInv, PoolTypes, SameJob
<1>5. \A w \in Workers : worker'[i][w].at # "call"
  BY <1>1, NamedStates DEF NoWorker
<1> QED
  BY <1>3, <1>4, <1>5, EmptyJob, OneJob

(* A tick may end a context, after which the pool owes nothing.            *)
LEMMA TickPool ==
  ASSUME PoolInv, Tick
  PROVE  PoolInv'
<1>1. /\ ctxLeft' = [i \in Instances |-> Older(ctxLeft[i])] /\ lockLeft' = Older(lockLeft)
      /\ UNCHANGED <<stage, pool, chan, worker, tried>>
  BY DEF Tick
<1>2. lockLeft' \in 0 .. lockTTL
  <2>1. lockLeft \in 0 .. lockTTL
    BY DEF PoolInv, PoolTypes
  <2> QED
    BY <1>1, <2>1, WarmUpAssumption DEF Older
<1>3. ASSUME NEW i \in Instances
      PROVE  /\ Older(ctxLeft[i]) \in 0 .. taskTimeout
             /\ Older(ctxLeft[i]) > 0 => ctxLeft[i] > 0
  <2>1. ctxLeft[i] \in 0 .. taskTimeout
    BY DEF PoolInv, PoolTypes
  <2> QED
    BY <2>1, WarmUpAssumption DEF Older
<1>4. PoolTypes'
  BY <1>1, <1>2, <1>3 DEF PoolInv, PoolTypes
<1>5. ASSUME NEW i \in Instances PROVE PoolAt(i)'
  <2>1. ctxLeft'[i] > 0 => ctxLeft[i] > 0
    BY <1>1, <1>3
  <2>2. Handed(i)' = Handed(i) /\ PoolAt(i)
    BY <1>1 DEF Handed, PoolInv
  <2> QED
    BY <1>1, <2>1, <2>2 DEF PoolAt, ChannelAt, WorkersAt, TriedAt
<1> QED
  BY <1>4, <1>5 DEF PoolInv

(* One step per action.                                                    *)
LEMMA PoolKeeps ==
  ASSUME PoolInv, [Next]_vars
  PROVE  PoolInv'
<1>1. CASE UNCHANGED <<lockLeft, jobVars>>
  <2>1. PoolTypes'
    BY <1>1 DEF PoolInv, PoolTypes, jobVars
  <2>2. \A i \in Instances : SameJob(i)
    BY <1>1 DEF SameJob, jobVars
  <2> QED
    BY <2>1, <2>2, SameJobKeeps DEF PoolInv
<1>2. ASSUME NEW i \in Instances, Boot(i) \/ Start(i) PROVE PoolInv'
  BY <1>1, <1>2 DEF Boot, Start
<1>3. ASSUME NEW c \in Callers, Stop(c) \/ StopReturns(c) \/ StopGivesUp(c)
      PROVE  PoolInv'
  BY <1>1, <1>3 DEF Stop, StopReturns, StopGivesUp
<1>4. ASSUME NEW i \in Instances, ServerDies(i) \/ Fire(i) \/ JobStep(i)
      PROVE  PoolInv'
  BY <1>4, ServerDiesPool, OutsideSteps, LoadPool, FeedPool, ClosePool, WaitPool
     DEF JobStep
<1>5. ASSUME NEW i \in Instances, NEW w \in Workers, WorkerStep(i, w) PROVE PoolInv'
  BY <1>5, WorkerTakesPool, WorkerEndsPool, WorkerReturnsPool DEF WorkerStep
<1>6. CASE Tick
  BY <1>6, TickPool
<1>7. CASE UNCHANGED vars
  BY <1>1, <1>7 DEF vars
<1> QED
  BY <1>2, <1>3, <1>4, <1>5, <1>6, <1>7 DEF Next

(* The variables have their types: no goroutine receives what was not      *)
(* sent, and nothing is sent beyond the candidates (the channel's size).   *)
THEOREM WarmUpTyping == Spec => []TypeOK
<1>1. ASSUME JobInv, StopInv, PoolInv PROVE TypeOK
  <2>1. L!LockTypeOK
    BY <1>1 DEF JobInv, JobTypes, L!LockTypeOK, L!Phases
  <2>2. ASSUME NEW i \in Instances
        PROVE  /\ chan[i].sent \in 0 .. Len(pool[i])
               /\ chan[i].received \in 0 .. chan[i].sent
               /\ chan[i].closed \in BOOLEAN
    BY <1>1, PoolIsSeq DEF PoolInv, PoolTypes, PoolAt, ChannelAt, Channels
  <2> QED
    BY <1>1, <2>1, <2>2 DEF TypeOK, PoolInv, PoolTypes, StopInv, Lengths
<1> QED
  BY <1>1, JobInit, JobStepKeeps, StopInit, StopKeeps, PoolInit, PoolKeeps, PTL DEF Spec

(* A job that ends before its context has called Once for every length of  *)
(* every user with tags it loaded, however its goroutines interleave       *)
(* (warmUpMatchTask, cache_task.go:86-110).                                *)
THEOREM EverybodyWarmed == Spec => []AllWarmed
<1>1. ASSUME PoolInv PROVE AllWarmed
  <2>1. ASSUME NEW i \in Instances, stage[i] = "wait", ctxLeft[i] > 0, worker[i] = NoWorker
        PROVE  tried[i] = ({pool[i][n] : n \in DOMAIN pool[i]} \ Untagged)
                            \X (1 .. Len(warmUpNums))
    <3>1. \A w \in Workers : worker[i][w].at = "done"
      BY <2>1, NamedStates DEF NoWorker
    <3>2. chan[i].received = Len(pool[i])
      BY <1>1, <2>1, <3>1, WarmUpAssumption DEF PoolInv, PoolAt, ChannelAt, WorkersAt
    <3>3. Handed(i) = {pool[i][n] : n \in DOMAIN pool[i]} \ Untagged
      BY <1>1, <3>2, PoolIsSeq DEF Handed, PoolInv
    <3>4. tried[i] \subseteq Handed(i) \X Lengths
      BY <1>1, <2>1 DEF PoolInv, PoolAt, TriedAt
    <3>5. \A u \in Handed(i), k \in Lengths : <<u, k>> \in tried[i]
      BY <1>1, <2>1, <3>1 DEF PoolInv, PoolAt, TriedAt
    <3> QED
      BY <3>3, <3>4, <3>5 DEF Lengths
  <2> QED
    BY <2>1 DEF AllWarmed
<1> QED
  BY <1>1, PoolInit, PoolKeeps, PTL DEF Spec
=============================================================================
