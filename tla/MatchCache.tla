----------------------------- MODULE MatchCache -----------------------------
(***************************************************************************)
(* The cached match recommendations (internal/module/user/match.go and     *)
(* cache_task.go, internal/infra/cache/client.go): a read-through cache in *)
(* two levels, one local to every server instance and one in Redis, filled *)
(* by match requests and by the warm-up, emptied by profile updates.       *)
(* A cached list is modelled by the version of the profile it was computed *)
(* from: lists follow other users' profiles only through the TTL.          *)
(***************************************************************************)
EXTENDS Integers, Sequences, FiniteSets

CONSTANTS
  Users,        \* users with recommendations
  Procs,        \* goroutines: request handlers and warm-up workers
  Instances,    \* server processes, each with its local level
  maxMatchNum,  \* largest list a request may ask for
  warmUpNums,   \* the sequence of lengths the warm-up fills
  Untagged,     \* the versions of a profile that have no tags
  matchCacheTTL,\* ticks a key lives in Redis, before jitter
  LocalTTL,     \* ticks a key lives in the local level
  MaxVersion,   \* bound on the updates of one profile
  MayFail       \* TRUE: calls may fail and instances may die

ASSUME CacheAssumption ==
  /\ maxMatchNum \in Nat \ {0} /\ MaxVersion \in Nat
  /\ matchCacheTTL \in Nat \ {0} /\ LocalTTL \in Nat \ {0}
  /\ warmUpNums \in Seq(1..maxMatchNum) /\ warmUpNums # <<>>
  /\ Untagged \subseteq 0..MaxVersion
  /\ MayFail \in BOOLEAN

VARIABLES
  profile,      \* profile[u]: the version of u's row in Postgres
  local,        \* local[i][k]: what the local level of i holds for a key
  remote,       \* remote[k]: what Redis holds for a key
  op            \* op[p]: what p is doing

vars == <<profile, local, remote, op>>

Nums == 1..maxMatchNum
Versions == 0..MaxVersion

(* A key is a user and a list length.                                      *)
matchCacheKey == Users \X Nums

(* A stored list: the profile it was computed from, the ticks it has left  *)
(* and, for the properties only, whether it is out of date for good: it    *)
(* was so when it was stored, or the deletion it waited for was given up,  *)
(* or that deletion does not reach it.                                     *)
Entry == [ver : Versions, left : 1..(matchCacheTTL + LocalTTL), lost : BOOLEAN]
NoEntry == [left |-> 0]

(* Mutant: the whole TTL is random.                                        *)
withJitterWhole(ttl) == 0..ttl

(* withJitter: a key lives up to a fifth less than its TTL.                *)
withJitter(ttl) == {t \in 1..ttl : 5 * t > 4 * ttl}

(* Mutant: n < maxMatchNum.                                                *)
InvalidatedNumsShort == [n \in 1..(maxMatchNum - 1) |-> n]

(* The lengths whose keys an update deletes, in that order.                *)
InvalidatedNums == [n \in Nums |-> n]

Reading == {"lookup", "wait", "fill", "compute", "setRedis"}
Writing == {"write", "delLocal", "delRedis"}
Leading == Reading \ {"lookup", "wait"}

(* ver is the profile that lists are computed from, list the one in hand.  *)
Op == [at : Reading \cup Writing, user : Users, inst : Instances,
       todo : Seq(Nums), ver : Versions, list : Versions]
Idle == [at |-> "idle"]

TypeOK ==
  /\ profile \in [Users -> Versions]
  /\ local \in [Instances -> [matchCacheKey -> Entry \cup {NoEntry}]]
  /\ remote \in [matchCacheKey -> Entry \cup {NoEntry}]
  /\ op \in [Procs -> Op \cup {Idle}]
  /\ \A p \in Procs : op[p] # Idle => op[p].todo # <<>>

Init ==
  /\ profile = [u \in Users |-> 0]
  /\ local = [i \in Instances |-> [k \in matchCacheKey |-> NoEntry]]
  /\ remote = [k \in matchCacheKey |-> NoEntry]
  /\ op = [p \in Procs |-> Idle]

-----------------------------------------------------------------------------
Busy(p) == op[p] # Idle
At(p, place) == Busy(p) /\ op[p].at = place

(* The key the process is working on.                                      *)
KeyOf(p) == <<op[p].user, Head(op[p].todo)>>

Goto(p, place) == op' = [op EXCEPT ![p].at = place]

(* An operation without its first key: the warm-up and an invalidation go  *)
(* on with the next one, a request is answered.                            *)
Rest(o, place) ==
  IF Len(o.todo) = 1 THEN Idle
  ELSE [o EXCEPT !.at = place, !.todo = Tail(@), !.list = o.ver]

(* What p stores, out of date if the profile has moved on since.           *)
Stored(p, ttl) == [ver |-> op[p].list, left |-> ttl,
                   lost |-> op[p].list # profile[op[p].user]]

(* singleflight: one call per key and instance runs, the others wait.      *)
SameCall(q, p) == op[q].inst = op[p].inst /\ KeyOf(q) = KeyOf(p)
Leads(q, p) == Busy(q) /\ op[q].at \in Leading /\ SameCall(q, p)
WaitsFor(q, p) == At(q, "wait") /\ SameCall(q, p)

(* The leader's call of Once returns, with a list or an error, and so do   *)
(* the calls that wait for it.  The warm-up logs an error and goes on.     *)
OnceReturns(p) ==
  op' = [q \in Procs |->
           IF q = p \/ WaitsFor(q, p) THEN Rest(op[q], "lookup") ELSE op[q]]

HasTags(u) == profile[u] \notin Untagged

Begin(p, place, u, i, todo) ==
  /\ ~Busy(p)
  /\ op' = [op EXCEPT ![p] = [at |-> place, user |-> u, inst |-> i,
              todo |-> todo, ver |-> profile[u], list |-> profile[u]]]
  /\ UNCHANGED <<profile, local, remote>>

(* MatchUsers: the handler reads the profile that the list will be made    *)
(* from, then the service calls Once with the key of that user.            *)
StartMatch(p, u, i, n) == HasTags(u) /\ Begin(p, "lookup", u, i, <<n>>)

(* warmUpMatchTask reads all candidates at once; a worker then takes the   *)
(* user, who was in the job queue meanwhile, through warmUpSingleUser.     *)
StartWarmUp(p, u, i) == HasTags(u) /\ Begin(p, "lookup", u, i, warmUpNums)

(* The context of the warm-up ends before the next key, or that of a       *)
(* request before its only one.                                            *)
Cancelled(p) ==
  /\ MayFail /\ At(p, "lookup")
  /\ op' = [op EXCEPT ![p] = Idle]
  /\ UNCHANGED <<profile, local, remote>>

(* Once: a local hit answers; after a miss the first caller leads, and     *)
(* later ones wait for it.                                                 *)
LocalHit(p) == local[op[p].inst][KeyOf(p)] # NoEntry

Lookup(p) ==
  /\ At(p, "lookup")
  /\ \/ LocalHit(p) /\ op' = [op EXCEPT ![p] = Rest(op[p], "lookup")]
     \/ ~LocalHit(p) /\ (\E q \in Procs : Leads(q, p)) /\ Goto(p, "wait")
  /\ UNCHANGED <<profile, local, remote>>

(* The leader's GET, which finds the key or not; an error of Redis counts  *)
(* as a miss.  The leader's second look at the local level is left out:    *)
(* only the leader stores a key there.                                     *)
RedisGet(p) ==
  /\ At(p, "lookup") /\ ~LocalHit(p) /\ ~\E q \in Procs : Leads(q, p)
  /\ \/ /\ remote[KeyOf(p)] # NoEntry
        /\ op' = [op EXCEPT ![p].at = "fill", ![p].list = remote[KeyOf(p)].ver]
     \/ /\ remote[KeyOf(p)] = NoEntry \/ MayFail
        /\ Goto(p, "compute")
  /\ UNCHANGED <<profile, local, remote>>

SetLocalEntry(p) ==
  local' = [local EXCEPT ![op[p].inst][KeyOf(p)] = Stored(p, LocalTTL)]

SetRedisEntry(p) ==
  \E ttl \in withJitter(matchCacheTTL) :
    remote' = [remote EXCEPT ![KeyOf(p)] = Stored(p, ttl)]

(* Mutant: a hit in Redis starts its TTL there again.                      *)
FillAgain(p) ==
  /\ At(p, "fill")
  /\ SetLocalEntry(p) /\ SetRedisEntry(p)
  /\ OnceReturns(p)
  /\ UNCHANGED profile

(* A hit in Redis is copied into the local level and answers.              *)
Fill(p) ==
  /\ At(p, "fill")
  /\ SetLocalEntry(p)
  /\ OnceReturns(p)
  /\ UNCHANGED <<profile, remote>>

(* match and rankMatches compute the list from the profile read before,   *)
(* and it goes to the local level; or they fail, then nothing is stored    *)
(* and every caller has the error.                                         *)
Compute(p) ==
  /\ At(p, "compute")
  /\ \/ SetLocalEntry(p) /\ Goto(p, "setRedis")
     \/ MayFail /\ OnceReturns(p) /\ UNCHANGED local
  /\ UNCHANGED <<profile, remote>>

(* SET: its error is dropped, the list is returned all the same.           *)
SetRedis(p) ==
  /\ At(p, "setRedis")
  /\ \/ SetRedisEntry(p)
     \/ MayFail /\ UNCHANGED remote
  /\ OnceReturns(p)
  /\ UNCHANGED <<profile, local>>

-----------------------------------------------------------------------------
(* A level of the cache once the deletion of the keys ks is not to come    *)
(* although their user's profile is v.                                     *)
GivenUp(level, ks, v) ==
  [k \in matchCacheKey |->
     IF k \in ks /\ level[k] # NoEntry /\ level[k].ver # v
     THEN [level[k] EXCEPT !.lost = TRUE] ELSE level[k]]

KeysOf(u) == {u} \X Nums
KeysLeft(p) == {op[p].user} \X {op[p].todo[j] : j \in DOMAIN op[p].todo}

Writers(u) == {q \in Procs : At(q, "write") /\ op[q].user = u}

(* Update has found caller and target and is about to write.               *)
StartUpdate(p, u, i) ==
  /\ profile[u] + Cardinality(Writers(u)) < MaxVersion
  /\ Begin(p, "write", u, i, InvalidatedNums)

(* repo.Update: the row is written.  The local levels of other instances   *)
(* are out of reach of the deletion that follows.                          *)
Write(p) ==
  LET u == op[p].user IN
  /\ At(p, "write")
  /\ profile' = [profile EXCEPT ![u] = @ + 1]
  /\ local' = [i \in Instances |-> IF i = op[p].inst THEN local[i]
                    ELSE GivenUp(local[i], KeysOf(u), profile[u] + 1)]
  /\ Goto(p, "delLocal")
  /\ UNCHANGED remote

(* repo.Update returns an error, which may hide an executed statement:     *)
(* nothing is deleted.                                                     *)
WriteError(p) ==
  LET u == op[p].user IN
  /\ MayFail /\ At(p, "write")
  /\ op' = [op EXCEPT ![p] = Idle]
  /\ \/ UNCHANGED <<profile, local, remote>>
     \/ /\ profile' = [profile EXCEPT ![u] = @ + 1]
        /\ local' = [i \in Instances |->
                       GivenUp(local[i], KeysOf(u), profile[u] + 1)]
        /\ remote' = GivenUp(remote, KeysOf(u), profile[u] + 1)

(* Delete goes through the keys: the local level first, then DEL.          *)
DelLocal(p) ==
  /\ At(p, "delLocal")
  /\ local' = [local EXCEPT ![op[p].inst][KeyOf(p)] = NoEntry]
  /\ Goto(p, "delRedis")
  /\ UNCHANGED <<profile, remote>>

DelRedis(p) ==
  /\ At(p, "delRedis")
  /\ remote' = [remote EXCEPT ![KeyOf(p)] = NoEntry]
  /\ op' = [op EXCEPT ![p] = Rest(op[p], "delLocal")]
  /\ UNCHANGED <<profile, local>>

(* DEL returns an error, executed or not: Delete leaves the remaining keys *)
(* alone, and Update succeeds all the same.                                *)
DelRedisError(p) ==
  LET u == op[p].user
      i == op[p].inst IN
  /\ MayFail /\ At(p, "delRedis")
  /\ op' = [op EXCEPT ![p] = Idle]
  /\ local' = [local EXCEPT ![i] = GivenUp(@, KeysLeft(p), profile[u])]
  /\ \E deleted \in {{}, {KeyOf(p)}} :
       LET after == [k \in matchCacheKey |->
                       IF k \in deleted THEN NoEntry ELSE remote[k]]
       IN remote' = GivenUp(after, KeysLeft(p), profile[u])
  /\ UNCHANGED profile

-----------------------------------------------------------------------------
(* An instance dies with its local level and its requests and is started   *)
(* again.  A statement in flight was executed, which is its action before  *)
(* the crash, or never will be.                                            *)
Crash(i) ==
  LET dead == {p \in Procs : Busy(p) /\ op[p].inst = i}
      deleting == {p \in dead : op[p].at \in {"delLocal", "delRedis"}}
  IN /\ MayFail
     /\ local' = [local EXCEPT ![i] = [k \in matchCacheKey |-> NoEntry]]
     /\ remote' = [k \in matchCacheKey |->
          LET left == UNION {KeysLeft(p) : p \in deleting}
          IN GivenUp(remote, left, profile[k[1]])[k]]
     /\ op' = [p \in Procs |-> IF p \in dead THEN Idle ELSE op[p]]
     /\ UNCHANGED profile

(* The local level makes room for other keys.                              *)
Evict(i, k) ==
  /\ local[i][k] # NoEntry
  /\ local' = [local EXCEPT ![i][k] = NoEntry]
  /\ UNCHANGED <<profile, remote, op>>

(* A tick of the clock: what has no time left is gone.                     *)
Aged(e) == IF e.left <= 1 THEN NoEntry ELSE [e EXCEPT !.left = @ - 1]

Tick ==
  /\ local' = [i \in Instances |-> [k \in matchCacheKey |-> Aged(local[i][k])]]
  /\ remote' = [k \in matchCacheKey |-> Aged(remote[k])]
  /\ UNCHANGED <<profile, op>>

-----------------------------------------------------------------------------
Step(p) ==
  \/ Lookup(p) \/ RedisGet(p) \/ Fill(p) \/ Compute(p) \/ SetRedis(p)
  \/ Cancelled(p)
  \/ Write(p) \/ WriteError(p) \/ DelLocal(p) \/ DelRedis(p) \/ DelRedisError(p)

Next ==
  \/ \E p \in Procs, u \in Users, i \in Instances :
       \/ \E n \in Nums : StartMatch(p, u, i, n)
       \/ StartWarmUp(p, u, i)
       \/ StartUpdate(p, u, i)
  \/ \E p \in Procs : Step(p)
  \/ \E i \in Instances : Crash(i) \/ \E k \in matchCacheKey : Evict(i, k)
  \/ Tick

Spec == Init /\ [][Next]_vars

(* Calls are answered, and the clock goes on.                              *)
FairSpec == Spec /\ WF_vars(Tick) /\ \A p \in Procs : WF_vars(Step(p))

-----------------------------------------------------------------------------
Deleting(q, k) ==
  Busy(q) /\ op[q].at \in {"delLocal", "delRedis"} /\ k \in KeysLeft(q)

Stale(e, k) == e # NoEntry /\ e.ver # profile[k[1]]

(* An update deletes every list made from the profile it replaces: what    *)
(* was right when it was stored and is out of date now is about to be      *)
(* deleted, in Redis and in the local level of the instance that serves    *)
(* the update.  What remains are lists stored late, deletions that failed  *)
(* or died, and local levels of other instances (Service.Update,           *)
(* invalidateMatchCache, RedisCache.Delete).                               *)
StaleExplained ==
  \A k \in matchCacheKey :
    /\ Stale(remote[k], k) /\ ~remote[k].lost => \E q \in Procs : Deleting(q, k)
    /\ \A i \in Instances : Stale(local[i][k], k) /\ ~local[i][k].lost =>
         \E q \in Procs : Deleting(q, k) /\ op[q].inst = i

(* Whatever fails, and however requests and the warm-up overlap, no old    *)
(* list is kept alive by the requests that hit it: they may go on for ever *)
(* on every instance, copying it to their local levels, but some time      *)
(* after the last update nothing old is cached any more, for good (the TTL *)
(* of Once and of the local level; a hit never writes to Redis).           *)
EventuallyFresh ==
  <>[](\A k \in matchCacheKey :
         ~Stale(remote[k], k) /\ \A i \in Instances : ~Stale(local[i][k], k))
=============================================================================
