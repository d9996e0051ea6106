# TLA+ specifications of yupao-go

yupao-go is a partner-matching backend: users with tags, teams they create and
join, and a list of recommended users that is cached. These specifications
model what its correctness depends on: the distributed lock, the team module
with its writes and reads, the two-level cache of recommendations, the
computation behind it, the nightly warm-up with its scheduler, user accounts,
and the mutation builders that the ent generator wrote for it.

- [Inventory](#inventory)
- [Modules](#modules)
- [How the models correspond to the code](#how-the-models-correspond-to-the-code)
- [What each run checks](#what-each-run-checks)
- [Bounds](#bounds)
- [Fairness](#fairness)
- [What is proved](#what-is-proved)
- [Disagreements between code and documents](#disagreements-between-code-and-documents)
- [What is not modelled](#what-is-not-modelled)
- [Plan](#plan)

Running: `tlc -config MCTeamService_roster.cfg MCTeamService` (and likewise for
every `MC<Module>_<name>.cfg`), `tlapm TeamServiceProofs.tla` (and likewise for
every `...Proofs.tla`; the longest, `EntBuilderProofs`, takes minutes).

## Inventory

| Component | State it keeps | Operations | Interacts with | Hard behaviour | What makes it correct |
|---|---|---|---|---|---|
| Distributed lock, `internal/infra/lock` | a key in Redis holding a random token, with a TTL | `RunWithLock`: SETNX, the body, a deferred compare-and-delete | called by `team.Service.Join` and by the warm-up | bodies that outlive the TTL, Redis calls that fail after being executed, a process that dies in the body | exclusion while the TTL lasts; nobody deletes another call's token; every key comes free |
| Team writes, `internal/module/team` | tables `team` and `user_team` (soft-deleted rows) | `Add`, `Join`, `Quit`, `Delete`, `Update` | Postgres row locks, the join lock, the user module (is the caller an administrator?) | Join counts and inserts in separate statements under a Redis lock; Quit and Delete run in transactions under `FOR UPDATE`; Update checks and writes without any lock | limits hold, nobody is in a team twice, no team without members, the leader is a member, a disband is final, secret teams have passwords, quotas |
| Team queries | none | `Get`, `List`, `ListPage`, `ListMyCreate`, `ListMyJoin` | sessions, user module | several statements per answer, a table that changes between them, pages over it, an empty filter that filters nothing | no private team is shown to a stranger; the pages cover the list |
| Match recommendations, `internal/module/user` with `internal/infra/cache` | per instance a TinyLFU level (10 minutes), in Redis the shared level (60 minutes with jitter) | `MatchUsers`, `WarmUpMatchUsers`, `Update` with `invalidateMatchCache` | Postgres, Redis, the lock, the scheduler | fills that race with deletions, deletions that fail half-way, instances that cannot reach each other's local level | an old list is about to be deleted or its survival is explained; old lists vanish in the end |
| Match computation, `match.go`, `distance.go`, `topk.go` | none | scan of the active candidates in batches, edit distance, selection of the k nearest, second read of their rows | table `user` | rows that change between two batches; ties, `k` beyond the number of candidates | the scan is exact; the answer is the nearest of what was loaded |
| Warm-up, `cache_task.go` | lock, channel, four goroutines, a context of ten minutes | `WarmUpMatchUsers` | the lock, the cache, the scheduler | the context ends anywhere, calls fail, the process dies, two instances start together | every job ends, leaves no goroutine, and covers all users if it had the time |
| User accounts | table `user` | `Register`, `Login`, `Update`, `SearchByTags` | sessions, match computation | check-then-insert in `Register` (the planet code is not unique in the schema) | one account per name; a shared planet code is explained |
| Scheduler and `cmd/server` | started flag, running jobs | `Schedule`, `Start`, `Stop`, shutdown order | warm-up | stop while a job runs; the signal context never reaches the HTTP server | jobs do not overlap; after `Stop` returns nothing runs |
| Sessions and middleware | session store in Redis | login check per route | all handlers | routes outside the guarded group; errors of `Save` that are dropped | who is seen as logged in |
| Generated ent code | the mutation of a builder | setters, clearers, predicates, `Save` | all repositories | calls in any order, a save that fails and is repeated, a save that is executed and not answered, old values asked for late while others write | a save does what was asked; rows keep the schema; old values precede what a save has reported |
| HTTP binding, logging, configuration, seed | none | binding and formatting | all | – | – |

`PROJECT.json` lists the components with their files and the hazards with the
line where each one bites and the properties that cover it.

## Modules

| Module | Role |
|---|---|
| `RedisLock` | `RedisLocker.RunWithLock`: callers, keys, tokens, TTL expiry, failing calls, dying processes |
| `RedisLockProofs` | type correctness, mutual exclusion and token safety of the lock |
| `TeamData` | the two tables and the predicates the code asks of them; shared by the next two |
| `TeamRoster` | the abstract specification: each team operation as one atomic step on the tables |
| `TeamService` | the detailed specification: every request a process, every SQL statement and Redis call one action |
| `TeamServiceInv` | the inductive invariants of `TeamService` |
| `TeamServiceProofs` | `TeamService`: types, limits and joins |
| `TeamRosterProofs` | `TeamService`: transactions, leaders, passwords, quotas, and that it implements `TeamRoster` |
| `MatchCache` | both levels of the cache, requests, warm-up, updates and their invalidation |
| `MatchCacheProofs` | types, and why old lists are explained |
| `WarmUp` | the warm-up job, its pool, the scheduler and the life of the servers |
| `WarmUpProofs` | types, overlap, `Stop`, and what the pool covers |
| `Accounts` | the table of users, `Register` and `Update` statement by statement |
| `Matching` | scan, ranking and second read of a recommendation, between the steps of `Accounts` |
| `MatchingProofs` | planet codes with a match running beside, the scan, the edit distance, types, and what an answer offers |
| `TeamViews` | sessions, the reading routes of the team API, visibility and pages, between the steps of `TeamRoster` |
| `TeamViewsProofs` | types, visibility, pages |
| `EntField` | kinds of fields: the methods of a mutation and the families of predicates |
| `EntTeam`, `EntUser`, `EntUserTeam` | what the generator wrote for each entity, as data |
| `EntBuilder` | create and update builders over that data |
| `EntBuilderProofs` | types, rows, old values and saves, for each entity the generator wrote |
| `MC...` | instances for TLC: forms, edits, tables, symmetry sets |

`TeamService` composes with the lock by `L == INSTANCE RedisLock`: the join
lock's variables are the lock module's, its keys are the teams, and the actions
`JoinLock`, `JoinBusy`, `BodyReturns`, `JoinUnlock`, `Crash` and `Expire` are the
lock's actions conjoined with what the request does. `R == INSTANCE TeamRoster`
states the refinement: both modules speak of the same tables, so the refinement
mapping is the identity on `teams`, `members` and `rowSeq`, and every step that
does not write a table is a stutter of the roster.

`TeamViews` extends `TeamRoster`: what the other users do between two statements
of a reader is a step of the abstract roster, which `TeamService` implements
(`RosterRefined`). `Matching` extends `Accounts` in the same way: a scan runs
between the statements of registrations and updates. `WarmUp` takes the lock by
`L == INSTANCE RedisLock`, with the servers as callers. `EntBuilder` takes the
three entities by `INSTANCE`; they share their parameters.

## How the models correspond to the code

**RedisLock.** A token is 16 random bytes, so the caller's identity stands for
it. `held[k]` is what Redis stores; `phase[p]` is where the call is. `Acquire`,
`Refused` and `AcquireError` are the three results of SETNX; the last one
returns before the unlock is deferred, whether or not Redis stored the token.
`Unlock` is the script's compare-and-delete; `UnlockError` is the error that
`safeUnlock` drops, executed or not. `Expire` is the TTL. A body whose TTL is
long enough (`Covered`) does not lose its key; for other keys it may.

**TeamService.** `pc[p]` names the statement that request `p` sends next; `req`
is the acting user and the team, `snap` the team row it read (a local variable
in Go), `tx` what its transaction has written. Requests interleave between
statements, as read-committed sessions do.

| Code | Actions |
|---|---|
| `Service.Add`, `CreateTeamWithLeader` | `StartAdd` (validation and `CountCreatedByUser`), `CreateTeam` (the transaction of two inserts; nobody can see or lock a row before it) |
| `Service.Join` | `StartJoin` (reads the team, checks), `JoinLock`/`JoinBusy`, `JoinQuota`, `JoinHas`, `JoinFull`, `JoinInsert`, `JoinUnlock` |
| `Service.Quit`, `QuitMember` | `StartQuit`, `QuitLock` (`FOR UPDATE`), `QuitHas`, `QuitCount`, `QuitPick`, `QuitMove`, `QuitDropSelf`, or `DropMembers`, `DropTeam`; `Commit` |
| `Service.Delete`, `SoftDeleteTeamAndMembersByLeader` | `StartDelete`, `DeleteLock`, `DeleteRefused`, `DropMembers`, `DropTeam`, `Commit` |
| `Service.Update`, `repo.Update` | `StartUpdate` (reads and merges), `UpdateExists`, `UpdateWrite` (all columns of the snapshot, by primary key) |
| errors | `CallFails`, `BodyFails`, `TxFails`: any statement may fail, executed or not where it commits by itself; the deferred rollback releases the row lock |
| crash | `Crash` inside `RunWithLock`. Elsewhere a dying process looks like a request that fails: Postgres rolls its transaction back |

Postgres contributes three facts: `SELECT ... FOR UPDATE` is held to the end of
the transaction, a plain `UPDATE` of the row waits for it, and an `INSERT` into
`user_team` waits for it too, because its foreign key takes `KEY SHARE` on the
team row. A transaction's writes appear when it commits. The id that orders the
members is taken at the insert; only the order within a team matters.
`TakeRow`, `RowFree` and `Commit` state these facts once.

Two boundaries are part of the model rather than errors of it. A join that
passed its checks may insert after the team was disbanded (TX_LOCK.md section 6
accepts the row that remains), so `TeamRoster!Enter` does not ask for an active
team. And an update writes back a leader it read before, so `TeamRoster!Edit`
may name any user; see the disagreements below.

The branch `locker == nil` of `Join` is left out: `main` always injects one.

**MatchCache.** A list is the version of the profile it was computed from. The
profile is read when the handler looks the user up (`StartMatch`) or when the
warm-up loads its candidates (`StartWarmUp`), well before the list is stored.
`go-redis/cache` v9 is external and modelled from how `client.go` calls it:
`Once` looks in the local level, then lets one call per key and instance lead
while others wait (singleflight), the leader's GET counts any error as a miss
and copies a hit into the local level, a computed list goes to the local level
and then to Redis with an error ignored, and all waiting calls get the leader's
result or error. `Delete` empties the local level, then Redis, key by key, and
stops at the first error. Three pairs of steps are one action where no other
process can tell them apart: local miss and leader's GET (only the leader stores
that key), computation and local store (the computation reads nothing that this
model lets change), and GET's second look at the local level.
Lists of *other* users that show the updated one are out of scope, as the
documents say: they change with the TTL only.

A tick ages both levels; entries hold the time they have left, so the clock
itself is not in the state. The field `lost` of an entry is there for the
properties only: it records that the entry was old when stored, or that the
deletion it waited for failed, died, or does not reach that local level.

**WarmUp.** `stage[i]` is where the job of server `i` is: before the lock,
loading, feeding the channel, waiting for the pool, unlocking. `chan` counts what
was sent and received (its buffer holds every candidate, so no send waits),
`worker[i][w]` is what goroutine `w` does: receiving, inside a call of `Once`, or
gone. The context is a countdown, looked at exactly where the code looks at it:
before each send, after each receive and before each length; calls in flight
when it ends return in their own time. `Tick` ages contexts and the token
together, since both are ten minutes; the configuration makes the token live
longer because it is set after the context was made. What the code makes of it:

- cron's `SkipIfStillRunning` lets one job run in a process, so the mutex
  `warmUpLock` is always free when a job reaches it; it is not in the model.
- `Release` fails once the context has ended, because the deferred unlock uses
  that context: the token then stays until its TTL.
- The context of `signal.NotifyContext` reaches `Migrate` only. After the
  migrations a SIGTERM is absorbed; `r.Run` ends only when the listener fails,
  and `logger.Fatal` then exits without the deferred calls. `ServerDies` covers
  this and a kill: `main`'s `sched.Stop` never runs. `Stop` and `Start` are
  modelled for what `cron.go` offers, with one caller.
- `Stop` waits for cron's running jobs; one that finds the scheduler stopped
  returns nil at once. `QuietAfterStop` is about those that have waited.

**Accounts.** `RegisterAccount`, `RegisterCode` and `RegisterCreate` are the
three statements of `Register`; the unique index on the account looks at deleted
rows too. `StartUpdate` reads caller and target (`GetByID` does not ask whether a
user is deleted) and checks the permission, `UpdateWrite` is one `UPDATE`. It
writes account, planet code and tags as the request gives them, a missing one as
the empty string; columns given by nil pointers stay as they are and are left out.

**Matching.** `job[p]` holds the local variables of one computation. `NextBatch`
is one query of `loadActiveCandidates`, `Rank` one round of `topKNearest`,
`PopAll` the emptying of the heap, `Reread` is `ListByIDs`, which finds deleted
users too. Which of several farthest elements stands at the top of a Go heap, and in
which order equal elements leave it, depends on the insertions; the model allows each.
`minDistance` is the code's table as a recursive function on pairs of places, `Cell`
the body of its loops.

**TeamViews.** One client, all its routes. `pc` names the statement its request
sends next: `Count` and `ReadRows` of a page, `Ids` and `ReadRows` of the joined teams,
`ReadTeam` with `CanView`, then `Counts` and `Joined` of `toTeamUserVOs`. A
`tour` is a client that reads page after page until the total promises no more;
it notes which teams were listed all the time. `LoginUserID` is
`GetLoginUserID`: it sees the session only behind `AuthRequired`. `CanView` asks
for a membership in a second statement, but only for a known viewer, and the
one route that asks never has one, so it is one action.

**Ent.** `EntTeam`, `EntUser` and `EntUserTeam` write down, per entity, what the
thousands of generated lines say: which methods each field has, which
predicates, which setters and clearers a builder offers, defaults, required fields,
validators, and which columns `createSpec` and `sqlSave` write. `EntBuilder` gives
these data their meaning once. `Save` has three ends: answered (`saved`), failed with
nothing written, and executed with its answer lost (`lost`), where `sqlSave` returns
before it sets `done`. `UpdateOneID` reads the old row when it is first asked for one
(`AskOld`, where the read may fail), `UpdateOne` answers with the entity the caller
holds, loaded now or before. `OtherWrites` is another session that updates a cell of
the table at any time. Where the library or the database decides (a
column that one statement assigns twice, a sum with NULL, the order of texts)
the model allows every outcome. Facts that the model made visible, none
of which the repository's own repositories run into, since they set each field
once and never call `AddX`:

- a value made by `AddX` passes no validator;
- `SetX` after `ClearX` leaves the field among the cleared ones, so the `UPDATE`
  assigns the column twice; setters of numeric fields on an update builder reset first;
- `done` is set only when a save was answered: after one that was executed and not
  answered, `OldX` reads the builder's own write, although the code means to forbid
  the question (`mutation.go:94`), and a repeated save adds `AddX` again, or inserts
  another row;
- `OldX` is the row at the first question, another session's late write included,
  and for `UpdateOne` the caller's entity, however old;
- the defaults of a failed save stay, so a repeated save writes the time of the
  first attempt;
- an edge that is cleared after it was set is written by a create all the same.

## What each run checks

Sizes are distinct states.

| Run | Checks | Shows | States |
|---|---|---|---|
| `lock` | `LockTypeOK`, `MutualExclusion`, `TokenSafe`, `KeyFreed` | two keys, one that outlasts its bodies and one that does not, three callers, failures and crashes | 1 168 |
| `team_roster` | `TypeOK`, `Capacity`, `NoDuplicateMembership`, `NoGhostTeam`, `RowLockOnlyInTx`, `JoinSafety`, `DisbandRemovesAll`, `LeaderMoves`, `RosterRefined` | all five operations by three users, two at a time, on a team of one to three places, implement the atomic roster | 185 980 |
| `team_leader` | `LeaderIsMember` | three requests at a time and join locks that lapse: without updates the leader is always a member | 423 639 |
| `team_policy` | `SecretHasPassword`, `DisbandIsFinal` | updates by leader and administrator racing with each other and a disband | 335 798 |
| `team_quota` | `QuotaBound` | one request at a time, four teams: the sum of both quotas is the real bound, handovers included | 558 414 |
| `team_progress` | `RequestsFinish`, `JoinLockComesFree` | liveness with errors, rollbacks and a crash in the lock | 31 767 |
| `match` | `TypeOK`, `StaleExplained`, `EventuallyFresh` | two instances, two lists, two updates, all failures: an old list is about to go or its survival is explained, and requests that go on for ever do not keep it alive | 1 127 841 |
| `warmup` | `TypeOK`, `AllWarmed`, `NoWorkerLeft`, `OverlapExplained`, `QuietAfterStop`, `JobEnds`, `WarmUpLockFreed` | two servers with pools of two goroutines, failures, deaths, Stop and Start, contexts that end anywhere | 635 596 |
| `users` | `TypeOK`, `PlanetCodeExplained`, `ScanExact`, `NearestOffered` | a match between the statements of registrations, updates and deletions | 239 968 |
| `views` | `TypeOK`, `PrivateHidden`, `PagesTile` | one client on every route, in and out of a session, while others write | 2 134 855 |
| `ent` | `TypeOK`, `SchemaKept`, `OldPrecedesSave`, `CallsDecide` | any two calls on a field of any entity and then a save or a question, with saves that fail or lose their answer, retries and another session's writes | 749 061 |
| `login` | `LoginSeesOwn` is violated | a client that is logged in is not told which listed teams it has joined | – |

Every property of a passing run has a mutant in `PROJECT.json`: a definition
of the model changed the way a bug would change the code (a dropped check, an
off-by-one, a forgotten rollback, a missing TTL), for which TLC finds the
property violated in the same run. The mutated operators stand in the modules,
each just before the definition it replaces and marked "Mutant".

Deadlock is checked in every run: every process can always start another
request, or a bound has been reached and a lock, a clock or a request can move.

## Bounds

- `MaxRows`, `Teams`, `MaxTime` and `MaxVersion` are the only bounds on
  behaviours. They sit in the guards of the actions that *start* a request and
  count the requests in flight, so no request is cut off half-way.
- `team_roster`: three users and up to three places reach full teams, handovers
  with a choice of two successors (with two places the successor is determined,
  and choosing the latest member instead of the earliest would go unnoticed),
  last-member disbands, re-joins, and forms with illegal sizes 0 and 4.
- `team_leader`: three requests are needed for a handover to a member who is
  leaving while another joins.
- `team_policy`: leader `u1`, administrator `u2`; the password sent may be
  absent, empty or not; status absent or any of the three; expiry changed or not.
- `team_quota`: quotas 2 and 1 with four teams and six rows; the code's 5 and 5
  differ in size only. One request at a time, because two exceed the
  quotas (disagreement 4).
- `match`: two processes suffice for one fill racing one update and for a wait
  for a leader. The first update takes the tags away, the second gives new ones:
  lists are asked for before the first and after the second, on both instances and
  as often as one likes, and each of the two can have made them old. Redis keeps a
  key two ticks and the local level one, so an old list can outlive the local level
  and be copied there again. The warm-up fills one of the two lengths, because with
  both the run is too large; `StaleIsExplained` holds of any sequence of lengths.
- `warmup`: pools of none, one user without tags, or two users with; two lengths.
  The context ends after one tick and the token after two, so it may end at every
  step of the job and still leave a token behind. Two servers suffice for one
  that overlaps another.
- `users`: four users that grow to six, batches of two, so a scan has two or
  three of them; two writes by registrations, updates or deletions may fall
  anywhere into it; the clock moves users out of the active window. The four tag
  lists have different distances from one another, and an order that a
  replacement of cost two would change.
- `views`: two teams and three memberships, pages of one (default) or two
  (the maximum); public, private and expired teams.
- `ent`: three calls reach a setter, a clearer and a save, or a save without an
  answer, a retry and a later question, on every field of every entity; a question
  for an old value and a write of another session count as calls. The last of the
  three is a save or a question, since nothing could follow another call. The
  calls of one behaviour name one field, because fields meet in `defaults` and
  `check` only, which the model runs over all fields in any case.
- Symmetry is used in safety runs only, over sets whose elements no constant or
  definition singles out.

## Fairness

- `TeamService!FairSpec`: weak fairness of each request's next statement,
  because Postgres and Redis answer or the driver reports an error; strong
  fairness of the statements that wait for a row lock, because Postgres grants
  row locks in the order of its queue, so a statement that is granted its turn
  again and again gets it; weak fairness of `Expire`, because Redis removes
  keys by itself. No fairness on clients, crashes or the clock.
- `RedisLock!LockFairSpec`: a call that holds its lock runs to its end, and
  keys expire. No fairness of acquiring: `RunWithLock` does not retry.
- `MatchCache!FairSpec`: calls are answered and the clock goes on.
- `WarmUp!FairSpec`: the clock goes on, and each job and each goroutine of a pool
  takes its next step: the Go scheduler runs them, and the calls they make return
  because Redis and Postgres answer or their drivers give up. No fairness of
  servers, of the cron clock or of callers of `Stop`.
- `Matching`, `TeamViews` and `EntBuilder` have safety properties only.

## What is proved

TLAPS checks these for every value of the constants that satisfies the modules'
named assumptions (`LockAssumption`, `DataAssumption`, `ServiceAssumption`,
`CacheAssumption`, `WarmUpAssumption`, `AccountAssumption`, `MatchAssumption`,
`ViewAssumption`, `FieldAssumption`, `BuilderAssumption`). They give the
constants their types and say what the code's own constants satisfy; TLC
evaluates each of them.

| Theorem | Statement |
|---|---|
| `LockTyping` | `LockSpec => []LockTypeOK` |
| `LockExclusion` | `LockSpec => []MutualExclusion` |
| `LockTokens` | `LockSpec => TokenSafe` |
| `TypeCorrect` | `Spec => []TypeOK` for `TeamService` |
| `JoinIsSafe` | with `TTLCovers`: `Spec => []JoinSafety` |
| `CapacityHolds` | with `TTLCovers`: `Spec => []Capacity` |
| `NoDuplicateHolds` | with `TTLCovers`: `Spec => []NoDuplicateMembership` |
| `TransactionsAreSafe` | `Spec => []TxSafety` |
| `RowLocksAreReleased` | `Spec => []RowLockOnlyInTx` |
| `SecretsHavePasswords` | `Spec => []SecretHasPassword` |
| `DisbandIsForGood` | `Spec => DisbandIsFinal` |
| `DisbandEmpties` | `Spec => DisbandRemovesAll` |
| `LeadershipMoves` | `Spec => LeaderMoves` |
| `LeaderStaysMember` | without updates: `Spec => []LeaderIsMember` |
| `NoTeamIsEmpty` | with `TTLCovers`: `Spec => []NoGhostTeam` |
| `RosterImplemented` | with `TTLCovers`: `Spec => RosterRefined` |
| `QuotaHolds` | with `TTLCovers`, without updates: `Spec /\ []OneRequestEach => []QuotaBound` |
| `CacheTyping` | `Spec => []TypeOK` for `MatchCache` |
| `CacheExplained` | `Spec => []StaleExplained` |
| `WarmUpTyping` | `Spec => []TypeOK` for `WarmUp` |
| `EverybodyWarmed` | `Spec => []AllWarmed` |
| `PoolDrained` | `Spec => []NoWorkerLeft` |
| `OverlapOnlyLate` | `Spec => []OverlapExplained` |
| `StopIsQuiet` | `Spec => []QuietAfterStop` |
| `CodesExplained` | `Spec => []PlanetCodeExplained` for `Matching` |
| `ScanIsExact` | `Spec => []ScanExact` |
| `MatchTyping` | `Spec => []TypeOK` for `Matching` |
| `MinDistanceIsLeast` | `minDistance(s, t) = EditDistance(s, t)` for all listings of tags |
| `NearestAreOffered` | `Spec => []NearestOffered` |
| `ViewsTyping` | `Spec => []TypeOK` for `TeamViews` |
| `PrivateStaysHidden` | `Spec => []PrivateHidden` |
| `PagesCoverTheList` | `Spec => []PagesTile` |
| `BuilderTyping` | `Spec => []TypeOK` for `EntBuilder` |
| `SchemaIsKept` | `Spec => []SchemaKept` |
| `OldValuesPrecede` | `Spec => []OldPrecedesSave` |
| `CallsAreObeyed` | `Spec => CallsDecide` |

Where a theorem has a hypothesis, its property fails without it, and the
disagreements below say how: `TTLCovers` (a join lock outlasts its body) is 2,
"without updates" (`"update" \notin Handlers`) is 3, `OneRequestEach` is 4.
Whatever names no hypothesis holds with updates, lapsing locks, errors and crashes.
Each strengthened invariant was given to TLC, on the instance of the run
that checks the property, before it was proved.

### The lock and the team writes

`MutualExclusion` follows from an invariant with one more fact: a caller in the
body of a covered key owns the key (`OwnerStep`). `TokenSafe` needs typing only:
of all actions that write a key, each but `Expire` contradicts an owner in its body.

`TypeOK` is not inductive as it stands: a handover writes the user of the
earliest row, and there is one only because the transaction counted rows while
it held the row lock. That a non-empty set of rows has an earliest one is proved
from the well-foundedness of the natural numbers (`EarliestExists`).

`Capacity` and `NoDuplicateMembership` are not inductive either. A join inserts
on the strength of two questions it asked before, so `JoinSafety` (module
`TeamServiceInv`) adds:

- `LockInv`: the statements of `doJoin` run inside the lock of that team, and a
  lock that outlasts them stays with them;
- `LimitInv`: the limit the join compares with, read before the lock, is still
  the team's limit (no update changes it, which needs the same for what an
  update is about to write);
- `JoinInv`: after `JoinHas` the user has no row in the team, after `JoinFull`
  the team has a free place;
- `RequestInv`, `TeamInv`, `RowsInv`: requests under way have users and teams
  that exist, the table is finite, ids come from the sequence.

One lemma per action shows that it keeps these parts. Only the insert of a join
can disturb another join's `JoinInv`, and there `LockInv` and `TTLCovers` say
that the other join is the same request: this is the only place where
`TTLCovers` is used; see the first disagreement below for a run without it. Quits and
disbands only remove rows; cardinalities are compared with the theorems of
`FiniteSetTheorems`.

`TxSafety` is the same kind of fact for the transactions of a quit and a
disband: while one holds the row lock the team is active and is still the row it
read, and each statement finds what the ones before it established (`TxKnows`:
the quitting user is a member, the successor is the earliest of the others, what
is written so far is what `Commit` will publish). It needs no join lock: an insert
into `user_team` waits for the row lock, so nothing a transaction has read
changes before it commits. `DisbandRemovesAll`, `RowLockOnlyInTx` and the cases of
`LeaderMoves` follow. `PolicyInv` says of every row, in the table or in a request
about to write it, that its leader exists and that a secret team has a password:
an update writes all columns its check was about, so two updates that race leave
the row of one of them, and never half of each.

The refinement takes `JoinSafety`, `TxSafety` and `PolicyInv` together
(`RosterInv`). One step commits, inserts or writes; each is one action of the roster,
whose guard is what those invariants say of the request at that point, and every
other step leaves the tables alone. `LeaderIsMember` and `NoGhostTeam` are
inductive with them. `QuotaBound` is about rows, and a handover moves a row
from the joined to the created ones, so `QuotaInv` counts the rows in teams that
another leads: those come from joins only, and a handover takes one away.

### The cache

`StaleExplained` asks for an update that is still deleting. `CacheInv` says which
part of the deletion is still ahead, level by level: an old entry in Redis has a
deletion that has not passed that key, and an old entry in a local level has one
on that instance that has not emptied it there (`DeletingLocally`). An update
about to write has every length before it (`FullDelete`). Each fill is either
new or marked `lost` when it is stored, and copying from Redis into a local level
is the step that needs both parts: the deletion that explains the entry in Redis
may be past the local level of its own instance, but then the copy is `lost`.
For the types, updates under way must leave room below `MaxVersion` (`Room`).

### The warm-up

`JobInv` says that where a job is decides where
its call of `RunWithLock` is and whether its pool may have goroutines
(`StageInv`), and that the token outlives the context of the job that set it
(`TokenInv`): the context is made first and `taskTimeout <= lockTTL`, which
`WarmUpAssumption` takes from the two constants of `cache_task.go`. Both follow
action by action; the first gives `NoWorkerLeft`, the second `OverlapExplained`,
since two jobs with contexts would both own the key. `StopInv` gives
`QuietAfterStop`. `AllWarmed` needs `PoolInv`: what the channel has handed out is
a prefix of the candidates, a goroutine works for a user it was handed, and, while
the context lasts, each length of each user handed out has been tried or lies
ahead of the goroutine that has the user. A goroutine leaves early only when the
context has ended, or else when the channel is closed and empty.

### Accounts and the scan

A planet code is shared across three statements of two requests.
`CodeInv` says what a registration still knows when it
inserts: no row that was there when it looked for its code has it since, except
by an update. Rows are never removed, so a code that two rows share without an
update means that the later registration looked before the earlier row
was there. `AccountAssumption` asks the same of the initial table.

`ScanInv` says of a scan that what it has loaded lies at or before the cursor, in
the order of ids, and did qualify when it was read, and that users which qualified
all along, up to the cursor, are loaded. A batch keeps it because it holds the
*smallest* ids past the cursor and the cursor moves to the last of them. That
needs facts on `Ascending` and prefixes of it; the module defines that sequence by
ranks (the n-th element is the one with n-1 smaller ones), which can be reasoned
about with cardinalities, where a sort by recursion could not.

`MinDistanceIsLeast` is about a recursive function and needs induction, which the
library's theorems state for a formula that no prover here can fill in. For
a *set* of naturals it follows from the least element of its complement
(`LeastNatural`, from the well-foundedness of inclusion between finite sets;
`EveryNatural`), and all inductions here are put as sets. The table exists
because each diagonal is computed from the two before it (`NextDiagonal`,
`TableExists`). Each cell is the least cost of a matching in order of the two
prefixes (`LeastCost`): such a matching leaves out the last place of one list or of
the other, or pairs the two last places with each other (`LastPlaces`), and those are
the three ways into a cell.

`Typing` needs the same `Room` below `MaxUsers` that registrations under way have
taken, and that distances are numbers. `RankInv` says of the heap that it
holds the nearest of the candidates ranked so far (`Nearest`), which each round of
`topKNearest` keeps: when a candidate displaces the farthest, whatever was dropped is
at least as far as what stayed (`NearestKept`). `ScanInv` is needed as well: each
candidate was loaded once, so scores and candidates correspond (`ScoresCorrespond`).
The second read finds every row, because rows are never removed (`TableGrows`),
and puts them back in order (`AllFound`).

### The team views

The types need `DataInv` (what the roster's steps keep of the tables) and
`ClientInv` (what a request has in its hands at each statement). `PrivateHidden`
needs `HiddenInv`: from the rows on, everything gathered was allowed at some moment of
the request. The routes without a login have no viewer, and `Nobody` is neither a
member nor an administrator, so what they select is public; the ids of
`ListMyJoin` are of the viewer's own teams, and are never empty when they select: an empty
list of ids would filter nothing, which is why the early return is there.
`PagesTile` is about a walk that no write disturbs except new teams, which come
first: a team's place in the list can then only move back, so `TourInv` says that
teams that were listed all the time and stand before the next page's offset have been
seen. The rest is the arithmetic of `Offset`.

### The generated code

`CodeOK` lists what the three generated descriptions have in common: a builder
sets only fields that take values, sums and clears only where the field has the
method, its checks cover each column with a validator that it writes, defaults
are valid, and so on. It is proved of each entity, and the
rest of the module uses only it, so what is proved holds for each entity and
field and for any number of calls. `SchemaKept` says of a column that it holds a
valid value, unless a sum was written to it. `OldInv`: as
long as nothing was asked and no save was answered, the row that a question would
read is among the versions noted in `olds`, whoever wrote it, so an old value asked late
was there before a save was answered. What it cannot say is that the builder did not
write it: a save that lost its answer does not set `done`. `CallsInv` relates the
mutation to the history of calls, per field, by what the last call asked
(`FollowsSet`, `FollowsKeep`, `FollowsNull`, `FollowsAdd`); a save that fails or
loses its answer breaks none of it, except that defaults it filled in stay, which
`CallsDecide` allows.

### Only model-checked

- Liveness, which is out of the prover's reach: `KeyFreed`, `RequestsFinish`,
  `JoinLockComesFree`, `EventuallyFresh`, `JobEnds`, `WarmUpLockFreed`.
- `LoginSeesOwn`, which is violated.

## Disagreements between code and documents

The run `login` shows the first one; the others are what the corresponding
properties of the passing runs had to leave room for.

1. `httpapi/team.go:18` says that the lists of teams may be read anonymously and
   that `hasJoin` is filled in for who is logged in. `GetLoginUserID` reads what
   `AuthRequired` put into the context, and the three open routes stand outside its
   group: nobody is seen as logged in there. `hasJoin` is always false, an
   administrator is not recognised, and a private team is "not found" for its own
   members and leader (`login`).
2. `team/service.go:16` says the lock per team prevents overfull teams and
   double joins. It is not renewed, and the insert checks nothing again: a join
   that takes longer than ten seconds runs beside the next one. `Capacity`,
   `NoDuplicateMembership` and `JoinSafety` are checked and proved with `TTLCovers`,
   and fail in the same configuration when it is FALSE.
3. `team/TX_LOCK.md:22` says leadership is not given to a user that has left.
   `repo.Update` writes every column of the row `Service.Update` read, the
   leader included, without a lock: an update that overlaps the leader's quit
   gives the team back to the leader that has left. Hence the second case of
   `LeaderMoves`, and no updates in `team_leader`.
4. `team/model.go:11` limits the teams a user creates. Count and creation are
   separate: two concurrent requests exceed it, so `QuotaBound` is about a user
   that waits for each answer. Related: `model.go:12` says the limit of joined
   teams includes created ones, but `Add` counts no memberships; what holds is the
   sum.
5. `docs/REDIS_CACHE.md:164` says that after an update only other instances'
   local levels keep the old list, for about ten minutes. A match or warm-up
   that read the profile before the update stores its list after the deletion,
   in Redis, for an hour. The warm-up's window is long: it keeps the profiles of
   all candidates while they wait in its job queue. `StaleExplained` excuses this
   case, and `EventuallyFresh` says that it ends with the TTL.

## What the properties excuse

Some properties say of what really can happen only where it ends. They do not catch
these cases, and `PROJECT.json` does not list them under the hazard:

- `StaleExplained` excuses lists stored late, failed or interrupted deletions and
  other instances' local levels (`lost`). It catches an invalidation that forgets a
  key or a level.
- `PlanetCodeExplained` excuses two registrations that overlap.
- `SchemaKept` excuses columns that `AddX` touched, `CallsDecide` columns that one
  statement assigns twice (`log.clash`).
- `QuotaBound` is about one request at a time; concurrent ones exceed it.
- `OldPrecedesSave` admits the builder's own write when the answer to it was lost.

## What is not modelled

- Wording: names, descriptions, search texts, responses, log lines, error codes.
- Passwords and their hashes, the optional profile columns, `SearchByTags` and the
  administrator's lists of users: they change no state that is modelled.
- Binding and validation of request parameters, cookies and their expiry.
- ent's query and delete builders, bulk inserts, edges to many, hooks and
  interceptors (the repository installs none), the driver and its transactions
  beyond what `TeamService` states of them.
- Database failures that lose committed data, Redis failover.
- `SoftDeleteTeam` and `SoftDeleteMember` of the team repository: no caller.
- Seed, configuration, logger, Swagger.

## Plan

Done: all modules above, their runs, and 36 theorems, among them every safety and
action property that a passing run checks. Next:

1. The row that a late join leaves in a disbanded team (`TX_LOCK.md` section 6)
   is the one listed hazard without a property. What bounds it is that no
   query shows such a team, which relates `TeamService` to `TeamViews`.
2. Proofs shared by several components (steps of `TeamRoster`, sequences in
   ascending order, induction over a set of naturals) as lemmas of their own.
3. That `WarmUp` implements what `MatchCache` takes it to be: one call of `Once`
   per candidate and length, in any order, possibly cut short.
