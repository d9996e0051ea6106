--------------------------- MODULE MatchCacheProofs ---------------------------
(***************************************************************************)
(* Theorems about MatchCache for any users, instances, goroutines and      *)
(* lifetimes: its typing, and that what is out of date in the cache is     *)
(* about to be deleted.                                                    *)
(***************************************************************************)
EXTENDS MatchCache, FiniteSetTheorems, SequenceTheorems, TLAPS

(* What a level of the cache is: a function from keys to entries.          *)
Level == [matchCacheKey -> Entry \cup {NoEntry}]

(* Updates about to write leave room for all of them below MaxVersion.     *)
Room ==
  \A u \in Users :
    /\ IsFiniteSet(Writers(u))
    /\ profile[u] + Cardinality(Writers(u)) <= MaxVersion

Typing == TypeOK /\ Room

(* An update deletes every list of its user.                               *)
FullDelete == \A p \in Procs : At(p, "write") => op[p].todo = InvalidatedNums

(* q, which deletes the keys it has left, has yet to delete k locally: it  *)
(* is past the first of them once it deletes that one in Redis.            *)
DeletingLocally(q, k) ==
  /\ Busy(q)
  /\ \E j \in DOMAIN op[q].todo :
       /\ k = <<op[q].user, op[q].todo[j]>>
       /\ \/ op[q].at = "delLocal"
          \/ op[q].at = "delRedis" /\ j # 1

RemoteExplained ==
  \A k \in matchCacheKey :
    Stale(remote[k], k) /\ ~remote[k].lost => \E q \in Procs : Deleting(q, k)

LocalExplained ==
  \A i \in Instances, k \in matchCacheKey :
    Stale(local[i][k], k) /\ ~local[i][k].lost =>
      \E q \in Procs : DeletingLocally(q, k) /\ op[q].inst = i

CacheInv == Typing /\ FullDelete /\ RemoteExplained /\ LocalExplained

-----------------------------------------------------------------------------
(* Entries and operations.                                                 *)

(* An entry has time left; NoEntry has none.                               *)
LEMMA EntryIsNot ==
  ASSUME NEW e \in Entry
  PROVE  e # NoEntry /\ e.ver \in Versions /\ e.lost \in BOOLEAN
BY DEF Entry, NoEntry

(* An operation under way is not Idle and has its fields.                  *)
LEMMA OpFields ==
  ASSUME NEW o \in Op
  PROVE  /\ o # Idle /\ o.at \in Reading \cup Writing /\ o.user \in Users
         /\ o.inst \in Instances /\ o.todo \in Seq(Nums)
         /\ o.ver \in Versions /\ o.list \in Versions
<1>1. o.at # "idle"
  BY DEF Op, Reading, Writing
<1>2. o # Idle
  BY <1>1 DEF Idle
<1> QED
  BY <1>2 DEF Op

(* A goroutine that is busy carries out an operation with keys left.       *)
LEMMA BusyOp ==
  ASSUME TypeOK, NEW p \in Procs, Busy(p)
  PROVE  /\ op[p] \in Op /\ op[p].todo \in Seq(Nums) /\ op[p].todo # <<>>
         /\ op[p].user \in Users /\ op[p].inst \in Instances
         /\ KeyOf(p) \in matchCacheKey
         /\ KeyOf(p) = <<op[p].user, op[p].todo[1]>>
<1>1. op[p] \in Op /\ op[p].todo # <<>>
  BY DEF TypeOK, Busy
<1>2. op[p].todo \in Seq(Nums) /\ op[p].user \in Users /\ op[p].inst \in Instances
  BY <1>1, OpFields
<1>3. Head(op[p].todo) \in Nums /\ Head(op[p].todo) = op[p].todo[1]
  BY <1>1, <1>2
<1> QED
  BY <1>1, <1>2, <1>3 DEF KeyOf, matchCacheKey

(* Only the place of the operation changes.                                *)
LEMMA MovedOp ==
  ASSUME NEW o \in Op, NEW place \in Reading \cup Writing
  PROVE  [o EXCEPT !.at = place] =
           [at |-> place, user |-> o.user, inst |-> o.inst, todo |-> o.todo,
            ver |-> o.ver, list |-> o.list]
BY DEF Op

(* The same with the list in hand.                                         *)
LEMMA FilledOp ==
  ASSUME NEW o \in Op, NEW place \in Reading \cup Writing, NEW v \in Versions
  PROVE  [o EXCEPT !.at = place, !.list = v] =
           [at |-> place, user |-> o.user, inst |-> o.inst, todo |-> o.todo,
            ver |-> o.ver, list |-> v]
<1> DEFINE r == [at |-> place, user |-> o.user, inst |-> o.inst, todo |-> o.todo,
                 ver |-> o.ver, list |-> o.list]
<1>1. [o EXCEPT !.at = place] = r
  BY MovedOp
<1>2. [o EXCEPT !.at = place, !.list = v] = [[o EXCEPT !.at = place] EXCEPT !.list = v]
  BY DEF Op
<1>3. [r EXCEPT !.list = v] =
        [at |-> place, user |-> o.user, inst |-> o.inst, todo |-> o.todo,
         ver |-> o.ver, list |-> v]
  OBVIOUS
<1> HIDE DEF r
<1> QED
  BY <1>1, <1>2, <1>3

(* A list of two keys or more has a tail with keys.                        *)
LEMMA TailLeft ==
  ASSUME NEW s \in Seq(Nums), s # <<>>, Len(s) # 1
  PROVE  Len(s) > 1 /\ Tail(s) # <<>> /\ Tail(s) \in Seq(Nums)
<1>1. PICK n \in Nat : n = Len(s) /\ n # 0
  BY EmptySeq
<1>2. n > 1
  BY <1>1
<1>3. Tail(s) \in Seq(Nums) /\ Len(Tail(s)) = n - 1
  BY <1>1, HeadTailProperties
<1>4. n - 1 # 0
  BY <1>2
<1>5. Tail(s) # <<>>
  BY <1>3, <1>4, EmptySeq
<1> QED
  BY <1>1, <1>2, <1>3, <1>5

(* What Rest leaves of an operation.                                       *)
LEMMA RestOp ==
  ASSUME NEW o \in Op, o.todo # <<>>, NEW place \in Reading \cup Writing
  PROVE  \/ Len(o.todo) = 1 /\ Rest(o, place) = Idle
         \/ /\ Len(o.todo) > 1 /\ Tail(o.todo) # <<>>
            /\ Tail(o.todo) \in Seq(Nums)
            /\ Rest(o, place) =
                 [at |-> place, user |-> o.user, inst |-> o.inst,
                  todo |-> Tail(o.todo), ver |-> o.ver, list |-> o.ver]
            /\ Rest(o, place) \in Op
<1>1. /\ o.todo \in Seq(Nums) /\ Len(o.todo) \in Nat /\ Len(o.todo) > 0
      /\ o.user \in Users /\ o.inst \in Instances /\ o.ver \in Versions
  BY OpFields
<1>2. CASE Len(o.todo) = 1
  BY <1>2 DEF Rest
<1>3. CASE Len(o.todo) # 1
  <2> DEFINE t == Tail(o.todo)
  <2>1. Len(o.todo) > 1 /\ t # <<>> /\ t \in Seq(Nums)
    BY <1>1, <1>3, TailLeft
  <2>2. Rest(o, place) = [o EXCEPT !.at = place, !.todo = t, !.list = o.ver]
    BY <1>3 DEF Rest
  <2> HIDE DEF t
  <2>3. Rest(o, place) = [at |-> place, user |-> o.user, inst |-> o.inst,
                          todo |-> t, ver |-> o.ver, list |-> o.ver]
    BY <2>2 DEF Op
  <2>4. Rest(o, place) \in Op
    BY <2>1, <2>3, <1>1 DEF Op
  <2> QED
    BY <2>1, <2>3, <2>4 DEF t
<1> QED
  BY <1>2, <1>3

(* Keys left after the first one are those of Rest.                        *)
LEMMA RestKeys ==
  ASSUME NEW s \in Seq(Nums), s # <<>>, NEW j \in DOMAIN s, j # 1
  PROVE  /\ Len(s) > 1 /\ j - 1 \in DOMAIN Tail(s) /\ Tail(s)[j - 1] = s[j]
OBVIOUS

(* An entry that Stored makes, and what its fields are.                    *)
LEMMA StoredEntry ==
  ASSUME TypeOK, NEW p \in Procs, Busy(p), NEW ttl \in 1 .. (matchCacheTTL + LocalTTL)
  PROVE  /\ Stored(p, ttl) \in Entry
         /\ Stored(p, ttl).ver = op[p].list
         /\ Stored(p, ttl).lost = (op[p].list # profile[op[p].user])
<1>1. op[p].list \in Versions
  BY BusyOp, OpFields
<1> DEFINE late == op[p].list # profile[op[p].user]
<1>2. late \in BOOLEAN
  OBVIOUS
<1>3. Stored(p, ttl) = [ver |-> op[p].list, left |-> ttl, lost |-> late]
  BY DEF Stored
<1> HIDE DEF late
<1>4. Stored(p, ttl) \in Entry
  BY <1>1, <1>2, <1>3 DEF Entry
<1>5. Stored(p, ttl).ver = op[p].list /\ Stored(p, ttl).lost = late
  BY <1>3
<1> QED
  BY <1>4, <1>5 DEF late

(* Changing one key of the local level of one instance.                    *)
PutLocal(i, k, e) == local' = [local EXCEPT ![i][k] = e]

(* The other keys and the other instances stay as they are.                *)
LEMMA LocalSet ==
  ASSUME local \in [Instances -> Level], NEW i \in Instances, NEW k \in matchCacheKey,
         NEW e \in Entry \cup {NoEntry}, PutLocal(i, k, e)
  PROVE  /\ local' \in [Instances -> Level]
         /\ local'[i][k] = e
         /\ \A j \in Instances, m \in matchCacheKey :
              j # i \/ m # k => local'[j][m] = local[j][m]
<1>1. local[i] \in Level
  OBVIOUS
<1>2. [local[i] EXCEPT ![k] = e] \in Level
  BY <1>1 DEF Level
<1>3. local' = [local EXCEPT ![i] = [local[i] EXCEPT ![k] = e]]
  BY DEF PutLocal
<1>4. local' \in [Instances -> Level]
  BY <1>2, <1>3
<1>5. local'[i] = [local[i] EXCEPT ![k] = e] /\ \A j \in Instances \ {i} : local'[j] = local[j]
  BY <1>3
<1> QED
  BY <1>1, <1>4, <1>5 DEF Level

(* Marking an entry as out of date for good.                               *)
LEMMA LostEntry ==
  ASSUME NEW e \in Entry
  PROVE  /\ [e EXCEPT !.lost = TRUE] \in Entry
         /\ [e EXCEPT !.lost = TRUE].lost
         /\ [e EXCEPT !.lost = TRUE].ver = e.ver
BY DEF Entry

(* GivenUp leaves alone what is not up for deletion; of the rest, what is  *)
(* out of date is marked.                                                  *)
LEMMA GivenUpLevel ==
  ASSUME NEW level \in Level, NEW ks, NEW v
  PROVE  /\ GivenUp(level, ks, v) \in Level
         /\ \A k \in matchCacheKey :
              /\ k \notin ks => GivenUp(level, ks, v)[k] = level[k]
              /\ GivenUp(level, ks, v)[k] = NoEntry <=> level[k] = NoEntry
              /\ GivenUp(level, ks, v)[k] # NoEntry =>
                   /\ GivenUp(level, ks, v)[k].ver = level[k].ver
                   /\ level[k].lost => GivenUp(level, ks, v)[k].lost
                   /\ k \in ks /\ level[k].ver # v => GivenUp(level, ks, v)[k].lost
<1> DEFINE g == GivenUp(level, ks, v)
<1>1. ASSUME NEW k \in matchCacheKey
      PROVE  /\ g[k] \in Entry \cup {NoEntry}
             /\ k \notin ks => g[k] = level[k]
             /\ g[k] = NoEntry <=> level[k] = NoEntry
             /\ g[k] # NoEntry =>
                   /\ g[k].ver = level[k].ver
                   /\ level[k].lost => g[k].lost
                   /\ k \in ks /\ level[k].ver # v => g[k].lost
  <2>1. level[k] \in Entry \cup {NoEntry}
    BY DEF Level
  <2>2. CASE k \in ks /\ level[k] # NoEntry /\ level[k].ver # v
    <3>1. g[k] = [level[k] EXCEPT !.lost = TRUE]
      BY <2>2 DEF GivenUp
    <3> HIDE DEF g
    <3> QED
      BY <2>1, <2>2, <3>1, LostEntry, EntryIsNot
  <2>3. CASE ~ (k \in ks /\ level[k] # NoEntry /\ level[k].ver # v)
    <3>1. g[k] = level[k]
      BY <2>3 DEF GivenUp
    <3> HIDE DEF g
    <3> QED
      BY <2>1, <2>3, <3>1
  <2> QED
    BY <2>2, <2>3
<1>2. g = [k \in matchCacheKey |-> g[k]]
  BY DEF GivenUp
<1> HIDE DEF g
<1>3. g \in Level
  BY <1>1, <1>2 DEF Level
<1> QED
  BY <1>1, <1>3 DEF g

(* A tick takes an entry away or leaves it with its profile.               *)
LEMMA AgedEntry ==
  ASSUME NEW e \in Entry \cup {NoEntry}
  PROVE  /\ Aged(e) \in Entry \cup {NoEntry}
         /\ Aged(e) # NoEntry =>
              e # NoEntry /\ Aged(e).ver = e.ver /\ Aged(e).lost = e.lost
<1>1. CASE e.left <= 1
  BY <1>1 DEF Aged
<1>2. CASE ~ (e.left <= 1)
  <2>1. e \in Entry /\ e.left \in 1 .. (matchCacheTTL + LocalTTL)
    BY <1>2 DEF Entry, NoEntry
  <2>2. Aged(e) = [ver |-> e.ver, left |-> e.left - 1, lost |-> e.lost]
    BY <1>2, <2>1 DEF Aged, Entry
  <2>3. e.left - 1 \in 1 .. (matchCacheTTL + LocalTTL)
    BY <1>2, <2>1, CacheAssumption
  <2> QED
    BY <2>1, <2>2, <2>3, EntryIsNot DEF Entry
<1> QED
  BY <1>1, <1>2

-----------------------------------------------------------------------------
(* Steps of operations.                                                    *)

OpsTyped ==
  /\ op \in [Procs -> Op \cup {Idle}]
  /\ \A p \in Procs : op[p] # Idle => op[p].todo # <<>>

(* q deletes nothing: it is not at it, or it does not change.              *)
Still(q) ==
  op'[q] = op[q] \/ ~(At(q, "write") \/ At(q, "delLocal") \/ At(q, "delRedis"))

(* One operation changes to o.                                             *)
LEMMA OneOp ==
  ASSUME OpsTyped, NEW p \in Procs, NEW o \in Op \cup {Idle},
         o # Idle => o.todo # <<>>,
         op' = [op EXCEPT ![p] = o]
  PROVE  OpsTyped' /\ op'[p] = o /\ \A q \in Procs \ {p} : op'[q] = op[q]
BY DEF OpsTyped

(* A goroutine goes to another place.                                      *)
LEMMA GotoOp ==
  ASSUME TypeOK, NEW p \in Procs, Busy(p), NEW place \in Reading \cup Writing,
         Goto(p, place)
  PROVE  /\ OpsTyped' /\ Busy(p)' /\ \A q \in Procs \ {p} : op'[q] = op[q]
         /\ op'[p].at = place /\ op'[p].user = op[p].user
         /\ op'[p].inst = op[p].inst /\ op'[p].todo = op[p].todo
<1> DEFINE o == [op[p] EXCEPT !.at = place]
<1>1. op[p] \in Op /\ op[p].todo # <<>>
  BY BusyOp
<1>2. o = [at |-> place, user |-> op[p].user, inst |-> op[p].inst,
           todo |-> op[p].todo, ver |-> op[p].ver, list |-> op[p].list]
  BY <1>1, MovedOp
<1>3. op' = [op EXCEPT ![p] = o]
  BY DEF Goto
<1> HIDE DEF o
<1>4. o \in Op /\ o.todo # <<>>
  BY <1>1, <1>2, OpFields DEF Op
<1>5. OpsTyped' /\ op'[p] = o /\ \A q \in Procs \ {p} : op'[q] = op[q]
  BY <1>3, <1>4, OneOp DEF OpsTyped, TypeOK
<1> QED
  BY <1>2, <1>4, <1>5, OpFields DEF Busy

(* An operation goes on with its next key, or is over.                     *)
LEMMA RestStep ==
  ASSUME TypeOK, NEW p \in Procs, Busy(p), NEW place \in Reading \cup Writing
  PROVE  /\ Rest(op[p], place) \in Op \cup {Idle}
         /\ Rest(op[p], place) # Idle =>
              /\ Rest(op[p], place).at = place
              /\ Rest(op[p], place).user = op[p].user
              /\ Rest(op[p], place).inst = op[p].inst
              /\ Rest(op[p], place).todo = Tail(op[p].todo)
              /\ Tail(op[p].todo) # <<>>
         /\ Rest(op[p], place) = Idle => Len(op[p].todo) = 1
<1> DEFINE o == op[p] r == Rest(o, place)
<1>1. o \in Op /\ o.todo # <<>>
  BY BusyOp
<1> HIDE DEF o
<1>2. \/ Len(o.todo) = 1 /\ r = Idle
      \/ /\ Tail(o.todo) # <<>> /\ r \in Op
         /\ r = [at |-> place, user |-> o.user, inst |-> o.inst,
                 todo |-> Tail(o.todo), ver |-> o.ver, list |-> o.ver]
  BY <1>1, RestOp
<1> HIDE DEF r
<1>3. CASE r = Idle
  <2>1. r \notin Op
    BY <1>3, OpFields
  <2> QED
    BY <1>2, <1>3, <2>1 DEF o, r
<1>4. CASE r # Idle
  <2>1. /\ Tail(o.todo) # <<>> /\ r \in Op
        /\ r = [at |-> place, user |-> o.user, inst |-> o.inst,
                todo |-> Tail(o.todo), ver |-> o.ver, list |-> o.ver]
    BY <1>2, <1>4, Zenon
  <2>2. /\ r.at = place /\ r.user = o.user /\ r.inst = o.inst
        /\ r.todo = Tail(o.todo)
    BY <2>1
  <2> QED
    BY <1>4, <2>1, <2>2 DEF o, r
<1> QED
  BY <1>3, <1>4

(* The end of Once moves callers that read, and no other.                  *)
LEMMA OnceReturnsOps ==
  ASSUME TypeOK, NEW p \in Procs, Busy(p), op[p].at \in Reading, OnceReturns(p)
  PROVE  /\ OpsTyped'
         /\ \A q \in Procs : Still(q) /\ (At(q, "write")' => op'[q] = op[q])
<1>1. ASSUME NEW q \in Procs
      PROVE  /\ op'[q] \in Op \cup {Idle} /\ (op'[q] # Idle => op'[q].todo # <<>>)
             /\ Still(q) /\ (At(q, "write")' => op'[q] = op[q])
  <2>1. CASE q = p \/ WaitsFor(q, p)
    <3>1. op'[q] = Rest(op[q], "lookup")
      BY <2>1 DEF OnceReturns
    <3>2. Busy(q) /\ op[q].at \in Reading
      BY <2>1 DEF WaitsFor, At, Reading
    <3>3. /\ Rest(op[q], "lookup") \in Op \cup {Idle}
          /\ Rest(op[q], "lookup") # Idle =>
               /\ Rest(op[q], "lookup").at = "lookup"
               /\ Rest(op[q], "lookup").todo # <<>>
      <4>1. "lookup" \in Reading \cup Writing
        BY DEF Reading
      <4> QED
        BY <3>2, <4>1, RestStep
    <3> QED
      BY <3>1, <3>2, <3>3 DEF Still, At, Busy, Reading
  <2>2. CASE ~(q = p \/ WaitsFor(q, p))
    <3>1. op'[q] = op[q]
      BY <2>2 DEF OnceReturns
    <3> QED
      BY <3>1 DEF TypeOK, Still
  <2> QED
    BY <2>1, <2>2
<1>2. op' = [q \in Procs |-> op'[q]]
  BY DEF OnceReturns
<1>3. op' \in [Procs -> Op \cup {Idle}]
  BY <1>1, <1>2
<1> QED
  BY <1>1, <1>3 DEF OpsTyped

(* Deletions under way are under way after a step that leaves them alone.  *)
LEMMA StillDeleting ==
  ASSUME NEW q \in Procs, Still(q), NEW k
  PROVE  /\ Deleting(q, k) => Deleting(q, k)'
         /\ DeletingLocally(q, k) => DeletingLocally(q, k)' /\ op'[q] = op[q]
BY DEF Still, At, Deleting, DeletingLocally, KeysLeft, Busy

-----------------------------------------------------------------------------
(* Steps of the cache.                                                     *)

LevelsTyped == local \in [Instances -> Level] /\ remote \in Level

(* An entry new in place of the entry old of a user whose profile is v     *)
(* needs no deletion that old did not need.                                *)
NoWorse(new, old, v) ==
  new # NoEntry =>
    \/ new.lost \/ new.ver = v
    \/ old # NoEntry /\ new.ver = old.ver /\ (old.lost => new.lost)

LevelsNoWorse ==
  \A k \in matchCacheKey :
    /\ NoWorse(remote'[k], remote[k], profile[k[1]])
    /\ \A i \in Instances : NoWorse(local'[i][k], local[i][k], profile[k[1]])

(* The typing of the variables, one by one.                                *)
LEMMA TypedParts == TypeOK <=> profile \in [Users -> Versions] /\ LevelsTyped /\ OpsTyped
BY DEF TypeOK, LevelsTyped, OpsTyped, Level

(* No update begins to write: there is as much room as before.             *)
LEMMA SameRoom ==
  ASSUME Typing, FullDelete, profile' = profile,
         \A q \in Procs : At(q, "write")' => op'[q] = op[q]
  PROVE  Room' /\ FullDelete'
<1>1. ASSUME NEW u \in Users
      PROVE  /\ IsFiniteSet(Writers(u)')
             /\ profile'[u] + Cardinality(Writers(u)') <= MaxVersion
  <2>1. Writers(u)' \in SUBSET Writers(u)
    BY DEF Writers, At, Busy
  <2>2. IsFiniteSet(Writers(u)) /\ profile[u] + Cardinality(Writers(u)) <= MaxVersion
    BY DEF Typing, Room
  <2>3. /\ IsFiniteSet(Writers(u)')
        /\ Cardinality(Writers(u)') <= Cardinality(Writers(u))
        /\ Cardinality(Writers(u)') \in Nat /\ Cardinality(Writers(u)) \in Nat
    BY <2>1, <2>2, FS_Subset, FS_CardinalityType
  <2>4. profile[u] \in Nat
    BY CacheAssumption DEF Typing, TypeOK, Versions
  <2> QED
    BY <2>2, <2>3, <2>4, CacheAssumption
<1>2. FullDelete'
  BY DEF FullDelete, At, Busy
<1> QED
  BY <1>1, <1>2 DEF Room

(* Deletions go on, and nothing in the cache needs a new one.              *)
LEMMA SameExplained ==
  ASSUME RemoteExplained, LocalExplained, profile' = profile, LevelsNoWorse,
         \A q \in Procs : Still(q)
  PROVE  RemoteExplained' /\ LocalExplained'
<1>1. ASSUME NEW k \in matchCacheKey, Stale(remote[k], k)', ~remote'[k].lost
      PROVE  \E q \in Procs : Deleting(q, k)'
  <2>1. Stale(remote[k], k) /\ ~remote[k].lost
    BY <1>1 DEF LevelsNoWorse, NoWorse, Stale
  <2>2. PICK q \in Procs : Deleting(q, k)
    BY <2>1 DEF RemoteExplained
  <2> QED
    BY <2>2, StillDeleting
<1>2. ASSUME NEW i \in Instances, NEW k \in matchCacheKey,
             Stale(local[i][k], k)', ~local'[i][k].lost
      PROVE  \E q \in Procs : DeletingLocally(q, k)' /\ op'[q].inst = i
  <2>1. Stale(local[i][k], k) /\ ~local[i][k].lost
    BY <1>2 DEF LevelsNoWorse, NoWorse, Stale
  <2>2. PICK q \in Procs : DeletingLocally(q, k) /\ op[q].inst = i
    BY <2>1 DEF LocalExplained
  <2> QED
    BY <2>2, StillDeleting
<1> QED
  BY <1>1, <1>2 DEF RemoteExplained, LocalExplained

(* A step that neither writes a profile nor deletes keeps the invariant.   *)
LEMMA HarmlessStep ==
  ASSUME CacheInv, profile' = profile, OpsTyped', LevelsTyped', LevelsNoWorse,
         \A q \in Procs : Still(q) /\ (At(q, "write")' => op'[q] = op[q])
  PROVE  CacheInv'
<1>1. TypeOK'
  BY DEF CacheInv, Typing, TypeOK, OpsTyped, LevelsTyped, Level
<1>2. Room' /\ FullDelete'
  BY SameRoom DEF CacheInv
<1>3. RemoteExplained' /\ LocalExplained'
  BY SameExplained DEF CacheInv
<1> QED
  BY <1>1, <1>2, <1>3 DEF CacheInv, Typing

(* Levels that do not change are no worse.                                 *)
LEMMA SameLevels ==
  ASSUME LevelsTyped, UNCHANGED <<local, remote>>
  PROVE  LevelsTyped' /\ LevelsNoWorse
BY DEF LevelsTyped, LevelsNoWorse, NoWorse

(* Storing what p has in hand marks what is stored late.                   *)
LEMMA StoreLocal ==
  ASSUME TypeOK, NEW p \in Procs, Busy(p), SetLocalEntry(p), UNCHANGED remote
  PROVE  LevelsTyped' /\ LevelsNoWorse
<1>1. PICK i \in Instances, k \in matchCacheKey :
        i = op[p].inst /\ k = KeyOf(p) /\ k[1] = op[p].user
  BY BusyOp
<1>2. LocalTTL \in 1 .. (matchCacheTTL + LocalTTL)
  BY CacheAssumption
<1>3. PICK e \in Entry : /\ e = Stored(p, LocalTTL) /\ e.ver = op[p].list
                         /\ e.lost = (op[p].list # profile[op[p].user])
  BY <1>2, StoredEntry
<1>4. PutLocal(i, k, e)
  BY <1>1, <1>3 DEF SetLocalEntry, PutLocal
<1>5. local \in [Instances -> Level] /\ remote \in Level
  BY TypedParts DEF LevelsTyped
<1>6. /\ local' \in [Instances -> Level] /\ local'[i][k] = e
      /\ \A j \in Instances, m \in matchCacheKey :
           j # i \/ m # k => local'[j][m] = local[j][m]
  BY <1>4, <1>5, LocalSet
<1>7. LevelsTyped'
  BY <1>5, <1>6 DEF LevelsTyped
<1>8. NoWorse(e, local[i][k], profile[k[1]])
  BY <1>1, <1>3 DEF NoWorse
<1>9. ASSUME NEW m \in matchCacheKey, NEW j \in Instances
      PROVE  NoWorse(local'[j][m], local[j][m], profile[m[1]])
  BY <1>6, <1>8 DEF NoWorse
<1> QED
  BY <1>7, <1>9 DEF LevelsNoWorse, NoWorse

(* The same of Redis.                                                      *)
LEMMA StoreRemote ==
  ASSUME TypeOK, NEW p \in Procs, Busy(p), SetRedisEntry(p), UNCHANGED local
  PROVE  LevelsTyped' /\ LevelsNoWorse
<1>1. KeyOf(p) \in matchCacheKey /\ KeyOf(p)[1] = op[p].user
  BY BusyOp
<1>2. PICK ttl \in withJitter(matchCacheTTL) :
        remote' = [remote EXCEPT ![KeyOf(p)] = Stored(p, ttl)]
  BY DEF SetRedisEntry
<1>3. ttl \in 1 .. (matchCacheTTL + LocalTTL)
  BY CacheAssumption DEF withJitter
<1> DEFINE e == Stored(p, ttl)
<1>4. /\ e \in Entry /\ e.ver = op[p].list
      /\ e.lost = (op[p].list # profile[op[p].user])
  BY <1>3, StoredEntry
<1>5. remote' = [remote EXCEPT ![KeyOf(p)] = e]
  BY <1>2
<1> HIDE DEF e
<1>6. remote \in Level /\ local \in [Instances -> Level]
  BY TypedParts DEF LevelsTyped
<1>7. LevelsTyped'
  BY <1>1, <1>4, <1>5, <1>6 DEF LevelsTyped, Level
<1>8. NoWorse(e, remote[KeyOf(p)], profile[KeyOf(p)[1]])
  BY <1>1, <1>4 DEF NoWorse
<1>9. ASSUME NEW k \in matchCacheKey
      PROVE  NoWorse(remote'[k], remote[k], profile[k[1]])
  BY <1>5, <1>6, <1>8 DEF NoWorse, Level
<1> QED
  BY <1>7, <1>9 DEF LevelsNoWorse, NoWorse

-----------------------------------------------------------------------------
(* The actions that neither write a profile nor delete keys.               *)

(* A call begins: nothing stored changes.                                  *)
LEMMA BeginOp ==
  ASSUME TypeOK, NEW p \in Procs, NEW place \in Reading \cup Writing,
         NEW u \in Users, NEW i \in Instances, NEW todo \in Seq(Nums), todo # <<>>,
         Begin(p, place, u, i, todo)
  PROVE  /\ OpsTyped' /\ ~Busy(p) /\ \A q \in Procs \ {p} : op'[q] = op[q]
         /\ op'[p].at = place /\ op'[p].user = u /\ op'[p].todo = todo
         /\ UNCHANGED <<profile, local, remote>>
<1>1. PICK v \in Versions : v = profile[u]
  BY DEF TypeOK
<1> DEFINE o == [at |-> place, user |-> u, inst |-> i, todo |-> todo,
                 ver |-> v, list |-> v]
<1>2. op' = [op EXCEPT ![p] = o] /\ ~Busy(p) /\ UNCHANGED <<profile, local, remote>>
  BY <1>1 DEF Begin
<1>3. o \in Op /\ o.todo # <<>>
  BY DEF Op
<1>4. o.at = place /\ o.user = u /\ o.todo = todo
  OBVIOUS
<1> HIDE DEF o
<1>5. OpsTyped' /\ op'[p] = o /\ \A q \in Procs \ {p} : op'[q] = op[q]
  BY <1>2, <1>3, OneOp, TypedParts
<1> QED
  BY <1>2, <1>4, <1>5

LEMMA LookupBegins ==
  ASSUME CacheInv, NEW p \in Procs, NEW u \in Users, NEW i \in Instances,
         NEW todo \in Seq(Nums), todo # <<>>, Begin(p, "lookup", u, i, todo)
  PROVE  CacheInv'
<1>1. TypeOK /\ LevelsTyped
  BY TypedParts DEF CacheInv, Typing
<1>2. "lookup" \in Reading \cup Writing
  BY DEF Reading
<1>3. /\ OpsTyped' /\ ~Busy(p) /\ \A q \in Procs \ {p} : op'[q] = op[q]
      /\ op'[p].at = "lookup" /\ UNCHANGED <<profile, local, remote>>
  BY <1>1, <1>2, BeginOp
<1>4. \A q \in Procs : Still(q) /\ (At(q, "write")' => op'[q] = op[q])
  BY <1>3 DEF Still, At
<1> QED
  BY <1>1, <1>3, <1>4, SameLevels, HarmlessStep

(* An update that has room begins: it is to delete every list.             *)
LEMMA UpdateBegins ==
  ASSUME CacheInv, NEW p \in Procs, NEW u \in Users, NEW i \in Instances,
         StartUpdate(p, u, i)
  PROVE  CacheInv'
<1>1. TypeOK /\ LevelsTyped /\ Room /\ FullDelete
  BY TypedParts DEF CacheInv, Typing
<1>2. "write" \in Reading \cup Writing
  BY DEF Writing
<1>3. InvalidatedNums \in Seq(Nums) /\ InvalidatedNums # <<>>
  <2>1. InvalidatedNums \in Seq(Nums) /\ Len(InvalidatedNums) = maxMatchNum
    BY CacheAssumption DEF InvalidatedNums, Nums
  <2> QED
    BY <2>1, CacheAssumption, EmptySeq
<1>4. /\ OpsTyped' /\ ~Busy(p) /\ \A q \in Procs \ {p} : op'[q] = op[q]
      /\ op'[p].at = "write" /\ op'[p].user = u /\ op'[p].todo = InvalidatedNums
      /\ UNCHANGED <<profile, local, remote>>
  BY <1>1, <1>2, <1>3, BeginOp DEF StartUpdate
<1>5. \A q \in Procs : Still(q)
  BY <1>4 DEF Still, At
<1>6. ASSUME NEW v \in Users
      PROVE  /\ IsFiniteSet(Writers(v)')
             /\ profile'[v] + Cardinality(Writers(v)') <= MaxVersion
  <2>1. IsFiniteSet(Writers(v)) /\ profile[v] + Cardinality(Writers(v)) <= MaxVersion
    BY <1>1 DEF Room
  <2>2. profile'[v] = profile[v] /\ profile[v] \in Nat /\ Cardinality(Writers(v)) \in Nat
    BY <1>1, <1>4, <2>1, FS_CardinalityType, CacheAssumption DEF TypeOK, Versions
  <2>3. CASE v = u
    <3>1. Writers(v)' = Writers(v) \cup {p} /\ p \notin Writers(v)
      BY <1>4, <2>3, OpFields, TypedParts DEF Writers, At, Busy, OpsTyped, Idle
    <3>2. IsFiniteSet(Writers(v)') /\ Cardinality(Writers(v)') = Cardinality(Writers(v)) + 1
      BY <2>1, <3>1, FS_AddElement
    <3>3. profile[v] + Cardinality(Writers(v)) < MaxVersion
      BY <2>3 DEF StartUpdate
    <3> QED
      BY <2>2, <3>2, <3>3, CacheAssumption
  <2>4. CASE v # u
    <3>1. Writers(v)' = Writers(v)
      BY <1>4, <2>4 DEF Writers, At, Busy
    <3> QED
      BY <2>1, <2>2, <3>1
  <2> QED
    BY <2>3, <2>4
<1>7. FullDelete'
  BY <1>1, <1>4 DEF FullDelete, At, Busy
<1>8. RemoteExplained' /\ LocalExplained'
  BY <1>1, <1>4, <1>5, SameLevels, SameExplained DEF CacheInv
<1>9. TypeOK'
  BY <1>1, <1>4 DEF TypeOK, OpsTyped
<1> QED
  BY <1>6, <1>7, <1>8, <1>9 DEF CacheInv, Typing, Room

(* A goroutine that reads goes to another place and the levels get no      *)
(* worse.                                                                  *)
LEMMA ReaderGoes ==
  ASSUME CacheInv, NEW p \in Procs, Busy(p), op[p].at \in Reading,
         NEW place \in Reading, Goto(p, place), UNCHANGED profile,
         LevelsTyped', LevelsNoWorse
  PROVE  CacheInv'
<1>1. TypeOK
  BY DEF CacheInv, Typing
<1>2. /\ OpsTyped' /\ \A q \in Procs \ {p} : op'[q] = op[q]
      /\ op'[p].at = place
  BY <1>1, GotoOp
<1>3. \A q \in Procs : Still(q) /\ (At(q, "write")' => op'[q] = op[q])
  BY <1>2 DEF Still, At, Reading
<1> QED
  BY <1>2, <1>3, HarmlessStep

LEMMA LookupKeeps ==
  ASSUME CacheInv, NEW p \in Procs, Lookup(p)
  PROVE  CacheInv'
<1>1. /\ TypeOK /\ LevelsTyped /\ Busy(p) /\ op[p].at = "lookup"
      /\ UNCHANGED <<profile, local, remote>>
  BY TypedParts DEF CacheInv, Typing, Lookup, At
<1>2. LevelsTyped' /\ LevelsNoWorse
  BY <1>1, SameLevels
<1>3. CASE op' = [op EXCEPT ![p] = Rest(op[p], "lookup")]
  <2>1. /\ Rest(op[p], "lookup") \in Op \cup {Idle}
        /\ Rest(op[p], "lookup") # Idle =>
             Rest(op[p], "lookup").at = "lookup" /\ Rest(op[p], "lookup").todo # <<>>
    BY <1>1, RestStep DEF Reading
  <2>2. PICK o \in Op \cup {Idle} :
          /\ o = Rest(op[p], "lookup")
          /\ o # Idle => o.at = "lookup" /\ o.todo # <<>>
    BY <2>1
  <2>3. OpsTyped' /\ op'[p] = o /\ \A q \in Procs \ {p} : op'[q] = op[q]
    BY <1>1, <1>3, <2>2, OneOp, TypedParts
  <2>4. \A q \in Procs : Still(q) /\ (At(q, "write")' => op'[q] = op[q])
    BY <1>1, <2>2, <2>3 DEF Still, At, Busy
  <2> QED
    BY <1>1, <1>2, <2>3, <2>4, HarmlessStep
<1>4. CASE Goto(p, "wait")
  BY <1>1, <1>2, <1>4, ReaderGoes DEF Reading
<1> QED
  BY <1>3, <1>4 DEF Lookup

LEMMA CancelledKeeps ==
  ASSUME CacheInv, NEW p \in Procs, Cancelled(p)
  PROVE  CacheInv'
<1>1. /\ TypeOK /\ LevelsTyped /\ Busy(p) /\ op[p].at = "lookup"
      /\ op' = [op EXCEPT ![p] = Idle] /\ UNCHANGED <<profile, local, remote>>
  BY TypedParts DEF CacheInv, Typing, Cancelled, At
<1>2. OpsTyped' /\ op'[p] = Idle /\ \A q \in Procs \ {p} : op'[q] = op[q]
  BY <1>1, OneOp, TypedParts
<1>3. \A q \in Procs : Still(q) /\ (At(q, "write")' => op'[q] = op[q])
  BY <1>1, <1>2 DEF Still, At, Busy
<1> QED
  BY <1>1, <1>2, <1>3, SameLevels, HarmlessStep

(* A hit is copied to the local level with the excuse it has.              *)
LEMMA RedisGetKeeps ==
  ASSUME CacheInv, NEW p \in Procs, RedisGet(p)
  PROVE  CacheInv'
<1>1. /\ TypeOK /\ LevelsTyped /\ Busy(p) /\ op[p].at = "lookup"
      /\ UNCHANGED <<profile, local, remote>>
  BY TypedParts DEF CacheInv, Typing, RedisGet, At
<1>2. LevelsTyped' /\ LevelsNoWorse
  BY <1>1, SameLevels
<1>3. CASE /\ remote[KeyOf(p)] # NoEntry
           /\ op' = [op EXCEPT ![p].at = "fill", ![p].list = remote[KeyOf(p)].ver]
  <2>1. PICK v \in Versions : v = remote[KeyOf(p)].ver
    BY <1>1, <1>3, BusyOp, EntryIsNot DEF LevelsTyped, Level
  <2>2. op[p] \in Op /\ op[p].todo # <<>>
    BY <1>1, BusyOp
  <2> DEFINE o == [op[p] EXCEPT !.at = "fill", !.list = v]
  <2>3. o = [at |-> "fill", user |-> op[p].user, inst |-> op[p].inst,
             todo |-> op[p].todo, ver |-> op[p].ver, list |-> v]
    BY <2>2, FilledOp DEF Reading
  <2>4. op' = [op EXCEPT ![p] = o]
    BY <1>3, <2>1
  <2> HIDE DEF o
  <2>5. o \in Op /\ o.todo # <<>> /\ o.at = "fill"
    BY <2>2, <2>3, OpFields DEF Op, Reading
  <2>6. OpsTyped' /\ op'[p] = o /\ \A q \in Procs \ {p} : op'[q] = op[q]
    BY <1>1, <2>4, <2>5, OneOp, TypedParts
  <2>7. \A q \in Procs : Still(q) /\ (At(q, "write")' => op'[q] = op[q])
    BY <1>1, <2>5, <2>6 DEF Still, At
  <2> QED
    BY <1>1, <1>2, <2>6, <2>7, HarmlessStep
<1>4. CASE Goto(p, "compute")
  BY <1>1, <1>2, <1>4, ReaderGoes DEF Reading
<1> QED
  BY <1>3, <1>4 DEF RedisGet

(* Once returns and the levels get no worse.                               *)
LEMMA OnceKeeps ==
  ASSUME CacheInv, NEW p \in Procs, Busy(p), op[p].at \in Reading,
         OnceReturns(p), UNCHANGED profile, LevelsTyped', LevelsNoWorse
  PROVE  CacheInv'
<1>1. TypeOK
  BY DEF CacheInv, Typing
<1> QED
  BY <1>1, OnceReturnsOps, HarmlessStep

LEMMA FillKeeps ==
  ASSUME CacheInv, NEW p \in Procs, Fill(p)
  PROVE  CacheInv'
<1>1. TypeOK /\ Busy(p) /\ op[p].at \in Reading
  BY DEF CacheInv, Typing, Fill, At, Reading
<1> QED
  BY <1>1, StoreLocal, OnceKeeps DEF Fill

LEMMA ComputeKeeps ==
  ASSUME CacheInv, NEW p \in Procs, Compute(p)
  PROVE  CacheInv'
<1>1. TypeOK /\ LevelsTyped /\ Busy(p) /\ op[p].at \in Reading
  BY TypedParts DEF CacheInv, Typing, Compute, At, Reading
<1>2. CASE SetLocalEntry(p) /\ Goto(p, "setRedis")
  <2>1. UNCHANGED <<profile, remote>>
    BY DEF Compute
  <2> QED
    BY <1>1, <1>2, <2>1, StoreLocal, ReaderGoes DEF Reading
<1>3. CASE OnceReturns(p) /\ UNCHANGED local
  <2>1. UNCHANGED <<profile, remote>>
    BY DEF Compute
  <2> QED
    BY <1>1, <1>3, <2>1, SameLevels, OnceKeeps
<1> QED
  BY <1>2, <1>3 DEF Compute

LEMMA SetRedisKeeps ==
  ASSUME CacheInv, NEW p \in Procs, SetRedis(p)
  PROVE  CacheInv'
<1>1. TypeOK /\ LevelsTyped /\ Busy(p) /\ op[p].at \in Reading
  BY TypedParts DEF CacheInv, Typing, SetRedis, At, Reading
<1>2. OnceReturns(p) /\ UNCHANGED <<profile, local>>
  BY DEF SetRedis
<1>3. CASE SetRedisEntry(p)
  BY <1>1, <1>2, <1>3, StoreRemote, OnceKeeps
<1>4. CASE UNCHANGED remote
  BY <1>1, <1>2, <1>4, SameLevels, OnceKeeps
<1> QED
  BY <1>3, <1>4 DEF SetRedis

LEMMA EvictKeeps ==
  ASSUME CacheInv, NEW i \in Instances, NEW k \in matchCacheKey, Evict(i, k)
  PROVE  CacheInv'
<1>1. LevelsTyped /\ OpsTyped /\ UNCHANGED <<profile, remote, op>>
  BY TypedParts DEF CacheInv, Typing, Evict
<1>2. PutLocal(i, k, NoEntry)
  BY DEF Evict, PutLocal
<1>3. /\ local' \in [Instances -> Level] /\ local'[i][k] = NoEntry
      /\ \A j \in Instances, m \in matchCacheKey :
           j # i \/ m # k => local'[j][m] = local[j][m]
  BY <1>1, <1>2, LocalSet DEF LevelsTyped
<1>4. LevelsTyped' /\ LevelsNoWorse
  BY <1>1, <1>3 DEF LevelsTyped, LevelsNoWorse, NoWorse
<1>5. OpsTyped' /\ \A q \in Procs : Still(q) /\ (At(q, "write")' => op'[q] = op[q])
  BY <1>1 DEF OpsTyped, Still
<1> QED
  BY <1>1, <1>4, <1>5, HarmlessStep

(* Entries only grow older, and then vanish.                               *)
LEMMA TickKeeps ==
  ASSUME CacheInv, Tick
  PROVE  CacheInv'
<1>1. LevelsTyped /\ OpsTyped /\ UNCHANGED <<profile, op>>
  BY TypedParts DEF CacheInv, Typing, Tick
<1>2. ASSUME NEW k \in matchCacheKey
      PROVE  /\ remote[k] \in Entry \cup {NoEntry} /\ remote'[k] = Aged(remote[k])
             /\ \A i \in Instances : /\ local[i][k] \in Entry \cup {NoEntry}
                                     /\ local'[i][k] = Aged(local[i][k])
  BY <1>1 DEF Tick, LevelsTyped, Level
<1>3. LevelsTyped'
  <2>1. /\ remote' = [k \in matchCacheKey |-> Aged(remote[k])]
        /\ local' = [i \in Instances |-> [k \in matchCacheKey |-> Aged(local[i][k])]]
    BY DEF Tick
  <2>2. remote' \in Level
    BY <1>2, <2>1, AgedEntry DEF Level
  <2>3. ASSUME NEW i \in Instances
        PROVE  [k \in matchCacheKey |-> Aged(local[i][k])] \in Level
    BY <1>2, AgedEntry DEF Level
  <2> QED
    BY <2>1, <2>2, <2>3 DEF LevelsTyped
<1>4. LevelsNoWorse
  BY <1>2, AgedEntry DEF LevelsNoWorse, NoWorse
<1>5. OpsTyped' /\ \A q \in Procs : Still(q) /\ (At(q, "write")' => op'[q] = op[q])
  BY <1>1 DEF OpsTyped, Still
<1> QED
  BY <1>1, <1>3, <1>4, <1>5, HarmlessStep

-----------------------------------------------------------------------------
(* Writing a profile.                                                      *)

(* The update that has written makes way for its version.                  *)
LEMMA WriterDone ==
  ASSUME Typing, NEW p \in Procs, NEW u \in Users, At(p, "write"), op[p].user = u,
         profile' = [profile EXCEPT ![u] = @ + 1],
         ~At(p, "write")', \A q \in Procs \ {p} : op'[q] = op[q]
  PROVE  profile' \in [Users -> Versions] /\ Room'
<1>1. ASSUME NEW v \in Users
      PROVE  /\ profile'[v] \in Versions /\ IsFiniteSet(Writers(v)')
             /\ profile'[v] + Cardinality(Writers(v)') <= MaxVersion
  <2>1. IsFiniteSet(Writers(v)) /\ profile[v] + Cardinality(Writers(v)) <= MaxVersion
    BY DEF Typing, Room
  <2>2. profile[v] \in Nat /\ Cardinality(Writers(v)) \in Nat
    BY <2>1, FS_CardinalityType, CacheAssumption DEF Typing, TypeOK, Versions
  <2>3. CASE v = u
    <3>1. Writers(v)' = Writers(v) \ {p} /\ p \in Writers(v)
      BY <2>3 DEF Writers, At, Busy
    <3>2. /\ IsFiniteSet(Writers(v)') /\ Cardinality(Writers(v)') \in Nat
          /\ Cardinality(Writers(v)') = Cardinality(Writers(v)) - 1
      BY <2>1, <3>1, FS_RemoveElement, FS_CardinalityType
    <3>3. profile'[v] = profile[v] + 1
      BY <2>3 DEF Typing, TypeOK
    <3>4. profile'[v] + Cardinality(Writers(v)') <= MaxVersion
      BY <2>1, <2>2, <3>2, <3>3
    <3> QED
      BY <2>2, <3>2, <3>3, <3>4, CacheAssumption DEF Versions
  <2>4. CASE v # u
    <3>1. Writers(v)' = Writers(v) /\ profile'[v] = profile[v]
      BY <2>4 DEF Writers, At, Busy, Typing, TypeOK
    <3> QED
      BY <2>1, <2>2, <3>1 DEF Typing, TypeOK
  <2> QED
    BY <2>3, <2>4
<1>2. profile' = [v \in Users |-> profile'[v]]
  BY DEF Typing, TypeOK
<1>3. profile' \in [Users -> Versions]
  BY <1>1, <1>2
<1> QED
  BY <1>1, <1>3 DEF Room

(* The lists of u that are given up are out of date for good.              *)
LEMMA GivenUpIsLost ==
  ASSUME NEW level \in Level, NEW u \in Users, NEW v, NEW k \in matchCacheKey, k[1] = u,
         GivenUp(level, KeysOf(u), v)[k] # NoEntry,
         ~ GivenUp(level, KeysOf(u), v)[k].lost
  PROVE  GivenUp(level, KeysOf(u), v)[k].ver = v
<1>1. k \in KeysOf(u)
  BY DEF KeysOf, matchCacheKey
<1> QED
  BY <1>1, GivenUpLevel

(* The update commits: what was fresh is old, and every key is about to go. *)
LEMMA WriteKeeps ==
  ASSUME CacheInv, NEW p \in Procs, Write(p)
  PROVE  CacheInv'
<1>1. /\ Typing /\ TypeOK /\ LevelsTyped /\ Busy(p) /\ op[p].at = "write"
      /\ op[p].todo = InvalidatedNums /\ remote' = remote
  BY TypedParts DEF CacheInv, Typing, FullDelete, Write, At
<1>2. PICK u \in Users, i \in Instances : u = op[p].user /\ i = op[p].inst
  BY <1>1, BusyOp
<1>3. PICK v \in Versions : v = profile[u]
  BY <1>1 DEF TypeOK
<1>4. /\ OpsTyped' /\ Busy(p)' /\ \A q \in Procs \ {p} : op'[q] = op[q]
      /\ op'[p].at = "delLocal" /\ op'[p].user = u /\ op'[p].inst = i
      /\ op'[p].todo = InvalidatedNums
  BY <1>1, <1>2, GotoOp DEF Write, Writing
<1>5. profile' = [profile EXCEPT ![u] = @ + 1]
  BY <1>2 DEF Write
<1>6. profile' \in [Users -> Versions] /\ Room'
  BY <1>1, <1>2, <1>4, <1>5, WriterDone DEF At
<1>7. FullDelete'
  BY <1>4 DEF FullDelete, CacheInv, At, Busy
<1>8. local' = [j \in Instances |->
                  IF j = i THEN local[j] ELSE GivenUp(local[j], KeysOf(u), v + 1)]
  BY <1>2, <1>3 DEF Write
<1>9. LevelsTyped'
  <2>1. ASSUME NEW j \in Instances
        PROVE  (IF j = i THEN local[j] ELSE GivenUp(local[j], KeysOf(u), v + 1)) \in Level
    BY <1>1, GivenUpLevel DEF LevelsTyped
  <2> QED
    BY <1>1, <1>8, <2>1 DEF LevelsTyped
<1>10. ASSUME NEW k \in matchCacheKey, k[1] = u
       PROVE  Deleting(p, k)' /\ DeletingLocally(p, k)'
  <2>1. k[2] \in DOMAIN InvalidatedNums /\ InvalidatedNums[k[2]] = k[2] /\ k = <<u, k[2]>>
    BY <1>10 DEF matchCacheKey, InvalidatedNums
  <2>2. DeletingLocally(p, k)'
    BY <1>4, <2>1 DEF DeletingLocally
  <2>3. k \in KeysLeft(p)'
    BY <1>4, <2>1 DEF KeysLeft
  <2> QED
    BY <1>4, <2>2, <2>3 DEF Deleting
<1>11. ASSUME NEW q \in Procs
       PROVE  Still(q) \/ op[q].at = "write"
  BY <1>1, <1>4 DEF Still, Deleting
<1>12. ASSUME NEW k \in matchCacheKey, k[1] # u PROVE profile'[k[1]] = profile[k[1]]
  BY <1>1, <1>5, <1>12 DEF TypeOK, matchCacheKey
<1>13. RemoteExplained'
  <2>1. ASSUME NEW k \in matchCacheKey, Stale(remote[k], k)', ~remote'[k].lost
        PROVE  \E q \in Procs : Deleting(q, k)'
    <3>1. CASE k[1] = u
      BY <1>10, <3>1
    <3>2. CASE k[1] # u
      <4>1. Stale(remote[k], k) /\ ~remote[k].lost
        BY <1>1, <1>12, <2>1, <3>2 DEF Stale
      <4>2. PICK q \in Procs : Deleting(q, k)
        BY <4>1 DEF CacheInv, RemoteExplained
      <4>3. Still(q)
        BY <1>11, <4>2 DEF Deleting
      <4> QED
        BY <4>2, <4>3, StillDeleting
    <3> QED
      BY <3>1, <3>2
  <2> QED
    BY <2>1 DEF RemoteExplained
<1>14. LocalExplained'
  <2>1. ASSUME NEW j \in Instances, NEW k \in matchCacheKey,
               Stale(local[j][k], k)', ~local'[j][k].lost
        PROVE  \E q \in Procs : DeletingLocally(q, k)' /\ op'[q].inst = j
    <3>1. CASE k[1] = u /\ j = i
      BY <1>4, <1>10, <3>1
    <3>2. CASE k[1] = u /\ j # i
      <4>1. local'[j] = GivenUp(local[j], KeysOf(u), v + 1) /\ local[j] \in Level
        BY <1>1, <1>8, <3>2 DEF LevelsTyped
      <4>2. profile'[u] = v + 1
        BY <1>1, <1>3, <1>5 DEF TypeOK
      <4> QED
        BY <2>1, <3>2, <4>1, <4>2, GivenUpIsLost DEF Stale
    <3>3. CASE k[1] # u
      <4>1. local'[j][k] = local[j][k]
        <5>1. k \notin KeysOf(u) /\ local[j] \in Level
          BY <1>1, <3>3 DEF KeysOf, LevelsTyped
        <5> QED
          BY <1>8, <5>1, GivenUpLevel
      <4>2. Stale(local[j][k], k) /\ ~local[j][k].lost
        BY <1>12, <2>1, <3>3, <4>1 DEF Stale
      <4>3. PICK q \in Procs : DeletingLocally(q, k) /\ op[q].inst = j
        BY <4>2 DEF CacheInv, LocalExplained
      <4>4. Still(q)
        BY <1>11, <4>3 DEF DeletingLocally
      <4> QED
        BY <4>3, <4>4, StillDeleting
    <3> QED
      BY <3>1, <3>2, <3>3
  <2> QED
    BY <2>1 DEF LocalExplained
<1>15. TypeOK'
  BY <1>4, <1>6, <1>9 DEF TypeOK, OpsTyped, LevelsTyped, Level
<1> QED
  BY <1>6, <1>7, <1>13, <1>14, <1>15 DEF CacheInv, Typing

LEMMA WriteErrorKeeps ==
  ASSUME CacheInv, NEW p \in Procs, WriteError(p)
  PROVE  CacheInv'
<1>1. /\ Typing /\ TypeOK /\ LevelsTyped /\ OpsTyped /\ Busy(p) /\ op[p].at = "write"
      /\ op' = [op EXCEPT ![p] = Idle]
  BY TypedParts DEF CacheInv, Typing, WriteError, At
<1>2. PICK u \in Users : u = op[p].user
  BY <1>1, BusyOp
<1>3. PICK v \in Versions : v = profile[u]
  BY <1>1 DEF TypeOK
<1>4. OpsTyped' /\ op'[p] = Idle /\ \A q \in Procs \ {p} : op'[q] = op[q]
  BY <1>1, OneOp
<1>5. \A q \in Procs : At(q, "write")' => op'[q] = op[q]
  BY <1>4 DEF At, Busy
<1>6. ASSUME NEW q \in Procs, NEW k
      PROVE  /\ Deleting(q, k) => Deleting(q, k)'
             /\ DeletingLocally(q, k) => DeletingLocally(q, k)' /\ op'[q] = op[q]
  BY <1>1, <1>4, StillDeleting DEF Still, Deleting, DeletingLocally
<1>7. FullDelete'
  BY <1>5 DEF FullDelete, CacheInv, At, Busy
<1>8. CASE UNCHANGED <<profile, local, remote>>
  <2>1. Room'
    BY <1>1, <1>5, <1>8, SameRoom DEF CacheInv
  <2>2. RemoteExplained' /\ LocalExplained'
    BY <1>6, <1>8 DEF CacheInv, RemoteExplained, LocalExplained, Stale
  <2>3. TypeOK'
    BY <1>1, <1>4, <1>8 DEF TypeOK, OpsTyped
  <2> QED
    BY <1>7, <2>1, <2>2, <2>3 DEF CacheInv, Typing
<1>9. CASE /\ profile' = [profile EXCEPT ![u] = @ + 1]
           /\ local' = [j \in Instances |-> GivenUp(local[j], KeysOf(u), v + 1)]
           /\ remote' = GivenUp(remote, KeysOf(u), v + 1)
  <2>1. profile' \in [Users -> Versions] /\ Room'
    BY <1>1, <1>2, <1>4, <1>9, WriterDone DEF At, Busy
  <2>2. ASSUME NEW level \in Level, NEW k \in matchCacheKey,
               NEW new, new = GivenUp(level, KeysOf(u), v + 1)[k],
               Stale(new, k)', ~new.lost
        PROVE  Stale(level[k], k) /\ ~level[k].lost
    <3>1. profile'[u] = v + 1
      BY <1>1, <1>3, <1>9 DEF TypeOK
    <3>2. new # NoEntry /\ new.ver # profile'[k[1]]
      BY <2>2 DEF Stale
    <3>3. k[1] # u
      BY <2>2, <3>1, <3>2, GivenUpIsLost
    <3>4. k \notin KeysOf(u) /\ profile'[k[1]] = profile[k[1]]
      BY <1>1, <1>9, <3>3 DEF KeysOf, TypeOK, matchCacheKey
    <3>5. new = level[k]
      BY <2>2, <3>4, GivenUpLevel
    <3> QED
      BY <2>2, <3>2, <3>4, <3>5 DEF Stale
  <2>3. LevelsTyped'
    <3>1. ASSUME NEW j \in Instances
          PROVE  GivenUp(local[j], KeysOf(u), v + 1) \in Level
      BY <1>1, GivenUpLevel DEF LevelsTyped
    <3> QED
      BY <1>1, <1>9, <3>1, GivenUpLevel DEF LevelsTyped
  <2>4. RemoteExplained'
    <3>1. ASSUME NEW k \in matchCacheKey, Stale(remote[k], k)', ~remote'[k].lost
          PROVE  \E q \in Procs : Deleting(q, k)'
      <4>1. Stale(remote[k], k) /\ ~remote[k].lost
        BY <1>1, <1>9, <2>2, <3>1 DEF LevelsTyped, Stale
      <4> QED
        BY <1>6, <4>1 DEF CacheInv, RemoteExplained
    <3> QED
      BY <3>1 DEF RemoteExplained
  <2>5. LocalExplained'
    <3>1. ASSUME NEW j \in Instances, NEW k \in matchCacheKey,
                 Stale(local[j][k], k)', ~local'[j][k].lost
          PROVE  \E q \in Procs : DeletingLocally(q, k)' /\ op'[q].inst = j
      <4>1. Stale(local[j][k], k) /\ ~local[j][k].lost
        BY <1>1, <1>9, <2>2, <3>1 DEF LevelsTyped, Stale
      <4> QED
        BY <1>6, <4>1 DEF CacheInv, LocalExplained
    <3> QED
      BY <3>1 DEF LocalExplained
  <2>6. TypeOK'
    BY <1>4, <2>1, <2>3 DEF TypeOK, OpsTyped, LevelsTyped, Level
  <2> QED
    BY <1>7, <2>1, <2>4, <2>5, <2>6 DEF CacheInv, Typing
<1> QED
  BY <1>2, <1>3, <1>8, <1>9 DEF WriteError

-----------------------------------------------------------------------------
(* Deleting keys.                                                          *)

(* The key in hand is the first of those left.                             *)
LEMMA KeysInHand ==
  ASSUME TypeOK, NEW p \in Procs, Busy(p), NEW k
  PROVE  /\ k \in KeysLeft(p) <=>
              \E j \in DOMAIN op[p].todo : k = <<op[p].user, op[p].todo[j]>>
         /\ KeyOf(p) \in KeysLeft(p)
         /\ k \in KeysLeft(p) => k[1] = op[p].user
         /\ \A j \in DOMAIN op[p].todo :
              k = <<op[p].user, op[p].todo[j]>> /\ k # KeyOf(p) => j # 1
<1>1. /\ op[p].todo \in Seq(Nums) /\ op[p].todo # <<>>
      /\ KeyOf(p) = <<op[p].user, op[p].todo[1]>>
  BY BusyOp
<1>2. 1 \in DOMAIN op[p].todo
  BY <1>1, EmptySeq
<1> QED
  BY <1>1, <1>2 DEF KeysLeft

(* The deletion of a key begins with its own instance's local level.       *)
LEMMA DelLocalKeeps ==
  ASSUME CacheInv, NEW p \in Procs, DelLocal(p)
  PROVE  CacheInv'
<1>1. /\ Typing /\ TypeOK /\ LevelsTyped /\ FullDelete
      /\ Busy(p) /\ op[p].at = "delLocal" /\ UNCHANGED <<profile, remote>>
  BY TypedParts DEF CacheInv, Typing, DelLocal, At
<1>2. /\ OpsTyped' /\ Busy(p)' /\ \A q \in Procs \ {p} : op'[q] = op[q]
      /\ op'[p].at = "delRedis" /\ op'[p].user = op[p].user
      /\ op'[p].inst = op[p].inst /\ op'[p].todo = op[p].todo
  BY <1>1, GotoOp DEF DelLocal, Writing
<1>3. PICK i \in Instances, key \in matchCacheKey : i = op[p].inst /\ key = KeyOf(p)
  BY <1>1, BusyOp
<1>4. PutLocal(i, key, NoEntry)
  BY <1>3 DEF DelLocal, PutLocal
<1>5. /\ local' \in [Instances -> Level] /\ local'[i][key] = NoEntry
      /\ \A j \in Instances, m \in matchCacheKey :
           j # i \/ m # key => local'[j][m] = local[j][m]
  BY <1>1, <1>4, LocalSet DEF LevelsTyped
<1>6. Room' /\ FullDelete'
  <2>1. \A q \in Procs : At(q, "write")' => op'[q] = op[q]
    BY <1>2 DEF At
  <2> QED
    BY <1>1, <2>1, SameRoom
<1>7. ASSUME NEW q \in Procs, NEW k, Deleting(q, k) PROVE Deleting(q, k)'
  BY <1>1, <1>2, <1>7 DEF Deleting, KeysLeft, Busy
<1>8. RemoteExplained'
  BY <1>1, <1>7 DEF CacheInv, RemoteExplained, Stale
<1>9. LocalExplained'
  <2>1. ASSUME NEW j \in Instances, NEW k \in matchCacheKey,
               Stale(local[j][k], k)', ~local'[j][k].lost
        PROVE  \E q \in Procs : DeletingLocally(q, k)' /\ op'[q].inst = j
    <3>1. local'[j][k] = local[j][k] /\ ~(j = i /\ k = key)
      BY <1>5, <2>1 DEF Stale
    <3>2. PICK q \in Procs : DeletingLocally(q, k) /\ op[q].inst = j
      BY <1>1, <2>1, <3>1 DEF CacheInv, LocalExplained, Stale
    <3>3. CASE q = p
      <4>1. PICK n \in DOMAIN op[p].todo : k = <<op[p].user, op[p].todo[n]>>
        BY <3>2, <3>3 DEF DeletingLocally
      <4>2. n # 1
        BY <1>1, <1>3, <3>1, <3>2, <3>3, <4>1, KeysInHand
      <4>3. DeletingLocally(p, k)'
        BY <1>2, <4>1, <4>2 DEF DeletingLocally
      <4> QED
        BY <1>2, <3>2, <3>3, <4>3
    <3>4. CASE q # p
      BY <1>2, <3>2, <3>4 DEF DeletingLocally, Busy
    <3> QED
      BY <3>3, <3>4
  <2> QED
    BY <2>1 DEF LocalExplained
<1>10. TypeOK'
  BY <1>1, <1>2, <1>5 DEF TypeOK, OpsTyped, LevelsTyped, Level
<1> QED
  BY <1>6, <1>8, <1>9, <1>10 DEF CacheInv, Typing

(* Redis has deleted the key; the deletion goes on to the next one.        *)
LEMMA DelRedisKeeps ==
  ASSUME CacheInv, NEW p \in Procs, DelRedis(p)
  PROVE  CacheInv'
<1>1. /\ Typing /\ TypeOK /\ LevelsTyped /\ OpsTyped /\ FullDelete
      /\ Busy(p) /\ op[p].at = "delRedis" /\ UNCHANGED <<profile, local>>
      /\ op' = [op EXCEPT ![p] = Rest(op[p], "delLocal")]
      /\ remote' = [remote EXCEPT ![KeyOf(p)] = NoEntry]
  BY TypedParts DEF CacheInv, Typing, DelRedis, At
<1>2. PICK s \in Seq(Nums) : s = op[p].todo /\ s # <<>>
  BY <1>1, BusyOp
<1>3. PICK o \in Op \cup {Idle} :
        /\ o = Rest(op[p], "delLocal")
        /\ o # Idle => /\ o.at = "delLocal" /\ o.user = op[p].user
                       /\ o.inst = op[p].inst /\ o.todo = Tail(s) /\ Tail(s) # <<>>
        /\ o = Idle => Len(s) = 1
  BY <1>1, <1>2, RestStep DEF Writing
<1>4. OpsTyped' /\ op'[p] = o /\ \A q \in Procs \ {p} : op'[q] = op[q]
  BY <1>1, <1>3, OneOp
<1>5. Room' /\ FullDelete'
  <2>1. \A q \in Procs : At(q, "write")' => op'[q] = op[q]
    BY <1>3, <1>4 DEF At, Busy
  <2> QED
    BY <1>1, <2>1, SameRoom
<1>6. ASSUME NEW j \in DOMAIN s, j # 1, NEW k, k = <<op[p].user, s[j]>>
      PROVE  DeletingLocally(p, k)' /\ Deleting(p, k)' /\ op'[p].inst = op[p].inst
  <2>1. Len(s) > 1 /\ j - 1 \in DOMAIN Tail(s) /\ Tail(s)[j - 1] = s[j]
    BY <1>2, <1>6, RestKeys
  <2>2. /\ op'[p] # Idle /\ op'[p].at = "delLocal" /\ op'[p].user = op[p].user
        /\ op'[p].inst = op[p].inst /\ op'[p].todo = Tail(s)
    BY <1>3, <1>4, <2>1
  <2>3. DeletingLocally(p, k)'
    BY <1>6, <2>1, <2>2 DEF DeletingLocally, Busy
  <2>4. Deleting(p, k)'
    BY <1>6, <2>1, <2>2 DEF Deleting, KeysLeft, Busy
  <2> QED
    BY <2>2, <2>3, <2>4
<1>7. RemoteExplained'
  <2>1. ASSUME NEW k \in matchCacheKey, Stale(remote[k], k)', ~remote'[k].lost
        PROVE  \E q \in Procs : Deleting(q, k)'
    <3>1. k # KeyOf(p) /\ remote'[k] = remote[k]
      BY <1>1, <2>1 DEF Stale, LevelsTyped, Level
    <3>2. PICK q \in Procs : Deleting(q, k)
      BY <1>1, <2>1, <3>1 DEF CacheInv, RemoteExplained, Stale
    <3>3. CASE q = p
      <4>1. PICK j \in DOMAIN s : k = <<op[p].user, s[j]>> /\ j # 1
        BY <1>1, <1>2, <3>1, <3>2, <3>3, KeysInHand DEF Deleting
      <4> QED
        BY <1>6, <4>1
    <3>4. CASE q # p
      BY <1>4, <3>2, <3>4 DEF Deleting, KeysLeft, Busy
    <3> QED
      BY <3>3, <3>4
  <2> QED
    BY <2>1 DEF RemoteExplained
<1>8. LocalExplained'
  <2>1. ASSUME NEW i \in Instances, NEW k \in matchCacheKey,
               Stale(local[i][k], k)', ~local'[i][k].lost
        PROVE  \E q \in Procs : DeletingLocally(q, k)' /\ op'[q].inst = i
    <3>1. PICK q \in Procs : DeletingLocally(q, k) /\ op[q].inst = i
      BY <1>1, <2>1 DEF CacheInv, LocalExplained, Stale
    <3>2. CASE q = p
      <4>1. PICK j \in DOMAIN s : k = <<op[p].user, s[j]>> /\ j # 1
        BY <1>1, <1>2, <3>1, <3>2 DEF DeletingLocally
      <4> QED
        BY <1>6, <3>1, <3>2, <4>1
    <3>3. CASE q # p
      BY <1>4, <3>1, <3>3 DEF DeletingLocally, Busy
    <3> QED
      BY <3>2, <3>3
  <2> QED
    BY <2>1 DEF LocalExplained
<1>9. TypeOK'
  <2>1. remote' \in Level
    BY <1>1 DEF LevelsTyped, Level
  <2> QED
    BY <1>1, <1>4, <2>1 DEF TypeOK, OpsTyped, LevelsTyped, Level
<1> QED
  BY <1>5, <1>7, <1>8, <1>9 DEF CacheInv, Typing

(* A level once p has given up its keys: what needs a deletion afterwards  *)
(* needed it before and was not waiting for p.                             *)
LEMMA GivenUpElsewhere ==
  ASSUME NEW level \in Level, NEW ks, NEW v, NEW k \in matchCacheKey,
         profile' = profile, k \in ks => v = profile[k[1]],
         Stale(GivenUp(level, ks, v)[k], k)', ~ GivenUp(level, ks, v)[k].lost
  PROVE  Stale(level[k], k) /\ ~level[k].lost /\ k \notin ks
BY GivenUpLevel DEF Stale

(* A deletion that fails is given up, and what stays is marked lost.       *)
LEMMA DelRedisErrorKeeps ==
  ASSUME CacheInv, NEW p \in Procs, DelRedisError(p)
  PROVE  CacheInv'
<1>1. /\ Typing /\ TypeOK /\ LevelsTyped /\ OpsTyped /\ FullDelete
      /\ Busy(p) /\ op[p].at = "delRedis" /\ profile' = profile
      /\ op' = [op EXCEPT ![p] = Idle]
  BY TypedParts DEF CacheInv, Typing, DelRedisError, At
<1> DEFINE ks == KeysLeft(p)
<1>2. PICK i \in Instances, u \in Users, v \in Versions, key \in matchCacheKey :
        /\ i = op[p].inst /\ u = op[p].user /\ v = profile[u] /\ key = KeyOf(p)
  BY <1>1, BusyOp DEF TypeOK
<1>3. PICK deleted \in {{}, {key}} :
        remote' = GivenUp([k \in matchCacheKey |->
                             IF k \in deleted THEN NoEntry ELSE remote[k]], ks, v)
  BY <1>2 DEF DelRedisError
<1>4. local' = [local EXCEPT ![i] = GivenUp(local[i], ks, v)]
  BY <1>1, <1>2 DEF DelRedisError, LevelsTyped
<1>5. OpsTyped' /\ op'[p] = Idle /\ \A q \in Procs \ {p} : op'[q] = op[q]
  BY <1>1, OneOp
<1>6. Room' /\ FullDelete'
  <2>1. \A q \in Procs : At(q, "write")' => op'[q] = op[q]
    BY <1>5 DEF At, Busy
  <2> QED
    BY <1>1, <2>1, SameRoom
<1> DEFINE after == [k \in matchCacheKey |->
                       IF k \in deleted THEN NoEntry ELSE remote[k]]
<1>7. after \in Level
  BY <1>1 DEF LevelsTyped, Level
<1>8. \A k \in matchCacheKey : after[k] = NoEntry \/ after[k] = remote[k]
  OBVIOUS
<1>9. remote' = GivenUp(after, ks, v)
  BY <1>3
<1> HIDE DEF after
<1>10. /\ local[i] \in Level /\ local'[i] = GivenUp(local[i], ks, v)
       /\ \A j \in Instances \ {i} : local'[j] = local[j]
  BY <1>1, <1>4 DEF LevelsTyped
<1>11. LevelsTyped'
  BY <1>1, <1>4, <1>7, <1>9, <1>10, GivenUpLevel DEF LevelsTyped
<1>12. ASSUME NEW k, k \in ks PROVE v = profile[k[1]]
  BY <1>1, <1>2, <1>12, KeysInHand
<1>13. ASSUME NEW q \in Procs, NEW k, q # p
       PROVE  /\ Deleting(q, k) => Deleting(q, k)'
              /\ DeletingLocally(q, k) => DeletingLocally(q, k)' /\ op'[q] = op[q]
  BY <1>5, <1>13 DEF Deleting, DeletingLocally, KeysLeft, Busy
<1>14. ASSUME NEW k, Deleting(p, k) \/ DeletingLocally(p, k) PROVE k \in ks
  BY <1>1, <1>2, <1>14, KeysInHand DEF Deleting, DeletingLocally
<1>15. RemoteExplained'
  <2>1. ASSUME NEW k \in matchCacheKey, Stale(remote[k], k)', ~remote'[k].lost
        PROVE  \E q \in Procs : Deleting(q, k)'
    <3>1. Stale(after[k], k) /\ ~after[k].lost /\ k \notin ks
      BY <1>1, <1>7, <1>9, <1>12, <2>1, GivenUpElsewhere
    <3>2. Stale(remote[k], k) /\ ~remote[k].lost
      BY <1>8, <3>1 DEF Stale
    <3>3. PICK q \in Procs : Deleting(q, k)
      BY <3>2 DEF CacheInv, RemoteExplained
    <3> QED
      BY <1>13, <1>14, <3>1, <3>3
  <2> QED
    BY <2>1 DEF RemoteExplained
<1>16. LocalExplained'
  <2>1. ASSUME NEW j \in Instances, NEW k \in matchCacheKey,
               Stale(local[j][k], k)', ~local'[j][k].lost
        PROVE  \E q \in Procs : DeletingLocally(q, k)' /\ op'[q].inst = j
    <3>1. Stale(local[j][k], k) /\ ~local[j][k].lost /\ (j = i => k \notin ks)
      <4>1. CASE j = i
        BY <1>1, <1>10, <1>12, <2>1, <4>1, GivenUpElsewhere
      <4>2. CASE j # i
        BY <1>1, <1>10, <2>1, <4>2 DEF Stale
      <4> QED
        BY <4>1, <4>2
    <3>2. PICK q \in Procs : DeletingLocally(q, k) /\ op[q].inst = j
      BY <3>1 DEF CacheInv, LocalExplained
    <3>3. q # p
      BY <1>2, <1>14, <3>1, <3>2
    <3> QED
      BY <1>13, <3>2, <3>3
  <2> QED
    BY <2>1 DEF LocalExplained
<1>17. TypeOK'
  BY <1>1, <1>5, <1>11 DEF TypeOK, OpsTyped, LevelsTyped, Level
<1> QED
  BY <1>6, <1>15, <1>16, <1>17 DEF CacheInv, Typing

(* A process that dies gives its deletion up in the same way.              *)
LEMMA CrashKeeps ==
  ASSUME CacheInv, NEW i \in Instances, Crash(i)
  PROVE  CacheInv'
<1> DEFINE dead == {p \in Procs : Busy(p) /\ op[p].inst = i}
           left == UNION {KeysLeft(p) : p \in {q \in dead : op[q].at \in {"delLocal", "delRedis"}}}
<1>1. /\ Typing /\ TypeOK /\ LevelsTyped /\ OpsTyped /\ FullDelete /\ profile' = profile
      /\ local' = [local EXCEPT ![i] = [k \in matchCacheKey |-> NoEntry]]
      /\ remote' = [k \in matchCacheKey |-> GivenUp(remote, left, profile[k[1]])[k]]
      /\ op' = [p \in Procs |-> IF p \in dead THEN Idle ELSE op[p]]
  BY TypedParts DEF CacheInv, Typing, Crash
<1>2. ASSUME NEW q \in Procs
      PROVE  /\ q \in dead => op'[q] = Idle
             /\ q \notin dead => op'[q] = op[q]
             /\ q \in dead <=> Busy(q) /\ op[q].inst = i
  BY <1>1
<1>3. ASSUME NEW q \in Procs, NEW k, Deleting(q, k), q \in dead PROVE k \in left
  BY <1>3 DEF Deleting
<1> HIDE DEF dead, left
<1>4. OpsTyped'
  <2>1. op' \in [Procs -> Op \cup {Idle}]
    BY <1>1 DEF OpsTyped
  <2> QED
    BY <1>1, <1>2, <2>1 DEF OpsTyped
<1>5. Room' /\ FullDelete'
  <2>1. \A q \in Procs : At(q, "write")' => op'[q] = op[q]
    BY <1>2 DEF At, Busy
  <2> QED
    BY <1>1, <2>1, SameRoom
<1>6. ASSUME NEW q \in Procs, q \notin dead, NEW k
      PROVE  /\ Deleting(q, k) => Deleting(q, k)'
             /\ DeletingLocally(q, k) => DeletingLocally(q, k)' /\ op'[q] = op[q]
  BY <1>2, <1>6 DEF Deleting, DeletingLocally, KeysLeft, Busy
<1>7. LevelsTyped'
  <2>1. [k \in matchCacheKey |-> NoEntry] \in Level
    BY DEF Level
  <2>2. ASSUME NEW k \in matchCacheKey
        PROVE  GivenUp(remote, left, profile[k[1]])[k] \in Entry \cup {NoEntry}
    BY <1>1, GivenUpLevel DEF LevelsTyped, Level
  <2>3. remote' \in Level
    BY <1>1, <2>2 DEF Level
  <2> QED
    BY <1>1, <2>1, <2>3 DEF LevelsTyped
<1>8. RemoteExplained'
  <2>1. ASSUME NEW k \in matchCacheKey, Stale(remote[k], k)', ~remote'[k].lost
        PROVE  \E q \in Procs : Deleting(q, k)'
    <3>1. remote'[k] = GivenUp(remote, left, profile[k[1]])[k]
      BY <1>1
    <3>2. Stale(remote[k], k) /\ ~remote[k].lost /\ k \notin left
      BY <1>1, <2>1, <3>1, GivenUpElsewhere DEF LevelsTyped, Stale
    <3>3. PICK q \in Procs : Deleting(q, k)
      BY <3>2 DEF CacheInv, RemoteExplained
    <3> QED
      BY <1>3, <1>6, <3>2, <3>3
  <2> QED
    BY <2>1 DEF RemoteExplained
<1>9. LocalExplained'
  <2>1. ASSUME NEW j \in Instances, NEW k \in matchCacheKey,
               Stale(local[j][k], k)', ~local'[j][k].lost
        PROVE  \E q \in Procs : DeletingLocally(q, k)' /\ op'[q].inst = j
    <3>1. j # i /\ local'[j][k] = local[j][k]
      BY <1>1, <2>1 DEF Stale, LevelsTyped
    <3>2. PICK q \in Procs : DeletingLocally(q, k) /\ op[q].inst = j
      BY <1>1, <2>1, <3>1 DEF CacheInv, LocalExplained, Stale
    <3>3. q \notin dead
      BY <1>2, <3>1, <3>2
    <3> QED
      BY <1>6, <3>2, <3>3
  <2> QED
    BY <2>1 DEF LocalExplained
<1>10. TypeOK'
  BY <1>1, <1>4, <1>7 DEF TypeOK, OpsTyped, LevelsTyped, Level
<1> QED
  BY <1>5, <1>8, <1>9, <1>10 DEF CacheInv, Typing

-----------------------------------------------------------------------------
(* The theorems.                                                           *)

LEMMA CacheInit == Init => CacheInv
<1> SUFFICES ASSUME Init PROVE CacheInv
  OBVIOUS
<1>1. profile \in [Users -> Versions]
  BY CacheAssumption DEF Init, Versions
<1>2. LevelsTyped /\ OpsTyped
  BY DEF Init, LevelsTyped, OpsTyped, Level
<1>3. ASSUME NEW u \in Users PROVE Writers(u) = {} /\ profile[u] = 0
  BY DEF Init, Writers, At, Busy
<1>4. Room
  <2>1. ASSUME NEW u \in Users
        PROVE  IsFiniteSet(Writers(u)) /\ Cardinality(Writers(u)) = 0
    BY <1>3, FS_EmptySet
  <2> QED
    BY <1>3, <2>1, CacheAssumption DEF Room
<1>5. FullDelete
  BY DEF Init, FullDelete, At, Busy
<1>6. RemoteExplained /\ LocalExplained
  BY DEF Init, RemoteExplained, LocalExplained, Stale
<1> QED
  BY <1>1, <1>2, <1>4, <1>5, <1>6, TypedParts DEF CacheInv, Typing

(* One step per action.                                                    *)
LEMMA CacheKeeps ==
  ASSUME CacheInv, [Next]_vars
  PROVE  CacheInv'
<1>1. ASSUME NEW p \in Procs, NEW u \in Users, NEW i \in Instances, NEW n \in Nums,
             StartMatch(p, u, i, n)
      PROVE  CacheInv'
  <2>1. <<n>> \in Seq(Nums) /\ <<n>> # <<>>
    OBVIOUS
  <2> QED
    BY <1>1, <2>1, LookupBegins DEF StartMatch
<1>2. ASSUME NEW p \in Procs, NEW u \in Users, NEW i \in Instances, StartWarmUp(p, u, i)
      PROVE  CacheInv'
  <2>1. warmUpNums \in Seq(Nums) /\ warmUpNums # <<>>
    BY CacheAssumption DEF Nums
  <2> QED
    BY <1>2, <2>1, LookupBegins DEF StartWarmUp
<1>3. ASSUME NEW p \in Procs, NEW u \in Users, NEW i \in Instances, StartUpdate(p, u, i)
      PROVE  CacheInv'
  BY <1>3, UpdateBegins
<1>4. ASSUME NEW p \in Procs, Step(p) PROVE CacheInv'
  BY <1>4, LookupKeeps, RedisGetKeeps, FillKeeps, ComputeKeeps, SetRedisKeeps,
     CancelledKeeps, WriteKeeps, WriteErrorKeeps, DelLocalKeeps, DelRedisKeeps,
     DelRedisErrorKeeps
     DEF Step
<1>5. ASSUME NEW i \in Instances, Crash(i) \/ \E k \in matchCacheKey : Evict(i, k)
      PROVE  CacheInv'
  BY <1>5, CrashKeeps, EvictKeeps
<1>6. CASE Tick
  BY <1>6, TickKeeps
<1>7. CASE UNCHANGED vars
  <2>1. LevelsTyped /\ OpsTyped /\ UNCHANGED <<profile, local, remote, op>>
    BY <1>7, TypedParts DEF CacheInv, Typing, vars
  <2>2. OpsTyped' /\ \A q \in Procs : Still(q) /\ (At(q, "write")' => op'[q] = op[q])
    BY <2>1 DEF OpsTyped, Still
  <2> QED
    BY <2>1, <2>2, SameLevels, HarmlessStep
<1> QED
  BY <1>1, <1>2, <1>3, <1>4, <1>5, <1>6, <1>7 DEF Next

(* The variables have their types; no profile gets a version beyond        *)
(* MaxVersion, whatever updates overlap.                                   *)
THEOREM CacheTyping == Spec => []TypeOK
<1>1. CacheInv => TypeOK
  BY DEF CacheInv, Typing
<1> QED
  BY <1>1, CacheInit, CacheKeeps, PTL DEF Spec

(* What was right when it was cached and is out of date now is about to be *)
(* deleted, in Redis and in the local level of the instance that serves    *)
(* the update (Service.Update, invalidateMatchCache, RedisCache.Delete).   *)
THEOREM CacheExplained == Spec => []StaleExplained
<1>1. ASSUME CacheInv PROVE StaleExplained
  <2>1. ASSUME NEW q \in Procs, NEW k, DeletingLocally(q, k) PROVE Deleting(q, k)
    BY <2>1 DEF Deleting, DeletingLocally, KeysLeft
  <2> QED
    BY <1>1, <2>1 DEF CacheInv, RemoteExplained, LocalExplained, StaleExplained
<1> QED
  BY <1>1, CacheInit, CacheKeeps, PTL DEF Spec
=============================================================================
