------------------------------ MODULE Matching ------------------------------
(***************************************************************************)
(* What a recommendation is made of (internal/module/user/match.go,        *)
(* distance.go, topk.go) while other requests write the table of users:    *)
(* active candidates are loaded batch by batch along a cursor, a heap      *)
(* keeps the nearest of them, and their rows are read again.               *)
(* The cache in front of all this is MatchCache's.                         *)
(***************************************************************************)
EXTENDS Accounts, FiniteSetsExt, SequencesExt

CONSTANTS
  Matchers,           \* the requests that may match or warm up: these do
                      \* not see one another
  warmBatchSize,      \* rows per batch
  matchActiveWindow,  \* ticks a user counts as active after an update
  Nums                \* the lengths that clients ask for

ASSUME MatchAssumption ==
  /\ Matchers \subseteq Procs
  /\ warmBatchSize \in Nat \ {0} /\ matchActiveWindow \in Nat
  /\ Nums \subseteq Nat \ {0}

VARIABLES
  job,      \* job[p]: the local variables of match, loadActiveCandidates, rankMatches
  through,  \* through[p]: users that qualified at every moment of p's scan (history)
  ever      \* ever[p]: users that qualified at some moment of it (history)

vars == <<accountVars, job, through, ever>>

Candidates == [id : 1 .. MaxUsers, tags : Texts]
Scored == [id : 1 .. MaxUsers, distance : Nat]

NoJob == [login |-> 0, tags |-> <<>>, num |-> 0, since |-> 0, afterID |-> 0,
          all |-> <<>>, next |-> 1, heap |-> {}, ids |-> <<>>]

MatchStages == {"scan", "rank", "reread", "answered"}

TypeOK ==
  /\ AccountTypeOK
  /\ pc \in [Procs -> AccountStages \cup MatchStages]
  /\ \A p \in Procs :
       LET j == job[p]
       IN /\ j.login \in 0 .. MaxUsers /\ j.tags \in TagLists \cup {<<>>}
          /\ j.num \in Nums \cup {0} /\ j.since \in 0 .. MaxTime
          /\ j.afterID \in 0 .. MaxUsers
          /\ j.all \in Seq(Candidates) /\ j.next \in 1 .. Len(j.all) + 1
          /\ j.heap \subseteq Scored /\ Cardinality(j.heap) <= j.num
          /\ j.ids \in Seq(1 .. MaxUsers)
  /\ through \in [Procs -> SUBSET (1 .. MaxUsers)]
  /\ ever \in [Procs -> SUBSET (1 .. MaxUsers)]

Init ==
  /\ AccountInit
  /\ job = [p \in Procs |-> NoJob]
  /\ through = [p \in Procs |-> {}]
  /\ ever = [p \in Procs |-> {}]

-----------------------------------------------------------------------------
(* Mutant: a replacement costs as much as a removal and an addition.       *)
CellNoReplace(d, tags1, tags2, i, j) ==
  IF i = 0 \/ j = 0 THEN i + j
  ELSE LET left == d[<<i - 1, j>>] + 1
           down == d[<<i, j - 1>>] + 1
           leftDown == d[<<i - 1, j - 1>>] + IF tags1[i] = tags2[j] THEN 0 ELSE 2
       IN Min({left, down, leftDown})

(* One cell of the table, from three that are filled before it.            *)
Cell(d, tags1, tags2, i, j) ==
  IF i = 0 \/ j = 0 THEN i + j
  ELSE LET left == d[<<i - 1, j>>] + 1
           down == d[<<i, j - 1>>] + 1
           leftDown == d[<<i - 1, j - 1>>] + IF tags1[i] = tags2[j] THEN 0 ELSE 1
       IN Min({left, down, leftDown})

(* minDistance: the table d of edit distances between prefixes.            *)
minDistance(tags1, tags2) ==
  LET n == Len(tags1)
      m == Len(tags2)
      d[ij \in (0 .. n) \X (0 .. m)] == Cell(d, tags1, tags2, ij[1], ij[2])
  IN d[<<n, m>>]

(* The conditions of ListActiveMatchCandidates, but for the cursor.  All   *)
(* users have the status 0 they were created with.                         *)
Qualifies(i, since) ==
  ~ users[i].deleted /\ users[i].updated >= since /\ users[i].tags # NoTags

Qualified(since) == {i \in DOMAIN users : Qualifies(i, since)}

(* These ids in ascending order: before the n-th there are n - 1.          *)
Ascending(ids) ==
  [n \in 1 .. Cardinality(ids) |->
     CHOOSE i \in ids : Cardinality({k \in ids : k < i}) = n - 1]

(* The rows with these ids in the order of the query, up to its limit.     *)
Rows(ids, limit) ==
  [n \in 1 .. Min({Cardinality(ids), limit}) |->
     LET i == Ascending(ids)[n] IN [id |-> i, tags |-> users[i].tags]]

(* Mutant: pages by offset.                                                *)
BatchByOffset(j) ==
  LET rows == Rows(Qualified(j.since), Len(j.all) + warmBatchSize)
  IN SubSeq(rows, Len(j.all) + 1, Len(rows))

(* ListActiveMatchCandidates after the cursor.                             *)
Batch(j) == Rows({i \in Qualified(j.since) : i > j.afterID}, warmBatchSize)

-----------------------------------------------------------------------------
Since == IF now > matchActiveWindow THEN now - matchActiveWindow ELSE 0

(* MatchUsers for a user with tags, as the handler has read it; or the     *)
(* warm-up, which takes its user from the candidates.                      *)
StartMatch(p) ==
  /\ pc[p] = "idle"
  /\ \E n \in Nums :
       \/ \E i \in DOMAIN users :
            /\ ParseTags(users[i].tags) # <<>>
            /\ job' = [job EXCEPT ![p] = [NoJob EXCEPT
                         !.login = i, !.tags = users[i].tags, !.num = n, !.since = Since]]
       \/ job' = [job EXCEPT ![p] = [NoJob EXCEPT !.num = n, !.since = Since]]
  /\ pc' = [pc EXCEPT ![p] = "scan"]
  /\ UNCHANGED <<users, now, writes, form>>

(* One round of loadActiveCandidates; a short batch is the last.           *)
NextBatch(p) ==
  /\ pc[p] = "scan"
  /\ LET batch == Batch(job[p])
     IN /\ job' = [job EXCEPT ![p].all = @ \o batch,
                              ![p].afterID = IF batch = <<>> THEN @ ELSE Last(batch).id]
        /\ pc' = IF Len(batch) < warmBatchSize THEN [pc EXCEPT ![p] = "rank"] ELSE pc
  /\ UNCHANGED <<users, now, writes, form>>

(* A candidate of its own is whom the warm-up ranks for.                   *)
PickUser(p) ==
  /\ pc[p] = "rank" /\ job[p].login = 0
  /\ \E c \in ToSet(job[p].all) :
       /\ ParseTags(c.tags) # <<>>
       /\ job' = [job EXCEPT ![p].login = c.id, ![p].tags = c.tags]
  /\ UNCHANGED <<users, now, writes, pc, form>>

Rankable(j, c) == c.id # j.login /\ ParseTags(c.tags) # <<>>

(* Mutant: the heap grows to one more than asked for.                      *)
KeptOneMore(heap, s, num) ==
  IF Cardinality(heap) <= num THEN {heap \cup {s}}
  ELSE LET far == {h \in heap : \A g \in heap : g.distance <= h.distance}
       IN IF \A h \in far : s.distance < h.distance
          THEN {(heap \ {h}) \cup {s} : h \in far} ELSE {heap}

(* What one round of topKNearest may leave in the heap: which of several   *)
(* farthest elements is at its top is the heap's affair.                   *)
Kept(heap, s, num) ==
  IF Cardinality(heap) < num THEN {heap \cup {s}}
  ELSE LET far == {h \in heap : \A g \in heap : g.distance <= h.distance}
       IN IF \A h \in far : s.distance < h.distance
          THEN {(heap \ {h}) \cup {s} : h \in far} ELSE {heap}

(* One candidate is scored and offered to the heap.                        *)
Rank(p) ==
  /\ pc[p] = "rank" /\ job[p].login # 0 /\ job[p].next <= Len(job[p].all)
  /\ LET j == job[p]
         c == j.all[j.next]
         s == [id |-> c.id, distance |-> minDistance(j.tags, ParseTags(c.tags))]
     IN \E h \in IF Rankable(j, c) THEN Kept(j.heap, s, j.num) ELSE {j.heap} :
          job' = [job EXCEPT ![p].heap = h, ![p].next = @ + 1]
  /\ UNCHANGED <<users, now, writes, pc, form>>

(* The ids are popped farthest first into a list filled from its end.      *)
PopAll(p) ==
  /\ pc[p] = "rank" /\ job[p].login # 0 /\ job[p].next > Len(job[p].all)
  /\ \E s \in SetToSeqs(job[p].heap) :
       /\ \A m, n \in DOMAIN s : m < n => s[m].distance <= s[n].distance
       /\ job' = [job EXCEPT ![p].ids = [n \in DOMAIN s |-> s[n].id]]
  /\ pc' = [pc EXCEPT ![p] = IF job[p].heap = {} THEN "answered" ELSE "reread"]
  /\ UNCHANGED <<users, now, writes, form>>

(* ListByIDs returns the rows as they are now, the deleted ones too; they  *)
(* are put back into the order of the ids.                                 *)
Reread(p) ==
  /\ pc[p] = "reread"
  /\ LET ids == job[p].ids
         found == {n \in DOMAIN ids : ids[n] \in DOMAIN users}
     IN job' = [job EXCEPT ![p].ids =
                  [n \in 1 .. Cardinality(found) |-> ids[Ascending(found)[n]]]]
  /\ pc' = [pc EXCEPT ![p] = "answered"]
  /\ UNCHANGED <<users, now, writes, form>>

(* The call returns: with its list, or with the error of a statement, or   *)
(* because there is nobody to warm up.                                     *)
EndMatch(p) ==
  /\ pc[p] \in MatchStages
  /\ pc' = [pc EXCEPT ![p] = "idle"]
  /\ job' = [job EXCEPT ![p] = NoJob]
  /\ UNCHANGED <<users, now, writes, form>>

MatchStep(p) ==
  \/ StartMatch(p) \/ NextBatch(p) \/ PickUser(p) \/ Rank(p) \/ PopAll(p)
  \/ Reread(p) \/ EndMatch(p)

(* The histories follow every step that leaves p in its scan.              *)
Track ==
  LET Q(p) == {i \in DOMAIN users' : Qualifies(i, job[p].since)'}
  IN /\ through' = [p \in Procs |->
           CASE pc'[p] = "scan" /\ pc[p] = "idle" -> Q(p)
             [] pc'[p] = "scan" /\ pc[p] = "scan" -> through[p] \cap Q(p)
             [] pc'[p] = "rank" -> through[p]
             [] OTHER -> {}]
     /\ ever' = [p \in Procs |->
           CASE pc'[p] = "scan" -> ever[p] \cup Q(p)
             [] pc'[p] = "rank" -> ever[p]
             [] OTHER -> {}]

Step ==
  \/ \E p \in Procs : AccountStep(p) /\ UNCHANGED job
  \/ \E i \in DOMAIN users : SoftDelete(i) /\ UNCHANGED job
  \/ Tick /\ UNCHANGED job
  \/ \E p \in Matchers : MatchStep(p)

Next == Step /\ Track

Spec == Init /\ [][Next]_vars

-----------------------------------------------------------------------------
(* What a finished scan has loaded is what it should be although rows      *)
(* changed, came and went between its batches: every user that qualified   *)
(* all the time, none that never did, each once (match.go:72-90).          *)
ScanExact ==
  \A p \in Procs :
    pc[p] = "rank" =>
      LET all == job[p].all
          loaded == {all[n].id : n \in DOMAIN all}
      IN /\ through[p] \subseteq loaded /\ loaded \subseteq ever[p]
         /\ \A m, n \in DOMAIN all : m < n => all[m].id < all[n].id

(* Edit distance without the table: pairs of places are matched in order,  *)
(* a pair of different tags costs one, an unmatched place costs one.       *)
InOrder(M) == \A x, y \in M : x # y => (x[1] < y[1] /\ x[2] < y[2])
                                       \/ (y[1] < x[1] /\ y[2] < x[2])
EditDistance(s, t) ==
  Min({Len(s) + Len(t) - 2 * Cardinality(M)
         + Cardinality({x \in M : s[x[1]] # t[x[2]]}) :
       M \in {N \in SUBSET ((DOMAIN s) \X (DOMAIN t)) : InOrder(N)}})

(* An answer holds the nearest of the loaded candidates, nearest first,    *)
(* each once and never the user itself; fewer than asked for only if there *)
(* are no more (distance.go:4, topk.go:29, match.go:95-141).               *)
NearestOffered ==
  \A p \in Procs :
    pc[p] = "answered" =>
      LET j == job[p]
          ranked == {c \in ToSet(j.all) : Rankable(j, c)}
          dist == [i \in {c.id : c \in ranked} |->
                     EditDistance(j.tags, (CHOOSE c \in ranked : c.id = i).tags)]
          offered == ToSet(j.ids)
      IN /\ offered \subseteq DOMAIN dist
         /\ IsInjective(j.ids)
         /\ Len(j.ids) = Min({j.num, Cardinality(ranked)})
         /\ \A m, n \in DOMAIN j.ids : m < n => dist[j.ids[m]] <= dist[j.ids[n]]
         /\ \A i \in offered, k \in DOMAIN dist \ offered : dist[i] <= dist[k]
=============================================================================
