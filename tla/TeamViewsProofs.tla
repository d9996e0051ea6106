-------------------------- MODULE TeamViewsProofs --------------------------
(***************************************************************************)
(* Theorems about TeamViews for any users, teams, page sizes and filters:  *)
(* its typing, that private teams stay hidden, and that the pages of a     *)
(* walk cover the list.                                                    *)
(***************************************************************************)
EXTENDS TeamViews, FiniteSetTheorems, SequenceTheorems, WellFoundedInduction,
        TLAPS

-----------------------------------------------------------------------------
(* Sets in the order of their numbers.                                     *)

(* Of finitely many rows one is the earliest: the sets of rows before each *)
(* of them are finite, and one of these sets is minimal.                   *)
LEMMA EarliestExists ==
  ASSUME NEW rows, rows # {}, rows \subseteq Membership
  PROVE  Earliest(rows) \in rows
<1> DEFINE Before(m) == 0 .. m.id
           sets == {Before(m) : m \in rows}
<1>1. \A m \in rows : m.id \in Nat
  BY DEF Membership
<1>2. sets \subseteq FiniteSubsetsOf(Nat)
  <2>1. ASSUME NEW m \in rows PROVE Before(m) \in SUBSET Nat /\ IsFiniteSet(Before(m))
    <3>1. 0 \in Int /\ m.id \in Int
      BY <1>1
    <3> QED
      BY <1>1, <3>1, FS_Interval
  <2> HIDE DEF Before
  <2> QED
    BY <2>1 DEF FiniteSubsetsOf
<1>3. PICK s \in sets : \A r \in sets : ~ (<<r, s>> \in StrictSubsetOrdering(Nat))
  <2>1. sets # {}
    OBVIOUS
  <2> HIDE DEF sets
  <2> QED
    BY <1>2, <2>1, FS_StrictSubsetOrderingWellFounded, WFMin
<1>4. PICK m \in rows : s = Before(m)
  OBVIOUS
<1>5. ASSUME NEW o \in rows PROVE m.id <= o.id
  <2> SUFFICES ASSUME o.id < m.id PROVE FALSE
    BY <1>1
  <2>1. Before(o) \subseteq Before(m) /\ Before(o) # Before(m)
    <3>1. m.id \in Before(m) /\ m.id \notin Before(o)
      BY <1>1
    <3> QED
      BY <1>1, <3>1
  <2>2. Before(o) \in sets /\ Before(o) \in SUBSET Nat /\ Before(m) \in SUBSET Nat
    BY <1>1
  <2> HIDE DEF Before, sets
  <2> QED
    BY <1>3, <1>4, <2>1, <2>2 DEF StrictSubsetOrdering
<1> QED
  BY <1>5 DEF Earliest

(* How many of the teams in S are later than t.                            *)
Later(S, t) == Cardinality({k \in S : k > t})

LEMMA LaterCounts ==
  ASSUME NEW S, S \subseteq Nat, IsFiniteSet(S)
  PROVE  /\ Cardinality(S) \in Nat
         /\ \A t \in S : Later(S, t) \in 0 .. Cardinality(S) - 1
         /\ \A t, k \in S : t < k => Later(S, k) < Later(S, t)
<1>1. Cardinality(S) \in Nat
  BY FS_CardinalityType
<1>2. ASSUME NEW t \in S
      PROVE  IsFiniteSet({k \in S : k > t}) /\ Later(S, t) \in 0 .. Cardinality(S) - 1
  <2> DEFINE after == {k \in S : k > t}
  <2>1. after \in SUBSET (S \ {t}) /\ after \in SUBSET S
    OBVIOUS
  <2>2. IsFiniteSet(S \ {t}) /\ Cardinality(S \ {t}) = Cardinality(S) - 1
    BY FS_RemoveElement
  <2>3. IsFiniteSet(after) /\ Cardinality(after) <= Cardinality(S \ {t})
    BY <2>1, <2>2, FS_Subset
  <2> QED
    BY <1>1, <2>2, <2>3, FS_CardinalityType DEF Later
<1>3. ASSUME NEW t \in S, NEW k \in S, t < k PROVE Later(S, k) < Later(S, t)
  <2> DEFINE afterT == {i \in S : i > t}
             afterK == {i \in S : i > k}
  <2>1. t \in Nat /\ k \in Nat /\ ~ (k > k) /\ k > t /\ \A i \in S : i > k => i > t
    BY <1>3
  <2>2. afterK \cup {k} \in SUBSET afterT /\ k \notin afterK
    BY <1>3, <2>1
  <2>3. IsFiniteSet(afterT) /\ IsFiniteSet(afterK)
    BY <1>2
  <2>4. Cardinality(afterK \cup {k}) = Cardinality(afterK) + 1
    BY <2>2, <2>3, FS_AddElement
  <2>5. Cardinality(afterK \cup {k}) <= Cardinality(afterT)
    BY <2>2, <2>3, FS_Subset
  <2>6. Cardinality(afterK) \in Nat /\ Cardinality(afterT) \in Nat
    BY <2>3, FS_CardinalityType
  <2> QED
    BY <2>4, <2>5, <2>6 DEF Later
<1> QED
  BY <1>1, <1>2, <1>3

(* Rows(S) holds each team of S once, the n-th behind n - 1 later ones: no *)
(* two teams have as many later ones, so each number below the size of S   *)
(* is taken.                                                               *)
TeamAndRow == {r \in [id : Teams, row : TeamRow] : r.row.leader \in Users}

LEMMA RowsInOrder ==
  ASSUME NEW S, S \subseteq Nat, S \subseteq Teams, IsFiniteSet(S),
         teams \in [Teams -> TeamRow], \A t \in S : teams[t].leader \in Users
  PROVE  LET r == Rows(S)
         IN /\ Cardinality(S) \in Nat
            /\ r \in Seq(TeamAndRow) /\ Len(r) = Cardinality(S)
            /\ \A n \in 1 .. Len(r) : r[n].id \in S
            /\ \A t \in S : Later(S, t) + 1 \in 1 .. Len(r) /\ r[Later(S, t) + 1].id = t
<1> DEFINE c == Cardinality(S)
           place == [t \in S |-> Later(S, t) + 1]
           r == Rows(S)
<1>1. /\ c \in Nat
      /\ \A t \in S : Later(S, t) \in 0 .. c - 1
      /\ \A t, k \in S : t < k => Later(S, k) < Later(S, t)
  BY LaterCounts
<1>2. /\ place \in [S -> 1 .. c] /\ \A t \in S : place[t] = Later(S, t) + 1
      /\ \A t, k \in S : t < k => place[k] < place[t]
  BY <1>1
<1> HIDE DEF place, c
<1>3. place \in Injection(S, 1 .. c)
  <2>1. ASSUME NEW t \in S, NEW k \in S, place[t] = place[k] PROVE t = k
    <3>1. t \in Nat /\ k \in Nat /\ place[t] \in Nat /\ place[k] \in Nat
      BY <1>1, <1>2
    <3>2. ~ (t < k) /\ ~ (k < t)
      BY <1>2, <2>1, <3>1
    <3> QED
      BY <3>1, <3>2
  <2> QED
    BY <1>2, <2>1 DEF Injection, IsInjective
<1>4. place \in Surjection(S, 1 .. c)
  BY <1>1, <1>3, FS_Injection, FS_Interval DEF c
<1>5. ASSUME NEW n \in 1 .. c
      PROVE  \E t \in S : Later(S, t) = n - 1
  <2>1. PICK t \in S : place[t] = n
    BY <1>4 DEF Surjection
  <2>2. Later(S, t) \in Nat
    BY <1>1
  <2> QED
    BY <1>2, <2>1, <2>2
<1> DEFINE nth(n) == CHOOSE t \in S : Later(S, t) = n - 1
<1>6. \A n \in 1 .. c : nth(n) \in S /\ Later(S, nth(n)) = n - 1
  BY <1>5
<1>7. r = [n \in 1 .. c |-> [id |-> nth(n), row |-> teams[nth(n)]]]
  BY DEF Rows, Later, c
<1> HIDE DEF nth, r
<1>8. \A n \in 1 .. c : r[n] \in TeamAndRow /\ r[n].id = nth(n)
  BY <1>6, <1>7 DEF TeamAndRow
<1>9. r \in Seq(TeamAndRow) /\ Len(r) = c
  BY <1>1, <1>7, <1>8
<1>10. ASSUME NEW t \in S
       PROVE  Later(S, t) + 1 \in 1 .. c /\ r[Later(S, t) + 1].id = t
  <2>1. PICK n \in 1 .. c : n = Later(S, t) + 1
    BY <1>1
  <2>2. PICK k \in S : k = nth(n) /\ Later(S, k) = n - 1
    BY <1>6
  <2>3. t \in Nat /\ k \in Nat /\ Later(S, t) = Later(S, k) /\ Later(S, t) \in Nat
    BY <1>1, <2>1, <2>2
  <2>4. ~ (t < k) /\ ~ (k < t)
    BY <1>1, <2>3
  <2> QED
    BY <1>8, <2>1, <2>2, <2>3, <2>4
<1> QED
  BY <1>1, <1>6, <1>8, <1>9, <1>10 DEF c, r
-----------------------------------------------------------------------------
(* What the others leave in the tables.                                    *)

Known == {t \in Teams : teams[t].state # "none"}

DataInv ==
  /\ DataTypeOK /\ IsFiniteSet(members) /\ IsFiniteSet(Known)
  /\ \A t \in Known : teams[t].leader \in Users

(* A step that writes the row of one team and inserts or deletes rows.     *)
LEMMA OneRow ==
  ASSUME DataInv, NEW t \in Teams, NEW row \in TeamRow,
         teams' = [teams EXCEPT ![t] = row], row.leader \in Users,
         members' \subseteq Membership, IsFiniteSet(members'), rowSeq' \in Nat
  PROVE  DataInv'
<1>1. /\ teams' \in [Teams -> TeamRow] /\ teams'[t] = row
      /\ \A s \in Teams \ {t} : teams'[s] = teams[s]
  BY DEF DataInv, DataTypeOK
<1>2. Known' \in SUBSET (Known \cup {t})
  BY <1>1 DEF Known
<1>3. IsFiniteSet(Known \cup {t})
  BY FS_AddElement DEF DataInv
<1>4. IsFiniteSet(Known')
  BY <1>2, <1>3, FS_Subset
<1>5. \A s \in Known' : teams'[s].leader \in Users
  BY <1>1 DEF DataInv, Known
<1> QED
  BY <1>1, <1>4, <1>5 DEF DataInv, DataTypeOK

LEMMA InsertedRows ==
  ASSUME DataInv, NEW u \in Users, NEW t \in Teams
  PROVE  /\ Inserted(u, t) \subseteq Membership /\ IsFiniteSet(Inserted(u, t))
         /\ rowSeq + 1 \in Nat
<1> DEFINE m == [id |-> rowSeq + 1, user |-> u, team |-> t]
<1>1. rowSeq + 1 \in Nat /\ m \in Membership
  BY DEF DataInv, DataTypeOK, Membership
<1>2. IsFiniteSet(members \cup {m})
  BY FS_AddElement DEF DataInv
<1> QED
  BY <1>1, <1>2 DEF DataInv, DataTypeOK, Inserted

LEMMA RowChanged ==
  ASSUME NEW row \in TeamRow, NEW u \in Users
  PROVE  /\ [row EXCEPT !.leader = u] \in TeamRow
         /\ [row EXCEPT !.leader = u].leader = u
         /\ [row EXCEPT !.state = "deleted"] \in TeamRow
         /\ [row EXCEPT !.state = "deleted"].leader = row.leader
BY DEF TeamRow

LEMMA RosterKeeps ==
  ASSUME DataInv, Roster
  PROVE  DataInv'
<1>1. ASSUME NEW t \in Teams, NEW u \in Users, Create(u, t) PROVE DataInv'
  <2>1. PICK row \in TeamRow : row = teams'[t] /\ row.leader = u
    BY <1>1 DEF Create
  <2>2. /\ teams' = [teams EXCEPT ![t] = row]
        /\ members' = Inserted(u, t) /\ rowSeq' = rowSeq + 1
    BY <1>1, <2>1 DEF Create
  <2> QED
    BY <2>1, <2>2, InsertedRows, OneRow
<1>2. ASSUME NEW t \in Teams, NEW u \in Users, Enter(u, t) PROVE DataInv'
  <2>1. members' = Inserted(u, t) /\ rowSeq' = rowSeq + 1 /\ teams' = teams
    BY <1>2 DEF Enter
  <2> QED
    BY <2>1, InsertedRows DEF DataInv, DataTypeOK, Known
<1>3. ASSUME NEW t \in Teams, NEW u \in Users, Leave(u, t) PROVE DataInv'
  <2>1. members' \in SUBSET members /\ teams' = teams /\ rowSeq' = rowSeq
    BY <1>3 DEF Leave
  <2> QED
    BY <2>1, FS_Subset DEF DataInv, DataTypeOK, Known
<1>4. ASSUME NEW t \in Teams, NEW u \in Users, HandOver(u, t) PROVE DataInv'
  <2> DEFINE rest == RowsOf(t) \ RowsIn(u, t)
  <2>1. rest # {} /\ rest \subseteq Membership
    BY <1>4 DEF HandOver, DataInv, DataTypeOK, RowsOf, RowsIn
  <2>2. PICK s \in Users : s = Successor(u, t)
    <3>1. Earliest(rest) \in rest
      BY <2>1, EarliestExists
    <3> QED
      BY <2>1, <3>1 DEF Successor, Membership
  <2>3. teams[t] \in TeamRow
    BY DEF DataInv, DataTypeOK
  <2>4. PICK row \in TeamRow : row = [teams[t] EXCEPT !.leader = s] /\ row.leader = s
    BY <2>3, RowChanged
  <2>5. /\ teams' = [teams EXCEPT ![t] = row]
        /\ members' \in SUBSET members /\ rowSeq' = rowSeq
    BY <1>4, <2>2, <2>4 DEF HandOver
  <2>6. members' \subseteq Membership /\ IsFiniteSet(members') /\ rowSeq' \in Nat
    BY <2>5, FS_Subset DEF DataInv, DataTypeOK
  <2> QED
    BY <2>4, <2>5, <2>6, OneRow
<1>5. ASSUME NEW t \in Teams, NEW u \in Users, Disband(u, t) PROVE DataInv'
  <2>1. teams[t] \in TeamRow /\ teams[t].leader \in Users
    BY <1>5 DEF DataInv, DataTypeOK, Disband, Active, Known
  <2>2. PICK row \in TeamRow : /\ row = [teams[t] EXCEPT !.state = "deleted"]
                               /\ row.leader = teams[t].leader
    BY <2>1, RowChanged
  <2>3. /\ teams' = [teams EXCEPT ![t] = row]
        /\ members' \in SUBSET members /\ rowSeq' = rowSeq
    BY <1>5, <2>2 DEF Disband
  <2> QED
    BY <2>1, <2>2, <2>3, OneRow, FS_Subset DEF DataInv, DataTypeOK
<1>6. ASSUME NEW t \in Teams, Edit(t) PROVE DataInv'
  <2>1. PICK row \in TeamRow : row = teams'[t] /\ row.leader \in Users
    BY <1>6 DEF Edit
  <2>2. teams' = [teams EXCEPT ![t] = row] /\ members' = members /\ rowSeq' = rowSeq
    BY <1>6, <2>1 DEF Edit
  <2> QED
    BY <2>1, <2>2, OneRow DEF DataInv, DataTypeOK
<1> QED
  BY <1>1, <1>2, <1>3, <1>4, <1>5, <1>6 DEF Roster

(* What the queries list are known teams.                                  *)
LEMMA QueryRows ==
  ASSUME DataInv, NEW S, S \subseteq Known
  PROVE  LET r == Rows(S)
         IN /\ Cardinality(S) \in Nat
            /\ r \in Seq(TeamAndRow) /\ Len(r) = Cardinality(S)
            /\ \A n \in 1 .. Len(r) : r[n].id \in S
            /\ \A t \in S : Later(S, t) + 1 \in 1 .. Len(r) /\ r[Later(S, t) + 1].id = t
<1>1. S \subseteq Teams /\ S \subseteq Nat /\ S \in SUBSET Known
  BY ViewAssumption DEF Known
<1>2. /\ IsFiniteSet(S) /\ teams \in [Teams -> TeamRow]
      /\ \A t \in S : teams[t].leader \in Users
  BY <1>1, FS_Subset DEF DataInv, DataTypeOK
<1> QED
  BY <1>1, <1>2, RowsInOrder

LEMMA MatchesKnown ==
  ASSUME NEW filter, NEW owner, NEW ids, NEW private, NEW t \in Teams,
         Matches(teams, t, filter, owner, ids, private)
  PROVE  t \in Known
BY DEF Matches, Known

(* Pages.                                                                  *)
LEMMA PageArithmetic ==
  ASSUME NEW size \in Int, NEW page \in Int
  PROVE  /\ PageSize(size) \in Nat \ {0} /\ PageNum(page) \in Nat \ {0}
         /\ Offset(page, size) \in Nat /\ Limit(size) = PageSize(size)
<1>1. \A a, b \in Nat : Min({a, b}) \in {a, b}
  BY DEF Min
<1>2. PageSize(size) \in Nat \ {0} /\ PageNum(page) \in Nat \ {0}
  <2>1. CASE size <= 0
    BY <2>1, ViewAssumption DEF PageSize, PageNum
  <2>2. CASE ~ (size <= 0)
    <3>1. size \in Nat /\ maxPageSize \in Nat \ {0}
      BY <2>2, ViewAssumption
    <3>2. Min({size, maxPageSize}) \in {size, maxPageSize}
      BY <1>1, <3>1
    <3> QED
      BY <2>2, <3>1, <3>2 DEF PageSize, PageNum
  <2> QED
    BY <2>1, <2>2
<1>3. \A a, b \in Nat : a * b \in Nat
  OBVIOUS
<1>4. PageNum(page) - 1 \in Nat
  BY <1>2
<1> QED
  BY <1>2, <1>3, <1>4 DEF Offset, Limit
-----------------------------------------------------------------------------
(* The client.                                                             *)

Asking == pc \notin {"idle", "toured"}
ReqSet ==
  [route : Open \cup AuthRequired \cup {"none"}, filter : Filters \cup {NoFilter},
   team : Teams \cup {0}, page : Nat, size : Sizes \cup {0},
   viewer : Users \cup {Nobody}, admin : BOOLEAN]
FoundSet ==
  [ids : SUBSET Teams, rows : Seq(TeamAndRow), total : Nat,
   counts : Seq(Nat)]

ClientTypes ==
  /\ session \in Users \cup {Nobody}
  /\ pc \in {"idle", "count", "ids", "rows", "counts", "joined", "answered", "toured"}
  /\ req \in ReqSet /\ found \in FoundSet
  /\ pc = "joined" => Len(found.counts) = Len(found.rows)
  /\ answer \in Seq(Shown)

TourTypes ==
  /\ DOMAIN tour = DOMAIN NoTour
  /\ tour.filter \in Filters \cup {NoFilter} /\ tour.size \in Sizes \cup {0}
  /\ tour.page \in Nat /\ tour.seen \subseteq Teams /\ tour.through \subseteq Teams

(* What a request under way knows: who is asking, and on a walk, where.    *)
RequestInv ==
  /\ pc # "answered" => answer = <<>>
  /\ Asking =>
       /\ req.route # "none" /\ req.viewer = LoginUserID(req.route)
       /\ req.admin = (req.viewer \in Admins)
       /\ req.route \in AuthRequired => session # Nobody
       /\ req.route = "get" => req.team \in Teams
  /\ pc = "count" => req.route = "page"
  /\ pc = "ids" => req.route = "my/join"
  /\ pc = "toured" => tour.on
  /\ tour.on => tour.page # 0
  /\ tour.on /\ Asking =>
       /\ req.route = "page" /\ PageNum(req.page) = tour.page
       /\ req.size = tour.size /\ req.filter = tour.filter

ClientInv == ClientTypes /\ TourTypes /\ RequestInv

LEMMA NoneTyped ==
  /\ NoReq \in ReqSet /\ NoneFound \in FoundSet
  /\ NoTour.on = FALSE /\ NoTour.filter = NoFilter /\ NoTour.page = 0 /\ NoTour.size = 0
  /\ NoTour.seen = {} /\ NoTour.through = {}
BY DEF NoReq, NoneFound, NoTour, ReqSet, FoundSet

LEMMA FoundTotal ==
  ASSUME NEW f \in FoundSet, NEW n \in Nat
  PROVE  [f EXCEPT !.total = n] \in FoundSet /\ [f EXCEPT !.total = n].total = n
BY DEF FoundSet

LEMMA FoundIds ==
  ASSUME NEW f \in FoundSet, NEW ids \in SUBSET Teams
  PROVE  [f EXCEPT !.ids = ids] \in FoundSet /\ [f EXCEPT !.ids = ids].ids = ids
BY DEF FoundSet

LEMMA FoundRows ==
  ASSUME NEW f \in FoundSet, NEW rows \in Seq(TeamAndRow)
  PROVE  /\ [f EXCEPT !.rows = rows] \in FoundSet /\ [f EXCEPT !.rows = rows].rows = rows
         /\ [f EXCEPT !.rows = rows].total = f.total /\ [f EXCEPT !.rows = rows].ids = f.ids
BY DEF FoundSet

LEMMA FoundCounts ==
  ASSUME NEW f \in FoundSet, NEW counts \in Seq(Nat)
  PROVE  /\ [f EXCEPT !.counts = counts] \in FoundSet
         /\ [f EXCEPT !.counts = counts].counts = counts
         /\ [f EXCEPT !.counts = counts].rows = f.rows
         /\ [f EXCEPT !.counts = counts].total = f.total
BY DEF FoundSet

(* The handler determines who is asking.                                   *)
LEMMA RequestTyped ==
  ASSUME ClientTypes, NEW route \in Open \cup AuthRequired, NEW filter \in Filters \cup {NoFilter},
         NEW team \in Teams \cup {0}, NEW page \in Nat, NEW size \in Sizes \cup {0},
         Request(route, filter, team, page, size)
  PROVE  /\ req' \in ReqSet /\ req'.route = route /\ req'.filter = filter
         /\ req'.page = page /\ req'.size = size /\ req'.team = team
         /\ req'.viewer = LoginUserID(route)' /\ req'.admin = (req'.viewer \in Admins)
         /\ route \in AuthRequired => session # Nobody
         /\ pc' \in {"count", "ids", "rows"}
         /\ pc' = "count" <=> route = "page"
         /\ pc' = "ids" <=> route = "my/join"
         /\ UNCHANGED <<dbVars, session, found, answer>>
<1>1. PICK v \in Users \cup {Nobody} : v = LoginUserID(route)
  BY DEF LoginUserID, ClientTypes
<1>2. PICK a \in BOOLEAN : a <=> v \in Admins
  OBVIOUS
<1>3. a = (v \in Admins)
  BY <1>2
<1>4. /\ req' = [route |-> route, filter |-> filter, team |-> team, page |-> page,
                 size |-> size, viewer |-> v, admin |-> a]
      /\ UNCHANGED <<dbVars, session, found, answer>>
  BY <1>1, <1>3 DEF Request
<1>5. LoginUserID(route)' = v
  BY <1>1, <1>4 DEF LoginUserID
<1>6. req' \in ReqSet
  BY <1>4 DEF ReqSet
<1> QED
  BY <1>3, <1>4, <1>5, <1>6 DEF Request
(* Requests begin: one of its own, the first page of a walk, the next one. *)
LEMMA AskKeeps ==
  ASSUME ClientInv, Ask \/ StartTour \/ NextPage
  PROVE  ClientInv' /\ UNCHANGED dbVars
<1>0. NoFilter \in Filters \cup {NoFilter} /\ 0 \in Teams \cup {0} /\ 0 \in Sizes \cup {0} /\ 0 \in Nat
  OBVIOUS
<1>1. CASE Ask
  <2>1. PICK route \in Open \cup AuthRequired, filter \in Filters \cup {NoFilter},
             team \in Teams \cup {0} :
          Request(route, filter, team, 0, 0) /\ (route = "get" => team \in Teams)
    BY <1>0, <1>1 DEF Ask, Open, AuthRequired
  <2>2. ~ tour.on /\ tour' = tour /\ pc = "idle"
    BY <1>1 DEF Ask
  <2> QED
    BY <1>0, <2>1, <2>2, RequestTyped DEF ClientInv, ClientTypes, TourTypes, RequestInv, Open,
       AuthRequired
<1>2. CASE StartTour
  <2>1. PICK f \in Filters, s \in Sizes :
          /\ Request("page", f, 0, 0, s)
          /\ tour' = [NoTour EXCEPT !.on = TRUE, !.filter = f, !.page = 1,
                                    !.size = s, !.through = Listed(f, FALSE)]
    BY <1>2 DEF StartTour
  <2>2. /\ DOMAIN tour' = DOMAIN NoTour /\ tour'.on /\ tour'.filter = f /\ tour'.page = 1
        /\ tour'.size = s /\ tour'.seen = {} /\ tour'.through \subseteq Teams
    BY <2>1 DEF NoTour, Listed, ListedIn
  <2>3. PageNum(0) = 1
    BY DEF PageNum
  <2>4. "page" \in Open \cup AuthRequired /\ pc = "idle"
    BY <1>2 DEF Open, StartTour
  <2>5. f \in Filters \cup {NoFilter} /\ s \in Sizes \cup {0}
    OBVIOUS
  <2>6. /\ req' \in ReqSet /\ req'.route = "page" /\ req'.filter = f /\ req'.page = 0
        /\ req'.size = s /\ req'.viewer = LoginUserID("page")'
        /\ req'.admin = (req'.viewer \in Admins) /\ pc' = "count"
        /\ UNCHANGED <<dbVars, session, found, answer>>
    BY <1>0, <2>1, <2>4, <2>5, RequestTyped DEF ClientInv
  <2>7. ClientTypes' /\ TourTypes'
    BY <2>2, <2>5, <2>6 DEF ClientInv, ClientTypes, TourTypes
  <2>8. RequestInv'
    BY <2>2, <2>3, <2>4, <2>6 DEF ClientInv, RequestInv, AuthRequired
  <2> QED
    BY <2>6, <2>7, <2>8 DEF ClientInv
<1>3. CASE NextPage
  <2>1. /\ Request("page", tour.filter, 0, tour.page, tour.size)
        /\ tour' = tour /\ tour.on /\ pc = "idle"
    BY <1>3 DEF NextPage
  <2>2. PICK f \in Filters \cup {NoFilter}, s \in Sizes \cup {0}, n \in Nat :
          f = tour.filter /\ s = tour.size /\ n = tour.page /\ n # 0
    BY <2>1 DEF ClientInv, TourTypes, RequestInv
  <2>3. PageNum(n) = n
    BY <2>2 DEF PageNum
  <2>4. "page" \in Open \cup AuthRequired
    BY DEF Open
  <2>5. Request("page", f, 0, n, s)
    BY <2>1, <2>2
  <2>6. /\ req' \in ReqSet /\ req'.route = "page" /\ req'.filter = f /\ req'.page = n
        /\ req'.size = s /\ req'.viewer = LoginUserID("page")'
        /\ req'.admin = (req'.viewer \in Admins) /\ pc' = "count"
        /\ UNCHANGED <<dbVars, session, found, answer>>
    BY <1>0, <2>2, <2>4, <2>5, RequestTyped DEF ClientInv
  <2>7. ClientTypes' /\ TourTypes'
    BY <2>1, <2>6 DEF ClientInv, ClientTypes, TourTypes
  <2>8. RequestInv'
    BY <2>1, <2>2, <2>3, <2>6 DEF ClientInv, RequestInv, AuthRequired
  <2> QED
    BY <2>6, <2>7, <2>8 DEF ClientInv
<1> QED
  BY <1>1, <1>2, <1>3

LEMMA CountKeeps ==
  ASSUME DataInv, ClientInv, Count
  PROVE  ClientInv'
<1>1. PICK n \in Nat : n = Cardinality(Listed(req.filter, req.admin))
  <2>1. Listed(req.filter, req.admin) \subseteq Known
    BY MatchesKnown DEF Listed, ListedIn
  <2> QED
    BY <2>1, QueryRows
<1>2. found' = [found EXCEPT !.total = n] /\ pc' = "rows" /\ pc = "count"
      /\ UNCHANGED <<session, req, answer, tour>>
  BY <1>1 DEF Count
<1>3. found' \in FoundSet
  <2>1. found \in FoundSet
    BY DEF ClientInv, ClientTypes
  <2> QED
    BY <1>2, <2>1, FoundTotal
<1> QED
  BY <1>2, <1>3 DEF ClientInv, ClientTypes, TourTypes, RequestInv, Asking, LoginUserID

LEMMA IdsKeeps ==
  ASSUME DataInv, ClientInv, Ids
  PROVE  /\ ClientInv' /\ found'.ids = {m.team : m \in RowsBy(req.viewer)}
         /\ (pc' = "rows" => found'.ids # {}) /\ UNCHANGED <<dbVars, session, req>>
<1>1. PICK ids \in SUBSET Teams : ids = {m.team : m \in RowsBy(req.viewer)}
  BY DEF DataInv, DataTypeOK, Membership, RowsBy
<1>2. /\ found' = [found EXCEPT !.ids = ids] /\ pc = "ids"
      /\ pc' = IF ids = {} THEN "answered" ELSE "rows"
      /\ UNCHANGED <<dbVars, session, req, answer, tour>>
  BY <1>1 DEF Ids
<1>3. found' \in FoundSet /\ found'.ids = ids
  <2>1. found \in FoundSet
    BY DEF ClientInv, ClientTypes
  <2> QED
    BY <1>2, <2>1, FoundIds
<1> QED
  BY <1>1, <1>2, <1>3 DEF ClientInv, ClientTypes, TourTypes, RequestInv, Asking, LoginUserID

(* What the query for the teams selects from.                              *)
Selected ==
  CASE req.route \in {"list", "page"} -> Listed(req.filter, req.admin)
    [] req.route = "my/create" ->
         {t \in Teams : Matches(teams, t, req.filter, req.viewer, {}, TRUE)}
    [] req.route = "my/join" ->
         {t \in Teams : Matches(teams, t, req.filter, Nobody, found.ids, TRUE)}

LEMMA ReadRowsKeeps ==
  ASSUME DataInv, ClientInv, ReadRows
  PROVE  /\ ClientInv' /\ UNCHANGED <<dbVars, session, req, tour, answer>>
         /\ found'.ids = found.ids /\ found'.total = found.total
         /\ pc' = IF found'.rows = <<>> THEN "answered" ELSE "counts"
         /\ \A n \in DOMAIN found'.rows : found'.rows[n].id \in Selected
         /\ req.route = "page" =>
              LET all == Rows(Selected)
                  from == Offset(req.page, req.size)
              IN /\ from \in Nat
                 /\ \A n \in 1 .. Len(all) :
                      n > from /\ n <= from + Limit(req.size) =>
                        all[n].id \in {found'.rows[k].id : k \in DOMAIN found'.rows}
<1>1. /\ pc = "rows" /\ req.route # "get" /\ req \in ReqSet /\ found \in FoundSet
      /\ req.route # "none" /\ req.size \in Int /\ req.page \in Int
  BY ViewAssumption DEF ReadRows, ClientInv, ClientTypes, RequestInv, Asking, ReqSet
<1>2. req.route \in {"list", "page", "my/create", "my/join"}
  BY <1>1 DEF ReqSet, Open, AuthRequired
<1> DEFINE all == Rows(Selected)
           from == Offset(req.page, req.size)
           upto == Min({Len(all), from + Limit(req.size)})
           rows == IF req.route = "page" THEN SubSeq(all, from + 1, upto) ELSE all
<1>3. Selected \subseteq Known
  BY <1>2, MatchesKnown DEF Selected, Listed, ListedIn
<1>4. /\ all \in Seq(TeamAndRow)
      /\ \A n \in 1 .. Len(all) : all[n].id \in Selected
  BY <1>3, QueryRows
<1>5. found' = [found EXCEPT !.rows = rows] /\ pc' = (IF rows = <<>> THEN "answered" ELSE "counts")
      /\ UNCHANGED <<dbVars, session, req, answer, tour>>
  BY <1>2 DEF ReadRows, Selected
<1>6. from \in Nat /\ Limit(req.size) \in Nat \ {0}
  BY <1>1, PageArithmetic
<1> HIDE DEF all, from
<1>7. PICK l \in Nat : l = Len(all) /\ DOMAIN all = 1 .. l
  BY <1>4
<1>8. upto \in Nat /\ upto <= l /\ \A n \in 1 .. l : n <= from + Limit(req.size) => n <= upto
  <2>1. from + Limit(req.size) \in Nat
    BY <1>6
  <2>2. PICK k \in Nat : k = from + Limit(req.size)
    BY <2>1
  <2>3. \A a, b \in Nat : Min({a, b}) = IF a <= b THEN a ELSE b
    BY DEF Min
  <2>4. upto = Min({l, k})
    BY <1>7, <2>2
  <2>5. upto = IF l <= k THEN l ELSE k
    BY <2>3, <2>4
  <2> HIDE DEF upto
  <2> QED
    BY <2>2, <2>5
<1> HIDE DEF upto
<1>9. /\ rows \in Seq(TeamAndRow)
      /\ \A n \in DOMAIN rows : rows[n].id \in Selected
      /\ req.route = "page" =>
           \A n \in 1 .. l : n > from /\ n <= from + Limit(req.size) =>
             \E k \in DOMAIN rows : rows[k] = all[n]
  <2>1. CASE req.route # "page"
    BY <1>4, <1>7, <2>1
  <2>2. CASE req.route = "page"
    <3> DEFINE s == SubSeq(all, from + 1, upto)
    <3>1. \A i \in from + 1 .. upto : i \in 1 .. l /\ all[i] \in TeamAndRow
      <4>1. PICK g \in Nat, k \in Nat : g = from /\ k = upto /\ k <= l
        BY <1>6, <1>8
      <4>2. \A i \in g + 1 .. k : i \in 1 .. l
        BY <4>1
      <4>3. \A i \in 1 .. l : all[i] \in TeamAndRow
        BY <1>4, <1>7
      <4> QED
        BY <4>1, <4>2, <4>3
    <3>2. /\ s \in Seq(TeamAndRow)
          /\ Len(s) = IF from + 1 <= upto THEN upto - (from + 1) + 1 ELSE 0
          /\ \A i \in 1 .. upto - (from + 1) + 1 : s[i] = all[from + 1 + i - 1]
      BY <1>6, <1>8, <3>1, SubSeqProperties
    <3> HIDE DEF s
    <3>3. PICK m \in Nat : m = Len(s) /\ DOMAIN s = 1 .. m
      BY <3>2
    <3>4. \A i \in 1 .. m : from + i \in from + 1 .. upto /\ s[i] = all[from + i]
      BY <1>6, <1>8, <3>2, <3>3
    <3>5. ASSUME NEW n \in 1 .. l, n > from, n <= upto PROVE n - from \in 1 .. m /\ s[n - from] = all[n]
      <4>1. n - from \in 1 .. m /\ from + (n - from) = n
        BY <1>6, <1>8, <3>2, <3>3, <3>5
      <4> QED
        BY <3>4, <4>1
    <3>6. rows = s
      BY <2>2 DEF s
    <3>7. \A n \in DOMAIN s : s[n].id \in Selected
      BY <1>4, <1>7, <3>1, <3>3, <3>4
    <3>8. \A n \in 1 .. l : n > from /\ n <= from + Limit(req.size) =>
             \E k \in DOMAIN s : s[k] = all[n]
      BY <1>8, <3>3, <3>5
    <3> HIDE DEF rows
    <3> QED
      BY <3>2, <3>6, <3>7, <3>8
  <2> QED
    BY <2>1, <2>2
<1> HIDE DEF rows
<1>10. /\ found' \in FoundSet /\ found'.rows = rows /\ found'.total = found.total
       /\ found'.ids = found.ids
  BY <1>1, <1>5, <1>9, FoundRows
<1>11. ClientInv'
  BY <1>1, <1>5, <1>10 DEF ClientInv, ClientTypes, TourTypes, RequestInv, Asking, LoginUserID
<1>12. ASSUME req.route = "page", NEW n \in 1 .. Len(all), n > from, n <= from + Limit(req.size)
       PROVE  all[n].id \in {found'.rows[k].id : k \in DOMAIN found'.rows}
  BY <1>7, <1>9, <1>10, <1>12
<1> QED
  BY <1>5, <1>6, <1>9, <1>10, <1>11, <1>12 DEF all, from

LEMMA ReadTeamKeeps ==
  ASSUME DataInv, ClientInv, ReadTeam
  PROVE  /\ ClientInv' /\ UNCHANGED <<dbVars, session, req, tour, answer>>
         /\ pc' \in {"answered", "counts"}
         /\ pc' = "counts" =>
              \A n \in DOMAIN found'.rows : found'.rows[n].id \in {t \in Known : CanView(t)}
<1>1. /\ pc = "rows" /\ req.route = "get" /\ found \in FoundSet /\ req.team \in Teams \cup {0}
      /\ UNCHANGED <<dbVars, session, req, answer, tour>>
  BY DEF ReadTeam, ClientInv, ClientTypes, ReqSet
<1>2. CASE Active(req.team) /\ CanView(req.team)
  <2>1. found' = [found EXCEPT !.rows = Rows({req.team})] /\ pc' = "counts"
    BY <1>2 DEF ReadTeam
  <2>2. req.team \in Known
    BY <1>1, <1>2 DEF Active, Known, ClientInv, RequestInv, Asking
  <2> DEFINE rows == Rows({req.team})
  <2>3. {req.team} \subseteq Known
    BY <2>2
  <2>4. rows \in Seq(TeamAndRow) /\ \A n \in 1 .. Len(rows) : rows[n].id \in {req.team}
    BY <2>3, QueryRows
  <2> HIDE DEF rows
  <2>5. found' \in FoundSet /\ found'.rows = rows
    BY <1>1, <2>1, <2>4, FoundRows DEF rows
  <2>6. \A n \in DOMAIN rows : rows[n].id = req.team
    BY <2>4
  <2> QED
    BY <1>1, <1>2, <2>1, <2>2, <2>5, <2>6
       DEF ClientInv, ClientTypes, TourTypes, RequestInv, Asking, LoginUserID
<1>3. CASE ~ (Active(req.team) /\ CanView(req.team))
  <2>1. pc' = "answered" /\ found' = found
    BY <1>3 DEF ReadTeam
  <2> QED
    BY <1>1, <2>1 DEF ClientInv, ClientTypes, TourTypes, RequestInv, Asking, LoginUserID
<1> QED
  BY <1>2, <1>3

LEMMA CountsKeeps ==
  ASSUME DataInv, ClientInv, Counts
  PROVE  /\ ClientInv' /\ UNCHANGED <<dbVars, session, req, tour, answer>>
         /\ found'.rows = found.rows /\ found'.total = found.total
<1>1. found \in FoundSet /\ found.rows \in Seq(TeamAndRow)
  BY DEF ClientInv, ClientTypes, FoundSet
<1> DEFINE counts == [n \in DOMAIN found.rows |-> Cardinality(RowsOf(found.rows[n].id))]
<1>2. PICK l \in Nat : l = Len(found.rows) /\ DOMAIN found.rows = 1 .. l
  BY <1>1
<1>3. ASSUME NEW t PROVE Cardinality(RowsOf(t)) \in Nat
  <2>1. RowsOf(t) \in SUBSET members
    BY DEF RowsOf
  <2> QED
    BY <2>1, FS_Subset, FS_CardinalityType DEF DataInv
<1>4. counts \in Seq(Nat) /\ Len(counts) = l
  <2>1. counts = [n \in 1 .. l |-> Cardinality(RowsOf(found.rows[n].id))]
    BY <1>2
  <2>2. counts \in [1 .. l -> Nat]
    BY <1>3, <2>1
  <2> HIDE DEF counts
  <2> QED
    BY <2>2
<1>5. /\ found' = [found EXCEPT !.counts = counts] /\ pc = "counts" /\ pc' = "joined"
      /\ UNCHANGED <<dbVars, session, req, answer, tour>>
  BY DEF Counts
<1> HIDE DEF counts
<1>6. /\ found' \in FoundSet /\ found'.counts = counts
      /\ found'.rows = found.rows /\ found'.total = found.total
  BY <1>1, <1>4, <1>5, FoundCounts
<1> QED
  BY <1>2, <1>4, <1>5, <1>6 DEF ClientInv, ClientTypes, TourTypes, RequestInv, Asking, LoginUserID

ShownIds == {found.rows[n].id : n \in DOMAIN found.rows}
AnswerIds == {answer[n].id : n \in DOMAIN answer}

LEMMA JoinedKeeps ==
  ASSUME DataInv, ClientInv, Joined
  PROVE  ClientInv' /\ AnswerIds' = ShownIds /\ UNCHANGED <<dbVars, session, req, found, tour>>
<1>1. /\ found.rows \in Seq(TeamAndRow) /\ found.counts \in Seq(Nat)
      /\ Len(found.counts) = Len(found.rows)
  BY DEF ClientInv, ClientTypes, FoundSet, Joined
<1>2. PICK l \in Nat : l = Len(found.rows) /\ DOMAIN found.rows = 1 .. l
  BY <1>1
<1> DEFINE shown(n) ==
      LET t == found.rows[n].id
      IN [id |-> t, status |-> found.rows[n].row.status,
          leader |-> found.rows[n].row.leader, num |-> found.counts[n],
          hasJoin |-> req.viewer # Nobody /\ RowsIn(req.viewer, t) # {}]
<1>3. ASSUME NEW n \in 1 .. l PROVE shown(n) \in Shown /\ shown(n).id = found.rows[n].id
  <2>1. found.rows[n] \in TeamAndRow /\ found.counts[n] \in Nat
    BY <1>1, <1>2
  <2>2. /\ found.rows[n].id \in Teams /\ found.rows[n].row.status \in Statuses
        /\ found.rows[n].row.leader \in Users
    BY <2>1 DEF TeamAndRow, TeamRow
  <2>3. (req.viewer # Nobody /\ RowsIn(req.viewer, found.rows[n].id) # {}) \in BOOLEAN
    OBVIOUS
  <2> QED
    BY <2>1, <2>2, <2>3 DEF Shown
<1> HIDE DEF shown
<1>4. answer' = [n \in 1 .. l |-> shown(n)]
  BY <1>2 DEF Joined, shown
<1>5. answer' \in Seq(Shown) /\ DOMAIN answer' = 1 .. l
  BY <1>3, <1>4
<1>6. AnswerIds' = ShownIds
  BY <1>2, <1>3, <1>4, <1>5 DEF AnswerIds, ShownIds
<1>7. pc = "joined" /\ pc' = "answered" /\ UNCHANGED <<dbVars, session, req, found, tour>>
  BY DEF Joined
<1> QED
  BY <1>5, <1>6, <1>7 DEF ClientInv, ClientTypes, TourTypes, RequestInv, Asking, LoginUserID

LEMMA AnswerTeams ==
  ASSUME answer \in Seq(Shown)
  PROVE  AnswerIds \subseteq Teams
<1>1. \A n \in DOMAIN answer : answer[n] \in Shown
  OBVIOUS
<1> QED
  BY <1>1 DEF AnswerIds, Shown

LEMMA TakeAnswerKeeps ==
  ASSUME DataInv, ClientInv, TakeAnswer
  PROVE  /\ ClientInv' /\ UNCHANGED <<dbVars, session>>
         /\ tour.on =>
              /\ tour'.seen = tour.seen \cup AnswerIds /\ tour'.page = tour.page + 1
              /\ tour'.through = tour.through /\ tour'.size = tour.size
              /\ tour'.filter = tour.filter /\ tour'.disturbed = tour.disturbed
              /\ pc' = "toured" => tour.page >= Pages(found.total, tour.size)
         /\ ~ tour.on => ~ tour'.on
<1>1. /\ req' = NoReq /\ found' = NoneFound /\ answer' = <<>>
      /\ UNCHANGED <<dbVars, session>> /\ pc' \in {"idle", "toured"}
  BY DEF TakeAnswer
<1>2. NoneFound \in FoundSet /\ NoReq \in ReqSet
  BY NoneTyped
<1>3. CASE tour.on
  <2>1. tour' = [tour EXCEPT !.seen = @ \cup AnswerIds, !.page = @ + 1]
    BY <1>3 DEF TakeAnswer, AnswerIds
  <2>2. AnswerIds \subseteq Teams
    BY AnswerTeams DEF ClientInv, ClientTypes
  <2>3. tour.page \in Nat /\ DOMAIN tour = DOMAIN NoTour
    BY DEF ClientInv, TourTypes
  <2>4. PICK n \in Nat : n = tour.page
    BY <2>3
  <2>5. /\ DOMAIN tour' = DOMAIN NoTour /\ tour'.on = tour.on
        /\ tour'.seen = tour.seen \cup AnswerIds /\ tour'.page = n + 1
        /\ tour'.through = tour.through /\ tour'.size = tour.size
        /\ tour'.filter = tour.filter /\ tour'.disturbed = tour.disturbed
    BY <2>1, <2>3, <2>4 DEF NoTour
  <2>6. pc' = "toured" => tour.page >= Pages(found.total, tour.size)
    BY <1>3 DEF TakeAnswer
  <2>7. TourTypes' /\ tour'.page # 0
    BY <2>2, <2>4, <2>5 DEF ClientInv, TourTypes
  <2> QED
    BY <1>1, <1>2, <1>3, <2>4, <2>5, <2>6, <2>7
       DEF ClientInv, ClientTypes, RequestInv, Asking
<1>4. CASE ~ tour.on
  <2>1. tour' = tour /\ pc' = "idle"
    BY <1>4 DEF TakeAnswer
  <2> QED
    BY <1>1, <1>2, <1>4, <2>1 DEF ClientInv, ClientTypes, TourTypes, RequestInv, Asking
<1> QED
  BY <1>3, <1>4

(* A walk ends, a statement fails.                                         *)
LEMMA EndKeeps ==
  ASSUME ClientInv, EndTour \/ ReadFails
  PROVE  /\ ClientInv' /\ UNCHANGED <<dbVars, session>>
         /\ pc' = "idle" /\ ~ tour'.on
<1>1. CASE EndTour
  BY <1>1, NoneTyped DEF EndTour, ClientInv, ClientTypes, TourTypes, RequestInv, Asking
<1>2. CASE ReadFails
  BY <1>2, NoneTyped DEF ReadFails, ClientInv, ClientTypes, TourTypes, RequestInv, Asking
<1> QED
  BY <1>1, <1>2

LEMMA SessionKeeps ==
  ASSUME ClientInv, Login \/ Logout
  PROVE  /\ ClientInv' /\ UNCHANGED <<dbVars, pc, req, found, answer, tour>>
         /\ pc = "idle" /\ ~ tour.on
BY DEF Login, Logout, ClientInv, ClientTypes, TourTypes, RequestInv, Asking, dbVars

LEMMA OthersKeep ==
  ASSUME ClientInv, Others
  PROVE  /\ ClientInv' /\ Roster /\ UNCHANGED <<session, pc, req, found, answer>>
         /\ ~ tour.on => tour' = tour
         /\ tour.on =>
              LET before == Listed(tour.filter, FALSE)
                  after == Listed(tour.filter, FALSE)'
              IN /\ tour'.on /\ tour'.seen = tour.seen /\ tour'.page = tour.page
                 /\ tour'.size = tour.size /\ tour'.filter = tour.filter
                 /\ tour'.through = tour.through \cap after
                 /\ ~ tour'.disturbed =>
                      /\ ~ tour.disturbed /\ before \subseteq after
                      /\ pc = "rows" => before = after
<1>1. Roster /\ UNCHANGED <<session, pc, req, found, answer>>
  BY DEF Others
<1>2. CASE ~ tour.on
  <2>1. tour' = tour
    BY <1>2 DEF Others
  <2> QED
    BY <1>1, <1>2, <2>1 DEF ClientInv, ClientTypes, TourTypes, RequestInv, Asking, LoginUserID
<1>3. CASE tour.on
  <2> DEFINE before == ListedIn(teams, tour.filter, FALSE)
             after == ListedIn(teams', tour.filter, FALSE)
             disturbed == \/ tour.disturbed
                          \/ before \ after # {}
                          \/ after \ before # {} /\ pc = "rows"
  <2>1. tour' = [tour EXCEPT !.through = @ \cap after, !.disturbed = disturbed]
    BY <1>3 DEF Others
  <2>2. before = Listed(tour.filter, FALSE)
    BY DEF Listed
  <2>3. DOMAIN tour = DOMAIN NoTour
    BY DEF ClientInv, TourTypes
  <2> HIDE DEF before, after
  <2>4. disturbed \in BOOLEAN
    OBVIOUS
  <2>5. ~ disturbed => /\ ~ tour.disturbed /\ before \subseteq after
                       /\ pc = "rows" => before = after
    OBVIOUS
  <2> HIDE DEF disturbed
  <2>6. /\ DOMAIN tour' = DOMAIN NoTour
        /\ tour'.on = tour.on /\ tour'.seen = tour.seen /\ tour'.page = tour.page
        /\ tour'.size = tour.size /\ tour'.filter = tour.filter
        /\ tour'.through = tour.through \cap after /\ tour'.disturbed = disturbed
    BY <2>1, <2>3 DEF NoTour
  <2>7. after = Listed(tour.filter, FALSE)'
    BY <2>6 DEF after, Listed
  <2>8. ClientInv'
    BY <1>1, <2>6 DEF ClientInv, ClientTypes, TourTypes, RequestInv, Asking, LoginUserID
  <2> QED
    BY <1>1, <1>3, <2>2, <2>5, <2>6, <2>7, <2>8
<1> QED
  BY <1>2, <1>3

LEMMA SameData ==
  ASSUME DataInv, UNCHANGED dbVars
  PROVE  DataInv'
BY DEF DataInv, DataTypeOK, Known, dbVars

LEMMA ClientStep ==
  ASSUME DataInv, ClientInv, [Next]_vars
  PROVE  DataInv' /\ ClientInv'
<1>1. CASE Login \/ Logout
  BY <1>1, SessionKeeps, SameData DEF dbVars
<1>2. CASE Ask \/ StartTour \/ NextPage
  BY <1>2, AskKeeps, SameData DEF dbVars
<1>3. CASE Count
  BY <1>3, CountKeeps, SameData DEF Count
<1>4. CASE Ids
  BY <1>4, IdsKeeps, SameData DEF Ids
<1>5. CASE ReadRows
  BY <1>5, ReadRowsKeeps, SameData DEF ReadRows
<1>6. CASE ReadTeam
  BY <1>6, ReadTeamKeeps, SameData DEF ReadTeam
<1>7. CASE Counts
  BY <1>7, CountsKeeps, SameData DEF Counts
<1>8. CASE Joined
  BY <1>8, JoinedKeeps, SameData DEF Joined
<1>9. CASE TakeAnswer
  BY <1>9, TakeAnswerKeeps, SameData DEF TakeAnswer
<1>10. CASE EndTour \/ ReadFails
  BY <1>10, EndKeeps, SameData DEF EndTour, ReadFails
<1>11. CASE Others
  BY <1>11, OthersKeep, RosterKeeps
<1>12. CASE UNCHANGED vars
  <2>1. UNCHANGED <<dbVars, session, pc, req, found, answer, tour>>
    BY <1>12 DEF vars, clientVars
  <2> QED
    BY <2>1, SameData DEF ClientInv, ClientTypes, TourTypes, RequestInv, Asking, LoginUserID
<1> QED
  BY <1>1, <1>2, <1>3, <1>4, <1>5, <1>6, <1>7, <1>8, <1>9, <1>10, <1>11, <1>12 DEF Next, Read

LEMMA ClientInit ==
  ASSUME Init
  PROVE  DataInv /\ ClientInv
<1>1. DataInv
  <2>1. NoRow \in TeamRow
    BY DataAssumption DEF NoRow, TeamRow, Statuses, Times
  <2>2. Known = {}
    BY DEF Init, DataInit, Known, NoRow
  <2> QED
    BY <2>1, <2>2, FS_EmptySet DEF Init, DataInit, DataInv, DataTypeOK
<1>2. ClientInv
  BY NoneTyped DEF Init, ClientInv, ClientTypes, TourTypes, RequestInv, Asking
<1> QED
  BY <1>1, <1>2

(* The histories hold teams.                                               *)
LEMMA HistoryStep ==
  ASSUME entitled \subseteq Teams, mine \subseteq Teams, [Next]_vars
  PROVE  entitled' \subseteq Teams /\ mine' \subseteq Teams
<1>1. May' \subseteq Teams /\ Own' \subseteq Teams
  BY DEF May, Own
<1>2. CASE Track
  BY <1>1, <1>2 DEF Track
<1> QED
  BY <1>2 DEF Next, vars, clientVars

(* Every variable has its type: in particular the counts that Joined pairs *)
(* with the rows are as many as the rows, and no row that is shown lacks a *)
(* leader (service.go, toTeamUserVOs).                                     *)
THEOREM ViewsTyping == Spec => []TypeOK
<1> DEFINE I == DataInv /\ ClientInv /\ entitled \subseteq Teams /\ mine \subseteq Teams
<1>1. Init => I
  BY ClientInit DEF Init
<1>2. I /\ [Next]_vars => I'
  BY ClientStep, HistoryStep
<1>3. I => TypeOK
  <2> SUFFICES ASSUME I PROVE TypeOK
    OBVIOUS
  <2>1. found.rows \in Seq([id : Teams, row : TeamRow])
    <3>1. found.rows \in Seq(TeamAndRow)
      BY DEF ClientInv, ClientTypes, FoundSet
    <3>2. TeamAndRow \subseteq [id : Teams, row : TeamRow]
      BY DEF TeamAndRow
    <3> HIDE DEF TeamAndRow
    <3> QED
      BY <3>1, <3>2, SeqMonotonic
  <2>2. req \in ReqSet /\ found \in FoundSet /\ DataTypeOK
    BY DEF ClientInv, ClientTypes, DataInv
  <2> QED
    BY <2>1, <2>2 DEF TypeOK, ClientInv, ClientTypes, TourTypes, ReqSet, FoundSet
<1> HIDE DEF I
<1> QED
  BY <1>1, <1>2, <1>3, PTL DEF Spec

-----------------------------------------------------------------------------
(* Private teams stay hidden.                                              *)

(* What a request has gathered the client was entitled to see.             *)
HiddenInv ==
  /\ pc = "rows" /\ req.route = "my/join" => found.ids # {} /\ found.ids \subseteq entitled
  /\ pc \in {"counts", "joined"} => ShownIds \subseteq entitled
  /\ pc = "answered" => AnswerIds \subseteq entitled

LEMMA Entitled ==
  ASSUME Track, pc # "answered", Asking'
  PROVE  May' \subseteq entitled' /\ (Asking => entitled \subseteq entitled')
BY DEF Track, Asking

LEMMA SameMay ==
  ASSUME UNCHANGED <<dbVars, session>>
  PROVE  May' = May
BY DEF May, Private, RowsIn, dbVars

(* Routes without a login have no viewer, and nobody is no administrator.  *)
LEMMA WhoIsAsking ==
  ASSUME ClientInv, Asking
  PROVE  /\ req.route \notin AuthRequired => req.viewer = Nobody /\ ~ req.admin
         /\ req.route \in AuthRequired => req.viewer = session /\ session \in Users
<1>1. Nobody \notin Admins
  BY DataAssumption, ViewAssumption
<1> QED
  BY <1>1 DEF ClientInv, ClientTypes, RequestInv, LoginUserID

LEMMA SelectedMaySee ==
  ASSUME DataInv, ClientInv, HiddenInv, pc = "rows",
         req.route \in {"list", "page", "my/create", "my/join"}
  PROVE  Selected \subseteq May \cup entitled
<1>1. Asking
  BY DEF Asking
<1>2. CASE req.route \in {"list", "page"}
  <2>1. ~ req.admin
    BY <1>1, <1>2, WhoIsAsking DEF AuthRequired
  <2> QED
    BY <1>2, <2>1 DEF Selected, Listed, ListedIn, Matches, May, Private
<1>3. CASE req.route = "my/create"
  <2>1. req.viewer = session /\ session # Nobody
    BY <1>1, <1>3, WhoIsAsking, DataAssumption DEF AuthRequired
  <2> QED
    BY <1>3, <2>1 DEF Selected, Matches, May
<1>4. CASE req.route = "my/join"
  BY <1>4 DEF Selected, Matches, HiddenInv
<1> QED
  BY <1>2, <1>3, <1>4

LEMMA HiddenStep ==
  ASSUME DataInv, ClientInv, HiddenInv, [Next]_vars
  PROVE  HiddenInv'
<1>1. CASE UNCHANGED vars
  BY <1>1 DEF vars, clientVars, HiddenInv, ShownIds, AnswerIds
<1>2. CASE (Login \/ Logout) /\ Track
  BY <1>2, SessionKeeps DEF HiddenInv
<1>3. CASE (Ask \/ StartTour \/ NextPage) /\ Track
  <2>1. pc' \in {"count", "ids", "rows"} /\ (pc' = "rows" => req'.route # "my/join")
    <3>1. ASSUME NEW route, NEW filter, NEW team, NEW page, NEW size,
                 Request(route, filter, team, page, size)
          PROVE  pc' \in {"count", "ids", "rows"} /\ (pc' = "rows" => req'.route # "my/join")
      BY <3>1 DEF Request
    <3> QED
      BY <1>3, <3>1 DEF Ask, StartTour, NextPage
  <2> QED
    BY <2>1 DEF HiddenInv
<1>4. CASE Count /\ Track
  <2>1. pc' = "rows" /\ req' = req /\ req.route = "page"
    BY <1>4 DEF Count, ClientInv, RequestInv
  <2> QED
    BY <2>1 DEF HiddenInv
<1>5. CASE Ids /\ Track
  <2>1. /\ pc = "ids" /\ pc' \in {"rows", "answered"} /\ answer' = answer
        /\ found'.ids = {m.team : m \in RowsBy(req.viewer)}
        /\ pc' = "rows" => found'.ids # {}
        /\ UNCHANGED <<dbVars, session, req>>
    BY <1>5, IdsKeeps DEF Ids
  <2>2. req.viewer = session
    BY <2>1, WhoIsAsking DEF AuthRequired, ClientInv, RequestInv, Asking
  <2>3. found'.ids \subseteq May
    <3>1. \A m \in RowsBy(session) : m.team \in Teams /\ m \in RowsIn(session, m.team)
      BY DEF RowsBy, RowsIn, DataInv, DataTypeOK, Membership
    <3> QED
      BY <2>1, <2>2, <3>1 DEF May
  <2>4. May' \subseteq entitled'
    BY <1>5, <2>1, Entitled DEF Asking
  <2>5. AnswerIds' = {}
    BY <2>1 DEF ClientInv, RequestInv, AnswerIds
  <2> QED
    BY <2>1, <2>3, <2>4, <2>5, SameMay DEF HiddenInv
<1>6. CASE ReadRows /\ Track
  <2>1. /\ pc = "rows" /\ UNCHANGED <<dbVars, session, req, answer>>
        /\ pc' \in {"answered", "counts"}
        /\ \A n \in DOMAIN found'.rows : found'.rows[n].id \in Selected
    BY <1>6, ReadRowsKeeps DEF ReadRows
  <2>2. req.route \in {"list", "page", "my/create", "my/join"}
    BY <1>6, <2>1 DEF ReadRows, ClientInv, ClientTypes, RequestInv, ReqSet, Asking, Open, AuthRequired
  <2>3. May' \subseteq entitled' /\ entitled \subseteq entitled'
    BY <1>6, <2>1, Entitled DEF Asking
  <2>4. Selected \subseteq entitled'
    BY <2>1, <2>2, <2>3, SelectedMaySee, SameMay
  <2>5. ShownIds' \subseteq entitled'
    BY <2>1, <2>4 DEF ShownIds
  <2>6. AnswerIds' = {}
    BY <2>1 DEF ClientInv, RequestInv, AnswerIds
  <2> QED
    BY <2>1, <2>5, <2>6 DEF HiddenInv
<1>7. CASE ReadTeam /\ Track
  <2>1. /\ pc = "rows" /\ req.route = "get" /\ UNCHANGED <<dbVars, session, req, answer>>
        /\ pc' \in {"answered", "counts"}
        /\ pc' = "counts" =>
             \A n \in DOMAIN found'.rows : found'.rows[n].id \in {t \in Known : CanView(t)}
    BY <1>7, ReadTeamKeeps DEF ReadTeam
  <2>2. req.viewer = Nobody /\ ~ req.admin
    BY <2>1, WhoIsAsking DEF Asking, AuthRequired
  <2>3. {t \in Known : CanView(t)} \subseteq May
    BY <2>2, DataAssumption DEF CanView, Known, May, DataInv
  <2>4. May' \subseteq entitled'
    BY <1>7, <2>1, Entitled DEF Asking
  <2>5. pc' = "counts" => ShownIds' \subseteq entitled'
    BY <2>1, <2>3, <2>4, SameMay DEF ShownIds
  <2>6. AnswerIds' = {}
    BY <2>1 DEF ClientInv, RequestInv, AnswerIds
  <2> QED
    BY <2>1, <2>5, <2>6 DEF HiddenInv
<1>8. CASE Counts /\ Track
  <2>1. pc = "counts" /\ pc' = "joined" /\ found'.rows = found.rows
    BY <1>8, CountsKeeps DEF Counts
  <2>2. entitled \subseteq entitled' /\ ShownIds' = ShownIds
    BY <1>8, <2>1, Entitled DEF Asking, ShownIds
  <2> QED
    BY <2>1, <2>2 DEF HiddenInv
<1>9. CASE Joined /\ Track
  <2>1. pc = "joined" /\ pc' = "answered" /\ AnswerIds' = ShownIds
    BY <1>9, JoinedKeeps DEF Joined
  <2>2. entitled \subseteq entitled'
    BY <1>9, <2>1, Entitled DEF Asking
  <2> QED
    BY <2>1, <2>2 DEF HiddenInv
<1>10. CASE (TakeAnswer \/ EndTour \/ ReadFails) /\ Track
  <2>1. pc' \in {"idle", "toured"}
    BY <1>10 DEF TakeAnswer, EndTour, ReadFails
  <2> QED
    BY <2>1 DEF HiddenInv
<1>11. CASE Others /\ Track
  <2>1. UNCHANGED <<pc, req, found, answer>>
    BY <1>11 DEF Others
  <2>2. Asking => entitled \subseteq entitled'
    BY <1>11, <2>1 DEF Asking, Track
  <2> QED
    BY <2>1, <2>2 DEF HiddenInv, Asking, ShownIds, AnswerIds
<1> QED
  BY <1>1, <1>2, <1>3, <1>4, <1>5, <1>6, <1>7, <1>8, <1>9, <1>10, <1>11 DEF Next, Read

(* No answer shows a private team to a client that could see it at no      *)
(* moment of the request, whatever the others do between its statements:   *)
(* an open route has no viewer, so it selects what is not private, and the *)
(* ids of ListMyJoin are never empty when they select (service.go:190).    *)
THEOREM PrivateStaysHidden == Spec => []PrivateHidden
<1> DEFINE I == DataInv /\ ClientInv /\ HiddenInv
<1>1. Init => I
  <2>1. Init => HiddenInv
    BY DEF Init, HiddenInv
  <2> QED
    BY <2>1, ClientInit
<1>2. I /\ [Next]_vars => I'
  BY ClientStep, HiddenStep
<1>3. I => PrivateHidden
  BY DEF HiddenInv, PrivateHidden, AnswerIds
<1> HIDE DEF I
<1> QED
  BY <1>1, <1>2, <1>3, PTL DEF Spec

-----------------------------------------------------------------------------
(* The pages of a walk cover the list.                                     *)

(* Later teams only come in between, so a team's place never moves         *)
(* towards the front.                                                      *)
LEMMA LaterGrows ==
  ASSUME NEW S, NEW T, S \subseteq T, IsFiniteSet(T), NEW t
  PROVE  Later(S, t) \in Nat /\ Later(T, t) \in Nat /\ Later(S, t) <= Later(T, t)
<1> DEFINE s == {k \in S : k > t}
           l == {k \in T : k > t}
<1>1. s \in SUBSET l /\ l \in SUBSET T
  OBVIOUS
<1>2. IsFiniteSet(l)
  BY <1>1, FS_Subset
<1>3. IsFiniteSet(s) /\ Cardinality(s) <= Cardinality(l)
  BY <1>1, <1>2, FS_Subset
<1> QED
  BY <1>2, <1>3, FS_CardinalityType DEF Later

LEMMA ListedFinite ==
  ASSUME DataInv, NEW filter, NEW private
  PROVE  Listed(filter, private) \subseteq Known /\ IsFiniteSet(Listed(filter, private))
<1>1. Listed(filter, private) \in SUBSET Known
  BY MatchesKnown DEF Listed, ListedIn
<1> QED
  BY <1>1, FS_Subset DEF DataInv

LEMMA Multiples ==
  ASSUME NEW a \in Nat, NEW b \in Nat, a <= b, NEW n \in Nat
  PROVE  a * n <= b * n
<1>1. b - a \in Nat /\ b = a + (b - a)
  OBVIOUS
<1>2. PICK c \in Nat : b = a + c
  BY <1>1
<1>3. b * n = a * n + c * n /\ c * n \in Nat /\ a * n \in Nat
  BY <1>2
<1> QED
  BY <1>3

LEMMA Quotient ==
  ASSUME NEW a \in Nat, NEW n \in Nat \ {0}
  PROVE  a \div n \in Nat /\ a < (a \div n) * n + n
<1>1. a = n * (a \div n) + (a % n) /\ (a % n) \in 0 .. n - 1 /\ a \div n \in Int
  OBVIOUS
<1> QED
  BY <1>1

(* A walk begins with page 1 at the front of the list, each page begins    *)
(* where the one before has ended, and no page promised is no team left.   *)
LEMMA PageEnds ==
  ASSUME NEW size \in Int, NEW page \in Nat \ {0}, NEW total \in Nat
  PROVE  /\ Offset(1, size) = 0
         /\ Offset(page, size) \in Nat /\ Offset(page + 1, size) \in Nat
         /\ Offset(page + 1, size) = Offset(page, size) + Limit(size)
         /\ page >= Pages(total, size) => total <= Offset(page + 1, size)
<1>1. PICK n \in Nat \ {0} : n = PageSize(size) /\ n = Limit(size)
  BY PageArithmetic
<1>2. PageNum(page) = page /\ PageNum(page + 1) = page + 1 /\ PageNum(1) = 1
  BY DEF PageNum
<1>3. PICK k \in Nat : page = k + 1
  <2>1. page - 1 \in Nat /\ page = page - 1 + 1
    OBVIOUS
  <2> QED
    BY <2>1
<1>4. /\ Offset(1, size) = 0 * n
      /\ Offset(page, size) = k * n /\ Offset(page + 1, size) = (k + 1) * n
  <2>1. Offset(1, size) = (1 - 1) * n /\ Offset(page, size) = (page - 1) * n
        /\ Offset(page + 1, size) = (page + 1 - 1) * n
    BY <1>1, <1>2 DEF Offset
  <2>2. page - 1 = k /\ page + 1 - 1 = k + 1 /\ 1 - 1 = 0
    BY <1>3
  <2> QED
    BY <2>1, <2>2
<1>5. (k + 1) * n = k * n + n /\ k * n \in Nat /\ (k + 1) * n \in Nat /\ 0 * n = 0
  OBVIOUS
<1>6. ASSUME page >= Pages(total, size) PROVE total <= (k + 1) * n
  <2> DEFINE a == total + n - 1
             q == a \div n
  <2>1. a \in Nat
    OBVIOUS
  <2>2. q \in Nat /\ a < q * n + n
    BY <2>1, Quotient
  <2>3. q <= k + 1
    BY <1>1, <1>3, <1>6 DEF Pages
  <2> HIDE DEF q
  <2>4. q * n <= (k + 1) * n
    BY <2>2, <2>3, Multiples
  <2>5. PICK x \in Nat, y \in Nat : x = q * n /\ y = (k + 1) * n
    BY <1>5, <2>2
  <2> QED
    BY <2>2, <2>4, <2>5
<1> QED
  BY <1>1, <1>4, <1>5, <1>6

List == Listed(tour.filter, FALSE)
Place(t) == Later(List, t) + 1

(* Where an undisturbed walk stands: what was listed all the time is still *)
(* listed, and what stands before the page to come has been seen.          *)
TourInv ==
  tour.on /\ ~ tour.disturbed =>
    /\ tour.through \subseteq List
    /\ pc \in {"idle", "count", "rows"} =>
         \A t \in tour.through :
           Place(t) <= Offset(tour.page, tour.size) => t \in tour.seen
    /\ pc = "rows" => found.total = Cardinality(List)
    /\ pc \in {"counts", "joined", "answered"} =>
         /\ \A t \in tour.through :
              Place(t) <= Offset(tour.page + 1, tour.size) => t \in tour.seen \cup ShownIds
         /\ found.total <= Offset(tour.page + 1, tour.size) =>
              tour.through \subseteq tour.seen \cup ShownIds
    /\ pc = "answered" => AnswerIds = ShownIds
    /\ pc = "toured" => tour.through \subseteq tour.seen

LEMMA WalkTypes ==
  ASSUME ClientInv, tour.on
  PROVE  tour.size \in Int /\ tour.page \in Nat \ {0} /\ found.total \in Nat
<1>1. tour.size \in Sizes \cup {0} /\ tour.page \in Nat /\ tour.page # 0
  BY DEF ClientInv, TourTypes, RequestInv
<1>2. found.total \in Nat
  BY DEF ClientInv, ClientTypes, FoundSet
<1>3. \A s \in Sizes \cup {0} : s \in Int
  <2>1. Sizes \subseteq Int /\ 0 \in Int
    BY ViewAssumption
  <2> QED
    BY <2>1
<1> QED
  BY <1>1, <1>2, <1>3

LEMMA SameList ==
  ASSUME UNCHANGED dbVars, tour'.filter = tour.filter
  PROVE  List' = List /\ \A t : Place(t)' = Place(t)
BY DEF List, Listed, ListedIn, Place, Matches, dbVars

(* On a walk a request is for the page the walk stands at.                 *)
LEMMA WalkRequest ==
  ASSUME ClientInv, tour.on, pc \in {"count", "rows"}
  PROVE  /\ req.route = "page" /\ Listed(req.filter, req.admin) = List
         /\ Offset(req.page, req.size) = Offset(tour.page, tour.size)
         /\ Limit(req.size) = Limit(tour.size)
<1>1. /\ req.route = "page" /\ PageNum(req.page) = tour.page
      /\ req.size = tour.size /\ req.filter = tour.filter
  BY DEF ClientInv, RequestInv, Asking
<1>2. req.admin = FALSE
  <2>1. ~ req.admin /\ req.admin \in BOOLEAN
    BY <1>1, WhoIsAsking DEF AuthRequired, Asking, ClientInv, ClientTypes, ReqSet
  <2> QED
    BY <2>1
<1>3. PageNum(tour.page) = tour.page
  BY WalkTypes DEF PageNum
<1> QED
  BY <1>1, <1>2, <1>3 DEF List, Offset

LEMMA ReadRowsTours ==
  ASSUME DataInv, ClientInv, TourInv, ReadRows
  PROVE  TourInv'
<1> SUFFICES ASSUME tour'.on, ~ tour'.disturbed PROVE TourInv'
  BY DEF TourInv
<1> DEFINE from == Offset(tour.page, tour.size)
           to == Offset(tour.page + 1, tour.size)
           all == Rows(List)
<1>1. /\ UNCHANGED <<dbVars, req, tour, answer>> /\ found'.total = found.total
      /\ pc = "rows" /\ pc' = IF found'.rows = <<>> THEN "answered" ELSE "counts"
  BY ReadRowsKeeps DEF ReadRows
<1>2. /\ tour.on /\ ~ tour.disturbed /\ tour.through \subseteq List
      /\ \A t \in tour.through : Place(t) <= from => t \in tour.seen
      /\ found.total = Cardinality(List)
  BY <1>1 DEF TourInv
<1>3. /\ req.route = "page" /\ Selected = List /\ Offset(req.page, req.size) = from
      /\ Limit(req.size) = Limit(tour.size)
  BY <1>1, <1>2, WalkRequest DEF Selected
<1>4. from \in Nat /\ to \in Nat /\ to = from + Limit(tour.size)
  BY <1>2, WalkTypes, PageEnds
<1>5. \A n \in 1 .. Len(all) : n > from /\ n <= to => all[n].id \in ShownIds'
  BY <1>3, <1>4, ReadRowsKeeps DEF ShownIds
<1>6. /\ Cardinality(List) \in Nat /\ Len(all) = Cardinality(List)
      /\ \A t \in List : Place(t) \in 1 .. Len(all) /\ all[Place(t)].id = t
  BY ListedFinite, QueryRows DEF List, Place
<1> HIDE DEF from, to, all
<1>7. ASSUME NEW t \in tour.through, Place(t) <= to PROVE t \in tour.seen \cup ShownIds'
  <2>1. PICK n \in 1 .. Len(all) : n = Place(t) /\ all[n].id = t
    BY <1>2, <1>6
  <2>2. n \in Nat
    BY <1>6, <2>1
  <2> QED
    BY <1>2, <1>4, <1>5, <1>7, <2>1, <2>2
<1>8. ASSUME found.total <= to PROVE tour.through \subseteq tour.seen \cup ShownIds'
  <2>1. ASSUME NEW t \in tour.through PROVE Place(t) <= to
    <3>1. PICK n \in 1 .. Len(all) : n = Place(t)
      BY <1>2, <1>6
    <3> QED
      BY <1>2, <1>4, <1>6, <1>8, <3>1
  <2> QED
    BY <1>7, <2>1
<1>9. pc' = "answered" => AnswerIds' = ShownIds'
  <2>1. answer' = <<>>
    BY <1>1 DEF ClientInv, RequestInv
  <2>2. pc' = "answered" => found'.rows = <<>>
    BY <1>1
  <2> QED
    BY <2>1, <2>2 DEF AnswerIds, ShownIds
<1>10. List' = List /\ \A t : Place(t)' = Place(t)
  BY <1>1, SameList
<1> QED
  BY <1>1, <1>2, <1>7, <1>8, <1>9, <1>10 DEF TourInv, to

LEMMA TakeAnswerTours ==
  ASSUME DataInv, ClientInv, TourInv, TakeAnswer
  PROVE  TourInv'
<1> SUFFICES ASSUME tour'.on, ~ tour'.disturbed PROVE TourInv'
  BY DEF TourInv
<1>1. /\ tour.on /\ UNCHANGED <<dbVars, session>> /\ pc = "answered" /\ pc' \in {"idle", "toured"}
      /\ tour'.seen = tour.seen \cup AnswerIds /\ tour'.page = tour.page + 1
      /\ tour'.through = tour.through /\ tour'.size = tour.size
      /\ tour'.filter = tour.filter /\ tour'.disturbed = tour.disturbed
      /\ pc' = "toured" => tour.page >= Pages(found.total, tour.size)
  BY TakeAnswerKeeps DEF TakeAnswer
<1>2. /\ tour.through \subseteq List /\ AnswerIds = ShownIds
      /\ \A t \in tour.through :
           Place(t) <= Offset(tour.page + 1, tour.size) => t \in tour.seen \cup ShownIds
      /\ found.total <= Offset(tour.page + 1, tour.size) =>
           tour.through \subseteq tour.seen \cup ShownIds
  BY <1>1 DEF TourInv
<1>3. pc' = "toured" => found.total <= Offset(tour.page + 1, tour.size)
  BY <1>1, WalkTypes, PageEnds
<1>4. List' = List /\ \A t : Place(t)' = Place(t)
  BY <1>1, SameList
<1> QED
  BY <1>1, <1>2, <1>3, <1>4 DEF TourInv

LEMMA OthersTour ==
  ASSUME DataInv, ClientInv, TourInv, Others
  PROVE  TourInv'
<1> SUFFICES ASSUME tour'.on, ~ tour'.disturbed PROVE TourInv'
  BY DEF TourInv
<1>1. UNCHANGED <<pc, found, answer>> /\ DataInv' /\ tour.on
  BY OthersKeep, RosterKeeps
<1>2. /\ tour'.seen = tour.seen /\ tour'.page = tour.page
      /\ tour'.size = tour.size /\ tour'.filter = tour.filter
      /\ tour'.through = tour.through \cap Listed(tour.filter, FALSE)'
      /\ ~ tour.disturbed /\ Listed(tour.filter, FALSE) \subseteq Listed(tour.filter, FALSE)'
      /\ pc = "rows" => Listed(tour.filter, FALSE) = Listed(tour.filter, FALSE)'
  BY <1>1, OthersKeep
<1>3. /\ tour'.through = tour.through \cap List' /\ List \subseteq List'
      /\ pc = "rows" => List = List'
  BY <1>2 DEF List
<1>4. IsFiniteSet(List')
  <2>1. List' \in SUBSET Known'
    BY DEF List, Listed, ListedIn, Matches, Known
  <2> QED
    BY <1>1, <2>1, FS_Subset DEF DataInv
<1>5. ASSUME NEW t, NEW n \in Nat, Place(t)' <= n PROVE Place(t) <= n
  <2>1. PICK a \in Nat, b \in Nat : a = Later(List, t) /\ b = Later(List', t) /\ a <= b
    BY <1>3, <1>4, LaterGrows
  <2> QED
    BY <1>5, <2>1 DEF Place
<1>6. Offset(tour.page, tour.size) \in Nat /\ Offset(tour.page + 1, tour.size) \in Nat
  BY <1>1, WalkTypes, PageEnds
<1>7. ShownIds' = ShownIds /\ AnswerIds' = AnswerIds
  BY <1>1 DEF ShownIds, AnswerIds
<1>8. /\ tour.through \subseteq List /\ tour'.through = tour.through
  BY <1>1, <1>2, <1>3 DEF TourInv
<1> QED
  BY <1>1, <1>2, <1>3, <1>5, <1>6, <1>7, <1>8 DEF TourInv

LEMMA TourStep ==
  ASSUME DataInv, ClientInv, TourInv, [Next]_vars
  PROVE  TourInv'
<1>1. CASE UNCHANGED vars
  <2>1. UNCHANGED <<dbVars, pc, found, answer, tour>>
    BY <1>1 DEF vars, clientVars
  <2>2. ShownIds' = ShownIds /\ AnswerIds' = AnswerIds
    BY <2>1 DEF ShownIds, AnswerIds
  <2>3. List' = List /\ \A t : Place(t)' = Place(t)
    BY <2>1, SameList
  <2> QED
    BY <2>1, <2>2, <2>3 DEF TourInv
<1>2. CASE Login \/ Logout
  BY <1>2, SessionKeeps DEF TourInv
<1>3. CASE Ask
  BY <1>3 DEF Ask, TourInv
<1>4. CASE StartTour
  <2>1. PICK f \in Filters, s \in Sizes :
          /\ pc' = "count" /\ UNCHANGED dbVars
          /\ tour' = [NoTour EXCEPT !.on = TRUE, !.filter = f, !.page = 1,
                                    !.size = s, !.through = Listed(f, FALSE)]
    BY <1>4 DEF StartTour, Request
  <2>2. /\ tour'.filter = f /\ tour'.page = 1 /\ tour'.size = s
        /\ tour'.seen = {} /\ tour'.through = Listed(f, FALSE)
    BY <2>1 DEF NoTour
  <2>3. DataInv'
    BY <2>1, SameData
  <2>4. List' = Listed(f, FALSE)
    BY <2>1, <2>2 DEF List, Listed, ListedIn, Matches, dbVars
  <2>5. ASSUME NEW t \in List' PROVE Place(t)' \in Nat \ {0}
    <3>1. IsFiniteSet(List')
      <4>1. List' \in SUBSET Known'
        BY DEF List, Listed, ListedIn, Matches, Known
      <4> QED
        BY <2>3, <4>1, FS_Subset DEF DataInv
    <3>2. PICK n \in Nat : n = Later(List', t)
      BY <3>1, LaterGrows
    <3> QED
      BY <3>2 DEF Place
  <2>6. Offset(1, s) = 0
    BY ViewAssumption, PageEnds
  <2>7. \A t \in tour'.through : ~ (Place(t)' <= Offset(tour'.page, tour'.size))
    <3>1. Offset(tour'.page, tour'.size) = 0
      BY <2>2, <2>6
    <3>2. ASSUME NEW t \in tour'.through PROVE ~ (Place(t)' <= 0)
      <4>1. PICK n \in Nat \ {0} : n = Place(t)'
        BY <2>2, <2>4, <2>5
      <4> QED
        BY <4>1
    <3> QED
      BY <3>1, <3>2
  <2> QED
    BY <2>1, <2>2, <2>4, <2>7 DEF TourInv
<1>5. CASE NextPage
  <2>1. pc = "idle" /\ pc' = "count" /\ UNCHANGED <<dbVars, tour>>
    BY <1>5 DEF NextPage, Request
  <2> QED
    BY <2>1, SameList DEF TourInv
<1>6. CASE Count
  <2>1. pc = "count" /\ pc' = "rows" /\ UNCHANGED <<dbVars, tour>>
    BY <1>6 DEF Count
  <2>2. found'.total = Cardinality(Listed(req.filter, req.admin))
    BY <1>6 DEF Count, ClientInv, ClientTypes, FoundSet
  <2>3. tour.on => Listed(req.filter, req.admin) = List
    BY <2>1, WalkRequest
  <2> QED
    BY <2>1, <2>2, <2>3, SameList DEF TourInv
<1>7. CASE Ids
  BY <1>7 DEF Ids, TourInv, ClientInv, RequestInv, Asking
<1>8. CASE ReadRows
  BY <1>8, ReadRowsTours
<1>9. CASE ReadTeam
  BY <1>9 DEF ReadTeam, TourInv, ClientInv, RequestInv, Asking
<1>10. CASE Counts
  <2>1. /\ pc = "counts" /\ pc' = "joined" /\ UNCHANGED <<dbVars, tour>>
        /\ found'.rows = found.rows /\ found'.total = found.total
    BY <1>10, CountsKeeps DEF Counts
  <2> QED
    BY <2>1, SameList DEF TourInv, ShownIds
<1>11. CASE Joined
  <2>1. /\ pc = "joined" /\ pc' = "answered" /\ UNCHANGED <<dbVars, tour, found>>
        /\ AnswerIds' = ShownIds
    BY <1>11, JoinedKeeps DEF Joined
  <2> QED
    BY <2>1, SameList DEF TourInv, ShownIds
<1>12. CASE TakeAnswer
  BY <1>12, TakeAnswerTours
<1>13. CASE EndTour \/ ReadFails
  BY <1>13, EndKeeps DEF TourInv
<1>14. CASE Others
  BY <1>14, OthersTour
<1> QED
  BY <1>1, <1>2, <1>3, <1>4, <1>5, <1>6, <1>7, <1>8, <1>9, <1>10, <1>11, <1>12, <1>13, <1>14
     DEF Next, Read

(* A client that walks on until the total promises no more pages has seen  *)
(* every team that was listed all the time, unless the walk was disturbed, *)
(* for any page sizes: the latest teams come first, so a team that enters  *)
(* the list moves the others back, onto pages still to come                *)
(* (page.go, team_repo.go:176-180).                                        *)
THEOREM PagesCoverTheList == Spec => []PagesTile
<1> DEFINE I == DataInv /\ ClientInv /\ TourInv
<1>1. Init => I
  <2>1. Init => TourInv
    BY NoneTyped DEF Init, TourInv
  <2> QED
    BY <2>1, ClientInit
<1>2. I /\ [Next]_vars => I'
  BY ClientStep, TourStep
<1>3. I => PagesTile
  BY DEF TourInv, PagesTile, ClientInv, RequestInv
<1> HIDE DEF I
<1> QED
  BY <1>1, <1>2, <1>3, PTL DEF Spec
=============================================================================
