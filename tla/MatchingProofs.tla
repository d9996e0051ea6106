--------------------------- MODULE MatchingProofs ---------------------------
(***************************************************************************)
(* Theorems about Matching, and about Accounts in it, for any tables,      *)
(* registrations and updates: who shares a planet code, what a scan loads, *)
(* what the table of distances holds, that the variables keep their types, *)
(* and that an answer offers the nearest.  Each invariant is inductive     *)
(* given those before it: CodeInv, ScanInv, Typing, RankInv.               *)
(***************************************************************************)
EXTENDS Matching, FiniteSetTheorems, WellFoundedInduction, TLAPS

(* UserRow and the forms without the bounds.                               *)
Row ==
  [account : Names, code : Codes, tags : Texts, deleted : BOOLEAN,
   updated : Nat, codeBy : {"register", "update"}, saw : Nat]
Form ==
  [account : Names \cup {""}, code : Codes \cup {""}, tags : Texts,
   target : Nat, saw : Nat]

(* What a request under way knows: an update has found its row; no row     *)
(* that was there when a registration looked for its code has it since,    *)
(* except by an update.                                                    *)
CodeInv ==
  /\ users \in Seq(Row) /\ now \in Nat
  /\ form \in [Procs -> Form]
  /\ DOMAIN pc = Procs
  /\ \A p \in Procs :
       /\ pc[p] \in {"code", "create", "write"} =>
            form[p].account \in Names /\ form[p].code \in Codes
       /\ pc[p] = "write" => form[p].target \in DOMAIN users
       /\ pc[p] = "create" =>
            /\ form[p].saw <= Len(users)
            /\ \A i \in 1 .. form[p].saw :
                 users[i].code = form[p].code => users[i].codeBy = "update"

Explained == CodeInv /\ PlanetCodeExplained

-----------------------------------------------------------------------------
LEMMA NoFormTyped == NoForm \in Form
BY DEF NoForm, Form, Texts

(* What changing some fields of a form or a row does to the others.        *)
LEMMA FormSaw ==
  ASSUME NEW f \in Form, NEW n \in Nat
  PROVE  /\ [f EXCEPT !.saw = n] \in Form /\ [f EXCEPT !.saw = n].saw = n
         /\ [f EXCEPT !.saw = n].account = f.account
         /\ [f EXCEPT !.saw = n].code = f.code
BY DEF Form

LEMMA RowDeleted ==
  ASSUME NEW r \in Row
  PROVE  /\ [r EXCEPT !.deleted = TRUE] \in Row
         /\ [r EXCEPT !.deleted = TRUE].code = r.code
         /\ [r EXCEPT !.deleted = TRUE].codeBy = r.codeBy
         /\ [r EXCEPT !.deleted = TRUE].saw = r.saw
BY DEF Row

(* What an update makes of a row.                                          *)
Rewritten(r, f, n) ==
  [r EXCEPT !.account = f.account, !.code = f.code, !.tags = f.tags, !.updated = n,
            !.codeBy = "update"]

LEMMA RowUpdated ==
  ASSUME NEW r \in Row, NEW f \in Form, NEW n \in Nat, f.account \in Names, f.code \in Codes
  PROVE  Rewritten(r, f, n) \in Row /\ Rewritten(r, f, n).codeBy = "update"
BY DEF Row, Form, Rewritten

LEMMA InitExplained == Init => Explained
<1> SUFFICES ASSUME Init PROVE Explained
  OBVIOUS
<1>1. users \in Seq(UserRow)
  BY AccountAssumption DEF Init, AccountInit
<1>2. UserRow \subseteq Row
  BY AccountAssumption DEF UserRow, Row
<1>3. users \in Seq(Row)
  BY <1>1, <1>2
<1>4. PlanetCodeExplained
  BY AccountAssumption DEF Init, AccountInit, PlanetCodeExplained
<1>5. /\ now = 0 /\ form = [p \in Procs |-> NoForm]
      /\ pc = [p \in Procs |-> "idle"]
  BY DEF Init, AccountInit
<1> QED
  BY <1>3, <1>4, <1>5, NoFormTyped DEF Explained, CodeInv

(* What the form of a request holds.                                       *)
LEMMA FormTyped ==
  ASSUME CodeInv, NEW p \in Procs
  PROVE  form[p].saw \in Nat /\ form[p].target \in Nat /\ form[p].tags \in Texts
BY DEF CodeInv, Form

(* The end of a request.                                                   *)
LEMMA OverKeeps ==
  ASSUME CodeInv, NEW p \in Procs, Over(p)
  PROVE  /\ form' \in [Procs -> Form] /\ DOMAIN pc' = Procs /\ pc'[p] = "idle"
         /\ \A q \in Procs \ {p} : pc'[q] = pc[q] /\ form'[q] = form[q]
BY NoFormTyped DEF CodeInv, Over

LEMMA ExplainedStep ==
  ASSUME Explained, [Next]_vars
  PROVE  Explained'
<1> USE DEF Explained, CodeInv, PlanetCodeExplained
<1>1. ASSUME NEW p \in Procs, RegisterAccount(p) PROVE Explained'
  <2>1. PICK r \in Registrations :
          form' = [form EXCEPT ![p].account = r.account, ![p].code = r.code]
    BY <1>1 DEF RegisterAccount
  <2>2. r.account \in Names /\ r.code \in Codes
    BY AccountAssumption
  <2>3. /\ form' \in [Procs -> Form]
        /\ form'[p].account = r.account /\ form'[p].code = r.code
        /\ \A q \in Procs \ {p} : form'[q] = form[q]
    BY <2>1, <2>2 DEF Form
  <2>4. pc' = [pc EXCEPT ![p] = "code"] /\ UNCHANGED <<users, now>>
    BY <1>1 DEF RegisterAccount
  <2> QED
    BY <2>2, <2>3, <2>4
<1>2. ASSUME NEW p \in Procs, RegisterCode(p) PROVE Explained'
  <2>1. CASE CodeTaken(form[p].code)
    <3>1. Over(p) /\ UNCHANGED <<users, now>>
      BY <1>2, <2>1 DEF RegisterCode
    <3> QED
      BY <3>1, OverKeeps
  <2>2. CASE ~ CodeTaken(form[p].code)
    <3>1. /\ pc[p] = "code" /\ pc' = [pc EXCEPT ![p] = "create"]
          /\ form' = [form EXCEPT ![p].saw = Len(users)]
          /\ UNCHANGED <<users, now>>
      BY <1>2, <2>2 DEF RegisterCode
    <3>2. /\ form' \in [Procs -> Form]
          /\ form'[p].saw = Len(users)
          /\ form'[p].account = form[p].account /\ form'[p].code = form[p].code
          /\ \A q \in Procs \ {p} : form'[q] = form[q]
      <4> DEFINE f == [form[p] EXCEPT !.saw = Len(users)]
      <4>1. form' = [form EXCEPT ![p] = f]
        BY <3>1
      <4>2. /\ f \in Form /\ f.saw = Len(users)
            /\ f.account = form[p].account /\ f.code = form[p].code
        BY FormSaw
      <4> HIDE DEF f
      <4> QED
        BY <4>1, <4>2
    <3>3. \A i \in DOMAIN users : users[i].code # form[p].code
      BY <2>2 DEF CodeTaken
    <3> QED
      BY <3>1, <3>2, <3>3
  <2> QED
    BY <2>1, <2>2
<1>3. ASSUME NEW p \in Procs, RegisterCreate(p) PROVE Explained'
  <2>1. Over(p) /\ now' = now /\ pc[p] = "create"
    BY <1>3 DEF RegisterCreate
  <2>2. CASE users' = users
    BY <2>1, <2>2, OverKeeps
  <2>3. CASE users' # users
    <3> DEFINE row == [account |-> form[p].account, code |-> form[p].code,
                       tags |-> NoTags, deleted |-> FALSE, updated |-> now,
                       codeBy |-> "register", saw |-> form[p].saw]
    <3>1. users' = Append(users, row)
      BY <1>3, <2>3 DEF RegisterCreate
    <3>2. /\ row \in Row /\ row.code = form[p].code /\ row.saw = form[p].saw
      BY <2>1 DEF Row, Form, Texts
    <3> HIDE DEF row
    <3>3. /\ users' \in Seq(Row) /\ DOMAIN users' = 1 .. Len(users) + 1
          /\ DOMAIN users = 1 .. Len(users) /\ Len(users) \in Nat
          /\ users'[Len(users) + 1] = row
          /\ \A i \in DOMAIN users : users'[i] = users[i]
      BY <3>1, <3>2
    <3>4. PlanetCodeExplained'
      <4> SUFFICES ASSUME NEW i \in DOMAIN users', NEW j \in DOMAIN users', i < j,
                          users'[i].code = users'[j].code
                   PROVE  \/ "update" \in {users'[i].codeBy, users'[j].codeBy}
                          \/ users'[j].saw < i
        OBVIOUS
      <4>1. i \in DOMAIN users /\ users'[i] = users[i]
        BY <3>3
      <4>2. CASE j \in DOMAIN users
        BY <3>3, <4>1, <4>2
      <4>3. CASE j = Len(users) + 1
        <5>1. form[p].saw \in Nat /\ i \in Nat
          BY <3>3, <4>1, FormTyped
        <5>2. users'[j].saw = form[p].saw /\ users'[j].code = form[p].code
          BY <3>2, <3>3, <4>3
        <5> QED
          BY <2>1, <4>1, <5>1, <5>2
      <4> QED
        BY <3>3, <4>2, <4>3
    <3>5. ASSUME NEW q \in Procs \ {p}, pc[q] = "create"
          PROVE  /\ form[q].saw <= Len(users')
                 /\ \A i \in 1 .. form[q].saw :
                      users'[i].code = form[q].code => users'[i].codeBy = "update"
      <4>1. form[q].saw \in Nat
        BY DEF Form
      <4>2. Len(users') = Len(users) + 1
        BY <3>3
      <4> QED
        BY <3>3, <3>5, <4>1, <4>2
    <3> QED
      BY <2>1, <3>3, <3>4, <3>5, OverKeeps
  <2> QED
    BY <2>2, <2>3
<1>4. ASSUME NEW p \in Procs, StartUpdate(p) PROVE Explained'
  <2>1. PICK caller \in DOMAIN users, target \in DOMAIN users, f \in Forms :
          form' = [form EXCEPT ![p] = [account |-> f.account, code |-> f.code,
                                       tags |-> f.tags, target |-> target, saw |-> 0]]
    BY <1>4 DEF StartUpdate
  <2>2. /\ f.account \in Names /\ f.code \in Codes /\ f.tags \in Texts
        /\ target \in Nat
    BY AccountAssumption
  <2>3. pc' = [pc EXCEPT ![p] = "write"] /\ UNCHANGED <<users, now>>
    BY <1>4 DEF StartUpdate
  <2> QED
    BY <2>1, <2>2, <2>3 DEF Form
<1>5. ASSUME NEW p \in Procs, UpdateWrite(p) PROVE Explained'
  <2>1. Over(p) /\ now' = now /\ pc[p] = "write"
    BY <1>5 DEF UpdateWrite
  <2>2. CASE users' = users
    BY <2>1, <2>2, OverKeeps
  <2>3. CASE users' # users
    <3> DEFINE t == form[p].target
               row == Rewritten(users[t], form[p], now)
    <3>1. users' = [users EXCEPT ![t] = row]
      BY <1>5, <2>3 DEF UpdateWrite, Rewritten
    <3>2. t \in DOMAIN users /\ row \in Row /\ row.codeBy = "update"
      <4>1. t \in DOMAIN users /\ form[p].account \in Names /\ form[p].code \in Codes
        BY <2>1
      <4>2. users[t] \in Row /\ form[p] \in Form /\ now \in Nat
        BY <4>1
      <4> QED
        BY <4>1, <4>2, RowUpdated
    <3> HIDE DEF t, row
    <3>3. /\ users' \in Seq(Row) /\ DOMAIN users' = DOMAIN users
          /\ Len(users') = Len(users) /\ users'[t].codeBy = "update"
          /\ \A i \in DOMAIN users \ {t} : users'[i] = users[i]
      BY <3>1, <3>2
    <3>4. ASSUME NEW q \in Procs \ {p}, pc[q] = "create"
          PROVE  \A i \in 1 .. form[q].saw :
                   users'[i].code = form[q].code => users'[i].codeBy = "update"
      <4>1. form[q].saw \in Nat
        BY DEF Form
      <4> QED
        BY <3>3, <3>4, <4>1
    <3> QED
      BY <2>1, <3>3, <3>4, OverKeeps
  <2> QED
    BY <2>2, <2>3
<1>6. ASSUME NEW p \in Procs, RequestFails(p) PROVE Explained'
  BY <1>6, OverKeeps DEF RequestFails
<1>7. ASSUME NEW k \in DOMAIN users, SoftDelete(k) PROVE Explained'
  <2> DEFINE row == [users[k] EXCEPT !.deleted = TRUE]
  <2>1. /\ users' = [users EXCEPT ![k] = row]
        /\ UNCHANGED <<now, pc, form>>
    BY <1>7 DEF SoftDelete
  <2>2. /\ row \in Row /\ row.code = users[k].code
        /\ row.codeBy = users[k].codeBy /\ row.saw = users[k].saw
    BY RowDeleted
  <2> HIDE DEF row
  <2>3. /\ users' \in Seq(Row) /\ DOMAIN users' = DOMAIN users
        /\ Len(users') = Len(users)
        /\ \A i \in DOMAIN users :
             /\ users'[i].code = users[i].code /\ users'[i].codeBy = users[i].codeBy
             /\ users'[i].saw = users[i].saw
    BY <2>1, <2>2
  <2>4. ASSUME NEW q \in Procs, pc[q] = "create"
        PROVE  \A i \in 1 .. form[q].saw :
                 users'[i].code = form[q].code => users'[i].codeBy = "update"
    <3>1. form[q].saw \in Nat
      BY DEF Form
    <3> QED
      BY <2>3, <2>4, <3>1
  <2> QED
    BY <2>1, <2>3, <2>4
<1>8. CASE Tick
  BY <1>8 DEF Tick
<1>9. ASSUME NEW p \in Procs, MatchStep(p) PROVE Explained'
  <2>1. /\ UNCHANGED <<users, now, form>> /\ DOMAIN pc' = Procs
        /\ pc[p] \notin {"code", "create", "write"}
        /\ pc'[p] \notin {"code", "create", "write"}
        /\ \A q \in Procs \ {p} : pc'[q] = pc[q]
    BY <1>9 DEF MatchStep, StartMatch, NextBatch, PickUser, Rank, PopAll, Reread,
         EndMatch, MatchStages
  <2> QED
    BY <2>1
<1>10. CASE UNCHANGED vars
  BY <1>10 DEF vars, accountVars
<1> QED
  BY <1>1, <1>2, <1>3, <1>4, <1>5, <1>6, <1>7, <1>8, <1>9, <1>10, MatchAssumption
     DEF Next, Step, AccountStep

(* Two users share a planet code only if an update wrote it, or if the     *)
(* later of them looked for it before the earlier was there                *)
(* (service.go:48-54, 70).                                                 *)
THEOREM CodesExplained == Spec => []PlanetCodeExplained
<1>1. Explained => PlanetCodeExplained
  BY DEF Explained
<1> QED
  BY <1>1, InitExplained, ExplainedStep, PTL DEF Spec
-----------------------------------------------------------------------------
(* The scan.                                                               *)

Candidate == [id : Nat, tags : Texts]
Increasing(s) == \A m, n \in DOMAIN s : m < n => s[m].id < s[n].id
Ids(s) == {s[n].id : n \in DOMAIN s}

(* Before the n-th of the ids in ascending order there are n - 1 of them:  *)
(* there is one such id for each n, because no two ids have as many before *)
(* them.                                                                   *)
LEMMA AscendingOrder ==
  ASSUME NEW S, S \subseteq Nat, IsFiniteSet(S)
  PROVE  LET s == Ascending(S)
             d == 1 .. Cardinality(S)
         IN /\ Cardinality(S) \in Nat
            /\ \A n \in d : s[n] \in S
            /\ \A i \in S : \E n \in d : s[n] = i
            /\ \A m, n \in d : m < n => s[m] < s[n]
<1> DEFINE c == Cardinality(S)
           Below(i) == {k \in S : k < i}
           rank == [i \in S |-> Cardinality(Below(i)) + 1]
<1>1. c \in Nat
  BY FS_CardinalityType
<1>2. ASSUME NEW i \in S
      PROVE  IsFiniteSet(Below(i)) /\ Cardinality(Below(i)) \in Nat /\ Cardinality(Below(i)) + 1 <= c
  <2>1. IsFiniteSet(Below(i)) /\ IsFiniteSet(S \ {i})
    BY FS_Subset
  <2>2. Cardinality(Below(i)) <= Cardinality(S \ {i}) /\ Cardinality(Below(i)) \in Nat
    BY <2>1, FS_Subset, FS_CardinalityType
  <2>3. Cardinality(S \ {i}) = c - 1
    BY FS_RemoveElement
  <2> QED
    BY <1>1, <2>1, <2>2, <2>3
<1>3. ASSUME NEW i \in S, NEW k \in S, i < k
      PROVE  Cardinality(Below(i)) < Cardinality(Below(k))
  <2>1. i \in Nat /\ k \in Nat /\ ~ (i < i) /\ \A j \in S : j < i => j < k
    BY <1>3
  <2>2. /\ Below(i) \cup {i} \subseteq Below(k) /\ i \notin Below(i)
    BY <1>3, <2>1
  <2>3. Cardinality(Below(i) \cup {i}) = Cardinality(Below(i)) + 1
    BY <1>2, <2>2, FS_AddElement
  <2>4. Cardinality(Below(i) \cup {i}) <= Cardinality(Below(k))
    BY <1>2, <2>2, FS_Subset
  <2> QED
    BY <1>2, <2>3, <2>4
<1>4. rank \in Injection(S, 1 .. c)
  <2>1. rank \in [S -> 1 .. c]
    BY <1>1, <1>2
  <2>2. ASSUME NEW i \in S, NEW k \in S, rank[i] = rank[k] PROVE i = k
    BY <1>2, <1>3, <2>2
  <2> QED
    BY <2>1, <2>2 DEF Injection, IsInjective
<1>5. rank \in Surjection(S, 1 .. c)
  BY <1>1, <1>4, FS_Injection, FS_Interval
<1>6. ASSUME NEW n \in 1 .. c PROVE \E i \in S : Cardinality(Below(i)) = n - 1
  <2>1. PICK i \in S : rank[i] = n
    BY <1>5 DEF Surjection
  <2> QED
    BY <1>2, <2>1
<1>7. ASSUME NEW n \in 1 .. c
      PROVE  Ascending(S)[n] \in S /\ rank[Ascending(S)[n]] = n
  <2>1. PICK i \in S : i = Ascending(S)[n] /\ Cardinality(Below(i)) = n - 1
    BY <1>6 DEF Ascending
  <2> QED
    BY <2>1
<1>8. /\ rank \in [S -> 1 .. c]
      /\ \A i, k \in S : i < k => rank[i] < rank[k]
  BY <1>2, <1>3, <1>4 DEF Injection
<1> HIDE DEF rank, c
<1>9. ASSUME NEW i \in S PROVE \E n \in 1 .. c : Ascending(S)[n] = i
  <2>1. PICK n \in 1 .. c, k \in S : n = rank[i] /\ k = Ascending(S)[n] /\ rank[k] = n
    BY <1>7, <1>8
  <2>2. ~ (i < k) /\ ~ (k < i)
    BY <1>1, <1>8, <2>1
  <2> QED
    BY <2>1, <2>2
<1>10. ASSUME NEW m \in 1 .. c, NEW n \in 1 .. c, m < n
       PROVE  Ascending(S)[m] < Ascending(S)[n]
  <2>1. PICK i \in S, k \in S : /\ i = Ascending(S)[m] /\ k = Ascending(S)[n]
                               /\ rank[i] = m /\ rank[k] = n
    BY <1>7
  <2>2. ~ (k < i) /\ k # i
    BY <1>1, <1>8, <1>10, <2>1
  <2> QED
    BY <2>1, <2>2
<1> QED
  BY <1>1, <1>7, <1>9, <1>10 DEF c

LEMMA IdsAreNumbers ==
  ASSUME NEW s \in Seq(Candidate)
  PROVE  \A i \in Ids(s) : i \in Nat
<1>1. ASSUME NEW n \in DOMAIN s PROVE s[n].id \in Nat
  <2>1. s[n] \in Candidate
    OBVIOUS
  <2> QED
    BY <2>1 DEF Candidate
<1> QED
  BY <1>1 DEF Ids

LEMMA MinOfTwo ==
  ASSUME NEW a \in Nat, NEW b \in Nat
  PROVE  Min({a, b}) = IF a <= b THEN a ELSE b
BY DEF Min

(* A batch begins with the smallest id, leaves none out, and ends with the *)
(* last id or at its limit.                                                *)
LEMMA BatchRows ==
  ASSUME users \in Seq(Row), NEW S, S \subseteq DOMAIN users, NEW limit \in Nat \ {0}
  PROVE  LET b == Rows(S, limit)
         IN /\ b \in Seq(Candidate) /\ Increasing(b) /\ Ids(b) \subseteq S
            /\ b = <<>> => S = {}
            /\ \/ Len(b) < limit /\ Ids(b) = S
               \/ /\ Len(b) = limit
                  /\ \A i \in S : i <= b[limit].id => i \in Ids(b)
<1> DEFINE c == Cardinality(S)
           s == Ascending(S)
           b == Rows(S, limit)
<1>1. S \subseteq Nat /\ IsFiniteSet(S)
  <2>1. DOMAIN users = 1 .. Len(users) /\ Len(users) \in Nat
    OBVIOUS
  <2>2. IsFiniteSet(DOMAIN users)
    BY <2>1, FS_Interval
  <2> QED
    BY <2>1, <2>2, FS_Subset
<1>2. /\ c \in Nat
      /\ \A n \in 1 .. c : s[n] \in S
      /\ \A i \in S : \E n \in 1 .. c : s[n] = i
      /\ \A m, n \in 1 .. c : m < n => s[m] < s[n]
  BY <1>1, AscendingOrder
<1>3. PICK k \in Nat : k = Min({c, limit}) /\ k = IF c <= limit THEN c ELSE limit
  BY <1>2, MinOfTwo
<1>4. b = [n \in 1 .. k |-> [id |-> s[n], tags |-> users[s[n]].tags]]
  BY <1>3 DEF Rows
<1> HIDE DEF b, s, c
<1>5. ASSUME NEW n \in 1 .. k
      PROVE  n \in 1 .. c /\ s[n] \in S /\ s[n] \in Nat /\ users[s[n]].tags \in Texts
  <2>1. n \in 1 .. c
    BY <1>2, <1>3
  <2>2. PICK i \in S : i = s[n]
    BY <1>2, <2>1
  <2>3. i \in Nat /\ users[i] \in Row
    BY <1>1
  <2>4. users[i].tags \in Texts
    BY <2>3 DEF Row
  <2> QED
    BY <2>1, <2>2, <2>3, <2>4
<1>6. b \in Seq(Candidate) /\ Len(b) = k /\ DOMAIN b = 1 .. k
      /\ \A n \in 1 .. k : b[n].id = s[n]
  <2>1. b \in [1 .. k -> Candidate]
    BY <1>4, <1>5 DEF Candidate
  <2>2. DOMAIN b = 1 .. k /\ b \in Seq(Candidate)
    BY <2>1
  <2> QED
    BY <1>4, <2>1, <2>2
<1>7. Increasing(b) /\ Ids(b) \subseteq S
  BY <1>2, <1>5, <1>6 DEF Increasing, Ids
<1>8. b = <<>> => S = {}
  BY <1>2, <1>3, <1>6
<1>9. ASSUME k < limit PROVE Ids(b) = S
  <2>1. k = c
    BY <1>2, <1>3, <1>9
  <2>2. \A i \in S : \E n \in 1 .. k : b[n].id = i
    BY <1>2, <1>6, <2>1
  <2> QED
    BY <1>6, <1>7, <2>2 DEF Ids
<1>10. ASSUME k = limit, NEW i \in S, i <= b[limit].id PROVE i \in Ids(b)
  <2>1. PICK n \in 1 .. c : s[n] = i
    BY <1>2
  <2>2. limit \in 1 .. k /\ limit \in 1 .. c /\ i \in Nat
    BY <1>1, <1>2, <1>3, <1>10
  <2>5. b[limit].id = s[limit] /\ s[limit] \in Nat
    BY <1>5, <1>6, <2>2
  <2>3. ~ (limit < n)
    BY <1>2, <1>10, <2>1, <2>2, <2>5
  <2>4. n \in 1 .. k /\ b[n].id = i
    BY <1>2, <1>6, <1>10, <2>1, <2>3
  <2> QED
    BY <1>6, <2>4 DEF Ids
<1>11. \/ Len(b) < limit /\ Ids(b) = S
       \/ Len(b) = limit /\ \A i \in S : i <= b[limit].id => i \in Ids(b)
  <2>1. CASE k < limit
    BY <1>6, <1>9, <2>1
  <2>2. CASE k = limit
    BY <1>6, <1>10, <2>2
  <2> QED
    BY <1>2, <1>3, <2>1, <2>2
<1> QED
  BY <1>6, <1>7, <1>8, <1>11 DEF b

(* What a batch of later ids adds to what was loaded.                      *)
LEMMA Extend ==
  ASSUME NEW a \in Seq(Candidate), NEW b \in Seq(Candidate), Increasing(a), Increasing(b),
         \A i \in Ids(a), k \in Ids(b) : i < k
  PROVE  /\ a \o b \in Seq(Candidate) /\ Increasing(a \o b)
         /\ Ids(a \o b) = Ids(a) \cup Ids(b)
<1> DEFINE ab == a \o b
<1>1. PICK l \in Nat, n \in Nat : l = Len(a) /\ n = Len(b)
  OBVIOUS
<1>2. /\ DOMAIN a = 1 .. l /\ DOMAIN b = 1 .. n
      /\ ab \in Seq(Candidate) /\ Len(ab) = l + n /\ DOMAIN ab = 1 .. l + n
      /\ \A i \in 1 .. l : ab[i] = a[i]
      /\ \A i \in 1 .. n : ab[l + i] = b[i]
  BY <1>1
<1> HIDE DEF ab
<1>3. \A i \in 1 .. l + n : i \in 1 .. l \/ \E k \in 1 .. n : i = l + k
  <2> SUFFICES ASSUME NEW i \in 1 .. l + n, i \notin 1 .. l PROVE i - l \in 1 .. n /\ i = l + (i - l)
    OBVIOUS
  <2> QED
    OBVIOUS
<1>4. Ids(ab) = Ids(a) \cup Ids(b)
  <2>1. Ids(ab) \subseteq Ids(a) \cup Ids(b)
    <3> SUFFICES ASSUME NEW i \in 1 .. l + n PROVE ab[i].id \in Ids(a) \cup Ids(b)
      BY <1>2 DEF Ids
    <3>1. CASE i \in 1 .. l
      <4>1. i \in DOMAIN a /\ ab[i].id = a[i].id
        BY <1>2, <3>1
      <4> QED
        BY <4>1 DEF Ids
    <3>2. CASE i \notin 1 .. l
      <4>1. PICK k \in 1 .. n : i = l + k
        BY <1>3, <3>2
      <4>2. k \in DOMAIN b /\ ab[i].id = b[k].id
        BY <1>2, <4>1
      <4> QED
        BY <4>2 DEF Ids
    <3> QED
      BY <3>1, <3>2
  <2>2. \A i \in 1 .. l : i \in 1 .. l + n
    OBVIOUS
  <2>3. \A i \in 1 .. n : l + i \in 1 .. l + n
    OBVIOUS
  <2>4. Ids(a) \subseteq Ids(ab)
    BY <1>2, <2>2 DEF Ids
  <2>5. Ids(b) \subseteq Ids(ab)
    <3> SUFFICES ASSUME NEW i \in 1 .. n PROVE b[i].id \in Ids(ab)
      BY <1>2 DEF Ids
    <3>1. l + i \in DOMAIN ab /\ ab[l + i].id = b[i].id
      BY <1>2, <2>3
    <3> QED
      BY <3>1 DEF Ids
  <2> QED
    BY <2>1, <2>4, <2>5
<1>5. Increasing(ab)
  <2> SUFFICES ASSUME NEW i \in 1 .. l + n, NEW k \in 1 .. l + n, i < k
               PROVE  ab[i].id < ab[k].id
    BY <1>2 DEF Increasing
  <2>1. CASE k \in 1 .. l
    BY <1>2, <2>1 DEF Increasing
  <2>2. CASE i \in 1 .. l /\ k \notin 1 .. l
    <3>1. PICK m \in 1 .. n : k = l + m
      BY <1>3, <2>2
    <3> QED
      BY <1>2, <2>2, <3>1 DEF Ids
  <2>3. CASE i \notin 1 .. l /\ k \notin 1 .. l
    <3>1. PICK m \in 1 .. n, o \in 1 .. n : k = l + m /\ i = l + o
      BY <1>3, <2>3
    <3>2. o < m /\ m \in DOMAIN b /\ o \in DOMAIN b
      BY <1>2, <3>1
    <3>3. b[o].id < b[m].id
      BY <3>2 DEF Increasing
    <3> QED
      BY <1>2, <3>1, <3>3
  <2> QED
    BY <2>1, <2>2, <2>3
<1> QED
  BY <1>2, <1>4, <1>5 DEF ab
(* What a scan knows: what it has loaded is in order and did qualify; what *)
(* qualified all along still does, and is loaded up to the cursor.         *)
ScanKnows(p) == LET j == job[p] IN
  /\ pc[p] \in {"scan", "rank"} =>
       /\ j.all \in Seq(Candidate) /\ Increasing(j.all)
       /\ Ids(j.all) \subseteq ever[p]
  /\ pc[p] = "scan" =>
       /\ j.afterID \in Nat /\ \A i \in Ids(j.all) : i <= j.afterID
       /\ through[p] \subseteq Qualified(j.since)
       /\ Qualified(j.since) \subseteq ever[p]
       /\ \A i \in through[p] : i <= j.afterID => i \in Ids(j.all)
  /\ pc[p] = "rank" => through[p] \subseteq Ids(j.all)

ScanInv ==
  /\ DOMAIN job = Procs /\ \A p \in Procs : DOMAIN job[p] = DOMAIN NoJob
  /\ \A p \in Procs : ScanKnows(p)

(* The histories during a scan.                                            *)
LEMMA TrackScan ==
  ASSUME Track, NEW p \in Procs
  PROVE  /\ pc'[p] = "scan" /\ pc[p] = "idle" =>
              /\ through'[p] = Qualified(job[p].since)'
              /\ ever'[p] = ever[p] \cup Qualified(job[p].since)'
         /\ pc'[p] = "scan" /\ pc[p] = "scan" =>
              /\ through'[p] = through[p] \cap Qualified(job[p].since)'
              /\ ever'[p] = ever[p] \cup Qualified(job[p].since)'
         /\ pc'[p] = "rank" => through'[p] = through[p] /\ ever'[p] = ever[p]
BY DEF Track, Qualified

(* The steps of others may change rows; p goes on as before.               *)
LEMMA OthersKeepScan ==
  ASSUME ScanInv, Track, NEW p \in Procs, pc'[p] = pc[p], job'[p] = job[p]
  PROVE  ScanKnows(p)'
<1>1. ScanKnows(p)
  BY DEF ScanInv
<1>2. CASE pc[p] = "scan"
  <2>1. /\ through'[p] = through[p] \cap Qualified(job[p].since)'
        /\ ever'[p] = ever[p] \cup Qualified(job[p].since)'
    BY <1>2, TrackScan
  <2> QED
    BY <1>1, <1>2, <2>1 DEF ScanKnows
<1>3. CASE pc[p] = "rank"
  BY <1>1, <1>3, TrackScan DEF ScanKnows
<1>4. CASE pc[p] \notin {"scan", "rank"}
  BY <1>4 DEF ScanKnows
<1> QED
  BY <1>2, <1>3, <1>4

Fresh(j) == j.all = <<>> /\ j.afterID = 0 /\ DOMAIN j = DOMAIN NoJob

LEMMA FreshJob ==
  ASSUME NEW i, NEW t, NEW n, NEW z
  PROVE  /\ Fresh([NoJob EXCEPT !.login = i, !.tags = t, !.num = n, !.since = z])
         /\ Fresh([NoJob EXCEPT !.num = n, !.since = z])
BY DEF Fresh, NoJob

LEMMA StartKeepsScan ==
  ASSUME Explained', DOMAIN pc = Procs, ScanInv, Track, NEW p \in Procs, StartMatch(p)
  PROVE  ScanKnows(p)' /\ DOMAIN job'[p] = DOMAIN NoJob
<1>1. /\ job'[p].all = <<>> /\ job'[p].afterID = 0 /\ DOMAIN job'[p] = DOMAIN NoJob
  <2>1. PICK n, i : \/ job' = [job EXCEPT ![p] = [NoJob EXCEPT
                              !.login = i, !.tags = users[i].tags, !.num = n, !.since = Since]]
                    \/ job' = [job EXCEPT ![p] = [NoJob EXCEPT !.num = n, !.since = Since]]
    BY DEF StartMatch
  <2>2. PICK t, z : t = users[i].tags /\ z = Since
    OBVIOUS
  <2> DEFINE withLogin == [NoJob EXCEPT !.login = i, !.tags = t, !.num = n, !.since = z]
             without == [NoJob EXCEPT !.num = n, !.since = z]
  <2>3. /\ Fresh(withLogin) /\ Fresh(without)
        /\ job' = [job EXCEPT ![p] = withLogin] \/ job' = [job EXCEPT ![p] = without]
    BY <2>1, <2>2, FreshJob
  <2> HIDE DEF withLogin, without
  <2>4. DOMAIN job = Procs
    BY DEF ScanInv
  <2>5. job'[p] = withLogin \/ job'[p] = without
    BY <2>3, <2>4
  <2> QED
    BY <2>3, <2>5 DEF Fresh
<1>2. pc[p] = "idle" /\ pc'[p] = "scan"
  BY DEF StartMatch
<1>3. /\ through'[p] = Qualified(job[p].since)'
      /\ ever'[p] = ever[p] \cup Qualified(job[p].since)'
  BY <1>2, TrackScan
<1>4. ASSUME NEW i \in through'[p] PROVE i \in Nat \ {0}
  <2>1. users' \in Seq(Row)
    BY DEF Explained, CodeInv
  <2>2. i \in DOMAIN users'
    BY <1>3, <1>4 DEF Qualified
  <2> QED
    BY <2>1, <2>2
<1>5. \A i \in through'[p] : ~ (i <= 0)
  BY <1>4
<1>6. Ids(job'[p].all) = {} /\ Increasing(job'[p].all) /\ job'[p].all \in Seq(Candidate)
  BY <1>1 DEF Ids, Increasing
<1> QED
  BY <1>1, <1>2, <1>3, <1>5, <1>6 DEF ScanKnows

(* A batch moves the cursor behind what it has loaded; a short one has     *)
(* loaded all that is left.                                                *)
LEMMA BatchKeepsScan ==
  ASSUME Explained, ScanInv, Track, NEW p \in Procs, NextBatch(p)
  PROVE  ScanKnows(p)' /\ DOMAIN job'[p] = DOMAIN NoJob
<1> DEFINE S == {i \in Qualified(job[p].since) : i > job[p].afterID}
           b == Batch(job[p])
<1>1. /\ pc[p] = "scan" /\ ScanKnows(p) /\ users \in Seq(Row) /\ users' = users
      /\ DOMAIN job = Procs /\ DOMAIN job[p] = DOMAIN NoJob /\ DOMAIN pc = Procs
  BY DEF NextBatch, ScanInv, Explained, CodeInv
<1>2. /\ job[p].all \in Seq(Candidate) /\ Increasing(job[p].all)
      /\ Ids(job[p].all) \subseteq ever[p]
      /\ job[p].afterID \in Nat /\ \A i \in Ids(job[p].all) : i <= job[p].afterID
      /\ through[p] \subseteq Qualified(job[p].since)
      /\ Qualified(job[p].since) \subseteq ever[p]
      /\ \A i \in through[p] : i <= job[p].afterID => i \in Ids(job[p].all)
  BY <1>1 DEF ScanKnows
<1>3. /\ b \in Seq(Candidate) /\ Increasing(b) /\ Ids(b) \subseteq S
      /\ b = <<>> => S = {}
      /\ \/ Len(b) < warmBatchSize /\ Ids(b) = S
         \/ /\ Len(b) = warmBatchSize
            /\ \A i \in S : i <= b[warmBatchSize].id => i \in Ids(b)
  <2>1. S \subseteq DOMAIN users
    BY DEF Qualified
  <2>2. b = Rows(S, warmBatchSize)
    BY DEF Batch
  <2> HIDE DEF b, S
  <2> QED
    BY <1>1, <2>1, <2>2, BatchRows, MatchAssumption
<1>4. PICK a, all, c, batch : /\ a = job[p].afterID /\ all = job[p].all /\ batch = b
                              /\ c = IF batch = <<>> THEN a ELSE batch[Len(batch)].id
  OBVIOUS
<1>5. /\ job'[p].all = all \o batch /\ job'[p].afterID = c
      /\ job'[p].since = job[p].since /\ DOMAIN job'[p] = DOMAIN NoJob
  BY <1>1, <1>4 DEF NextBatch, NoJob, Last
<1>6. /\ all \o batch \in Seq(Candidate) /\ Increasing(all \o batch)
      /\ Ids(all \o batch) = Ids(all) \cup Ids(batch)
  <2>1. \A i \in Ids(all), k \in Ids(batch) : i < k
    <3> SUFFICES ASSUME NEW i \in Ids(all), NEW k \in Ids(batch) PROVE i < k
      OBVIOUS
    <3>1. i \in Nat /\ k \in Nat
      BY <1>2, <1>3, <1>4, IdsAreNumbers
    <3>2. i <= a /\ k > a /\ a \in Nat
      BY <1>2, <1>3, <1>4
    <3> QED
      BY <3>1, <3>2
  <2> QED
    BY <1>2, <1>3, <1>4, <2>1, Extend
<1>7. Ids(all \o batch) \subseteq ever[p]
  BY <1>2, <1>3, <1>4, <1>6
<1>8. Qualified(job[p].since)' = Qualified(job[p].since)
  BY <1>1, <1>5 DEF Qualified, Qualifies
<1>9. CASE Len(b) < warmBatchSize
  <2>1. pc'[p] = "rank"
    BY <1>1, <1>9 DEF NextBatch
  <2>2. through[p] \subseteq Ids(all \o batch)
    <3> SUFFICES ASSUME NEW i \in through[p] PROVE i \in Ids(all) \/ i \in S
      BY <1>3, <1>4, <1>6, <1>9
    <3>1. i \in DOMAIN users
      BY <1>2 DEF Qualified
    <3>2. i \in Nat
      BY <1>1, <3>1
    <3> QED
      BY <1>2, <1>4, <3>2
  <2> QED
    BY <1>5, <1>6, <1>7, <2>1, <2>2, TrackScan DEF ScanKnows
<1>10. CASE ~ (Len(b) < warmBatchSize)
  <2>1. /\ Len(batch) = warmBatchSize /\ batch \in Seq(Candidate) /\ batch # <<>>
        /\ \A i \in S : i <= batch[warmBatchSize].id => i \in Ids(batch)
    BY <1>3, <1>4, <1>10, MatchAssumption
  <2>2. warmBatchSize \in DOMAIN batch /\ c = batch[warmBatchSize].id
    BY <1>4, <2>1, MatchAssumption
  <2>3. c \in Nat /\ c \in Ids(batch) /\ c > a
    <3>1. c \in Ids(batch)
      BY <2>2 DEF Ids
    <3> QED
      BY <1>3, <1>4, <2>1, <3>1, IdsAreNumbers
  <2>4. ASSUME NEW i \in Ids(all \o batch) PROVE i <= c
    <3>1. CASE i \in Ids(all)
      <4>1. i \in Nat /\ i <= a /\ a \in Nat
        BY <1>2, <1>4, <3>1, IdsAreNumbers
      <4> QED
        BY <2>3, <4>1
    <3>2. CASE i \in Ids(batch)
      <4>1. PICK n \in DOMAIN batch : batch[n].id = i
        BY <3>2 DEF Ids
      <4>2. i \in Nat /\ n \in Nat /\ n <= warmBatchSize
        BY <2>1, <3>2, <4>1, IdsAreNumbers
      <4>3. n = warmBatchSize \/ batch[n].id < c
        BY <1>3, <1>4, <2>2, <4>1, <4>2, MatchAssumption DEF Increasing
      <4> QED
        BY <2>2, <2>3, <4>1, <4>2, <4>3
    <3> QED
      BY <1>6, <3>1, <3>2
  <2>5. ASSUME NEW i \in through[p], i <= c PROVE i \in Ids(all \o batch)
    <3>1. i \in DOMAIN users
      BY <1>2 DEF Qualified
    <3>2. i \in Nat
      BY <1>1, <3>1
    <3>3. CASE i <= a
      BY <1>2, <1>4, <1>6, <3>3
    <3>4. CASE i > a
      BY <1>2, <1>4, <1>6, <2>1, <2>2, <2>5, <3>4
    <3> QED
      BY <1>2, <1>4, <3>2, <3>3, <3>4
  <2>6. pc'[p] = "scan"
    BY <1>1, <1>10 DEF NextBatch
  <2>7. /\ through'[p] = through[p] \cap Qualified(job[p].since)
        /\ ever'[p] = ever[p] \cup Qualified(job[p].since)
    BY <1>1, <1>8, <2>6, TrackScan
  <2> QED
    BY <1>2, <1>5, <1>6, <1>7, <1>8, <2>3, <2>4, <2>5, <2>6, <2>7 DEF ScanKnows
<1> QED
  BY <1>5, <1>9, <1>10

LEMMA RankKeepsScan ==
  ASSUME ScanInv, Track, NEW p \in Procs, PickUser(p) \/ Rank(p)
  PROVE  ScanKnows(p)' /\ DOMAIN job'[p] = DOMAIN NoJob
<1>1. /\ job'[p].all = job[p].all /\ DOMAIN job'[p] = DOMAIN NoJob
      /\ pc[p] = "rank" /\ pc'[p] = pc[p] /\ ScanKnows(p)
  BY DEF PickUser, Rank, ScanInv, NoJob
<1> QED
  BY <1>1, TrackScan DEF ScanKnows

LEMMA LeaveKeepsScan ==
  ASSUME ScanInv, NEW p \in Procs, PopAll(p) \/ Reread(p) \/ EndMatch(p), DOMAIN pc = Procs
  PROVE  ScanKnows(p)' /\ DOMAIN job'[p] = DOMAIN NoJob
BY DEF PopAll, Reread, EndMatch, ScanInv, ScanKnows, NoJob

LEMMA ScanInit == Init => ScanInv
BY DEF Init, AccountInit, ScanInv, ScanKnows

LEMMA ScanStep ==
  ASSUME Explained, ScanInv, [Next]_vars, Explained'
  PROVE  ScanInv'
<1>1. DOMAIN pc = Procs
  BY DEF Explained, CodeInv
<1>2. ASSUME Track, NEW p \in Procs, AccountStep(p), job' = job PROVE ScanInv'
  <2>1. /\ pc[p] \in AccountStages /\ pc'[p] \in AccountStages
        /\ \A q \in Procs \ {p} : pc'[q] = pc[q]
    BY <1>1, <1>2 DEF AccountStep, RegisterAccount, RegisterCode, RegisterCreate,
         StartUpdate, UpdateWrite, RequestFails, Over, AccountStages
  <2>2. ScanKnows(p)'
    BY <2>1 DEF ScanKnows, AccountStages
  <2> QED
    BY <1>2, <2>1, <2>2, OthersKeepScan DEF ScanInv
<1>3. ASSUME Track, job' = job, pc' = pc PROVE ScanInv'
  BY <1>3, OthersKeepScan DEF ScanInv
<1>4. ASSUME Track, NEW p \in Matchers, MatchStep(p) PROVE ScanInv'
  <2>1. p \in Procs
    BY MatchAssumption
  <2>2. /\ DOMAIN job' = Procs
        /\ \A q \in Procs \ {p} : pc'[q] = pc[q] /\ job'[q] = job[q]
    BY <1>1, <1>4 DEF ScanInv, MatchStep, StartMatch, NextBatch, PickUser, Rank, PopAll,
         Reread, EndMatch
  <2>3. ScanKnows(p)' /\ DOMAIN job'[p] = DOMAIN NoJob
    BY <1>1, <1>4, <2>1, StartKeepsScan, BatchKeepsScan, RankKeepsScan, LeaveKeepsScan
       DEF MatchStep
  <2> QED
    BY <1>4, <2>1, <2>2, <2>3, OthersKeepScan DEF ScanInv
<1>5. CASE UNCHANGED vars
  BY <1>5 DEF vars, accountVars, ScanInv, ScanKnows, Qualified, Qualifies
<1> QED
  BY <1>2, <1>3, <1>4, <1>5 DEF Next, Step, SoftDelete, Tick

(* A scan has loaded every user that qualified all the time, none that     *)
(* never did, each once, although rows changed, came and went between its  *)
(* batches: the cursor is an id, and ids do not move (match.go:72-90).     *)
THEOREM ScanIsExact == Spec => []ScanExact
<1>1. ASSUME ScanInv PROVE ScanExact
  BY <1>1 DEF ScanInv, ScanKnows, ScanExact, Increasing, Ids
<1> QED
  BY <1>1, InitExplained, ExplainedStep, ScanInit, ScanStep, PTL DEF Spec

-----------------------------------------------------------------------------
(* The edit distance.                                                      *)

(* Every non-empty set of naturals has a least element: the initial        *)
(* segments below its elements are finite sets, and one is least.          *)
LEMMA LeastNatural ==
  ASSUME NEW T \in SUBSET Nat, T # {}
  PROVE  \E m \in T : \A n \in T : m <= n
<1> DEFINE Below(m) == 0 .. (m - 1)
           Segments == {Below(m) : m \in T}
<1>1. Segments \subseteq FiniteSubsetsOf(Nat)
  <2>1. ASSUME NEW m \in T
        PROVE  Below(m) \in SUBSET Nat /\ IsFiniteSet(Below(m))
    <3>1. 0 \in Int /\ m - 1 \in Int
      OBVIOUS
    <3> QED
      BY <3>1, FS_Interval
  <2> HIDE DEF Below
  <2> QED
    BY <2>1 DEF FiniteSubsetsOf
<1>2. PICK s \in Segments :
        \A r \in Segments : ~ (<<r, s>> \in StrictSubsetOrdering(Nat))
  <2> HIDE DEF Segments
  <2>1. Segments # {}
    BY DEF Segments
  <2> QED
    BY <1>1, <2>1, FS_StrictSubsetOrderingWellFounded, WFMin
<1>3. PICK m \in T : s = Below(m)
  OBVIOUS
<1>4. ASSUME NEW n \in T, n < m PROVE FALSE
  <2>1. Below(n) \subseteq Below(m) /\ Below(n) # Below(m)
    <3>1. n \in Below(m) /\ n \notin Below(n)
      BY <1>4
    <3> QED
      BY <3>1, <1>4
  <2>2. Below(n) \in Segments
    OBVIOUS
  <2>3. Below(n) \in SUBSET Nat /\ Below(m) \in SUBSET Nat
    OBVIOUS
  <2>4. <<Below(n), Below(m)>> \in StrictSubsetOrdering(Nat)
    <3> HIDE DEF Below
    <3> QED
      BY <2>1, <2>3 DEF StrictSubsetOrdering
  <2> HIDE DEF Below
  <2> QED
    BY <1>2, <1>3, <2>2, <2>4
<1> QED
  BY <1>4

(* Induction over the natural numbers, for a set instead of a formula.     *)
LEMMA EveryNatural ==
  ASSUME NEW S, 0 \in S, \A n \in Nat : n \in S => n + 1 \in S
  PROVE  Nat \subseteq S
<1> DEFINE T == Nat \ S
<1>1. SUFFICES ASSUME T # {} PROVE FALSE
  OBVIOUS
<1>2. PICK m \in T : \A n \in T : m <= n
  <2> HIDE DEF T
  <2>1. T \subseteq Nat
    BY DEF T
  <2> QED
    BY <1>1, <2>1, LeastNatural
<1>3. m \in Nat /\ m # 0 /\ m - 1 \in Nat /\ ~ (m <= m - 1)
  OBVIOUS
<1>4. m - 1 \in S
  BY <1>2, <1>3
<1>5. m - 1 + 1 = m
  BY <1>3
<1>6. m \in S
  BY <1>3, <1>4, <1>5
<1> QED
  BY <1>6

Listing(s) == Len(s) \in Nat /\ DOMAIN s = 1 .. Len(s)
Cells(s, t) == (0 .. Len(s)) \X (0 .. Len(t))

(* d is the table of minDistance, or its part up to the k-th diagonal.     *)
Table(d, s, t) == d = [ij \in Cells(s, t) |-> Cell(d, s, t, ij[1], ij[2])]
FilledTo(d, s, t, k) ==
  \A i \in 0 .. Len(s), j \in 0 .. Len(t) :
    i + j <= k => d[<<i, j>>] = Cell(d, s, t, i, j)

(* A cell depends on the three before it.                                  *)
LEMMA CellReads ==
  ASSUME NEW s, NEW t, NEW d, NEW e, NEW i \in Nat, NEW j \in Nat,
         i # 0 /\ j # 0 =>
           /\ d[<<i - 1, j>>] = e[<<i - 1, j>>] /\ d[<<i, j - 1>>] = e[<<i, j - 1>>]
           /\ d[<<i - 1, j - 1>>] = e[<<i - 1, j - 1>>]
  PROVE  Cell(d, s, t, i, j) = Cell(e, s, t, i, j)
BY DEF Cell

LEMMA NextDiagonal ==
  ASSUME NEW s, NEW t, Listing(s), Listing(t), NEW k \in Nat, NEW d, FilledTo(d, s, t, k)
  PROVE  \E e : DOMAIN e = Cells(s, t) /\ FilledTo(e, s, t, k + 1)
<1> DEFINE e == [ij \in Cells(s, t) |-> IF ij[1] + ij[2] <= k THEN d[ij]
                                        ELSE Cell(d, s, t, ij[1], ij[2])]
<1>1. ASSUME NEW i \in 0 .. Len(s), NEW j \in 0 .. Len(t)
      PROVE  e[<<i, j>>] = IF i + j <= k THEN d[<<i, j>>] ELSE Cell(d, s, t, i, j)
  BY DEF Cells
<1> HIDE DEF e
<1>2. ASSUME NEW i \in 0 .. Len(s), NEW j \in 0 .. Len(t), i + j <= k + 1
      PROVE  e[<<i, j>>] = Cell(e, s, t, i, j)
  <2>1. i \in Nat /\ j \in Nat /\ Len(s) \in Nat /\ Len(t) \in Nat
    BY DEF Listing
  <2>2. ASSUME i # 0, j # 0
        PROVE  /\ i - 1 \in 0 .. Len(s) /\ j - 1 \in 0 .. Len(t)
               /\ i - 1 + j <= k /\ i + (j - 1) <= k /\ i - 1 + (j - 1) <= k
    BY <1>2, <2>1, <2>2
  <2>3. ASSUME i # 0, j # 0
        PROVE  /\ d[<<i - 1, j>>] = e[<<i - 1, j>>] /\ d[<<i, j - 1>>] = e[<<i, j - 1>>]
               /\ d[<<i - 1, j - 1>>] = e[<<i - 1, j - 1>>]
    <3>1. e[<<i - 1, j>>] = d[<<i - 1, j>>]
      BY <1>1, <2>2, <2>3
    <3>2. e[<<i, j - 1>>] = d[<<i, j - 1>>]
      BY <1>1, <2>2, <2>3
    <3>3. e[<<i - 1, j - 1>>] = d[<<i - 1, j - 1>>]
      BY <1>1, <2>2, <2>3
    <3> QED
      BY <3>1, <3>2, <3>3
  <2>4. Cell(d, s, t, i, j) = Cell(e, s, t, i, j)
    BY <2>1, <2>3, CellReads
  <2>5. CASE i + j <= k
    BY <1>1, <2>4, <2>5 DEF FilledTo
  <2>6. CASE ~ (i + j <= k)
    BY <1>1, <2>4, <2>6
  <2> QED
    BY <2>5, <2>6
<1>3. DOMAIN e = Cells(s, t)
  BY DEF e
<1> QED
  BY <1>2, <1>3 DEF FilledTo

LEMMA TableExists ==
  ASSUME NEW s, NEW t, Listing(s), Listing(t)
  PROVE  \E d : Table(d, s, t)
<1> DEFINE K == {k \in Nat : \E d : DOMAIN d = Cells(s, t) /\ FilledTo(d, s, t, k)}
<1>1. Nat \subseteq K
  <2>1. 0 \in K
    <3> DEFINE d == [ij \in Cells(s, t) |-> 0]
    <3>1. ASSUME NEW i \in 0 .. Len(s), NEW j \in 0 .. Len(t), i + j <= 0
          PROVE  d[<<i, j>>] = Cell(d, s, t, i, j)
      <4>1. i = 0 /\ j = 0 /\ <<i, j>> \in Cells(s, t)
        BY <3>1 DEF Listing, Cells
      <4> QED
        BY <4>1 DEF Cell
    <3>2. DOMAIN d = Cells(s, t)
      OBVIOUS
    <3> HIDE DEF d
    <3> QED
      BY <3>1, <3>2 DEF FilledTo
  <2>2. ASSUME NEW k \in Nat, k \in K PROVE k + 1 \in K
    BY <2>2, NextDiagonal
  <2> HIDE DEF K
  <2> QED
    BY <2>1, <2>2, EveryNatural
<1>2. Len(s) + Len(t) \in Nat
  BY DEF Listing
<1>3. PICK d : DOMAIN d = Cells(s, t) /\ FilledTo(d, s, t, Len(s) + Len(t))
  BY <1>1, <1>2
<1> DEFINE e == [ij \in Cells(s, t) |-> Cell(d, s, t, ij[1], ij[2])]
<1>4. ASSUME NEW i \in 0 .. Len(s), NEW j \in 0 .. Len(t)
      PROVE  e[<<i, j>>] = d[<<i, j>>]
  <2>1. e[<<i, j>>] = Cell(d, s, t, i, j)
    BY DEF Cells
  <2>2. i + j <= Len(s) + Len(t)
    BY DEF Listing
  <2> QED
    BY <1>3, <2>1, <2>2 DEF FilledTo
<1>5. ASSUME NEW i \in 0 .. Len(s), NEW j \in 0 .. Len(t)
      PROVE  Cell(e, s, t, i, j) = Cell(d, s, t, i, j)
  <2>1. i \in Nat /\ j \in Nat
    BY DEF Listing
  <2>2. ASSUME i # 0, j # 0
        PROVE  i - 1 \in 0 .. Len(s) /\ j - 1 \in 0 .. Len(t)
    BY <2>1, <2>2 DEF Listing
  <2> HIDE DEF e
  <2>3. i # 0 /\ j # 0 =>
          /\ e[<<i - 1, j>>] = d[<<i - 1, j>>] /\ e[<<i, j - 1>>] = d[<<i, j - 1>>]
          /\ e[<<i - 1, j - 1>>] = d[<<i - 1, j - 1>>]
    BY <1>4, <2>2
  <2> QED
    BY <2>1, <2>3, CellReads
<1>6. ASSUME NEW ij \in Cells(s, t)
      PROVE  Cell(d, s, t, ij[1], ij[2]) = Cell(e, s, t, ij[1], ij[2])
  BY <1>5 DEF Cells
<1>7. e = [ij \in Cells(s, t) |-> Cell(e, s, t, ij[1], ij[2])]
  <2> DEFINE f == [ij \in Cells(s, t) |-> Cell(e, s, t, ij[1], ij[2])]
  <2> QED
    BY <1>6
<1> QED
  BY <1>7 DEF Table

LEMMA TableUsed ==
  ASSUME NEW s, NEW t, Listing(s), Listing(t)
  PROVE  \E d : Table(d, s, t) /\ minDistance(s, t) = d[<<Len(s), Len(t)>>]
<1> DEFINE h == CHOOSE d : Table(d, s, t)
<1>1. Table(h, s, t)
  BY TableExists
<1>2. minDistance(s, t) = h[<<Len(s), Len(t)>>]
  BY DEF minDistance, Table, Cells
<1> QED
  BY <1>1, <1>2

-----------------------------------------------------------------------------
(* What the table holds is the least cost of a matching in order.          *)
Pairs(i, j) == (1 .. i) \X (1 .. j)
Matchings(i, j) == {M \in SUBSET Pairs(i, j) : InOrder(M)}
Differing(s, t, M) == {x \in M : s[x[1]] # t[x[2]]}
Cost(s, t, i, j, M) == i + j - 2 * Cardinality(M) + Cardinality(Differing(s, t, M))

LeastCost(v, s, t, i, j) ==
  /\ v \in Nat
  /\ \E M \in Matchings(i, j) : Cost(s, t, i, j, M) = v
  /\ \A M \in Matchings(i, j) : v <= Cost(s, t, i, j, M)

LEMMA MatchingSizes ==
  ASSUME NEW s, NEW t, NEW i \in Nat, NEW j \in Nat, NEW M \in SUBSET Pairs(i, j)
  PROVE  /\ IsFiniteSet(M) /\ Cardinality(M) \in Nat
         /\ IsFiniteSet(Differing(s, t, M)) /\ Cardinality(Differing(s, t, M)) \in Nat
         /\ Cost(s, t, i, j, M) \in Int
<1>1. IsFiniteSet(Pairs(i, j))
  <2>1. 1 \in Int /\ i \in Int /\ j \in Int
    OBVIOUS
  <2>2. IsFiniteSet(1 .. i) /\ IsFiniteSet(1 .. j)
    BY <2>1, FS_Interval
  <2> QED
    BY <2>2, FS_Product DEF Pairs
<1>2. IsFiniteSet(M) /\ Cardinality(M) \in Nat
  BY <1>1, FS_Subset, FS_CardinalityType
<1>3. IsFiniteSet(Differing(s, t, M)) /\ Cardinality(Differing(s, t, M)) \in Nat
  <2>1. Differing(s, t, M) \in SUBSET M
    BY DEF Differing
  <2> QED
    BY <1>2, <2>1, FS_Subset, FS_CardinalityType
<1> QED
  BY <1>2, <1>3 DEF Cost

(* A matching of prefixes is one of longer prefixes, at the cost of an     *)
(* unmatched place.                                                        *)
LEMMA PlaceLeft ==
  ASSUME NEW s, NEW t, NEW i \in Nat, NEW j \in Nat, NEW M
  PROVE  /\ i # 0 => /\ M \in Matchings(i - 1, j) => M \in Matchings(i, j)
                     /\ M \in Matchings(i - 1, j) =>
                          Cost(s, t, i, j, M) = Cost(s, t, i - 1, j, M) + 1
         /\ j # 0 => /\ M \in Matchings(i, j - 1) => M \in Matchings(i, j)
                     /\ M \in Matchings(i, j - 1) =>
                          Cost(s, t, i, j, M) = Cost(s, t, i, j - 1, M) + 1
<1>1. ASSUME i # 0, M \in Matchings(i - 1, j)
      PROVE  M \in Matchings(i, j) /\ Cost(s, t, i, j, M) = Cost(s, t, i - 1, j, M) + 1
  <2>1. M \in Matchings(i, j)
    <3>1. Pairs(i - 1, j) \subseteq Pairs(i, j)
      BY <1>1 DEF Pairs
    <3> QED
      BY <1>1, <3>1 DEF Matchings
  <2>2. Cardinality(M) \in Nat /\ Cardinality(Differing(s, t, M)) \in Nat
    BY <2>1, MatchingSizes DEF Matchings
  <2> QED
    BY <1>1, <2>1, <2>2 DEF Cost
<1>2. ASSUME j # 0, M \in Matchings(i, j - 1)
      PROVE  M \in Matchings(i, j) /\ Cost(s, t, i, j, M) = Cost(s, t, i, j - 1, M) + 1
  <2>1. M \in Matchings(i, j)
    <3>1. Pairs(i, j - 1) \subseteq Pairs(i, j)
      BY <1>2 DEF Pairs
    <3> QED
      BY <1>2, <3>1 DEF Matchings
  <2>2. Cardinality(M) \in Nat /\ Cardinality(Differing(s, t, M)) \in Nat
    BY <2>1, MatchingSizes DEF Matchings
  <2> QED
    BY <1>2, <2>1, <2>2 DEF Cost
<1> QED
  BY <1>1, <1>2

Replacing(s, t, i, j) == IF s[i] = t[j] THEN 0 ELSE 1

(* A matching without and with the pair of the last places.                *)
LEMMA PlacesMatched ==
  ASSUME NEW s, NEW t, NEW i \in Nat, NEW j \in Nat, i # 0, j # 0,
         NEW M \in SUBSET Pairs(i - 1, j - 1)
  PROVE  LET N == M \cup {<<i, j>>}
         IN /\ InOrder(M) => N \in Matchings(i, j)
            /\ Cost(s, t, i, j, N) = Cost(s, t, i - 1, j - 1, M) + Replacing(s, t, i, j)
<1> DEFINE N == M \cup {<<i, j>>}
<1>1. ASSUME NEW x \in M
      PROVE  x[1] < i /\ x[2] < j /\ x \in Pairs(i, j)
  <2>1. PICK a \in 1 .. (i - 1), b \in 1 .. (j - 1) : x = <<a, b>>
    BY DEF Pairs
  <2> QED
    BY <2>1 DEF Pairs
<1>2. <<i, j>> \notin M
  <2>1. ~ (i < i)
    OBVIOUS
  <2> QED
    BY <1>1, <2>1
<1>3. InOrder(M) => N \in Matchings(i, j)
  <2>1. <<i, j>> \in Pairs(i, j)
    BY DEF Pairs
  <2>2. N \in SUBSET Pairs(i, j)
    BY <1>1, <2>1
  <2>3. ASSUME InOrder(M), NEW x \in N, NEW y \in N, x # y
        PROVE  (x[1] < y[1] /\ x[2] < y[2]) \/ (y[1] < x[1] /\ y[2] < x[2])
    <3>1. CASE x \in M /\ y \in M
      BY <2>3, <3>1 DEF InOrder
    <3>2. CASE x = <<i, j>> \/ y = <<i, j>>
      BY <1>1, <2>3, <3>2
    <3> QED
      BY <3>1, <3>2
  <2>4. InOrder(M) => InOrder(N)
    BY <2>3 DEF InOrder
  <2> QED
    BY <2>2, <2>4 DEF Matchings
<1>4. /\ IsFiniteSet(M) /\ Cardinality(M) \in Nat
      /\ IsFiniteSet(Differing(s, t, M)) /\ Cardinality(Differing(s, t, M)) \in Nat
  <2>1. i - 1 \in Nat /\ j - 1 \in Nat
    OBVIOUS
  <2> QED
    BY <2>1, MatchingSizes
<1>5. Cardinality(N) = Cardinality(M) + 1
  BY <1>2, <1>4, FS_AddElement
<1>6. Cardinality(Differing(s, t, N)) =
        Cardinality(Differing(s, t, M)) + Replacing(s, t, i, j)
  <2>1. CASE s[i] = t[j]
    <3>1. Differing(s, t, N) = Differing(s, t, M)
      BY <2>1 DEF Differing
    <3> QED
      BY <1>4, <2>1, <3>1 DEF Replacing
  <2>2. CASE s[i] # t[j]
    <3>1. Differing(s, t, N) = Differing(s, t, M) \cup {<<i, j>>}
      BY <2>2 DEF Differing
    <3>2. <<i, j>> \notin Differing(s, t, M)
      BY <1>2 DEF Differing
    <3>3. Cardinality(Differing(s, t, M) \cup {<<i, j>>}) = Cardinality(Differing(s, t, M)) + 1
      BY <1>4, <3>2, FS_AddElement
    <3> QED
      BY <2>2, <3>1, <3>3 DEF Replacing
  <2> QED
    BY <2>1, <2>2
<1>7. Cost(s, t, i, j, N) = Cost(s, t, i - 1, j - 1, M) + Replacing(s, t, i, j)
  <2>1. Replacing(s, t, i, j) \in Nat
    BY DEF Replacing
  <2> HIDE DEF N
  <2> QED
    BY <1>4, <1>5, <1>6, <2>1 DEF Cost
<1> QED
  BY <1>3, <1>7

(* A matching leaves one of the last places unmatched or matches them with *)
(* each other, for matches do not cross.                                   *)
LEMMA LastPlaces ==
  ASSUME NEW i \in Nat, NEW j \in Nat, i # 0, j # 0, NEW M \in Matchings(i, j)
  PROVE  \/ M \in Matchings(i - 1, j)
         \/ M \in Matchings(i, j - 1)
         \/ \E K \in Matchings(i - 1, j - 1) : M = K \cup {<<i, j>>}
<1>1. M \in SUBSET Pairs(i, j) /\ InOrder(M)
  BY DEF Matchings
<1>2. ASSUME NEW x \in M
      PROVE  /\ x = <<x[1], x[2]>> /\ x[1] \in 1 .. i /\ x[2] \in 1 .. j
             /\ x[1] # i => x[1] \in 1 .. (i - 1)
             /\ x[2] # j => x[2] \in 1 .. (j - 1)
  BY <1>1 DEF Pairs
<1>3. CASE \A x \in M : x[1] # i
  <2>1. M \in SUBSET Pairs(i - 1, j)
    BY <1>2, <1>3 DEF Pairs
  <2> QED
    BY <1>1, <2>1 DEF Matchings
<1>4. CASE \A x \in M : x[2] # j
  <2>1. M \in SUBSET Pairs(i, j - 1)
    BY <1>2, <1>4 DEF Pairs
  <2> QED
    BY <1>1, <2>1 DEF Matchings
<1>5. ASSUME NEW x \in M, NEW y \in M, x[1] = i, y[2] = j
      PROVE  \E K \in Matchings(i - 1, j - 1) : M = K \cup {<<i, j>>}
  <2>1. ASSUME NEW z \in M PROVE z[1] \in Nat /\ z[2] \in Nat /\ z[1] <= i /\ z[2] <= j
    BY <1>2
  <2>2. x = y
    BY <1>1, <1>5, <2>1 DEF InOrder
  <2>3. x = <<i, j>>
    BY <1>2, <1>5, <2>2
  <2> DEFINE K == M \ {x}
  <2>4. ASSUME NEW z \in K PROVE z[1] # i /\ z[2] # j
    <3>1. (z[1] < x[1] /\ z[2] < x[2]) \/ (x[1] < z[1] /\ x[2] < z[2])
      BY <1>1 DEF InOrder
    <3> QED
      BY <2>1, <2>2, <3>1, <1>5
  <2>5. K \in SUBSET Pairs(i - 1, j - 1)
    BY <1>2, <2>4 DEF Pairs
  <2>6. InOrder(K)
    BY <1>1 DEF InOrder
  <2> QED
    BY <2>3, <2>5, <2>6 DEF Matchings
<1> QED
  BY <1>3, <1>4, <1>5

LEMMA MinOfThree ==
  ASSUME NEW a \in Nat, NEW b \in Nat, NEW c \in Nat
  PROVE  /\ Min({a, b, c}) \in {a, b, c}
         /\ Min({a, b, c}) <= a /\ Min({a, b, c}) <= b /\ Min({a, b, c}) <= c
<1>1. \E m \in {a, b, c} : \A n \in {a, b, c} : m <= n
  OBVIOUS
<1> QED
  BY <1>1 DEF Min

(* One cell from the three before it.                                      *)
LEMMA CellIsLeast ==
  ASSUME NEW s, NEW t, NEW i \in Nat, NEW j \in Nat, i # 0, j # 0, NEW d,
         LeastCost(d[<<i - 1, j>>], s, t, i - 1, j),
         LeastCost(d[<<i, j - 1>>], s, t, i, j - 1),
         LeastCost(d[<<i - 1, j - 1>>], s, t, i - 1, j - 1)
  PROVE  LeastCost(Cell(d, s, t, i, j), s, t, i, j)
<1> DEFINE r == Replacing(s, t, i, j)
<1>1. PICK a \in Nat, b \in Nat, c \in Nat :
        a = d[<<i - 1, j>>] /\ b = d[<<i, j - 1>>] /\ c = d[<<i - 1, j - 1>>]
  BY DEF LeastCost
<1>2. PICK v : v = Cell(d, s, t, i, j)
  OBVIOUS
<1>3. r \in Nat
  BY DEF Replacing
<1>4. v = Min({a + 1, b + 1, c + r})
  BY <1>1, <1>2 DEF Cell, Replacing
<1> HIDE DEF r
<1>5. v \in {a + 1, b + 1, c + r} /\ v <= a + 1 /\ v <= b + 1 /\ v <= c + r
  <2>1. PICK x \in Nat, y \in Nat, z \in Nat : x = a + 1 /\ y = b + 1 /\ z = c + r
    BY <1>3
  <2>2. v = Min({x, y, z})
    BY <1>4, <2>1
  <2>3. v \in {x, y, z} /\ v <= x /\ v <= y /\ v <= z
    BY <2>2, MinOfThree
  <2> QED
    BY <2>1, <2>3
<1>6. \E M \in Matchings(i, j) : Cost(s, t, i, j, M) = v
  <2>1. CASE v = a + 1
    <3>1. PICK M \in Matchings(i - 1, j) : Cost(s, t, i - 1, j, M) = a
      BY <1>1 DEF LeastCost
    <3> QED
      BY <2>1, <3>1, PlaceLeft
  <2>2. CASE v = b + 1
    <3>1. PICK M \in Matchings(i, j - 1) : Cost(s, t, i, j - 1, M) = b
      BY <1>1 DEF LeastCost
    <3> QED
      BY <2>2, <3>1, PlaceLeft
  <2>3. CASE v = c + r
    <3>1. PICK M \in Matchings(i - 1, j - 1) : Cost(s, t, i - 1, j - 1, M) = c
      BY <1>1 DEF LeastCost
    <3>2. M \in SUBSET Pairs(i - 1, j - 1) /\ InOrder(M)
      BY DEF Matchings
    <3>3. /\ M \cup {<<i, j>>} \in Matchings(i, j)
          /\ Cost(s, t, i, j, M \cup {<<i, j>>}) = c + r
      BY <3>1, <3>2, PlacesMatched DEF r
    <3> QED
      BY <2>3, <3>3
  <2> QED
    BY <1>5, <2>1, <2>2, <2>3
<1>7. ASSUME NEW M \in Matchings(i, j) PROVE v <= Cost(s, t, i, j, M)
  <2>1. v \in Nat
    BY <1>3, <1>5
  <2>2. CASE M \in Matchings(i - 1, j)
    <3>1. PICK w \in Int : w = Cost(s, t, i - 1, j, M)
      <4>1. i - 1 \in Nat
        OBVIOUS
      <4> QED
        BY <2>2, <4>1, MatchingSizes DEF Matchings
    <3>2. a <= w
      BY <1>1, <2>2, <3>1 DEF LeastCost
    <3>3. Cost(s, t, i, j, M) = w + 1
      <4>1. Cost(s, t, i, j, M) = Cost(s, t, i - 1, j, M) + 1
        BY <2>2, PlaceLeft
      <4> QED
        BY <3>1, <4>1
    <3> QED
      BY <1>5, <2>1, <3>2, <3>3
  <2>3. CASE M \in Matchings(i, j - 1)
    <3>1. PICK w \in Int : w = Cost(s, t, i, j - 1, M)
      <4>1. j - 1 \in Nat
        OBVIOUS
      <4> QED
        BY <2>3, <4>1, MatchingSizes DEF Matchings
    <3>2. b <= w
      BY <1>1, <2>3, <3>1 DEF LeastCost
    <3>3. Cost(s, t, i, j, M) = w + 1
      <4>1. Cost(s, t, i, j, M) = Cost(s, t, i, j - 1, M) + 1
        BY <2>3, PlaceLeft
      <4> QED
        BY <3>1, <4>1
    <3> QED
      BY <1>5, <2>1, <3>2, <3>3
  <2>4. ASSUME NEW K \in Matchings(i - 1, j - 1), M = K \cup {<<i, j>>}
        PROVE  v <= Cost(s, t, i, j, M)
    <3>1. PICK w \in Int : w = Cost(s, t, i - 1, j - 1, K)
      <4>1. i - 1 \in Nat /\ j - 1 \in Nat
        OBVIOUS
      <4> QED
        BY <4>1, MatchingSizes DEF Matchings
    <3>2. c <= w
      BY <1>1, <3>1 DEF LeastCost
    <3>3. Cost(s, t, i, j, M) = w + r
      <4>1. K \in SUBSET Pairs(i - 1, j - 1)
        BY DEF Matchings
      <4> QED
        BY <2>4, <3>1, <4>1, PlacesMatched DEF r
    <3> QED
      BY <1>3, <1>5, <2>1, <3>2, <3>3
  <2> QED
    BY <2>2, <2>3, <2>4, LastPlaces
<1>8. v \in Nat
  BY <1>3, <1>5
<1> QED
  BY <1>2, <1>6, <1>7, <1>8 DEF LeastCost

(* Where one of the prefixes is empty there is nothing to match.           *)
LEMMA BorderIsLeast ==
  ASSUME NEW s, NEW t, NEW i \in Nat, NEW j \in Nat, i = 0 \/ j = 0, NEW d
  PROVE  LeastCost(Cell(d, s, t, i, j), s, t, i, j)
<1>1. Pairs(i, j) = {}
  BY DEF Pairs
<1>2. Matchings(i, j) = {{}}
  BY <1>1 DEF Matchings, InOrder
<1>3. Cost(s, t, i, j, {}) = i + j
  <2>1. Differing(s, t, {}) = {}
    BY DEF Differing
  <2> QED
    BY <2>1, FS_EmptySet DEF Cost
<1> QED
  BY <1>2, <1>3 DEF LeastCost, Cell

LEMMA TableIsLeast ==
  ASSUME NEW s, NEW t, Listing(s), Listing(t), NEW d, Table(d, s, t),
         NEW i \in 0 .. Len(s), NEW j \in 0 .. Len(t)
  PROVE  LeastCost(d[<<i, j>>], s, t, i, j)
<1> DEFINE K == {k \in Nat : \A x \in 0 .. Len(s), y \in 0 .. Len(t) :
                               x + y <= k => LeastCost(d[<<x, y>>], s, t, x, y)}
<1>1. ASSUME NEW x \in 0 .. Len(s), NEW y \in 0 .. Len(t)
      PROVE  /\ d[<<x, y>>] = Cell(d, s, t, x, y)
             /\ x \in Nat /\ y \in Nat
  BY DEF Table, Cells, Listing
<1>2. Nat \subseteq K
  <2>1. 0 \in K
    <3>1. ASSUME NEW x \in 0 .. Len(s), NEW y \in 0 .. Len(t), x + y <= 0
          PROVE  LeastCost(d[<<x, y>>], s, t, x, y)
      <4>1. x = 0
        BY <1>1, <3>1
      <4> QED
        BY <1>1, <4>1, BorderIsLeast
    <3> QED
      BY <3>1
  <2>2. ASSUME NEW k \in Nat, k \in K PROVE k + 1 \in K
    <3>1. ASSUME NEW x \in 0 .. Len(s), NEW y \in 0 .. Len(t), x + y <= k + 1
          PROVE  LeastCost(d[<<x, y>>], s, t, x, y)
      <4>1. CASE x = 0 \/ y = 0
        BY <1>1, <4>1, BorderIsLeast
      <4>2. CASE x # 0 /\ y # 0
        <5>1. /\ x - 1 \in 0 .. Len(s) /\ y - 1 \in 0 .. Len(t)
              /\ x - 1 + y <= k /\ x + (y - 1) <= k /\ x - 1 + (y - 1) <= k
          <6>1. PICK l \in Nat, n \in Nat : l = Len(s) /\ n = Len(t)
            BY DEF Listing
          <6>2. x \in 1 .. l /\ y \in 1 .. n /\ x + y <= k + 1
            BY <1>1, <3>1, <4>2, <6>1
          <6>3. x - 1 \in 0 .. l /\ y - 1 \in 0 .. n
            BY <6>2
          <6>4. x - 1 + y <= k /\ x + (y - 1) <= k /\ x - 1 + (y - 1) <= k
            BY <6>2
          <6> QED
            BY <6>1, <6>3, <6>4
        <5>2. ASSUME NEW u \in 0 .. Len(s), NEW w \in 0 .. Len(t), u + w <= k
              PROVE  LeastCost(d[<<u, w>>], s, t, u, w)
          BY <2>2, <5>2
        <5>3. LeastCost(d[<<x - 1, y>>], s, t, x - 1, y)
          BY <5>1, <5>2
        <5>4. LeastCost(d[<<x, y - 1>>], s, t, x, y - 1)
          BY <5>1, <5>2
        <5>5. LeastCost(d[<<x - 1, y - 1>>], s, t, x - 1, y - 1)
          BY <5>1, <5>2
        <5>6. LeastCost(Cell(d, s, t, x, y), s, t, x, y)
          BY <1>1, <4>2, <5>3, <5>4, <5>5, CellIsLeast
        <5> QED
          BY <1>1, <5>6
      <4> QED
        BY <4>1, <4>2
    <3> QED
      BY <3>1
  <2> HIDE DEF K
  <2> QED
    BY <2>1, <2>2, EveryNatural
<1>3. i + j \in Nat /\ i + j <= i + j
  BY <1>1
<1> QED
  BY <1>2, <1>3

(* minDistance (distance.go:3-33) computes the edit distance: no matching  *)
(* of the two lists in order costs less than what its table holds in the   *)
(* last cell, and one costs that much.                                     *)
THEOREM MinDistanceIsLeast ==
  ASSUME NEW s, NEW t, Listing(s), Listing(t)
  PROVE  minDistance(s, t) \in Nat /\ minDistance(s, t) = EditDistance(s, t)
<1> DEFINE n == Len(s)
           m == Len(t)
           Costs == {Cost(s, t, n, m, M) : M \in Matchings(n, m)}
<1>1. PICK v : v = minDistance(s, t) /\ LeastCost(v, s, t, n, m)
  <2>1. PICK d : Table(d, s, t) /\ minDistance(s, t) = d[<<n, m>>]
    BY TableUsed
  <2>2. n \in 0 .. Len(s) /\ m \in 0 .. Len(t)
    BY DEF Listing
  <2>3. LeastCost(d[<<n, m>>], s, t, n, m)
    BY <2>1, <2>2, TableIsLeast
  <2> QED
    BY <2>1, <2>3
<1>2. EditDistance(s, t) = Min(Costs)
  BY DEF EditDistance, Cost, Differing, Matchings, Pairs, Listing
<1>3. v \in Costs /\ \A w \in Costs : v <= w /\ w \in Int
  <2>1. \A M \in Matchings(n, m) : Cost(s, t, n, m, M) \in Int
    BY MatchingSizes DEF Matchings, Listing
  <2> QED
    BY <1>1, <2>1 DEF LeastCost
<1>4. v \in Nat
  BY <1>1 DEF LeastCost
<1>5. Min(Costs) = v
  <2> HIDE DEF Costs
  <2>1. \A w \in Costs : (\A u \in Costs : w <= u) => w = v
    BY <1>3, <1>4
  <2> QED
    BY <1>3, <2>1 DEF Min
<1> QED
  BY <1>1, <1>2, <1>4, <1>5

-----------------------------------------------------------------------------
(* Types.                                                                  *)

(* Registrations under way leave room for their rows below MaxUsers.       *)
Room ==
  /\ IsFiniteSet(Registering)
  /\ Len(users) + Cardinality(Registering) <= MaxUsers

Job ==
  [login : 0 .. MaxUsers, tags : TagLists \cup {<<>>}, num : Nums \cup {0},
   since : 0 .. MaxTime, afterID : 0 .. MaxUsers, all : Seq(Candidates), next : Nat \ {0},
   heap : SUBSET Scored, ids : Seq(1 .. MaxUsers)]

JobOK(j) ==
  j \in Job /\ j.next <= Len(j.all) + 1 /\ IsFiniteSet(j.heap) /\ Cardinality(j.heap) <= j.num

Stages == AccountStages \cup MatchStages

Typing ==
  /\ AccountTypeOK /\ Room /\ pc \in [Procs -> Stages]
  /\ DOMAIN job = Procs /\ \A p \in Procs : JobOK(job[p])
  /\ through \in [Procs -> SUBSET (1 .. MaxUsers)]
  /\ ever \in [Procs -> SUBSET (1 .. MaxUsers)]

Score(j, c) == [id |-> c.id, distance |-> minDistance(j.tags, ParseTags(c.tags))]

BoundedForm ==
  [account : Names \cup {""}, code : Codes \cup {""}, tags : Texts,
   target : 0 .. MaxUsers, saw : 0 .. MaxUsers]

LEMMA NothingTyped == NoForm \in BoundedForm /\ JobOK(NoJob) /\ NoJob.next = 1
<1>1. 0 \in 0 .. MaxUsers /\ 0 \in 0 .. MaxTime
  BY AccountAssumption
<1>2. NoForm \in BoundedForm
  BY <1>1 DEF NoForm, BoundedForm, Texts
<1>3. NoJob \in Job
  BY <1>1 DEF NoJob, Job
<1>4. NoJob.heap = {} /\ NoJob.num = 0 /\ NoJob.next = 1 /\ NoJob.all = <<>>
  BY DEF NoJob
<1> QED
  BY <1>2, <1>3, <1>4, FS_EmptySet DEF JobOK

LEMMA TypesOf ==
  ASSUME Typing
  PROVE  /\ users \in Seq(UserRow) /\ Len(users) <= MaxUsers /\ Len(users) \in Nat
         /\ now \in 0 .. MaxTime /\ writes \in 0 .. MaxWrites
         /\ form \in [Procs -> BoundedForm] /\ pc \in [Procs -> Stages]
         /\ IsFiniteSet(Registering) /\ Cardinality(Registering) \in Nat
         /\ Len(users) + Cardinality(Registering) <= MaxUsers
         /\ MaxUsers \in Nat /\ MaxTime \in Nat /\ MaxWrites \in Nat
<1>1. /\ users \in Seq(UserRow) /\ Len(users) <= MaxUsers
      /\ now \in 0 .. MaxTime /\ writes \in 0 .. MaxWrites
      /\ form \in [Procs -> BoundedForm] /\ pc \in [Procs -> Stages]
      /\ IsFiniteSet(Registering) /\ Len(users) + Cardinality(Registering) <= MaxUsers
  BY DEF Typing, AccountTypeOK, BoundedForm, Room
<1>2. Len(users) \in Nat
  BY <1>1
<1>3. Cardinality(Registering) \in Nat
  BY <1>1, FS_CardinalityType
<1>4. MaxUsers \in Nat /\ MaxTime \in Nat /\ MaxWrites \in Nat
  BY AccountAssumption
<1> QED
  BY <1>1, <1>2, <1>3, <1>4

(* One write more, below the bound.                                        *)
LEMMA OneMore ==
  ASSUME NEW m \in Nat, NEW w \in 0 .. m, w < m
  PROVE  w + 1 \in 0 .. m
OBVIOUS

(* The steps of accounts, by what they do to the table and the forms.      *)
LEMMA RoomKept ==
  ASSUME Typing, NEW p \in Procs,
         \/ Len(users') = Len(users) /\ Registering' = Registering
         \/ /\ Len(users') = Len(users) /\ p \notin Registering
            /\ Registering' = Registering \cup {p}
            /\ Len(users) + Cardinality(Registering) < MaxUsers
         \/ /\ Len(users') \in {Len(users), Len(users) + 1} /\ p \in Registering
            /\ Registering' = Registering \ {p}
  PROVE  Room'
<1>1. /\ IsFiniteSet(Registering) /\ Cardinality(Registering) \in Nat
      /\ Len(users) + Cardinality(Registering) <= MaxUsers
      /\ Len(users) \in Nat /\ MaxUsers \in Nat
  BY TypesOf
<1>2. CASE Len(users') = Len(users) /\ Registering' = Registering
  BY <1>1, <1>2 DEF Room
<1>3. CASE /\ Len(users') = Len(users) /\ p \notin Registering
           /\ Registering' = Registering \cup {p}
           /\ Len(users) + Cardinality(Registering) < MaxUsers
  <2>1. /\ IsFiniteSet(Registering \cup {p})
        /\ Cardinality(Registering \cup {p}) = Cardinality(Registering) + 1
    BY <1>1, <1>3, FS_AddElement
  <2> QED
    BY <1>1, <1>3, <2>1 DEF Room
<1>4. CASE /\ Len(users') \in {Len(users), Len(users) + 1} /\ p \in Registering
           /\ Registering' = Registering \ {p}
  <2>1. /\ IsFiniteSet(Registering \ {p})
        /\ Cardinality(Registering \ {p}) = Cardinality(Registering) - 1
    BY <1>1, <1>4, FS_RemoveElement
  <2> QED
    BY <1>1, <1>4, <2>1 DEF Room
<1> QED
  BY <1>2, <1>3, <1>4

(* The end of a request.                                                   *)
LEMMA OverTyped ==
  ASSUME Typing, NEW p \in Procs, Over(p)
  PROVE  /\ form' \in [Procs -> BoundedForm] /\ pc' \in [Procs -> Stages]
         /\ Registering' = Registering \ {p}
<1>1. form \in [Procs -> BoundedForm] /\ pc \in [Procs -> Stages]
  BY DEF Typing, AccountTypeOK, BoundedForm
<1>2. form' \in [Procs -> BoundedForm]
  BY <1>1, NothingTyped DEF Over
<1> QED
  BY <1>1, <1>2 DEF Over, Stages, AccountStages, Registering

LEMMA AccountsTyped ==
  ASSUME Typing, CodeInv, NEW p \in Procs, AccountStep(p)
  PROVE  AccountTypeOK' /\ Room' /\ pc' \in [Procs -> Stages]
<1>1. /\ users \in Seq(UserRow) /\ Len(users) <= MaxUsers /\ Len(users) \in Nat
      /\ now \in 0 .. MaxTime /\ writes \in 0 .. MaxWrites
      /\ form \in [Procs -> BoundedForm] /\ pc \in [Procs -> Stages]
      /\ MaxUsers \in Nat /\ MaxTime \in Nat /\ MaxWrites \in Nat
  BY TypesOf
<1>2. SUFFICES /\ users' \in Seq(UserRow) /\ Room' /\ pc' \in [Procs -> Stages]
               /\ now' = now /\ writes' \in 0 .. MaxWrites
               /\ form' \in [Procs -> BoundedForm]
  <2>1. ASSUME users' \in Seq(UserRow), Room' PROVE Len(users') <= MaxUsers
    <3>1. Cardinality(Registering') \in Nat /\ Len(users') \in Nat
      BY <2>1, FS_CardinalityType DEF Room
    <3>2. Len(users') + Cardinality(Registering') <= MaxUsers
      BY <2>1 DEF Room
    <3> QED
      BY <1>1, <3>1, <3>2
  <2> QED
    BY <1>1, <1>2, <2>1 DEF AccountTypeOK, BoundedForm
<1>3. ASSUME RegisterAccount(p)
      PROVE  /\ users' = users /\ now' = now /\ writes' \in 0 .. MaxWrites
             /\ Room' /\ pc' \in [Procs -> Stages] /\ form' \in [Procs -> BoundedForm]
  <2>1. /\ pc[p] = "idle" /\ writes < MaxWrites /\ writes' = writes + 1
        /\ pc' = [pc EXCEPT ![p] = "code"] /\ UNCHANGED <<users, now>>
        /\ Len(users) + Cardinality(Registering) < MaxUsers
    BY <1>3 DEF RegisterAccount
  <2>2. PICK r \in Registrations :
          form' = [form EXCEPT ![p].account = r.account, ![p].code = r.code]
    BY <1>3 DEF RegisterAccount
  <2>3. r.account \in Names /\ r.code \in Codes
    BY AccountAssumption
  <2>4. form' \in [Procs -> BoundedForm]
    BY <1>1, <2>2, <2>3 DEF BoundedForm
  <2>5. p \notin Registering /\ Registering' = Registering \cup {p}
    BY <1>1, <2>1 DEF Registering
  <2>6. Room'
    BY <2>1, <2>5, RoomKept
  <2>7. pc' \in [Procs -> Stages]
    BY <1>1, <2>1 DEF Stages, AccountStages
  <2>8. writes' \in 0 .. MaxWrites
    BY <1>1, <2>1, OneMore
  <2> QED
    BY <2>1, <2>4, <2>6, <2>7, <2>8
<1>4. ASSUME RegisterCode(p)
      PROVE  /\ users' = users /\ now' = now /\ writes' = writes
             /\ Room' /\ pc' \in [Procs -> Stages] /\ form' \in [Procs -> BoundedForm]
  <2>1. pc[p] = "code" /\ UNCHANGED <<users, now, writes>> /\ p \in Registering
    BY <1>4 DEF RegisterCode, Registering
  <2>2. CASE Over(p)
    BY <2>1, <2>2, OverTyped, RoomKept
  <2>3. CASE /\ pc' = [pc EXCEPT ![p] = "create"]
             /\ form' = [form EXCEPT ![p].saw = Len(users)]
    <3>1. Registering' = Registering
      BY <1>1, <2>1, <2>3 DEF Registering
    <3>2. form' \in [Procs -> BoundedForm]
      <4> DEFINE f == [form[p] EXCEPT !.saw = Len(users)]
      <4>1. Len(users) \in 0 .. MaxUsers
        BY <1>1
      <4>2. f \in BoundedForm
        BY <1>1, <4>1 DEF BoundedForm
      <4>3. form' = [form EXCEPT ![p] = f]
        BY <2>3
      <4> HIDE DEF f
      <4> QED
        BY <1>1, <4>2, <4>3
    <3>3. pc' \in [Procs -> Stages]
      BY <1>1, <2>3 DEF Stages, AccountStages
    <3>4. Len(users') = Len(users) /\ Room'
      BY <2>1, <3>1, RoomKept
    <3> QED
      BY <2>1, <3>2, <3>3, <3>4
  <2> QED
    BY <1>4, <2>2, <2>3 DEF RegisterCode
<1>5. ASSUME RegisterCreate(p)
      PROVE  /\ users' \in Seq(UserRow) /\ now' = now /\ writes' = writes
             /\ Room' /\ pc' \in [Procs -> Stages] /\ form' \in [Procs -> BoundedForm]
  <2>1. /\ pc[p] = "create" /\ Over(p) /\ UNCHANGED <<now, writes>> /\ p \in Registering
        /\ form[p].account \in Names /\ form[p].code \in Codes
    BY <1>5 DEF RegisterCreate, Registering, CodeInv
  <2> DEFINE row == [account |-> form[p].account, code |-> form[p].code,
                     tags |-> NoTags, deleted |-> FALSE, updated |-> now,
                     codeBy |-> "register", saw |-> form[p].saw]
  <2>2. row \in UserRow
    BY <1>1, <2>1 DEF UserRow, BoundedForm, Texts
  <2>3. users' = users \/ users' = Append(users, row)
    BY <1>5 DEF RegisterCreate
  <2> HIDE DEF row
  <2>4. users' \in Seq(UserRow) /\ Len(users') \in {Len(users), Len(users) + 1}
    BY <1>1, <2>2, <2>3
  <2> QED
    BY <2>1, <2>4, OverTyped, RoomKept
<1>6. ASSUME StartUpdate(p)
      PROVE  /\ users' = users /\ now' = now /\ writes' \in 0 .. MaxWrites
             /\ Room' /\ pc' \in [Procs -> Stages] /\ form' \in [Procs -> BoundedForm]
  <2>1. /\ pc[p] = "idle" /\ writes < MaxWrites /\ writes' = writes + 1
        /\ pc' = [pc EXCEPT ![p] = "write"] /\ UNCHANGED <<users, now>>
    BY <1>6 DEF StartUpdate
  <2>2. PICK caller \in DOMAIN users, target \in DOMAIN users, f \in Forms :
          form' = [form EXCEPT ![p] = [account |-> f.account, code |-> f.code,
                                       tags |-> f.tags, target |-> target, saw |-> 0]]
    BY <1>6 DEF StartUpdate
  <2>3. /\ f.account \in Names /\ f.code \in Codes /\ f.tags \in Texts
        /\ target \in 0 .. MaxUsers
    BY <1>1, AccountAssumption
  <2> DEFINE g == [account |-> f.account, code |-> f.code,
                   tags |-> f.tags, target |-> target, saw |-> 0]
  <2>4. g \in BoundedForm
    <3>1. PICK a \in Names, c \in Codes, x \in Texts, n \in 0 .. MaxUsers :
            a = f.account /\ c = f.code /\ x = f.tags /\ n = 0
      BY <1>1, <2>3
    <3> QED
      BY <2>3, <3>1 DEF BoundedForm
  <2>5. form' = [form EXCEPT ![p] = g]
    BY <2>2
  <2> HIDE DEF g
  <2>6. form' \in [Procs -> BoundedForm]
    BY <1>1, <2>4, <2>5
  <2>7. Registering' = Registering
    BY <1>1, <2>1 DEF Registering
  <2>8. Len(users') = Len(users) /\ Room'
    BY <2>1, <2>7, RoomKept
  <2>9. pc' \in [Procs -> Stages]
    BY <1>1, <2>1 DEF Stages, AccountStages
  <2>10. writes' \in 0 .. MaxWrites
    BY <1>1, <2>1, OneMore
  <2> QED
    BY <2>1, <2>6, <2>8, <2>9, <2>10
<1>7. ASSUME UpdateWrite(p)
      PROVE  /\ users' \in Seq(UserRow) /\ now' = now /\ writes' = writes
             /\ Room' /\ pc' \in [Procs -> Stages] /\ form' \in [Procs -> BoundedForm]
  <2>1. /\ pc[p] = "write" /\ Over(p) /\ UNCHANGED <<now, writes>> /\ p \notin Registering
        /\ form[p].account \in Names /\ form[p].code \in Codes /\ form[p].tags \in Texts
    BY <1>1, <1>7 DEF UpdateWrite, Registering, CodeInv, BoundedForm
  <2> DEFINE t == form[p].target
             row == Rewritten(users[t], form[p], now)
  <2>2. users' = users \/ users' = [users EXCEPT ![t] = row]
    BY <1>7 DEF UpdateWrite, Rewritten
  <2>3. t \in DOMAIN users
    BY <2>1 DEF CodeInv
  <2>4. row \in UserRow
    <3>1. users[t] \in UserRow
      BY <1>1, <2>3
    <3> QED
      BY <1>1, <2>1, <3>1 DEF UserRow, Rewritten
  <2> HIDE DEF row, t
  <2>5. users' \in Seq(UserRow) /\ Len(users') = Len(users)
    BY <1>1, <2>2, <2>3, <2>4
  <2>6. Registering' = Registering
    BY <2>1, OverTyped
  <2> QED
    BY <2>1, <2>5, <2>6, OverTyped, RoomKept
<1>8. ASSUME RequestFails(p)
      PROVE  /\ users' = users /\ now' = now /\ writes' = writes
             /\ Room' /\ pc' \in [Procs -> Stages] /\ form' \in [Procs -> BoundedForm]
  <2>1. Over(p) /\ UNCHANGED <<users, now, writes>>
    BY <1>8 DEF RequestFails
  <2>2. CASE p \in Registering
    BY <2>1, <2>2, OverTyped, RoomKept
  <2>3. CASE p \notin Registering
    <3>1. Registering' = Registering
      BY <2>1, <2>3, OverTyped
    <3> QED
      BY <2>1, <3>1, OverTyped, RoomKept
  <2> QED
    BY <2>2, <2>3
<1> QED
  BY <1>1, <1>3, <1>4, <1>5, <1>6, <1>7, <1>8 DEF AccountStep

(* A deletion and the clock.                                               *)
LEMMA OutsideTyped ==
  ASSUME Typing, (\E i \in DOMAIN users : SoftDelete(i)) \/ Tick
  PROVE  AccountTypeOK' /\ Room' /\ pc' \in [Procs -> Stages]
<1>1. /\ users \in Seq(UserRow) /\ Len(users) <= MaxUsers
      /\ now \in 0 .. MaxTime /\ writes \in 0 .. MaxWrites
      /\ form \in [Procs -> BoundedForm] /\ pc \in [Procs -> Stages]
      /\ MaxTime \in Nat /\ MaxWrites \in Nat /\ Room
  BY TypesOf DEF Room
<1>2. SUFFICES /\ users' \in Seq(UserRow) /\ Len(users') = Len(users)
               /\ now' \in 0 .. MaxTime /\ writes' \in 0 .. MaxWrites
               /\ UNCHANGED <<pc, form>>
  BY <1>1, <1>2 DEF AccountTypeOK, BoundedForm, Room, Registering
<1>3. CASE Tick
  <2>1. now < MaxTime /\ now' = now + 1 /\ UNCHANGED <<users, writes, pc, form>>
    BY <1>3 DEF Tick
  <2>2. now' \in 0 .. MaxTime
    BY <1>1, <2>1, OneMore
  <2> QED
    BY <1>1, <2>1, <2>2
<1>4. ASSUME NEW i \in DOMAIN users, SoftDelete(i)
      PROVE  /\ users' \in Seq(UserRow) /\ Len(users') = Len(users)
             /\ now' \in 0 .. MaxTime /\ writes' \in 0 .. MaxWrites
             /\ UNCHANGED <<pc, form>>
  <2> DEFINE row == [users[i] EXCEPT !.deleted = TRUE]
  <2>1. row \in UserRow
    <3>1. users[i] \in UserRow
      BY <1>1
    <3> QED
      BY <3>1 DEF UserRow
  <2>2. /\ users' = [users EXCEPT ![i] = row] /\ writes < MaxWrites /\ writes' = writes + 1
        /\ UNCHANGED <<now, pc, form>>
    BY <1>4 DEF SoftDelete
  <2> HIDE DEF row
  <2>3. users' \in Seq(UserRow) /\ Len(users') = Len(users)
    BY <1>1, <2>1, <2>2
  <2>4. writes' \in 0 .. MaxWrites
    BY <1>1, <2>2, OneMore
  <2> QED
    BY <1>1, <2>2, <2>3, <2>4
<1> QED
  BY <1>3, <1>4

(* The steps of a match.                                                   *)
LEMMA TagsAreListings ==
  ASSUME NEW t \in TagLists \cup {<<>>}
  PROVE  Listing(t)
BY AccountAssumption DEF Listing

LEMMA ParsedTags ==
  ASSUME NEW t
  PROVE  /\ ParseTags(t) \in TagLists \cup {<<>>}
         /\ ParseTags(t) # <<>> => t \in TagLists /\ ParseTags(t) = t
BY DEF ParseTags

LEMMA ScoreTyped ==
  ASSUME NEW j, NEW c, j.tags \in TagLists \cup {<<>>}, c.id \in 1 .. MaxUsers
  PROVE  Score(j, c) \in Scored
<1>1. minDistance(j.tags, ParseTags(c.tags)) \in Nat
  BY TagsAreListings, ParsedTags, MinDistanceIsLeast
<1> QED
  BY <1>1 DEF Score, Scored

LEMMA KeptTyped ==
  ASSUME NEW heap \in SUBSET Scored, IsFiniteSet(heap), NEW num \in Nat,
         Cardinality(heap) <= num, NEW s \in Scored, NEW h \in Kept(heap, s, num)
  PROVE  h \in SUBSET Scored /\ IsFiniteSet(h) /\ Cardinality(h) <= num
<1>1. Cardinality(heap) \in Nat
  BY FS_CardinalityType
<1>2. CASE Cardinality(heap) < num /\ h = heap \cup {s}
  <2>1. IsFiniteSet(h) /\ Cardinality(h) \in {Cardinality(heap), Cardinality(heap) + 1}
    BY <1>2, FS_AddElement
  <2> QED
    BY <1>1, <1>2, <2>1
<1>3. CASE h = heap
  BY <1>3
<1>4. ASSUME NEW far \in heap, h = (heap \ {far}) \cup {s}
      PROVE  h \in SUBSET Scored /\ IsFiniteSet(h) /\ Cardinality(h) <= num
  <2>1. /\ IsFiniteSet(heap \ {far})
        /\ Cardinality(heap \ {far}) = Cardinality(heap) - 1
    BY FS_RemoveElement
  <2>2. /\ IsFiniteSet(h)
        /\ Cardinality(h) \in {Cardinality(heap \ {far}), Cardinality(heap \ {far}) + 1}
    BY <1>4, <2>1, FS_AddElement
  <2> QED
    BY <1>1, <1>4, <2>1, <2>2
<1> QED
  BY <1>2, <1>3, <1>4 DEF Kept

(* The batch of a scan.                                                    *)
LEMMA BatchTyped ==
  ASSUME Typing, CodeInv, NEW j \in Job
  PROVE  /\ Batch(j) \in Seq(Candidates)
         /\ \A n \in DOMAIN Batch(j) : Batch(j)[n].id \in DOMAIN users
         /\ Batch(j) # <<>> => Last(Batch(j)).id \in 1 .. MaxUsers
<1> DEFINE S == {i \in Qualified(j.since) : i > j.afterID}
           b == Batch(j)
<1>1. /\ users \in Seq(Row) /\ S \subseteq DOMAIN users /\ b = Rows(S, warmBatchSize)
  BY DEF CodeInv, Qualified, Batch
<1> HIDE DEF S, b
<1>2. b \in Seq(Candidate) /\ Ids(b) \subseteq DOMAIN users
  BY <1>1, BatchRows, MatchAssumption
<1>3. DOMAIN users \subseteq 1 .. MaxUsers
  BY TypesOf
<1>4. ASSUME NEW n \in DOMAIN b
      PROVE  b[n] \in Candidates /\ b[n].id \in DOMAIN users /\ b[n].id \in 1 .. MaxUsers
  <2>1. b[n] \in Candidate
    BY <1>2
  <2>2. b[n].id \in DOMAIN users
    BY <1>2 DEF Ids
  <2> QED
    BY <1>3, <2>1, <2>2 DEF Candidate, Candidates
<1>5. b \in Seq(Candidates)
  <2>1. DOMAIN b = 1 .. Len(b) /\ Len(b) \in Nat
    BY <1>2
  <2>2. b = [n \in 1 .. Len(b) |-> b[n]]
    BY <1>2
  <2> QED
    BY <1>4, <2>1, <2>2
<1>6. b # <<>> => Len(b) \in DOMAIN b
  BY <1>2
<1> QED
  BY <1>4, <1>5, <1>6 DEF b, Last

LEMMA StartTyped ==
  ASSUME Typing, NEW p \in Procs, StartMatch(p)
  PROVE  \E j : JobOK(j) /\ job' = [job EXCEPT ![p] = j]
<1>1. PICK n \in Nums :
        \/ \E i \in DOMAIN users :
             /\ ParseTags(users[i].tags) # <<>>
             /\ job' = [job EXCEPT ![p] = [NoJob EXCEPT
                          !.login = i, !.tags = users[i].tags, !.num = n, !.since = Since]]
        \/ job' = [job EXCEPT ![p] = [NoJob EXCEPT !.num = n, !.since = Since]]
  BY DEF StartMatch
<1>2. PICK z \in 0 .. MaxTime : z = Since
  <2>1. now \in 0 .. MaxTime /\ matchActiveWindow \in Nat /\ MaxTime \in Nat
    BY TypesOf, MatchAssumption
  <2>2. Since \in 0 .. MaxTime
    BY <2>1 DEF Since
  <2> QED
    BY <2>2
<1>3. NoJob \in Job /\ NoJob.heap = {} /\ NoJob.next = 1 /\ NoJob.all = <<>>
  BY NothingTyped DEF JobOK, NoJob
<1>4. n \in Nat /\ 0 <= n /\ IsFiniteSet({}) /\ Cardinality({}) = 0
  BY MatchAssumption, FS_EmptySet
<1>5. CASE job' = [job EXCEPT ![p] = [NoJob EXCEPT !.num = n, !.since = Since]]
  <2> DEFINE j == [NoJob EXCEPT !.num = n, !.since = z]
  <2>1. /\ j \in Job /\ j.heap = {} /\ j.next = 1 /\ j.all = <<>> /\ j.num = n
    BY <1>2, <1>3 DEF Job
  <2>2. job' = [job EXCEPT ![p] = j]
    BY <1>2, <1>5
  <2> HIDE DEF j
  <2>3. JobOK(j)
    BY <1>4, <2>1 DEF JobOK
  <2> QED
    BY <2>2, <2>3
<1>6. ASSUME NEW i \in DOMAIN users, ParseTags(users[i].tags) # <<>>,
             job' = [job EXCEPT ![p] = [NoJob EXCEPT
                       !.login = i, !.tags = users[i].tags, !.num = n, !.since = Since]]
      PROVE  \E j : JobOK(j) /\ job' = [job EXCEPT ![p] = j]
  <2>1. PICK t \in TagLists : t = users[i].tags
    BY <1>6, ParsedTags
  <2>2. i \in 0 .. MaxUsers
    BY TypesOf
  <2> DEFINE j == [NoJob EXCEPT !.login = i, !.tags = t, !.num = n, !.since = z]
  <2>3. /\ j \in Job /\ j.heap = {} /\ j.next = 1 /\ j.all = <<>> /\ j.num = n
    BY <1>2, <1>3, <2>2 DEF Job
  <2>4. job' = [job EXCEPT ![p] = j]
    BY <1>2, <1>6, <2>1
  <2> HIDE DEF j
  <2>5. JobOK(j)
    BY <1>4, <2>3 DEF JobOK
  <2> QED
    BY <2>4, <2>5
<1> QED
  BY <1>1, <1>5, <1>6

LEMMA NextBatchTyped ==
  ASSUME Typing, CodeInv, NEW p \in Procs, NextBatch(p)
  PROVE  \E j : JobOK(j) /\ job' = [job EXCEPT ![p] = j]
<1>1. DOMAIN job = Procs /\ JobOK(job[p])
  BY DEF Typing
<1>2. PICK j, b : j = job[p] /\ b = Batch(job[p])
  OBVIOUS
<1>3. PICK a \in 0 .. MaxUsers : a = IF b = <<>> THEN j.afterID ELSE Last(b).id
  <2>1. j.afterID \in 0 .. MaxUsers
    BY <1>1, <1>2 DEF JobOK, Job
  <2>2. b # <<>> => Last(b).id \in 1 .. MaxUsers
    BY <1>1, <1>2, BatchTyped DEF JobOK
  <2> QED
    BY <2>1, <2>2
<1>4. PICK all \in Seq(Candidates) : all = j.all \o b /\ Len(all) >= Len(j.all)
  <2>1. j.all \in Seq(Candidates) /\ b \in Seq(Candidates)
    BY <1>1, <1>2, BatchTyped DEF JobOK, Job
  <2>2. /\ j.all \o b \in Seq(Candidates) /\ Len(j.all \o b) = Len(j.all) + Len(b)
        /\ Len(b) \in Nat /\ Len(j.all) \in Nat
    BY <2>1
  <2>3. Len(j.all \o b) >= Len(j.all)
    BY <2>2
  <2> QED
    BY <2>2, <2>3
<1> DEFINE k == [j EXCEPT !.all = all, !.afterID = a]
<1>5. job' = [job EXCEPT ![p] = k]
  BY <1>1, <1>2, <1>3, <1>4 DEF NextBatch
<1>6. JobOK(k)
  <2>1. j \in Job /\ j.next \in Nat /\ Len(j.all) \in Nat
    BY <1>1, <1>2 DEF JobOK, Job
  <2>2. /\ k \in Job /\ k.next = j.next /\ k.all = all /\ k.heap = j.heap /\ k.num = j.num
    BY <2>1 DEF Job
  <2> HIDE DEF k
  <2> QED
    BY <1>1, <1>2, <1>4, <2>1, <2>2 DEF JobOK
<1> QED
  BY <1>5, <1>6

LEMMA PickTyped ==
  ASSUME Typing, NEW p \in Procs, PickUser(p)
  PROVE  \E j : JobOK(j) /\ job' = [job EXCEPT ![p] = j]
<1>1. DOMAIN job = Procs /\ JobOK(job[p])
  BY DEF Typing
<1>2. PICK j : j = job[p]
  OBVIOUS
<1>3. PICK c \in ToSet(j.all) :
        /\ ParseTags(c.tags) # <<>>
        /\ job' = [job EXCEPT ![p].login = c.id, ![p].tags = c.tags]
  BY <1>2 DEF PickUser
<1>4. c \in Candidates
  <2>1. j.all \in Seq(Candidates)
    BY <1>1, <1>2 DEF JobOK, Job
  <2> QED
    BY <2>1 DEF ToSet
<1>5. PICK i \in 0 .. MaxUsers, t \in TagLists : i = c.id /\ t = c.tags
  BY <1>3, <1>4, ParsedTags DEF Candidates
<1> DEFINE k == [j EXCEPT !.login = i, !.tags = t]
<1>6. job' = [job EXCEPT ![p] = k]
  BY <1>1, <1>2, <1>3, <1>5
<1>7. JobOK(k)
  BY <1>1, <1>2 DEF JobOK, Job
<1> QED
  BY <1>6, <1>7

LEMMA RankTyped ==
  ASSUME Typing, NEW p \in Procs, Rank(p)
  PROVE  \E j : JobOK(j) /\ job' = [job EXCEPT ![p] = j]
<1>1. DOMAIN job = Procs /\ JobOK(job[p])
  BY DEF Typing
<1>2. PICK j : j = job[p]
  OBVIOUS
<1>3. /\ j \in Job /\ j.next \in Nat \ {0} /\ j.next <= Len(j.all) /\ j.all \in Seq(Candidates)
      /\ j.heap \in SUBSET Scored /\ IsFiniteSet(j.heap) /\ Cardinality(j.heap) <= j.num
      /\ j.num \in Nat /\ j.tags \in TagLists \cup {<<>>}
  BY <1>1, <1>2, MatchAssumption DEF JobOK, Job, Rank
<1>4. PICK c \in Candidates : c = j.all[j.next]
  BY <1>3
<1>5. PICK h : /\ h \in (IF Rankable(j, c) THEN Kept(j.heap, Score(j, c), j.num) ELSE {j.heap})
               /\ job' = [job EXCEPT ![p].heap = h, ![p].next = @ + 1]
  BY <1>2, <1>4 DEF Rank, Score
<1>6. h \in SUBSET Scored /\ IsFiniteSet(h) /\ Cardinality(h) <= j.num
  <2>1. Score(j, c) \in Scored
    BY <1>3, <1>4, ScoreTyped DEF Candidates
  <2> QED
    BY <1>3, <1>5, <2>1, KeptTyped
<1>7. PICK n \in Nat \ {0} : n = j.next + 1 /\ n <= Len(j.all) + 1
  BY <1>3
<1> DEFINE k == [j EXCEPT !.heap = h, !.next = n]
<1>8. job' = [job EXCEPT ![p] = k]
  BY <1>1, <1>2, <1>5, <1>7
<1>9. JobOK(k)
  BY <1>3, <1>6, <1>7 DEF JobOK, Job
<1> QED
  BY <1>8, <1>9

LEMMA ListIsSequence ==
  ASSUME NEW T, NEW m \in Nat, NEW f \in [1 .. m -> T]
  PROVE  f \in Seq(T)
OBVIOUS

LEMMA PopTyped ==
  ASSUME Typing, NEW p \in Procs, PopAll(p)
  PROVE  \E j : JobOK(j) /\ job' = [job EXCEPT ![p] = j]
<1>1. DOMAIN job = Procs /\ JobOK(job[p])
  BY DEF Typing
<1>2. PICK j : j = job[p]
  OBVIOUS
<1>3. PICK s \in SetToSeqs(j.heap) :
        job' = [job EXCEPT ![p].ids = [n \in DOMAIN s |-> s[n].id]]
  BY <1>2 DEF PopAll
<1>4. PICK ids \in Seq(1 .. MaxUsers) : ids = [n \in DOMAIN s |-> s[n].id]
  <2>1. PICK m : m = Cardinality(j.heap) /\ m \in Nat
    BY <1>1, <1>2, FS_CardinalityType DEF JobOK
  <2>2. s \in [1 .. m -> j.heap] /\ j.heap \subseteq Scored
    BY <1>1, <1>2, <2>1 DEF SetToSeqs, JobOK, Job
  <2>3. [n \in DOMAIN s |-> s[n].id] \in [1 .. m -> 1 .. MaxUsers]
    BY <2>2 DEF Scored
  <2>4. PICK f \in [1 .. m -> 1 .. MaxUsers] : f = [n \in DOMAIN s |-> s[n].id]
    BY <2>3
  <2>5. f \in Seq(1 .. MaxUsers)
    BY <2>1, ListIsSequence
  <2> QED
    BY <2>4, <2>5
<1> DEFINE k == [j EXCEPT !.ids = ids]
<1>5. job' = [job EXCEPT ![p] = k]
  BY <1>1, <1>2, <1>3, <1>4
<1>6. JobOK(k)
  BY <1>1, <1>2 DEF JobOK, Job
<1> QED
  BY <1>5, <1>6

(* The ids that are found, in their order.                                 *)
FoundIds(ids) ==
  LET found == {n \in DOMAIN ids : ids[n] \in DOMAIN users}
  IN [n \in 1 .. Cardinality(found) |-> ids[Ascending(found)[n]]]

LEMMA FoundTyped ==
  ASSUME NEW T, NEW ids \in Seq(T)
  PROVE  FoundIds(ids) \in Seq(T)
<1> DEFINE found == {n \in DOMAIN ids : ids[n] \in DOMAIN users}
<1>1. found \subseteq DOMAIN ids /\ found \subseteq Nat /\ IsFiniteSet(found)
  <2>1. DOMAIN ids = 1 .. Len(ids) /\ Len(ids) \in Nat
    OBVIOUS
  <2>2. IsFiniteSet(DOMAIN ids)
    BY <2>1, FS_Interval
  <2> QED
    BY <2>1, <2>2, FS_Subset
<1> HIDE DEF found
<1>2. /\ Cardinality(found) \in Nat
      /\ \A n \in 1 .. Cardinality(found) : Ascending(found)[n] \in found
  BY <1>1, AscendingOrder
<1>3. \A n \in DOMAIN ids : ids[n] \in T
  OBVIOUS
<1>4. \A n \in 1 .. Cardinality(found) : ids[Ascending(found)[n]] \in T
  BY <1>1, <1>2, <1>3
<1>5. [n \in 1 .. Cardinality(found) |-> ids[Ascending(found)[n]]] \in Seq(T)
  BY <1>2, <1>4
<1> QED
  BY <1>5 DEF FoundIds, found

LEMMA RereadTyped ==
  ASSUME Typing, NEW p \in Procs, Reread(p)
  PROVE  \E j : JobOK(j) /\ job' = [job EXCEPT ![p] = j]
<1>1. DOMAIN job = Procs /\ JobOK(job[p])
  BY DEF Typing
<1>2. PICK j : j = job[p]
  OBVIOUS
<1>3. PICK ids \in Seq(1 .. MaxUsers) : ids = FoundIds(j.ids)
  BY <1>1, <1>2, FoundTyped DEF JobOK, Job
<1> DEFINE k == [j EXCEPT !.ids = ids]
<1>4. job' = [job EXCEPT ![p] = k]
  BY <1>1, <1>2, <1>3 DEF Reread, FoundIds
<1>5. JobOK(k)
  BY <1>1, <1>2 DEF JobOK, Job
<1> QED
  BY <1>4, <1>5

LEMMA MatchTyped ==
  ASSUME Typing, CodeInv, NEW p \in Procs, MatchStep(p)
  PROVE  /\ AccountTypeOK' /\ Room' /\ pc' \in [Procs -> Stages]
         /\ DOMAIN job' = Procs /\ \A q \in Procs : JobOK(job'[q])
<1>1. \E j : JobOK(j) /\ job' = [job EXCEPT ![p] = j]
  <2>1. EndMatch(p) => JobOK(NoJob) /\ job' = [job EXCEPT ![p] = NoJob]
    BY NothingTyped DEF EndMatch
  <2> QED
    BY <2>1, StartTyped, NextBatchTyped, PickTyped, RankTyped, PopTyped, RereadTyped
       DEF MatchStep
<1>2. DOMAIN job' = Procs /\ \A q \in Procs : JobOK(job'[q])
  BY <1>1 DEF Typing
<1>3. /\ UNCHANGED <<users, now, writes, form>> /\ pc[p] \in MatchStages \cup {"idle"}
      /\ pc' = pc \/ \E l \in MatchStages \cup {"idle"} : pc' = [pc EXCEPT ![p] = l]
  BY DEF MatchStep, StartMatch, NextBatch, PickUser, Rank, PopAll, Reread, EndMatch,
         MatchStages
<1>4. pc \in [Procs -> Stages]
  BY DEF Typing
<1>5. pc' \in [Procs -> Stages]
  BY <1>3, <1>4 DEF Stages, AccountStages
<1>6. Registering' = Registering
  BY <1>3, <1>4 DEF Registering, MatchStages
<1> QED
  BY <1>2, <1>3, <1>5, <1>6 DEF Typing, AccountTypeOK, Room

(* The histories.                                                          *)
LEMMA HistoriesTyped ==
  ASSUME Typing, AccountTypeOK', Track
  PROVE  /\ through' \in [Procs -> SUBSET (1 .. MaxUsers)]
         /\ ever' \in [Procs -> SUBSET (1 .. MaxUsers)]
<1> DEFINE Q(p) == {i \in DOMAIN users' : Qualifies(i, job[p].since)'}
<1>1. DOMAIN users' \subseteq 1 .. MaxUsers
  <2>1. users' \in Seq(UserRow) /\ Len(users') <= MaxUsers
    BY DEF AccountTypeOK, UserRow
  <2>2. DOMAIN users' = 1 .. Len(users') /\ Len(users') \in Nat /\ MaxUsers \in Nat
    BY <2>1, AccountAssumption
  <2> QED
    BY <2>1, <2>2
<1>2. \A p : Q(p) \subseteq 1 .. MaxUsers
  BY <1>1
<1>3. /\ through \in [Procs -> SUBSET (1 .. MaxUsers)]
      /\ ever \in [Procs -> SUBSET (1 .. MaxUsers)]
  BY DEF Typing
<1>4. /\ through' = [p \in Procs |->
           CASE pc'[p] = "scan" /\ pc[p] = "idle" -> Q(p)
             [] pc'[p] = "scan" /\ pc[p] = "scan" -> through[p] \cap Q(p)
             [] pc'[p] = "rank" -> through[p]
             [] OTHER -> {}]
      /\ ever' = [p \in Procs |->
           CASE pc'[p] = "scan" -> ever[p] \cup Q(p)
             [] pc'[p] = "rank" -> ever[p]
             [] OTHER -> {}]
  BY DEF Track
<1> HIDE DEF Q
<1> QED
  BY <1>2, <1>3, <1>4

LEMMA TypingInit == Init => Typing
<1> SUFFICES ASSUME Init PROVE Typing
  OBVIOUS
<1>1. /\ users \in Seq(UserRow) /\ Len(users) <= MaxUsers
      /\ now = 0 /\ writes = 0 /\ pc = [p \in Procs |-> "idle"]
      /\ form = [p \in Procs |-> NoForm] /\ job = [p \in Procs |-> NoJob]
      /\ through = [p \in Procs |-> {}] /\ ever = [p \in Procs |-> {}]
  BY AccountAssumption DEF Init, AccountInit
<1>2. AccountTypeOK
  <2>1. form \in [Procs -> BoundedForm]
    BY <1>1, NothingTyped
  <2>2. now \in 0 .. MaxTime /\ writes \in 0 .. MaxWrites
    BY <1>1, AccountAssumption
  <2> QED
    BY <1>1, <2>1, <2>2 DEF AccountTypeOK, BoundedForm
<1>3. Registering = {}
  BY <1>1 DEF Registering
<1>4. Room
  <2>1. Len(users) \in Nat
    BY <1>1
  <2> QED
    BY <1>1, <1>3, <2>1, FS_EmptySet DEF Room
<1> QED
  BY <1>1, <1>2, <1>4, NothingTyped DEF Typing, Stages, AccountStages

LEMMA TypingStep ==
  ASSUME Typing, CodeInv, [Next]_vars
  PROVE  Typing'
<1>1. CASE UNCHANGED vars
  BY <1>1 DEF vars, accountVars, Typing, AccountTypeOK, Room, Registering
<1>2. CASE Next
  <2>1. /\ AccountTypeOK' /\ Room' /\ pc' \in [Procs -> Stages]
        /\ DOMAIN job' = Procs /\ \A q \in Procs : JobOK(job'[q])
    <3>1. CASE (\E p \in Procs : AccountStep(p)) /\ UNCHANGED job
      BY <3>1, AccountsTyped DEF Typing
    <3>2. CASE ((\E i \in DOMAIN users : SoftDelete(i)) \/ Tick) /\ UNCHANGED job
      BY <3>2, OutsideTyped DEF Typing
    <3>3. CASE \E p \in Matchers : MatchStep(p)
      BY <3>3, MatchTyped, MatchAssumption
    <3> QED
      BY <1>2, <3>1, <3>2, <3>3 DEF Next, Step
  <2> QED
    BY <1>2, <2>1, HistoriesTyped DEF Typing, Next
<1> QED
  BY <1>1, <1>2

(* Every variable keeps its type, whatever meets whatever: a scan that     *)
(* goes on while the table grows, distances that are numbers, a heap that  *)
(* never holds more than was asked for.                                    *)
THEOREM MatchTyping == Spec => []TypeOK
<1>1. ASSUME Typing PROVE TypeOK
  <2>1. ASSUME NEW j, JobOK(j)
        PROVE  /\ j.login \in 0 .. MaxUsers /\ j.tags \in TagLists \cup {<<>>}
               /\ j.num \in Nums \cup {0} /\ j.since \in 0 .. MaxTime
               /\ j.afterID \in 0 .. MaxUsers
               /\ j.all \in Seq(Candidates) /\ j.next \in 1 .. Len(j.all) + 1
               /\ j.heap \subseteq Scored /\ Cardinality(j.heap) <= j.num
               /\ j.ids \in Seq(1 .. MaxUsers)
    <3>1. j \in Job /\ j.next <= Len(j.all) + 1 /\ Cardinality(j.heap) <= j.num
      BY <2>1 DEF JobOK
    <3>2. j.next \in Nat \ {0} /\ Len(j.all) \in Nat
      BY <3>1 DEF Job
    <3> QED
      BY <3>1, <3>2 DEF Job
  <2> QED
    BY <1>1, <2>1 DEF Typing, TypeOK, Stages
<1>2. Explained => CodeInv
  BY DEF Explained
<1> QED
  BY <1>1, <1>2, InitExplained, ExplainedStep, TypingInit, TypingStep, PTL DEF Spec

-----------------------------------------------------------------------------
(* The nearest are offered.                                                *)

(* The scores of the candidates before the k-th place.                     *)
Ranked(j, k) == {Score(j, j.all[n]) : n \in {m \in 1 .. (k - 1) : Rankable(j, j.all[m])}}

(* h holds num of the scores in S, or all of them, and the nearest.        *)
Nearest(h, S, num) ==
  /\ h \subseteq S /\ Cardinality(h) = Min({num, Cardinality(S)})
  /\ \A x \in h, y \in S \ h : x.distance <= y.distance

(* What NearestOffered says of one answer.                                 *)
Rankables(j) == {c \in ToSet(j.all) : Rankable(j, c)}
Distances(C, tags) ==
  [i \in {c.id : c \in C} |-> EditDistance(tags, (CHOOSE c \in C : c.id = i).tags)]
Offering(C, dist, num, ids) ==
  /\ ToSet(ids) \subseteq DOMAIN dist
  /\ IsInjective(ids)
  /\ Len(ids) = Min({num, Cardinality(C)})
  /\ \A m, n \in DOMAIN ids : m < n => dist[ids[m]] <= dist[ids[n]]
  /\ \A i \in ToSet(ids), k \in DOMAIN dist \ ToSet(ids) : dist[i] <= dist[k]
Offers(j) == Offering(Rankables(j), Distances(Rankables(j), j.tags), j.num, j.ids)

(* What a match at l with the variables j knows, when D are the ids of the *)
(* table: what it has ranked so far, and what it answers.                  *)
Knows(l, j, D) ==
  /\ l \in MatchStages => j.num \in Nums
  /\ l \in {"scan", "rank"} => \A n \in DOMAIN j.all : j.all[n].id \in D
  /\ l = "scan" => j.next = 1 /\ j.heap = {} /\ (j.login # 0 => j.tags \in TagLists)
  /\ l = "rank" =>
       /\ IF j.login = 0 THEN j.next = 1 ELSE j.tags \in TagLists
       /\ Nearest(j.heap, Ranked(j, j.next), j.num)
  /\ l \in {"reread", "answered"} =>
       Offers(j) /\ \A n \in DOMAIN j.ids : j.ids[n] \in D

RankKnows(p) == Knows(pc[p], job[p], DOMAIN users)
RankInv == \A p \in Procs : RankKnows(p)

(* The heap.                                                               *)
LEMMA FarthestGoes ==
  ASSUME NEW heap \in SUBSET Scored, NEW s \in Scored, NEW num \in Nat,
         NEW h \in Kept(heap, s, num), ~ (Cardinality(heap) < num)
  PROVE  \/ /\ h = heap
            /\ \A x \in heap : x.distance <= s.distance
         \/ \E far \in heap :
              /\ h = (heap \ {far}) \cup {s} /\ s.distance < far.distance
              /\ \A x \in heap : x.distance <= far.distance
<1> DEFINE Far == {x \in heap : \A g \in heap : g.distance <= x.distance}
<1>1. ASSUME NEW x \in heap PROVE x.distance \in Nat
  BY DEF Scored
<1>2. s.distance \in Nat
  BY DEF Scored
<1>3. CASE \A x \in Far : s.distance < x.distance
  <2>1. PICK far \in Far : h = (heap \ {far}) \cup {s}
    BY <1>3 DEF Kept
  <2> QED
    BY <1>3, <2>1
<1>4. CASE ~ (\A x \in Far : s.distance < x.distance)
  <2>1. h = heap
    BY <1>4 DEF Kept
  <2>2. PICK far \in Far : ~ (s.distance < far.distance)
    BY <1>4
  <2>3. \A x \in heap : x.distance <= s.distance
    BY <1>1, <1>2, <2>2
  <2> QED
    BY <2>1, <2>3
<1> QED
  BY <1>3, <1>4

LEMMA NearestKept ==
  ASSUME NEW S \in SUBSET Scored, IsFiniteSet(S), NEW s \in Scored, s \notin S,
         NEW num \in Nat, NEW heap, Nearest(heap, S, num), NEW h \in Kept(heap, s, num)
  PROVE  Nearest(h, S \cup {s}, num)
<1>1. /\ heap \in SUBSET S /\ heap \in SUBSET Scored /\ IsFiniteSet(heap)
      /\ Cardinality(heap) \in Nat /\ Cardinality(S) \in Nat
      /\ Cardinality(heap) = IF num <= Cardinality(S) THEN num ELSE Cardinality(S)
  <2>1. heap \in SUBSET S /\ IsFiniteSet(heap)
    BY FS_Subset DEF Nearest
  <2>2. Cardinality(heap) \in Nat /\ Cardinality(S) \in Nat
    BY <2>1, FS_CardinalityType
  <2>3. Cardinality(heap) = Min({num, Cardinality(S)})
    BY DEF Nearest
  <2> QED
    BY <2>1, <2>2, <2>3, MinOfTwo
<1>2. PICK c \in Nat : /\ IsFiniteSet(S \cup {s}) /\ c = Cardinality(S \cup {s})
                       /\ c = Cardinality(S) + 1
                       /\ Min({num, c}) = IF num <= c THEN num ELSE c
  <2>1. IsFiniteSet(S \cup {s}) /\ Cardinality(S \cup {s}) = Cardinality(S) + 1
    BY FS_AddElement
  <2>2. PICK c \in Nat : c = Cardinality(S \cup {s}) /\ c = Cardinality(S) + 1
    BY <1>1, <2>1
  <2> QED
    BY <2>1, <2>2, MinOfTwo
<1>3. ASSUME NEW x \in S \cup {s} PROVE x.distance \in Nat
  BY DEF Scored
<1>4. \A x \in heap, y \in S \ heap : x.distance <= y.distance
  BY DEF Nearest
<1>5. CASE Cardinality(heap) < num
  <2>1. Cardinality(heap) = Cardinality(S)
    BY <1>1, <1>5
  <2>2. heap = S
    BY <1>1, <2>1, FS_Subset
  <2>3. h = S \cup {s}
    BY <1>5, <2>2 DEF Kept
  <2>4. Cardinality(h) = Min({num, Cardinality(S \cup {s})})
    BY <1>1, <1>2, <1>5, <2>1, <2>3
  <2> QED
    BY <2>3, <2>4 DEF Nearest
<1>6. CASE ~ (Cardinality(heap) < num)
  <2>1. Cardinality(heap) = num /\ num = Min({num, Cardinality(S \cup {s})})
    BY <1>1, <1>2, <1>6
  <2>2. CASE h = heap /\ \A x \in heap : x.distance <= s.distance
    <3>1. \A x \in h, y \in (S \cup {s}) \ h : x.distance <= y.distance
      BY <1>4, <2>2
    <3> QED
      BY <1>1, <2>1, <2>2, <3>1 DEF Nearest
  <2>3. ASSUME NEW far \in heap, h = (heap \ {far}) \cup {s}, s.distance < far.distance,
               \A x \in heap : x.distance <= far.distance
        PROVE  Nearest(h, S \cup {s}, num)
    <3>1. h \subseteq S \cup {s}
      BY <1>1, <2>3
    <3>2. Cardinality(h) = num
      <4>1. /\ IsFiniteSet(heap \ {far})
            /\ Cardinality(heap \ {far}) = Cardinality(heap) - 1
        BY <1>1, FS_RemoveElement
      <4>2. s \notin heap \ {far}
        BY <1>1
      <4>3. Cardinality(h) = Cardinality(heap) - 1 + 1
        BY <2>3, <4>1, <4>2, FS_AddElement
      <4> QED
        BY <1>1, <2>1, <4>3
    <3>3. ASSUME NEW x \in h, NEW y \in (S \cup {s}) \ h PROVE x.distance <= y.distance
      <4>1. /\ y \in S /\ (y = far \/ y \notin heap) /\ (x = s \/ x \in heap)
            /\ x.distance \in Nat /\ y.distance \in Nat /\ far.distance \in Nat
            /\ s.distance \in Nat
        BY <1>1, <1>3, <2>3
      <4>2. far.distance <= y.distance
        BY <1>4, <4>1
      <4>3. x.distance <= far.distance
        BY <2>3, <4>1
      <4> QED
        BY <4>1, <4>2, <4>3
    <3> QED
      BY <2>1, <3>1, <3>2, <3>3 DEF Nearest
  <2> QED
    BY <1>1, <1>6, <2>2, <2>3, FarthestGoes
<1> QED
  BY <1>5, <1>6

(* Scores of one match.                                                    *)
LEMMA RankedTyped ==
  ASSUME NEW j \in Job, NEW k \in Nat \ {0}, k <= Len(j.all) + 1
  PROVE  Ranked(j, k) \in SUBSET Scored /\ IsFiniteSet(Ranked(j, k))
<1> DEFINE places == {m \in 1 .. (k - 1) : Rankable(j, j.all[m])}
           f == [n \in places |-> Score(j, j.all[n])]
<1>1. ASSUME NEW n \in places PROVE Score(j, j.all[n]) \in Scored
  <2>1. j.all \in Seq(Candidates) /\ j.tags \in TagLists \cup {<<>>}
    BY DEF Job
  <2>2. n \in 1 .. Len(j.all) /\ j.all[n] \in Candidates
    <3>1. Len(j.all) \in Nat
      BY <2>1
    <3>2. n \in 1 .. Len(j.all)
      BY <3>1
    <3> QED
      BY <2>1, <3>2
  <2> QED
    BY <2>1, <2>2, ScoreTyped DEF Candidates
<1>2. IsFiniteSet(places)
  <2>1. 1 \in Int /\ k - 1 \in Int
    OBVIOUS
  <2>2. IsFiniteSet(1 .. (k - 1))
    BY <2>1, FS_Interval
  <2> QED
    BY <2>2, FS_Subset
<1>3. f \in Surjection(places, Ranked(j, k))
  BY DEF Surjection, Ranked
<1> QED
  BY <1>1, <1>2, <1>3, FS_Surjection DEF Ranked

LEMMA RankedGrows ==
  ASSUME NEW j \in Job, NEW k \in Nat \ {0}, k <= Len(j.all), Increasing(j.all)
  PROVE  /\ Rankable(j, j.all[k]) =>
              /\ Ranked(j, k + 1) = Ranked(j, k) \cup {Score(j, j.all[k])}
              /\ Score(j, j.all[k]) \notin Ranked(j, k)
         /\ ~ Rankable(j, j.all[k]) => Ranked(j, k + 1) = Ranked(j, k)
<1>1. /\ j.all \in Seq(Candidates) /\ Len(j.all) \in Nat /\ DOMAIN j.all = 1 .. Len(j.all)
      /\ k \in DOMAIN j.all /\ 1 .. (k + 1 - 1) = 1 .. (k - 1) \cup {k}
  <2>1. j.all \in Seq(Candidates)
    BY DEF Job
  <2> QED
    BY <2>1
<1>2. ASSUME NEW n \in 1 .. (k - 1) PROVE Score(j, j.all[n]) # Score(j, j.all[k])
  <2>1. n \in DOMAIN j.all /\ n < k
    BY <1>1
  <2>2. j.all[n] \in Candidates /\ j.all[k] \in Candidates
    BY <1>1, <2>1
  <2>3. j.all[n].id < j.all[k].id
    BY <1>1, <2>1 DEF Increasing
  <2>4. j.all[n].id # j.all[k].id
    BY <2>2, <2>3 DEF Candidates
  <2>5. Score(j, j.all[n]).id = j.all[n].id /\ Score(j, j.all[k]).id = j.all[k].id
    BY DEF Score
  <2> QED
    BY <2>4, <2>5
<1>3. CASE Rankable(j, j.all[k])
  <2>1. {m \in 1 .. (k + 1 - 1) : Rankable(j, j.all[m])} =
          {m \in 1 .. (k - 1) : Rankable(j, j.all[m])} \cup {k}
    BY <1>1, <1>3
  <2>2. Ranked(j, k + 1) = Ranked(j, k) \cup {Score(j, j.all[k])}
    BY <2>1 DEF Ranked
  <2> QED
    BY <1>2, <1>3, <2>2 DEF Ranked
<1>4. CASE ~ Rankable(j, j.all[k])
  <2>1. {m \in 1 .. (k + 1 - 1) : Rankable(j, j.all[m])} =
          {m \in 1 .. (k - 1) : Rankable(j, j.all[m])}
    BY <1>1, <1>4
  <2> QED
    BY <1>4, <2>1 DEF Ranked
<1> QED
  BY <1>3, <1>4

LEMMA RankedSame ==
  ASSUME NEW j, NEW k, j.all = k.all, j.login = k.login, j.tags = k.tags, NEW n
  PROVE  Ranked(j, n) = Ranked(k, n)
<1>1. \A c : (Rankable(j, c) <=> Rankable(k, c)) /\ Score(j, c) = Score(k, c)
  BY DEF Rankable, Score
<1> QED
  BY <1>1 DEF Ranked

LEMMA NothingRanked ==
  ASSUME NEW j, NEW num \in Nat
  PROVE  Nearest({}, Ranked(j, 1), num)
<1>1. Ranked(j, 1) = {}
  BY DEF Ranked
<1>2. Min({num, 0}) = 0
  BY MinOfTwo
<1> QED
  BY <1>1, <1>2, FS_EmptySet DEF Nearest

LEMMA OffersSame ==
  ASSUME NEW j, NEW k, j.all = k.all, j.login = k.login, j.tags = k.tags,
         j.num = k.num, j.ids = k.ids
  PROVE  Offers(j) = Offers(k)
<1>1. Rankables(j) = Rankables(k)
  BY DEF Rankables, Rankable
<1> QED
  BY <1>1 DEF Offers

-----------------------------------------------------------------------------
(* What is popped from the heap is the answer.                             *)

(* Candidates and their scores correspond.                                 *)
LEMMA ScoresCorrespond ==
  ASSUME NEW j \in Job, Increasing(j.all), j.tags \in TagLists
  PROVE  LET C == Rankables(j)
             R == Ranked(j, Len(j.all) + 1)
             dist == Distances(C, j.tags)
         IN /\ \A r \in R : \E c \in C : r = Score(j, c)
            /\ \A c \in C : Score(j, c) \in R
            /\ \A c, d \in C : c.id = d.id => c = d
            /\ DOMAIN dist = {c.id : c \in C}
            /\ \A c \in C : dist[c.id] = Score(j, c).distance
            /\ Cardinality(C) = Cardinality(R)
<1> DEFINE C == Rankables(j)
           R == Ranked(j, Len(j.all) + 1)
           dist == Distances(C, j.tags)
<1>1. j.all \in Seq(Candidates) /\ Len(j.all) \in Nat /\ DOMAIN j.all = 1 .. Len(j.all)
      /\ 1 .. (Len(j.all) + 1 - 1) = DOMAIN j.all
  <2>1. j.all \in Seq(Candidates)
    BY DEF Job
  <2> QED
    BY <2>1
<1>2. ASSUME NEW c \in C PROVE \E n \in DOMAIN j.all : c = j.all[n] /\ Rankable(j, j.all[n])
  BY DEF Rankables, ToSet
<1>3. ASSUME NEW n \in DOMAIN j.all, Rankable(j, j.all[n]) PROVE j.all[n] \in C
  BY <1>3 DEF Rankables, ToSet
<1>4. R = {Score(j, j.all[n]) : n \in {m \in DOMAIN j.all : Rankable(j, j.all[m])}}
  BY <1>1 DEF Ranked
<1>5. \A r \in R : \E c \in C : r = Score(j, c)
  BY <1>3, <1>4
<1>6. \A c \in C : Score(j, c) \in R
  BY <1>2, <1>4
<1>7. ASSUME NEW m \in DOMAIN j.all, NEW n \in DOMAIN j.all, j.all[m].id = j.all[n].id
      PROVE  m = n
  <2>1. m \in Nat /\ n \in Nat /\ j.all[m].id \in Nat /\ j.all[n].id \in Nat
    <3>1. j.all[m] \in Candidates /\ j.all[n] \in Candidates
      BY <1>1
    <3> QED
      BY <1>1, <3>1 DEF Candidates
  <2>2. ~ (m < n) /\ ~ (n < m)
    <3>1. ~ (j.all[m].id < j.all[n].id) /\ ~ (j.all[n].id < j.all[m].id)
      BY <1>7, <2>1
    <3> QED
      BY <3>1 DEF Increasing
  <2> QED
    BY <2>1, <2>2
<1>8. \A c, d \in C : c.id = d.id => c = d
  BY <1>2, <1>7
<1>9. DOMAIN dist = {c.id : c \in C}
  BY DEF Distances
<1>10. ASSUME NEW c \in C PROVE dist[c.id] = Score(j, c).distance
  <2>1. PICK d : d = CHOOSE x \in C : x.id = c.id
    OBVIOUS
  <2>2. d = c
    <3>1. \E x \in C : x.id = c.id
      OBVIOUS
    <3>2. d \in C /\ d.id = c.id
      BY <2>1, <3>1
    <3> QED
      BY <1>8, <3>2
  <2>3. dist[c.id] = EditDistance(j.tags, c.tags)
    <3>1. c.id \in {x.id : x \in C}
      OBVIOUS
    <3> HIDE DEF C
    <3> QED
      BY <2>1, <2>2, <3>1 DEF Distances
  <2>4. c.tags \in TagLists /\ ParseTags(c.tags) = c.tags
    BY <1>2, ParsedTags DEF Rankable
  <2>5. Score(j, c).distance = minDistance(j.tags, c.tags)
    BY <2>4 DEF Score
  <2> QED
    BY <2>3, <2>4, <2>5, TagsAreListings, MinDistanceIsLeast
<1>11. Cardinality(C) = Cardinality(R)
  <2> DEFINE f == [c \in C |-> Score(j, c)]
  <2>1. IsFiniteSet(C)
    <3>1. IsFiniteSet(DOMAIN j.all)
      <4>1. 1 \in Int /\ Len(j.all) \in Int
        BY <1>1
      <4> QED
        BY <1>1, <4>1, FS_Interval
    <3> DEFINE g == [n \in DOMAIN j.all |-> j.all[n]]
    <3>2. g \in Surjection(DOMAIN j.all, ToSet(j.all))
      BY DEF Surjection, ToSet
    <3>3. IsFiniteSet(ToSet(j.all))
      BY <3>1, <3>2, FS_Surjection
    <3> QED
      BY <3>3, FS_Subset DEF Rankables
  <2>2. f \in Surjection(C, R)
    BY <1>5, <1>6 DEF Surjection
  <2>3. f \in Injection(C, R)
    <3>1. \A c \in C : f[c].id = c.id
      BY DEF Score
    <3>2. f \in [C -> R]
      BY <1>6
    <3> HIDE DEF f, C, R
    <3> QED
      BY <1>8, <3>1, <3>2 DEF Injection, IsInjective
  <2> QED
    BY <2>1, <2>2, <2>3, FS_Surjection
<1> QED
  BY <1>5, <1>6, <1>8, <1>9, <1>10, <1>11

(* A sequence of all of a set.                                             *)
LEMMA PoppedAll ==
  ASSUME NEW h, IsFiniteSet(h), NEW s \in SetToSeqs(h)
  PROVE  /\ Cardinality(h) \in Nat /\ DOMAIN s = 1 .. Cardinality(h)
         /\ \A n \in DOMAIN s : s[n] \in h
         /\ \A m, n \in DOMAIN s : s[m] = s[n] => m = n
         /\ \A x \in h : \E n \in DOMAIN s : s[n] = x
<1> DEFINE m == Cardinality(h)
<1>1. m \in Nat
  BY FS_CardinalityType
<1>2. s \in [1 .. m -> h] /\ \A i, j \in 1 .. m : i # j => s[i] # s[j]
  BY DEF SetToSeqs
<1> HIDE DEF m
<1>3. s \in Injection(1 .. m, h)
  BY <1>2 DEF Injection, IsInjective
<1>4. Cardinality(1 .. m) = m
  BY <1>1, FS_Interval
<1>5. s \in Surjection(1 .. m, h)
  BY <1>3, <1>4, FS_Injection DEF m
<1> QED
  BY <1>1, <1>2, <1>5 DEF m, Surjection

LEMMA PoppedOffers ==
  ASSUME NEW j, JobOK(j), j.tags \in TagLists, j.num \in Nat, Increasing(j.all),
         Nearest(j.heap, Ranked(j, Len(j.all) + 1), j.num), NEW s \in SetToSeqs(j.heap),
         \A m, n \in DOMAIN s : m < n => s[m].distance <= s[n].distance,
         NEW ids, ids = [n \in DOMAIN s |-> s[n].id]
  PROVE  /\ Offering(Rankables(j), Distances(Rankables(j), j.tags), j.num, ids)
         /\ \A n \in DOMAIN ids : \E c \in ToSet(j.all) : ids[n] = c.id
<1>1. PICK C, R, dist, heap : /\ C = Rankables(j) /\ R = Ranked(j, Len(j.all) + 1)
                              /\ dist = Distances(C, j.tags) /\ heap = j.heap
  OBVIOUS
<1>2. /\ j \in Job /\ IsFiniteSet(heap)
      /\ heap \subseteq R /\ Cardinality(heap) = Min({j.num, Cardinality(R)})
      /\ \A x \in heap, y \in R \ heap : x.distance <= y.distance
  BY <1>1 DEF JobOK, Nearest
<1>3. /\ \A r \in R : \E c \in C : r = Score(j, c)
      /\ \A c \in C : Score(j, c) \in R
      /\ \A c, d \in C : c.id = d.id => c = d
      /\ DOMAIN dist = {c.id : c \in C}
      /\ \A c \in C : dist[c.id] = Score(j, c).distance
      /\ Cardinality(C) = Cardinality(R)
  BY <1>1, <1>2, ScoresCorrespond
<1>4. /\ Cardinality(heap) \in Nat /\ DOMAIN s = 1 .. Cardinality(heap)
      /\ \A n \in DOMAIN s : s[n] \in heap
      /\ \A m, n \in DOMAIN s : s[m] = s[n] => m = n
      /\ \A x \in heap : \E n \in DOMAIN s : s[n] = x
  BY <1>1, <1>2, PoppedAll
<1>5. \A c : Score(j, c).id = c.id
  BY DEF Score
<1>6. ASSUME NEW r \in R
      PROVE  \E c \in C : r = Score(j, c) /\ r.id = c.id /\ r.id \in DOMAIN dist
                          /\ dist[r.id] = r.distance
  BY <1>3, <1>5
<1>7. ASSUME NEW q \in R, NEW r \in R, q.id = r.id PROVE q = r
  BY <1>3, <1>5, <1>7
<1>8. DOMAIN ids = DOMAIN s /\ \A n \in DOMAIN ids : ids[n] = s[n].id /\ s[n] \in R
  BY <1>2, <1>4
<1>9. ToSet(ids) \subseteq DOMAIN dist
  BY <1>6, <1>8 DEF ToSet
<1>10. IsInjective(ids)
  BY <1>4, <1>7, <1>8 DEF IsInjective
<1>11. Len(ids) = Min({j.num, Cardinality(C)})
  BY <1>2, <1>3, <1>4, <1>8
<1>12. \A m, n \in DOMAIN ids : m < n => dist[ids[m]] <= dist[ids[n]]
  BY <1>6, <1>8
<1>13. ASSUME NEW i \in ToSet(ids), NEW k \in DOMAIN dist \ ToSet(ids)
       PROVE  dist[i] <= dist[k]
  <2>1. PICK n \in DOMAIN ids : i = ids[n]
    BY DEF ToSet
  <2>2. PICK x \in heap : x = s[n] /\ x.id = i
    BY <1>4, <1>8, <2>1
  <2>3. PICK c \in C : k = c.id
    BY <1>3
  <2>4. PICK y \in R : y = Score(j, c) /\ y.id = k /\ dist[k] = y.distance
    BY <1>3, <1>5, <2>3
  <2>5. y \notin heap
    <3>1. ASSUME y \in heap PROVE k \in ToSet(ids)
      <4>1. PICK m \in DOMAIN s : s[m] = y
        BY <1>4, <3>1
      <4> QED
        BY <1>8, <2>4, <4>1 DEF ToSet
    <3> QED
      BY <3>1
  <2>6. dist[i] = x.distance
    BY <1>2, <1>6, <2>2
  <2> QED
    BY <1>2, <2>4, <2>5, <2>6
<1>14. \A n \in DOMAIN ids : \E c \in ToSet(j.all) : ids[n] = c.id
  <2>1. C \subseteq ToSet(j.all)
    BY <1>1 DEF Rankables
  <2> QED
    BY <1>6, <1>8, <2>1
<1> QED
  BY <1>1, <1>9, <1>10, <1>11, <1>12, <1>13, <1>14 DEF Offering

(* A list of 1 .. l that climbs is 1 .. l.                                 *)
LEMMA InOrderAlready ==
  ASSUME NEW l \in Nat, NEW s, \A n \in 1 .. l : s[n] \in 1 .. l,
         \A m, n \in 1 .. l : m < n => s[m] < s[n]
  PROVE  \A n \in 1 .. l : s[n] = n
<1> DEFINE Low == {n \in Nat : n \in 1 .. l => s[n] >= n}
           High == {n \in Nat : n < l => s[l - n] <= l - n}
<1>1. Nat \subseteq Low
  <2>1. 0 \in Low
    OBVIOUS
  <2>2. ASSUME NEW n \in Nat, n \in Low PROVE n + 1 \in Low
    <3>1. ASSUME n + 1 \in 1 .. l PROVE s[n + 1] >= n + 1
      <4>1. CASE n = 0
        BY <3>1, <4>1
      <4>2. CASE n # 0
        <5>1. n \in 1 .. l /\ s[n] < s[n + 1] /\ s[n] >= n
          BY <2>2, <3>1, <4>2
        <5>2. s[n] \in Nat /\ s[n + 1] \in Nat
          BY <3>1, <5>1
        <5> QED
          BY <5>1, <5>2
      <4> QED
        BY <4>1, <4>2
    <3> QED
      BY <3>1
  <2> HIDE DEF Low
  <2> QED
    BY <2>1, <2>2, EveryNatural
<1>2. Nat \subseteq High
  <2>1. 0 \in High
    <3>1. ASSUME 0 < l PROVE s[l] <= l
      <4>1. l \in 1 .. l
        BY <3>1
      <4> QED
        BY <4>1
    <3> QED
      BY <3>1
  <2>2. ASSUME NEW n \in Nat, n \in High PROVE n + 1 \in High
    <3>1. ASSUME n + 1 < l PROVE s[l - (n + 1)] <= l - (n + 1)
      <4>1. PICK a \in 1 .. l, b \in 1 .. l : a = l - (n + 1) /\ b = l - n /\ b = a + 1
        BY <3>1
      <4>2. s[a] < s[b] /\ s[b] <= b /\ s[a] \in 1 .. l /\ s[b] \in 1 .. l
        BY <2>2, <3>1, <4>1
      <4>3. s[a] <= a
        BY <4>1, <4>2
      <4> QED
        BY <4>1, <4>3
    <3> QED
      BY <3>1
  <2> HIDE DEF High
  <2> QED
    BY <2>1, <2>2, EveryNatural
<1>3. ASSUME NEW n \in 1 .. l PROVE s[n] = n
  <2>1. n \in Low /\ l - n \in High
    BY <1>1, <1>2
  <2>2. s[n] >= n /\ s[n] <= n
    <3>1. l - (l - n) = n /\ l - n < l
      OBVIOUS
    <3> QED
      BY <2>1, <3>1
  <2>3. s[n] \in Nat
    OBVIOUS
  <2> QED
    BY <2>2, <2>3
<1> QED
  BY <1>3

-----------------------------------------------------------------------------
(* The steps.                                                              *)
LEMMA TableGrows ==
  ASSUME CodeInv, [Next]_vars
  PROVE  DOMAIN users \subseteq DOMAIN users'
<1>1. users \in Seq(Row)
  BY DEF CodeInv
<1>2. \/ users' = users \/ DOMAIN users' = DOMAIN users
      \/ \E r : users' = Append(users, r)
  BY DEF Next, Step, vars, accountVars, AccountStep, RegisterAccount, RegisterCode,
         RegisterCreate, StartUpdate, UpdateWrite, RequestFails, SoftDelete, Tick, MatchStep,
         StartMatch, NextBatch, PickUser, Rank, PopAll, Reread, EndMatch
<1>3. ASSUME NEW r, users' = Append(users, r) PROVE DOMAIN users \subseteq DOMAIN users'
  <2>1. /\ DOMAIN users = 1 .. Len(users) /\ Len(users) \in Nat
        /\ DOMAIN users' = 1 .. (Len(users) + 1)
    BY <1>1, <1>3
  <2> QED
    BY <2>1
<1> QED
  BY <1>2, <1>3

LEMMA KnownStill ==
  ASSUME NEW l, NEW j, NEW D, NEW E, D \subseteq E, Knows(l, j, D)
  PROVE  Knows(l, j, E)
BY DEF Knows

LEMMA KnownNowhere ==
  ASSUME NEW l, l \notin MatchStages, NEW j, NEW D
  PROVE  Knows(l, j, D)
BY DEF Knows, MatchStages

LEMMA StartRanks ==
  ASSUME Typing, NEW p \in Procs, StartMatch(p)
  PROVE  RankKnows(p)'
<1>1. /\ DOMAIN job = Procs /\ DOMAIN pc = Procs /\ pc' = [pc EXCEPT ![p] = "scan"]
  BY DEF Typing, StartMatch
<1>2. PICK n \in Nums :
        \/ \E i \in DOMAIN users :
             /\ ParseTags(users[i].tags) # <<>>
             /\ job' = [job EXCEPT ![p] = [NoJob EXCEPT
                          !.login = i, !.tags = users[i].tags, !.num = n, !.since = Since]]
        \/ job' = [job EXCEPT ![p] = [NoJob EXCEPT !.num = n, !.since = Since]]
  BY DEF StartMatch
<1>3. PICK z : z = Since
  OBVIOUS
<1>4. \E k : /\ job' = [job EXCEPT ![p] = k]
             /\ k.num = n /\ k.all = <<>> /\ k.next = 1 /\ k.heap = {}
             /\ k.login # 0 => k.tags \in TagLists
  <2>1. CASE job' = [job EXCEPT ![p] = [NoJob EXCEPT !.num = n, !.since = Since]]
    <3> DEFINE k == [NoJob EXCEPT !.num = n, !.since = z]
    <3>1. k.num = n /\ k.all = <<>> /\ k.next = 1 /\ k.heap = {} /\ k.login = 0
      BY DEF NoJob
    <3>2. job' = [job EXCEPT ![p] = k]
      BY <1>3, <2>1
    <3> HIDE DEF k
    <3> QED
      BY <3>1, <3>2
  <2>2. ASSUME NEW i \in DOMAIN users, ParseTags(users[i].tags) # <<>>,
               job' = [job EXCEPT ![p] = [NoJob EXCEPT
                         !.login = i, !.tags = users[i].tags, !.num = n, !.since = Since]]
        PROVE  \E k : /\ job' = [job EXCEPT ![p] = k]
                      /\ k.num = n /\ k.all = <<>> /\ k.next = 1 /\ k.heap = {}
                      /\ k.login # 0 => k.tags \in TagLists
    <3>1. PICK t \in TagLists : t = users[i].tags
      BY <2>2, ParsedTags
    <3> DEFINE k == [NoJob EXCEPT !.login = i, !.tags = t, !.num = n, !.since = z]
    <3>2. k.num = n /\ k.all = <<>> /\ k.next = 1 /\ k.heap = {} /\ k.tags = t
      BY DEF NoJob
    <3>3. job' = [job EXCEPT ![p] = k]
      BY <1>3, <2>2, <3>1
    <3> HIDE DEF k
    <3> QED
      BY <3>2, <3>3
  <2> QED
    BY <1>2, <2>1, <2>2
<1>5. PICK k : /\ job' = [job EXCEPT ![p] = k]
               /\ k.num = n /\ k.all = <<>> /\ k.next = 1 /\ k.heap = {}
               /\ k.login # 0 => k.tags \in TagLists
  BY <1>4
<1>6. Knows("scan", k, DOMAIN users')
  BY <1>5 DEF Knows
<1>7. job'[p] = k /\ pc'[p] = "scan"
  BY <1>1, <1>5
<1> QED
  BY <1>6, <1>7 DEF RankKnows

LEMMA BatchRanks ==
  ASSUME Typing, CodeInv, RankInv, NEW p \in Procs, NextBatch(p)
  PROVE  RankKnows(p)'
<1>1. /\ DOMAIN job = Procs /\ DOMAIN pc = Procs /\ JobOK(job[p]) /\ pc[p] = "scan"
      /\ users' = users /\ pc'[p] \in {"scan", "rank"}
  BY DEF Typing, NextBatch
<1>2. PICK j, b, a : /\ j = job[p] /\ b = Batch(job[p])
                     /\ a = IF b = <<>> THEN j.afterID ELSE Last(b).id
  OBVIOUS
<1>3. /\ j \in Job /\ j.all \in Seq(Candidates) /\ b \in Seq(Candidates)
      /\ Knows("scan", j, DOMAIN users)
  BY <1>1, <1>2, BatchTyped DEF JobOK, Job, RankInv, RankKnows
<1>4. PICK all : all = j.all \o b /\ \A n \in DOMAIN all : all[n].id \in DOMAIN users
  <2>1. ASSUME NEW n \in DOMAIN (j.all \o b) PROVE (j.all \o b)[n].id \in DOMAIN users
    <3>1. (\E m \in DOMAIN j.all : (j.all \o b)[n] = j.all[m])
          \/ (\E m \in DOMAIN b : (j.all \o b)[n] = b[m])
      <4>1. PICK u \in Nat, v \in Nat : u = Len(j.all) /\ v = Len(b)
        BY <1>3
      <4>2. /\ DOMAIN j.all = 1 .. u /\ DOMAIN b = 1 .. v
            /\ DOMAIN (j.all \o b) = 1 .. (u + v)
            /\ (j.all \o b)[n] = IF n <= u THEN j.all[n] ELSE b[n - u]
        BY <1>3, <4>1
      <4>3. n <= u => n \in 1 .. u
        BY <4>1, <4>2
      <4>4. ~ (n <= u) => n - u \in 1 .. v
        BY <4>1, <4>2
      <4> QED
        BY <4>2, <4>3, <4>4
    <3>2. \A m \in DOMAIN j.all : j.all[m].id \in DOMAIN users
      BY <1>3 DEF Knows
    <3>3. \A m \in DOMAIN b : b[m].id \in DOMAIN users
      BY <1>2, <1>3, BatchTyped
    <3> QED
      BY <3>1, <3>2, <3>3
  <2> QED
    BY <2>1
<1> DEFINE k == [j EXCEPT !.all = all, !.afterID = a]
<1>5. job' = [job EXCEPT ![p] = k]
  BY <1>1, <1>2, <1>4 DEF NextBatch
<1>6. /\ k.all = all /\ k.next = 1 /\ k.heap = {} /\ k.num = j.num /\ j.num \in Nums
      /\ k.login = j.login /\ k.tags = j.tags /\ (j.login # 0 => j.tags \in TagLists)
  BY <1>3 DEF Knows, MatchStages, Job
<1>7. job'[p] = k
  BY <1>1, <1>5
<1> HIDE DEF k
<1>8. Nearest({}, Ranked(k, 1), k.num)
  BY <1>6, NothingRanked, MatchAssumption
<1>9. Knows("scan", k, DOMAIN users) /\ Knows("rank", k, DOMAIN users)
  BY <1>4, <1>6, <1>8 DEF Knows
<1> QED
  BY <1>1, <1>7, <1>9 DEF RankKnows

LEMMA PickRanks ==
  ASSUME Typing, RankInv, NEW p \in Procs, PickUser(p)
  PROVE  RankKnows(p)'
<1>1. /\ DOMAIN job = Procs /\ JobOK(job[p]) /\ pc[p] = "rank" /\ pc' = pc
      /\ users' = users
  BY DEF Typing, PickUser
<1>2. PICK j : j = job[p] /\ j \in Job /\ j.login = 0 /\ Knows("rank", j, DOMAIN users)
  BY <1>1 DEF JobOK, PickUser, RankInv, RankKnows
<1>3. PICK c \in ToSet(j.all) :
        /\ ParseTags(c.tags) # <<>>
        /\ job' = [job EXCEPT ![p].login = c.id, ![p].tags = c.tags]
  BY <1>2 DEF PickUser
<1>4. PICK i, t : i = c.id /\ t = c.tags /\ t \in TagLists
  BY <1>3, ParsedTags
<1> DEFINE k == [j EXCEPT !.login = i, !.tags = t]
<1>5. job'[p] = k
  BY <1>1, <1>2, <1>3, <1>4
<1>6. /\ k.all = j.all /\ k.next = j.next /\ k.heap = j.heap /\ k.num = j.num
      /\ k.tags = t /\ k.login = i
  BY <1>2 DEF Job
<1> HIDE DEF k
<1>7. /\ j.next = 1 /\ j.num \in Nums /\ Nearest(j.heap, Ranked(j, 1), j.num)
      /\ \A n \in DOMAIN j.all : j.all[n].id \in DOMAIN users
  BY <1>2 DEF Knows, MatchStages
<1>8. Ranked(j, 1) = {} /\ Ranked(k, 1) = {}
  BY DEF Ranked
<1>9. Nearest(k.heap, Ranked(k, k.next), k.num)
  BY <1>6, <1>7, <1>8
<1>10. k.login = 0 => k.next = 1
  BY <1>6, <1>7
<1>11. Knows("rank", k, DOMAIN users)
  BY <1>4, <1>6, <1>7, <1>9, <1>10 DEF Knows
<1> QED
  BY <1>1, <1>5, <1>11 DEF RankKnows

LEMMA RankRanks ==
  ASSUME Typing, ScanInv, RankInv, NEW p \in Procs, Rank(p)
  PROVE  RankKnows(p)'
<1>1. /\ DOMAIN job = Procs /\ JobOK(job[p]) /\ pc[p] = "rank" /\ pc' = pc
      /\ users' = users
  BY DEF Typing, Rank
<1>2. PICK j : /\ j = job[p] /\ j \in Job /\ j.login # 0 /\ j.next <= Len(j.all)
               /\ Knows("rank", j, DOMAIN users) /\ Increasing(j.all)
  BY <1>1 DEF JobOK, Rank, RankInv, RankKnows, ScanInv, ScanKnows
<1>3. PICK n \in Nat \ {0} : n = j.next
  BY <1>2 DEF Job
<1>4. PICK c, s : c = j.all[n] /\ s = Score(j, c)
  OBVIOUS
<1>5. PICK h : /\ h \in (IF Rankable(j, c) THEN Kept(j.heap, s, j.num) ELSE {j.heap})
               /\ job' = [job EXCEPT ![p].heap = h, ![p].next = @ + 1]
  BY <1>2, <1>3, <1>4 DEF Rank, Score
<1>6. /\ j.tags \in TagLists /\ j.num \in Nums /\ Nearest(j.heap, Ranked(j, n), j.num)
      /\ \A m \in DOMAIN j.all : j.all[m].id \in DOMAIN users
  BY <1>2, <1>3 DEF Knows, MatchStages
<1>7. j.num \in Nat /\ j.all \in Seq(Candidates) /\ Len(j.all) \in Nat
  <2>1. j.all \in Seq(Candidates)
    BY <1>2 DEF Job
  <2>2. Len(j.all) \in Nat
    BY <2>1
  <2>3. j.num \in Nat
    BY <1>6, MatchAssumption
  <2> QED
    BY <2>1, <2>2, <2>3
<1>8. Ranked(j, n) \in SUBSET Scored /\ IsFiniteSet(Ranked(j, n))
  <2>1. n <= Len(j.all) + 1
    BY <1>2, <1>3, <1>7
  <2> QED
    BY <1>2, <2>1, RankedTyped
<1>9. Nearest(h, Ranked(j, n + 1), j.num)
  <2>1. CASE Rankable(j, c)
    <3>1. Ranked(j, n + 1) = Ranked(j, n) \cup {s} /\ s \notin Ranked(j, n)
      BY <1>2, <1>3, <1>4, <2>1, RankedGrows
    <3>2. s \in Scored
      <4>1. c \in Candidates
        BY <1>2, <1>3, <1>4, <1>7
      <4> QED
        BY <1>3, <1>4, <1>6, <4>1, ScoreTyped DEF Candidates
    <3>3. h \in Kept(j.heap, s, j.num)
      BY <1>5, <2>1
    <3>4. Nearest(h, Ranked(j, n) \cup {s}, j.num)
      BY <1>6, <1>7, <1>8, <3>1, <3>2, <3>3, NearestKept
    <3> QED
      BY <3>1, <3>4
  <2>2. CASE ~ Rankable(j, c)
    <3>1. Ranked(j, n + 1) = Ranked(j, n)
      BY <1>2, <1>3, <1>4, <2>2, RankedGrows
    <3> QED
      BY <1>5, <1>6, <2>2, <3>1
  <2> QED
    BY <2>1, <2>2
<1>10. PICK next : next = n + 1
  OBVIOUS
<1> DEFINE k == [j EXCEPT !.heap = h, !.next = next]
<1>11. job'[p] = k
  BY <1>1, <1>2, <1>3, <1>4, <1>5, <1>10
<1>12. /\ k.all = j.all /\ k.next = n + 1 /\ k.heap = h /\ k.num = j.num
       /\ k.tags = j.tags /\ k.login = j.login
  BY <1>2, <1>10 DEF Job
<1> HIDE DEF k
<1>13. Nearest(k.heap, Ranked(k, k.next), k.num)
  <2>1. Ranked(k, n + 1) = Ranked(j, n + 1)
    BY <1>12, RankedSame
  <2> QED
    BY <1>9, <1>12, <2>1
<1>14. Knows("rank", k, DOMAIN users)
  BY <1>2, <1>6, <1>12, <1>13 DEF Knows
<1> QED
  BY <1>1, <1>11, <1>14 DEF RankKnows

LEMMA PopRanks ==
  ASSUME Typing, ScanInv, RankInv, NEW p \in Procs, PopAll(p)
  PROVE  RankKnows(p)'
<1>1. /\ DOMAIN job = Procs /\ DOMAIN pc = Procs /\ JobOK(job[p]) /\ pc[p] = "rank"
      /\ users' = users /\ pc'[p] \in {"reread", "answered"}
  BY DEF Typing, PopAll
<1>2. PICK j : /\ j = job[p] /\ j \in Job /\ JobOK(j) /\ j.login # 0 /\ j.next > Len(j.all)
               /\ Knows("rank", j, DOMAIN users) /\ Increasing(j.all)
  BY <1>1 DEF JobOK, PopAll, RankInv, RankKnows, ScanInv, ScanKnows
<1>3. PICK s \in SetToSeqs(j.heap) :
        /\ \A m, n \in DOMAIN s : m < n => s[m].distance <= s[n].distance
        /\ job' = [job EXCEPT ![p].ids = [n \in DOMAIN s |-> s[n].id]]
  BY <1>2 DEF PopAll
<1>4. PICK ids : ids = [n \in DOMAIN s |-> s[n].id]
  OBVIOUS
<1>5. j.next = Len(j.all) + 1
  <2>1. j.all \in Seq(Candidates) /\ j.next \in Nat /\ j.next <= Len(j.all) + 1
    BY <1>2 DEF Job, JobOK
  <2>2. Len(j.all) \in Nat
    BY <2>1
  <2> QED
    BY <1>2, <2>1, <2>2
<1>6. /\ j.tags \in TagLists /\ j.num \in Nums
      /\ Nearest(j.heap, Ranked(j, Len(j.all) + 1), j.num)
      /\ \A m \in DOMAIN j.all : j.all[m].id \in DOMAIN users
  BY <1>2, <1>5 DEF Knows, MatchStages
<1>7. /\ Offering(Rankables(j), Distances(Rankables(j), j.tags), j.num, ids)
      /\ \A n \in DOMAIN ids : \E c \in ToSet(j.all) : ids[n] = c.id
  BY <1>2, <1>3, <1>4, <1>6, PoppedOffers, MatchAssumption
<1> DEFINE k == [j EXCEPT !.ids = ids]
<1>8. job'[p] = k
  BY <1>1, <1>2, <1>3, <1>4
<1>9. /\ k.all = j.all /\ k.login = j.login /\ k.num = j.num /\ k.tags = j.tags
      /\ k.ids = ids
  BY <1>2 DEF Job
<1> HIDE DEF k
<1>10. Offers(k)
  <2>1. Rankables(k) = Rankables(j)
    BY <1>9 DEF Rankables, Rankable
  <2> QED
    BY <1>7, <1>9, <2>1 DEF Offers
<1>11. \A n \in DOMAIN ids : ids[n] \in DOMAIN users
  BY <1>6, <1>7 DEF ToSet
<1>12. Knows("reread", k, DOMAIN users) /\ Knows("answered", k, DOMAIN users)
  BY <1>6, <1>9, <1>10, <1>11 DEF Knows
<1> QED
  BY <1>1, <1>8, <1>12 DEF RankKnows

(* All the ids are found, in the order they had.                           *)
LEMMA AllFound ==
  ASSUME NEW T, NEW ids \in Seq(T), \A n \in DOMAIN ids : ids[n] \in DOMAIN users
  PROVE  FoundIds(ids) = ids
<1>1. PICK l \in Nat : l = Len(ids) /\ DOMAIN ids = 1 .. l
  OBVIOUS
<1>2. /\ {n \in DOMAIN ids : ids[n] \in DOMAIN users} = 1 .. l
      /\ IsFiniteSet(1 .. l) /\ Cardinality(1 .. l) = l
  <2>1. 1 \in Int /\ l \in Int
    OBVIOUS
  <2>2. IsFiniteSet(1 .. l) /\ Cardinality(1 .. l) = IF 1 > l THEN 0 ELSE l - 1 + 1
    BY <2>1, FS_Interval
  <2>3. Cardinality(1 .. l) = l
    BY <2>2
  <2>4. {n \in DOMAIN ids : ids[n] \in DOMAIN users} = 1 .. l
    BY <1>1
  <2> QED
    BY <2>2, <2>3, <2>4
<1>3. PICK s : s = Ascending(1 .. l)
  OBVIOUS
<1>4. /\ \A n \in 1 .. l : s[n] \in 1 .. l
      /\ \A i \in 1 .. l : \E n \in 1 .. l : s[n] = i
      /\ \A m, n \in 1 .. l : m < n => s[m] < s[n]
  <2>1. 1 .. l \subseteq Nat
    OBVIOUS
  <2> QED
    BY <1>2, <1>3, <2>1, AscendingOrder
<1>5. \A n \in 1 .. l : s[n] = n
  BY <1>4, InOrderAlready
<1>6. FoundIds(ids) = [n \in 1 .. l |-> ids[n]]
  BY <1>2, <1>3, <1>5 DEF FoundIds
<1> QED
  BY <1>1, <1>6

LEMMA RereadRanks ==
  ASSUME Typing, RankInv, NEW p \in Procs, Reread(p)
  PROVE  RankKnows(p)'
<1>1. /\ DOMAIN job = Procs /\ DOMAIN pc = Procs /\ JobOK(job[p]) /\ pc[p] = "reread"
      /\ users' = users /\ pc'[p] = "answered"
  BY DEF Typing, Reread
<1>2. PICK j : j = job[p] /\ j \in Job /\ Knows("reread", j, DOMAIN users)
  BY <1>1 DEF JobOK, RankInv, RankKnows
<1>3. FoundIds(j.ids) = j.ids
  BY <1>2, AllFound DEF Knows, Job
<1>4. PICK ids : ids = FoundIds(j.ids)
  OBVIOUS
<1> DEFINE k == [j EXCEPT !.ids = ids]
<1>5. job'[p] = k
  <2>1. job' = [job EXCEPT ![p].ids = ids]
    BY <1>2, <1>4 DEF Reread, FoundIds
  <2> QED
    BY <1>1, <1>2, <2>1
<1>6. /\ k.all = j.all /\ k.login = j.login /\ k.num = j.num /\ k.tags = j.tags
      /\ k.ids = j.ids
  BY <1>2, <1>3, <1>4 DEF Job
<1> HIDE DEF k
<1>7. Offers(k)
  BY <1>2, <1>6, OffersSame DEF Knows
<1>8. Knows("answered", k, DOMAIN users)
  BY <1>2, <1>6, <1>7 DEF Knows, MatchStages
<1> QED
  BY <1>1, <1>5, <1>8 DEF RankKnows

LEMMA RankInit == Init => RankInv
BY KnownNowhere DEF Init, AccountInit, RankInv, RankKnows, MatchStages

LEMMA RankStep ==
  ASSUME Typing, CodeInv, ScanInv, RankInv, [Next]_vars
  PROVE  RankInv'
<1>1. DOMAIN users \subseteq DOMAIN users' /\ DOMAIN pc = Procs /\ DOMAIN job = Procs
  BY TableGrows DEF Typing
<1>2. ASSUME NEW p \in Procs, pc'[p] = pc[p], job'[p] = job[p]
      PROVE  RankKnows(p)'
  BY <1>1, <1>2, KnownStill DEF RankInv, RankKnows
<1>3. ASSUME NEW p \in Procs, AccountStep(p), UNCHANGED job PROVE RankInv'
  <2>1. pc'[p] \notin MatchStages /\ \A q \in Procs \ {p} : pc'[q] = pc[q]
    BY <1>1, <1>3 DEF AccountStep, RegisterAccount, RegisterCode, RegisterCreate,
         StartUpdate, UpdateWrite, RequestFails, Over, MatchStages
  <2>2. RankKnows(p)'
    BY <2>1, KnownNowhere DEF RankKnows
  <2> QED
    BY <1>2, <1>3, <2>1, <2>2 DEF RankInv
<1>4. ASSUME NEW p \in Procs, MatchStep(p) PROVE RankInv'
  <2>1. \A q \in Procs \ {p} : pc'[q] = pc[q] /\ job'[q] = job[q]
    BY <1>1, <1>4 DEF MatchStep, StartMatch, NextBatch, PickUser, Rank, PopAll, Reread,
                      EndMatch
  <2>2. EndMatch(p) => RankKnows(p)'
    BY <1>1, KnownNowhere DEF EndMatch, RankKnows, MatchStages
  <2>3. RankKnows(p)'
    BY <1>4, <2>2, StartRanks, BatchRanks, PickRanks, RankRanks, PopRanks, RereadRanks
       DEF MatchStep
  <2> QED
    BY <1>2, <2>1, <2>3 DEF RankInv
<1>5. CASE UNCHANGED <<pc, job>>
  BY <1>2, <1>5 DEF RankInv
<1>6. CASE ((\E i \in DOMAIN users : SoftDelete(i)) \/ Tick) /\ UNCHANGED job
  BY <1>5, <1>6 DEF SoftDelete, Tick
<1> QED
  BY <1>3, <1>4, <1>5, <1>6, MatchAssumption DEF Next, Step, vars, accountVars

(* Whatever the heap kept and dropped, and whatever was written meanwhile, *)
(* an answer holds the nearest of the loaded candidates in order of their  *)
(* distance, as many as were asked for or all (distance.go:4, topk.go:29,  *)
(* match.go:95-141): no candidate left out is nearer than one offered.     *)
THEOREM NearestAreOffered == Spec => []NearestOffered
<1>1. ASSUME RankInv PROVE NearestOffered
  <2>1. ASSUME NEW p \in Procs, pc[p] = "answered" PROVE Offers(job[p])
    BY <1>1, <2>1 DEF RankInv, RankKnows, Knows
  <2> QED
    BY <2>1 DEF NearestOffered, Offers, Offering, Distances, Rankables
<1>2. Explained => CodeInv
  BY DEF Explained
<1> QED
  BY <1>1, <1>2, InitExplained, ExplainedStep, TypingInit, TypingStep, ScanInit, ScanStep,
     RankInit, RankStep, PTL DEF Spec
=============================================================================
