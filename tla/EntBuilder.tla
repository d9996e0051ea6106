----------------------------- MODULE EntBuilder -----------------------------
(***************************************************************************)
(* The create and update builders of the generated ent code: a program     *)
(* makes a builder, calls its setters and those of its mutation in any     *)
(* order, asks for old values, and saves it, again when saving fails.      *)
(* Calls name the fields of focus; a create gets its other required fields *)
(* as well.  One builder at a time, beside another session that writes to  *)
(* the same rows; hooks, edges to many and bulk inserts are left out.      *)
(***************************************************************************)
EXTENDS EntField, FiniteSets, Sequences

Team == INSTANCE EntTeam
User == INSTANCE EntUser
UserTeam == INSTANCE EntUserTeam

CONSTANTS
  Entities,   \* the entities looked at
  Names,      \* three different short texts
  MaxCalls,   \* bound on the calls of a behaviour, saves included
  MaxFocus    \* bound on the fields that calls name

ASSUME BuilderAssumption ==
  /\ Entities \subseteq {"team", "user", "user_team"}
  /\ Names \in [1 .. 3 -> Short] /\ MaxCalls \in Nat /\ MaxFocus \in Nat

VARIABLES
  entity, focus,  \* what the behaviour is about
  rows,           \* the table: row number i is rows[i]
  clock,
  b,              \* the builder with its mutation
  log,            \* what was asked of it (history)
  event           \* how the last step ended: a save is "saved", "failed", or
                  \* "lost" when the statement was executed but not answered

vars == <<entity, focus, rows, clock, b, log, event>>

Code == [team |-> Team!Code, user |-> User!Code, user_team |-> UserTeam!Code][entity]
Fields == DOMAIN Code.fields
Values(f) == Code.fields[f].values
Has(f, method) == method \in Code.fields[f].methods
Valid(f) == IF f \in DOMAIN Code.validator THEN Code.validator[f] ELSE Values(f)
Column(f) == Values(f) \cup (IF Has(f, "clear") THEN {Null} ELSE {})

Sample(f, n) ==
  CASE Code.fields[f].kind = "text" -> Names[n]
    [] Code.fields[f].kind = "number" ->
         CHOOSE v \in Valid(f) : \A w \in Valid(f) : v <= w
    [] Code.fields[f].kind = "time" -> 0
    [] Code.fields[f].kind = "key" -> CHOOSE i \in Ids : TRUE

(* A row in the table before the behaviour, with or without NULLs.         *)
SampleRow(n, full) ==
  [f \in Fields |-> IF Has(f, "clear") /\ ~ full THEN Null ELSE Sample(f, n)]

(* new...Mutation: nothing is set, added, cleared or asked yet.            *)
Mutation(kind, id) ==
  [kind |-> kind, id |-> id, val |-> [f \in Fields |-> {}],
   add |-> [f \in Fields |-> {}], cleared |-> {}, edgeCleared |-> {},
   preds |-> {}, done |-> FALSE, asked |-> FALSE, old |-> {}]

Keep == [how |-> "keep", val |-> {}]
Log(calls, added, olds) ==
  [calls |-> calls, added |-> added, olds |-> olds, want |-> [f \in Fields |-> Keep],
   clash |-> {}, tested |-> {}, tried |-> FALSE]

TypeOK ==
  /\ rows \in Seq([Fields -> UNION {Column(f) : f \in Fields}])
  /\ \A i \in DOMAIN rows, f \in Fields : rows[i][f] \in Column(f)
  /\ clock \in 0 .. MaxClock /\ event \in {"none", "saved", "failed", "lost"}
  /\ b.kind \in {"none", "create", "update", "updateOne"}
  /\ \A f \in Fields :
       /\ b.val[f] \subseteq Values(f) /\ Cardinality(b.val[f]) <= 1
       /\ b.add[f] \subseteq Nat /\ (b.add[f] # {} => Has(f, "add"))
  /\ b.cleared \subseteq {f \in Fields : Has(f, "clear")} \cup Code.edges
  /\ b.edgeCleared \subseteq Code.edges
  /\ \A p \in b.preds : p.accepts \subseteq Values(p.field) \cup {Null}

Init ==
  /\ entity \in Entities
  /\ focus \in {F \in SUBSET Fields : Cardinality(F) \in 1 .. MaxFocus}
  /\ rows = <<SampleRow(1, FALSE), SampleRow(2, TRUE)>>
  /\ clock = 0 /\ b = Mutation("none", 0) /\ log = Log(0, {}, {})
  /\ event = "none"

-----------------------------------------------------------------------------
(* The methods of a mutation.                                              *)

(* Mutant: SetX leaves what was added before.                              *)
SetBesideAdd(m, f, v) == [m EXCEPT !.val[f] = {v}]

(* SetX; it forgets what was added, but not that the field was cleared.    *)
Set(m, f, v) == [m EXCEPT !.val[f] = {v}, !.add[f] = {}]

AddTo(m, f, d) ==
  [m EXCEPT !.add[f] = IF @ = {} THEN {d} ELSE {x + d : x \in @}]

(* Mutant: ClearX points the field at NULL.                                *)
ClearToNull(m, f) ==
  [m EXCEPT !.val[f] = {Null}, !.add[f] = {}, !.cleared = @ \cup {f}]

Clear(m, f) == [m EXCEPT !.val[f] = {}, !.add[f] = {}, !.cleared = @ \cup {f}]

(* ResetX; the field of an edge stays among the cleared ones.              *)
Reset(m, f) ==
  [m EXCEPT !.val[f] = {}, !.add[f] = {},
            !.cleared = IF f \in Code.edges THEN @ ELSE @ \ {f}]

ClearEdge(m, f) ==
  [m EXCEPT !.edgeCleared = @ \cup {f}, !.cleared = @ \cup {f}]
ResetEdge(m, f) ==
  [m EXCEPT !.val[f] = {}, !.edgeCleared = @ \ {f}]

(* The setter of an update builder resets a number before it sets it.      *)
BuilderSet(m, f, v) ==
  Set(IF m.kind # "create" /\ Has(f, "add") THEN Reset(m, f) ELSE m, f, v)

(* The sets of values that predicates with this operator accept.  Which    *)
(* texts a search or the database's order of texts finds is left open; a   *)
(* comparison with NULL is never true.                                     *)
Accepted(f, op) ==
  CASE op \in {"EQ", "In"} -> {{v} : v \in Values(f)}
    [] op \in {"NEQ", "NotIn"} -> {Values(f) \ {v} : v \in Values(f)}
    [] op = "IsNil" -> {{Null}}
    [] op = "NotNil" -> {Values(f)}
    [] op \in Orders \cup Searches /\ Code.fields[f].kind = "text" -> SUBSET Values(f)
    [] op \in Orders /\ Code.fields[f].kind # "text" ->
         {{w \in Values(f) : \/ op \in {"GT", "GTE"} /\ w > v
                             \/ op \in {"LT", "LTE"} /\ w < v
                             \/ op \in {"GTE", "LTE"} /\ w = v} : v \in Values(f)}

(* Not: what is neither true nor unknown.                                  *)
Negation(f, op, S) ==
  (Values(f) \cup (IF op \in NilTests THEN {Null} ELSE {})) \ S

(* The predicates on a field, plain and negated.                           *)
Predicates(f) ==
  UNION {{[field |-> f, accepts |-> T, nil |-> op \in NilTests] :
            T \in Accepted(f, op) \cup {Negation(f, op, S) : S \in Accepted(f, op)}} :
         op \in Code.preds[f]}

-----------------------------------------------------------------------------
(* Making a builder and calling it.                                        *)
Create ==
  LET given == Code.requires \ (focus \cup DOMAIN Code.defaults[clock])
      m == Mutation("create", 0)
  IN /\ b.kind = "none" /\ Len(rows) = 2
     /\ b' = [m EXCEPT !.val = [f \in Fields |-> IF f \in given THEN {Sample(f, 3)} ELSE {}]]
     /\ log' = [Log(log.calls, log.added, {}) EXCEPT !.want =
          [f \in Fields |-> IF f \in given THEN [how |-> "set", val |-> {Sample(f, 3)}]
                            ELSE Keep]]

Update ==
  /\ b.kind = "none"
  /\ b' = Mutation("update", 0) /\ log' = Log(log.calls, log.added, {})

(* The row with this id, or none.                                          *)
Found(table, id) == IF id \in DOMAIN table THEN {table[id]} ELSE {}

(* UpdateOneID, with an id that may be gone: its row is not read yet.      *)
UpdateOneID ==
  /\ b.kind = "none"
  /\ \E id \in 1 .. Len(rows) + 1 :
       /\ b' = Mutation("updateOne", id)
       /\ log' = Log(log.calls, log.added, Found(rows, id))

(* An entity in the caller's hands: loaded now, or before the behaviour.   *)
Loaded(id) == Found(rows, id) \cup Found(<<SampleRow(1, FALSE), SampleRow(2, TRUE)>>, id)

(* UpdateOne of an entity, which answers for the old values as it is.      *)
UpdateOne ==
  /\ b.kind = "none"
  /\ \E id \in DOMAIN rows : \E node \in Loaded(id) :
       /\ b' = [Mutation("updateOne", id) EXCEPT !.asked = TRUE, !.old = {node}]
       /\ log' = Log(log.calls, log.added, {node})

Want(f, how, val, clash) ==
  log' = [log EXCEPT !.calls = @ + 1, !.want[f] = [how |-> how, val |-> val],
                     !.clash = clash]

(* A setter of the builder or of its mutation.                             *)
CallSet(f) ==
  \E v \in Values(f) :
    \/ /\ f \in Code[b.kind].set
       /\ b' = BuilderSet(b, f, v)
       /\ Want(f, "set", {v},
               IF b.kind # "create" /\ Has(f, "add") THEN log.clash \ {f}
               ELSE IF log.want[f].how = "null" THEN log.clash \cup {f} ELSE log.clash)
    \/ /\ b' = Set(b, f, v)
       /\ Want(f, "set", {v},
               IF log.want[f].how = "null" THEN log.clash \cup {f} ELSE log.clash)

CallAdd(f) ==
  /\ f \in Code[b.kind].add
  /\ b' = AddTo(b, f, 1)
  /\ LET before == log.want[f]
     IN IF before.how = "add"
        THEN Want(f, "add", {d + 1 : d \in before.val}, log.clash)
        ELSE Want(f, "add", {1},
                  IF before.how = "keep" THEN log.clash ELSE log.clash \cup {f})

CallClear(f) ==
  /\ Has(f, "clear")
  /\ b' = Clear(b, f) /\ Want(f, "null", {}, log.clash \ {f})

CallReset(f) ==
  /\ Has(f, "reset")
  /\ b' = Reset(b, f) /\ Want(f, "keep", {}, log.clash \ {f})

CallEdge(f) ==
  /\ f \in Code.edges
  /\ \/ /\ b' = ClearEdge(b, f)
        /\ Want(f, "null", {}, IF b.val[f] # {} THEN log.clash \cup {f} ELSE log.clash)
     \/ b' = ResetEdge(b, f) /\ Want(f, "keep", {}, log.clash)

CallWhere(f) ==
  /\ b.kind \in {"update", "updateOne"}
  /\ \E p \in Predicates(f) :
       /\ b' = [b EXCEPT !.preds = @ \cup {p}]
       /\ log' = [log EXCEPT !.calls = @ + 1,
                    !.tested = IF p.nil THEN @ ELSE @ \cup {f}]

(* A call of a setter, clearer or the like; the bound leaves one to a save. *)
Call ==
  /\ b.kind # "none" /\ log.calls + 1 < MaxCalls
  /\ \E f \in focus :
       \/ CallSet(f) \/ CallAdd(f) \/ CallClear(f) \/ CallReset(f)
       \/ CallEdge(f) \/ CallWhere(f)

(* Mutant: the old values are read whenever they are asked for.            *)
AskOldAnyTime ==
  /\ b.kind = "updateOne" /\ ~ b.asked /\ log.calls < MaxCalls
  /\ \E old \in {{}, Found(rows, b.id)} :
       b' = [b EXCEPT !.asked = TRUE, !.old = old]
  /\ log' = [log EXCEPT !.calls = @ + 1]

(* OldX: the row is read once, when it is first asked for, and not after a *)
(* save was answered; the read may fail, and is not repeated then.         *)
AskOld ==
  /\ b.kind = "updateOne" /\ ~ b.asked /\ log.calls < MaxCalls
  /\ \E old \in {{}, IF b.done THEN {} ELSE Found(rows, b.id)} :
       b' = [b EXCEPT !.asked = TRUE, !.old = old]
  /\ log' = [log EXCEPT !.calls = @ + 1]

Drop ==
  /\ b.kind # "none"
  /\ b' = Mutation("none", 0) /\ log' = Log(log.calls, log.added, {})

-----------------------------------------------------------------------------
(* Saving.                                                                 *)

(* defaults: they stay in the mutation when saving fails.                  *)
Defaults(m) ==
  LET d == IF m.kind = "create" THEN Code.defaults[clock] ELSE Code.refresh[clock]
      needed == {f \in DOMAIN d : m.val[f] = {}}
  IN [m EXCEPT !.val = [f \in Fields |-> IF f \in needed THEN {d[f]} ELSE m.val[f]],
               !.add = [f \in Fields |-> IF f \in needed THEN {} ELSE m.add[f]]]

(* check.                                                                  *)
Checked(m) ==
  IF m.kind = "create"
  THEN /\ \A f \in Code.requires : m.val[f] # {}
       /\ \A f \in DOMAIN Code.validator : m.val[f] \subseteq Valid(f)
  ELSE /\ \A f \in Code.checks[m.kind] : m.val[f] \subseteq Valid(f)
       /\ \A f \in Code.edges \cap m.edgeCleared : m.val[f] = {}

Written(m, f) == CHOOSE v \in m.val[f] : TRUE

(* createSpec.                                                             *)
NewRow(m) ==
  [f \in Fields |-> IF f \in Code.columns /\ m.val[f] # {} THEN Written(m, f) ELSE Null]

(* The constraints of the tables, and the bound on numbers.                *)
Storable(table) ==
  /\ \A i \in DOMAIN table, f \in Fields : table[i][f] \in Column(f)
  /\ \A i, j \in DOMAIN table : \A f \in Code.unique :
       table[i][f] = table[j][f] => i = j

(* The predicate of an update.                                             *)
Matching(m) ==
  {i \in DOMAIN rows : /\ m.kind = "updateOne" => i = m.id
                       /\ \A p \in m.preds : rows[i][p.field] \in p.accepts}

(* sqlSave: the assignments of column f in a row that holds old there.     *)
Assigned(m, f, old, zero) ==
  LET spec == Code.spec[m.kind]
  IN [set |-> IF f \in spec.set \cup Code.edges THEN m.val[f] ELSE {},
      clear |-> IF f \in spec.clear \cap m.cleared \/ f \in m.edgeCleared
                THEN {Null} ELSE {},
      add |-> IF f \notin spec.add THEN {}
              ELSE {IF old # Null THEN old + d ELSE IF zero THEN d ELSE Null : d \in m.add[f]}]

(* What the library makes of a column that is assigned twice, and of a sum *)
(* with NULL, is left open.                                                *)
Left(m, f, old, first, zero) ==
  LET a == Assigned(m, f, old, zero)
      all == a.set \cup a.clear \cup a.add
  IN IF a[first] # {} THEN CHOOSE v \in a[first] : TRUE
     ELSE IF all # {} THEN CHOOSE v \in all : TRUE ELSE old

Insert(m) ==
  /\ m.kind = "create" /\ ~ m.done
  /\ rows' = Append(rows, NewRow(m)) /\ Storable(rows')

Change(m) ==
  /\ m.kind \in {"update", "updateOne"}
  /\ m.kind = "updateOne" => Matching(m) # {}
  /\ \E first \in {"set", "clear", "add"}, zero \in BOOLEAN :
       rows' = [i \in DOMAIN rows |->
         IF i \in Matching(m)
         THEN [f \in Fields |-> Left(m, f, rows[i][f], first, zero)]
         ELSE rows[i]]
  /\ Storable(rows')

(* History: what UpdateOneID's row holds after this step, as long as it    *)
(* has not been read and no save was answered.                             *)
Unread ==
  IF b'.kind = "updateOne" /\ ~ b'.asked /\ ~ b'.done THEN Found(rows', b'.id) ELSE {}

(* A failed check, a broken constraint or a database error changes no row, *)
(* unless the statement was executed and its answer lost: then the error   *)
(* is returned before the mutation is done.                                *)
Save ==
  /\ b.kind # "none" /\ log.calls < MaxCalls
  /\ LET m == Defaults(b)
     IN \/ event' = "failed" /\ b' = m /\ UNCHANGED rows
        \/ /\ Checked(m) /\ (Insert(m) \/ Change(m))
           /\ \/ /\ event' = "saved"
                 /\ b' = [m EXCEPT !.id = IF m.kind = "create" THEN Len(rows') ELSE @,
                                   !.done = TRUE]
              \/ event' = "lost" /\ b' = m
  /\ log' = [log EXCEPT !.calls = @ + 1, !.tried = TRUE, !.olds = @ \cup Unread,
       !.added = @ \cup {f \in Fields : b.add[f] # {}}]

(* Another session gives a column of a row a value the schema allows.      *)
OtherWrites ==
  /\ log.calls + 1 < MaxCalls
  /\ \E i \in DOMAIN rows, f \in focus \ Code.immutable :
       \E v \in Valid(f) \cup (Column(f) \cap {Null}) :
         v # rows[i][f] /\ rows' = [rows EXCEPT ![i][f] = v]
  /\ Storable(rows') /\ UNCHANGED b
  /\ log' = [log EXCEPT !.calls = @ + 1, !.olds = @ \cup Unread]

Tick == clock < MaxClock /\ clock' = clock + 1 /\ UNCHANGED <<rows, b, log>> /\ event' = "none"

Next ==
  /\ UNCHANGED <<entity, focus>>
  /\ \/ /\ Create \/ Update \/ UpdateOneID \/ UpdateOne \/ Call \/ AskOld \/ Drop
        /\ UNCHANGED <<rows, clock>> /\ event' = "none"
     \/ Save /\ UNCHANGED clock
     \/ OtherWrites /\ UNCHANGED clock /\ event' = "none"
     \/ Tick

Spec == Init /\ [][Next]_vars

-----------------------------------------------------------------------------
(* Every row satisfies what the schema demands of its columns, whatever    *)
(* was called in whatever order, but for a column that AddX has touched:   *)
(* check validates what was set, and nothing looks at a sum                *)
(* (user_update.go:386, team_update.go:286).                               *)
SchemaKept ==
  \A i \in DOMAIN rows, f \in Fields :
    f \in log.added \/ rows[i][f] \in Valid(f) \cup (Column(f) \cap {Null})

(* A save, its answer lost or not, does what the last call on each column  *)
(* said, no matter what was called before, and nothing else: columns no    *)
(* call named keep their value, an immutable one always does, update_time  *)
(* moves, and rows that the predicates do not hold of, NULLs among them,   *)
(* are left alone.                                                         *)
(* Excepted are columns that were set after ClearX, or added to after SetX *)
(* or ClearX: the statement assigns them twice; and an edge cleared after  *)
(* it was set, which an INSERT writes all the same (mutation.go:204-307).  *)
Meant(f, old) ==
  LET w == log.want[f]
      refreshed == f \in DOMAIN Code.refresh[clock]
  IN IF f \in Code.immutable THEN {old}
     ELSE CASE w.how = "keep" /\ ~ refreshed -> {old}
            [] w.how = "keep" /\ refreshed -> IF log.tried THEN 0 .. clock ELSE {clock}
            [] w.how = "set" -> w.val
            [] w.how = "null" -> {Null}
            [] w.how = "add" ->
                 IF old = Null THEN {Null} \cup w.val ELSE {old + d : d \in w.val}

MeantNew(f) ==
  LET w == log.want[f]
      d == Code.defaults[clock]
  IN CASE w.how = "set" -> w.val
       [] w.how # "set" /\ f \in DOMAIN d ->
            IF log.tried /\ Code.fields[f].kind = "time" THEN 0 .. clock ELSE {d[f]}
       [] w.how # "set" /\ f \notin DOMAIN d -> {Null}

CallsDecide ==
  [][event' \in {"saved", "lost"} =>
       IF b.kind = "create"
       THEN \A f \in Fields \ log.clash : rows'[Len(rows')][f] \in MeantNew(f)
       ELSE \A i \in DOMAIN rows :
              IF \/ b.kind = "updateOne" /\ i # b.id
                 \/ i \notin Matching(b)
                 \/ \E f \in log.tested : rows[i][f] = Null
              THEN rows'[i] = rows[i]
              ELSE \A f \in Fields \ log.clash : rows'[i][f] \in Meant(f, rows[i][f])]_vars

(* OldX answers with the caller's entity, or with the row as it was at one *)
(* time before a save of this builder was answered: with another session's *)
(* late write perhaps, or with the builder's own if its answer was lost,   *)
(* but never with what a save has reported as done (mutation.go:84-110,    *)
(* team_update.go:901-909).                                                *)
OldPrecedesSave == b.old \subseteq log.olds
=============================================================================
